----------------------------- MODULE MCPublish -----------------------------
(***************************************************************************)
(* A carry of two.  A root zone of four blocks takes one publish after the *)
(* carry and one of five takes two, so seven of them wrap both ways; one   *)
(* of two blocks is too small to wrap.  The blobs of a tree are alike.     *)
(***************************************************************************)
EXTENDS Publish, TLC

Symmetry == Permutations(Blobs)
=============================================================================
