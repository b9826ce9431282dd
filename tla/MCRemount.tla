----------------------------- MODULE MCRemount -----------------------------
(***************************************************************************)
(* Three data zones of three blocks, so that a record of two straddles a   *)
(* zone boundary; records of one block and of two; two cuts, each of which *)
(* may tear a block; and content put again whenever the store names it.    *)
(***************************************************************************)
EXTENDS Remount

MCSpans == {1, 2}
=============================================================================
