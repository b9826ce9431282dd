----------------------------- MODULE MCBlockPath -----------------------------
(* One client with two pages in front of one block driver. *)
EXTENDS BlockPath
=============================================================================
