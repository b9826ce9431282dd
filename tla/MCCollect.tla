----------------------------- MODULE MCCollect -----------------------------
(***************************************************************************)
(* A store of three zones of two blocks.  Object `a` is one block and      *)
(* names a chunk of two, which straddles two zones when it is put after an *)
(* odd number of blocks; `b` is one block and, a generation's record,      *)
(* names the same chunk.  A zone with one live block of its two is worth   *)
(* sweeping.                                                               *)
(***************************************************************************)
EXTENDS Collect, TLC

CONSTANTS a, b, ca

MCZones == 1 .. 3

MCContent == (a :> <<ca>>) @@ (b :> <<ca>>)
MCKind    == (a :> "object") @@ (b :> "generation")
MCSize    == [h \in {a, b, ca} |-> IF h = ca THEN 2 ELSE 1]

(* Objects that share nothing. *)
MCContentApart == (a :> <<ca>>) @@ (b :> << >>)
MCAllObjects   == [o \in {a, b} |-> "object"]
=============================================================================
