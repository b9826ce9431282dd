------------------------------ MODULE MCWakeup ------------------------------
(* Wakeup for TLC: rings of two and one, four submissions. *)
EXTENDS Wakeup
=============================================================================
