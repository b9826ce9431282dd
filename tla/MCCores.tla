------------------------------ MODULE MCCores ------------------------------
(* Cores for TLC: the boot processor and two workers, a component of two   *)
(* pages, two components one after the other, a revocation.                *)
EXTENDS Cores
=============================================================================
