---------------------------- MODULE MCZoneQueue ----------------------------
(***************************************************************************)
(* Four entries in all, from every class, with and without a deadline.     *)
(***************************************************************************)
EXTENDS ZoneQueue
=============================================================================
