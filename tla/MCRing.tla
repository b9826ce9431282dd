------------------------------- MODULE MCRing -------------------------------
(* Ring for TLC: two slots, cursors modulo four, every starting cursor. *)
EXTENDS Ring
=============================================================================
