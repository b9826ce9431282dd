---------------------------- MODULE MCSupervise ----------------------------
(* An instance of Supervise for TLC: the successor is one frame larger than *)
(* the original, and an account holds either both at once or only one.      *)
EXTENDS Supervise, TLC

CONSTANTS m1, m2

MCOffered == (m1 :> 2) @@ (m2 :> 2)
MCParts == (m1 :> 1) @@ (m2 :> 2)
=============================================================================
