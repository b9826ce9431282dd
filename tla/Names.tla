-------------------------------- MODULE Names --------------------------------
(***************************************************************************)
(* What a registration table promises the clients of a place, whoever      *)
(* occupies it: a name is bound to one page until it is spent, a spent     *)
(* name is never bound again, a page has one name at a time, and only a    *)
(* restart, which is a new life of the table, forgets names.  A swap of    *)
(* the occupant is not a step here: it is invisible.                       *)
(***************************************************************************)
EXTENDS Integers

CONSTANTS Pages, None, Slots, Retired
VARIABLES bound, spent, life

Ids == Slots \X (1 .. Retired)
vars == <<bound, spent, life>>

Init ==
    /\ bound = [n \in Ids |-> None]
    /\ spent = {}
    /\ life \in Nat

Issue(n, p) ==
    /\ n \notin spent
    /\ \A m \in Ids : bound[m] # None => m[1] # n[1] /\ bound[m] # p
    /\ bound' = [bound EXCEPT ![n] = p]
    /\ UNCHANGED <<spent, life>>

Spend(n) ==
    /\ bound[n] # None
    /\ bound' = [bound EXCEPT ![n] = None]
    /\ spent' = spent \union {n}
    /\ UNCHANGED life

Restart ==
    /\ life' > life
    /\ bound' = [n \in Ids |-> None]
    /\ spent' = {}

Next ==
    \/ \E n \in Ids, p \in Pages : Issue(n, p)
    \/ \E n \in Ids : Spend(n)
    \/ Restart

Spec == Init /\ [][Next]_vars
=============================================================================
