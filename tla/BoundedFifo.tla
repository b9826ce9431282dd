---------------------------- MODULE BoundedFifo ----------------------------
(***************************************************************************)
(* What a submission ring promises its two ends, as ring/src/lib.rs states *)
(* it for Producer and Consumer: a first-in first-out queue that never     *)
(* holds more than its capacity.  A submission adds one entry, a published *)
(* batch adds several at once.                                             *)
(***************************************************************************)
EXTENDS Naturals, Sequences

CONSTANTS Capacity
VARIABLES sent, got

Init == sent = <<>> /\ got = <<>>

\* Published entries stay as they were and at most Capacity are undelivered.
Publish ==
    /\ Len(sent') > Len(sent)
    /\ SubSeq(sent', 1, Len(sent)) = sent
    /\ Len(sent') - Len(got) <= Capacity
    /\ got' = got

Take ==
    /\ Len(got) < Len(sent)
    /\ got' = Append(got, sent[Len(got) + 1])
    /\ sent' = sent

Next == Publish \/ Take
Spec == Init /\ [][Next]_<<sent, got>>
=============================================================================
