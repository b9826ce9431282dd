----------------------------- MODULE ZoneQueue -----------------------------
(***************************************************************************)
(* The device queue the collector shares with its clients                  *)
(* (zone/src/queue.rs): entries wait in rank order, at most IN_FLIGHT = 1  *)
(* is inside the device, and the collector drives the queue itself until   *)
(* the operation it submitted has been handed over.                        *)
(*                                                                         *)
(* `flight` is the Option in_flight, as a set of at most one entry.        *)
(* `mine` is the sequence number collector_operation is looping for, or 0. *)
(***************************************************************************)
EXTENDS Integers, FiniteSets

CONSTANTS
    Deadlines,   \* the deadlines clients submit with; 0 is NO_DEADLINE
    Never,       \* u64::MAX, where NO_DEADLINE ranks
    MaxSeq       \* bound on the entries submitted

ASSUME QueueAssumption ==
    /\ Never \in Nat
    /\ Deadlines \subseteq 0 .. Never
    /\ MaxSeq \in Nat

Hard  == 0
Soft  == 1
Batch == 2
Idle  == 3
Classes == Hard .. Idle

Entries == [class : Classes, deadline : 0 .. Never, seq : Nat \ {0}, collector : BOOLEAN]

VARIABLES pending, flight, ahead, worst, next, mine

vars == <<pending, flight, ahead, worst, next, mine>>

-----------------------------------------------------------------------------
Due(e) == IF e.deadline = 0 THEN Never ELSE e.deadline

(* Arrival order: what the queue would be without rank. *)
ByArrival(e, f) == e.seq < f.seq

(* rank: the class, then the deadline, then the arrival. *)
RanksBefore(e, f) ==
    \/ e.class < f.class
    \/ e.class = f.class /\ Due(e) < Due(f)
    \/ e.class = f.class /\ Due(e) = Due(f) /\ e.seq < f.seq

Urgent(e) == e.class < Batch

First(e) == e \in pending /\ \A f \in pending \ {e} : RanksBefore(e, f)

Init ==
    /\ pending = {} /\ flight = {}
    /\ ahead = [s \in {} |-> 0]
    /\ worst = 0 /\ next = 0 /\ mine = 0

(* An urgent entry starts behind whatever the collector has in the device. *)
StartedBehind(inside) == IF \E f \in inside : f.collector THEN 1 ELSE 0

Submit(class, deadline, collector) ==
    LET e == [class |-> class, deadline |-> deadline, seq |-> next + 1, collector |-> collector]
    IN  /\ next < MaxSeq
        /\ next' = next + 1
        /\ pending' = pending \cup {e}

(* An urgent entry's count starts with it. *)
Counted(class, counts, inside) ==
    IF class < Batch
      THEN [s \in DOMAIN counts \cup {next + 1} |->
              IF s = next + 1 THEN StartedBehind(inside) ELSE counts[s]]
      ELSE counts

SubmitClient(class, deadline) ==
    /\ mine = 0
    /\ Submit(class, deadline, FALSE)
    /\ ahead' = Counted(class, ahead, flight)
    /\ UNCHANGED <<flight, worst, mine>>

SubmitCollector ==
    /\ mine = 0
    /\ Submit(Batch, 0, TRUE)
    /\ UNCHANGED <<flight, ahead, worst, mine>>

(* hand_over that does not tell the operation its entry is inside. *)
HandOverUnseen ==
    \E e \in pending :
        /\ flight = {}
        /\ First(e)
        /\ pending' = pending \ {e}
        /\ flight' = {e}
        /\ ahead' = [s \in DOMAIN ahead |-> IF e.collector THEN ahead[s] + 1 ELSE ahead[s]]
        /\ UNCHANGED <<worst, next, mine>>

(* The entry that ranks first goes into an empty device; a collector's entry
   is counted against every urgent entry that has not completed. *)
HandOver ==
    \E e \in pending :
        /\ flight = {}
        /\ First(e)
        /\ pending' = pending \ {e}
        /\ flight' = {e}
        /\ ahead' = [s \in DOMAIN ahead |-> IF e.collector THEN ahead[s] + 1 ELSE ahead[s]]
        /\ mine' = IF e.seq = mine THEN 0 ELSE mine
        /\ UNCHANGED <<worst, next>>

(* The entry leaves the device, and an urgent one takes its count with it. *)
Completed(e) ==
    /\ flight' = {}
    /\ worst' = IF Urgent(e) /\ e.seq \in DOMAIN ahead /\ ahead[e.seq] > worst
                  THEN ahead[e.seq] ELSE worst
    /\ ahead' = [s \in DOMAIN ahead \ (IF Urgent(e) THEN {e.seq} ELSE {}) |-> ahead[s]]

Complete ==
    \E e \in flight :
        /\ Completed(e)
        /\ UNCHANGED <<pending, next, mine>>

(* collector_operation: settle, submit, then hand over and complete until
   its own entry is the one inside. *)
CollectorOperation ==
    /\ mine = 0
    /\ IF flight = {} THEN UNCHANGED <<flight, worst, ahead>> ELSE \E e \in flight : Completed(e)
    /\ Submit(Batch, 0, TRUE)
    /\ mine' = next + 1

Next ==
    \/ \E class \in Classes, deadline \in Deadlines : SubmitClient(class, deadline)
    \/ SubmitCollector
    \/ HandOver
    \/ Complete
    \/ CollectorOperation

Spec == Init /\ [][Next]_vars

(* The loop is one call that returns: it does not stop between its steps. *)
FairSpec == Spec /\ WF_vars(mine # 0 /\ (HandOver \/ Complete))

-----------------------------------------------------------------------------
(* Sequence numbers name one entry each, and none is from the future. *)
SeqsAreUnique ==
    /\ \A e \in pending \cup flight : e.seq <= next
    /\ \A e, f \in pending : e.seq = f.seq => e = f
    /\ \A e \in flight, f \in pending : e.seq # f.seq

(* The collector submits at batch and nowhere else. *)
CollectorsAreBatch == \A e \in pending \cup flight : e.collector => e.class = Batch

(* Type correctness, with the device's depth: at most IN_FLIGHT entries are
   ever inside it, whoever drives the queue. *)
TypeOK ==
    /\ pending \subseteq Entries
    /\ flight \subseteq Entries
    /\ \A e, f \in flight : e = f
    /\ ahead \in [DOMAIN ahead -> Nat]
    /\ worst \in Nat
    /\ next \in Nat
    /\ mine \in Nat

(* I3: no urgent entry ever waits for more than one collector operation, the
   one that may be inside the device when it arrives; so the maximum the
   queue publishes, which the reset guard reads, is never above the bound. *)
CollectionNeverStarvesAnUrgentRead ==
    worst <= 1 /\ \A s \in DOMAIN ahead : ahead[s] <= 1

(* The device is given a collector operation only when no urgent entry is
   waiting, so what an urgent entry can be behind was inside before it came. *)
CollectorNeverOvertakes ==
    [][\A e \in flight' \ flight : e.collector => \A f \in pending' : ~Urgent(f)]_vars

(* The counts are those of the urgent entries that have not completed: none
   is lost while its entry waits, and none outlives it. *)
CountsAreOfTheWaiting ==
    DOMAIN ahead = {e.seq : e \in {f \in pending \cup flight : Urgent(f)}}

(* collector_operation returns: its entry reaches the device however many
   more urgent ones are before it. *)
EveryOperationReturns == (mine # 0) ~> (mine = 0)

(* The inductive invariant: what the properties need of one another. *)
IInv ==
    /\ TypeOK
    /\ SeqsAreUnique
    /\ CollectorsAreBatch
    /\ CountsAreOfTheWaiting
    /\ CollectionNeverStarvesAnUrgentRead
=============================================================================
