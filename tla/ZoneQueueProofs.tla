-------------------------- MODULE ZoneQueueProofs --------------------------
(***************************************************************************)
(* The collector's queue keeps I3 whatever the deadlines, however many     *)
(* entries are submitted and whoever drives it.  The argument: a collector *)
(* entry ranks at batch, so it is first only when no urgent entry waits;   *)
(* the device is empty when it is handed over; so the urgent entries with  *)
(* a count, which are those waiting or inside, are then none at all, and   *)
(* no count ever grows from where it started, which is at most one.        *)
(***************************************************************************)
EXTENDS ZoneQueue, TLAPS

(* Handing a collector's entry to an empty device finds no count to raise:
   this is the step where I3 could break. *)
LEMMA NoCountIsRaised ==
    ASSUME IInv, flight = {}, NEW e \in pending, First(e), e.collector
    PROVE  DOMAIN ahead = {} /\ \A f \in pending : ~Urgent(f)
<1>1. e.class = Batch
  BY DEF IInv, CollectorsAreBatch
<1>2. \A f \in pending : f.class \in Int /\ Due(f) \in Int /\ f.seq \in Int
  BY QueueAssumption DEF QueueAssumption, IInv, TypeOK, Entries, Due, Classes, Hard, Idle
<1>3. \A f \in pending : ~Urgent(f)
  <2> SUFFICES ASSUME NEW f \in pending PROVE ~Urgent(f)
    OBVIOUS
  <2>1. CASE f = e
    BY <2>1, <1>1 DEF Urgent, Batch
  <2>2. CASE f # e
    <3>1. RanksBefore(e, f)
      BY <2>2 DEF First
    <3>2. e.class <= f.class
      BY <3>1, <1>2 DEF RanksBefore
    <3> QED
      BY <3>2, <1>1, <1>2 DEF Urgent, Batch
  <2> QED
    BY <2>1, <2>2
<1>4. {f \in pending \cup flight : Urgent(f)} = {}
  BY <1>3
<1> QED
  BY <1>3, <1>4 DEF IInv, CountsAreOfTheWaiting

LEMMA InitIInv == Init => IInv
<1> SUFFICES ASSUME Init PROVE IInv
  OBVIOUS
<1>1. TypeOK
  BY DEF Init, TypeOK
<1>2. SeqsAreUnique /\ CollectorsAreBatch
  BY DEF Init, SeqsAreUnique, CollectorsAreBatch
<1>3. CountsAreOfTheWaiting
  BY DEF Init, CountsAreOfTheWaiting
<1>4. CollectionNeverStarvesAnUrgentRead
  BY DEF Init, CollectionNeverStarvesAnUrgentRead
<1> QED
  BY <1>1, <1>2, <1>3, <1>4 DEF IInv

LEMMA BatchIsAClass == Batch \in Classes /\ 0 \in 0 .. Never
BY QueueAssumption DEF QueueAssumption, Batch, Classes, Hard, Idle

(* What submitting an entry of any kind keeps: it is typed, its sequence
   number is new, and the entries inside the device are not touched or gone. *)
LEMMA SubmitKeeps ==
    ASSUME IInv, NEW c \in Classes, NEW d \in 0 .. Never, NEW k \in BOOLEAN,
           Submit(c, d, k), k => c = Batch, flight' \subseteq flight
    PROVE  /\ pending' \subseteq Entries
           /\ next' \in Nat
           /\ SeqsAreUnique'
           /\ CollectorsAreBatch'
<1> DEFINE e == [class |-> c, deadline |-> d, seq |-> next + 1, collector |-> k]
<1>1. /\ pending' = pending \cup {e}
      /\ next' = next + 1
      /\ next \in Nat
      /\ pending \cup flight \subseteq Entries
      /\ \A f \in pending \cup flight : f.seq <= next /\ f.seq \in Nat
  BY DEF Submit, IInv, TypeOK, SeqsAreUnique, Entries
<1>2. e \in Entries
  BY <1>1 DEF Entries
<1>3. e.seq = next + 1 /\ e.class = c /\ e.collector = k
  OBVIOUS
<1> HIDE DEF e
<1>4. SeqsAreUnique'
  BY <1>1, <1>3 DEF IInv, SeqsAreUnique
<1>5. CollectorsAreBatch'
  BY <1>1, <1>3, Zenon DEF IInv, CollectorsAreBatch
<1> QED
  BY <1>1, <1>2, <1>4, <1>5

(* Retiring the entry inside the device. *)
LEMMA CompletedKeeps ==
    ASSUME IInv, NEW e \in flight, Completed(e)
    PROVE  /\ flight' = {}
           /\ worst' \in Nat /\ worst' <= 1
           /\ ahead' \in [DOMAIN ahead' -> Nat]
           /\ \A s \in DOMAIN ahead' : ahead'[s] <= 1
           /\ DOMAIN ahead' = {f.seq : f \in {g \in pending : Urgent(g)}}
<1>1. flight = {e}
  BY DEF IInv, TypeOK
<1>2. DOMAIN ahead = {f.seq : f \in {g \in pending \cup {e} : Urgent(g)}}
  BY <1>1 DEF IInv, CountsAreOfTheWaiting
<1>3. \A f \in pending : f.seq # e.seq
  BY DEF IInv, SeqsAreUnique
<1>4. DOMAIN ahead' = {f.seq : f \in {g \in pending : Urgent(g)}}
  <2>1. DOMAIN ahead' = DOMAIN ahead \ (IF Urgent(e) THEN {e.seq} ELSE {})
    BY DEF Completed
  <2>2. CASE Urgent(e)
    BY <2>1, <2>2, <1>2, <1>3
  <2>3. CASE ~Urgent(e)
    BY <2>1, <2>3, <1>2
  <2> QED
    BY <2>2, <2>3
<1>5. \A s \in DOMAIN ahead' : s \in DOMAIN ahead /\ ahead'[s] = ahead[s]
  BY DEF Completed
<1>6. /\ ahead' \in [DOMAIN ahead' -> Nat]
      /\ \A s \in DOMAIN ahead' : ahead'[s] <= 1
  <2>1. ahead' = [s \in DOMAIN ahead' |-> ahead[s]]
    BY DEF Completed
  <2> QED
    BY <2>1, <1>5 DEF IInv, TypeOK, CollectionNeverStarvesAnUrgentRead
<1>7. worst' \in Nat /\ worst' <= 1
  BY DEF Completed, IInv, TypeOK, CollectionNeverStarvesAnUrgentRead
<1>8. flight' = {}
  BY DEF Completed
<1> QED
  BY <1>4, <1>6, <1>7, <1>8

LEMMA NextIInv == IInv /\ [Next]_vars => IInv'
<1> SUFFICES ASSUME IInv, [Next]_vars PROVE IInv'
  OBVIOUS
<1>1. ASSUME NEW c \in Classes, NEW d \in Deadlines, SubmitClient(c, d) PROVE IInv'
  <2>1. Submit(c, d, FALSE) /\ flight' = flight /\ worst' = worst /\ mine' = mine
    BY <1>1 DEF SubmitClient
  <2>2. /\ pending' \subseteq Entries
        /\ next' \in Nat
        /\ SeqsAreUnique'
        /\ CollectorsAreBatch'
    BY <2>1, SubmitKeeps, QueueAssumption DEF QueueAssumption
  <2>3. ahead' = Counted(c, ahead, flight)
    BY <1>1 DEF SubmitClient
  <2>4. StartedBehind(flight) \in {0, 1}
    BY DEF StartedBehind
  <2>5. /\ ahead' \in [DOMAIN ahead' -> Nat]
        /\ \A s \in DOMAIN ahead' : ahead'[s] <= 1
    BY <2>3, <2>4 DEF Counted, IInv, TypeOK, CollectionNeverStarvesAnUrgentRead
  <2>6. CountsAreOfTheWaiting'
    <3> DEFINE e == [class |-> c, deadline |-> d, seq |-> next + 1, collector |-> FALSE]
    <3>1. pending' = pending \cup {e} /\ e.seq = next + 1 /\ (Urgent(e) <=> c < Batch)
      BY <2>1 DEF Submit, Urgent
    <3> HIDE DEF e
    <3>2. DOMAIN ahead' = DOMAIN ahead \cup (IF Urgent(e) THEN {next + 1} ELSE {})
      BY <2>3, <3>1 DEF Counted
    <3>3. {f.seq : f \in {g \in pending' \cup flight' : Urgent(g)}}
            = {f.seq : f \in {g \in pending \cup flight : Urgent(g)}}
                \cup (IF Urgent(e) THEN {next + 1} ELSE {})
      BY <2>1, <3>1
    <3> QED
      BY <3>2, <3>3 DEF IInv, CountsAreOfTheWaiting
  <2> QED
    BY <2>1, <2>2, <2>5, <2>6 DEF IInv, TypeOK, CollectionNeverStarvesAnUrgentRead
<1>2. CASE SubmitCollector
  <2>1. /\ Submit(Batch, 0, TRUE)
        /\ flight' = flight /\ worst' = worst /\ mine' = mine /\ ahead' = ahead
    BY <1>2 DEF SubmitCollector
  <2>2. /\ pending' \subseteq Entries
        /\ next' \in Nat
        /\ SeqsAreUnique'
        /\ CollectorsAreBatch'
    BY <2>1, SubmitKeeps, BatchIsAClass
  <2>3. {g \in pending' \cup flight' : Urgent(g)} = {g \in pending \cup flight : Urgent(g)}
    BY <2>1 DEF Submit, Urgent, Batch
  <2> QED
    BY <2>1, <2>2, <2>3
       DEF IInv, TypeOK, CountsAreOfTheWaiting, CollectionNeverStarvesAnUrgentRead
<1>3. CASE HandOver
  <2>1. PICK e \in pending :
          /\ flight = {}
          /\ First(e)
          /\ pending' = pending \ {e}
          /\ flight' = {e}
          /\ ahead' = [s \in DOMAIN ahead |-> IF e.collector THEN ahead[s] + 1 ELSE ahead[s]]
          /\ mine' = IF e.seq = mine THEN 0 ELSE mine
          /\ UNCHANGED <<worst, next>>
    BY <1>3 DEF HandOver
  <2>2. pending' \cup flight' = pending \cup flight
    BY <2>1
  <2>3. DOMAIN ahead' = DOMAIN ahead /\ \A s \in DOMAIN ahead : ahead'[s] = ahead[s]
    <3>1. CASE e.collector
      <4>1. DOMAIN ahead = {}
        BY <3>1, <2>1, NoCountIsRaised
      <4> QED
        BY <4>1, <2>1
    <3>2. CASE ~e.collector
      BY <3>2, <2>1
    <3> QED
      BY <3>1, <3>2
  <2>4. ahead' \in [DOMAIN ahead' -> Nat]
    <3>1. ahead' = [s \in DOMAIN ahead |-> ahead[s]]
      BY <2>1, <2>3
    <3> QED
      BY <3>1 DEF IInv, TypeOK
  <2>5. SeqsAreUnique'
    BY <2>1, <2>2 DEF IInv, SeqsAreUnique
  <2>6. CollectorsAreBatch'
    BY <2>2 DEF IInv, CollectorsAreBatch
  <2>7. CountsAreOfTheWaiting'
    BY <2>2, <2>3 DEF IInv, CountsAreOfTheWaiting
  <2>8. CollectionNeverStarvesAnUrgentRead'
    BY <2>1, <2>3 DEF IInv, CollectionNeverStarvesAnUrgentRead
  <2>9. TypeOK'
    BY <2>1, <2>4 DEF IInv, TypeOK
  <2> QED
    BY <2>5, <2>6, <2>7, <2>8, <2>9 DEF IInv
<1>4. CASE Complete
  <2>1. PICK e \in flight : Completed(e) /\ UNCHANGED <<pending, next, mine>>
    BY <1>4 DEF Complete
  <2>2. /\ flight' = {}
        /\ worst' \in Nat /\ worst' <= 1
        /\ ahead' \in [DOMAIN ahead' -> Nat]
        /\ \A s \in DOMAIN ahead' : ahead'[s] <= 1
        /\ DOMAIN ahead' = {f.seq : f \in {g \in pending : Urgent(g)}}
    BY <2>1, CompletedKeeps
  <2>3. CountsAreOfTheWaiting' /\ CollectionNeverStarvesAnUrgentRead'
    BY <2>1, <2>2 DEF CountsAreOfTheWaiting, CollectionNeverStarvesAnUrgentRead
  <2>4. SeqsAreUnique' /\ CollectorsAreBatch'
    BY <2>1, <2>2 DEF IInv, SeqsAreUnique, CollectorsAreBatch
  <2>5. TypeOK'
    BY <2>1, <2>2 DEF IInv, TypeOK
  <2> QED
    BY <2>3, <2>4, <2>5 DEF IInv
<1>5. CASE CollectorOperation
  <2>1. Submit(Batch, 0, TRUE) /\ mine' = next + 1 /\ next \in Nat
    BY <1>5 DEF CollectorOperation, IInv, TypeOK
  <2>2. /\ flight' = {}
        /\ worst' \in Nat /\ worst' <= 1
        /\ ahead' \in [DOMAIN ahead' -> Nat]
        /\ \A s \in DOMAIN ahead' : ahead'[s] <= 1
        /\ DOMAIN ahead' = {f.seq : f \in {g \in pending : Urgent(g)}}
    <3>1. CASE flight = {}
      <4>1. flight' = {} /\ worst' = worst /\ ahead' = ahead
        BY <1>5, <3>1 DEF CollectorOperation
      <4>2. pending \cup flight = pending
        BY <3>1
      <4> QED
        BY <4>1, <4>2
           DEF IInv, TypeOK, CountsAreOfTheWaiting, CollectionNeverStarvesAnUrgentRead
    <3>2. CASE flight # {}
      <4>1. \E e \in flight : Completed(e)
        BY <1>5, <3>2 DEF CollectorOperation
      <4> QED
        BY <4>1, CompletedKeeps
    <3> QED
      BY <3>1, <3>2
  <2>3. /\ pending' \subseteq Entries
        /\ next' \in Nat
        /\ SeqsAreUnique'
        /\ CollectorsAreBatch'
    BY <2>1, <2>2, SubmitKeeps, BatchIsAClass
  <2>4. {g \in pending' \cup flight' : Urgent(g)} = {g \in pending : Urgent(g)}
    BY <2>1, <2>2 DEF Submit, Urgent, Batch
  <2> QED
    BY <2>1, <2>2, <2>3, <2>4
       DEF IInv, TypeOK, CountsAreOfTheWaiting, CollectionNeverStarvesAnUrgentRead
<1>6. CASE UNCHANGED vars
  BY <1>6 DEF vars, IInv, TypeOK, SeqsAreUnique, CollectorsAreBatch, CountsAreOfTheWaiting,
              CollectionNeverStarvesAnUrgentRead
<1> QED
  BY <1>1, <1>2, <1>3, <1>4, <1>5, <1>6 DEF Next

(* Every operation of queue.rs keeps the inductive invariant. *)
THEOREM Invariance == Spec => []IInv
BY InitIInv, NextIInv, PTL DEF Spec

(* I3, for every depth of queue and every choice of deadlines. *)
THEOREM UrgentReadsAreNotStarved == Spec => []CollectionNeverStarvesAnUrgentRead
<1>1. IInv => CollectionNeverStarvesAnUrgentRead
  BY DEF IInv
<1> QED
  BY <1>1, Invariance, PTL

(* The counts are exactly those of the urgent entries not yet completed. *)
THEOREM CountsFollowTheWaiting == Spec => []CountsAreOfTheWaiting
<1>1. IInv => CountsAreOfTheWaiting
  BY DEF IInv
<1> QED
  BY <1>1, Invariance, PTL

(* A collector operation never enters the device past a waiting urgent entry. *)
THEOREM UrgentEntriesAreNotOvertaken == Spec => CollectorNeverOvertakes
<1> DEFINE Polite == \A e \in flight' \ flight : e.collector => \A f \in pending' : ~Urgent(f)
<1>1. IInv /\ [Next]_vars => [Polite]_vars
  <2> SUFFICES ASSUME IInv, Next, NEW e \in flight' \ flight, e.collector
               PROVE  \A f \in pending' : ~Urgent(f)
    OBVIOUS
  <2>1. HandOver
    BY DEF Next, SubmitClient, SubmitCollector, Complete, CollectorOperation, Completed
  <2>2. flight = {} /\ e \in pending /\ First(e) /\ pending' = pending \ {e}
    BY <2>1 DEF HandOver
  <2> QED
    BY <2>2, NoCountIsRaised
<1> QED
  BY <1>1, Invariance, PTL DEF Spec, CollectorNeverOvertakes
=============================================================================
