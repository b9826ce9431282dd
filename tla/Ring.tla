-------------------------------- MODULE Ring --------------------------------
(***************************************************************************)
(* The single-producer single-consumer submission ring of ring/src/lib.rs: *)
(* Producer (submit, batch, push, publish) on one core, Consumer (pop) on  *)
(* another, over one shared mapping.                                       *)
(*                                                                         *)
(* Memory.  A store sits in its core's buffer until it lands in `mem'.  A  *)
(* relaxed or plain store may land ahead of earlier stores to other        *)
(* locations; a Release store lands only after every earlier store of its  *)
(* core.  A SeqCst fence waits for the buffer to drain.  Loads happen in   *)
(* program order, which Acquire guarantees for every pair the code orders. *)
(* This is weaker than x86-64 and is what the orderings in the code buy.   *)
(***************************************************************************)
EXTENDS Naturals, Sequences

CONSTANTS Capacity,       \* entries.len(), a power of two
          CursorModulus,  \* 2^32 in the code; cursors are free running
          MaxIssued       \* bound: entries ever offered to submit or push

ASSUME RingAssumption ==
    /\ Capacity \in Nat \ {0}
    /\ CursorModulus \in Nat
    /\ CursorModulus % Capacity = 0
    /\ CursorModulus > Capacity
    /\ MaxIssued \in Nat

VARIABLES
    mem,     \* the mapping: what every core can see
    buf,     \* per core, the stores it has made that have not landed
    prod,    \* the producer's locals: pc, Batch.base, Batch.staged
    cons,    \* the consumer's locals: pc, the head it loaded, the slot
    issued,  \* entries built so far; entry n carries user_data n
    sent,    \* history: the entries published, in order
    got      \* history: the entries pop returned, in order

vars == <<mem, buf, prod, cons, issued, sent, got>>

Slots == 0 .. Capacity - 1
Cursors == 0 .. CursorModulus - 1

HEAD == <<"head", 0>>
TAIL == <<"tail", 0>>
EntryAt(s) == <<"entry", s>>
IndexAt(s) == <<"index", s>>
Locations == {HEAD, TAIL} \cup {EntryAt(s) : s \in Slots} \cup {IndexAt(s) : s \in Slots}
Cores == {"producer", "consumer"}

WrappingAdd(a, b) == (a + b) % CursorModulus
WrappingSub(a, b) == (a + CursorModulus - b) % CursorModulus
SlotOf(cursor) == cursor % Capacity

Relaxed(loc, v) == [loc |-> loc, val |-> v, release |-> FALSE]
Release(loc, v) == [loc |-> loc, val |-> v, release |-> TRUE]

\* What a core reads from a location: its own latest store, or memory.
View(core, loc) ==
    LET mine == {i \in DOMAIN buf[core] : buf[core][i].loc = loc}
    IN  IF mine = {} THEN mem[loc]
        ELSE buf[core][CHOOSE i \in mine : \A j \in mine : j <= i].val

\* Mutant: a Release store that is only Relaxed (mutate-relaxed-submission).
CanLandRelaxed(core, i) ==
    \A j \in 1 .. i - 1 : buf[core][j].loc # buf[core][i].loc

\* Store i may land: no earlier store to the same place, and, when it is a
\* Release, no earlier store at all.
CanLand(core, i) ==
    \A j \in 1 .. i - 1 :
        /\ buf[core][j].loc # buf[core][i].loc
        /\ ~buf[core][i].release

Land(core, i) ==
    /\ i \in DOMAIN buf[core]
    /\ CanLand(core, i)
    /\ mem' = [mem EXCEPT ![buf[core][i].loc] = buf[core][i].val]
    /\ buf' = [buf EXCEPT ![core] =
                  SubSeq(@, 1, i - 1) \o SubSeq(@, i + 1, Len(@))]
    /\ UNCHANGED <<prod, cons, issued, sent, got>>

Init ==
    /\ \E start \in Cursors :
          mem = [l \in Locations |-> IF l \in {HEAD, TAIL} THEN start ELSE 0]
    /\ buf = [c \in Cores |-> <<>>]
    /\ prod = [pc |-> "idle", base |-> 0, staged |-> <<>>]
    /\ cons = [pc |-> "idle", head |-> 0, slot |-> 0]
    /\ issued = 0
    /\ sent = <<>>
    /\ got = <<>>

----------------------------------------------------------------------------
(* The producer. *)

\* Positions the producer counts as taken when it writes at cursor `at'.
Used(at) == WrappingSub(at, mem[TAIL])

\* The entry, then the index word that names it; neither is visible yet.
Stage(at, entry) ==
    <<Relaxed(EntryAt(SlotOf(at)), entry), Relaxed(IndexAt(SlotOf(at)), SlotOf(at))>>

\* Mutant: the comparison off by one.
HasRoomOffByOne(at) == Used(at) <= Capacity

\* Room for one more at cursor `at'.  Full and Corrupt return without a store.
HasRoom(at) == Used(at) < Capacity

Submit ==
    LET head == View("producer", HEAD)
    IN  /\ prod.pc = "idle"
        /\ issued < MaxIssued
        /\ HasRoom(head)
        /\ issued' = issued + 1
        /\ buf' = [buf EXCEPT !["producer"] =
                      @ \o Stage(head, issued') \o <<Release(HEAD, WrappingAdd(head, 1))>>]
        /\ sent' = Append(sent, issued')
        /\ prod' = [prod EXCEPT !.pc = "fence"]
        /\ UNCHANGED <<mem, cons, got>>

BeginBatch ==
    /\ prod.pc = "idle"
    /\ issued < MaxIssued
    /\ prod' = [pc |-> "batch", base |-> View("producer", HEAD), staged |-> <<>>]
    /\ UNCHANGED <<mem, buf, cons, issued, sent, got>>

\* Where the next push of the open batch goes: past what it already staged.
NextPosition == WrappingAdd(prod.base, Len(prod.staged))

\* Mutant: occupancy taken from the shared head, blind to the staged entries.
PushBlind ==
    /\ prod.pc = "batch"
    /\ issued < MaxIssued
    /\ HasRoom(prod.base)
    /\ issued' = issued + 1
    /\ buf' = [buf EXCEPT !["producer"] = @ \o Stage(NextPosition, issued')]
    /\ prod' = [prod EXCEPT !.staged = Append(@, issued')]
    /\ UNCHANGED <<mem, cons, sent, got>>

Push ==
    /\ prod.pc = "batch"
    /\ issued < MaxIssued
    /\ HasRoom(NextPosition)
    /\ issued' = issued + 1
    /\ buf' = [buf EXCEPT !["producer"] = @ \o Stage(NextPosition, issued')]
    /\ prod' = [prod EXCEPT !.staged = Append(@, issued')]
    /\ UNCHANGED <<mem, cons, sent, got>>

\* Mutant: the published head leaves out the last staged entry.
PublishShort ==
    /\ prod.pc = "batch"
    /\ prod.staged # <<>>
    /\ buf' = [buf EXCEPT !["producer"] =
                  Append(@, Release(HEAD, WrappingAdd(prod.base, Len(prod.staged) - 1)))]
    /\ sent' = sent \o prod.staged
    /\ prod' = [prod EXCEPT !.pc = "fence", !.staged = <<>>]
    /\ UNCHANGED <<mem, cons, issued, got>>

\* An empty batch publishes nothing; dropping a batch without publishing it
\* leaves its entries behind the head, for the next one to overwrite.
Publish ==
    /\ prod.pc = "batch"
    /\ prod.staged # <<>>
    /\ buf' = [buf EXCEPT !["producer"] = Append(@, Release(HEAD, NextPosition))]
    /\ sent' = sent \o prod.staged
    /\ prod' = [prod EXCEPT !.pc = "fence", !.staged = <<>>]
    /\ UNCHANGED <<mem, cons, issued, got>>

DropBatch ==
    /\ prod.pc = "batch"
    /\ prod' = [prod EXCEPT !.pc = "idle", !.staged = <<>>]
    /\ UNCHANGED <<mem, buf, cons, issued, sent, got>>

\* The SeqCst fence of doorbell_wanted; the flag it then loads is Wakeup's.
Fence ==
    /\ prod.pc = "fence"
    /\ buf["producer"] = <<>>
    /\ prod' = [prod EXCEPT !.pc = "idle"]
    /\ UNCHANGED <<mem, buf, cons, issued, sent, got>>

----------------------------------------------------------------------------
(* The consumer. *)

\* Ok(None): nothing published, nothing changed.
PopEmpty ==
    /\ cons.pc = "idle"
    /\ mem[HEAD] = View("consumer", TAIL)
    /\ UNCHANGED vars

PopLoadHead ==
    /\ cons.pc = "idle"
    /\ WrappingSub(mem[HEAD], View("consumer", TAIL)) \in 1 .. Capacity
    /\ cons' = [cons EXCEPT !.pc = "index", !.head = mem[HEAD]]
    /\ UNCHANGED <<mem, buf, prod, issued, sent, got>>

\* A slot out of range is Corrupt; an honest producer never stores one.
PopLoadIndex ==
    LET slot == mem[IndexAt(SlotOf(View("consumer", TAIL)))]
    IN  /\ cons.pc = "index"
        /\ slot \in Slots
        /\ cons' = [cons EXCEPT !.pc = "entry", !.slot = slot]
        /\ UNCHANGED <<mem, buf, prod, issued, sent, got>>

\* The copy of the entry, and only then the store that gives the slot back.
PopCopy ==
    /\ cons.pc = "entry"
    /\ got' = Append(got, mem[EntryAt(cons.slot)])
    /\ buf' = [buf EXCEPT !["consumer"] =
                  Append(@, Release(TAIL, WrappingAdd(View("consumer", TAIL), 1)))]
    /\ cons' = [cons EXCEPT !.pc = "idle"]
    /\ UNCHANGED <<mem, prod, issued, sent>>

----------------------------------------------------------------------------

Produce == Submit \/ BeginBatch \/ Push \/ Publish \/ DropBatch \/ Fence
Consume == PopEmpty \/ PopLoadHead \/ PopLoadIndex \/ PopCopy
Landing == \E c \in Cores : \E i \in DOMAIN buf[c] : Land(c, i)

Next == Produce \/ Consume \/ Landing

Spec == Init /\ [][Next]_vars

\* Stores become visible in the end, a consumer that is running keeps
\* popping, and a core that is inside a call finishes it.
FairSpec == Spec /\ WF_vars(Landing) /\ WF_vars(Consume) /\ WF_vars(Fence)

----------------------------------------------------------------------------
(* What the ring promises. *)

\* While the consumer is copying an entry out of a slot, the producer has no
\* store to that slot in flight: the copy in Consumer::pop is never torn by
\* the write in Producer::stage, which is the SAFETY argument of both.
NoEntryRace ==
    cons.pc \in {"index", "entry"} =>
        \A i \in DOMAIN buf["producer"] :
            buf["producer"][i].loc \notin {EntryAt(SlotOf(View("consumer", TAIL))),
                                          IndexAt(SlotOf(View("consumer", TAIL)))}

\* Two honest ends never see RingError::Corrupt, across every wrap of the
\* cursors: whatever stale cursor either loads, the difference it computes is
\* at most the capacity, and the consumer's is never behind its own tail.
NeverCorrupt ==
    /\ Used(View("producer", HEAD)) <= Capacity
    /\ prod.pc = "batch" => Used(NextPosition) <= Capacity
    /\ WrappingSub(mem[HEAD], View("consumer", TAIL)) <= Capacity

\* The ring is a bounded FIFO of the published entries: nothing lost, nothing
\* twice, nothing out of order, no abandoned batch entry ever delivered.
Fifo == INSTANCE BoundedFifo
RefinesFifo == Fifo!Spec

\* Every published entry is popped in the end.
EveryEntryArrives == \A n \in 1 .. MaxIssued : (Len(sent) >= n) ~> (Len(got) >= n)
=============================================================================
