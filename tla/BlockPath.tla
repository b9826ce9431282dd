------------------------------ MODULE BlockPath ------------------------------
(***************************************************************************)
(* A client's registered buffers on their way through the block driver and *)
(* back: Idle and InFlight (ring/src/buffers.rs), the driver's serving     *)
(* loop and its registration table (user/virtio-blk, ring/src/registry.rs),*)
(* the virtqueue with its three fixed descriptors and its poll limit, the  *)
(* frame that answers the driver's translation requests                    *)
(* (kernel/src/supervisor.rs, iommu.rs), and the two ways the driver is    *)
(* replaced under the client (kernel/src/blk.rs, component.rs): killed and *)
(* started afresh, or swapped for a successor that replays its journal.    *)
(*                                                                         *)
(* A client registers any page, asks for reads into it and gives it back   *)
(* in any order.  A set has one buffer.  The order in which pending        *)
(* requests are picked is their rank, which clients choose: any order.     *)
(***************************************************************************)
EXTENDS Integers, Sequences, FiniteSets, SequencesExt

CONSTANTS Pages,        \* a client's pages, one buffer each
          LastSlot,     \* the table's slots are 0 .. LastSlot
          Retired,      \* SetId::RETIRED_GENERATION
          RecordsMax,   \* RECORDS_MAX, the journal's and the window's
          Capacity,     \* pending::CAPACITY
          MaxOut,       \* bound on a client's requests unanswered
          MaxAsks,      \* bound on registration requests
          MaxLate,      \* bound on polls that run out
          MaxLives,     \* bound on drivers started afresh
          MaxSwaps,     \* bound on swaps
          None          \* no page, no name

ASSUME BlockPathAssumption ==
    /\ LastSlot \in Nat /\ Retired \in Nat \ {0, 1}
    /\ RecordsMax \in Nat /\ Capacity \in Nat \ {0} /\ None \notin Pages

Slots == 0 .. LastSlot
Ids == Slots \X (1 .. Retired)

VARIABLES
    prompt,       \* the device answers in time, in this behaviour
    phase,        \* the client and the frame
    buf,          \* each page's buffer: "idle", "flying" or "leaked"
    name,         \* the set the client names each page by
    asked,        \* a registration request of the page is outstanding
    data,         \* what is in the page
    sq, cq,       \* the data ring, both ways
    drv,          \* the driver: where it is
    pending, cur, \* its queue, and the request it has in hand
    reply,        \* the frame's answer on the control ring
    told,         \* STOP has been posted
    gen, live, cap, lent,   \* the registration table
    journal, overflowed,    \* the deeds done
    desc, avail,  \* the data descriptor; chains offered and not fetched
    dev, used,    \* pages of the chains in the device; used elements not harvested
    status,       \* the driver's one status byte
    mapped,       \* pages the device's domain translates
    window, at, done,  \* the records handed over, the next one, how many were done
    asks, late, lives, swaps,
    was, dropped  \* history: the table that was handed over; that it could not be

client == <<buf, name, asked, data>>
ring == <<sq, cq>>
table == <<gen, live, cap, lent>>
log == <<journal, overflowed>>
queue == <<desc, avail, dev, used, status>>
transfer == <<window, at, done>>
counts == <<asks, late, lives, swaps>>
history == <<was, dropped>>
vars == <<prompt, phase, buf, name, asked, data, sq, cq, drv, pending, cur, reply, told,
          gen, live, cap, lent, journal, overflowed, desc, avail, dev, used, status, mapped,
          window, at, done, asks, late, lives, swaps, was, dropped>>

NoEntry == [op |-> "none", page |-> None, name |-> None]
Entry(op, p, n) == [op |-> op, page |-> p, name |-> n]

----------------------------------------------------------------------------
(* ring/src/registry.rs *)

\* slot_of: the id was issued by this table and is not retired.
Holds(n) == n # None /\ live[n[1]] /\ gen[n[1]] = n[2]

\* resolve refuses a buffer the device has.
Resolves(n) == Holds(n) /\ n[1] \notin lent

FreeSlots == {s \in Slots : ~live[s] /\ gen[s] # Retired}
FreeSlot == CHOOSE s \in FreeSlots : \A t \in FreeSlots : s <= t


Retire(g) == IF g = Retired THEN g ELSE g + 1

Fill(s, p) ==
    /\ gen' = [gen EXCEPT ![s] = IF @ = 0 THEN 1 ELSE @]
    /\ live' = [live EXCEPT ![s] = TRUE]
    /\ cap' = [cap EXCEPT ![s] = p]
    /\ lent' = lent \ {s}

Empty(s) ==
    /\ gen' = [gen EXCEPT ![s] = Retire(@)]
    /\ live' = [live EXCEPT ![s] = FALSE]
    /\ lent' = lent \ {s}
    /\ UNCHANGED cap

\* Mutant: only registrations are deeds.
RememberRegistrations(e) ==
    IF e.op = "register" /\ Len(journal) < RecordsMax
    THEN journal' = Append(journal, e) /\ UNCHANGED overflowed
    ELSE UNCHANGED <<journal, overflowed>>

\* Journal::record, on success and after the table answered.
Remember(e) ==
    IF Len(journal) >= RecordsMax
    THEN overflowed' = TRUE /\ UNCHANGED journal
    ELSE journal' = Append(journal, e) /\ UNCHANGED overflowed

NewTable ==
    /\ gen' = [s \in Slots |-> 0] /\ live' = [s \in Slots |-> FALSE]
    /\ cap' = [s \in Slots |-> None] /\ lent' = {}
    /\ journal' = <<>> /\ overflowed' = FALSE

\* Mutant: the device stops and its rings keep their indices.
ResetDeviceOnly == dev' = <<>> /\ avail' = 0 /\ UNCHANGED <<desc, used, status>>

Reset == desc' = None /\ avail' = 0 /\ dev' = <<>> /\ used' = 0 /\ status' = "unanswered"

TheTable == [gen |-> gen, live |-> live, cap |-> cap]

Init ==
    /\ prompt \in BOOLEAN
    /\ phase = "serve"
    /\ buf = [p \in Pages |-> "idle"] /\ name = [p \in Pages |-> None]
    /\ asked = [p \in Pages |-> "no"]
    /\ data = [p \in Pages |-> "poison"]
    /\ sq = <<>> /\ cq = <<>>
    /\ drv = "start" /\ pending = {} /\ cur = NoEntry /\ reply = "none" /\ told = FALSE
    /\ gen = [s \in Slots |-> 0] /\ live = [s \in Slots |-> FALSE]
    /\ cap = [s \in Slots |-> None] /\ lent = {}
    /\ journal = <<>> /\ overflowed = FALSE
    /\ desc = None /\ avail = 0 /\ dev = <<>> /\ used = 0 /\ status = "unanswered"
    /\ mapped = {}
    /\ window = <<>> /\ at = 0 /\ done = 0
    /\ asks = 0 /\ late = 0 /\ lives = 1 /\ swaps = 0
    /\ was = TheTable /\ dropped = FALSE

----------------------------------------------------------------------------
(* The client. *)

Outstanding == {p \in Pages : buf[p] = "flying"} \X {"read"} \union
               {p \in Pages : asked[p] # "no"} \X {"set"}
Room == phase = "serve" /\ Cardinality(Outstanding) < MaxOut

Register(p) ==
    /\ Room /\ asked[p] = "no"
    /\ asks < MaxAsks
    /\ asks' = asks + 1
    /\ asked' = [asked EXCEPT ![p] = "register"]
    /\ sq' = Append(sq, Entry("register", p, None))
    /\ UNCHANGED <<prompt, phase, buf, name, data, cq, drv, pending, cur, reply, told, table,
                   log, queue, mapped, transfer, late, lives, swaps, history>>

Unregister(p) ==
    /\ Room /\ asked[p] = "no" /\ name[p] # None
    /\ asks < MaxAsks
    /\ asks' = asks + 1
    /\ asked' = [asked EXCEPT ![p] = "unregister"]
    /\ sq' = Append(sq, Entry("unregister", p, name[p]))
    /\ UNCHANGED <<prompt, phase, buf, name, data, cq, drv, pending, cur, reply, told, table,
                   log, queue, mapped, transfer, late, lives, swaps, history>>

\* Poisoned, then Idle::submit.
Submit(p) ==
    /\ Room /\ buf[p] = "idle" /\ name[p] # None
    /\ buf' = [buf EXCEPT ![p] = "flying"]
    /\ data' = [data EXCEPT ![p] = "poison"]
    /\ sq' = Append(sq, Entry("read", p, name[p]))
    /\ UNCHANGED <<prompt, phase, name, asked, cq, drv, pending, cur, reply, told, table, log,
                   queue, mapped, transfer, counts, history>>

\* A completion, matched by its token.
Reap ==
    /\ phase = "serve" /\ cq # <<>>
    /\ LET c == Head(cq) p == c.page IN
        \/ /\ c.op = "read"
           /\ buf' = [buf EXCEPT ![p] = "idle"]
           /\ UNCHANGED <<name, asked>>
        \/ /\ c.op # "read"
           /\ asked' = [asked EXCEPT ![p] = "no"]
           /\ name' = [name EXCEPT ![p] = IF c.result = "err" THEN @ ELSE c.name]
           /\ UNCHANGED buf
    /\ cq' = Tail(cq)
    /\ UNCHANGED <<prompt, phase, data, sq, drv, pending, cur, reply, told, table, log, queue,
                   mapped, transfer, counts, history>>

\* awaited ran out, or kill gave no evidence: what flies is abandoned.
GiveUp ==
    /\ phase = "serve" /\ ~prompt
    /\ \E p \in Pages : buf[p] = "flying"
    /\ buf' = [p \in Pages |-> IF buf[p] = "flying" THEN "leaked" ELSE buf[p]]
    /\ phase' = "failed"
    /\ UNCHANGED <<prompt, name, asked, data, ring, drv, pending, cur, reply, told, table, log,
                   queue, mapped, transfer, counts, history>>

Quiet == \A p \in Pages : asked[p] = "no"

\* Killer::kill: the driver is gone; the device is not told.
Kill ==
    /\ phase = "serve" /\ Quiet /\ lives < MaxLives
    /\ \E p \in Pages : buf[p] = "flying"
    /\ drv' = "off"
    /\ phase' = "gone"
    /\ UNCHANGED <<prompt, client, ring, pending, cur, reply, told, table, log, queue, mapped,
                   transfer, counts, history>>

\* InFlight::reclaim, on the evidence.
Reclaim ==
    /\ phase = "gone"
    /\ buf' = [p \in Pages |-> "idle"]
    /\ phase' = "reclaimed"
    /\ UNCHANGED <<prompt, name, asked, data, ring, drv, pending, cur, reply, told, table, log,
                   queue, mapped, transfer, counts, history>>

\* Mutant: the dead driver's translations are left.
WithdrawNothing ==
    /\ phase = "reclaimed"
    /\ UNCHANGED mapped
    /\ name' = [p \in Pages |-> None]
    /\ phase' = "respawn"
    /\ UNCHANGED <<prompt, buf, asked, data, ring, drv, pending, cur, reply, told, table, log,
                   queue, transfer, counts, history>>

Withdraw ==
    /\ phase = "reclaimed"
    /\ mapped' = {p \in mapped : name[p] = None}
    /\ name' = [p \in Pages |-> None]
    /\ phase' = "respawn"
    /\ UNCHANGED <<prompt, buf, asked, data, ring, drv, pending, cur, reply, told, table, log,
                   queue, transfer, counts, history>>

NewRings == sq' = <<>> /\ cq' = <<>> /\ reply' = "none" /\ told' = FALSE

NewDriver ==
    /\ NewTable /\ NewRings
    /\ drv' = "start" /\ pending' = {} /\ cur' = NoEntry

\* tear_down and spawn: a fresh instance with nothing to replay.
Respawn ==
    /\ phase = "respawn"
    /\ NewDriver
    /\ window' = <<>> /\ at' = 0 /\ done' = 0
    /\ phase' = "serve"
    /\ lives' = lives + 1
    /\ UNCHANGED <<prompt, client, queue, mapped, asks, late, swaps, history>>

\* Everything is back: the translations are withdrawn and HAND_OVER is asked.
AskSwap ==
    /\ phase = "serve" /\ Quiet /\ \A p \in Pages : buf[p] = "idle"
    /\ swaps < MaxSwaps
    /\ mapped' = {p \in mapped : name[p] = None}
    /\ phase' = "swap"
    /\ swaps' = swaps + 1
    /\ UNCHANGED <<prompt, client, ring, drv, pending, cur, reply, told, table, log, queue,
                   transfer, asks, late, lives, history>>

\* spawn of the successor.  The garbling control flips the window's first byte.
Succeed ==
    /\ phase = "handed"
    /\ NewDriver
    /\ window' \in {window} \union
            {[window EXCEPT ![1] = NoEntry] : x \in {y \in {1} : window # <<>>}}
    /\ at' = 0 /\ done' = 0
    /\ phase' = IF window = <<>> THEN "serve" ELSE "replaying"
    /\ UNCHANGED <<prompt, client, queue, mapped, counts, history>>

\* Mutant: a count that does not match is served all the same.
DrivenAnyway ==
    /\ phase = "replaying" /\ at > Len(window) /\ drv # "replay"
    /\ phase' = "serve"
    /\ window' = <<>> /\ at' = 0 /\ done' = 0
    /\ UNCHANGED <<prompt, client, ring, drv, pending, cur, reply, told, table, log, queue,
                   mapped, counts, history>>

\* await_replay, and the count compared before a client is driven.
Driven ==
    /\ phase = "replaying" /\ at > Len(window) /\ drv # "replay"
    /\ phase' = IF done = Len(window) THEN "serve" ELSE "abandoned"
    /\ told' = (done # Len(window))
    /\ window' = <<>> /\ at' = 0 /\ done' = 0
    /\ UNCHANGED <<prompt, client, ring, drv, pending, cur, reply, table, log, queue, mapped,
                   counts, history>>

Overdue ==
    /\ phase = "replaying" /\ ~prompt
    /\ phase' = "abandoned"
    /\ told' = TRUE
    /\ UNCHANGED <<prompt, client, ring, drv, pending, cur, reply, table, log, queue, mapped,
                   transfer, counts, history>>

Stop ==
    /\ phase = "serve" /\ Quiet /\ \A p \in Pages : buf[p] = "idle"
    /\ phase' = "stopping"
    /\ told' = TRUE
    /\ UNCHANGED <<prompt, client, ring, drv, pending, cur, reply, table, log, queue, mapped,
                   transfer, counts, history>>

----------------------------------------------------------------------------
(* The frame's polling point: one translation request answered. *)

\* Present: Refuse::Overlap.
FrameMaps ==
    /\ drv = "map" /\ reply = "none" /\ phase # "failed"
    /\ reply' = IF cur.page \in mapped THEN "refused" ELSE "ok"
    /\ mapped' = mapped \union {cur.page}
    /\ UNCHANGED <<prompt, phase, client, ring, drv, pending, cur, told, table, log, queue,
                   transfer, counts, history>>

FrameUnmaps ==
    /\ drv = "unmap" /\ reply = "none" /\ phase # "failed"
    /\ reply' = "ok"
    /\ mapped' = mapped \ {cap[cur.name[1]]}
    /\ UNCHANGED <<prompt, phase, client, ring, drv, pending, cur, told, table, log, queue,
                   transfer, counts, history>>

----------------------------------------------------------------------------
(* The driver. *)

\* Mutant: the device is not reset first.
StartUnreset ==
    /\ drv = "start"
    /\ drv' = IF window = <<>> THEN "loop" ELSE "replay"
    /\ at' = IF window = <<>> THEN 0 ELSE 1
    /\ UNCHANGED <<prompt, phase, client, ring, pending, cur, reply, told, table, log, queue,
                   mapped, window, done, counts, history>>

\* Driver::start resets the device first and unconditionally.
Start ==
    /\ drv = "start"
    /\ Reset
    /\ drv' = IF window = <<>> THEN "loop" ELSE "replay"
    /\ at' = IF window = <<>> THEN 0 ELSE 1
    /\ UNCHANGED <<prompt, phase, client, ring, pending, cur, reply, told, table, log, mapped,
                   window, done, counts, history>>

\* Mutant: a completion nobody has taken yet is written over.
AnswerOver(r, n) ==
    /\ cur' = NoEntry
    /\ IF at \in 1 .. Len(window)
       THEN /\ done' = IF r = "err" THEN done ELSE done + 1
            /\ at' = at + 1
            /\ drv' = "replay"
            /\ UNCHANGED cq
       ELSE /\ cq' = <<[op |-> cur.op, page |-> cur.page, name |-> n, result |-> r]>>
            /\ drv' = "loop"
            /\ UNCHANGED <<at, done>>

\* The answer of the request in hand: counted in a replay, else posted.
Answer(r, n) ==
    /\ cur' = NoEntry
    /\ IF at \in 1 .. Len(window)
       THEN /\ done' = IF r = "err" THEN done ELSE done + 1
            /\ at' = at + 1
            /\ drv' = "replay"
            /\ UNCHANGED cq
       ELSE /\ cq' = Append(cq, [op |-> cur.op, page |-> cur.page, name |-> n, result |-> r])
            /\ drv' = "loop"
            /\ UNCHANGED <<at, done>>

\* A record that did not cross intact is skipped; the others are executed.
ReplayNext ==
    /\ drv = "replay" /\ at <= Len(window)
    /\ IF window[at] = NoEntry
       THEN at' = at + 1 /\ UNCHANGED <<drv, cur>>
       ELSE cur' = window[at] /\ drv' = "execute" /\ UNCHANGED at
    /\ UNCHANGED <<prompt, phase, client, ring, pending, reply, told, table, log, queue,
                   mapped, window, done, counts, history>>

\* REPLAYED, REPLAY_DONE, and the serving loop.
ReplayEnd ==
    /\ drv = "replay" /\ at > Len(window)
    /\ drv' = "loop"
    /\ UNCHANGED <<prompt, phase, client, ring, pending, cur, reply, told, table, log, queue,
                   mapped, transfer, counts, history>>

\* The control ring first.
Told ==
    /\ drv = "loop" /\ told
    /\ Reset
    /\ drv' = "off"
    /\ UNCHANGED <<prompt, phase, client, ring, pending, cur, reply, told, table, log, mapped,
                   transfer, counts, history>>

Pop ==
    /\ drv = "loop" /\ ~told
    /\ sq # <<>> /\ Cardinality(pending) < Capacity
    /\ pending' = pending \union {Head(sq)}
    /\ sq' = Tail(sq)
    /\ UNCHANGED <<prompt, phase, client, cq, drv, cur, reply, told, table, log, queue, mapped,
                   transfer, counts, history>>

Drained ==
    /\ drv = "loop" /\ ~told
    /\ sq = <<>> \/ Cardinality(pending) >= Capacity
    /\ drv' = "pick"
    /\ UNCHANGED <<prompt, phase, client, ring, pending, cur, reply, told, table, log, queue,
                   mapped, transfer, counts, history>>

Pick(e) ==
    /\ drv = "pick" /\ e \in pending
    /\ pending' = pending \ {e}
    /\ cur' = e
    /\ drv' = "execute"
    /\ UNCHANGED <<prompt, phase, client, ring, reply, told, table, log, queue, mapped,
                   transfer, counts, history>>

\* Mutant: HAND_OVER as it was when the driver started.
IdleBlind ==
    /\ drv = "pick" /\ pending = {}
    /\ drv' = "loop"
    /\ UNCHANGED <<prompt, phase, client, ring, pending, cur, reply, told, table, log, queue,
                   mapped, transfer, counts, history>>

\* Nothing pending, and nobody asked for a hand-over.
Idle ==
    /\ drv = "pick" /\ pending = {} /\ phase # "swap"
    /\ drv' = "loop"
    /\ UNCHANGED <<prompt, phase, client, ring, pending, cur, reply, told, table, log, queue,
                   mapped, transfer, counts, history>>

\* hand_over, the device back in reset, and the frame's reading of it.  An
\* overflowed journal leaves RECORDS at zero and still says QUIESCENT.
HandOver ==
    /\ drv = "pick" /\ pending = {} /\ phase = "swap"
    /\ window' = IF overflowed THEN <<>> ELSE journal
    /\ Reset
    /\ was' = TheTable
    /\ dropped' = (dropped \/ overflowed)
    /\ drv' = "off"
    /\ phase' = "handed"
    /\ UNCHANGED <<prompt, client, ring, pending, cur, reply, told, table, log, mapped, at,
                   done, counts>>

----------------------------------------------------------------------------
(* Driver::execute *)

AskMap ==
    /\ drv = "execute" /\ cur.op = "register" /\ FreeSlots # {}
    /\ drv' = "map"
    /\ UNCHANGED <<prompt, phase, client, ring, pending, cur, reply, told, table, log, queue,
                   mapped, transfer, counts, history>>

AskUnmap ==
    /\ drv = "execute" /\ cur.op = "unregister" /\ Holds(cur.name)
    /\ drv' = "unmap"
    /\ UNCHANGED <<prompt, phase, client, ring, pending, cur, reply, told, table, log, queue,
                   mapped, transfer, counts, history>>

\* No slot, no such name, or a buffer already out.
Refused ==
    /\ drv = "execute"
    /\ \/ cur.op = "register" /\ FreeSlots = {}
       \/ cur.op = "unregister" /\ ~Holds(cur.name)
       \/ cur.op = "read" /\ ~Resolves(cur.name)
    /\ Answer("err", None)
    /\ UNCHANGED <<prompt, phase, client, sq, pending, reply, told, table, log, queue, mapped,
                   window, counts, history>>

MapRefused ==
    /\ drv = "map" /\ reply = "refused"
    /\ reply' = "none"
    /\ Answer("err", None)
    /\ UNCHANGED <<prompt, phase, client, sq, pending, told, table, log, queue, mapped, window,
                   counts, history>>

Registered ==
    /\ drv = "map" /\ reply = "ok"
    /\ reply' = "none"
    /\ Fill(FreeSlot, cur.page)
    /\ Remember(cur)
    /\ Answer("ok", <<FreeSlot, gen'[FreeSlot]>>)
    /\ UNCHANGED <<prompt, phase, client, sq, pending, told, queue, mapped, window, counts,
                   history>>

Unregistered ==
    /\ drv = "unmap" /\ reply = "ok"
    /\ reply' = "none"
    /\ Empty(cur.name[1])
    /\ Remember(cur)
    /\ Answer("ok", None)
    /\ UNCHANGED <<prompt, phase, client, sq, pending, told, queue, mapped, window, counts,
                   history>>

\* transfer, to the doorbell: lent, described, offered.
Offer ==
    /\ drv = "execute" /\ cur.op = "read" /\ Resolves(cur.name)
    /\ lent' = lent \union {cur.name[1]}
    /\ status' = "unanswered"
    /\ desc' = cap[cur.name[1]]
    /\ avail' = avail + 1
    /\ drv' = "wait"
    /\ UNCHANGED <<prompt, phase, client, ring, pending, cur, reply, told, gen, live, cap, log,
                   dev, used, mapped, transfer, counts, history>>

\* The used ring moved: whose element it is, is not looked at.
Harvest ==
    /\ drv = "wait" /\ used > 0
    /\ used' = used - 1
    /\ lent' = lent \ {cur.name[1]}
    /\ Answer(IF status = "ok" THEN "ok" ELSE "err", None)
    /\ UNCHANGED <<prompt, phase, client, sq, pending, reply, told, gen, live, cap, log, desc,
                   avail, dev, status, mapped, window, counts, history>>

\* POLL_LIMIT polls and nothing: the buffer goes back and the chain stays.
Expire ==
    /\ drv = "wait" /\ used = 0
    /\ ~prompt /\ late < MaxLate
    /\ late' = late + 1
    /\ lent' = lent \ {cur.name[1]}
    /\ Answer("err", None)
    /\ UNCHANGED <<prompt, phase, client, sq, pending, reply, told, gen, live, cap, log, queue,
                   mapped, window, asks, lives, swaps, history>>

----------------------------------------------------------------------------
(* The device, external.  It serves chains in any order; what it may not   *)
(* translate it does not move, and may still report as a success.          *)

Fetch ==
    /\ avail > 0
    /\ avail' = avail - 1
    /\ dev' = Append(dev, desc)
    /\ UNCHANGED <<prompt, phase, client, ring, drv, pending, cur, reply, told, table, log,
                   desc, used, status, mapped, transfer, counts, history>>

Serve(i) ==
    /\ i \in DOMAIN dev
    /\ data' = [data EXCEPT ![dev[i]] = IF dev[i] \in mapped THEN "disk" ELSE @]
    /\ status' \in IF dev[i] \in mapped THEN {"ok"} ELSE {"ok", "ioerr"}
    /\ used' = used + 1
    /\ dev' = RemoveAt(dev, i)
    /\ UNCHANGED <<prompt, phase, buf, name, asked, ring, drv, pending, cur, reply, told,
                   table, log, desc, avail, mapped, transfer, counts, history>>

Ended ==
    /\ phase \in {"failed", "abandoned", "stopping"}
    /\ UNCHANGED vars

DriverStep ==
    \/ Start \/ ReplayNext \/ ReplayEnd \/ Told \/ Pop \/ Drained
    \/ (\E e \in pending : Pick(e)) \/ Idle \/ HandOver
    \/ AskMap \/ AskUnmap \/ Refused \/ MapRefused \/ Registered \/ Unregistered
    \/ Offer \/ Harvest

FrameStep ==
    \/ Reap \/ FrameMaps \/ FrameUnmaps
    \/ Reclaim \/ Withdraw \/ Respawn \/ Succeed \/ Driven

DeviceStep == Fetch \/ \E i \in DOMAIN dev : Serve(i)

Next ==
    \/ \E p \in Pages : Register(p)
    \/ \E p \in Pages : Unregister(p)
    \/ \E p \in Pages : Submit(p)
    \/ Reap
    \/ GiveUp
    \/ Kill
    \/ Reclaim
    \/ Withdraw
    \/ Respawn
    \/ AskSwap
    \/ Succeed
    \/ Driven
    \/ Overdue
    \/ Stop
    \/ FrameMaps
    \/ FrameUnmaps
    \/ Start
    \/ ReplayNext
    \/ ReplayEnd
    \/ Told
    \/ Pop
    \/ Drained
    \/ \E e \in pending : Pick(e)
    \/ Idle
    \/ HandOver
    \/ AskMap
    \/ AskUnmap
    \/ Refused
    \/ MapRefused
    \/ Registered
    \/ Unregistered
    \/ Offer
    \/ Harvest
    \/ Expire
    \/ Fetch
    \/ \E i \in DOMAIN dev : Serve(i)
    \/ Ended

\* Three threads: the driver's core, the frame's core, the device.  Expire is
\* no obligation, nor is anything a client may choose to do.
Spec ==
    /\ Init /\ [][Next]_vars
    /\ WF_vars(DriverStep) /\ WF_vars(FrameStep) /\ WF_vars(DeviceStep)

----------------------------------------------------------------------------
\* A name the client holds and is not giving back is held by the occupant too,
\* for the same page: after re-registrations, after a restart, and after a
\* swap whose successor was told the whole history.
InheritedNamesResolve ==
    phase = "serve" /\ ~dropped =>
        \A p \in Pages : name[p] # None /\ asked[p] = "no" =>
            Holds(name[p]) /\ cap[name[p][1]] = p

\* The same without the exception, which is what hand_over's comment says: an
\* overflowed journal abandons the swap and the place restarts.
SwapKeepsEveryName ==
    phase = "serve" =>
        \A p \in Pages : name[p] # None /\ asked[p] = "no" =>
            Holds(name[p]) /\ cap[name[p][1]] = p

\* Between operations the device's domain translates exactly the pages the
\* table has live: unregister, a kill, a replay and a refusal leave no
\* translation behind and lose none.
TranslationsAreTheTable ==
    phase = "serve" /\ drv \notin {"map", "unmap"} =>
        mapped = {cap[s] : s \in {t \in Slots : live[t]}}

Chains == Range(dev) \union {desc : x \in 1 .. avail}

\* While the device answers in time, a page it can still write is a page whose
\* buffer the client has given away: never one that was completed, and after a
\* kill none that was reclaimed, once the translation is withdrawn.
DeviceHoldsOnlyWhatFlies ==
    prompt /\ ~dropped /\ phase # "reclaimed" =>
        \A p \in Chains \intersect mapped : buf[p] = "flying"

\* A read answered with success is a read whose bytes are in the page: its own
\* chain, of its own life, moved them.
AnsweredIsRead ==
    prompt /\ ~dropped =>
        \A c \in Range(cq) : c.op = "read" /\ c.result = "ok" => data[c.page] = "disk"

\* A buffer that flies is owed by exactly one place: the ring, the queue, the
\* driver's hand, or a completion nobody has reaped.
Carriers(p) ==
    Len(SelectSeq(sq, LAMBDA e : e.op = "read" /\ e.page = p)) +
    Cardinality({e \in pending \union {cur} : e.op = "read" /\ e.page = p}) +
    Len(SelectSeq(cq, LAMBDA c : c.op = "read" /\ c.page = p))
FlyingIsOwedOnce ==
    phase \in {"serve", "swap"} =>
        \A p \in Pages : Carriers(p) = IF buf[p] = "flying" THEN 1 ELSE 0

\* The table as clients may rely on it: the outgoing one's until its successor
\* is given a client.
Relied == IF phase \in {"handed", "replaying", "abandoned"} THEN was ELSE TheTable

Promise == INSTANCE Names WITH
    bound <- [n \in Ids |-> IF Relied.live[n[1]] /\ Relied.gen[n[1]] = n[2]
                            THEN Relied.cap[n[1]] ELSE None],
    spent <- {n \in Ids : Relied.gen[n[1]] > n[2]},
    life <- lives + (IF dropped /\ phase # "handed" THEN 1 ELSE 0)

\* The table keeps the promise of Names through every registration, kill and
\* swap: a replay ends in the very table the predecessor had.
KeepsNames == Promise!Spec

\* A client with a request out is answered: the driver waiting for the frame
\* and the frame waiting for the driver never wait for each other.
AnswersCome ==
    prompt /\ phase = "serve" /\ Outstanding # {} ~> cq # <<>> \/ phase # "serve"

\* A swap that was asked for ends, served or abandoned: the frame answers the
\* successor's translation requests while it waits for the replay.
SwapEnds == prompt /\ phase = "swap" ~> phase \in {"serve", "abandoned"}

\* A driver that was told to stop is off and the device in reset, even when it
\* was told in the middle of a replay.
StopEnds == told ~> drv = "off" /\ dev = <<>> /\ avail = 0

\* Nobody waits for ever: client, frame and a driver that was told to stop.
EveryWaitEnds == AnswersCome /\ SwapEnds /\ StopEnds
=============================================================================
