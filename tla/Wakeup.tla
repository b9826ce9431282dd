------------------------------- MODULE Wakeup -------------------------------
(***************************************************************************)
(* How a serving component sleeps and is woken: the client's publish and   *)
(* flag check (ring/src/lib.rs submit, doorbell_wanted; ring/src/doorbell  *)
(* Bell::submitted), the component's serving loop (user/compositor         *)
(* component.rs), and the core that stops for it (kernel/src/doorbell.rs   *)
(* wait, answer, ring).                                                    *)
(*                                                                         *)
(* Entries are counted, not carried: what a slot holds is module Ring's    *)
(* matter.  The client's head store is buffered: `sent' is the head the    *)
(* client has stored, `head' the one the component's core can load.        *)
(***************************************************************************)
EXTENDS Integers

CONSTANTS SubmitCapacity,   \* entries of the submission ring
          AnswerCapacity,   \* slots of the completion ring
          MaxSubmits        \* bound on submissions in one run

ASSUME WakeupAssumption ==
    /\ SubmitCapacity \in Nat \ {0}
    /\ AnswerCapacity \in Nat \ {0}
    /\ MaxSubmits \in Nat

VARIABLES
    sent, head, taken,   \* the submission ring's cursors, unwrapped
    answers,             \* completions posted and not reaped
    flag,                \* NEED_WAKEUP in the shared flags word
    told,                \* a STOP notice is in the control ring
    client,              \* where the client is: idle, fence, load, ring, stop
    server,              \* where the component's core is
    armed,               \* the loop's own `armed'
    irr,                 \* doorbell held in the local APIC's request register
    pending,             \* PENDING, the latch
    delivered, before,   \* DELIVERED, and wait's reading of it
    woken, spared        \* WOKEN and SPARED

counters == <<delivered, before, woken, spared>>
vars == <<sent, head, taken, answers, flag, told, client, server, armed, irr, pending,
          delivered, before, woken, spared>>

ClientPcs == {"idle", "fence", "load", "ring", "stop"}
ServerPcs == {"turn", "pop", "disarm", "serve", "arm", "wait", "halted", "leave", "stopped"}

Init ==
    /\ sent = 0 /\ head = 0 /\ taken = 0 /\ answers = 0
    /\ flag = FALSE /\ told = FALSE /\ armed = FALSE
    /\ client = "idle" /\ server = "turn"
    /\ irr = FALSE /\ pending = FALSE
    /\ delivered = 0 /\ before = 0 /\ woken = 0 /\ spared = 0

----------------------------------------------------------------------------
(* The client. *)

\* submit, or a batch's one publish: the head is stored, and may be visible
\* to nobody else yet.
Submit ==
    /\ client = "idle" /\ ~told
    /\ sent < MaxSubmits
    /\ sent - taken < SubmitCapacity
    /\ sent' = sent + 1
    /\ client' = "fence"
    /\ UNCHANGED <<head, taken, answers, flag, told, server, armed, irr, pending, counters>>

HeadLands ==
    /\ head < sent
    /\ head' = sent
    /\ UNCHANGED <<sent, taken, answers, flag, told, client, server, armed, irr, pending, counters>>

\* Mutant: no fence, so the flag is loaded while the head is still buffered.
FenceDropped ==
    /\ client = "fence"
    /\ client' = "load"
    /\ UNCHANGED <<sent, head, taken, answers, flag, told, server, armed, irr, pending, counters>>

\* doorbell_wanted's SeqCst fence: the head is visible before the flag is read.
Fence ==
    /\ client = "fence"
    /\ head = sent
    /\ client' = "load"
    /\ UNCHANGED <<sent, head, taken, answers, flag, told, server, armed, irr, pending, counters>>

LoadFlag ==
    /\ client = "load"
    /\ client' = IF flag THEN "ring" ELSE "idle"
    /\ UNCHANGED <<sent, head, taken, answers, flag, told, server, armed, irr, pending, counters>>

\* Bell::submitted(true).  The APIC keeps one request per vector.
RingBell ==
    /\ client = "ring"
    /\ irr' = TRUE
    /\ client' = "idle"
    /\ UNCHANGED <<sent, head, taken, answers, flag, told, server, armed, pending, counters>>

Reap ==
    /\ answers > 0
    /\ answers' = answers - 1
    /\ UNCHANGED <<sent, head, taken, flag, told, client, server, armed, irr, pending, counters>>

\* Mutant: the stop is posted and nobody rings for it.
TellStopQuietly ==
    /\ client = "idle" /\ ~told
    /\ told' = TRUE
    /\ UNCHANGED <<sent, head, taken, answers, flag, client, server, armed, irr, pending, counters>>

TellStop ==
    /\ client = "idle" /\ ~told
    /\ told' = TRUE
    /\ client' = "stop"
    /\ UNCHANGED <<sent, head, taken, answers, flag, server, armed, irr, pending, counters>>

\* The control ring has no wakeup flag, so a stop is rung for unasked.
RingStop ==
    /\ client = "stop"
    /\ irr' = TRUE
    /\ client' = "idle"
    /\ UNCHANGED <<sent, head, taken, answers, flag, told, server, armed, pending, counters>>

----------------------------------------------------------------------------
(* The component's loop. *)

\* The control ring, then room to answer in; no room is a turn to spin on.
Turn ==
    /\ server = "turn"
    /\ \/ told /\ server' = "stopped"
       \/ ~told /\ answers < AnswerCapacity /\ server' = "pop"
       \/ ~told /\ answers = AnswerCapacity /\ server' = "turn"
    /\ UNCHANGED <<sent, head, taken, answers, flag, told, client, armed, irr, pending, counters>>

Pop ==
    /\ server = "pop"
    /\ taken < head
    /\ taken' = taken + 1
    /\ server' = IF armed THEN "disarm" ELSE "serve"
    /\ UNCHANGED <<sent, head, answers, flag, told, client, armed, irr, pending, counters>>

PopEmpty ==
    /\ server = "pop"
    /\ taken = head
    /\ server' = IF armed THEN "wait" ELSE "arm"
    /\ UNCHANGED <<sent, head, taken, answers, flag, told, client, armed, irr, pending, counters>>

Disarm ==
    /\ server = "disarm"
    /\ flag' = FALSE /\ armed' = FALSE
    /\ server' = "serve"
    /\ UNCHANGED <<sent, head, taken, answers, told, client, irr, pending, counters>>

\* The answer, if the entry is owed one, into the room that was seen before
\* the entry was taken.
Serve ==
    /\ server = "serve"
    /\ answers' \in {answers, answers + 1}
    /\ server' = "turn"
    /\ UNCHANGED <<sent, head, taken, flag, told, client, armed, irr, pending, counters>>

\* Mutant: armed and stopped in one turn, with no second look at the ring.
ArmAndSleep ==
    /\ server = "arm"
    /\ flag' = TRUE /\ armed' = TRUE
    /\ server' = "wait"
    /\ UNCHANGED <<sent, head, taken, answers, told, client, irr, pending, counters>>

Arm ==
    /\ server = "arm"
    /\ flag' = TRUE /\ armed' = TRUE
    /\ server' = "turn"
    /\ UNCHANGED <<sent, head, taken, answers, told, client, irr, pending, counters>>

----------------------------------------------------------------------------
(* The core under it. *)

\* wait, up to the halt, with interrupts masked: the latch is read and put
\* back; a latched doorbell spares the halt.
EnterWait ==
    /\ server = "wait"
    /\ pending' = FALSE
    /\ \/ /\ pending
          /\ spared' = spared + 1
          /\ server' = "turn"
          /\ UNCHANGED before
       \/ /\ ~pending
          /\ before' = delivered
          /\ server' = "halted"
          /\ UNCHANGED spared
    /\ UNCHANGED <<sent, head, taken, answers, flag, told, client, armed, irr, delivered, woken>>

\* answer: counted and latched; a halted core runs on.
Deliver ==
    /\ irr
    /\ irr' = FALSE
    /\ delivered' = delivered + 1
    /\ pending' = TRUE
    /\ server' = IF server = "halted" THEN "leave" ELSE server
    /\ UNCHANGED <<sent, head, taken, answers, flag, told, client, armed, before, woken, spared>>

\* Any other interrupt ends a halt too; the timer is armed on such a core.
Timer ==
    /\ server = "halted"
    /\ server' = "leave"
    /\ UNCHANGED <<sent, head, taken, answers, flag, told, client, armed, irr, pending, counters>>

\* Mutant: the latch outlives the halt it ended.
LeaveWaitLatched ==
    /\ server = "leave"
    /\ woken' = woken + (IF delivered # before THEN 1 ELSE 0)
    /\ server' = "turn"
    /\ UNCHANGED <<sent, head, taken, answers, flag, told, client, armed, irr, pending,
                   delivered, before, spared>>

\* cli, the count of halts a doorbell ended, and the latch consumed.
LeaveWait ==
    /\ server = "leave"
    /\ woken' = woken + (IF delivered # before THEN 1 ELSE 0)
    /\ pending' = FALSE
    /\ server' = "turn"
    /\ UNCHANGED <<sent, head, taken, answers, flag, told, client, armed, irr,
                   delivered, before, spared>>

----------------------------------------------------------------------------

InCall == Fence \/ LoadFlag \/ RingBell \/ RingStop
Loop == Turn \/ Pop \/ PopEmpty \/ Disarm \/ Serve \/ Arm \/ EnterWait \/ LeaveWait

Next ==
    \/ Submit \/ HeadLands \/ InCall \/ Reap \/ TellStop
    \/ Loop \/ Deliver \/ Timer
    \/ server = "stopped" /\ UNCHANGED vars

Spec == Init /\ [][Next]_vars

\* A core that is not halted runs, a store lands, an interrupt is delivered,
\* a client reaps what it is owed.  Nothing is assumed of the timer.
FairSpec ==
    /\ Spec
    /\ WF_vars(Loop) /\ WF_vars(InCall) /\ WF_vars(HeadLands)
    /\ WF_vars(Deliver) /\ WF_vars(Reap)

----------------------------------------------------------------------------
(* What the protocol promises. *)

FlagsOK ==
    /\ flag \in BOOLEAN /\ told \in BOOLEAN /\ armed \in BOOLEAN
    /\ irr \in BOOLEAN /\ pending \in BOOLEAN

\* Counts are natural numbers, the answers owed to the client included, and
\* client and core are at a step of their code (kernel/src/doorbell.rs wait,
\* the serving loop of the compositor).
TypeOK ==
    /\ sent \in Nat /\ head \in Nat /\ taken \in Nat /\ answers \in Nat
    /\ delivered \in Nat /\ before \in Nat /\ woken \in Nat /\ spared \in Nat
    /\ client \in ClientPcs /\ server \in ServerPcs
    /\ FlagsOK

\* No lost wakeup: a core that is halted while there is an entry to take or a
\* stop to hear has a doorbell on its way, or a client still inside the call
\* that will ring it.  The comment above doorbell_wanted: without the fence
\* "the consumer sleeps holding work nobody will ring for".
NoLostWakeup ==
    server = "halted" =>
        /\ taken < sent => irr \/ client # "idle"
        /\ told => irr \/ client = "stop"

\* A doorbell is spent once: it ends a halt or spares one, never both, so the
\* two counts never exceed the doorbells delivered (the false spares that the
\* second clear of the latch in wait removed).
DoorbellSpentOnce == woken + spared <= delivered

\* An entry is taken only with room to answer it, so the answer is never
\* dropped and the ring of answers never overruns (Poster::free before pop).
AnswerAlwaysFits ==
    /\ answers <= AnswerCapacity
    /\ server \in {"pop", "disarm", "serve"} => answers < AnswerCapacity

\* Every submission is taken, with no help from the timer, unless the
\* component was told to stop.
EverySubmissionTaken ==
    \A n \in 1 .. MaxSubmits : (sent >= n) ~> (taken >= n \/ server = "stopped")

\* A stop is heard even by a component that is asleep.
StopIsHeard == told ~> (server = "stopped")
=============================================================================
