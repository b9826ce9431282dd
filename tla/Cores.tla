-------------------------------- MODULE Cores --------------------------------
(***************************************************************************)
(* The cores and what they tell each other (kernel/src/smp.rs): bring-up   *)
(* over the on-ramp page, the mailbox that hands a core a component, the   *)
(* shootdown's request and acknowledgement words with its interrupt and    *)
(* its deadline, and the two callers that depend on it: withdraw           *)
(* (kernel/src/process.rs), from a system call of the running component,   *)
(* and Killing::kill (kernel/src/component.rs), which takes a component's  *)
(* text away page by page, joins its core and mints the evidence that the  *)
(* component is gone.                                                      *)
(*                                                                         *)
(* shootdown's comment assumes one initiator at a time and nothing         *)
(* enforces it: a kill on the boot processor may meet a revocation inside  *)
(* the component it kills, and the model lets it.                          *)
(***************************************************************************)
EXTENDS Integers, FiniteSets

CONSTANTS LastCore,    \* cores are 0 .. LastCore; the boot processor is 0
          TextPages,   \* pages of a component's image
          MaxRuns,     \* bound on components started
          MaxRevokes   \* bound on revocations

ASSUME CoresAssumption ==
    /\ LastCore \in Nat \ {0} /\ TextPages \in Nat \ {0}
    /\ MaxRuns \in Nat /\ MaxRevokes \in Nat

Cores == 0 .. LastCore
Boot == 0
Workers == Cores \ {Boot}

Ramp == 0
Text == 1 .. TextPages
Heap == TextPages + 1          \* the page a component mapped on a capability
Pages == 0 .. TextPages + 1

VARIABLES
    patient,         \* no deadline expires in this behaviour
    mail,            \* MAILBOX
    at,              \* where each core is
    irr,             \* the shootdown vector is requested at the core's APIC
    gate, gseq, gpage,  \* the core's answer(): its step, and what it has loaded
    seq, page, ack,  \* SHOOT_SEQ, SHOOT_PAGE, SHOOT_ACK
    pte,             \* pages the page tables map
    tlb,             \* pages each core has a cached translation of
    shoot, about, to, num,  \* each core's own call of shootdown(): its step,
                     \* its page, the core being asked and that request's number
    boot, cpu,       \* the boot processor: its step, and the core it deals with
    next,            \* fault_occupant's next page
    withdrawn,       \* the pages this kill was told are gone everywhere
    gone,            \* kill answered PeerGone
    runs, revokes    \* components started, revocations made

words == <<seq, page, ack>>
handler == <<gate, gseq, gpage>>
call == <<shoot, about, to, num>>
bsp == <<boot, cpu>>
kill == <<next, withdrawn, gone>>
counts == <<runs, revokes>>
vars == <<patient, mail, at, irr, gate, gseq, gpage, seq, page, ack, pte, tlb,
          shoot, about, to, num, boot, cpu, next, withdrawn, gone, runs, revokes>>

Init ==
    /\ patient \in BOOLEAN
    /\ mail = [c \in Cores |-> IF c = Boot THEN "ready" ELSE "none"]
    /\ at = [c \in Cores |-> IF c = Boot THEN "boot" ELSE "asleep"]
    /\ irr = [c \in Cores |-> FALSE]
    /\ gate = [c \in Cores |-> "no"]
    /\ gseq = [c \in Cores |-> 0] /\ gpage = [c \in Cores |-> Ramp]
    /\ seq = [c \in Cores |-> 0] /\ page = [c \in Cores |-> Ramp] /\ ack = [c \in Cores |-> 0]
    /\ pte = {Ramp}
    /\ tlb = [c \in Cores |-> {}]
    /\ shoot = [c \in Cores |-> "idle"] /\ about = [c \in Cores |-> Ramp]
    /\ to = [c \in Cores |-> 0] /\ num = [c \in Cores |-> 0]
    /\ boot = "start" /\ cpu = 1
    /\ next = 1 /\ withdrawn = {} /\ gone = FALSE
    /\ runs = 0 /\ revokes = 0

Running == boot # "stopped"

\* Nothing runs under a core's interrupt handler but the handler.
Free(c) == Running /\ gate[c] = "no"

----------------------------------------------------------------------------
(* shootdown(page), on core c. *)

Call(c, p) ==
    /\ shoot' = [shoot EXCEPT ![c] = "ask"]
    /\ about' = [about EXCEPT ![c] = p]
    /\ to' = [to EXCEPT ![c] = 0]
    /\ UNCHANGED num

ToTell(c) == {k \in Cores : k >= to[c] /\ k # c /\ mail[k] \notin {"none", "failed"}}

\* The next core that is up: its sequence number is read, plus one.
Ask(c) ==
    /\ Free(c) /\ shoot[c] = "ask"
    /\ \E k \in ToTell(c) :
        /\ \A j \in ToTell(c) : k <= j
        /\ to' = [to EXCEPT ![c] = k]
        /\ num' = [num EXCEPT ![c] = seq[k] + 1]
    /\ shoot' = [shoot EXCEPT ![c] = "page"]
    /\ UNCHANGED <<patient, mail, at, irr, handler, words, pte, tlb, about, bsp, kill, counts>>

AskedAll(c) ==
    /\ Free(c) /\ shoot[c] = "ask" /\ ToTell(c) = {}
    /\ shoot' = [shoot EXCEPT ![c] = "ok"]
    /\ UNCHANGED <<patient, mail, at, irr, handler, words, pte, tlb, about, to, num, bsp, kill,
                   counts>>

StorePage(c) ==
    /\ Free(c) /\ shoot[c] = "page"
    /\ page' = [page EXCEPT ![to[c]] = about[c]]
    /\ shoot' = [shoot EXCEPT ![c] = "seq"]
    /\ UNCHANGED <<patient, mail, at, irr, handler, seq, ack, pte, tlb, about, to, num, bsp,
                   kill, counts>>

\* The Release store, and the interrupt.
StoreSeq(c) ==
    /\ Free(c) /\ shoot[c] = "seq"
    /\ seq' = [seq EXCEPT ![to[c]] = num[c]]
    /\ irr' = [irr EXCEPT ![to[c]] = TRUE]
    /\ shoot' = [shoot EXCEPT ![c] = "wait"]
    /\ UNCHANGED <<patient, mail, at, handler, page, ack, pte, tlb, about, to, num, bsp, kill,
                   counts>>

Acked(c) ==
    /\ Free(c) /\ shoot[c] = "wait"
    /\ ack[to[c]] >= num[c]
    /\ shoot' = [shoot EXCEPT ![c] = "ask"]
    /\ to' = [to EXCEPT ![c] = @ + 1]
    /\ UNCHANGED <<patient, mail, at, irr, handler, words, pte, tlb, about, num, bsp, kill,
                   counts>>

\* The deadline: the cores after this one are never told.
Expired(c) ==
    /\ Free(c) /\ ~patient /\ shoot[c] = "wait"
    /\ shoot' = [shoot EXCEPT ![c] = "err"]
    /\ UNCHANGED <<patient, mail, at, irr, handler, words, pte, tlb, about, to, num, bsp, kill,
                   counts>>

----------------------------------------------------------------------------
(* answer(), in the vector's gate. *)

\* A started core enables interrupts in park; a component runs with them on
\* and a system call with them masked; the boot processor has them on while
\* any component runs.
TakesInterrupts(c) == at[c] \in {"boot", "parked", "running"} /\ gate[c] = "no"

Deliver(c) ==
    /\ Running /\ irr[c] /\ TakesInterrupts(c)
    /\ irr' = [irr EXCEPT ![c] = FALSE]
    /\ gate' = [gate EXCEPT ![c] = "seq"]
    /\ UNCHANGED <<patient, mail, at, gseq, gpage, words, pte, tlb, call, bsp, kill, counts>>

LoadSeq(c) ==
    /\ Running /\ gate[c] = "seq"
    /\ gate' = [gate EXCEPT ![c] = "page"]
    /\ gseq' = [gseq EXCEPT ![c] = seq[c]]
    /\ UNCHANGED <<patient, mail, at, irr, gpage, words, pte, tlb, call, bsp, kill, counts>>

LoadPage(c) ==
    /\ Running /\ gate[c] = "page"
    /\ gate' = [gate EXCEPT ![c] = "flush"]
    /\ gpage' = [gpage EXCEPT ![c] = page[c]]
    /\ UNCHANGED <<patient, mail, at, irr, gseq, words, pte, tlb, call, bsp, kill, counts>>

Flush(c) ==
    /\ Running /\ gate[c] = "flush"
    /\ tlb' = [tlb EXCEPT ![c] = @ \ {gpage[c]}]
    /\ gate' = [gate EXCEPT ![c] = "ack"]
    /\ UNCHANGED <<patient, mail, at, irr, gseq, gpage, words, pte, call, bsp, kill, counts>>

\* Mutant: the number is read again when it is acknowledged.
AcknowledgeLatest(c) ==
    /\ Running /\ gate[c] = "ack"
    /\ ack' = [ack EXCEPT ![c] = seq[c]]
    /\ gate' = [gate EXCEPT ![c] = "no"]
    /\ UNCHANGED <<patient, mail, at, irr, gseq, gpage, seq, page, pte, tlb, call, bsp, kill,
                   counts>>

\* The acknowledgement, and after it the end of the interrupt.
Acknowledge(c) ==
    /\ Running /\ gate[c] = "ack"
    /\ ack' = [ack EXCEPT ![c] = gseq[c]]
    /\ gate' = [gate EXCEPT ![c] = "no"]
    /\ UNCHANGED <<patient, mail, at, irr, gseq, gpage, seq, page, pte, tlb, call, bsp, kill,
                   counts>>

----------------------------------------------------------------------------
(* A started core: arrive, park, and the component it is handed. *)

\* Fetching the trampoline, then READY or FAILED; interrupts are still off.
Arrive(c) ==
    /\ Running /\ at[c] = "arriving"
    /\ tlb' = [tlb EXCEPT ![c] = @ \union {Ramp}]
    /\ \/ at' = [at EXCEPT ![c] = "ready"] /\ mail' = [mail EXCEPT ![c] = "ready"]
       \/ at' = [at EXCEPT ![c] = "failed"] /\ mail' = [mail EXCEPT ![c] = "failed"]
    /\ UNCHANGED <<patient, irr, handler, words, pte, call, bsp, kill, counts>>

Park(c) ==
    /\ Running /\ at[c] = "ready"
    /\ at' = [at EXCEPT ![c] = "parked"]
    /\ UNCHANGED <<patient, mail, irr, handler, words, pte, tlb, call, bsp, kill, counts>>

Enter(c) ==
    /\ Free(c) /\ at[c] = "parked" /\ mail[c] = "run"
    /\ at' = [at EXCEPT ![c] = "running"]
    /\ UNCHANGED <<patient, mail, irr, handler, words, pte, tlb, call, bsp, kill, counts>>

\* The component has an instruction to execute.
Executes(c) ==
    /\ Free(c) /\ at[c] = "running"
    /\ Text \intersect (pte \union tlb[c]) # {}

\* It fetches from, or touches, a page.
Touch(c) ==
    /\ Executes(c)
    /\ \E p \in pte \ (tlb[c] \union {Ramp}) : tlb' = [tlb EXCEPT ![c] = @ \union {p}]
    /\ UNCHANGED <<patient, mail, at, irr, handler, words, pte, call, bsp, kill, counts>>

\* Out of the component: the kernel's address space is loaded, which drops
\* the component's translations, and DONE is posted.
Left(c) ==
    /\ at' = [at EXCEPT ![c] = "parked"]
    /\ tlb' = [tlb EXCEPT ![c] = @ \intersect {Ramp}]
    /\ mail' = [mail EXCEPT ![c] = "done"]
    /\ UNCHANGED <<patient, irr, handler, words, pte, call, bsp, kill, counts>>

\* It executes an instruction of a page that neither the translation buffer
\* nor the tables hold.
Fault(c) ==
    /\ Free(c) /\ at[c] = "running"
    /\ Text \ (pte \union tlb[c]) # {}
    /\ Left(c)

Exit(c) ==
    /\ Executes(c)
    /\ Left(c)

\* SYS_CAP_MAP.
MapHeap(c) ==
    /\ Executes(c)
    /\ Heap \notin pte /\ revokes < MaxRevokes
    /\ pte' = pte \union {Heap}
    /\ UNCHANGED <<patient, mail, at, irr, handler, words, tlb, call, bsp, kill, counts>>

\* SYS_CAP_REVOKE: the entry cleared, this core's translation dropped, the
\* others told, all with interrupts masked.
Revoke(c) ==
    /\ Executes(c) /\ Heap \in pte
    /\ at' = [at EXCEPT ![c] = "syscall"]
    /\ pte' = pte \ {Heap}
    /\ tlb' = [tlb EXCEPT ![c] = @ \ {Heap}]
    /\ Call(c, Heap)
    /\ revokes' = revokes + 1
    /\ UNCHANGED <<patient, mail, irr, handler, words, bsp, kill, runs>>

Revoked(c) ==
    /\ Running /\ at[c] = "syscall" /\ shoot[c] = "ok"
    /\ at' = [at EXCEPT ![c] = "running"]
    /\ shoot' = [shoot EXCEPT ![c] = "idle"]
    /\ UNCHANGED <<patient, mail, irr, handler, words, pte, tlb, about, to, num, bsp, kill,
                   counts>>

\* withdraw ends the machine.
RevokeFails(c) ==
    /\ Running /\ at[c] = "syscall" /\ shoot[c] = "err"
    /\ boot' = "stopped"
    /\ UNCHANGED <<patient, mail, at, irr, handler, words, pte, tlb, call, cpu, kill, counts>>

----------------------------------------------------------------------------
(* The boot processor. *)

BootAt(pc) == boot = pc /\ gate[Boot] = "no"

Wake ==
    /\ BootAt("start") /\ cpu <= LastCore
    /\ at' = [at EXCEPT ![cpu] = "arriving"]
    /\ boot' = "watch"
    /\ UNCHANGED <<patient, mail, irr, handler, words, pte, tlb, call, cpu, kill, counts>>

\* watch: READY, and the next core is started.
Arrived ==
    /\ BootAt("watch") /\ mail[cpu] = "ready"
    /\ boot' = "start" /\ cpu' = cpu + 1
    /\ UNCHANGED <<patient, mail, at, irr, handler, words, pte, tlb, call, kill, counts>>

\* FAILED, and the boot fails.
ArrivedBroken ==
    /\ BootAt("watch") /\ mail[cpu] = "failed"
    /\ boot' = "stopped"
    /\ UNCHANGED <<patient, mail, at, irr, handler, words, pte, tlb, call, cpu, kill, counts>>

\* No answer in time: the core is reset and stepped over.
Hold ==
    /\ BootAt("watch") /\ ~patient /\ mail[cpu] = "none"
    /\ at' = [at EXCEPT ![cpu] = "asleep"]
    /\ tlb' = [tlb EXCEPT ![cpu] = {}]
    /\ boot' = "start" /\ cpu' = cpu + 1
    /\ UNCHANGED <<patient, mail, irr, handler, words, pte, call, kill, counts>>

\* One that answered after it was given up on fails the boot.
ArrivedHeld ==
    /\ BootAt("watch") /\ ~patient /\ mail[cpu] # "none"
    /\ at' = [at EXCEPT ![cpu] = "asleep"]
    /\ tlb' = [tlb EXCEPT ![cpu] = {}]
    /\ boot' = "stopped"
    /\ UNCHANGED <<patient, mail, irr, handler, words, pte, call, cpu, kill, counts>>

\* The on-ramp comes down, and every core that used it is told.
WithdrawRamp ==
    /\ BootAt("start") /\ cpu > LastCore
    /\ pte' = pte \ {Ramp}
    /\ Call(Boot, Ramp)
    /\ boot' = "ramp"
    /\ UNCHANGED <<patient, mail, at, irr, handler, words, tlb, cpu, kill, counts>>

\* `let _ = shootdown(ramp.page())`: an error is dropped, here and only here.
RampWithdrawn ==
    /\ BootAt("ramp") /\ shoot[Boot] \in {"ok", "err"}
    /\ shoot' = [shoot EXCEPT ![Boot] = "idle"]
    /\ boot' = "up"
    /\ UNCHANGED <<patient, mail, at, irr, handler, words, pte, tlb, about, to, num, cpu, kill,
                   counts>>

\* An address space is built and start_on posts RUN to the first worker.
Start ==
    /\ BootAt("up") /\ runs < MaxRuns
    /\ \E c \in Workers :
        /\ mail[c] = "ready"
        /\ \A k \in Workers : mail[k] = "ready" => c <= k
        /\ mail' = [mail EXCEPT ![c] = "run"]
        /\ boot' = "drive" /\ cpu' = c
    /\ pte' = Text
    /\ runs' = runs + 1
    /\ next' = 1 /\ withdrawn' = {} /\ gone' = FALSE
    /\ UNCHANGED <<patient, at, irr, handler, words, tlb, call, revokes>>

Kill ==
    /\ BootAt("drive")
    /\ boot' = "kill"
    /\ UNCHANGED <<patient, mail, at, irr, handler, words, pte, tlb, call, cpu, kill, counts>>

\* Mutant: a page out of the tables, and nobody told.
FaultPageUntold ==
    /\ BootAt("kill") /\ shoot[Boot] = "idle" /\ next <= TextPages
    /\ pte' = pte \ {next}
    /\ next' = next + 1
    /\ UNCHANGED <<patient, mail, at, irr, handler, words, tlb, call, bsp, withdrawn, gone, counts>>

\* fault_occupant: one page out of the tables, and everybody told of it.
FaultPage ==
    /\ BootAt("kill") /\ shoot[Boot] = "idle" /\ next <= TextPages
    /\ pte' = pte \ {next}
    /\ Call(Boot, next)
    /\ next' = next + 1
    /\ UNCHANGED <<patient, mail, at, irr, handler, words, tlb, bsp, withdrawn, gone, counts>>

PageGone ==
    /\ BootAt("kill") /\ shoot[Boot] = "ok"
    /\ withdrawn' = withdrawn \union {about[Boot]}
    /\ shoot' = [shoot EXCEPT ![Boot] = "idle"]
    /\ UNCHANGED <<patient, mail, at, irr, handler, words, pte, tlb, about, to, num, bsp, next,
                   gone, counts>>

\* No evidence, and nothing reclaimed on it.
KillFails ==
    /\ BootAt("kill") /\ shoot[Boot] = "err"
    /\ boot' = "late"
    /\ UNCHANGED <<patient, mail, at, irr, handler, words, pte, tlb, call, cpu, kill, counts>>

Faulted ==
    /\ BootAt("kill") /\ shoot[Boot] = "idle" /\ next > TextPages
    /\ boot' = "join"
    /\ UNCHANGED <<patient, mail, at, irr, handler, words, pte, tlb, call, cpu, kill, counts>>

\* Mutant: the core is taken back on its deadline, whatever it says.
JoinAnyway ==
    /\ BootAt("join") /\ (mail[cpu] = "done" \/ ~patient)
    /\ mail' = [mail EXCEPT ![cpu] = "ready"]
    /\ gone' = TRUE
    /\ boot' = "up"
    /\ UNCHANGED <<patient, at, irr, handler, words, pte, tlb, call, cpu, next, withdrawn,
                   counts>>

\* join_serviced, and PeerGone::told.
Join ==
    /\ BootAt("join") /\ mail[cpu] = "done"
    /\ mail' = [mail EXCEPT ![cpu] = "ready"]
    /\ gone' = TRUE
    /\ boot' = "up"
    /\ UNCHANGED <<patient, at, irr, handler, words, pte, tlb, call, cpu, next, withdrawn,
                   counts>>

Overdue ==
    /\ BootAt("join") /\ ~patient /\ mail[cpu] # "done"
    /\ boot' = "late"
    /\ UNCHANGED <<patient, mail, at, irr, handler, words, pte, tlb, call, cpu, kill, counts>>

\* After a kill that failed serve_ring3 joins the core itself, and the boot
\* fails whether it comes back or not.
LateJoin ==
    /\ BootAt("late")
    /\ \/ mail[cpu] = "done" /\ mail' = [mail EXCEPT ![cpu] = "ready"]
       \/ mail[cpu] # "done" /\ ~patient /\ UNCHANGED mail
    /\ boot' = "stopped"
    /\ UNCHANGED <<patient, at, irr, handler, words, pte, tlb, call, cpu, kill, counts>>

\* A component that ended on its own: joined, with no evidence needed.
Finish ==
    /\ BootAt("drive") /\ mail[cpu] = "done"
    /\ mail' = [mail EXCEPT ![cpu] = "ready"]
    /\ boot' = "up"
    /\ UNCHANGED <<patient, at, irr, handler, words, pte, tlb, call, cpu, kill, counts>>

----------------------------------------------------------------------------

Shoot(c) == Ask(c) \/ AskedAll(c) \/ StorePage(c) \/ StoreSeq(c) \/ Acked(c) \/ Expired(c)
Answer(c) == Deliver(c) \/ LoadSeq(c) \/ LoadPage(c) \/ Flush(c) \/ Acknowledge(c)
Component(c) == Touch(c) \/ Fault(c) \/ Exit(c) \/ MapHeap(c) \/ Revoke(c)
Core(c) == Arrive(c) \/ Park(c) \/ Enter(c) \/ Revoked(c) \/ RevokeFails(c)
BootStep ==
    \/ Wake \/ Arrived \/ ArrivedBroken \/ Hold \/ ArrivedHeld \/ WithdrawRamp \/ RampWithdrawn \/ Start
    \/ Kill \/ FaultPage \/ PageGone \/ KillFails \/ Faulted \/ Join \/ Overdue
    \/ LateJoin \/ Finish

\* The loops that wait change nothing.
Spin ==
    /\ boot \in {"up", "stopped"} \/ \E c \in Cores : shoot[c] = "wait"
    /\ UNCHANGED vars

Next ==
    \/ \E c \in Cores : Shoot(c) \/ Answer(c) \/ Component(c) \/ Core(c)
    \/ BootStep
    \/ Spin

Spec == Init /\ [][Next]_vars

\* Cores run: a request is made and answered, a core enters what it is
\* handed, the boot processor carries on with a kill it began, and a
\* component with no page of text left to execute faults.
FairSpec ==
    /\ Spec
    /\ \A c \in Cores :
        /\ WF_vars(Shoot(c)) /\ WF_vars(Answer(c)) /\ WF_vars(Core(c))
        /\ WF_vars(Fault(c) /\ ~Executes(c))
    /\ WF_vars(FaultPage \/ PageGone \/ KillFails \/ Faulted \/ Join)

----------------------------------------------------------------------------
(* What the callers rely on. *)

\* Every variable has the shape of the words it stands for; the mailbox and
\* the request words of every core included.
TypeOK ==
    /\ patient \in BOOLEAN /\ gone \in BOOLEAN
    /\ mail \in [Cores -> {"none", "ready", "run", "done", "failed"}]
    /\ at \in [Cores -> {"boot", "asleep", "arriving", "ready", "failed", "parked",
                         "running", "syscall"}]
    /\ irr \in [Cores -> BOOLEAN]
    /\ gate \in [Cores -> {"no", "seq", "page", "flush", "ack"}]
    /\ gseq \in [Cores -> Nat] /\ gpage \in [Cores -> Pages]
    /\ seq \in [Cores -> Nat] /\ page \in [Cores -> Pages] /\ ack \in [Cores -> Nat]
    /\ pte \in SUBSET Pages /\ tlb \in [Cores -> SUBSET Pages]
    /\ shoot \in [Cores -> {"idle", "ask", "page", "seq", "wait", "ok", "err"}]
    /\ about \in [Cores -> Pages] /\ to \in [Cores -> Nat] /\ num \in [Cores -> Nat]
    /\ boot \in {"start", "watch", "ramp", "up", "drive", "kill", "join", "late",
                "stopped"}
    /\ cpu \in Nat /\ next \in Nat \ {0} /\ withdrawn \in SUBSET Text
    /\ runs \in Nat /\ revokes \in Nat

\* What Ok means (smp.rs: "entitled to believe the translation is gone
\* everywhere rather than only here"): once shootdown answered for a page of
\* the component being killed, no core holds it, although an earlier
\* shootdown may have given up on a core that answers it only now, and
\* although the component may be shooting on its own behalf.
ShotIsForgotten ==
    \A p \in withdrawn : p \notin pte /\ \A c \in Cores : p \notin tlb[c]

\* The evidence buffers are reclaimed on: when kill answers PeerGone no core
\* is in a component, in its text or in a system call of it (component.rs:
\* "true before it is said rather than because it was").
EvidenceMeansStopped ==
    gone => \A c \in Cores : at[c] \notin {"running", "syscall"} /\ shoot[c] = "idle"

\* What smp.rs assumes of its callers, and nothing enforces.
OneInitiator == \A c, k \in Cores : shoot[c] # "idle" /\ shoot[k] # "idle" => c = k

\* A kill lands: with nothing late and one initiator at a time, a component
\* whose text is being taken away ends and its core is joined.
KillLands == [](patient /\ OneInitiator) => (boot = "kill" ~> gone)
=============================================================================
