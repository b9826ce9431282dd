----------------------------- MODULE CoresProofs -----------------------------
(***************************************************************************)
(* ShotIsForgotten and EvidenceMeansStopped of module Cores, for any       *)
(* number of cores, pages, components and revocations.                     *)
(*                                                                         *)
(* Two initiators may make a third core's sequence number go back, so      *)
(* "acknowledged is not ahead of requested" is no invariant of every core. *)
(* It is one of the lowest core that is up, the only core components are   *)
(* ever handed to: nobody but the boot processor asks it anything.         *)
(***************************************************************************)
EXTENDS Cores, TLAPS

Up(c) == mail[c] \notin {"none", "failed"}
Lowest(c) == \A k \in Workers : k < c => ~Up(k)
InComponent(c) == at[c] \in {"running", "syscall"}
Serving == {"drive", "kill", "join", "late", "stopped"}

\* Where components and initiators are.
Placement ==
    /\ at[Boot] = "boot" /\ Up(Boot) /\ tlb[Boot] \subseteq {Ramp}
    /\ boot = "start" => cpu > 0 /\ \A c \in Workers : c >= cpu => mail[c] = "none"
    /\ boot = "watch" => \A c \in Workers : c > cpu => mail[c] = "none"
    /\ boot \in {"watch", "drive", "kill", "join", "late"} => cpu \in Workers
    /\ \A c \in Workers :
        /\ at[c] # "boot"
        /\ at[c] = "arriving" => c = cpu /\ boot \in {"watch", "stopped"} /\ mail[c] = "none"
        /\ InComponent(c) => mail[c] = "run"
        /\ mail[c] \in {"run", "done"} => c = cpu /\ boot \in Serving /\ Lowest(c)
        /\ at[c] = "syscall" => gate[c] = "no"
        /\ at[c] # "syscall" => shoot[c] = "idle"
        /\ InComponent(c) \/ tlb[c] \subseteq {Ramp}

\* What the calls of shootdown are about, and what a kill has taken away.
Calls ==
    /\ \A c \in Cores : shoot[c] \in {"page", "seq", "wait"} =>
                            to[c] \in Cores \ {c} /\ Up(to[c])
    /\ shoot[Boot] # "idle" =>
        \/ boot = "ramp" /\ about[Boot] = Ramp
        \/ boot \in {"kill", "late", "stopped"} /\ about[Boot] \in Text /\ about[Boot] < next
    /\ \A p \in Text : p < next => p \notin pte
    /\ \A p \in withdrawn : p < next
    /\ gone => boot = "up"

\* The words of the lowest core: the boot processor's own.
Asked(c) ==
    /\ shoot[Boot] \in {"page", "seq"} => num[Boot] = seq[c] + 1
    /\ shoot[Boot] \in {"seq", "wait"} => page[c] = about[Boot]
    /\ shoot[Boot] = "wait" =>
        /\ num[Boot] = seq[c]
        /\ gate[c] \in {"flush", "ack"} /\ gseq[c] = seq[c] =>
                gpage[c] = about[Boot]
        /\ gate[c] = "ack" /\ gseq[c] = seq[c] => about[Boot] \notin tlb[c] \/ about[Boot] = Ramp
        /\ ack[c] = seq[c] => about[Boot] \notin tlb[c] \/ about[Boot] = Ramp

Words ==
    \A c \in Workers : Lowest(c) =>
        /\ ack[c] <= seq[c]
        /\ gate[c] \in {"page", "flush", "ack"} => gseq[c] <= seq[c]
        /\ to[Boot] = c => Asked(c)

\* The cores already told have forgotten.
Forgotten ==
    /\ about[Boot] \in Text =>
        \A c \in Cores :
            \/ shoot[Boot] \in {"ask", "page", "seq", "wait"} /\ c < to[Boot]
            \/ shoot[Boot] = "ok"
            => about[Boot] \notin tlb[c]
    /\ \A p \in withdrawn, c \in Cores : p \notin tlb[c]

IInv == TypeOK /\ Placement /\ Calls /\ Words /\ Forgotten

\* The facts about the constants the proofs use.
LEMMA Constants ==
    /\ Cores \subseteq Nat /\ Boot \in Cores /\ Boot = 0
    /\ Workers = Cores \ {Boot} /\ \A c \in Workers : c \in Cores /\ c # Boot /\ c > 0
    /\ Text \subseteq Pages /\ Text \subseteq Nat \ {0} /\ Pages \subseteq Nat
    /\ Ramp \in Pages \ Text /\ Heap \in Pages \ Text /\ Heap # Ramp
    /\ \A n \in Nat : n > 0 /\ n <= TextPages => n \in Text
    /\ \A n \in Nat : n <= LastCore => n \in Cores
    /\ \A c \in Cores : c <= LastCore
BY CoresAssumption DEF CoresAssumption, Cores, Workers, Boot, Text, Pages, Ramp, Heap

\* Every step keeps the types.
LEMMA TypeOKStep == IInv /\ [Next]_vars => TypeOK'
<1> SUFFICES ASSUME IInv, [Next]_vars PROVE TypeOK'
  OBVIOUS
<1> USE Constants DEF TypeOK, IInv, words, handler, call, bsp, kill, counts, Running, BootAt
<1>1. ASSUME NEW c \in Cores, Ask(c) PROVE TypeOK'
  BY <1>1 DEF Ask, Free, ToTell
<1>2. ASSUME NEW c \in Cores, AskedAll(c) PROVE TypeOK'
  BY <1>2 DEF AskedAll, Free, ToTell
<1>3. ASSUME NEW c \in Cores, StorePage(c) PROVE TypeOK'
  BY <1>3, Zenon DEF StorePage, Free
<1>4. ASSUME NEW c \in Cores, StoreSeq(c) PROVE TypeOK'
  BY <1>4, Zenon DEF StoreSeq, Free
<1>5. ASSUME NEW c \in Cores, Acked(c) PROVE TypeOK'
  BY <1>5 DEF Acked, Free
<1>6. ASSUME NEW c \in Cores, Expired(c) PROVE TypeOK'
  BY <1>6 DEF Expired, Free
<1>7. ASSUME NEW c \in Cores, Deliver(c) PROVE TypeOK'
  BY <1>7 DEF Deliver, TakesInterrupts
<1>8. ASSUME NEW c \in Cores, LoadSeq(c) PROVE TypeOK'
  BY <1>8 DEF LoadSeq
<1>9. ASSUME NEW c \in Cores, LoadPage(c) PROVE TypeOK'
  BY <1>9 DEF LoadPage
<1>10. ASSUME NEW c \in Cores, Flush(c) PROVE TypeOK'
  BY <1>10 DEF Flush
<1>11. ASSUME NEW c \in Cores, Acknowledge(c) PROVE TypeOK'
  BY <1>11 DEF Acknowledge
<1>12. ASSUME NEW c \in Cores, Touch(c) PROVE TypeOK'
  BY <1>12 DEF Touch, Executes, Free
<1>13. ASSUME NEW c \in Cores, Fault(c) PROVE TypeOK'
  BY <1>13 DEF Fault, Left, Free
<1>14. ASSUME NEW c \in Cores, Exit(c) PROVE TypeOK'
  BY <1>14 DEF Exit, Left, Executes, Free
<1>15. ASSUME NEW c \in Cores, MapHeap(c) PROVE TypeOK'
  BY <1>15 DEF MapHeap, Executes, Free
<1>16. ASSUME NEW c \in Cores, Revoke(c) PROVE TypeOK'
  BY <1>16 DEF Revoke, Executes, Free, Call
<1>17. ASSUME NEW c \in Cores, Arrive(c) PROVE TypeOK'
  BY <1>17 DEF Arrive
<1>18. ASSUME NEW c \in Cores, Park(c) PROVE TypeOK'
  BY <1>18 DEF Park
<1>19. ASSUME NEW c \in Cores, Enter(c) PROVE TypeOK'
  BY <1>19 DEF Enter, Free
<1>20. ASSUME NEW c \in Cores, Revoked(c) PROVE TypeOK'
  BY <1>20 DEF Revoked
<1>21. ASSUME NEW c \in Cores, RevokeFails(c) PROVE TypeOK'
  BY <1>21 DEF RevokeFails
<1>22. CASE Wake
  BY <1>22 DEF Wake
<1>23. CASE Arrived
  BY <1>23 DEF Arrived
<1>24. CASE ArrivedBroken
  BY <1>24 DEF ArrivedBroken
<1>25. CASE Hold
  <2>1. {} \in SUBSET Pages /\ cpu + 1 \in Nat
    BY <1>1 DEF IInv, TypeOK
  <2>2. at' \in [Cores -> {"boot", "asleep", "arriving", "ready", "failed", "parked",
                           "running", "syscall"}] /\ tlb' \in [Cores -> SUBSET Pages]
    BY <1>25, <2>1, Zenon DEF Hold, IInv, TypeOK
  <2> QED
    BY <1>25, <2>1, <2>2 DEF Hold, words, handler, call, kill, counts, IInv, TypeOK
<1>26. CASE ArrivedHeld
  BY <1>26, Zenon DEF ArrivedHeld
<1>27. CASE WithdrawRamp
  BY <1>27 DEF WithdrawRamp, Call
<1>28. CASE RampWithdrawn
  BY <1>28 DEF RampWithdrawn
<1>29. CASE Start
  <2>1. PICK k \in Workers : mail' = [mail EXCEPT ![k] = "run"] /\ boot' = "drive" /\ cpu' = k
    BY <1>29, Zenon DEF Start
  <2>2. mail' \in [Cores -> {"none", "ready", "run", "done", "failed"}] /\ cpu' \in Nat
    BY <2>1, Constants DEF IInv, TypeOK
  <2>3. pte' \in SUBSET Pages /\ withdrawn' \in SUBSET Text /\ next' \in Nat \ {0} /\ runs' \in Nat
    BY <1>29, Constants DEF Start, IInv, TypeOK
  <2> QED
    BY <1>29, <2>1, <2>2, <2>3, Zenon DEF Start, words, handler, call, IInv, TypeOK
<1>30. CASE Kill
  BY <1>30 DEF Kill
<1>31. CASE FaultPage
  BY <1>31 DEF FaultPage, Call
<1>32. CASE PageGone
  BY <1>32, Zenon DEF PageGone, Calls
<1>33. CASE KillFails
  BY <1>33 DEF KillFails
<1>34. CASE Faulted
  BY <1>34 DEF Faulted
<1>35. CASE Join
  BY <1>35, Zenon DEF Join
<1>36. CASE Overdue
  BY <1>36 DEF Overdue
<1>37. CASE LateJoin
  BY <1>37 DEF LateJoin
<1>38. CASE Finish
  BY <1>38, Zenon DEF Finish
<1>39. CASE UNCHANGED vars
  BY <1>39 DEF vars
<1> HIDE DEF TypeOK, IInv
<1> QED
  BY <1>1, <1>2, <1>3, <1>4, <1>5, <1>6, <1>7, <1>8, <1>9, <1>10, <1>11, <1>12, <1>13,
     <1>14, <1>15, <1>16, <1>17, <1>18, <1>19, <1>20, <1>21, <1>22, <1>23, <1>24, <1>25,
     <1>26, <1>27, <1>28, <1>29, <1>30, <1>31, <1>32, <1>33, <1>34, <1>35, <1>36, <1>37,
     <1>38, <1>39
  DEF Next, Shoot, Answer, Component, Core, BootStep, Spin

\* Every step keeps components where they were handed.
LEMMA PlacementStep == IInv /\ [Next]_vars => Placement'
<1> SUFFICES ASSUME IInv, [Next]_vars PROVE Placement'
  OBVIOUS
<1> USE Constants DEF TypeOK, IInv, Placement, Up, Lowest, InComponent, Serving, words,
        handler, call, bsp, kill, counts, Running, BootAt
<1>1. ASSUME NEW c \in Cores, Ask(c) PROVE Placement'
  BY <1>1 DEF Ask, Free, ToTell
<1>2. ASSUME NEW c \in Cores, AskedAll(c) PROVE Placement'
  BY <1>2 DEF AskedAll, Free, ToTell
<1>3. ASSUME NEW c \in Cores, StorePage(c) PROVE Placement'
  BY <1>3 DEF StorePage, Free
<1>4. ASSUME NEW c \in Cores, StoreSeq(c) PROVE Placement'
  BY <1>4 DEF StoreSeq, Free
<1>5. ASSUME NEW c \in Cores, Acked(c) PROVE Placement'
  BY <1>5 DEF Acked, Free
<1>6. ASSUME NEW c \in Cores, Expired(c) PROVE Placement'
  BY <1>6 DEF Expired, Free
<1>7. ASSUME NEW c \in Cores, Deliver(c) PROVE Placement'
  BY <1>7 DEF Deliver, TakesInterrupts
<1>8. ASSUME NEW c \in Cores, LoadSeq(c) PROVE Placement'
  BY <1>8 DEF LoadSeq
<1>9. ASSUME NEW c \in Cores, LoadPage(c) PROVE Placement'
  BY <1>9 DEF LoadPage
<1>10. ASSUME NEW c \in Cores, Flush(c) PROVE Placement'
  BY <1>10 DEF Flush
<1>11. ASSUME NEW c \in Cores, Acknowledge(c) PROVE Placement'
  BY <1>11 DEF Acknowledge
<1>12. ASSUME NEW c \in Cores, Touch(c) PROVE Placement'
  BY <1>12 DEF Touch, Executes, Free
<1>13. ASSUME NEW c \in Cores, Fault(c) PROVE Placement'
  BY <1>13 DEF Fault, Left, Free
<1>14. ASSUME NEW c \in Cores, Exit(c) PROVE Placement'
  BY <1>14 DEF Exit, Left, Executes, Free
<1>15. ASSUME NEW c \in Cores, MapHeap(c) PROVE Placement'
  BY <1>15 DEF MapHeap, Executes, Free
<1>16. ASSUME NEW c \in Cores, Revoke(c) PROVE Placement'
  BY <1>16 DEF Revoke, Executes, Free, Call
<1>17. ASSUME NEW c \in Cores, Arrive(c) PROVE Placement'
  BY <1>17 DEF Arrive
<1>18. ASSUME NEW c \in Cores, Park(c) PROVE Placement'
  BY <1>18 DEF Park
<1>19. ASSUME NEW c \in Cores, Enter(c) PROVE Placement'
  BY <1>19 DEF Enter, Free
<1>20. ASSUME NEW c \in Cores, Revoked(c) PROVE Placement'
  BY <1>20 DEF Revoked
<1>21. ASSUME NEW c \in Cores, RevokeFails(c) PROVE Placement'
  BY <1>21 DEF RevokeFails
<1>22. CASE Wake
  BY <1>22 DEF Wake
<1>23. CASE Arrived
  BY <1>23 DEF Arrived
<1>24. CASE ArrivedBroken
  BY <1>24 DEF ArrivedBroken
<1>25. CASE Hold
  BY <1>25 DEF Hold
<1>26. CASE ArrivedHeld
  BY <1>26 DEF ArrivedHeld
<1>27. CASE WithdrawRamp
  BY <1>27 DEF WithdrawRamp, Call
<1>28. CASE RampWithdrawn
  BY <1>28 DEF RampWithdrawn
<1>29. CASE Start
  BY <1>29 DEF Start
<1>30. CASE Kill
  BY <1>30 DEF Kill
<1>31. CASE FaultPage
  BY <1>31 DEF FaultPage, Call
<1>32. CASE PageGone
  BY <1>32 DEF PageGone
<1>33. CASE KillFails
  BY <1>33 DEF KillFails
<1>34. CASE Faulted
  BY <1>34 DEF Faulted
<1>35. CASE Join
  BY <1>35 DEF Join
<1>36. CASE Overdue
  BY <1>36 DEF Overdue
<1>37. CASE LateJoin
  BY <1>37 DEF LateJoin
<1>38. CASE Finish
  BY <1>38 DEF Finish
<1>39. CASE UNCHANGED vars
  BY <1>39 DEF vars
<1> HIDE DEF TypeOK, IInv, Placement, Up, Lowest, InComponent, Serving
<1> QED
  BY <1>1, <1>2, <1>3, <1>4, <1>5, <1>6, <1>7, <1>8, <1>9, <1>10, <1>11, <1>12, <1>13,
     <1>14, <1>15, <1>16, <1>17, <1>18, <1>19, <1>20, <1>21, <1>22, <1>23, <1>24, <1>25,
     <1>26, <1>27, <1>28, <1>29, <1>30, <1>31, <1>32, <1>33, <1>34, <1>35, <1>36, <1>37,
     <1>38, <1>39
  DEF Next, Shoot, Answer, Component, Core, BootStep, Spin

\* Every step keeps the calls of shootdown and the kill in step.
LEMMA CallsStep == IInv /\ [Next]_vars => Calls'
<1> SUFFICES ASSUME IInv, [Next]_vars PROVE Calls'
  OBVIOUS
<1> USE Constants DEF TypeOK, IInv, Placement, Calls, Up, InComponent, Serving, words,
        handler, call, bsp, kill, counts, Running, BootAt
<1>1. ASSUME NEW c \in Cores, Ask(c) PROVE Calls'
  BY <1>1 DEF Ask, Free, ToTell
<1>2. ASSUME NEW c \in Cores, AskedAll(c) PROVE Calls'
  BY <1>2 DEF AskedAll, Free, ToTell
<1>3. ASSUME NEW c \in Cores, StorePage(c) PROVE Calls'
  BY <1>3 DEF StorePage, Free
<1>4. ASSUME NEW c \in Cores, StoreSeq(c) PROVE Calls'
  BY <1>4 DEF StoreSeq, Free
<1>5. ASSUME NEW c \in Cores, Acked(c) PROVE Calls'
  BY <1>5 DEF Acked, Free
<1>6. ASSUME NEW c \in Cores, Expired(c) PROVE Calls'
  BY <1>6 DEF Expired, Free
<1>7. ASSUME NEW c \in Cores, Deliver(c) PROVE Calls'
  BY <1>7 DEF Deliver, TakesInterrupts
<1>8. ASSUME NEW c \in Cores, LoadSeq(c) PROVE Calls'
  BY <1>8 DEF LoadSeq
<1>9. ASSUME NEW c \in Cores, LoadPage(c) PROVE Calls'
  BY <1>9 DEF LoadPage
<1>10. ASSUME NEW c \in Cores, Flush(c) PROVE Calls'
  BY <1>10 DEF Flush
<1>11. ASSUME NEW c \in Cores, Acknowledge(c) PROVE Calls'
  BY <1>11 DEF Acknowledge
<1>12. ASSUME NEW c \in Cores, Touch(c) PROVE Calls'
  BY <1>12 DEF Touch, Executes, Free
<1>13. ASSUME NEW c \in Cores, Fault(c) PROVE Calls'
  BY <1>13 DEF Fault, Left, Free
<1>14. ASSUME NEW c \in Cores, Exit(c) PROVE Calls'
  BY <1>14 DEF Exit, Left, Executes, Free
<1>15. ASSUME NEW c \in Cores, MapHeap(c) PROVE Calls'
  BY <1>15 DEF MapHeap, Executes, Free
<1>16. ASSUME NEW c \in Cores, Revoke(c) PROVE Calls'
  BY <1>16 DEF Revoke, Executes, Free, Call
<1>17. ASSUME NEW c \in Cores, Arrive(c) PROVE Calls'
  BY <1>17 DEF Arrive
<1>18. ASSUME NEW c \in Cores, Park(c) PROVE Calls'
  BY <1>18 DEF Park
<1>19. ASSUME NEW c \in Cores, Enter(c) PROVE Calls'
  BY <1>19 DEF Enter, Free
<1>20. ASSUME NEW c \in Cores, Revoked(c) PROVE Calls'
  BY <1>20 DEF Revoked
<1>21. ASSUME NEW c \in Cores, RevokeFails(c) PROVE Calls'
  BY <1>21 DEF RevokeFails
<1>22. CASE Wake
  BY <1>22 DEF Wake
<1>23. CASE Arrived
  BY <1>23 DEF Arrived
<1>24. CASE ArrivedBroken
  BY <1>24 DEF ArrivedBroken
<1>25. CASE Hold
  BY <1>25 DEF Hold
<1>26. CASE ArrivedHeld
  BY <1>26 DEF ArrivedHeld
<1>27. CASE WithdrawRamp
  BY <1>27 DEF WithdrawRamp, Call
<1>28. CASE RampWithdrawn
  BY <1>28 DEF RampWithdrawn
<1>29. CASE Start
  BY <1>29 DEF Start
<1>30. CASE Kill
  BY <1>30 DEF Kill
<1>31. CASE FaultPage
  BY <1>31 DEF FaultPage, Call
<1>32. CASE PageGone
  BY <1>32 DEF PageGone
<1>33. CASE KillFails
  BY <1>33 DEF KillFails
<1>34. CASE Faulted
  BY <1>34 DEF Faulted
<1>35. CASE Join
  BY <1>35 DEF Join
<1>36. CASE Overdue
  BY <1>36 DEF Overdue
<1>37. CASE LateJoin
  BY <1>37 DEF LateJoin
<1>38. CASE Finish
  BY <1>38 DEF Finish
<1>39. CASE UNCHANGED vars
  BY <1>39 DEF vars
<1> HIDE DEF TypeOK, IInv, Placement, Calls, Up, InComponent, Serving
<1> QED
  BY <1>1, <1>2, <1>3, <1>4, <1>5, <1>6, <1>7, <1>8, <1>9, <1>10, <1>11, <1>12, <1>13,
     <1>14, <1>15, <1>16, <1>17, <1>18, <1>19, <1>20, <1>21, <1>22, <1>23, <1>24, <1>25,
     <1>26, <1>27, <1>28, <1>29, <1>30, <1>31, <1>32, <1>33, <1>34, <1>35, <1>36, <1>37,
     <1>38, <1>39
  DEF Next, Shoot, Answer, Component, Core, BootStep, Spin

\* Every step keeps the lowest core's words the boot processor's own.
LEMMA WordsStep == IInv /\ [Next]_vars => Words'
<1> SUFFICES ASSUME IInv, [Next]_vars PROVE Words'
  OBVIOUS
<1> USE Constants DEF TypeOK, IInv, Placement, Calls, Words, Asked, Up, Lowest, InComponent,
        Serving, words, handler, call, bsp, kill, counts, Running, BootAt
<1>1. ASSUME NEW c \in Cores, Ask(c) PROVE Words'
  BY <1>1 DEF Ask, Free, ToTell
<1>2. ASSUME NEW c \in Cores, AskedAll(c) PROVE Words'
  BY <1>2 DEF AskedAll, Free, ToTell
<1>3. ASSUME NEW c \in Cores, StorePage(c) PROVE Words'
  BY <1>3 DEF StorePage, Free
<1>4. ASSUME NEW c \in Cores, StoreSeq(c) PROVE Words'
  BY <1>4 DEF StoreSeq, Free
<1>5. ASSUME NEW c \in Cores, Acked(c) PROVE Words'
  BY <1>5 DEF Acked, Free
<1>6. ASSUME NEW c \in Cores, Expired(c) PROVE Words'
  BY <1>6 DEF Expired, Free
<1>7. ASSUME NEW c \in Cores, Deliver(c) PROVE Words'
  BY <1>7 DEF Deliver, TakesInterrupts
<1>8. ASSUME NEW c \in Cores, LoadSeq(c) PROVE Words'
  BY <1>8 DEF LoadSeq
<1>9. ASSUME NEW c \in Cores, LoadPage(c) PROVE Words'
  BY <1>9 DEF LoadPage
<1>10. ASSUME NEW c \in Cores, Flush(c) PROVE Words'
  BY <1>10 DEF Flush
<1>11. ASSUME NEW c \in Cores, Acknowledge(c) PROVE Words'
  BY <1>11 DEF Acknowledge
<1>12. ASSUME NEW c \in Cores, Touch(c) PROVE Words'
  BY <1>12 DEF Touch, Executes, Free
<1>13. ASSUME NEW c \in Cores, Fault(c) PROVE Words'
  BY <1>13 DEF Fault, Left, Free
<1>14. ASSUME NEW c \in Cores, Exit(c) PROVE Words'
  BY <1>14 DEF Exit, Left, Executes, Free
<1>15. ASSUME NEW c \in Cores, MapHeap(c) PROVE Words'
  BY <1>15 DEF MapHeap, Executes, Free
<1>16. ASSUME NEW c \in Cores, Revoke(c) PROVE Words'
  BY <1>16 DEF Revoke, Executes, Free, Call
<1>17. ASSUME NEW c \in Cores, Arrive(c) PROVE Words'
  BY <1>17 DEF Arrive
<1>18. ASSUME NEW c \in Cores, Park(c) PROVE Words'
  BY <1>18 DEF Park
<1>19. ASSUME NEW c \in Cores, Enter(c) PROVE Words'
  BY <1>19 DEF Enter, Free
<1>20. ASSUME NEW c \in Cores, Revoked(c) PROVE Words'
  BY <1>20 DEF Revoked
<1>21. ASSUME NEW c \in Cores, RevokeFails(c) PROVE Words'
  BY <1>21 DEF RevokeFails
<1>22. CASE Wake
  BY <1>22 DEF Wake
<1>23. CASE Arrived
  BY <1>23 DEF Arrived
<1>24. CASE ArrivedBroken
  BY <1>24 DEF ArrivedBroken
<1>25. CASE Hold
  BY <1>25 DEF Hold
<1>26. CASE ArrivedHeld
  BY <1>26 DEF ArrivedHeld
<1>27. CASE WithdrawRamp
  BY <1>27 DEF WithdrawRamp, Call
<1>28. CASE RampWithdrawn
  BY <1>28 DEF RampWithdrawn
<1>29. CASE Start
  <2>1. \A k \in Cores : Up(k)' <=> Up(k)
    BY <1>29, Constants DEF Start, BootAt, IInv, TypeOK, Up
  <2>2. \A k \in Workers : Lowest(k)' => Lowest(k)
    BY <2>1, Constants DEF Lowest
  <2> QED
    BY <1>29, <2>2, Zenon DEF Start, words, handler, call, IInv, Words, Asked
<1>30. CASE Kill
  BY <1>30 DEF Kill
<1>31. CASE FaultPage
  BY <1>31 DEF FaultPage, Call
<1>32. CASE PageGone
  BY <1>32 DEF PageGone
<1>33. CASE KillFails
  BY <1>33 DEF KillFails
<1>34. CASE Faulted
  BY <1>34 DEF Faulted
<1>35. CASE Join
  BY <1>35 DEF Join
<1>36. CASE Overdue
  BY <1>36 DEF Overdue
<1>37. CASE LateJoin
  BY <1>37 DEF LateJoin
<1>38. CASE Finish
  BY <1>38 DEF Finish
<1>39. CASE UNCHANGED vars
  BY <1>39 DEF vars
<1> HIDE DEF TypeOK, IInv, Placement, Calls, Words, Asked, Up, Lowest, InComponent, Serving
<1> QED
  BY <1>1, <1>2, <1>3, <1>4, <1>5, <1>6, <1>7, <1>8, <1>9, <1>10, <1>11, <1>12, <1>13,
     <1>14, <1>15, <1>16, <1>17, <1>18, <1>19, <1>20, <1>21, <1>22, <1>23, <1>24, <1>25,
     <1>26, <1>27, <1>28, <1>29, <1>30, <1>31, <1>32, <1>33, <1>34, <1>35, <1>36, <1>37,
     <1>38, <1>39
  DEF Next, Shoot, Answer, Component, Core, BootStep, Spin

\* Every step leaves a page of text forgotten by the cores told of it.
LEMMA ForgottenStep == IInv /\ [Next]_vars => Forgotten'
<1> SUFFICES ASSUME IInv, [Next]_vars PROVE Forgotten'
  OBVIOUS
<1> USE Constants DEF TypeOK, IInv, Placement, Calls, Words, Asked, Forgotten, Up, Lowest,
        InComponent, Serving, words, handler, call, bsp, kill, counts, Running, BootAt
<1>1. ASSUME NEW c \in Cores, Ask(c) PROVE Forgotten'
  BY <1>1 DEF Ask, Free, ToTell
<1>2. ASSUME NEW c \in Cores, AskedAll(c) PROVE Forgotten'
  BY <1>2 DEF AskedAll, Free, ToTell
<1>3. ASSUME NEW c \in Cores, StorePage(c) PROVE Forgotten'
  BY <1>3 DEF StorePage, Free
<1>4. ASSUME NEW c \in Cores, StoreSeq(c) PROVE Forgotten'
  BY <1>4 DEF StoreSeq, Free
<1>5. ASSUME NEW c \in Cores, Acked(c) PROVE Forgotten'
  BY <1>5 DEF Acked, Free
<1>6. ASSUME NEW c \in Cores, Expired(c) PROVE Forgotten'
  BY <1>6 DEF Expired, Free
<1>7. ASSUME NEW c \in Cores, Deliver(c) PROVE Forgotten'
  BY <1>7 DEF Deliver, TakesInterrupts
<1>8. ASSUME NEW c \in Cores, LoadSeq(c) PROVE Forgotten'
  BY <1>8 DEF LoadSeq
<1>9. ASSUME NEW c \in Cores, LoadPage(c) PROVE Forgotten'
  BY <1>9 DEF LoadPage
<1>10. ASSUME NEW c \in Cores, Flush(c) PROVE Forgotten'
  BY <1>10 DEF Flush
<1>11. ASSUME NEW c \in Cores, Acknowledge(c) PROVE Forgotten'
  BY <1>11 DEF Acknowledge
<1>12. ASSUME NEW c \in Cores, Touch(c) PROVE Forgotten'
  BY <1>12 DEF Touch, Executes, Free
<1>13. ASSUME NEW c \in Cores, Fault(c) PROVE Forgotten'
  BY <1>13 DEF Fault, Left, Free
<1>14. ASSUME NEW c \in Cores, Exit(c) PROVE Forgotten'
  BY <1>14 DEF Exit, Left, Executes, Free
<1>15. ASSUME NEW c \in Cores, MapHeap(c) PROVE Forgotten'
  BY <1>15 DEF MapHeap, Executes, Free
<1>16. ASSUME NEW c \in Cores, Revoke(c) PROVE Forgotten'
  BY <1>16 DEF Revoke, Executes, Free, Call
<1>17. ASSUME NEW c \in Cores, Arrive(c) PROVE Forgotten'
  BY <1>17 DEF Arrive
<1>18. ASSUME NEW c \in Cores, Park(c) PROVE Forgotten'
  BY <1>18 DEF Park
<1>19. ASSUME NEW c \in Cores, Enter(c) PROVE Forgotten'
  BY <1>19 DEF Enter, Free
<1>20. ASSUME NEW c \in Cores, Revoked(c) PROVE Forgotten'
  BY <1>20 DEF Revoked
<1>21. ASSUME NEW c \in Cores, RevokeFails(c) PROVE Forgotten'
  BY <1>21 DEF RevokeFails
<1>22. CASE Wake
  BY <1>22 DEF Wake
<1>23. CASE Arrived
  BY <1>23 DEF Arrived
<1>24. CASE ArrivedBroken
  BY <1>24 DEF ArrivedBroken
<1>25. CASE Hold
  BY <1>25 DEF Hold
<1>26. CASE ArrivedHeld
  BY <1>26 DEF ArrivedHeld
<1>27. CASE WithdrawRamp
  BY <1>27 DEF WithdrawRamp, Call
<1>28. CASE RampWithdrawn
  BY <1>28 DEF RampWithdrawn
<1>29. CASE Start
  BY <1>29 DEF Start
<1>30. CASE Kill
  BY <1>30 DEF Kill
<1>31. CASE FaultPage
  BY <1>31 DEF FaultPage, Call
<1>32. CASE PageGone
  BY <1>32 DEF PageGone
<1>33. CASE KillFails
  BY <1>33 DEF KillFails
<1>34. CASE Faulted
  BY <1>34 DEF Faulted
<1>35. CASE Join
  BY <1>35 DEF Join
<1>36. CASE Overdue
  BY <1>36 DEF Overdue
<1>37. CASE LateJoin
  BY <1>37 DEF LateJoin
<1>38. CASE Finish
  BY <1>38 DEF Finish
<1>39. CASE UNCHANGED vars
  BY <1>39 DEF vars
<1> HIDE DEF TypeOK, IInv, Placement, Calls, Words, Asked, Forgotten, Up, Lowest,
        InComponent, Serving
<1> QED
  BY <1>1, <1>2, <1>3, <1>4, <1>5, <1>6, <1>7, <1>8, <1>9, <1>10, <1>11, <1>12, <1>13,
     <1>14, <1>15, <1>16, <1>17, <1>18, <1>19, <1>20, <1>21, <1>22, <1>23, <1>24, <1>25,
     <1>26, <1>27, <1>28, <1>29, <1>30, <1>31, <1>32, <1>33, <1>34, <1>35, <1>36, <1>37,
     <1>38, <1>39
  DEF Next, Shoot, Answer, Component, Core, BootStep, Spin

\* The strengthened invariant holds.
THEOREM Inductive == Spec => []IInv
<1>1. Init => IInv
  <2> SUFFICES ASSUME Init PROVE IInv
    OBVIOUS
  <2>1. TypeOK
    <3>1. Ramp \in Pages /\ {Ramp} \in SUBSET Pages /\ {} \in SUBSET Pages /\ {} \in SUBSET Text
      BY Constants
    <3>2. /\ mail \in [Cores -> {"none", "ready", "run", "done", "failed"}]
          /\ at \in [Cores -> {"boot", "asleep", "arriving", "ready", "failed", "parked",
                               "running", "syscall"}]
      BY DEF Init
    <3>3. /\ pte \in SUBSET Pages /\ tlb \in [Cores -> SUBSET Pages] /\ withdrawn \in SUBSET Text
          /\ gpage \in [Cores -> Pages] /\ page \in [Cores -> Pages] /\ about \in [Cores -> Pages]
      BY <3>1 DEF Init
    <3>4. patient \in BOOLEAN /\ gone \in BOOLEAN /\ irr \in [Cores -> BOOLEAN]
      BY Zenon DEF Init
    <3> QED
      BY <3>2, <3>3, <3>4 DEF Init, TypeOK
  <2>2. Placement
    BY Constants DEF Init, Placement, Up, Lowest, InComponent, Serving
  <2>3. Calls
    BY Constants DEF Init, Calls
  <2>4. Words
    BY Constants DEF Init, Words, Asked
  <2>5. Forgotten
    BY Constants DEF Init, Forgotten
  <2> QED
    BY <2>1, <2>2, <2>3, <2>4, <2>5 DEF IInv
<1>2. IInv /\ [Next]_vars => IInv'
  BY TypeOKStep, PlacementStep, CallsStep, WordsStep, ForgottenStep DEF IInv
<1> QED
  BY <1>1, <1>2, PTL DEF Spec

\* The words of smp.rs keep their shape.
THEOREM Typed == Spec => []TypeOK
<1>1. IInv => TypeOK
  BY DEF IInv
<1> QED
  BY <1>1, Inductive, PTL

\* shootdown's Ok is the whole promise for a kill's pages: none of them is in
\* the tables or in any core's translation buffer.
THEOREM Forgets == Spec => []ShotIsForgotten
<1>1. IInv => ShotIsForgotten
  BY Constants DEF IInv, TypeOK, Calls, Forgotten, ShotIsForgotten
<1> QED
  BY <1>1, Inductive, PTL

\* A kill's evidence is true when it is minted: no core is in a component.
THEOREM Stopped == Spec => []EvidenceMeansStopped
<1>1. IInv => EvidenceMeansStopped
  BY Constants
  DEF IInv, TypeOK, Placement, Calls, InComponent, Serving, EvidenceMeansStopped
<1> QED
  BY <1>1, Inductive, PTL

=============================================================================
