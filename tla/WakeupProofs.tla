---------------------------- MODULE WakeupProofs ----------------------------
(***************************************************************************)
(* No lost wakeup, for every ring size and any number of submissions.      *)
(***************************************************************************)
EXTENDS Wakeup, TLAPS

\* The client's half of Dekker's algorithm: past the fence, its head is visible.
PublishedBeforeLooking ==
    /\ taken <= head /\ head <= sent
    /\ client # "fence" => head = sent

\* The component's half: the shared flag is its own `armed', and it does not
\* stop without it.
ArmedBeforeSleeping ==
    /\ flag = armed
    /\ server \in {"wait", "halted"} => armed
    /\ server \in {"arm", "serve"} => ~armed

\* From the second, empty look until the core runs again, work that appears
\* has a ring coming: in the client, in the APIC, or in the latch.
WorkIsAnnounced ==
    server \in {"wait", "halted"} /\ taken < sent =>
        \/ client # "idle"
        \/ irr
        \/ pending /\ server = "wait"

StopIsAnnounced ==
    told /\ server \notin {"turn", "leave", "stopped"} =>
        irr \/ client = "stop" \/ (pending /\ server # "halted")

\* One delivered doorbell for each halt ended or spared, and one more while
\* the latch is set.
DoorbellsAccounted ==
    /\ server \notin {"halted", "leave"} =>
          woken + spared <= delivered /\ (pending => woken + spared + 1 <= delivered)
    /\ server \in {"halted", "leave"} => woken + spared <= before /\ before <= delivered
    /\ server = "halted" => ~pending

IInv ==
    /\ TypeOK
    /\ PublishedBeforeLooking
    /\ ArmedBeforeSleeping
    /\ WorkIsAnnounced
    /\ StopIsAnnounced
    /\ DoorbellsAccounted
    /\ AnswerAlwaysFits

\* The flags stay Boolean: stated apart because it is propositional.
LEMMA FlagsStayBoolean == FlagsOK /\ [Next]_vars => FlagsOK'
  BY Zenon
  DEF FlagsOK, Next, InCall, Loop, vars, Submit, HeadLands, Fence, LoadFlag, RingBell,
      RingStop, Reap, TellStop, Turn, Pop, PopEmpty, Disarm, Serve, Arm, EnterWait, LeaveWait, Deliver, Timer

\* The invariant holds when the component starts and nothing has been sent.
LEMMA InitIInv == Init => IInv
<1>1. Init => FlagsOK
  BY Zenon DEF Init, FlagsOK
<1>2. Init => TypeOK
  BY <1>1 DEF Init, TypeOK, ClientPcs, ServerPcs
<1>3. Init => PublishedBeforeLooking
  BY DEF Init, PublishedBeforeLooking
<1>4. Init => ArmedBeforeSleeping
  BY Zenon DEF Init, ArmedBeforeSleeping
<1>5. Init => WorkIsAnnounced /\ StopIsAnnounced
  BY DEF Init, WorkIsAnnounced, StopIsAnnounced
<1>6. Init => DoorbellsAccounted
  BY DEF Init, DoorbellsAccounted
<1>7. Init => AnswerAlwaysFits
  BY WakeupAssumption DEF Init, WakeupAssumption, AnswerAlwaysFits
<1>8. QED
  BY <1>2, <1>3, <1>4, <1>5, <1>6, <1>7 DEF IInv

\* No step of the client, the component or its core breaks it.
LEMMA StepIInv == IInv /\ [Next]_vars => IInv'
<1> SUFFICES ASSUME IInv, [Next]_vars
             PROVE  IInv'
  OBVIOUS
<1>0. FlagsOK /\ FlagsOK'
  BY FlagsStayBoolean DEF IInv, TypeOK
<1> USE <1>0, WakeupAssumption
    DEF WakeupAssumption, IInv, TypeOK, ClientPcs, ServerPcs, PublishedBeforeLooking,
       ArmedBeforeSleeping, WorkIsAnnounced, StopIsAnnounced, DoorbellsAccounted,
       AnswerAlwaysFits, counters
<1>1. CASE Submit
  BY <1>1 DEF Submit
<1>2. CASE HeadLands
  BY <1>2 DEF HeadLands
<1>3. CASE Fence
  BY <1>3 DEF Fence
<1>4. CASE LoadFlag
  BY <1>4 DEF LoadFlag
<1>5. CASE RingBell
  BY <1>5 DEF RingBell
<1>6. CASE Reap
  BY <1>6 DEF Reap
<1>7. CASE TellStop
  BY <1>7 DEF TellStop
<1>8. CASE Turn
  BY <1>8 DEF Turn
<1>9. CASE Pop
  BY <1>9 DEF Pop
<1>10. CASE PopEmpty
  BY <1>10 DEF PopEmpty
<1>11. CASE Disarm
  BY <1>11, Zenon DEF Disarm
<1>12. CASE Serve
  BY <1>12 DEF Serve
<1>13. CASE Arm
  BY <1>13 DEF Arm
<1>14. CASE EnterWait
  BY <1>14 DEF EnterWait
<1>15. CASE LeaveWait
  BY <1>15 DEF LeaveWait
<1>16. CASE Deliver
  BY <1>16 DEF Deliver
<1>17. CASE Timer
  BY <1>17 DEF Timer
<1>18. CASE RingStop
  BY <1>18 DEF RingStop
<1>19. CASE UNCHANGED vars
  BY <1>19 DEF vars
<1>20. QED
  BY <1>1, <1>2, <1>3, <1>4, <1>5, <1>6, <1>7, <1>8, <1>9,
     <1>10, <1>11, <1>12, <1>13, <1>14, <1>15, <1>16, <1>17, <1>18, <1>19, Zenon DEF Next, InCall, Loop

\* IInv is an invariant of the protocol.
THEOREM Invariance == Spec => []IInv
<1>1. QED
  BY InitIInv, StepIInv, PTL DEF Spec

\* Every variable keeps its type, for every ring size.
THEOREM TypeCorrect == Spec => []TypeOK
<1>1. IInv => TypeOK
  BY DEF IInv
<1>2. QED
  BY <1>1, Invariance, PTL

\* No lost wakeup: a core never halts over an entry or a stop nobody will
\* ring for, whatever the ring sizes and however often client and component
\* race (doorbell_wanted, arm_wakeup and the latch of wait together).
THEOREM NeverALostWakeup == Spec => []NoLostWakeup
<1>1. IInv => NoLostWakeup
  BY DEF IInv, NoLostWakeup, WorkIsAnnounced, StopIsAnnounced
<1>2. QED
  BY <1>1, Invariance, PTL

\* A doorbell delivered is spent on one halt or on one spared wait, not both.
THEOREM DoorbellsAreSpentOnce == Spec => []DoorbellSpentOnce
<1>1. IInv => DoorbellSpentOnce
  BY DEF IInv, TypeOK, DoorbellsAccounted, DoorbellSpentOnce
<1>2. QED
  BY <1>1, Invariance, PTL

\* The room seen before an entry is taken is still there when it is answered.
THEOREM AnswersAlwaysFit == Spec => []AnswerAlwaysFits
<1>1. IInv => AnswerAlwaysFits
  BY DEF IInv
<1>2. QED
  BY <1>1, Invariance, PTL
=============================================================================
