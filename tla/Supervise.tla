----------------------------- MODULE Supervise -----------------------------
(***************************************************************************)
(* A place and the supervisor that decides about it.                       *)
(*                                                                         *)
(* The supervisor (user/supervisor) is a component the frame gives a core  *)
(* to, once per consultation.  The frame writes a board: whether the place *)
(* is occupied, the restart budget, two words its occupant published and   *)
(* the supervisor's memory of one of them.  It posts the peer-gone notice  *)
(* the supervisor's table owes.  The supervisor drains its ring, decides   *)
(* by the place's restart policy, and leaves a SPAWN or a STOP on its own  *)
(* ring, which the frame serves after the supervisor's run has ended.  The *)
(* frame keeps the budget and the memory between runs and reads neither.   *)
(*                                                                         *)
(* The stages are the frame's: it serves the occupant, copies its words,   *)
(* consults, consults again over the same words, and performs a stop whose *)
(* deadline has passed; a death is noted, published and consulted about.   *)
(*                                                                         *)
(* A place is driven by a client (the passes of Place), or supervised.     *)
(***************************************************************************)
EXTENDS Place, Sequences, FiniteSets

CONSTANTS MaxRestarts,   \* Record::max_restarts
          WindowTicks,   \* Record::budget_window_ticks
          MaxNow,        \* bound: timer ticks
          MaxWaits,      \* bound: outstanding waits
          MaxAbandoned,  \* bound: frames one occupant abandons
          MaxEpoch       \* bound: occupants of one place

ASSUME SuperviseAssumption ==
  /\ {MaxRestarts, WindowTicks} \subseteq Nat \ {0}
  /\ {MaxNow, MaxWaits, MaxAbandoned, MaxEpoch} \subseteq Nat

VARIABLES policy,     \* Record::restart
          assembles,  \* the boot's generation names this place's module
          stage,      \* where the frame is with the place
          now,        \* timer ticks
          words,      \* what the occupant publishes: waits, abandoned frames
          row,        \* Place::liveness, the words the frame copied
          seen,       \* Place::seen, the supervisor's memory
          budget,     \* Place::budget: used, opened
          gone,       \* Place::gone, why the last occupant went
          promised,   \* the occupant's table holds a stop whose deadline passed
          armed,      \* the supervisor's table owes notices
          owes,       \* a peer-gone pends in the slot of the place's endpoint
          posted,     \* the notice on the supervisor's ring
          refused,    \* the frame refused a spawn the supervisor submitted
          fates,      \* history: timeouts named of this occupant
          restarts    \* history: the ticks of restarts a policy decided

boardVars == <<policy, assembles, stage, now, words, row, seen, budget, gone,
               promised, armed, owes, posted, refused, fates, restarts>>
vars == <<placeVars, boardVars>>

NoNotice == "none"
NoCause == "no cause"
Still == [waits |-> 0, abandoned |-> 0]
Untouched == [used |-> 0, opened |-> 0]       \* Budget::default()

Init ==
  /\ PlaceInit
  /\ policy \in {"never", "on_fault"}
  /\ assembles \in BOOLEAN
  /\ stage \in {"driven", "built", "held"}
  /\ stage = "driven" => policy = "on_fault" /\ ~assembles
  /\ now = 0
  /\ words = Still /\ row = Still /\ seen = 0
  /\ budget = Untouched
  /\ gone = NoCause
  /\ promised = FALSE
  /\ armed = FALSE /\ owes = FALSE /\ posted = NoNotice
  /\ refused = FALSE
  /\ fates = 0 /\ restarts = <<>>

-----------------------------------------------------------------------------
(* f_supervisor::policy                                                    *)

RestartsAfterFault(cause) == policy # "never" /\ cause = "fault"

\* Record::restarts_after_cause.  No occupant's exit reaches a teardown as a
\* cause of its own, so `always' answers as `on_fault' does.
RestartsAfter(cause) ==
  policy # "never" /\ cause \in {"fault", "timedout"}

DecideUnreset(cause) ==
  IF ~RestartsAfter(cause) THEN [verdict |-> "leave", budget |-> budget]
  ELSE LET b == IF now - budget.opened >= WindowTicks
                THEN [used |-> budget.used, opened |-> now] ELSE budget
       IN  IF b.used >= MaxRestarts THEN [verdict |-> "retire", budget |-> b]
           ELSE [verdict |-> "restart",
                 budget |-> [b EXCEPT !.used = @ + 1]]

\* decide: the verdict, and the budget as it leaves it.  A window that has
\* elapsed is closed before the decision.
Decide(cause) ==
  IF ~RestartsAfter(cause) THEN [verdict |-> "leave", budget |-> budget]
  ELSE LET b == IF now - budget.opened >= WindowTicks
                THEN [used |-> 0, opened |-> now] ELSE budget
       IN  IF b.used >= MaxRestarts THEN [verdict |-> "retire", budget |-> b]
           ELSE [verdict |-> "restart",
                 budget |-> [b EXCEPT !.used = @ + 1]]

FateOfWaiting(reading) == reading.waits > 0 /\ reading.abandoned > 0

\* fate: a wait is outstanding and the abandoned count has risen.
Fate(reading) == reading.waits > 0 /\ reading.abandoned > seen

TakenOverOccupant == assembles /\ posted = NoNotice

\* The row the assembler puts a spawn on the ring for: empty, and no death
\* of it was heard this run (assemble::Spawning::new).
Taken == assembles /\ ~Present(occupant) /\ posted = NoNotice

\* answer, over the row `reading' and the notice on the ring.
Answer(reading) ==
  LET leave == [verdict |-> "leave", budget |-> budget]
      decision ==
        CASE Taken -> leave
          [] ~Taken /\ posted # NoNotice -> Decide(posted)
          [] ~Taken /\ posted = NoNotice /\ Present(occupant) -> leave
          [] OTHER -> IF budget = Untouched
                      THEN [verdict |-> "restart", budget |-> budget]
                      ELSE leave
  IN  [spawn  |-> Taken \/ decision.verdict = "restart",
       budget |-> decision.budget,
       stop   |-> /\ ~Taken /\ posted = NoNotice /\ Present(occupant)
                  /\ Fate(reading),
       seen   |-> IF Present(occupant) THEN reading.abandoned ELSE seen]

-----------------------------------------------------------------------------
(* The frame's server, and a consultation                                  *)

\* Serving::spawn: a spawn the frame performs, or refuses.  A new occupant
\* publishes zeroes until it runs.
Spawn(asked) ==
  IF asked /\ ~Present(occupant) /\ ~retired
           /\ Fits(module, mark, Offered[module])
  THEN Refill /\ fates' = 0 /\ words' = Still /\ UNCHANGED refused
  ELSE /\ refused' = (refused \/ asked)
       /\ UNCHANGED <<placeVars, fates, words>>

WatchUnarmed == armed

\* watch re-arms the table the last run left owing nothing.
Watch == TRUE

\* A run of the supervisor ends with its table cleared and its ring drained.
RunEnds ==
  /\ armed' = FALSE
  /\ owes' = FALSE
  /\ posted' = NoNotice

\* The frame goes on by what it finds in the place.
Aftermath == IF Present(occupant') THEN "idle" ELSE "left"

\* The place was never filled, and is handed over so; the frame keeps the
\* budget this run left.
ConsultHeld ==
  /\ stage = "held"
  /\ LET answer == Answer(row)
     IN  /\ Spawn(answer.spawn)
         /\ budget' = answer.budget
  /\ stage' = Aftermath
  /\ RunEnds
  /\ UNCHANGED <<policy, assembles, now, row, seen, gone, promised, restarts>>

\* The frame fills the place itself.
FrameFills ==
  /\ stage = "built"
  /\ Refill
  /\ stage' = "idle"
  /\ UNCHANGED <<policy, assembles, now, words, row, seen, budget, gone,
                 promised, armed, owes, posted, refused, fates, restarts>>

\* serve_ring3: the occupant runs and publishes.
Serve ==
  /\ stage = "idle" /\ epoch < MaxEpoch
  /\ \E w \in 0..MaxWaits, a \in {words.abandoned, words.abandoned + 1} :
        /\ a <= MaxAbandoned
        /\ words' = [waits |-> w, abandoned |-> a]
  /\ stage' = "served"
  /\ UNCHANGED <<placeVars, policy, assembles, now, row, seen, budget, gone,
                 promised, armed, owes, posted, refused, fates, restarts>>

\* The frame copies the words its root's mount names, and consults.  A stop
\* is served against the occupant's table, where its deadline has passed.
Judge ==
  /\ stage = "served"
  /\ row' = words
  /\ LET answer == Answer(words)
     IN  /\ refused' = (refused \/ answer.spawn)
         /\ budget' = answer.budget
         /\ seen' = answer.seen
         /\ promised' = answer.stop
         /\ fates' = IF answer.stop THEN fates + 1 ELSE fates
  /\ RunEnds
  /\ stage' = "judged"
  /\ UNCHANGED <<placeVars, policy, assembles, now, words, gone, restarts>>

\* The same row, heard a second time; the word it names is put aside.
JudgeAgain ==
  /\ stage = "judged"
  /\ LET answer == Answer(row)
     IN  /\ refused' = (refused \/ answer.spawn)
         /\ budget' = answer.budget
         /\ seen' = answer.seen
         /\ fates' = IF answer.stop THEN fates + 1 ELSE fates
  /\ RunEnds
  /\ stage' = IF promised THEN "stopping" ELSE "idle"
  /\ UNCHANGED <<placeVars, policy, assembles, now, words, row, gone,
                 promised, restarts>>

\* tear_down of a watched place: the supervisor's slot notes the death.
Die(why) ==
  /\ TearDown(why)
  /\ gone' = why
  /\ row' = Still
  /\ promised' = FALSE
  /\ armed' = Watch
  /\ owes' = Watch
  /\ stage' = "dead"
  /\ UNCHANGED <<policy, assembles, now, words, seen, budget, posted, refused,
                 fates, restarts>>

PerformStop == stage = "stopping" /\ Die("timedout")

\* Its control ring no longer validates.
Fault == stage = "idle" /\ epoch < MaxEpoch /\ Die("fault")

\* publish_only, post_only: the notice, with the cause on it.
Publish ==
  /\ stage = "dead"
  /\ posted' = IF owes THEN gone ELSE NoNotice
  /\ owes' = FALSE
  /\ stage' = "told"
  /\ UNCHANGED <<placeVars, policy, assembles, now, words, row, seen, budget,
                 gone, promised, armed, refused, fates, restarts>>

\* The consultation about a death.
ConsultDeath ==
  /\ stage = "told"
  /\ LET answer == Answer(row)
     IN  /\ Spawn(answer.spawn)
         /\ budget' = answer.budget
         /\ seen' = answer.seen
  /\ stage' = Aftermath
  /\ restarts' = IF Present(occupant') THEN Append(restarts, now)
                 ELSE restarts
  /\ RunEnds
  /\ UNCHANGED <<policy, assembles, now, row, gone, promised>>

\* The frame stops the occupant, and nobody is consulted; then it retires
\* the place, or tears down what the boot leaves standing.
Stop ==
  /\ stage \in {"idle", "left"}
  /\ \E why \in {"stopped", "retired"} :
        /\ TearDown(why)
        /\ gone' = why
        /\ stage' = IF why = "retired" THEN "over" ELSE "left"
  /\ row' = Still
  /\ promised' = FALSE
  /\ UNCHANGED <<policy, assembles, now, words, seen, budget, armed, owes,
                 posted, refused, fates, restarts>>

\* A driven place: its client's passes, and the teardown at the end.
Driven ==
  /\ stage = "driven"
  /\ Drive
  /\ UNCHANGED boardVars

DrivenEnds ==
  /\ stage = "driven" /\ epoch > 0
  /\ TearDown("stopped")
  /\ gone' = "stopped"
  /\ stage' = "over"
  /\ UNCHANGED <<policy, assembles, now, words, row, seen, budget, promised,
                 armed, owes, posted, refused, fates, restarts>>

Tick ==
  /\ stage = "idle" /\ now < MaxNow
  /\ now' = now + 1
  /\ UNCHANGED <<placeVars, policy, assembles, stage, words, row, seen,
                 budget, gone, promised, armed, owes, posted, refused, fates,
                 restarts>>

FrameStep ==
  \/ Judge \/ JudgeAgain \/ PerformStop \/ Publish \/ ConsultDeath

Next ==
  \/ Driven \/ DrivenEnds
  \/ ConsultHeld \/ FrameFills
  \/ Serve \/ Fault \/ Stop \/ Tick
  \/ FrameStep

Spec == Init /\ [][Next]_vars /\ WF_vars(FrameStep)

-----------------------------------------------------------------------------
(* Properties                                                              *)

\* Every death the frame posts reaches the supervisor with the cause the
\* teardown was given, however often the supervisor has run before: a run
\* clears its table, and the next watch has to arm it again (watch,
\* note_peer_gone, post_only, heard_what_was_posted).
EveryDeathIsHeard ==
  stage = "told" => posted = gone /\ gone # NoCause

\* No spawn the supervisor submits is refused: when it asks, the place is
\* empty and not retired, and the account has its last occupant's frames
\* back (Serving::spawn, tear_down, answer).
SpawnsAreNeverRefused == ~refused

\* A place that has had an occupant is given another only when its policy
\* restarts after the cause the last one went by: neither the assembler nor
\* the branch that fills a place never filled restarts one behind the
\* policy's back (answer, assemble::Spawning::new).
RestartsFollowPolicy ==
  [][(/\ stage # "driven" /\ epoch > 0
      /\ ~Present(occupant) /\ Present(occupant')) => RestartsAfter(gone)]_vars

\* Restarts at the ticks of a set.
RestartsIn(ticks) ==
  Cardinality({i \in DOMAIN restarts : restarts[i] \in ticks})

\* A restart storm is bounded: since the budget's window opened there were
\* as many restarts as the budget has counted and no more than it allows,
\* and no span as long as the window holds more than twice that (decide).
StormIsBounded ==
  /\ RestartsIn(budget.opened .. MaxNow) = budget.used
  /\ budget.used <= MaxRestarts
  /\ \A t \in 0..MaxNow :
        RestartsIn(t .. t + WindowTicks - 1) <= 2 * MaxRestarts

\* One abandoned frame is at most one timeout: an occupant is never named
\* more often than it abandoned frames, however often the supervisor is
\* consulted over the same words (fate, answer, Place::seen).
OneFatePerFrame == fates <= words.abandoned

\* A timeout the supervisor named, of a place whose policy restarts after
\* failures and whose budget is not spent, ends in a fresh occupant: the
\* stop is performed, the death heard, and the spawn served.
TimeoutIsReplaced ==
  (promised /\ policy # "never" /\ budget.used < MaxRestarts)
    ~> (Present(occupant) /\ ~promised)
=============================================================================
