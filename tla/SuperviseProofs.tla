-------------------------- MODULE SuperviseProofs --------------------------
(***************************************************************************)
(* Proofs about Place and Supervise.  The inductive invariant of Place     *)
(* says where the frames of every instance lie: the window at the floor,   *)
(* above it what is owed, the instance a swap set aside, and on top of the *)
(* watermark the occupant.  What Supervise does to a place is what Place   *)
(* allows, so those theorems hold of it; the rest is what the supervisor   *)
(* may rely on at each stage of a consultation.                            *)
(***************************************************************************)
EXTENDS Supervise, FiniteSetTheorems, TLAPS

-----------------------------------------------------------------------------
(* The place. *)

\* The order of the frames under the mark, and what a pass of the loop may
\* rely on.
Stacked ==
  ~halted =>
    /\ mark = window + owed + outgoing.n + occupant.n
    /\ Present(occupant) => Top(occupant) = mark /\ epoch > 0
    /\ ~Present(occupant) => owed = 0 /\ ~Present(outgoing)
    /\ Present(outgoing) => outgoing.lo = window + owed
    /\ looping => Present(occupant) /\ owed = 0
    /\ Present(outgoing) => looping
    /\ (swapping # NotSwapping <=> Present(outgoing))

PlaceInv == PlaceTypeOK /\ Stacked /\ PlaceRunsItsManifest

\* What the proofs use of the constants.
LEMMA Constants ==
  /\ Original # Successor /\ NoModule \notin Modules
  /\ Original \in Modules /\ Successor \in Modules
  /\ \A s \in Sizes : s \in Nat
  /\ \A w \in Windows : w \in Nat
  /\ \A m \in Modules : Offered[m] \in Nat /\ Parts[m] \in Nat /\ Parts[m] > 0
  /\ KillsMax \in Nat /\ MaxRecords \in Nat
  /\ \A s \in Sizes, w \in Windows :
        w + Offered[Original] + Parts[Original] <= s
<1>1. /\ Original # Successor /\ NoModule \notin Modules
      /\ KillsMax \in Nat /\ MaxRecords \in Nat
      /\ Original \in Modules /\ Successor \in Modules
  BY PlaceAssumption DEF PlaceAssumption, Modules
<1>2. \A s \in Sizes : s \in Nat
  BY PlaceAssumption DEF PlaceAssumption
<1>3. \A w \in Windows : w \in Nat
  BY PlaceAssumption DEF PlaceAssumption
<1>4. \A m \in Modules : Offered[m] \in Nat /\ Parts[m] \in Nat /\ Parts[m] > 0
  BY PlaceAssumption DEF PlaceAssumption
<1>5. \A s \in Sizes, w \in Windows :
        w + Offered[Original] + Parts[Original] <= s
  BY PlaceAssumption DEF PlaceAssumption
<1> QED BY <1>1, <1>2, <1>3, <1>4, <1>5

\* offer, spawn and mount leave an instance of m on top of the mark, made of
\* at least one frame.
LEMMA Spawned ==
  ASSUME NEW m \in Modules, NEW base \in Nat, NEW offered \in Nat,
         epoch \in Nat, SpawnAt(m, base, offered)
  PROVE  /\ occupant' \in Instance /\ mark' \in Nat /\ routing' \in Nat
         /\ epoch' \in Nat /\ epoch' > 0 /\ mounted' \in Nat \cup {Unmounted}
         /\ Present(occupant)' /\ occupant'.module = m
         /\ occupant'.lo = base
         /\ Top(occupant)' = mark'
         /\ mark' = base + occupant'.n
<1> DEFINE new == [epoch |-> epoch, module |-> m,
                   lo |-> base, n |-> offered + Parts[m]]
<1>1. Parts[m] \in Nat /\ Parts[m] > 0
  BY Constants
<1>2. new \in Instance
  BY <1>1 DEF Instance
<1>3. occupant' = new /\ mark' = Top(new) /\ routing' = epoch + 1
      /\ epoch' = epoch + 1 /\ mounted' = Tree(new)
  BY Zenon DEF SpawnAt
<1>4. new.lo = base /\ new.n = offered + Parts[m] /\ new.module = m
  OBVIOUS
<1>5. new.n \in Nat /\ new.n > 0
  BY <1>1, <1>4
<1> HIDE DEF new
<1> QED BY <1>2, <1>3, <1>4, <1>5 DEF Present, Top, Tree

\* A place starts with its account holding the window.
LEMMA Starts == PlaceInit => PlaceInv
<1> SUFFICES ASSUME PlaceInit PROVE PlaceInv
  OBVIOUS
<1>1. Absent \in Instance /\ Absent.n = 0
  BY DEF Absent, Instance
<1>2. PlaceTypeOK
  <2>1. /\ looping \in BOOLEAN /\ halted \in BOOLEAN /\ retired \in BOOLEAN
        /\ occupant \in Instance /\ outgoing \in Instance
        /\ size \in Sizes /\ window \in Windows
        /\ displaced \in Modules \cup {NoModule}
        /\ mounted \in Nat \cup {Unmounted}
        /\ swapping \in (0..MaxRecords) \cup {NotSwapping}
    BY <1>1, Zenon DEF PlaceInit
  <2>2. /\ epoch = 0 /\ routing = 0 /\ owed = 0 /\ replaying = 0
        /\ generation = 0 /\ mark = window /\ module = Original
    BY Zenon DEF PlaceInit, Paused
  <2>3. /\ epoch \in Nat /\ routing \in Nat /\ owed \in Nat
        /\ replaying \in 0..MaxRecords /\ generation \in 0..KillsMax
        /\ mark \in Nat /\ module \in Modules
    BY <2>1, <2>2, Constants
  <2> QED BY <2>1, <2>3, Zenon DEF PlaceTypeOK
<1>3. Stacked
  BY <1>1, Constants DEF PlaceInit, Stacked, Present, NotSwapping
<1>4. PlaceRunsItsManifest
  BY <1>1 DEF PlaceInit, PlaceRunsItsManifest, Present
<1> QED BY <1>2, <1>3, <1>4 DEF PlaceInv

-----------------------------------------------------------------------------
(* What an action that leaves a group of the variables alone preserves     *)

\* The integers of the type invariant.
LEMMA Numbers ==
  ASSUME PlaceInv
  PROVE  /\ size \in Nat /\ window \in Nat /\ mark \in Nat /\ owed \in Nat
         /\ epoch \in Nat /\ generation \in Nat
         /\ occupant.n \in Nat /\ occupant.lo \in Nat
         /\ outgoing.n \in Nat /\ outgoing.lo \in Nat
<1>1. \A i \in Instance : i.n \in Nat /\ i.lo \in Nat
  BY DEF Instance
<1>2. /\ occupant \in Instance /\ outgoing \in Instance
      /\ size \in Sizes /\ window \in Windows
      /\ mark \in Nat /\ owed \in Nat /\ epoch \in Nat
      /\ generation \in 0..KillsMax
  BY Zenon DEF PlaceInv, PlaceTypeOK
<1> QED BY <1>1, <1>2, Constants

LEMMA AbsentInstance == Absent \in Instance /\ Absent.n = 0
BY DEF Absent, Instance

\* A spawn into an empty place that owes nothing.
LEMMA FillKeeps ==
  ASSUME PlaceInv, Fill \/ Refill
  PROVE  PlaceInv'
<1> USE DEF PlaceInv
<1>1. PICK l \in BOOLEAN :
        /\ ~halted /\ ~looping /\ ~Present(occupant)
        /\ SpawnAt(module, mark, Offered[module])
        /\ looping' = l
        /\ UNCHANGED <<size, window, outgoing, module, displaced, owed,
                       swapping, replaying, generation, halted, retired>>
  <2>1. CASE Fill
    <3>1. ~Present(occupant)
      BY <2>1, Numbers DEF Fill, Stacked
    <3> QED BY <2>1, <3>1, Zenon DEF Fill
  <2>2. CASE Refill
    BY <2>2, Zenon DEF Refill, PlaceTypeOK
  <2> QED BY <2>1, <2>2
<1>2. module \in Modules /\ mark \in Nat /\ Offered[module] \in Nat
      /\ epoch \in Nat
  BY Constants, Numbers DEF PlaceTypeOK
<1>3. /\ occupant' \in Instance /\ mark' \in Nat /\ routing' \in Nat
      /\ epoch' \in Nat /\ epoch' > 0 /\ mounted' \in Nat \cup {Unmounted}
      /\ Present(occupant)' /\ occupant'.module = module
      /\ Top(occupant)' = mark' /\ mark' = mark + occupant'.n
  BY <1>1, <1>2, Spawned
<1>4. PlaceTypeOK'
  BY <1>1, <1>3, Zenon DEF PlaceTypeOK
<1>5. occupant.n = 0 /\ outgoing.n = 0 /\ owed = 0 /\ mark = window
  BY <1>1, Numbers DEF Stacked, Present
<1>6. Stacked'
  <2>1. mark' = window' + owed' + outgoing'.n + occupant'.n
    <3>1. occupant'.n \in Nat
      BY <1>3 DEF Instance
    <3> QED BY <1>1, <1>3, <1>5, <3>1, Numbers
  <2>2. ~Present(outgoing)' /\ swapping' = NotSwapping /\ owed' = 0
    BY <1>1, <1>5, Numbers DEF Stacked, Present
  <2> QED BY <1>3, <2>1, <2>2 DEF Stacked
<1>7. PlaceRunsItsManifest'
  BY <1>1, <1>3, <1>5 DEF PlaceRunsItsManifest, Present
<1> QED BY <1>4, <1>6, <1>7

\* A teardown refunds the top of the account, and what was owed under it.
LEMMA TearDownKeeps ==
  ASSUME PlaceInv, NEW why, TearDown(why)
  PROVE  PlaceInv'
<1> USE DEF PlaceInv
<1>1. /\ ~halted /\ ~looping /\ mounted' = Unmounted /\ routing' = Paused
      /\ occupant' = Absent
      /\ mark' = IF Present(occupant) THEN Emptied ELSE mark
      /\ owed' = IF Present(occupant) THEN 0 ELSE owed
      /\ retired' \in BOOLEAN
      /\ UNCHANGED <<size, window, outgoing, module, displaced, epoch,
                     swapping, replaying, generation, looping, halted>>
  BY Zenon DEF TearDown
<1>2. outgoing.n = 0
  BY <1>1, Numbers DEF Stacked, Present
<1>3. mark' = window /\ owed' = 0
  BY <1>1, <1>2, Numbers DEF Stacked, Present, Emptied
<1>4. PlaceTypeOK'
  <2>1. mark' \in Nat /\ owed' \in Nat /\ routing' \in Nat
    BY <1>1, <1>3, Numbers DEF Paused
  <2> QED BY <1>1, <2>1, AbsentInstance, Zenon DEF PlaceTypeOK
<1>5. Stacked'
  BY <1>1, <1>2, <1>3, AbsentInstance, Numbers DEF Stacked, Present
<1>6. PlaceRunsItsManifest'
  BY <1>1, <1>2, AbsentInstance DEF PlaceRunsItsManifest, Present
<1> QED BY <1>4, <1>5, <1>6

\* A kill puts the new occupant where the old one lay: above the instance a
\* swap set aside, when there is one.
LEMMA KillKeeps ==
  ASSUME PlaceInv, Kill
  PROVE  PlaceInv'
<1> USE DEF PlaceInv
<1>1. /\ ~halted /\ looping /\ generation < KillsMax
      /\ SpawnAt(module, Emptied, Offered[Original])
      /\ owed' = 0 /\ generation' = generation + 1 /\ replaying' = 0
      /\ UNCHANGED <<size, window, outgoing, module, displaced, swapping,
                     looping, halted, retired>>
  BY Zenon DEF Kill
<1>2. Present(occupant) /\ owed = 0
      /\ mark = window + outgoing.n + occupant.n
  BY <1>1, Numbers DEF Stacked
<1>3. Emptied = window + outgoing.n /\ Emptied \in Nat
  BY <1>2, Numbers DEF Emptied
<1>4. module \in Modules /\ Offered[Original] \in Nat /\ epoch \in Nat
  BY Constants, Numbers DEF PlaceTypeOK
<1>5. /\ occupant' \in Instance /\ mark' \in Nat /\ routing' \in Nat
      /\ epoch' \in Nat /\ epoch' > 0 /\ mounted' \in Nat \cup {Unmounted}
      /\ Present(occupant)' /\ occupant'.module = module
      /\ Top(occupant)' = mark' /\ mark' = Emptied + occupant'.n
  BY <1>1, <1>3, <1>4, Spawned
<1>6. PlaceTypeOK'
  <2>1. owed' \in Nat /\ generation' \in 0..KillsMax
        /\ replaying' \in 0..MaxRecords
    BY <1>1, Numbers, Constants DEF PlaceTypeOK
  <2> QED BY <1>1, <1>5, <2>1, Zenon DEF PlaceTypeOK
<1>7. Stacked'
  <2>1. mark' = window' + owed' + outgoing'.n + occupant'.n
    <3>1. occupant'.n \in Nat
      BY <1>5 DEF Instance
    <3> QED BY <1>1, <1>3, <1>5, <3>1, Numbers
  <2>2. Present(outgoing)' => outgoing'.lo = window' + owed'
    BY <1>1, <1>2, Numbers DEF Stacked, Present
  <2>3. (swapping' # NotSwapping) <=> Present(outgoing)'
    BY <1>1 DEF Stacked, Present
  <2> QED BY <1>1, <1>5, <2>1, <2>2, <2>3 DEF Stacked
<1>8. PlaceRunsItsManifest'
  BY <1>1, <1>5 DEF PlaceRunsItsManifest, Present
<1> QED BY <1>6, <1>7, <1>8

\* A swap sets the occupant aside and puts the successor above it.
LEMMA SwapBeginKeeps ==
  ASSUME PlaceInv, NEW records \in 0..MaxRecords, SwapBegin(records)
  PROVE  PlaceInv'
<1> USE DEF PlaceInv
<1>1. /\ ~halted /\ looping /\ ~Present(outgoing) /\ generation < KillsMax
      /\ outgoing' = occupant /\ displaced' = module /\ module' = Successor
      /\ SpawnAt(Successor, mark, Offered[Successor])
      /\ swapping' = records /\ replaying' = records
      /\ generation' = generation + 1
      /\ UNCHANGED <<size, window, owed, looping, halted, retired>>
  BY Zenon DEF SwapBegin
<1>2. /\ Present(occupant) /\ owed = 0 /\ outgoing.n = 0
      /\ mark = window + occupant.n /\ occupant.lo = window
  <2>1. /\ Present(occupant) /\ owed = 0
        /\ mark = window + owed + outgoing.n + occupant.n
        /\ mark = occupant.lo + occupant.n
    BY <1>1 DEF Stacked, Top
  <2>2. outgoing.n = 0
    BY <1>1, Numbers DEF Present
  <2> QED BY <2>1, <2>2, Numbers
<1>3. Successor \in Modules /\ Offered[Successor] \in Nat /\ epoch \in Nat
      /\ mark \in Nat
  BY Constants, Numbers
<1>4. /\ occupant' \in Instance /\ mark' \in Nat /\ routing' \in Nat
      /\ epoch' \in Nat /\ epoch' > 0 /\ mounted' \in Nat \cup {Unmounted}
      /\ Present(occupant)' /\ occupant'.module = Successor
      /\ Top(occupant)' = mark' /\ mark' = mark + occupant'.n
  BY <1>1, <1>3, Spawned
<1>5. PlaceTypeOK'
  <2>1. generation' \in 0..KillsMax
    BY <1>1, Numbers, Constants DEF PlaceTypeOK
  <2> QED BY <1>1, <1>3, <1>4, <2>1, Zenon DEF PlaceTypeOK
<1>6. records # NotSwapping
  BY DEF NotSwapping
<1>7. Stacked'
  <2>1. mark' = window' + owed' + outgoing'.n + occupant'.n
    <3>1. occupant'.n \in Nat
      BY <1>4 DEF Instance
    <3> QED BY <1>1, <1>2, <1>4, <3>1, Numbers
  <2>2. Present(outgoing)' /\ outgoing'.lo = window' + owed'
    BY <1>1, <1>2, Numbers DEF Present
  <2> QED BY <1>1, <1>2, <1>4, <1>6, <2>1, <2>2 DEF Stacked
<1>8. PlaceRunsItsManifest'
  <2>1. module \in Modules /\ NoModule \notin Modules
    BY Constants, Zenon DEF PlaceTypeOK
  <2> QED BY <1>1, <1>2, <1>4, <2>1 DEF PlaceRunsItsManifest, Present
<1> QED BY <1>5, <1>7, <1>8

\* A commit leaves the outgoing instance's frames owed, at the bottom.
LEMMA CommitKeeps ==
  ASSUME PlaceInv, NEW replayed, Commit(replayed)
  PROVE  PlaceInv'
<1> USE DEF PlaceInv
<1>1. /\ ~halted /\ looping /\ swapping # NotSwapping
      /\ routing' = generation /\ owed = 0 /\ owed' = outgoing.n
      /\ mark' = mark /\ outgoing' = Absent /\ displaced' = NoModule
      /\ swapping' = NotSwapping /\ replaying' = 0 /\ looping' = FALSE
      /\ UNCHANGED <<size, window, occupant, module, epoch, mounted,
                     generation, halted, retired>>
  BY Zenon DEF Commit, Defer
<1>2. PlaceTypeOK'
  <2>1. routing' \in Nat /\ owed' \in Nat /\ replaying' \in 0..MaxRecords
    BY <1>1, Numbers, Constants
  <2> QED BY <1>1, <2>1, AbsentInstance, Zenon DEF PlaceTypeOK
<1>3. ~Present(outgoing)' /\ outgoing'.n = 0
  BY <1>1, AbsentInstance DEF Present
<1>4. Stacked'
  <2>1. Present(occupant) /\ Top(occupant) = mark /\ epoch > 0
        /\ mark = window + outgoing.n + occupant.n
    BY <1>1, Numbers DEF Stacked
  <2> QED BY <1>1, <1>3, <2>1, Numbers DEF Stacked, Present, Top
<1>5. PlaceRunsItsManifest'
  BY <1>1, <1>3 DEF PlaceRunsItsManifest, Present
<1> QED BY <1>2, <1>4, <1>5

\* An abandonment takes the successor off the top and leaves the outgoing
\* instance as the occupant.
LEMMA AbandonKeeps ==
  ASSUME PlaceInv, NEW replayed, Abandon(replayed)
  PROVE  PlaceInv'
<1> USE DEF PlaceInv
<1>1. /\ ~halted /\ looping /\ swapping # NotSwapping
      /\ occupant' = outgoing /\ outgoing' = Absent
      /\ mark' = mark - occupant.n /\ module' = displaced
      /\ displaced' = NoModule /\ routing' = epoch + 1
      /\ swapping' = NotSwapping /\ replaying' = 0 /\ looping' = FALSE
      /\ halted' \in BOOLEAN
      /\ UNCHANGED <<size, window, epoch, mounted, owed, generation, retired>>
  BY Zenon DEF Abandon, PutBack
<1>2. /\ Present(occupant) /\ Present(outgoing) /\ owed = 0 /\ epoch > 0
      /\ mark = window + outgoing.n + occupant.n
      /\ outgoing.lo = window
  BY <1>1, Numbers DEF Stacked
<1>3. mark' = window + outgoing.n /\ mark' \in Nat
  BY <1>1, <1>2, Numbers
<1>4. displaced \in Modules /\ outgoing.module = displaced
  BY <1>2, Zenon DEF PlaceRunsItsManifest, PlaceTypeOK
<1>5. PlaceTypeOK'
  <2>1. routing' \in Nat /\ replaying' \in 0..MaxRecords
    BY <1>1, Numbers, Constants
  <2> QED BY <1>1, <1>3, <1>4, <2>1, AbsentInstance, Zenon DEF PlaceTypeOK
<1>6. ~Present(outgoing)' /\ outgoing'.n = 0
  BY <1>1, AbsentInstance DEF Present
<1>7. Stacked'
  BY <1>1, <1>2, <1>3, <1>6, Numbers DEF Stacked, Present, Top
<1>8. PlaceRunsItsManifest'
  BY <1>1, <1>4, <1>6 DEF PlaceRunsItsManifest, Present
<1> QED BY <1>5, <1>7, <1>8

\* An error ends the boot, whatever it left of the account.
LEMMA HaltKeeps ==
  ASSUME PlaceInv, SwapRefused \/ Fail
  PROVE  PlaceInv'
<1> USE DEF PlaceInv
<1>1. Stacked'
  BY DEF SwapRefused, Fail, Stacked
<1>2. /\ UNCHANGED <<occupant, outgoing, module, displaced>>
      /\ UNCHANGED <<size, window, epoch, owed, swapping, replaying,
                     generation, looping, retired>>
      /\ halted' = TRUE
  BY Zenon DEF SwapRefused, Fail
<1>3. PlaceRunsItsManifest'
  BY <1>2 DEF PlaceRunsItsManifest, Present
<1>4. mark' \in Nat /\ routing' \in Nat /\ mounted' \in Nat \cup {Unmounted}
  <2>1. CASE SwapRefused
    BY <2>1, Numbers DEF SwapRefused
  <2>2. CASE Fail
    BY <2>2, Zenon DEF Fail, PlaceTypeOK
  <2> QED BY <2>1, <2>2
<1>5. PlaceTypeOK'
  BY <1>2, <1>4, Zenon DEF PlaceTypeOK
<1> QED BY <1>1, <1>3, <1>5

\* A loop that ends, or a step that leaves the place alone.
LEMMA RestKeeps ==
  ASSUME PlaceInv, Finish \/ UNCHANGED placeVars
  PROVE  PlaceInv'
<1> USE DEF PlaceInv
<1>1. /\ UNCHANGED <<size, window, mark, occupant, outgoing, module,
                     displaced, epoch, routing, mounted, owed, swapping,
                     replaying, generation, halted, retired>>
      /\ looping' = looping \/ (looping' = FALSE /\ swapping = NotSwapping)
  BY Zenon DEF Finish, placeVars
<1>2. PlaceTypeOK'
  BY <1>1, Zenon DEF PlaceTypeOK
<1>3. Stacked'
  BY <1>1 DEF Stacked, Present, Top
<1>4. PlaceRunsItsManifest'
  BY <1>1 DEF PlaceRunsItsManifest, Present
<1> QED BY <1>2, <1>3, <1>4

-----------------------------------------------------------------------------
(* Theorems                                                                *)

LEMMA PlaceStep == PlaceInv /\ [PlaceNext]_placeVars => PlaceInv'
<1> SUFFICES ASSUME PlaceInv, [PlaceNext]_placeVars PROVE PlaceInv'
  OBVIOUS
<1>1. CASE Fill \/ Refill
  BY <1>1, FillKeeps
<1>2. CASE Kill
  BY <1>2, KillKeeps
<1>3. ASSUME NEW records \in 0..MaxRecords, SwapBegin(records)
      PROVE  PlaceInv'
  BY <1>3, SwapBeginKeeps
<1>4. CASE SwapRefused \/ Fail
  BY <1>4, HaltKeeps
<1>5. CASE Finish \/ UNCHANGED placeVars
  BY <1>5, RestKeeps
<1>6. ASSUME NEW replayed \in 0..replaying, Commit(replayed)
      PROVE  PlaceInv'
  BY <1>6, CommitKeeps
<1>7. ASSUME NEW replayed \in 0..replaying, Abandon(replayed)
      PROVE  PlaceInv'
  BY <1>7, AbandonKeeps
<1>8. ASSUME NEW why \in Causes, TearDown(why)
      PROVE  PlaceInv'
  BY <1>8, TearDownKeeps
<1> QED BY <1>1, <1>2, <1>3, <1>4, <1>5, <1>6, <1>7, <1>8, Zenon
        DEF PlaceNext, Drive

\* The place's frames stay stacked, and its identity its occupant's, in
\* every run of the loop and of the teardowns around it.
THEOREM PlaceInvariant == PlaceSpec => []PlaceInv
<1>1. PlaceInit => PlaceInv
  BY Starts
<1>2. PlaceInv /\ [PlaceNext]_placeVars => PlaceInv'
  BY PlaceStep
<1> QED BY <1>1, <1>2, PTL DEF PlaceSpec

LEMMA BalancesFollow == PlaceInv => AccountBalances
BY Numbers DEF PlaceInv, Stacked, AccountBalances, Present

LEMMA HeldFollows == PlaceInv => LivingFramesAreHeld
<1> SUFFICES ASSUME PlaceInv, ~halted PROVE LivingFramesAreHeld
  BY DEF LivingFramesAreHeld
<1>1. /\ mark = window + owed + outgoing.n + occupant.n
      /\ occupant.n > 0 => occupant.lo + occupant.n = mark
      /\ ~(occupant.n > 0) => ~(outgoing.n > 0)
      /\ outgoing.n > 0 => outgoing.lo = window + owed
  BY DEF PlaceInv, Stacked, Present, Top
<1>2. Frames(occupant) \subseteq window .. mark - 1
  BY <1>1, Numbers DEF Frames, Top
<1>3. Frames(outgoing) \subseteq window .. mark - 1
  BY <1>1, Numbers DEF Frames, Top
<1>4. Frames(occupant) \cap Frames(outgoing) = {}
  BY <1>1, Numbers DEF Frames, Top
<1> QED BY <1>2, <1>3, <1>4 DEF LivingFramesAreHeld

\* The account of a place that has not failed is exactly the window, what is
\* owed and the instances it holds, and is whole when the place is empty,
\* for every size of account and of module.
THEOREM Balanced == PlaceSpec => []AccountBalances
BY PlaceInvariant, BalancesFollow, PTL

\* No refund reaches a frame of an instance that still runs.
THEOREM NothingLivingIsRefunded == PlaceSpec => []LivingFramesAreHeld
BY PlaceInvariant, HeldFollows, PTL

\* A place's identity is its occupant's through every swap and kill.
THEOREM IdentityFollowsOccupant == PlaceSpec => []PlaceRunsItsManifest
<1>1. PlaceInv => PlaceRunsItsManifest
  BY DEF PlaceInv
<1> QED BY PlaceInvariant, <1>1, PTL

-----------------------------------------------------------------------------
(* Supervision. *)

\* Every step of the composition is a step of the place, or leaves it alone.
LEMMA StepOfThePlace == [Next]_vars => [PlaceNext]_placeVars
<1> SUFFICES ASSUME [Next]_vars PROVE PlaceNext \/ UNCHANGED placeVars
  OBVIOUS
<1> USE DEF PlaceNext
<1>1. CASE Driven
  BY <1>1, Zenon DEF Driven
<1>2. CASE DrivenEnds
  BY <1>2, Zenon DEF DrivenEnds, Causes
<1>3. \A asked : Spawn(asked) => Refill \/ UNCHANGED placeVars
  BY Zenon DEF Spawn
<1>4. CASE ConsultHeld
  BY <1>3, <1>4, Zenon DEF ConsultHeld
<1>5. CASE FrameFills
  BY <1>5, Zenon DEF FrameFills
<1>6. CASE Serve
  BY <1>6, Zenon DEF Serve
<1>7. CASE Fault
  BY <1>7, Zenon DEF Fault, Die, Causes
<1>8. CASE Stop
  BY <1>8, Zenon DEF Stop, Causes
<1>9. CASE Tick
  BY <1>9, Zenon DEF Tick
<1>10. CASE Judge
  BY <1>10, Zenon DEF Judge
<1>11. CASE JudgeAgain
  BY <1>11, Zenon DEF JudgeAgain
<1>12. CASE PerformStop
  BY <1>12, Zenon DEF PerformStop, Die, Causes
<1>13. CASE Publish
  BY <1>13, Zenon DEF Publish
<1>14. CASE ConsultDeath
  BY <1>3, <1>14, Zenon DEF ConsultDeath
<1>15. CASE UNCHANGED vars
  BY <1>15, Zenon DEF vars
<1> QED BY <1>1, <1>2, <1>4, <1>5, <1>6, <1>7, <1>8, <1>9, <1>10, <1>11,
           <1>12, <1>13, <1>14, <1>15, Zenon DEF Next, FrameStep

\* The supervised system implements the place: whatever the supervisor
\* decides and the frame performs for it is a behaviour of Place alone.
THEOREM SupervisedIsAPlace == Spec => PlaceSpec
<1>1. Init => PlaceInit
  BY DEF Init
<1>2. [Next]_vars => [PlaceNext]_placeVars
  BY StepOfThePlace
<1> QED BY <1>1, <1>2, PTL DEF Spec, PlaceSpec

\* Accounts balance under supervision: restarts, stops and retirements
\* included.
THEOREM SupervisedBalances == Spec => []AccountBalances
BY SupervisedIsAPlace, Balanced, PTL

\* No frame of a running instance is refunded under supervision.
THEOREM SupervisedFramesAreHeld == Spec => []LivingFramesAreHeld
BY SupervisedIsAPlace, NothingLivingIsRefunded, PTL

\* A place answers for the manifest of its occupant under supervision.
THEOREM SupervisedIdentity == Spec => []PlaceRunsItsManifest
BY SupervisedIsAPlace, IdentityFollowsOccupant, PTL

-----------------------------------------------------------------------------
(* What a supervisor answers                                               *)

\* Over an occupied place and no notice: nothing to spawn, a stop exactly
\* when there is a fate, and the row remembered.
LEMMA AnswerOccupied ==
  ASSUME Present(occupant), posted = NoNotice, NEW reading
  PROVE  /\ Answer(reading).spawn = FALSE
         /\ Answer(reading).stop = Fate(reading)
         /\ Answer(reading).seen = reading.abandoned
<1>1. Taken = FALSE
  BY DEF Taken
<1> QED BY <1>1 DEF Answer, Fate

\* Over a death: the memory is kept, and a spawn is one the policy decided.
LEMMA AnswerDeath ==
  ASSUME ~Present(occupant), posted # NoNotice, NEW reading
  PROVE  /\ Answer(reading).spawn \in BOOLEAN
         /\ Answer(reading).spawn => RestartsAfter(posted)
         /\ Answer(reading).seen = seen
<1>1. Taken = FALSE
  BY DEF Taken
<1>2. RestartsAfter(posted) \in BOOLEAN
  BY DEF RestartsAfter
<1>3. Decide(posted).verdict = "restart" => RestartsAfter(posted)
  BY <1>2 DEF Decide
<1> QED BY <1>1, <1>3 DEF Answer

-----------------------------------------------------------------------------
(* The stages of a consultation                                            *)

Failures == {"fault", "timedout"}

\* What the frame's stage says of the place, of the notice, and of the two
\* words a fate is decided by.
StageInv ==
  /\ stage # "driven" => ~looping /\ ~halted
  /\ stage \notin {"driven", "over"} => module = Original
  /\ stage \in {"built", "held"} =>
        epoch = 0 /\ ~Present(occupant) /\ ~retired
  /\ stage \in {"idle", "served", "judged", "stopping"} =>
        Present(occupant) /\ ~retired
  /\ stage \in {"dead", "told"} =>
        ~Present(occupant) /\ ~retired /\ gone \in Failures
  /\ stage = "dead" => owes
  /\ posted = IF stage = "told" THEN gone ELSE NoNotice
  /\ refused = FALSE

FateInv ==
  /\ words.abandoned \in Nat /\ seen \in Nat /\ fates \in Nat
  /\ fates <= seen /\ fates <= words.abandoned
  /\ stage = "judged" => row = words /\ seen = row.abandoned

SuperviseInv == StageInv /\ FateInv

\* A spawn into the empty place of a supervised component is performed: the
\* account has every frame of the last occupant back.
LEMMA SpawnPerformed ==
  ASSUME PlaceInv, ~halted, ~looping, ~Present(occupant), ~retired,
         module = Original, refused = FALSE, NEW asked \in BOOLEAN, Spawn(asked)
  PROVE  /\ refused' = FALSE /\ looping' = looping /\ halted' = halted
         /\ retired' = retired /\ module' = module
         /\ \/ /\ asked /\ Present(occupant)'
               /\ fates' = 0 /\ words' = Still
            \/ /\ ~asked /\ ~Present(occupant)'
               /\ fates' = fates /\ words' = words
<1>1. Fits(module, mark, Offered[module])
  <2>1. mark = window
    BY BalancesFollow DEF AccountBalances
  <2>2. module \in Modules /\ size \in Sizes /\ window \in Windows
    BY Zenon DEF PlaceInv, PlaceTypeOK
  <2>3. window + Offered[module] + Parts[module] <= size
    BY <2>2, Constants
  <2>4. Offered[module] \in Nat
    BY <2>2, Constants
  <2> QED BY <2>1, <2>3, <2>4 DEF Fits
<1>2. CASE asked
  <2>1. /\ Refill /\ fates' = 0 /\ words' = Still /\ refused' = refused
    BY <1>1, <1>2, Zenon DEF Spawn
  <2>2. Present(occupant)'
    <3>1. module \in Modules /\ mark \in Nat /\ Offered[module] \in Nat
          /\ epoch \in Nat
      BY Constants, Numbers DEF PlaceInv, PlaceTypeOK
    <3> QED BY <2>1, <3>1, Spawned DEF Refill
  <2> QED BY <1>2, <2>1, <2>2, Zenon DEF Refill
<1>3. CASE ~asked
  <2>1. /\ refused' = (refused \/ asked)
        /\ UNCHANGED <<placeVars, fates, words>>
    BY <1>3, Zenon DEF Spawn
  <2> QED BY <1>3, <2>1 DEF placeVars, Present
<1> QED BY <1>2, <1>3

\* tear_down of a supervised place leaves it empty, and retired only when it
\* was torn down to be.
LEMMA TornDown ==
  ASSUME NEW why, TearDown(why)
  PROVE  /\ ~Present(occupant)' /\ ~looping' /\ ~halted' /\ module' = module
         /\ (~retired /\ why # "retired") => ~retired'
<1>1. occupant' = Absent
  BY DEF TearDown
<1>2. ~Present(occupant)'
  BY <1>1, AbsentInstance DEF Present
<1> QED BY <1>2, Zenon DEF TearDown

LEMMA SuperviseStarts == Init => SuperviseInv
<1> SUFFICES ASSUME Init PROVE SuperviseInv
  OBVIOUS
<1>1. ~Present(occupant)
  BY AbsentInstance DEF Init, PlaceInit, Present
<1>2. StageInv
  BY <1>1 DEF Init, PlaceInit, StageInv, NoNotice
<1>3. FateInv
  BY DEF Init, FateInv, Still
<1> QED BY <1>2, <1>3 DEF SuperviseInv

LEMMA SuperviseStep ==
  PlaceInv /\ SuperviseInv /\ [Next]_vars => SuperviseInv'
<1> SUFFICES ASSUME PlaceInv, SuperviseInv, [Next]_vars PROVE SuperviseInv'
  OBVIOUS
<1> USE DEF SuperviseInv, NoNotice, Failures
<1>1. CASE Driven
  BY <1>1 DEF Driven, boardVars, StageInv, FateInv
<1>2. CASE DrivenEnds
  <2>1. ~looping' /\ ~halted'
    BY <1>2, TornDown DEF DrivenEnds
  <2> QED BY <1>2, <2>1 DEF DrivenEnds, StageInv, FateInv
<1>3. CASE ConsultHeld
  <2> DEFINE asked == Answer(row).spawn
  <2>1. asked \in BOOLEAN
    BY DEF Answer, Taken
  <2>2. stage = "held" /\ Spawn(asked) /\ posted' = "none" /\ seen' = seen
        /\ stage' = (IF Present(occupant)' THEN "idle" ELSE "left")
    BY <1>3, Zenon DEF ConsultHeld, RunEnds, Aftermath, Present
  <2> HIDE DEF asked
  <2>3. ~halted /\ ~looping /\ ~Present(occupant) /\ ~retired
        /\ module = Original /\ refused = FALSE
    BY <2>2 DEF StageInv
  <2>4. /\ refused' = FALSE /\ looping' = looping /\ halted' = halted
        /\ retired' = retired /\ module' = module
        /\ \/ Present(occupant)' /\ fates' = 0 /\ words' = Still
           \/ ~Present(occupant)' /\ fates' = fates /\ words' = words
    BY <2>1, <2>2, <2>3, SpawnPerformed
  <2>5. StageInv'
    BY <2>2, <2>3, <2>4 DEF StageInv
  <2>6. FateInv'
    BY <2>2, <2>4 DEF FateInv, Still
  <2> QED BY <2>5, <2>6
<1>4. CASE FrameFills
  <2>1. Present(occupant)'
    <3>1. module \in Modules /\ mark \in Nat /\ Offered[module] \in Nat
          /\ epoch \in Nat
      BY Constants, Numbers DEF PlaceInv, PlaceTypeOK
    <3> QED BY <1>4, <3>1, Spawned DEF FrameFills, Refill
  <2> QED BY <1>4, <2>1 DEF FrameFills, Refill, StageInv, FateInv
<1>5. CASE Serve
  <2>1. StageInv'
    BY <1>5 DEF Serve, placeVars, StageInv, Present
  <2>2. FateInv'
    <3>1. words'.abandoned \in {words.abandoned, words.abandoned + 1}
      BY <1>5 DEF Serve
    <3>2. stage' = "served" /\ seen' = seen /\ fates' = fates
      BY <1>5 DEF Serve
    <3> QED BY <3>1, <3>2 DEF FateInv
  <2> QED BY <2>1, <2>2
<1>6. CASE Fault \/ PerformStop
  <2>1. PICK why \in Failures : Die(why) /\ stage \in {"idle", "stopping"}
    BY <1>6, Zenon DEF Fault, PerformStop
  <2>2. ~Present(occupant)' /\ ~looping' /\ ~halted' /\ ~retired'
        /\ module' = module
    BY <2>1, TornDown DEF Die, StageInv
  <2>3. StageInv'
    BY <2>1, <2>2 DEF Die, Watch, StageInv
  <2>4. FateInv'
    BY <2>1 DEF Die, FateInv
  <2> QED BY <2>3, <2>4
<1>7. CASE Stop
  <2>1. PICK why \in {"stopped", "retired"} :
          /\ TearDown(why)
          /\ stage' = IF why = "retired" THEN "over" ELSE "left"
    BY <1>7 DEF Stop
  <2>2. ~looping' /\ ~halted' /\ module' = module
    BY <2>1, TornDown
  <2>3. UNCHANGED <<words, seen, posted, refused, fates>>
        /\ stage \in {"idle", "left"}
    BY <1>7 DEF Stop
  <2> QED BY <2>1, <2>2, <2>3 DEF StageInv, FateInv
<1>8. CASE Tick
  <2>1. UNCHANGED <<placeVars, stage, words, row, seen, gone, posted, owes,
                    refused, fates>>
    BY <1>8 DEF Tick
  <2> QED BY <2>1 DEF placeVars, StageInv, FateInv, Present
<1>9. CASE Judge
  <2>1. Present(occupant) /\ posted = NoNotice /\ refused = FALSE
    BY <1>9 DEF Judge, StageInv
  <2>2. /\ Answer(words).spawn = FALSE /\ Answer(words).stop = Fate(words)
        /\ Answer(words).seen = words.abandoned
    BY <2>1, AnswerOccupied
  <2>3. /\ row' = words /\ seen' = words.abandoned /\ refused' = FALSE
        /\ fates' = IF Fate(words) THEN fates + 1 ELSE fates
        /\ posted' = "none" /\ stage' = "judged"
        /\ UNCHANGED <<placeVars, words, gone>> /\ stage = "served"
    BY <1>9, <2>1, <2>2 DEF Judge, RunEnds
  <2>4. StageInv'
    BY <2>3 DEF placeVars, StageInv, Present
  <2>5. FateInv'
    BY <2>3 DEF FateInv, Fate
  <2> QED BY <2>4, <2>5
<1>10. CASE JudgeAgain
  <2>1. Present(occupant) /\ posted = NoNotice /\ refused = FALSE
    BY <1>10 DEF JudgeAgain, StageInv
  <2>2. /\ Answer(row).spawn = FALSE /\ Answer(row).stop = Fate(row)
        /\ Answer(row).seen = row.abandoned
    BY <2>1, AnswerOccupied
  <2>3. /\ seen' = row.abandoned /\ refused' = FALSE
        /\ fates' = IF Fate(row) THEN fates + 1 ELSE fates
        /\ posted' = "none" /\ stage' \in {"stopping", "idle"}
        /\ UNCHANGED <<placeVars, words, gone>> /\ stage = "judged"
    BY <1>10, <2>1, <2>2 DEF JudgeAgain, RunEnds
  <2>4. StageInv'
    BY <2>3 DEF placeVars, StageInv, Present
  <2>5. FateInv'
    BY <2>3 DEF FateInv, Fate
  <2> QED BY <2>4, <2>5
<1>11. CASE Publish
  <2>1. /\ stage = "dead" /\ stage' = "told"
        /\ posted' = (IF owes THEN gone ELSE NoNotice)
        /\ UNCHANGED <<placeVars, words, row, seen, gone, refused, fates>>
    BY <1>11 DEF Publish
  <2> QED BY <2>1 DEF placeVars, StageInv, FateInv, Present
<1>12. CASE ConsultDeath
  <2> DEFINE asked == Answer(row).spawn
  <2>1. stage = "told" /\ Spawn(asked) /\ posted' = "none"
        /\ seen' = Answer(row).seen
        /\ stage' = (IF Present(occupant)' THEN "idle" ELSE "left")
    BY <1>12, Zenon DEF ConsultDeath, RunEnds, Aftermath, Present
  <2>2. ~halted /\ ~looping /\ ~Present(occupant) /\ ~retired
        /\ module = Original /\ refused = FALSE /\ posted # NoNotice
    BY <2>1 DEF StageInv
  <2>3. asked \in BOOLEAN /\ Answer(row).seen = seen
    BY <2>2, AnswerDeath
  <2> HIDE DEF asked
  <2>4. /\ refused' = FALSE /\ looping' = looping /\ halted' = halted
        /\ retired' = retired /\ module' = module
        /\ \/ Present(occupant)' /\ fates' = 0 /\ words' = Still
           \/ ~Present(occupant)' /\ fates' = fates /\ words' = words
    BY <2>1, <2>2, <2>3, SpawnPerformed
  <2>5. StageInv'
    BY <2>1, <2>2, <2>4 DEF StageInv
  <2>6. FateInv'
    BY <2>1, <2>3, <2>4 DEF FateInv, Still
  <2> QED BY <2>5, <2>6
<1>13. CASE UNCHANGED vars
  BY <1>13 DEF vars, placeVars, boardVars, StageInv, FateInv, Present
<1> QED BY <1>1, <1>2, <1>3, <1>4, <1>5, <1>6, <1>7, <1>8, <1>9, <1>10,
           <1>11, <1>12, <1>13, Zenon DEF Next, FrameStep

-----------------------------------------------------------------------------
(* How many entries of a record of ticks fall into a set of ticks.         *)

Hits(r, ticks) == {i \in DOMAIN r : r[i] \in ticks}

Count(r, ticks) == Cardinality(Hits(r, ticks))

LEMMA HitsFinite ==
  ASSUME NEW r \in Seq(Nat), NEW T
  PROVE  IsFiniteSet(Hits(r, T)) /\ Count(r, T) \in Nat
<1>1. IsFiniteSet(1 .. Len(r))
  BY FS_Interval
<1>2. Hits(r, T) \in SUBSET (1 .. Len(r))
  BY DEF Hits
<1>3. IsFiniteSet(Hits(r, T))
  BY <1>1, <1>2, FS_Subset
<1> QED BY <1>3, FS_CardinalityType DEF Count

\* Ticks that two sets cover between them count for one of the two.
LEMMA CountCovered ==
  ASSUME NEW r \in Seq(Nat), NEW T, NEW U, NEW V,
         \A i \in DOMAIN r : r[i] \in T => r[i] \in U \/ r[i] \in V
  PROVE  Count(r, T) <= Count(r, U) + Count(r, V)
<1> DEFINE u == Hits(r, U)
           v == Hits(r, V)
<1>1. IsFiniteSet(u) /\ IsFiniteSet(v) /\ Count(r, T) \in Nat
      /\ Cardinality(u) \in Nat /\ Cardinality(v) \in Nat
  BY HitsFinite DEF Count
<1>2. /\ IsFiniteSet(u \cup v)
      /\ Cardinality(u \cup v) = Cardinality(u) + Cardinality(v) - Cardinality(u \cap v)
  BY <1>1, FS_Union
<1>3. Cardinality(u \cap v) \in Nat
  BY <1>1, FS_Intersection, FS_CardinalityType
<1>4. Hits(r, T) \in SUBSET (u \cup v)
  BY DEF Hits
<1>5. Cardinality(Hits(r, T)) <= Cardinality(u \cup v)
  BY <1>2, <1>4, FS_Subset
<1> QED BY <1>1, <1>2, <1>3, <1>5 DEF Count

LEMMA CountMonotone ==
  ASSUME NEW r \in Seq(Nat), NEW T, NEW U,
         \A i \in DOMAIN r : r[i] \in T => r[i] \in U
  PROVE  Count(r, T) <= Count(r, U)
<1>1. IsFiniteSet(Hits(r, U))
  BY HitsFinite
<1>2. Hits(r, T) \in SUBSET Hits(r, U)
  BY DEF Hits
<1> QED BY <1>1, <1>2, FS_Subset DEF Count

LEMMA CountAppend ==
  ASSUME NEW r \in Seq(Nat), NEW x \in Nat, NEW T
  PROVE  Count(Append(r, x), T) = Count(r, T) + (IF x \in T THEN 1 ELSE 0)
<1> DEFINE q == Append(r, x)
           n == Len(r)
<1>1. /\ n \in Nat /\ DOMAIN r = 1 .. n /\ DOMAIN q = 1 .. n + 1
      /\ q[n + 1] = x /\ \A i \in 1 .. n : q[i] = r[i]
  OBVIOUS
<1>2. IsFiniteSet(Hits(r, T)) /\ Count(r, T) \in Nat
  BY HitsFinite
<1> HIDE DEF q, n
<1>3. CASE x \in T
  <2>1. Hits(q, T) = Hits(r, T) \cup {n + 1} /\ n + 1 \notin Hits(r, T)
    BY <1>1, <1>3 DEF Hits
  <2> QED BY <1>2, <1>3, <2>1, FS_AddElement DEF Count, q
<1>4. CASE x \notin T
  <2>1. Hits(q, T) = Hits(r, T)
    BY <1>1, <1>4 DEF Hits
  <2> QED BY <1>2, <1>4, <2>1 DEF Count, q
<1> QED BY <1>3, <1>4

-----------------------------------------------------------------------------
(* The budget                                                              *)

\* The record of restarts r, with the budget b, at the tick n: the budget
\* counts the restarts of its window, all of which fell before the window
\* elapsed, and no more than it allows preceded that window by less than the
\* window's length.
WithinBudget(r, b, n) ==
  /\ r \in Seq(Nat) /\ n \in 0 .. MaxNow
  /\ \A i \in DOMAIN r : r[i] <= n
  /\ b \in [used : 0 .. MaxRestarts, opened : 0 .. n]
  /\ \A i \in DOMAIN r : r[i] < b.opened + WindowTicks
  /\ Count(r, b.opened .. MaxNow) = b.used
  /\ Count(r, b.opened - WindowTicks + 1 .. b.opened - 1) <= MaxRestarts
  /\ \A t \in Nat : Count(r, t .. t + WindowTicks - 1) <= 2 * MaxRestarts

\* A span of a window's length that reaches into the budget's window.
LEMMA SpanBounded ==
  ASSUME NEW r \in Seq(Nat), NEW n \in 0 .. MaxNow, \A i \in DOMAIN r : r[i] <= n,
         NEW b \in [used : 0 .. MaxRestarts, opened : 0 .. n],
         Count(r, b.opened .. MaxNow) = b.used,
         Count(r, b.opened - WindowTicks + 1 .. b.opened - 1) <= MaxRestarts,
         NEW t \in Nat, b.opened <= t + WindowTicks - 1
  PROVE  Count(r, t .. t + WindowTicks - 1) <= 2 * MaxRestarts
<1> DEFINE U == b.opened - WindowTicks + 1 .. b.opened - 1
           V == b.opened .. MaxNow
           T == t .. t + WindowTicks - 1
<1>1. /\ b.opened \in Nat /\ b.used \in Nat /\ b.used <= MaxRestarts
      /\ MaxNow \in Nat /\ WindowTicks \in Nat /\ MaxRestarts \in Nat
  BY SuperviseAssumption DEF SuperviseAssumption
<1>2. \A i \in DOMAIN r : r[i] \in Nat /\ r[i] <= MaxNow
  BY <1>1
<1>3. \A i \in DOMAIN r : r[i] \in T => r[i] \in U \/ r[i] \in V
  BY <1>1, <1>2
<1> HIDE DEF T, U, V
<1>4. Count(r, T) <= Count(r, U) + Count(r, V)
  BY <1>3, CountCovered
<1>5. Count(r, T) \in Nat /\ Count(r, U) \in Nat /\ Count(r, V) \in Nat
  BY HitsFinite
<1>6. Count(r, U) <= MaxRestarts /\ Count(r, V) = b.used
  BY DEF U, V
<1> QED BY <1>1, <1>4, <1>5, <1>6 DEF T

\* The budget with a window that has elapsed closed.
Rolled(b, n) ==
  IF n - b.opened >= WindowTicks THEN [used |-> 0, opened |-> n] ELSE b

LEMMA RolledWithinBudget ==
  ASSUME NEW r, NEW b, NEW n, WithinBudget(r, b, n)
  PROVE  WithinBudget(r, Rolled(b, n), n) /\ n - Rolled(b, n).opened < WindowTicks
<1>1. /\ b.opened \in Nat /\ b.used \in Nat /\ b.used <= MaxRestarts /\ n \in Nat
      /\ MaxNow \in Nat /\ WindowTicks \in Nat \ {0} /\ MaxRestarts \in Nat /\ n <= MaxNow
  BY SuperviseAssumption DEF SuperviseAssumption, WithinBudget
<1>2. CASE n - b.opened < WindowTicks
  BY <1>1, <1>2 DEF Rolled
<1>3. CASE n - b.opened >= WindowTicks
  <2> DEFINE c == [used |-> 0, opened |-> n]
             V == n .. MaxNow
             U == n - WindowTicks + 1 .. n - 1
             O == b.opened .. MaxNow
  <2>1. Rolled(b, n) = c /\ c.opened = n /\ c.used = 0
    BY <1>3 DEF Rolled
  <2>2. c \in [used : 0 .. MaxRestarts, opened : 0 .. n]
    BY <1>1
  <2>3. /\ r \in Seq(Nat)
        /\ \A i \in DOMAIN r : r[i] \in Nat /\ r[i] <= n /\ r[i] < b.opened + WindowTicks
    BY DEF WithinBudget
  <2>4. \A i \in DOMAIN r : r[i] < n + WindowTicks
    BY <1>1, <2>3
  <2>5. Count(r, V) = 0
    <3>1. Hits(r, V) = {}
      BY <1>1, <1>3, <2>3 DEF Hits
    <3> QED BY <3>1, FS_EmptySet DEF Count
  <2>6. Count(r, U) <= MaxRestarts
    <3>1. \A i \in DOMAIN r : r[i] \in U => r[i] \in O
      BY <1>1, <1>3, <2>3
    <3> HIDE DEF U
    <3>2. Count(r, U) <= Count(r, O)
      BY <2>3, <3>1, CountMonotone
    <3>3. Count(r, O) = b.used
      BY DEF WithinBudget
    <3>4. Count(r, U) \in Nat
      BY <2>3, HitsFinite
    <3> QED BY <1>1, <3>2, <3>3, <3>4
  <2> HIDE DEF c
  <2>7. WithinBudget(r, c, n)
    BY <2>1, <2>2, <2>3, <2>4, <2>5, <2>6 DEF WithinBudget
  <2> QED BY <1>1, <2>1, <2>7
<1> QED BY <1>1, <1>2, <1>3

\* A restart the budget has room for.
LEMMA RestartWithinBudget ==
  ASSUME NEW r, NEW b, NEW n, WithinBudget(r, b, n), n - b.opened < WindowTicks,
         b.used < MaxRestarts
  PROVE  WithinBudget(Append(r, n), [b EXCEPT !.used = @ + 1], n)
<1> DEFINE q == Append(r, n)
           c == [b EXCEPT !.used = @ + 1]
           U == b.opened - WindowTicks + 1 .. b.opened - 1
           V == b.opened .. MaxNow
<1>1. /\ b.opened \in Nat /\ b.used \in Nat /\ b.opened <= n /\ n \in Nat
      /\ MaxNow \in Nat /\ WindowTicks \in Nat \ {0} /\ MaxRestarts \in Nat /\ n <= MaxNow
      /\ n \in 0 .. MaxNow
  BY SuperviseAssumption DEF SuperviseAssumption, WithinBudget
<1>2. /\ c \in [used : 0 .. MaxRestarts, opened : 0 .. n]
      /\ c.opened = b.opened /\ c.used = b.used + 1
  <2>1. b \in [used : Nat, opened : 0 .. n]
    BY SuperviseAssumption DEF SuperviseAssumption, WithinBudget
  <2>2. b.used + 1 \in 0 .. MaxRestarts
    BY <1>1
  <2> QED BY <2>1, <2>2
<1>3. r \in Seq(Nat) /\ \A i \in DOMAIN r : r[i] <= n /\ r[i] < b.opened + WindowTicks
  BY DEF WithinBudget
<1>4. q \in Seq(Nat) /\ \A i \in DOMAIN q : (i \in DOMAIN r /\ q[i] = r[i]) \/ q[i] = n
  BY <1>1, <1>3
<1>5. \A T : /\ Count(r, T) \in Nat
              /\ Count(q, T) = Count(r, T) + (IF n \in T THEN 1 ELSE 0)
  BY <1>1, <1>3, HitsFinite, CountAppend
<1> HIDE DEF q, c
<1>6. \A i \in DOMAIN q : q[i] <= n /\ q[i] < b.opened + WindowTicks
  <2>1. n <= n /\ n < b.opened + WindowTicks
    BY <1>1
  <2> QED BY <1>3, <1>4, <2>1, Zenon
<1>7. Count(q, V) = c.used
  <2>1. n \in V
    BY <1>1
  <2>2. Count(r, V) = b.used
    BY DEF WithinBudget
  <2> QED BY <1>2, <1>5, <2>1, <2>2
<1>8. Count(q, U) <= MaxRestarts
  <2>1. n \notin U
    BY <1>1
  <2>2. Count(r, U) <= MaxRestarts
    BY DEF WithinBudget
  <2> HIDE DEF U
  <2>3. Count(q, U) = Count(r, U)
    BY <1>5, <2>1
  <2> QED BY <2>2, <2>3
<1>9. ASSUME NEW t \in Nat PROVE Count(q, t .. t + WindowTicks - 1) <= 2 * MaxRestarts
  <2> DEFINE T == t .. t + WindowTicks - 1
  <2>1. CASE n \in T
    <3>1. c.opened <= t + WindowTicks - 1
      BY <1>1, <1>2, <2>1
    <3> QED BY <1>1, <1>2, <1>4, <1>6, <1>7, <1>8, <3>1, SpanBounded
  <2>2. CASE n \notin T
    <3>1. Count(r, T) <= 2 * MaxRestarts
      BY DEF WithinBudget
    <3> HIDE DEF T
    <3>2. Count(q, T) = Count(r, T)
      BY <1>5, <2>2
    <3> QED BY <3>1, <3>2 DEF T
  <2> QED BY <2>1, <2>2
<1>10. WithinBudget(q, c, n)
  BY <1>1, <1>2, <1>4, <1>6, <1>7, <1>8, <1>9 DEF WithinBudget
<1> QED BY <1>10 DEF q, c

\* The clock moves on and nothing restarts.
LEMMA TickWithinBudget ==
  ASSUME NEW r, NEW b, NEW n, WithinBudget(r, b, n), n < MaxNow
  PROVE  WithinBudget(r, b, n + 1)
<1>1. n \in Nat /\ MaxNow \in Nat /\ n <= MaxNow /\ n + 1 \in 0 .. MaxNow
  BY SuperviseAssumption DEF SuperviseAssumption, WithinBudget
<1>2. b \in [used : 0 .. MaxRestarts, opened : 0 .. n + 1]
  BY <1>1 DEF WithinBudget
<1>3. \A i \in DOMAIN r : r[i] <= n + 1
  BY <1>1 DEF WithinBudget
<1> QED BY <1>1, <1>2, <1>3 DEF WithinBudget

\* Without a notice the supervisor leaves the budget as it found it.
LEMMA AnswerUntold ==
  ASSUME posted = NoNotice, NEW reading
  PROVE  Answer(reading).budget = budget
<1>1. (~Taken /\ posted # NoNotice) = FALSE
  OBVIOUS
<1> QED BY <1>1 DEF Answer

\* With one, the budget is what decide leaves.
LEMMA AnswerTold ==
  ASSUME posted # NoNotice, NEW reading
  PROVE  /\ Answer(reading).budget = Decide(posted).budget
         /\ Answer(reading).spawn = (Decide(posted).verdict = "restart")
<1>1. Taken = FALSE
  BY DEF Taken
<1> QED BY <1>1 DEF Answer

LEMMA BudgetStarts == Init => WithinBudget(restarts, budget, now)
<1> SUFFICES ASSUME Init PROVE WithinBudget(restarts, budget, now)
  OBVIOUS
<1>1. restarts = <<>> /\ now = 0 /\ budget = [used |-> 0, opened |-> 0]
  BY DEF Init, Untouched
<1>2. \A T : Count(restarts, T) = 0
  <2> TAKE T
  <2>1. Hits(restarts, T) = {}
    BY <1>1 DEF Hits
  <2> QED BY <2>1, FS_EmptySet DEF Count
<1>3. /\ MaxNow \in Nat /\ MaxRestarts \in Nat
      /\ 0 \in 0 .. MaxNow /\ 0 \in 0 .. MaxRestarts /\ 0 <= 2 * MaxRestarts
      /\ budget \in [used : 0 .. MaxRestarts, opened : 0 .. 0]
  BY <1>1, SuperviseAssumption DEF SuperviseAssumption
<1> QED BY <1>1, <1>2, <1>3 DEF WithinBudget

LEMMA BudgetStep ==
  PlaceInv /\ SuperviseInv /\ WithinBudget(restarts, budget, now) /\ [Next]_vars
    => WithinBudget(restarts, budget, now)'
<1> SUFFICES ASSUME PlaceInv, SuperviseInv, WithinBudget(restarts, budget, now), [Next]_vars
             PROVE  WithinBudget(restarts', budget', now')
  OBVIOUS
<1>1. CASE ConsultDeath
  <2> DEFINE d == Decide(posted)
             c == Rolled(budget, now)
  <2>1. stage = "told" /\ Spawn(Answer(row).spawn) /\ now' = now
        /\ budget' = Answer(row).budget
        /\ restarts' = IF Present(occupant)' THEN Append(restarts, now) ELSE restarts
    BY <1>1, Zenon DEF ConsultDeath, Present
  <2>2. ~halted /\ ~looping /\ ~Present(occupant) /\ ~retired
        /\ module = Original /\ refused = FALSE /\ posted # NoNotice
    BY <2>1 DEF SuperviseInv, StageInv, Failures, NoNotice
  <2>3. Answer(row).spawn \in BOOLEAN
    BY <2>2, AnswerDeath
  <2>4. Answer(row).budget = d.budget /\ Answer(row).spawn = (d.verdict = "restart")
    BY <2>2, AnswerTold
  <2>5. Present(occupant)' <=> d.verdict = "restart"
    BY <2>1, <2>2, <2>3, <2>4, SpawnPerformed
  <2>6. \/ d.verdict = "leave" /\ d.budget = budget
        \/ d.verdict = "retire" /\ d.budget = c
        \/ /\ d.verdict = "restart" /\ ~(c.used >= MaxRestarts)
           /\ d.budget = [c EXCEPT !.used = @ + 1]
    BY DEF Decide, Rolled
  <2>7. WithinBudget(restarts, c, now) /\ now - c.opened < WindowTicks
    BY RolledWithinBudget
  <2>8. c.used \in Nat /\ MaxRestarts \in Nat
    BY <2>7, SuperviseAssumption DEF SuperviseAssumption, WithinBudget
  <2> HIDE DEF c, d
  <2>9. CASE d.verdict = "leave" /\ d.budget = budget
    BY <2>1, <2>4, <2>5, <2>9
  <2>10. CASE d.verdict = "retire" /\ d.budget = c
    BY <2>1, <2>4, <2>5, <2>7, <2>10
  <2>11. CASE /\ d.verdict = "restart" /\ ~(c.used >= MaxRestarts)
              /\ d.budget = [c EXCEPT !.used = @ + 1]
    <3>1. c.used < MaxRestarts
      BY <2>8, <2>11
    <3>2. WithinBudget(Append(restarts, now), [c EXCEPT !.used = @ + 1], now)
      BY <2>7, <3>1, RestartWithinBudget
    <3> QED BY <2>1, <2>4, <2>5, <2>11, <3>2
  <2> QED BY <2>6, <2>9, <2>10, <2>11
<1>2. CASE ConsultHeld \/ Judge \/ JudgeAgain
  <2>1. posted = NoNotice
    BY <1>2, Zenon DEF ConsultHeld, Judge, JudgeAgain, SuperviseInv, StageInv
  <2>2. \A reading : Answer(reading).budget = budget
    BY <2>1, AnswerUntold
  <2>3. budget' = budget /\ UNCHANGED <<now, restarts>>
    BY <1>2, <2>2, Zenon DEF ConsultHeld, Judge, JudgeAgain
  <2> QED BY <2>3
<1>3. CASE Tick
  <2>1. now < MaxNow /\ now' = now + 1 /\ UNCHANGED <<budget, restarts>>
    BY <1>3 DEF Tick
  <2> QED BY <2>1, TickWithinBudget
<1>4. CASE UNCHANGED <<now, budget, restarts>>
  BY <1>4
<1>5. \/ ConsultDeath \/ ConsultHeld \/ Judge \/ JudgeAgain \/ Tick
      \/ UNCHANGED <<now, budget, restarts>>
  <2>1. CASE Driven \/ DrivenEnds \/ FrameFills \/ Serve \/ Fault \/ Stop
             \/ PerformStop \/ Publish \/ UNCHANGED vars
    BY <2>1, Zenon DEF Driven, DrivenEnds, FrameFills, Serve, Fault, Stop,
       PerformStop, Publish, Die, vars, boardVars
  <2> QED BY <2>1, Zenon DEF Next, FrameStep
<1> QED BY <1>1, <1>2, <1>3, <1>4, <1>5

-----------------------------------------------------------------------------
(* Theorems                                                                *)

\* What a stage says holds through every run.
THEOREM SuperviseInvariant == Spec => [](PlaceInv /\ SuperviseInv)
<1>1. Init => PlaceInv /\ SuperviseInv
  BY Starts, SuperviseStarts DEF Init
<1>2. (PlaceInv /\ SuperviseInv) /\ [Next]_vars
        => (PlaceInv /\ SuperviseInv)'
  BY PlaceStep, StepOfThePlace, SuperviseStep
<1> QED BY <1>1, <1>2, PTL DEF Spec

\* Every death the frame posts is heard with its cause.
THEOREM DeathsAreHeard == Spec => []EveryDeathIsHeard
<1>1. SuperviseInv => EveryDeathIsHeard
  BY DEF SuperviseInv, StageInv, EveryDeathIsHeard, Failures, NoCause
<1> QED BY SuperviseInvariant, <1>1, PTL

\* No spawn a supervisor submits is refused, whatever the account's size and
\* the modules': this is where the accounts' balance meets supervision.
THEOREM NoSpawnRefused == Spec => []SpawnsAreNeverRefused
<1>1. SuperviseInv => SpawnsAreNeverRefused
  BY DEF SuperviseInv, StageInv, SpawnsAreNeverRefused
<1> QED BY SuperviseInvariant, <1>1, PTL

\* One abandoned frame is at most one timeout.
THEOREM OneFate == Spec => []OneFatePerFrame
<1>1. SuperviseInv => OneFatePerFrame
  BY DEF SuperviseInv, FateInv, OneFatePerFrame
<1> QED BY SuperviseInvariant, <1>1, PTL

\* A place is refilled only as its policy says.
THEOREM PolicyIsFollowed == Spec => RestartsFollowPolicy
<1> DEFINE Refilled == /\ stage # "driven" /\ epoch > 0
                       /\ ~Present(occupant) /\ Present(occupant')
<1>1. PlaceInv /\ SuperviseInv /\ [Next]_vars
        => [Refilled => RestartsAfter(gone)]_vars
  <2> SUFFICES ASSUME PlaceInv, SuperviseInv, Next, Refilled
               PROVE  RestartsAfter(gone)
    BY DEF vars
  <2>1. stage = "told" /\ Spawn(Answer(row).spawn)
    <3>1. \A why : ~TearDown(why)
      BY TornDown DEF Present
    <3>2. ~UNCHANGED placeVars
      BY DEF placeVars, Present
    <3>3. ~Driven /\ ~DrivenEnds /\ ~Serve /\ ~Fault /\ ~Stop /\ ~Tick
          /\ ~Judge /\ ~JudgeAgain /\ ~PerformStop /\ ~Publish
      BY <3>1, <3>2, Zenon DEF Driven, DrivenEnds, Serve, Fault, Stop, Tick,
         Judge, JudgeAgain, PerformStop, Publish, Die
    <3>4. ~ConsultHeld /\ ~FrameFills
      BY Numbers DEF ConsultHeld, FrameFills, SuperviseInv, StageInv
    <3>5. ConsultDeath
      BY <3>3, <3>4, Zenon DEF Next, FrameStep
    <3> QED BY <3>5, Zenon DEF ConsultDeath
  <2>2. /\ ~halted /\ ~looping /\ ~retired /\ module = Original
        /\ refused = FALSE /\ posted = gone /\ posted # NoNotice
    BY <2>1 DEF SuperviseInv, StageInv, Failures, NoNotice
  <2>3. Answer(row).spawn \in BOOLEAN
        /\ (Answer(row).spawn => RestartsAfter(posted))
    BY <2>2, AnswerDeath
  <2>4. Answer(row).spawn
    BY <2>1, <2>2, <2>3, SpawnPerformed DEF Present
  <2> QED BY <2>2, <2>3, <2>4
<1> QED BY SuperviseInvariant, <1>1, PTL DEF Spec, RestartsFollowPolicy

\* A restart storm is bounded by the budget, for every budget and window:
\* decide counts every restart of the window it keeps open, and a window it
\* closes leaves at most one budget's worth within a window's length.
THEOREM StormsAreBounded == Spec => []StormIsBounded
<1>1. [Next]_vars /\ (PlaceInv /\ SuperviseInv) /\ WithinBudget(restarts, budget, now)
        => WithinBudget(restarts, budget, now)'
  BY BudgetStep
<1>2. Init => WithinBudget(restarts, budget, now)
  BY BudgetStarts
<1>3. WithinBudget(restarts, budget, now) => StormIsBounded
  <2>1. 0 .. MaxNow \subseteq Nat
    OBVIOUS
  <2> QED BY <2>1 DEF WithinBudget, StormIsBounded, RestartsIn, Count, Hits
<1> QED BY <1>1, <1>2, <1>3, SuperviseInvariant, PTL DEF Spec
=============================================================================
