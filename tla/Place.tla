------------------------------- MODULE Place -------------------------------
(***************************************************************************)
(* A place of the component frame (kernel/src/component.rs): the identity  *)
(* it runs, the instances it holds, and the account they are made of.      *)
(*                                                                         *)
(* The account is a watermark.  A frame is charged at the mark, and a      *)
(* refund moves the mark down by one frame without looking at which frame  *)
(* it gives back.  An instance is therefore the interval of frames charged *)
(* for it, lo .. lo + n - 1, and the last of them is its state tree.       *)
(*                                                                         *)
(* A place whose client drives it runs the loop of `demonstrate`: the      *)
(* client kills the occupant, asks for it to be swapped for the successor  *)
(* of its module, or finishes.  During a swap the place holds two          *)
(* instances, the outgoing one below and the incoming one above.  One      *)
(* action is one pass of that loop.  The frame runs the passes on one core *)
(* and nothing else touches the place meanwhile.                           *)
(*                                                                         *)
(* An error returned out of the loop ends the boot: `halted'.              *)
(***************************************************************************)
EXTENDS Integers

CONSTANTS Original,     \* the module the place was built from
          Successor,    \* the module a swap puts behind it
          NoModule,     \* no displaced identity
          Sizes,        \* how many frames an account may hold
          Windows,      \* how many frames a transfer window may take: 0 or 1
          Offered,      \* frames the needs of a module are offered with
          Parts,        \* frames of its text, stack, control ring and tree
          KillsMax,     \* KILLS_MAX, kills and swaps of one loop
          MaxRecords    \* records a transfer window may carry

Modules == {Original, Successor}

\* Every module is made of at least one frame.  An account is sized by
\* account_order for the module its place is built from, and admit refuses a
\* place whose account does not hold an instance of it above the window; no
\* account is sized for a successor.
ASSUME PlaceAssumption ==
  /\ Original # Successor /\ NoModule \notin Modules
  /\ Sizes \subseteq Nat /\ Windows \subseteq Nat
  /\ Offered \in [Modules -> Nat] /\ Parts \in [Modules -> Nat \ {0}]
  /\ KillsMax \in Nat /\ MaxRecords \in Nat
  /\ \A s \in Sizes, w \in Windows :
        w + Offered[Original] + Parts[Original] <= s

VARIABLES size,        \* of the account
          window,      \* frames of the transfer window, at the floor
          mark,        \* the watermark, in frames above the floor
          occupant,    \* Place::occupant
          outgoing,    \* the instance a swap holds aside
          module,      \* Place::module, and Place::manifest, its hash
          displaced,   \* the identity a swap may have to put back
          epoch,       \* Place::epoch
          routing,     \* Place::routing
          mounted,     \* the frame the root's mount word names
          owed,        \* Place::deferred_refund
          swapping,    \* the records a swap under way handed over
          replaying,   \* the records the next pass is to replay
          generation,  \* of the loop
          looping,     \* the client still drives the place
          halted,      \* the loop returned an error
          retired      \* Place::retired

placeVars == <<size, window, mark, occupant, outgoing, module, displaced,
               epoch, routing, mounted, owed, swapping, replaying,
               generation, looping, halted, retired>>

Paused == 0             \* f_abi::swap::PAUSED
Unmounted == -1         \* a mount word that names no page
NotSwapping == -1

Instance == [epoch : Nat, module : Modules \cup {NoModule},
             lo : Nat, n : Nat]

Absent == [epoch |-> 0, module |-> NoModule, lo |-> 0, n |-> 0]

Present(instance) == instance.n > 0

Top(instance) == instance.lo + instance.n

Frames(instance) == instance.lo .. Top(instance) - 1

Tree(instance) == Top(instance) - 1

PlaceInit ==
  /\ size \in Sizes /\ window \in Windows
  /\ mark = window
  /\ occupant = Absent /\ outgoing = Absent
  /\ module = Original /\ displaced = NoModule
  /\ epoch = 0 /\ routing = Paused /\ mounted = Unmounted
  /\ owed = 0
  /\ swapping = NotSwapping /\ replaying = 0 /\ generation = 0
  /\ looping = FALSE /\ halted = FALSE /\ retired = FALSE

-----------------------------------------------------------------------------
(* offer, spawn, mount                                                     *)

\* offer and spawn succeed: check_needs finds what was offered enough, and
\* every charge stays inside the account.
Fits(m, base, offered) ==
  /\ offered >= Offered[m]
  /\ base + offered + Parts[m] <= size

\* offer charges the needs and spawn the instance's own parts, all above
\* `base'; the caller mounts the tree of what was spawned.
SpawnAt(m, base, offered) ==
  LET new == [epoch |-> epoch, module |-> m,
              lo |-> base, n |-> offered + Parts[m]]
  IN  /\ occupant' = new
      /\ mark' = Top(new)
      /\ routing' = epoch + 1
      /\ epoch' = epoch + 1
      /\ mounted' = Tree(new)

Fill ==
  /\ ~halted /\ ~looping /\ epoch = 0 /\ ~retired
  /\ SpawnAt(module, mark, Offered[module])
  /\ looping' = TRUE
  /\ UNCHANGED <<size, window, outgoing, module, displaced, owed, swapping,
                 replaying, generation, halted, retired>>

\* A place no client drives is filled by the frame, or by a spawn from the
\* control ring; spawn refuses an occupied place and a retired one.
Refill ==
  /\ ~halted /\ ~looping
  /\ ~Present(occupant) /\ ~retired
  /\ Fits(module, mark, Offered[module])
  /\ SpawnAt(module, mark, Offered[module])
  /\ UNCHANGED <<size, window, outgoing, module, displaced, owed, swapping,
                 replaying, generation, looping, halted, retired>>

-----------------------------------------------------------------------------
(* retire_instance, tear_down                                              *)

EmptiedUnpaid == mark - occupant.n

\* The mark once the occupant's frames are refunded, and after them the
\* refund a previous instance could not take.
Emptied == mark - occupant.n - owed

TearDown(why) ==
  /\ ~halted /\ ~looping
  /\ mounted' = Unmounted
  /\ routing' = Paused
  /\ occupant' = Absent
  /\ mark' = IF Present(occupant) THEN Emptied ELSE mark
  /\ owed' = IF Present(occupant) THEN 0 ELSE owed
  /\ retired' = (retired \/ why = "retired")
  /\ UNCHANGED <<size, window, outgoing, module, displaced, epoch, swapping,
                 replaying, generation, looping, halted>>

-----------------------------------------------------------------------------
(* The passes of a driven place                                            *)

\* The client killed the occupant: tear_down, then offer, with the needs of
\* the record the place was built from, then spawn and mount.  A swap under
\* way stays under way, with nothing left to replay.
Kill ==
  /\ ~halted /\ looping
  /\ generation < KillsMax
  /\ Fits(module, Emptied, Offered[Original])
  /\ SpawnAt(module, Emptied, Offered[Original])
  /\ owed' = 0
  /\ generation' = generation + 1
  /\ replaying' = 0
  /\ UNCHANGED <<size, window, outgoing, module, displaced, swapping,
                 looping, halted, retired>>

\* The client asked for a swap: the occupant handed its records over, steps
\* aside, and the successor is spawned above it.
SwapBegin(records) ==
  /\ ~halted /\ looping
  /\ ~Present(outgoing)
  /\ generation < KillsMax
  /\ Fits(Successor, mark, Offered[Successor])
  /\ outgoing' = occupant
  /\ displaced' = module
  /\ module' = Successor
  /\ SpawnAt(Successor, mark, Offered[Successor])
  /\ swapping' = records
  /\ replaying' = records
  /\ generation' = generation + 1
  /\ UNCHANGED <<size, window, owed, looping, halted, retired>>

\* The account could not pay for the successor's needs: what was charged of
\* them stays charged, the identity goes back, and the boot ends.
SwapRefused ==
  /\ ~halted /\ looping
  /\ ~Present(outgoing)
  /\ mark + Offered[Successor] > size
  /\ mark' = size
  /\ mounted' = Unmounted
  /\ routing' = epoch + 1
  /\ halted' = TRUE
  /\ UNCHANGED <<size, window, occupant, outgoing, module, displaced, epoch,
                 owed, swapping, replaying, generation, looping, retired>>

\* The pass ended with nothing to swap.
Finish ==
  /\ ~halted /\ looping
  /\ swapping = NotSwapping
  /\ looping' = FALSE
  /\ UNCHANGED <<size, window, mark, occupant, outgoing, module, displaced,
                 epoch, routing, mounted, owed, swapping, replaying,
                 generation, halted, retired>>

RefundNow ==
  /\ mark' = mark - outgoing.n
  /\ owed' = owed

\* What the outgoing instance cost, which waits: its frames are not the top
\* of the watermark.
Defer ==
  /\ owed = 0
  /\ owed' = outgoing.n
  /\ mark' = mark

\* The successor replayed every record: the swap commits and the outgoing
\* instance is retired.
Commit(replayed) ==
  /\ ~halted /\ looping
  /\ swapping # NotSwapping
  /\ replayed = swapping
  /\ routing' = generation
  /\ Defer
  /\ outgoing' = Absent
  /\ displaced' = NoModule
  /\ swapping' = NotSwapping
  /\ replaying' = 0
  /\ looping' = FALSE
  /\ UNCHANGED <<size, window, occupant, module, epoch, mounted, generation,
                 halted, retired>>

\* The identity an abandoned swap leaves.
PutBack == module' = displaced

\* It did not: the outgoing instance goes back into the place with its
\* identity, and the successor is retired.  The boot goes on only for a
\* client that asked for the swap to be abandoned.
Abandon(replayed) ==
  /\ ~halted /\ looping
  /\ swapping # NotSwapping
  /\ replayed # swapping
  /\ occupant' = outgoing
  /\ outgoing' = Absent
  /\ mark' = mark - occupant.n
  /\ PutBack
  /\ displaced' = NoModule
  /\ routing' = epoch + 1
  /\ swapping' = NotSwapping
  /\ replaying' = 0
  /\ looping' = FALSE
  /\ halted' \in BOOLEAN
  /\ UNCHANGED <<size, window, epoch, mounted, owed, generation, retired>>

\* Any pass may return an error: the client's, the budget of kills, a second
\* swap, a hand-over that did not stage, a spawn the account cannot pay.
Fail ==
  /\ ~halted /\ looping
  /\ halted' = TRUE
  /\ UNCHANGED <<size, window, mark, occupant, outgoing, module, displaced,
                 epoch, routing, mounted, owed, swapping, replaying,
                 generation, looping, retired>>

Drive ==
  \/ Fill
  \/ Kill
  \/ \E records \in 0..MaxRecords : SwapBegin(records)
  \/ SwapRefused
  \/ Finish
  \/ \E replayed \in 0..replaying : Commit(replayed)
  \/ \E replayed \in 0..replaying : Abandon(replayed)
  \/ Fail

Causes == {"fault", "timedout", "stopped", "retired"}

PlaceNext ==
  \/ Drive
  \/ Refill
  \/ \E why \in Causes : TearDown(why)

PlaceSpec == PlaceInit /\ [][PlaceNext]_placeVars

-----------------------------------------------------------------------------
(* Properties                                                              *)

PlaceTypeOK ==
  /\ size \in Sizes /\ window \in Windows /\ mark \in Nat
  /\ occupant \in Instance /\ outgoing \in Instance
  /\ module \in Modules /\ displaced \in Modules \cup {NoModule}
  /\ epoch \in Nat /\ routing \in Nat
  /\ mounted \in Nat \cup {Unmounted}
  /\ owed \in Nat
  /\ swapping \in (0..MaxRecords) \cup {NotSwapping}
  /\ replaying \in 0..MaxRecords
  /\ generation \in 0..KillsMax
  /\ looping \in BOOLEAN /\ halted \in BOOLEAN /\ retired \in BOOLEAN

\* Through every kill, swap, abandonment and teardown, the account's
\* watermark is exactly the window, the frames of the instances the place
\* holds and the refund it owes; an empty place owes nothing, so an account
\* is whole again whenever its place is empty (tear_down, retire_instance).
AccountBalances ==
  ~halted =>
    /\ mark = window + owed + outgoing.n + occupant.n
    /\ ~Present(occupant) => mark = window

\* The frames of an instance that still runs are below the watermark and no
\* other instance's: no refund rewinds the account over memory a live
\* instance is made of, which is what the deferral of a swap's refund is for
\* (retire_instance, RFC 0095).
LivingFramesAreHeld ==
  ~halted =>
    /\ \A instance \in {occupant, outgoing} :
          Frames(instance) \subseteq window .. mark - 1
    /\ Frames(occupant) \cap Frames(outgoing) = {}

\* The manifest a place answers for is the one its occupant was spawned
\* from, and the instance set aside by a swap runs the displaced one: a kill
\* in the middle of a swap, or a swap abandoned, never leaves a place whose
\* refusals compare against a module its occupant is not running.
PlaceRunsItsManifest ==
  /\ Present(occupant) => occupant.module = module
  /\ Present(outgoing) => outgoing.module = displaced
  /\ (Present(outgoing) <=> displaced # NoModule)

=============================================================================
