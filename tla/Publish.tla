------------------------------- MODULE Publish -------------------------------
(***************************************************************************)
(* Publishing a root record and finding it again after the power went      *)
(* (zone/src/publish.rs, zone/src/mount.rs), on a zoned device that keeps  *)
(* what a completed FLUSH covers and any subset of the rest                *)
(* (zone/src/device.rs).                                                   *)
(*                                                                         *)
(* A publish writes the blobs of a tree, FLUSHes, appends a root record to *)
(* the active one of two root zones and FLUSHes again.  When the active    *)
(* zone is nearly full its newest Carry records are first copied to the    *)
(* other one, which is reset for them.  Each device operation is a step,   *)
(* and the power may go before any of them.                                *)
(*                                                                         *)
(* A tree is a set of blobs, new or that of the attempt before, and a blob *)
(* is a header and content that may lie in the next block: a cut may land  *)
(* the one without the other.  The scan of a mount takes such a header for *)
(* the blob, and if nothing was written after it takes the header of the   *)
(* first record the machine then writes for its content.  Remount has the  *)
(* numbering of the blocks this comes from; here the data zones are one    *)
(* row of blocks.                                                          *)
(***************************************************************************)
EXTENDS Integers, Sequences, FiniteSetsExt

CONSTANTS
    Geometries,     \* the sizes a root zone may have, in blocks
    Carry,          \* ROOT_CARRY: the records a wrap copies
    Blobs,          \* the blobs of one tree
    MaxPublishes,   \* bound: publishes attempted
    HonestCuts,     \* bound: power cuts of a device whose FLUSH is one
    LyingCuts       \* bound: power cuts of a device that ignores FLUSH

VARIABLES
    zoneBlocks, \* the blocks of a root zone of this device
    honest,     \* whether its completed FLUSH is one
    media,     \* what is on the device for good: the root zones and the blobs
    queue,     \* the operations no FLUSH covers, in the order submitted
    pc,        \* the step the publish is at, "idle" between publishes, "off" after a cut
    work,      \* the publish in flight: its record, its zone, what is still to carry
    held,      \* the root the machine last mounted or published
    expected,  \* the roots a mount may find: the one before and the one in flight
    refused,   \* Mounted::roots_refused_unresolved
    located,   \* Store::located: the blobs a put takes for stored
    stubs,     \* the blobs a scan finds the header of without the content
    short,     \* whether the last record submitted claims a block after it
    harmed,    \* a history: a tree was committed that a scan does not find whole
    tried, cuts

this == <<zoneBlocks, honest>>
store == <<located, stubs, short>>
vars == <<this, media, queue, pc, work, held, expected, refused, store, harmed, tried, cuts>>

ASSUME PublishAssumption ==
    /\ Carry \in Nat \ {0} /\ \A n \in Geometries : n \in Nat /\ n >= Carry
    /\ IsFiniteSet(Blobs) /\ Blobs # {}
    /\ MaxPublishes \in Nat /\ HonestCuts \in Nat /\ LyingCuts \in Nat

RootZones == {"a", "b"}
\* No root: what a block holds that is not a whole record, too.
None == [generation |-> 0, tree |-> 0]

-----------------------------------------------------------------------------
(* The device. *)

Append1(zone, at, record) == [op |-> "append", zone |-> zone, at |-> at, record |-> record]
Reset(zone) == [op |-> "reset", zone |-> zone]
Blob(tree, blob) == [op |-> "blob", tree |-> tree, blob |-> blob]
\* A blob written after a short record: no scan finds it.
Astray(tree, blob) == [op |-> "astray", tree |-> tree, blob |-> blob]

\* One root zone after the operations whole landed, and torn began to: a block
\* that did not land before one that did is a hole, and a torn record is none.
ZoneAfter(zone, whole, torn) ==
    LET base == IF \E i \in whole : queue[i] = Reset(zone) THEN <<>> ELSE media.zone[zone]
        appends(S) == {queue[i] : i \in {j \in S : queue[j].op = "append" /\ queue[j].zone = zone}}
        positions(S) == {a.at : a \in appends(S)}
        pointer == Max({Len(base)} \cup positions(whole \cup torn))
    IN  [at \in 1 .. pointer |->
            IF at \in positions(whole) THEN (CHOOSE a \in appends(whole) : a.at = at).record
            ELSE IF at \in positions(torn) \/ at > Len(base) THEN None
            ELSE base[at]]

After(whole, torn) ==
    [zone |-> [z \in RootZones |-> ZoneAfter(z, whole, torn)],
     blobs |-> media.blobs \cup {<<queue[i].tree, queue[i].blob>> :
                                    i \in {j \in whole : queue[j].op = "blob"}}]

\* What the running system reads: everything it submitted.
Seen == After(DOMAIN queue, {})

FlushNothing == UNCHANGED <<media, queue>>

Flush ==
    IF honest THEN media' = Seen /\ queue' = <<>>
              ELSE UNCHANGED <<media, queue>>

Submit(op) == queue' = Append(queue, op) /\ UNCHANGED media

-----------------------------------------------------------------------------
(* The root zones. *)

Verifying(zone) == {zone[i] : i \in DOMAIN zone} \ {None}

Roots(dev) == Verifying(dev.zone["a"]) \cup Verifying(dev.zone["b"])

Highest(zone) ==
    CHOOSE g \in {r.generation : r \in Verifying(zone)} \cup {0} :
        \A r \in Verifying(zone) : r.generation <= g

Active(dev) == IF Highest(dev.zone["b"]) > Highest(dev.zone["a"]) THEN "b" ELSE "a"

Itself(zone) == zone

OtherThan(zone) == IF zone = "a" THEN "b" ELSE "a"

HasRoom(dev, zone) == Len(dev.zone[zone]) < zoneBlocks /\ zoneBlocks - Len(dev.zone[zone]) >= Carry

\* wrap: the newest Carry whole records of the zone, at their positions.
Carried(zone) ==
    LET whole == {i \in DOMAIN zone : zone[i] # None}
    IN  Restrict(zone, {i \in whole : Cardinality({j \in whole : j > i}) < Carry})

-----------------------------------------------------------------------------
(* The publish: Publisher::open and Publisher::commit. *)

\* The caller numbers a publish one above the root it holds.  Its tree is a
\* new one, or the one last attempted.
Open ==
    /\ pc = "idle" /\ tried < MaxPublishes
    /\ tried' = tried + 1
    /\ \E tree \in {tried + 1} \cup ({work.record.tree} \ {0}) :
          work' = [record |-> [generation |-> held.generation + 1, tree |-> tree],
                   zone |-> "a", carry |-> <<>>]
    /\ expected' = {held, work'.record}
    /\ pc' = "blobs"
    /\ UNCHANGED <<this, media, queue, held, refused, store, harmed, cuts>>

\* Store::put of content the store has no block for; it writes nothing else.
Put ==
    /\ pc = "blobs"
    /\ \E b \in Blobs :
          LET tree == work.record.tree IN
          /\ <<tree, b>> \notin located
          /\ Submit(IF short THEN Astray(tree, b) ELSE Blob(tree, b))
          /\ located' = located \cup {<<tree, b>>}
    /\ short' = FALSE
    /\ UNCHANGED <<this, pc, work, held, expected, refused, stubs, harmed, tried, cuts>>

\* What the scan of a mount of dev finds whole has all of the record's tree.
Resolves(dev, record) == \A b \in Blobs : <<record.tree, b>> \in dev.blobs

NoBarrier ==
    /\ pc = "blobs"
    /\ \A b \in Blobs : <<work.record.tree, b>> \in located
    /\ FlushNothing
    /\ harmed' = (harmed \/ ~Resolves(Seen, work.record))
    /\ pc' = "choose"
    /\ UNCHANGED <<this, work, held, expected, refused, store, tried, cuts>>

\* Every hash the record will name is on stable media before it exists.
Barrier ==
    /\ pc = "blobs"
    /\ \A b \in Blobs : <<work.record.tree, b>> \in located
    /\ Flush
    /\ harmed' = (harmed \/ ~Resolves(Seen, work.record))
    /\ pc' = "choose"
    /\ UNCHANGED <<this, work, held, expected, refused, store, tried, cuts>>

\* root_zone_for_the_next_record, and the first half of wrap: the zone that is
\* reset is the other one, and a zone too small for two carries is refused.
ChooseZone ==
    /\ pc = "choose"
    /\ LET active == Active(Seen)
           other == OtherThan(active)
       IN  \/ /\ HasRoom(Seen, active)
              /\ pc' = "append"
              /\ work' = [work EXCEPT !.zone = active]
              /\ UNCHANGED <<media, queue>>
           \/ /\ ~HasRoom(Seen, active) /\ zoneBlocks < 2 * Carry
              /\ pc' = "idle"
              /\ media' = Seen /\ queue' = <<>>
              /\ UNCHANGED work
           \/ /\ ~HasRoom(Seen, active) /\ zoneBlocks >= 2 * Carry
              /\ pc' = "carry"
              /\ work' = [work EXCEPT !.zone = other, !.carry = Carried(Seen.zone[active])]
              /\ Submit(Reset(other))
    /\ UNCHANGED <<this, held, expected, refused, store, harmed, tried, cuts>>

\* Oldest first.
CarryOne ==
    /\ pc = "carry" /\ DOMAIN work.carry # {}
    /\ LET next == Min(DOMAIN work.carry)
       IN  /\ Submit(Append1(work.zone, Len(Seen.zone[work.zone]) + 1, work.carry[next]))
           /\ work' = [work EXCEPT !.carry = Restrict(@, DOMAIN @ \ {next})]
    /\ UNCHANGED <<this, pc, held, expected, refused, store, harmed, tried, cuts>>

CarryBarrier ==
    /\ pc = "carry" /\ DOMAIN work.carry = {}
    /\ Flush
    /\ pc' = "append"
    /\ UNCHANGED <<this, work, held, expected, refused, store, harmed, tried, cuts>>

AppendRoot ==
    /\ pc = "append"
    /\ Submit(Append1(work.zone, Len(Seen.zone[work.zone]) + 1, work.record))
    /\ pc' = "adopt"
    /\ UNCHANGED <<this, work, held, expected, refused, store, harmed, tried, cuts>>

\* The second FLUSH and Roots::adopt: the publish is acknowledged.  Between
\* publishes even a device that ignores FLUSH has had time to write.
Adopt ==
    /\ pc = "adopt"
    /\ media' = Seen /\ queue' = <<>>
    /\ held' = work.record
    /\ expected' = {work.record}
    /\ pc' = "idle"
    /\ UNCHANGED <<this, work, refused, store, harmed, tried, cuts>>

-----------------------------------------------------------------------------
(* The cut and the mount. *)

\* Whether the numbering a mount rebuilds ends within a record: the last thing
\* on the device is a header alone, and its content was not to share its block.
ShortAfter(whole, heads) ==
    LET data == {i \in DOMAIN queue : queue[i].op \in {"blob", "astray"}}
        landed == (data \cap whole) \cup heads
        was == short \/ \E i \in data : queue[i].op = "astray"
    IN  IF landed = {} THEN {was} \cup {FALSE : i \in data}
        ELSE IF Max(landed) \in heads THEN BOOLEAN ELSE {FALSE}

\* Any of the operations in flight land, the last may be torn, and of any blob
\* the header alone may land.
Cut ==
    /\ pc # "off" /\ cuts < (IF honest THEN HonestCuts ELSE LyingCuts)
    /\ \E whole \in SUBSET DOMAIN queue :
          /\ \E torn \in SUBSET ({Len(queue)} \cap DOMAIN queue) : media' = After(whole, torn)
          /\ \E heads \in SUBSET {i \in DOMAIN queue \ whole : queue[i].op = "blob"} :
                /\ stubs' = stubs \cup {<<queue[i].tree, queue[i].blob>> : i \in heads}
                /\ short' \in ShortAfter(whole, heads)
    /\ queue' = <<>>
    /\ located' = {}
    /\ pc' = "off"
    /\ cuts' = cuts + 1
    /\ UNCHANGED <<this, work, held, expected, refused, harmed, tried>>

\* candidates: one record for each generation.  Two of one generation are
\* taken for copies and either may be kept, the sort being unstable.
Candidates(dev) ==
    {C \in SUBSET Roots(dev) :
        /\ \A r \in Roots(dev) : \E c \in C : c.generation = r.generation
        /\ \A c, d \in C : c.generation = d.generation => c = d}

MountHighest ==
    /\ pc = "off"
    /\ \E C \in Candidates(media) :
          LET above(r) == {c \in C : c.generation > r.generation} IN
          \E r \in C \cup {None} :
             /\ \A c \in C : c.generation <= r.generation
             /\ held' = r /\ refused' = Cardinality(above(r))
    /\ expected' = {held'}
    /\ located' = media.blobs \cup stubs
    /\ pc' = "idle"
    /\ UNCHANGED <<this, media, queue, work, stubs, short, harmed, tried, cuts>>

Mount ==
    /\ pc = "off"
    /\ \E C \in Candidates(media) :
          LET good == {c \in C : Resolves(media, c)} IN
          \E r \in good \cup {None} :
             /\ \A c \in good : c.generation <= r.generation
             /\ held' = r
             /\ refused' = Cardinality({c \in C : c.generation > r.generation})
    /\ expected' = {held'}
    /\ located' = media.blobs \cup stubs
    /\ pc' = "idle"
    /\ UNCHANGED <<this, media, queue, work, stubs, short, harmed, tried, cuts>>

Init ==
    /\ zoneBlocks \in Geometries /\ honest \in BOOLEAN
    /\ media = [zone |-> [z \in RootZones |-> <<>>], blobs |-> {}]
    /\ queue = <<>> /\ pc = "idle"
    /\ work = [record |-> None, zone |-> "a", carry |-> <<>>]
    /\ held = None /\ expected = {None} /\ refused = 0
    /\ located = {} /\ stubs = {} /\ short = FALSE /\ harmed = FALSE
    /\ tried = 0 /\ cuts = 0

Next ==
    \/ Open \/ Put \/ Barrier \/ ChooseZone \/ CarryOne \/ CarryBarrier
    \/ AppendRoot \/ Adopt \/ Cut \/ Mount

Spec == Init /\ [][Next]_vars

-----------------------------------------------------------------------------
(* Properties. *)

\* The three of them are about trees a scan finds: until a publish commits one
\* that it does not.  Two honest cuts and two publishes reach such a commit:
\* publish.rs:8 has that after the first barrier "every hash it names is on
\* stable media", which is so, and does not make a mount find it.

\* A mount after a cut, whichever operations landed and whichever publish or
\* wrap it fell in, finds the root the machine held or the one it was writing,
\* and all of its tree (zone/tests/cut.rs: "either the old root or the new one
\* and never a third thing"), unless a tree was committed that no scan finds.
EitherOldOrNew ==
    [][pc = "off" /\ pc' = "idle" /\ ~harmed =>
          held' \in expected /\ (held' # None => Resolves(media, held'))]_vars

\* On a device whose FLUSH is one, no root is refused because its tree is not
\* all there, unless one was committed that no scan finds: the barrier before
\* the record sees to it (publish.rs, commit).
NothingIsUnresolved == honest /\ ~harmed => refused = 0

\* At every instant, a wrap included, the root the machine runs is on stable
\* media with all of its tree, unless one was committed that no scan finds:
\* what a wrap resets is never the only zone that has it (publish.rs, "At no
\* instant is there a root zone whose contents are both the newest and
\* unwritten elsewhere").
HeldIsDurable == held # None /\ ~harmed => held \in Roots(media) /\ Resolves(media, held)
=============================================================================
