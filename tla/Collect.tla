------------------------------ MODULE Collect ------------------------------
(***************************************************************************)
(* The store's collector (zone/src): the zone map with its copy-forward    *)
(* and repoint, the root set with its transient entries, the mark, and the *)
(* cycle that selects zones, evacuates them and resets them, stepping      *)
(* while clients publish, unpin and read.                                  *)
(*                                                                         *)
(* A block's bytes are the logical block they were written for: media[p]   *)
(* is that block.  live_bytes(z) is counted in blocks; it equals the bits  *)
(* of B in z's range wherever the code keeps it, so it is derived.         *)
(***************************************************************************)
EXTENDS Integers, FiniteSets, Sequences, FiniteSetsExt, Functions

CONSTANTS
    Zones,        \* the data zones the map manages, an interval of numbers
    ZoneBlocks,   \* blocks in a zone
    Denominator,  \* SWEEP_LIVE_FRACTION_DENOMINATOR
    Content,      \* object -> the sequence of chunks it names
    Kind,         \* object -> the kind its record carries
    Size,         \* blob -> the blocks its record occupies
    Writers,      \* publishes that may be in progress at once
    Readers,      \* clients that resolve a hash and hold the zone
    MaxCycles,    \* bound on the cycles begun
    None

Objects  == DOMAIN Content
Chunks   == UNION {Range(Content[o]) : o \in Objects}
Blobs    == Objects \cup Chunks
Places   == Zones \X (0 .. ZoneBlocks - 1)
Capacity == Cardinality(Zones) * ZoneBlocks
Logical  == 1 .. Capacity

ASSUME CollectAssumption ==
    /\ IsFiniteSet(Zones) /\ Zones # {} /\ Zones \subseteq Nat
    /\ ZoneBlocks \in Nat \ {0}
    /\ Denominator \in Nat \ {0}
    /\ Kind \in [Objects -> {"object", "generation"}]
    /\ Objects \cap Chunks = {}
    /\ \A o \in Objects : Content[o] \in Seq(Chunks)
    /\ Size \in [Blobs -> Nat \ {0}]
    /\ MaxCycles \in Nat
    /\ None \notin Zones \cup Logical \cup [at: Places, logical: Logical]
    /\ IsFiniteSet(Readers)

VARIABLES
    disk,     \* ZoneMap and the device under it, and the Store's hash map
    roots,    \* Roots and the Publishers holding write sets
    mark,     \* Mark
    cycle,    \* Collector
    readers   \* reader -> the place it resolved, or None

vars == <<disk, roots, mark, cycle, readers>>

-----------------------------------------------------------------------------
(* The zone map. *)

(* A map once the key names the value, whatever it named before. *)
Inserted(f, key, value) ==
    [k \in DOMAIN f \cup {key} |-> IF k = key THEN value ELSE f[k]]

InZone(z) == {p \in Places : p[1] = z}

Where(d, blocks) == {d.phys[l] : l \in blocks \cap DOMAIN d.phys}

Holds(d, z) == {l \in DOMAIN d.phys : d.phys[l][1] = z}

FreeZones(d) == {z \in Zones : d.state[z] = "free"}

(* Seal the open zone and open the lowest free one; with none free the map
   is left with no open zone, which is the refusal FULL. *)
OpenZone(d) ==
    LET sealed == IF d.open = None THEN d.state ELSE [d.state EXCEPT ![d.open] = "sealed"]
        frees  == FreeZones(d)
    IN  IF frees = {}
          THEN [d EXCEPT !.state = sealed, !.open = None]
          ELSE [d EXCEPT !.state = [sealed EXCEPT ![Min(frees)] = "open"],
                         !.open  = Min(frees)]

(* The map once an append has found a zone with room, or failed to. *)
Room(d) == IF d.open = None \/ d.wp[d.open] = ZoneBlocks THEN OpenZone(d) ELSE d

AppendAt(d) == <<d.open, d.wp[d.open]>>

(* The block l appended at the open zone's write pointer. *)
Appended(d, l) ==
    [d EXCEPT !.media[AppendAt(d)] = l, !.wp[d.open] = @ + 1]

(* Reset: the device forgets the zone, and every mapping that names it goes. *)
Recycled(d, z) ==
    [d EXCEPT !.state[z] = "free", !.live[z] = 0, !.reads[z] = 0, !.wp[z] = 0,
              !.media = [p \in Places |-> IF p[1] = z THEN None ELSE @[p]],
              !.phys  = Restrict(@, DOMAIN @ \ Holds(d, z))]

(* Copy a block into the open zone and do not repoint it. *)
CopyForward(d, l) ==
    LET room == Room(d)
    IN  CASE l \notin DOMAIN d.phys -> [disk |-> d, ok |-> FALSE]
          [] l \in DOMAIN d.phys /\ room.open = None -> [disk |-> room, ok |-> FALSE]
          [] OTHER -> [disk |-> [Appended(room, l) EXCEPT !.copies = Inserted(@, l, AppendAt(room))],
                       ok   |-> TRUE]

(* One barrier, then every outstanding copy is repointed. *)
CommittedCopies(d) ==
    [d EXCEPT !.phys   = [l \in DOMAIN @ |-> IF l \in DOMAIN d.copies THEN d.copies[l] ELSE @[l]],
              !.copies = << >>]

-----------------------------------------------------------------------------
(* The store above it. *)

Extent(d, h) == d.located[h] .. d.located[h] + Size[h] - 1

Mapped(d, h) == Extent(d, h) \subseteq DOMAIN d.phys

(* The map's write: a block it has already placed takes no second write. *)
WriteBlock(acc, l) ==
    LET d == Room(acc.disk)
    IN  IF ~acc.ok \/ l \in DOMAIN acc.disk.phys
          THEN [acc EXCEPT !.ok = FALSE]
          ELSE IF d.open = None
            THEN [disk |-> d, ok |-> FALSE]
            ELSE [disk |-> [Appended(d, l) EXCEPT !.phys = Inserted(@, l, AppendAt(d))],
                  ok   |-> TRUE]

(* The n blocks from `from` on, written one after the other. *)
Written(acc, from, n) ==
    LET wrote[i \in 0 .. n] == IF i = 0 THEN acc ELSE WriteBlock(wrote[i - 1], from + i - 1)
    IN  wrote[n]

(* put: content the store already names is not written again; a write that
   is refused part-way leaves the blocks before it and moves no counter. *)
Put(acc, h) ==
    LET from == acc.disk.free
        wrote == Written(acc, from, Size[h])
    IN  IF ~acc.ok \/ h \in DOMAIN acc.disk.located
          THEN acc
          ELSE IF from + Size[h] > 1 + Capacity
            THEN [acc EXCEPT !.ok = FALSE]
            ELSE IF ~wrote.ok
              THEN wrote
              ELSE [wrote EXCEPT !.disk.located = Inserted(@, h, from),
                                 !.disk.free    = from + Size[h]]

(* put_object: every chunk, then the record that names them. *)
PutObject(d, o) ==
    LET blobs == Append(Content[o], o)
        put[i \in 0 .. Len(blobs)] ==
            IF i = 0 THEN [disk |-> d, ok |-> TRUE] ELSE Put(put[i - 1], blobs[i])
    IN  put[Len(blobs)]

-----------------------------------------------------------------------------
(* The root set. *)

(* A root set whose transient entries are no roots. *)
PinnedOnly(r) == {}

TransientBlocks(r) == UNION {r.open[w].blocks : w \in DOMAIN r.open}

(* Publisher::appended: every block the store allocated since it last looked. *)
Record(r, w, d) ==
    LET set == r.open[w]
    IN  [r EXCEPT !.open[w] = [set EXCEPT !.blocks = @ \cup (set.at .. d.free - 1),
                                          !.at     = d.free]]

Adopted(r, w, o) ==
    [r EXCEPT !.pinned = @ \cup {o}, !.open = Restrict(@, DOMAIN @ \ {w})]

-----------------------------------------------------------------------------
(* The mark. *)

Restarted == [bits |-> {}, roots |-> {}, live |-> {}, pending |-> {}, seen |-> {}]

Walk(m, hashes) == [m EXCEPT !.pending = @ \cup (hashes \ m.seen)]

(* What a record is walked into: only an object's chunk list is read. *)
Children(h) == IF h \in Objects /\ Kind[h] = "object" THEN Range(Content[h]) ELSE {}

(* B as RFC 0059 writes it: a bit where a blob starts. *)
OccupiedStart(d, h) == Where(d, {d.located[h]})

(* occupy: a bit for every block of the record, where the block now is. *)
Occupied(d, h) == Where(d, Extent(d, h))

(* step: visit one hash.  A hash the store does not name is counted and
   passed over.  One whose record cannot be read ends the step in an error,
   when it is already off the list and remembered as seen. *)
VisitFails(d, h) ==
    /\ h \in DOMAIN d.located
    /\ \/ d.located[h] \notin DOMAIN d.phys
       \/ Children(h) # {} /\ ~Mapped(d, h)

Visit(m, d, h) ==
    LET popped   == [m EXCEPT !.pending = @ \ {h}, !.seen = @ \cup {h}]
        occupied == [popped EXCEPT !.live = @ \cup {h}, !.bits = @ \cup Occupied(d, h)]
    IN  CASE h \notin DOMAIN d.located -> [popped EXCEPT !.roots = @ \cup {h}]
          [] VisitFails(d, h) ->
               IF d.located[h] \in DOMAIN d.phys THEN occupied ELSE popped
          [] OTHER -> [Walk(occupied, Children(h)) EXCEPT !.roots = @ \cup {h}]

(* rebuild: B again, from the live set and the map as it now stands. *)
Rebuilt(m, d, r) ==
    [m EXCEPT !.bits = (UNION {Occupied(d, h) : h \in m.live}) \cup Where(d, TransientBlocks(r))]

(* publish: every live_bytes(z) into the map. *)
Counted(d, m) ==
    [d EXCEPT !.live = [z \in Zones |-> Cardinality(m.bits \cap InZone(z))]]

-----------------------------------------------------------------------------
(* The reset guard. *)

NothingReachableIsSwept(d, m, r, z) ==
    /\ r.pinned \subseteq m.roots
    /\ \A l \in TransientBlocks(r) : l \in DOMAIN d.phys /\ d.phys[l] \in m.bits
    /\ m.bits \cap InZone(z) = {}

AResetZoneHoldsNoLiveBlob(d) == \A z \in FreeZones(d) : Holds(d, z) = {}

(* A reset that does not wait. *)
ReadersAreNotAsked(d, z) == TRUE

NoReaderBelievesTheZone(d, z) == d.reads[z] = 0

-----------------------------------------------------------------------------
(* Clients. *)

Init ==
    /\ disk = [state |-> [z \in Zones |-> "free"], live |-> [z \in Zones |-> 0],
               reads |-> [z \in Zones |-> 0], wp |-> [z \in Zones |-> 0],
               open |-> None, phys |-> << >>, copies |-> << >>,
               media |-> [p \in Places |-> None], located |-> << >>, free |-> 1]
    /\ roots = [pinned |-> {}, open |-> << >>]
    /\ mark = Restarted
    /\ cycle = [phase |-> "idle", chosen |-> << >>, sweep |-> None,
                answer |-> "done", begun |-> 0]
    /\ readers = [r \in Readers |-> None]

(* A publish opens its write set before its first blob is written. *)
OpenWrite(w) ==
    /\ w \notin DOMAIN roots.open
    /\ roots' = [roots EXCEPT !.open =
                    Inserted(@, w, [blocks |-> {}, at |-> disk.free,
                                 wrote |-> {}, own |-> {}])]
    /\ UNCHANGED <<disk, mark, cycle, readers>>

(* Everything an object's record leads to. *)
Reach(o) == {o} \cup Range(Content[o])

(* One object of a publish: put it, and record what that appended.  A put
   that is refused returns before anything is recorded.  `own` is a history:
   what of the content this publish wrote, and did not find in the store. *)
Write(w, o) ==
    LET put == PutObject(disk, o)
    IN  /\ w \in DOMAIN roots.open
        /\ disk' = put.disk
        /\ roots' = IF put.ok
                      THEN [Record(roots, w, put.disk) EXCEPT
                              !.open[w].wrote = @ \cup {o},
                              !.open[w].own = @ \cup (Reach(o) \ DOMAIN disk.located)]
                      ELSE roots
        /\ UNCHANGED <<mark, cycle, readers>>

(* The root record is durable: pin the root, then drop the write set. *)
Commit(w) ==
    /\ w \in DOMAIN roots.open
    /\ \E o \in roots.open[w].wrote : roots' = Adopted(Record(roots, w, disk), w, o)
    /\ UNCHANGED <<disk, mark, cycle, readers>>

Abandon(w) ==
    /\ w \in DOMAIN roots.open
    /\ roots' = [roots EXCEPT !.open = Restrict(@, DOMAIN @ \ {w})]
    /\ UNCHANGED <<disk, mark, cycle, readers>>

Unpin(o) ==
    /\ o \in roots.pinned
    /\ roots' = [roots EXCEPT !.pinned = @ \ {o}]
    /\ UNCHANGED <<disk, mark, cycle, readers>>

(* A reader resolves a hash and holds the zone it resolved to. *)
HoldRead(r) ==
    /\ readers[r] = None
    /\ \E l \in (UNION {Extent(disk, h) : h \in DOMAIN disk.located}) \cap DOMAIN disk.phys :
          /\ readers' = [readers EXCEPT ![r] = [at |-> disk.phys[l], logical |-> l]]
          /\ disk' = [disk EXCEPT !.reads[disk.phys[l][1]] = @ + 1]
    /\ UNCHANGED <<roots, mark, cycle>>

ReleaseRead(r) ==
    /\ readers[r] # None
    /\ disk' = [disk EXCEPT !.reads[readers[r].at[1]] = @ - 1]
    /\ readers' = [readers EXCEPT ![r] = None]
    /\ UNCHANGED <<roots, mark, cycle>>

-----------------------------------------------------------------------------
(* The cycle. *)

(* A cycle may be begun at any time; one that was part-way is forgotten. *)
Begin ==
    /\ cycle.begun < MaxCycles
    /\ mark' = Walk(Restarted, roots.pinned)
    /\ cycle' = [phase |-> "marking", chosen |-> << >>, sweep |-> None,
                 answer |-> "stepped", begun |-> cycle.begun + 1]
    /\ UNCHANGED <<disk, roots, readers>>

(* catch_up, at the top of every step: pinned roots the mark has not reached
   go back on the list and the phase back to marking; the blocks of open
   write sets are marked where they lie. *)
Unmarked == roots.pinned \ mark.roots

CaughtUp ==
    [Walk(mark, Unmarked) EXCEPT !.bits = @ \cup Where(disk, TransientBlocks(roots))]

Phase == IF Unmarked # {} /\ cycle.phase # "idle" THEN "marking" ELSE cycle.phase

Answer(phase, answer) == [cycle EXCEPT !.phase = phase, !.answer = answer]

(* The hash is read off the list and stays on it. *)
MarkOnePeeking ==
    /\ Phase = "marking"
    /\ \E h \in CaughtUp.pending :
          /\ mark' = [Visit(CaughtUp, disk, h) EXCEPT !.pending = @ \cup {h}]
          /\ cycle' = Answer("marking", IF VisitFails(disk, h) THEN "refused" ELSE "stepped")
    /\ UNCHANGED <<disk, roots, readers>>

MarkOne ==
    /\ Phase = "marking"
    /\ \E h \in CaughtUp.pending :
          /\ mark' = Visit(CaughtUp, disk, h)
          /\ cycle' = Answer("marking", IF VisitFails(disk, h) THEN "refused" ELSE "stepped")
    /\ UNCHANGED <<disk, roots, readers>>

Publish ==
    /\ Phase = "marking" /\ CaughtUp.pending = {}
    /\ mark' = CaughtUp
    /\ disk' = Counted(disk, CaughtUp)
    /\ cycle' = Answer("selecting", "stepped")
    /\ UNCHANGED <<roots, readers>>

(* (live_bytes, zone) in ascending order. *)
Before(d, x, y) == d.live[x] < d.live[y] \/ (d.live[x] = d.live[y] /\ x < y)

Candidates(d) ==
    {z \in Zones : d.state[z] = "sealed" /\ d.live[z] * Denominator < ZoneBlocks}

InOrder(d, zones) ==
    CHOOSE s \in [1 .. Cardinality(zones) -> zones] :
        \A i, j \in DOMAIN s : i < j => Before(d, s[i], s[j])

Select ==
    /\ Phase = "selecting"
    /\ mark' = CaughtUp
    /\ cycle' = IF Candidates(disk) = {}
                  THEN Answer("idle", "done")
                  ELSE [Answer("sweeping", "stepped") EXCEPT
                          !.chosen = InOrder(disk, Candidates(disk))]
    /\ UNCHANGED <<disk, roots, readers>>

(* The back of `chosen` is condemned and its live blocks listed. *)
Condemn ==
    /\ Phase = "sweeping" /\ cycle.sweep = None /\ cycle.chosen # << >>
    /\ mark' = CaughtUp
    /\ LET back == Len(cycle.chosen)
           z == cycle.chosen[back]
           popped == [cycle EXCEPT !.chosen = SubSeq(@, 1, back - 1)]
       IN  IF disk.state[z] # "sealed"
             THEN /\ cycle' = [popped EXCEPT !.answer = "refused"]
                  /\ UNCHANGED disk
             ELSE /\ disk' = [disk EXCEPT !.state[z] = "condemned"]
                  /\ cycle' = [popped EXCEPT !.answer = "stepped", !.sweep =
                        [zone |-> z, committed |-> FALSE,
                         remaining |-> {l \in Holds(disk, z) : disk.phys[l] \in CaughtUp.bits}]]
    /\ UNCHANGED <<roots, readers>>

Reselect ==
    /\ Phase = "sweeping" /\ cycle.sweep = None /\ cycle.chosen = << >>
    /\ mark' = CaughtUp
    /\ cycle' = Answer("selecting", "stepped")
    /\ UNCHANGED <<disk, roots, readers>>

(* One live block copied; the list has lost it even when the copy is refused. *)
Copy ==
    /\ Phase = "sweeping" /\ cycle.sweep # None
    /\ mark' = CaughtUp
    /\ \E l \in cycle.sweep.remaining :
          LET copied == CopyForward(disk, l)
          IN  /\ disk' = copied.disk
              /\ cycle' = [cycle EXCEPT !.sweep.remaining = @ \ {l},
                                        !.answer = IF copied.ok THEN "stepped" ELSE "refused"]
    /\ UNCHANGED <<roots, readers>>

CommitCopies ==
    /\ Phase = "sweeping" /\ cycle.sweep # None
    /\ cycle.sweep.remaining = {} /\ ~cycle.sweep.committed
    /\ LET d == CommittedCopies(disk)
           m == Rebuilt(CaughtUp, d, roots)
       IN  mark' = m /\ disk' = Counted(d, m)
    /\ cycle' = [cycle EXCEPT !.sweep.committed = TRUE, !.answer = "stepped"]
    /\ UNCHANGED <<roots, readers>>

Evacuated ==
    /\ Phase = "sweeping" /\ cycle.sweep # None
    /\ cycle.sweep.remaining = {} /\ cycle.sweep.committed

WaitForReaders ==
    /\ Evacuated
    /\ ~NoReaderBelievesTheZone(disk, cycle.sweep.zone)
    /\ mark' = CaughtUp
    /\ cycle' = [cycle EXCEPT !.answer = "waiting"]
    /\ UNCHANGED <<disk, roots, readers>>

(* all_three.  The third of them, that at most one operation is ahead of an
   urgent read, is ZoneQueue's CollectionNeverStarvesAnUrgentRead, which no state of the
   queue breaks. *)
Safe(z) ==
    /\ NothingReachableIsSwept(disk, CaughtUp, roots, z)
    /\ AResetZoneHoldsNoLiveBlob(disk)

MayRecycle(z) == Safe(z) /\ disk.state[z] = "condemned" /\ disk.copies = << >>

Refuse ==
    /\ Evacuated
    /\ NoReaderBelievesTheZone(disk, cycle.sweep.zone)
    /\ ~MayRecycle(cycle.sweep.zone)
    /\ mark' = CaughtUp
    /\ cycle' = [cycle EXCEPT !.answer = "refused"]
    /\ UNCHANGED <<disk, roots, readers>>

Recycle ==
    /\ Evacuated
    /\ NoReaderBelievesTheZone(disk, cycle.sweep.zone)
    /\ MayRecycle(cycle.sweep.zone)
    /\ mark' = CaughtUp
    /\ disk' = Recycled(disk, cycle.sweep.zone)
    /\ cycle' = [cycle EXCEPT !.sweep = None, !.answer = "stepped"]
    /\ UNCHANGED <<roots, readers>>

Step ==
    \/ MarkOne \/ Publish \/ Select
    \/ Condemn \/ Reselect \/ Copy \/ CommitCopies
    \/ WaitForReaders \/ Refuse \/ Recycle

Client ==
    \/ \E w \in Writers : OpenWrite(w) \/ Commit(w) \/ Abandon(w)
    \/ \E w \in Writers, o \in Objects : Write(w, o)
    \/ \E o \in Objects : Unpin(o)
    \/ \E r \in Readers : HoldRead(r) \/ ReleaseRead(r)

Next == Client \/ Begin \/ Step

Spec == Init /\ [][Next]_vars

(* The caller of `collect` steps until it is told there is no more to do,
   and a reader that has resolved a block reads it and lets go. *)
FairSpec ==
    /\ Spec
    /\ WF_vars(Step)
    /\ \A r \in Readers : WF_vars(ReleaseRead(r))

-----------------------------------------------------------------------------
Readable(h) ==
    h \in DOMAIN disk.located /\ \A l \in Extent(disk, h) :
        l \in DOMAIN disk.phys /\ disk.media[disk.phys[l]] = l

(* Everything a pinned root reaches can be read back. *)
PublishedResolves == \A o \in roots.pinned : \A h \in Reach(o) : Readable(h)

(* The collector takes nothing from a pinned root: its record, and the chunks
   if it is an object's, stay readable for as long as it is pinned, through
   every mark, copy, repoint, reset and refusal.  What a pinned root of another
   kind names is not among them, nor what could not be read when it was pinned:
   the mark does not walk the first (mark.rs:306), and put takes the second for
   stored (blob/src/store.rs:421). *)
PinnedStaysReadable ==
    [][\A o \in roots.pinned \cap roots'.pinned : \A h \in {o} \cup Children(o) :
            Readable(h) => Readable(h)']_vars

(* Everything a publish wrote is there when its root record comes to name it,
   and its blocks are all in the write set until then: nothing a publish has
   written is swept before the commit.  Content it put and the store already
   named is not of its writing and has no such protection. *)
OpenWritesSurvive ==
    \A w \in DOMAIN roots.open : \A h \in roots.open[w].own :
        Readable(h) /\ Extent(disk, h) \subseteq roots.open[w].blocks

(* A reader that resolved a block and still holds its zone finds at that
   place the bytes it resolved, however often the block was moved since. *)
ReadersSeeWhatTheyResolved ==
    \A r \in Readers :
        readers[r] # None => disk.media[readers[r].at] = readers[r].logical

(* A cycle that is stepped and not begun again ends: it runs out of zones
   worth sweeping, or it answers that a reader holds the zone or that it
   will not reset it.  It steps for ever only over a pinned root whose record
   cannot be read, which catch_up sends it back to and the mark, having seen
   it, does not visit again. *)
EveryCycleEnds ==
    (cycle.answer = "stepped")
        ~> (cycle.answer # "stepped" \/ \E o \in roots.pinned : ~Readable(o))
=============================================================================
