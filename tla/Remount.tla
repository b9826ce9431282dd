------------------------------- MODULE Remount -------------------------------
(***************************************************************************)
(* Where the blobs of a store lie and how a mount finds them again: the    *)
(* hash map and the allocator of blob/src/store.rs over the logical to     *)
(* physical map of zone/src/map.rs, over the data zones of a device that   *)
(* keeps what a FLUSH covers and any subset of the rest.                   *)
(*                                                                         *)
(* A blob is a header block and Span - 1 blocks of content after it.  A    *)
(* block is written, and the power may go, one device operation at a time. *)
(* The root zones are Publish's: a commit here is its first barrier, and   *)
(* acked is what the roots acknowledged name.                              *)
(***************************************************************************)
EXTENDS Integers, Sequences, FiniteSetsExt

CONSTANTS
    DataZones,    \* how many data zones
    ZoneBlocks,   \* the blocks of each
    Blobs,        \* the contents that may be put
    Spans,        \* the blocks a record may have
    MaxCuts       \* bound on the cuts

VARIABLES
    span,       \* the blocks of a record, the same for all of a behaviour
    media,      \* each data zone up to its write pointer, for good
    queue,      \* the operations no FLUSH covers
    state,      \* State of each zone, the open one among them
    physical,   \* logical block to <<zone, offset>>
    located,    \* blob to the logical block of its header
    free,       \* the first logical block the allocator gives out
    writing,    \* the blob being put, and the blocks of it written
    pending,    \* the blobs of the publish in flight
    acked,      \* the blobs of the publishes acknowledged
    kept,       \* a history: acked, as of the last cut
    lost,       \* a history: the blobs the last mount found no good record of
    up, cuts

device == <<media, queue>>
mapping == <<state, physical>>
store == <<located, free>>
history == <<kept, lost>>
vars == <<span, media, queue, state, physical, located, free, writing, pending, acked, kept, lost,
          up, cuts>>

ASSUME RemountAssumption ==
    /\ DataZones \in Nat \ {0} /\ ZoneBlocks \in Nat \ {0}
    /\ IsFiniteSet(Blobs) /\ 0 \notin Blobs
    /\ Spans \subseteq Nat \ {0} /\ MaxCuts \in Nat

Span == span
Zones == 1 .. DataZones
Blocks == DataZones * ZoneBlocks    \* ZoneMap::blocks, but for block 0

\* One block of a record; whole says that its content is all there.
Block(b, part) == [blob |-> b, part |-> part, whole |-> TRUE]
Hole == [blob |-> 0, part |-> 0, whole |-> FALSE]
Idle == [blob |-> 0, done |-> 0]

-----------------------------------------------------------------------------
(* The device. *)

Append1(z, at, block) == [op |-> "append", zone |-> z, at |-> at, block |-> block]
Finish(z) == [op |-> "finish", zone |-> z, at |-> ZoneBlocks, block |-> Hole]

\* What is in the place of a block torn in mid write: a header whose content
\* is not all there, or nothing that decodes.
Torn(block) == {Hole} \cup (IF block.part = 1 THEN {[block EXCEPT !.whole = FALSE]} ELSE {})

ZoneAfter(z, landed) ==
    LET here == {o \in landed : o.zone = z}
        pointer == Max({Len(media[z])} \cup {o.at : o \in here})
        at(n) == {o \in here : o.op = "append" /\ o.at = n}
    IN  [n \in 1 .. pointer |->
            IF at(n) # {} THEN (CHOOSE o \in at(n) : TRUE).block
            ELSE IF n <= Len(media[z]) THEN media[z][n] ELSE Hole]

After(landed) == [z \in Zones |-> ZoneAfter(z, landed)]
Seen == After({queue[i] : i \in DOMAIN queue})

Room(z) == Len(Seen[z]) < ZoneBlocks

-----------------------------------------------------------------------------
(* ZoneMap::write. *)

FreeZones == {z \in Zones : state[z] = "free"}
OpenZones == {z \in Zones : state[z] = "open"}

\* append_somewhere and open_zone: the zone the next block goes to.  A full
\* one is finished and the first free zone opened; 0 when there is none.
Target ==
    IF \E z \in OpenZones : Room(z) THEN CHOOSE z \in OpenZones : Room(z)
    ELSE IF FreeZones # {} THEN Min(FreeZones) ELSE 0

Finishes == {z \in OpenZones : ~Room(z)}

StateAfter ==
    [z \in Zones |-> IF z \in Finishes THEN "sealed" ELSE IF z = Target THEN "open" ELSE state[z]]

FinishQueue == IF Finishes = {} THEN <<>> ELSE <<Finish(CHOOSE z \in Finishes : TRUE)>>

WriteTaken(logical, block) ==
    /\ logical \notin DOMAIN physical /\ Target # 0
    /\ LET at == Len(Seen[Target]) + 1 IN
       /\ queue' = queue \o FinishQueue \o <<Append1(Target, at, block)>>
       /\ physical' = [l \in DOMAIN physical \cup {logical} |->
                          IF l = logical THEN <<Target, at>> ELSE physical[l]]
    /\ state' = StateAfter
    /\ UNCHANGED media

\* ADDRESS for a block already placed, FULL when no zone is free; the full
\* zone is finished by then.
WriteRefused(logical) ==
    /\ logical \in DOMAIN physical \/ Target = 0
    /\ IF logical \in DOMAIN physical THEN UNCHANGED <<queue, state>>
       ELSE queue' = queue \o FinishQueue /\ state' = StateAfter
    /\ UNCHANGED <<media, physical>>

-----------------------------------------------------------------------------
(* Store::put, one device operation at a time, and the publish around it. *)

\* A put of content the store has a block for writes nothing.
PutAgain ==
    /\ up /\ writing = Idle
    /\ \E b \in DOMAIN located : pending' = pending \cup {b}
    /\ UNCHANGED <<span, device, mapping, store, writing, acked, history, up, cuts>>

\* The store names the content before any of it is written.
PutOpensNamed ==
    /\ up /\ writing = Idle
    /\ \E b \in Blobs \ DOMAIN located :
          /\ free + Span <= Blocks + 1
          /\ writing' = [blob |-> b, done |-> 0]
          /\ located' = [c \in DOMAIN located \cup {b} |-> IF c = b THEN free ELSE located[c]]
    /\ UNCHANGED <<span, device, mapping, free, pending, acked, history, up, cuts>>

PutOpens ==
    /\ up /\ writing = Idle
    /\ \E b \in Blobs \ DOMAIN located :
          /\ free + Span <= Blocks + 1
          /\ writing' = [blob |-> b, done |-> 0]
    /\ UNCHANGED <<span, device, mapping, store, pending, acked, history, up, cuts>>

PutBlock ==
    /\ up /\ writing.blob # 0
    /\ WriteTaken(free + writing.done, Block(writing.blob, writing.done + 1))
    /\ IF writing.done + 1 < Span
       THEN /\ writing' = [writing EXCEPT !.done = @ + 1]
            /\ UNCHANGED <<store, pending>>
       ELSE /\ writing' = Idle
            /\ located' = [b \in DOMAIN located \cup {writing.blob} |->
                              IF b = writing.blob THEN free ELSE located[b]]
            /\ free' = free + Span
            /\ pending' = pending \cup {writing.blob}
    /\ UNCHANGED <<span, acked, history, up, cuts>>

\* The put fails with what it wrote left mapped, and the publish with it.
PutFails ==
    /\ up /\ writing.blob # 0
    /\ WriteRefused(free + writing.done)
    /\ writing' = Idle
    /\ pending' = {}
    /\ UNCHANGED <<span, store, acked, history, up, cuts>>

\* Publisher::commit without its barrier.
CommitUnflushed ==
    /\ up /\ writing = Idle /\ pending # {}
    /\ acked' = acked \cup pending
    /\ pending' = {}
    /\ UNCHANGED <<span, device, mapping, store, writing, history, up, cuts>>

Commit ==
    /\ up /\ writing = Idle /\ pending # {}
    /\ media' = Seen /\ queue' = <<>>
    /\ acked' = acked \cup pending
    /\ pending' = {}
    /\ UNCHANGED <<span, mapping, store, writing, history, up, cuts>>

-----------------------------------------------------------------------------
(* The cut, and ZoneMap::remount and Store::mount after it. *)

Cut ==
    /\ up /\ cuts < MaxCuts
    /\ \E landed \in SUBSET DOMAIN queue :
          LET ops == {queue[i] : i \in landed}
              last == queue[Len(queue)]
          IN  \/ media' = After(ops)
              \/ /\ queue # <<>> /\ Len(queue) \notin landed /\ last.op = "append"
                 /\ \E t \in Torn(last.block) : media' = After(ops \cup {[last EXCEPT !.block = t]})
    /\ queue' = <<>>
    /\ up' = FALSE /\ cuts' = cuts + 1
    /\ writing' = Idle /\ pending' = {}
    /\ kept' = acked
    /\ UNCHANGED <<span, mapping, store, acked, lost>>

\* The written blocks in physical order, numbered from one.
Before(z) == FoldSet(LAMBDA y, n : n + Len(media[y]), 0, {y \in Zones : y < z})
Numbered ==
    LET total == Before(DataZones + 1) IN
    [l \in 1 .. total |->
        LET z == CHOOSE z \in Zones : Before(z) < l /\ l <= Before(z) + Len(media[z])
        IN  <<z, l - Before(z)>>]

At(map, l) == IF l \in DOMAIN map THEN media[map[l][1]][map[l][2]] ELSE Hole

\* The headers the scan stops at from block l on: it steps over the blocks a
\* header claims, whatever is in them.
Headers(map) ==
    LET from[l \in 1 .. Blocks + Span] ==
            IF l > Blocks THEN {}
            ELSE IF At(map, l).part = 1 THEN {l} \cup from[l + Span] ELSE from[l + 1]
    IN  from[1]

\* A record of b stands whole at block l of the numbering.
Whole(map, l, b) == \A i \in 0 .. Span - 1 : At(map, l + i) = Block(b, i + 1)

\* What a mount finds under a header it cannot read, and what it does not find:
\* a record of it is stepped over as the content of such a header.
Lost(map, found, names) ==
    {b \in DOMAIN names : ~Whole(map, names[b], b)} \cup
    {b \in Blobs : \E m \in found, l \in DOMAIN map :
        /\ m < l /\ l < m + Span /\ ~Whole(map, m, At(map, m).blob)
        /\ Whole(map, l, b)}

Mount ==
    /\ ~up
    /\ physical' = Numbered
    /\ state' = [z \in Zones |-> IF media[z] = <<>> THEN "free" ELSE "sealed"]
    /\ LET found == Headers(Numbered)
           name(l) == At(Numbered, l).blob
       IN  /\ located' = [b \in {name(l) : l \in found} |-> Min({l \in found : name(l) = b})]
           /\ free' = Min({Max({1} \cup {l + Span : l \in found}), Blocks + 1})
           /\ lost' = Lost(Numbered, found, located')
    /\ up' = TRUE
    /\ UNCHANGED <<span, device, writing, pending, acked, kept, cuts>>

Init ==
    /\ span \in Spans
    /\ media = [z \in Zones |-> <<>>] /\ queue = <<>>
    /\ state = [z \in Zones |-> "free"] /\ physical = << >>
    /\ located = << >> /\ free = 1
    /\ writing = Idle /\ pending = {} /\ acked = {}
    /\ kept = {} /\ lost = {}
    /\ up = TRUE /\ cuts = 0

Next == PutAgain \/ PutOpens \/ PutBlock \/ PutFails \/ Commit \/ Cut \/ Mount

Spec == Init /\ [][Next]_vars

-----------------------------------------------------------------------------
(* Properties. *)

\* Store::get: the record is where the map says and hashes to its name.
Readable(b) ==
    /\ b \in DOMAIN located
    /\ \A i \in 0 .. Span - 1 :
          LET l == located[b] + i IN
          l \in DOMAIN physical /\ Seen[physical[l][1]][physical[l][2]] = Block(b, i + 1)

\* What a publish acknowledged can be read: always after one cut, wherever it
\* falls and whatever it tears, if it was acknowledged before the cut; and after
\* more unless a mount found a header with its content missing, of that blob or
\* in the block before its record.  map.rs:190 has that a walk in physical order
\* "re-derives the numbering exactly": it numbers the next record from the end of
\* the torn one, which is a block short, so the scan takes its header for the
\* torn one's content (store.rs:304).
AcknowledgedIsReadable ==
    up => /\ \A b \in acked : Readable(b) \/ b \in lost
          /\ cuts <= 1 => \A b \in kept : Readable(b)

\* A put that succeeded left its content readable, written by it or found there,
\* unless what was found is a header a mount read without its content.  The
\* comment of mount (store.rs:245) has two records of one hash "hold the same
\* bytes by construction", and the hash map keeps the torn one, which put then
\* takes for the content (store.rs:421).
PutIsReadable == \A b \in pending : Readable(b) \/ b \in lost
=============================================================================
