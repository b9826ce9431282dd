--------------------------- MODULE CollectProofs ---------------------------
(***************************************************************************)
(* Proofs about Collect.  BaseInv is what the map and the readers keep     *)
(* whatever is put: a mapped block, a copy and a block a reader believes   *)
(* in are all under the write pointer of their zone, and a zone counts the *)
(* readers that believe in it.  A reset asks for a count of zero, so what  *)
(* a reader resolved stays under it.                                       *)
(*                                                                         *)
(* MarkOK is what the collector keeps: whatever a pinned root or an open   *)
(* publish names is located, what an open publish wrote is stored and in   *)
(* its write set, and what the mark has seen has its blocks marked if they *)
(* are still all there.  A blob can be located and not stored, since put   *)
(* takes the name for the bytes (the run collect_reuse shows how), and     *)
(* then it never is again: blocks are written above all that is located.   *)
(* A zone is reset when no marked place and no block of an open write set  *)
(* is left in it, the list is empty and every root has been walked, so no  *)
(* root or child that could be read, and no open write, goes with it.      *)
(*                                                                         *)
(* Written and PutObject recurse over blocks and children.  Recursion      *)
(* gives the function they compute and Climbs carries a fact along it.     *)
(***************************************************************************)
EXTENDS Collect, FiniteSetTheorems, WellFoundedInduction, TLAPS

-----------------------------------------------------------------------------
(* The inductive invariant. *)

(* A map from some of A to B, as the code's tables are. *)
Partial(A, B) == UNION {[D -> B] : D \in SUBSET A}

States == {"free", "open", "sealed", "condemned"}

Disks ==
    [state: [Zones -> States], live: [Zones -> Nat], reads: [Zones -> Nat],
     wp: [Zones -> 0 .. ZoneBlocks], open: Zones \cup {None},
     phys: Partial(Logical, Places), copies: Partial(Logical, Places),
     media: [Places -> Logical \cup {None}],
     located: Partial(Blobs, Logical), free: 1 .. Capacity + 1]

WriteSets == [blocks: SUBSET Logical, at: 1 .. Capacity + 1, wrote: SUBSET Objects,
              own: SUBSET Blobs]

RootSets == [pinned: SUBSET Objects, open: Partial(Writers, WriteSets)]

Marks == [bits: SUBSET Places, roots: SUBSET Blobs, live: SUBSET Blobs,
          pending: SUBSET Blobs, seen: SUBSET Blobs]

Beliefs == [at: Places, logical: Logical]

TypeOK ==
    /\ disk \in Disks
    /\ roots \in RootSets
    /\ mark \in Marks
    /\ "phase" \in DOMAIN cycle
    /\ readers \in [Readers -> Beliefs \cup {None}]

(* The block l is at place p, under the write pointer of p's zone. *)
Sits(d, l, p) == p[2] < d.wp[p[1]] /\ d.media[p] = l

(* The map names only written blocks, the open zone is open, and what the
   store has located lies below the next free block. *)
DiskOK(d) ==
    /\ d \in Disks
    /\ \A z \in Zones : d.state[z] = "free" => d.wp[z] = 0
    /\ d.open # None => d.state[d.open] = "open"
    /\ \A l \in DOMAIN d.phys : Sits(d, l, d.phys[l])
    /\ \A l \in DOMAIN d.copies : Sits(d, l, d.copies[l])
    /\ \A h \in DOMAIN d.located : d.located[h] + Size[h] <= d.free

(* The readers that resolved a block of zone z and still hold it. *)
Believers(held, z) == {r \in Readers : held[r] # None /\ held[r].at[1] = z}

(* What a reader believes in is still there, and its zone counts it. *)
ReadersOK ==
    /\ \A r \in Readers : readers[r] # None => Sits(disk, readers[r].logical, readers[r].at)
    /\ \A z \in Zones : disk.reads[z] = Cardinality(Believers(readers, z))

BaseInv == TypeOK /\ DiskOK(disk) /\ ReadersOK

(* The blob is located and every block of it is mapped. *)
Stored(d, h) == h \in DOMAIN d.located /\ Extent(d, h) \subseteq DOMAIN d.phys

(* What pinned roots reach, and what open publishes have put, is located; and
   what the latter wrote themselves is stored and lies in their write sets. *)
RootsOK(d, r) ==
    /\ \A o \in r.pinned : Reach(o) \subseteq DOMAIN d.located
    /\ \A w \in DOMAIN r.open :
          /\ r.open[w].at <= d.free
          /\ \A o \in r.open[w].wrote : Reach(o) \subseteq DOMAIN d.located
          /\ \A h \in r.open[w].own : Stored(d, h) /\ Extent(d, h) \subseteq r.open[w].blocks

(* The mark so far: it has met only what the store names, what it has seen and
   is stored has its blocks marked, and the children of what it has walked are
   on the list or seen. *)
LiveOK(d, m) ==
    /\ m.seen \subseteq DOMAIN d.located
    /\ \A h \in m.pending : h \in DOMAIN d.located /\ Children(h) \subseteq DOMAIN d.located
    /\ \A h \in m.seen : Stored(d, h) => h \in m.live /\ Occupied(d, h) \subseteq m.bits
    /\ \A h \in m.roots : h \in m.seen /\ Children(h) \subseteq m.seen \cup m.pending

(* What the collector keeps between any two steps. *)
MarkOK ==
    /\ RootsOK(disk, roots) /\ LiveOK(disk, mark)
    /\ cycle.phase \in {"selecting", "sweeping"} => mark.pending = {}

-----------------------------------------------------------------------------
(* Numbers, and functions defined by recursion over them. *)

LEMMA LeastExists ==
    ASSUME NEW S, S \subseteq Nat, S # {}
    PROVE  \E x \in S : \A y \in S : x <= y
<1> DEFINE R == OpToRel(<, Nat)
<1>1. IsWellFoundedOn(R, Nat)
  BY NatLessThanWellFounded, Zenon
<1> HIDE DEF R
<1>2. PICK x \in S : \A y \in S : ~(<<y, x>> \in R)
  BY <1>1, WFMin, Zenon
<1>3. \A m, n \in Nat : m < n => <<m, n>> \in R
  BY DEF R, OpToRel
<1>4. ASSUME NEW y \in S PROVE x <= y
  <2>1. x \in Nat /\ y \in Nat
    OBVIOUS
  <2>2. ~(y < x)
    BY <1>2, <1>3, <2>1, Zenon
  <2> QED
    BY <2>1, <2>2
<1> QED
  BY <1>4

(* A property of index 0 that passes from each index to the next. *)
LEMMA Climbs ==
    ASSUME NEW n \in Nat, NEW T \in SUBSET (0 .. n), 0 \in T,
           \A i \in 1 .. n : i - 1 \in T => i \in T
    PROVE  \A i \in 0 .. n : i \in T
<1> SUFFICES ASSUME (0 .. n) \ T # {} PROVE FALSE
  OBVIOUS
<1>1. PICK k \in (0 .. n) \ T : \A j \in (0 .. n) \ T : k <= j
  <2>1. (0 .. n) \ T \subseteq Nat
    OBVIOUS
  <2> QED
    BY <2>1, LeastExists, Zenon
<1>2. k \in 1 .. n /\ k - 1 \in 0 .. n
  BY <1>1
<1>3. k - 1 \in T
  BY <1>1, <1>2
<1> QED
  BY <1>1, <1>2, <1>3

(* g is n rounds of F from b. *)
Runs(g, n, b, F) == g[0] = b /\ \A i \in 1 .. n : g[i] = F[<<i, g[i - 1]>>]

LEMMA Recursion ==
    ASSUME NEW n \in Nat, NEW S, NEW b \in S, NEW F \in [(1 .. n) \X S -> S]
    PROVE  \E g \in [0 .. n -> S] : Runs(g, n, b, F)
<1> DEFINE Upto(k) == \E g \in [0 .. k -> S] :
                         g[0] = b /\ \A i \in 1 .. k : g[i] = F[<<i, g[i - 1]>>]
           T == {k \in 0 .. n : Upto(k)}
<1>1. 0 \in T
  <2> DEFINE g == [i \in 0 .. 0 |-> b]
  <2>1. g \in [0 .. 0 -> S] /\ g[0] = b /\ \A i \in 1 .. 0 : g[i] = F[<<i, g[i - 1]>>]
    OBVIOUS
  <2>2. Upto(0)
    BY <2>1, Zenon
  <2> QED
    BY <2>2
<1>2. ASSUME NEW k \in 1 .. n, k - 1 \in T PROVE k \in T
  <2>1. PICK g \in [0 .. k - 1 -> S] :
            g[0] = b /\ \A i \in 1 .. k - 1 : g[i] = F[<<i, g[i - 1]>>]
    BY <1>2
  <2> DEFINE f == [i \in 0 .. k |-> IF i = k THEN F[<<k, g[k - 1]>>] ELSE g[i]]
  <2>2. g[k - 1] \in S
    OBVIOUS
  <2>3. f \in [0 .. k -> S]
    BY <2>2
  <2>4. f[0] = b
    BY <2>1
  <2>5. ASSUME NEW i \in 1 .. k PROVE f[i] = F[<<i, f[i - 1]>>]
    <3>1. CASE i = k
      <4>1. f[k] = F[<<k, g[k - 1]>>] /\ f[k - 1] = g[k - 1]
        OBVIOUS
      <4> QED
        BY <3>1, <4>1, Zenon
    <3>2. CASE i # k
      <4>1. i \in 1 .. k - 1 /\ f[i] = g[i] /\ f[i - 1] = g[i - 1]
        BY <3>2
      <4> QED
        BY <4>1, <2>1
    <3> QED
      BY <3>1, <3>2
  <2> HIDE DEF f
  <2>6. Upto(k)
    BY <2>3, <2>4, <2>5
  <2> QED
    BY <2>6
<1>3. T \in SUBSET (0 .. n)
  OBVIOUS
<1> HIDE DEF T
<1>4. n \in T
  BY <1>1, <1>2, <1>3, Climbs
<1> QED
  BY <1>4 DEF T, Runs

-----------------------------------------------------------------------------
(* The zone map. *)

(* Table e holds what d held, where d held it, and otherwise only blocks d had
   not allocated. *)
Grows(d, e) ==
    /\ DOMAIN d.phys \subseteq DOMAIN e.phys
    /\ \A l \in DOMAIN d.phys : e.phys[l] = d.phys[l]
    /\ \A l \in DOMAIN e.phys \ DOMAIN d.phys : d.free <= l
    /\ DOMAIN d.located \subseteq DOMAIN e.located
    /\ \A h \in DOMAIN d.located : e.located[h] = d.located[h]
    /\ d.free <= e.free
    /\ e.reads = d.reads
    /\ \A p \in Places : p[2] < d.wp[p[1]] => p[2] < e.wp[p[1]] /\ e.media[p] = d.media[p]

LEMMA CapacityIsNat == Capacity \in Nat
<1>1. Cardinality(Zones) \in Nat
  BY CollectAssumption, FS_CardinalityType DEF CollectAssumption
<1> QED
  BY <1>1, CollectAssumption DEF Capacity, CollectAssumption

LEMMA PartialMeans ==
    ASSUME NEW A, NEW B, NEW f
    PROVE  f \in Partial(A, B) <=> DOMAIN f \subseteq A /\ f \in [DOMAIN f -> B]
  BY DEF Partial

(* g is f with x naming y. *)
Extends(f, g, x, y) ==
    DOMAIN g = DOMAIN f \cup {x} /\ g[x] = y /\ \A z \in DOMAIN f : z # x => g[z] = f[z]

LEMMA PartialExtends ==
    ASSUME NEW A, NEW B, NEW f, f \in Partial(A, B), NEW x \in A, NEW y \in B
    PROVE  Inserted(f, x, y) \in Partial(A, B) /\ Extends(f, Inserted(f, x, y), x, y)
<1>1. DOMAIN f \subseteq A /\ f \in [DOMAIN f -> B]
  BY PartialMeans
<1>2. /\ DOMAIN Inserted(f, x, y) = DOMAIN f \cup {x} /\ Inserted(f, x, y)[x] = y
      /\ \A z \in DOMAIN f : z # x => Inserted(f, x, y)[z] = f[z]
  BY DEF Inserted
<1>3. Inserted(f, x, y) \in [DOMAIN f \cup {x} -> B]
  BY <1>1 DEF Inserted
<1> QED
  BY <1>1, <1>2, <1>3, PartialMeans DEF Extends

(* g is f without the keys of X. *)
Shrinks(f, g, X) ==
    DOMAIN g = DOMAIN f \ X /\ \A z \in DOMAIN g : g[z] = f[z]

LEMMA PartialShrinks ==
    ASSUME NEW A, NEW B, NEW f, f \in Partial(A, B), NEW X
    PROVE  /\ Restrict(f, DOMAIN f \ X) \in Partial(A, B)
           /\ Shrinks(f, Restrict(f, DOMAIN f \ X), X)
<1> DEFINE g == Restrict(f, DOMAIN f \ X)
<1>1. DOMAIN f \subseteq A /\ f \in [DOMAIN f -> B]
  BY PartialMeans
<1>2. /\ DOMAIN g = DOMAIN f \ X /\ \A z \in DOMAIN g : g[z] = f[z]
      /\ g \in [DOMAIN f \ X -> B]
  BY <1>1 DEF Restrict
<1> HIDE DEF g
<1>3. g \in Partial(A, B)
  BY <1>1, <1>2, PartialMeans
<1> QED
  BY <1>2, <1>3 DEF Shrinks, g

LEMMA GrowsReflexive ==
    ASSUME NEW d, d \in Disks
    PROVE  Grows(d, d)
  BY DEF Grows, Disks

LEMMA GrowsTransitive ==
    ASSUME NEW d, NEW e, NEW f, d \in Disks, e \in Disks, f \in Disks, Grows(d, e), Grows(e, f)
    PROVE  Grows(d, f)
<1>1. d.free <= f.free
  BY CapacityIsNat DEF Grows, Disks
<1>2. ASSUME NEW l \in DOMAIN f.phys \ DOMAIN d.phys PROVE d.free <= l
  <2>1. CASE l \in DOMAIN e.phys
    BY <1>2, <2>1, Zenon DEF Grows
  <2>2. CASE l \notin DOMAIN e.phys
    <3>1. d.free <= e.free /\ e.free <= l
      BY <1>2, <2>2 DEF Grows
    <3>2. l \in Logical
      BY <1>2, PartialMeans DEF Disks
    <3> QED
      BY <3>1, <3>2, CapacityIsNat DEF Disks, Logical
  <2> QED
    BY <2>1, <2>2
<1> QED
  BY <1>1, <1>2, Zenon DEF Grows

LEMMA OpenZoneOK ==
    ASSUME NEW d, DiskOK(d)
    PROVE  LET e == OpenZone(d) IN
           /\ DiskOK(e)
           /\ e.phys = d.phys /\ e.copies = d.copies /\ e.media = d.media /\ e.wp = d.wp
           /\ e.located = d.located /\ e.free = d.free /\ e.reads = d.reads
           /\ e.open # None => e.wp[e.open] = 0
<1> DEFINE frees == FreeZones(d)
           sealed == IF d.open = None THEN d.state ELSE [d.state EXCEPT ![d.open] = "sealed"]
           m == Min(frees)
           e == OpenZone(d)
<1>1. d \in Disks
  BY DEF DiskOK
<1>2. sealed \in [Zones -> States]
  BY <1>1 DEF Disks, States
<1>3. CASE frees = {}
  <2>1. e = [d EXCEPT !.state = sealed, !.open = None]
    BY <1>3, Zenon DEF OpenZone
  <2>2. /\ e \in Disks /\ e.open = None /\ e.state = sealed
        /\ e.phys = d.phys /\ e.copies = d.copies /\ e.media = d.media /\ e.wp = d.wp
        /\ e.located = d.located /\ e.free = d.free /\ e.reads = d.reads
    BY <1>1, <1>2, <2>1, Zenon DEF Disks
  <2>3. \A z \in Zones : sealed[z] = "free" => d.state[z] = "free"
    BY <1>1 DEF Disks
  <2> HIDE DEF e, sealed
  <2>4. DiskOK(e)
    BY <2>2, <2>3, Zenon DEF DiskOK, Sits
  <2> QED
    BY <2>2, <2>4 DEF e
<1>4. CASE frees # {}
  <2>1. m \in frees
    <3>1. frees \subseteq Nat
      BY CollectAssumption, Zenon DEF FreeZones, CollectAssumption
    <3>2. \E x \in frees : \A y \in frees : x =< y
      BY <3>1, <1>4, LeastExists
    <3> QED
      BY <3>2, Zenon DEF Min
  <2>2. m \in Zones /\ d.state[m] = "free"
    BY <2>1 DEF FreeZones
  <2>3. e = [d EXCEPT !.state = [sealed EXCEPT ![m] = "open"], !.open = m]
    BY <1>4, Zenon DEF OpenZone
  <2> DEFINE opened == [sealed EXCEPT ![m] = "open"]
  <2>4. opened \in [Zones -> States] /\ opened[m] = "open"
    BY <1>2, <2>2 DEF States
  <2>5. \A z \in Zones : opened[z] = "free" => d.state[z] = "free"
    BY <1>1, <2>2 DEF Disks
  <2> HIDE DEF opened, sealed, m
  <2>6. /\ e \in Disks /\ e.open = m /\ e.state = opened
        /\ e.phys = d.phys /\ e.copies = d.copies /\ e.media = d.media /\ e.wp = d.wp
        /\ e.located = d.located /\ e.free = d.free /\ e.reads = d.reads
    BY <1>1, <2>2, <2>3, <2>4, Zenon DEF Disks, opened
  <2> HIDE DEF e
  <2>7. DiskOK(e)
    <3>1. \A x, q : Sits(e, x, q) <=> Sits(d, x, q)
      BY <2>6, Zenon DEF Sits
    <3>2. \A z \in Zones : e.state[z] = "free" => e.wp[z] = 0
      BY <2>5, <2>6, Zenon DEF DiskOK
    <3>3. e.state[e.open] = "open"
      BY <2>4, <2>6
    <3> QED
      BY <2>6, <3>1, <3>2, <3>3, Zenon DEF DiskOK
  <2>8. e.wp[e.open] = 0
    BY <2>2, <2>6 DEF DiskOK
  <2> QED
    BY <2>6, <2>7, <2>8 DEF e
<1> QED
  BY <1>3, <1>4

(* The disk e differs from d in its states and its open zone at most. *)
SameBlocks(d, e) ==
    /\ e.phys = d.phys /\ e.copies = d.copies /\ e.media = d.media /\ e.wp = d.wp
    /\ e.located = d.located /\ e.free = d.free /\ e.reads = d.reads

LEMMA RoomOK ==
    ASSUME NEW d, DiskOK(d)
    PROVE  /\ DiskOK(Room(d)) /\ SameBlocks(d, Room(d))
           /\ Room(d).open # None => Room(d).wp[Room(d).open] < ZoneBlocks
<1>1. CASE d.open = None \/ d.wp[d.open] = ZoneBlocks
  <2>1. Room(d) = OpenZone(d)
    BY <1>1, Zenon DEF Room
  <2>2. 0 < ZoneBlocks
    BY CollectAssumption DEF CollectAssumption
  <2> QED
    BY <2>1, <2>2, OpenZoneOK, Zenon DEF SameBlocks
<1>2. CASE ~(d.open = None \/ d.wp[d.open] = ZoneBlocks)
  <2>1. Room(d) = d
    BY <1>2, Zenon DEF Room
  <2>2. d.open \in Zones
    BY <1>2 DEF DiskOK, Disks
  <2>3. d.wp[d.open] \in 0 .. ZoneBlocks
    BY <2>2 DEF DiskOK, Disks
  <2>4. d.wp[d.open] < ZoneBlocks
    BY <1>2, <2>3, CollectAssumption DEF CollectAssumption
  <2> QED
    BY <2>1, <2>4, Zenon DEF SameBlocks
<1> QED
  BY <1>1, <1>2

LEMMA PlaceIsPair ==
    ASSUME NEW p \in Places
    PROVE  p = <<p[1], p[2]>> /\ p[1] \in Zones /\ p[2] \in 0 .. ZoneBlocks - 1
  BY DEF Places

(* The disk e is d with the block l appended at p. *)
AppendedAs(d, e, l, p) ==
    /\ DiskOK(e) /\ p \in Places /\ Sits(e, l, p)
    /\ e.phys = d.phys /\ e.copies = d.copies
    /\ e.located = d.located /\ e.free = d.free /\ e.reads = d.reads
    /\ \A q \in Places : q[2] < d.wp[q[1]] =>
          q # p /\ q[2] < e.wp[q[1]] /\ e.media[q] = d.media[q]

LEMMA AppendedOK ==
    ASSUME NEW d, DiskOK(d), d.open # None, d.wp[d.open] < ZoneBlocks, NEW l \in Logical
    PROVE  AppendedAs(d, Appended(d, l), l, AppendAt(d))
<1> DEFINE z == d.open
           p == AppendAt(d)
           e == Appended(d, l)
<1>1. d \in Disks /\ z \in Zones
  BY DEF DiskOK, Disks
<1>2. d.wp[z] \in 0 .. ZoneBlocks - 1
  <2>1. d.wp[z] \in 0 .. ZoneBlocks
    BY <1>1 DEF Disks
  <2> QED
    BY <2>1, CollectAssumption DEF CollectAssumption
<1>3. p = <<z, d.wp[z]>> /\ p \in Places /\ p[1] = z /\ p[2] = d.wp[z]
  BY <1>1, <1>2 DEF AppendAt, Places
<1>4. e = [d EXCEPT !.media = [d.media EXCEPT ![p] = l], !.wp = [d.wp EXCEPT ![z] = d.wp[z] + 1]]
  BY DEF Appended
<1> HIDE DEF p, e, z
<1>5. /\ e \in Disks
      /\ e.state = d.state /\ e.open = d.open /\ e.phys = d.phys /\ e.copies = d.copies
      /\ e.located = d.located /\ e.free = d.free /\ e.reads = d.reads
      /\ e.media = [d.media EXCEPT ![p] = l] /\ e.wp = [d.wp EXCEPT ![z] = d.wp[z] + 1]
  <2>1. [d.wp EXCEPT ![z] = d.wp[z] + 1] \in [Zones -> 0 .. ZoneBlocks]
    <3>1. d.wp[z] + 1 \in 0 .. ZoneBlocks
      BY <1>2, CollectAssumption DEF CollectAssumption
    <3> QED
      BY <1>1, <3>1 DEF Disks
  <2>2. [d.media EXCEPT ![p] = l] \in [Places -> Logical \cup {None}]
    BY <1>1, <1>3 DEF Disks
  <2> QED
    BY <1>1, <1>4, <2>1, <2>2, Zenon DEF Disks
<1>6. ASSUME NEW q \in Places, q[2] < d.wp[q[1]]
      PROVE  q # p /\ q[2] < e.wp[q[1]] /\ e.media[q] = d.media[q]
  <2>1. q[1] \in Zones /\ q[2] \in Nat /\ d.wp[q[1]] \in Nat
    BY <1>1, PlaceIsPair, CollectAssumption DEF Disks, CollectAssumption
  <2>2. q # p
    BY <1>3, <1>6, <2>1
  <2>3. e.media[q] = d.media[q]
    BY <1>1, <1>5, <2>2 DEF Disks
  <2>4. q[2] < e.wp[q[1]]
    BY <1>1, <1>5, <1>6, <2>1 DEF Disks
  <2> QED
    BY <2>2, <2>3, <2>4
<1>7. Sits(e, l, p)
  <2>1. e.media[p] = l
    BY <1>1, <1>3, <1>5 DEF Disks
  <2>2. e.wp[z] = d.wp[z] + 1
    BY <1>1, <1>5 DEF Disks
  <2> QED
    BY <1>2, <1>3, <2>1, <2>2 DEF Sits
<1>8. DiskOK(e)
  <2>1. \A x \in Zones : e.state[x] = "free" => e.wp[x] = 0
    <3>1. d.state[z] = "open" /\ z = d.open
      BY DEF DiskOK, z
    <3> QED
      BY <1>1, <1>5, <3>1 DEF DiskOK, Disks
  <2>2. \A x \in DOMAIN d.phys : d.phys[x] \in Places
    BY <1>1, PartialMeans DEF Disks
  <2>3. \A x \in DOMAIN d.copies : d.copies[x] \in Places
    BY <1>1, PartialMeans DEF Disks
  <2>4. \A x : \A q \in Places : Sits(d, x, q) => Sits(e, x, q)
    BY <1>6 DEF Sits
  <2> QED
    BY <1>5, <2>1, <2>2, <2>3, <2>4, Zenon DEF DiskOK
<1> QED
  BY <1>3, <1>5, <1>6, <1>7, <1>8, Zenon DEF AppendedAs, e, p

-----------------------------------------------------------------------------
(* Putting blobs. *)

Accs == {a \in [disk: Disks, ok: BOOLEAN] : DiskOK(a.disk)}

(* b follows a by writing the blocks of X, or fewer when b is not ok. *)
WroteAs(a, b, X) ==
    /\ b \in Accs /\ Grows(a.disk, b.disk)
    /\ b.disk.located = a.disk.located /\ b.disk.free = a.disk.free
    /\ b.ok => a.ok /\ X \subseteq DOMAIN b.disk.phys

LEMMA AccMeans ==
    ASSUME NEW a
    PROVE  a \in Accs <=> a \in [disk: Disks, ok: BOOLEAN] /\ DiskOK(a.disk)
  BY DEF Accs

LEMMA AccMakes ==
    ASSUME NEW d, DiskOK(d), NEW k \in BOOLEAN
    PROVE  /\ [disk |-> d, ok |-> k] \in Accs
           /\ [disk |-> d, ok |-> k].disk = d /\ [disk |-> d, ok |-> k].ok = k
  BY DEF Accs, DiskOK

LEMMA SameGrows ==
    ASSUME NEW d, NEW e, DiskOK(d), DiskOK(e), SameBlocks(d, e)
    PROVE  Grows(d, e)
<1>1. d.free <= d.free
  BY CapacityIsNat DEF DiskOK, Disks
<1> QED
  BY <1>1, Zenon DEF Grows, SameBlocks

(* The disk e once the block l, just appended at p, is entered in the table. *)
LEMMA EnteredOK ==
    ASSUME NEW d, DiskOK(d), NEW e, NEW l \in Logical, NEW p, AppendedAs(d, e, l, p),
           l \notin DOMAIN d.phys, d.free <= l
    PROVE  LET f == [e EXCEPT !.phys = Inserted(e.phys, l, p)]
           IN  /\ DiskOK(f) /\ Grows(d, f) /\ f.located = d.located /\ f.free = d.free
               /\ l \in DOMAIN f.phys
<1> DEFINE t == Inserted(e.phys, l, p)
           f == [e EXCEPT !.phys = t]
<1>1. e \in Disks /\ p \in Places /\ e.phys = d.phys
  BY DEF AppendedAs, DiskOK
<1>2. e.phys \in Partial(Logical, Places)
  BY <1>1 DEF Disks
<1>3. /\ t \in Partial(Logical, Places)
      /\ DOMAIN t = DOMAIN d.phys \cup {l} /\ t[l] = p
      /\ \A x \in DOMAIN d.phys : x # l => t[x] = d.phys[x]
  <2>1. /\ t \in Partial(Logical, Places)
        /\ DOMAIN t = DOMAIN e.phys \cup {l} /\ t[l] = p
        /\ \A x \in DOMAIN e.phys : x # l => t[x] = e.phys[x]
    <3>1. p \in Places
      BY <1>1
    <3> QED
      <4>1. t \in Partial(Logical, Places) /\ Extends(e.phys, t, l, p)
        BY <1>2, <3>1, PartialExtends
      <4> QED
        BY <4>1, Zenon DEF Extends
  <2> QED
    BY <1>1, <2>1, Zenon
<1> HIDE DEF t
<1>4. /\ f \in Disks /\ f.phys = t
      /\ f.state = e.state /\ f.wp = e.wp /\ f.open = e.open /\ f.copies = e.copies
      /\ f.media = e.media /\ f.located = e.located /\ f.free = e.free /\ f.reads = e.reads
  BY <1>1, <1>3 DEF Disks
<1> HIDE DEF f
<1>5. \A x, q : Sits(f, x, q) <=> Sits(e, x, q)
  BY <1>4, Zenon DEF Sits
<1>6. DiskOK(e) /\ Sits(e, l, p)
  BY DEF AppendedAs
<1>7. \A x \in DOMAIN t : Sits(f, x, t[x])
  <2> SUFFICES ASSUME NEW x \in DOMAIN t PROVE Sits(f, x, t[x])
    OBVIOUS
  <2>1. CASE x = l
    BY <1>3, <1>5, <1>6, <2>1, Zenon
  <2>2. CASE x # l
    BY <1>1, <1>3, <1>5, <1>6, <2>2, Zenon DEF DiskOK
  <2> QED
    BY <2>1, <2>2
<1>8. DiskOK(f)
  BY <1>4, <1>5, <1>6, <1>7, Zenon DEF DiskOK
<1>9. Grows(d, f)
  <2>1. d.free <= d.free
    BY CapacityIsNat DEF DiskOK, Disks
  <2>2. \A x \in DOMAIN d.phys : x # l
    OBVIOUS
  <2>3. \A x \in DOMAIN t \ DOMAIN d.phys : d.free <= x
    BY <1>3
  <2> QED
    BY <1>3, <1>4, <2>1, <2>2, <2>3, Zenon DEF Grows, AppendedAs
<1>10. f.located = d.located /\ f.free = d.free
  BY <1>4, Zenon DEF AppendedAs
<1> QED
  BY <1>3, <1>4, <1>8, <1>9, <1>10 DEF f, t

LEMMA WriteBlockOK ==
    ASSUME NEW a \in Accs, NEW l \in Logical, a.disk.free <= l
    PROVE  WroteAs(a, WriteBlock(a, l), {l})
<1> DEFINE d == Room(a.disk)
           b == WriteBlock(a, l)
<1>1. DiskOK(a.disk) /\ a.disk \in Disks /\ a \in [disk: Disks, ok: BOOLEAN]
  BY AccMeans DEF DiskOK
<1>2. CASE ~a.ok \/ l \in DOMAIN a.disk.phys
  <2>1. b = [a EXCEPT !.ok = FALSE]
    BY <1>2, Zenon DEF WriteBlock
  <2>2. b.disk = a.disk /\ ~b.ok /\ b \in [disk: Disks, ok: BOOLEAN]
    BY <1>1, <2>1, Zenon
  <2> HIDE DEF b
  <2>3. b \in Accs
    BY <1>1, <2>2, AccMeans
  <2> QED
    BY <1>1, <2>2, <2>3, GrowsReflexive DEF WroteAs, b
<1>3. CASE ~(~a.ok \/ l \in DOMAIN a.disk.phys)
  <2>1. /\ DiskOK(d) /\ SameBlocks(a.disk, d)
        /\ d.open # None => d.wp[d.open] < ZoneBlocks
    BY <1>1, RoomOK
  <2>2. Grows(a.disk, d)
    BY <1>1, <2>1, SameGrows
  <2>3. CASE d.open = None
    <3>1. b = [disk |-> d, ok |-> FALSE]
      BY <1>3, <2>3, Zenon DEF WriteBlock
    <3> HIDE DEF b, d
    <3>2. b \in Accs /\ b.disk = d /\ ~b.ok
      BY <2>1, <3>1, AccMakes, Zenon
    <3> QED
      BY <2>1, <2>2, <3>2 DEF WroteAs, SameBlocks, b
  <2>4. CASE d.open # None
    <3> DEFINE e == Appended(d, l)
               p == AppendAt(d)
               f == [e EXCEPT !.phys = Inserted(e.phys, l, p)]
    <3>1. b = [disk |-> f, ok |-> TRUE]
      BY <1>3, <2>4, Zenon DEF WriteBlock
    <3>2. AppendedAs(d, e, l, p)
      BY <2>1, <2>4, AppendedOK
    <3>3. l \notin DOMAIN d.phys /\ d.free <= l
      BY <1>3, <2>1 DEF SameBlocks
    <3> HIDE DEF b, d, e, p
    <3>4. DiskOK(f) /\ Grows(d, f) /\ f.located = d.located /\ f.free = d.free /\ l \in DOMAIN f.phys
      BY <2>1, <3>2, <3>3, EnteredOK
    <3> HIDE DEF f
    <3>5. b \in Accs /\ b.disk = f /\ b.ok
      BY <3>1, <3>4, AccMakes, Zenon
    <3>6. Grows(a.disk, f)
      BY <1>1, <2>1, <2>2, <3>4, GrowsTransitive DEF DiskOK
    <3> QED
      BY <1>3, <2>1, <3>4, <3>5, <3>6 DEF WroteAs, SameBlocks, b
  <2> QED
    BY <2>3, <2>4
<1> QED
  BY <1>2, <1>3

LEMMA WroteTransitive ==
    ASSUME NEW a \in Accs, NEW b \in Accs, NEW c, NEW X, NEW Y, WroteAs(a, b, X), WroteAs(b, c, Y)
    PROVE  WroteAs(a, c, X \cup Y)
<1>1. a.disk \in Disks /\ b.disk \in Disks /\ c \in Accs /\ c.disk \in Disks
  BY AccMeans DEF WroteAs, DiskOK
<1>2. Grows(a.disk, c.disk)
  BY <1>1, GrowsTransitive DEF WroteAs
<1>3. X \subseteq DOMAIN b.disk.phys => X \subseteq DOMAIN c.disk.phys
  BY DEF WroteAs, Grows
<1> QED
  BY <1>1, <1>2, <1>3 DEF WroteAs

LEMMA WrittenOK ==
    ASSUME NEW a \in Accs, NEW from \in Logical, NEW n \in Nat, from .. from + n - 1 \subseteq Logical,
           a.disk.free <= from
    PROVE  WroteAs(a, Written(a, from, n), from .. from + n - 1)
<1> DEFINE A == {b \in Accs : b.disk.free = a.disk.free}
           F == [x \in (1 .. n) \X A |-> WriteBlock(x[2], from + x[1] - 1)]
           Next1(w) == [i \in 0 .. n |-> IF i = 0 THEN a ELSE WriteBlock(w[i - 1], from + i - 1)]
           W == CHOOSE w : w = Next1(w)
<1>1. Written(a, from, n) = W[n]
  BY Zenon DEF Written
<1>2. \A i \in 1 .. n : from + i - 1 \in Logical
  <2>1. from \in Nat
    BY CapacityIsNat DEF Logical
  <2> QED
    BY <2>1
<1>a. \A i \in 1 .. n : a.disk.free <= from + i - 1
  <2>1. a.disk.free \in Nat /\ from \in Nat
    BY AccMeans, CapacityIsNat DEF Logical, DiskOK, Disks
  <2> QED
    BY <2>1
<1>b. \A b \in A, i \in 1 .. n :
         WriteBlock(b, from + i - 1) \in A /\ WroteAs(b, WriteBlock(b, from + i - 1), {from + i - 1})
  <2> SUFFICES ASSUME NEW b \in A, NEW i \in 1 .. n
               PROVE  /\ WriteBlock(b, from + i - 1) \in A
                      /\ WroteAs(b, WriteBlock(b, from + i - 1), {from + i - 1})
    BY Zenon
  <2>1. from + i - 1 \in Logical /\ b.disk.free <= from + i - 1 /\ b \in Accs
    BY <1>2, <1>a
  <2>2. WroteAs(b, WriteBlock(b, from + i - 1), {from + i - 1})
    BY <2>1, WriteBlockOK
  <2> QED
    BY <2>2 DEF WroteAs
<1>c. a \in A
  OBVIOUS
<1>d. A \subseteq Accs
  OBVIOUS
<1> HIDE DEF A
<1>3. F \in [(1 .. n) \X A -> A]
  <2>1. ASSUME NEW x \in (1 .. n) \X A PROVE WriteBlock(x[2], from + x[1] - 1) \in A
    <3>1. x[1] \in 1 .. n /\ x[2] \in A
      OBVIOUS
    <3> QED
      BY <1>b, <3>1, Zenon
  <2> QED
    BY <2>1, Zenon
<1>4. PICK g \in [0 .. n -> A] : g[0] = a /\ \A i \in 1 .. n : g[i] = F[<<i, g[i - 1]>>]
  <2> HIDE DEF F
  <2>1. \E g \in [0 .. n -> A] : Runs(g, n, a, F)
    BY <1>3, <1>c, Recursion, Zenon
  <2> QED
    BY <2>1, Zenon DEF Runs
<1>5. \A i \in 1 .. n : g[i] = WriteBlock(g[i - 1], from + i - 1)
  <2> SUFFICES ASSUME NEW i \in 1 .. n PROVE g[i] = WriteBlock(g[i - 1], from + i - 1)
    OBVIOUS
  <2>1. g[i - 1] \in A
    OBVIOUS
  <2>2. F[<<i, g[i - 1]>>] = WriteBlock(g[i - 1], from + i - 1)
    BY <2>1
  <2> QED
    BY <1>4, <2>2, Zenon
<1>6. g = Next1(g)
  <2>1. \A i \in 0 .. n : i # 0 => i \in 1 .. n
    OBVIOUS
  <2>2. \A i \in 0 .. n : g[i] = IF i = 0 THEN a ELSE WriteBlock(g[i - 1], from + i - 1)
    BY <1>4, <1>5, <2>1, Zenon
  <2>3. g = [i \in 0 .. n |-> g[i]]
    BY <1>4, Zenon
  <2> QED
    BY <2>2, <2>3, Zenon
<1>7. W = Next1(W)
  BY <1>6, Zenon
<1> HIDE DEF W
<1>8. \A i \in 0 .. n : W[i] = IF i = 0 THEN a ELSE WriteBlock(W[i - 1], from + i - 1)
  BY <1>7, Zenon
<1> DEFINE T == {i \in 0 .. n : WroteAs(a, W[i], from .. from + i - 1)}
<1>9. 0 \in T
  <2>1. W[0] = a
    BY <1>8
  <2>2. from .. from + 0 - 1 = {}
    BY CapacityIsNat DEF Logical
  <2>3. Grows(a.disk, a.disk)
    BY AccMeans, GrowsReflexive DEF DiskOK
  <2>4. WroteAs(a, W[0], from .. from + 0 - 1)
    BY <2>1, <2>2, <2>3 DEF WroteAs
  <2> QED
    BY <2>4
<1>10. ASSUME NEW i \in 1 .. n, i - 1 \in T PROVE i \in T
  <2>1. WroteAs(a, W[i - 1], from .. from + (i - 1) - 1)
    BY <1>10
  <2>2. W[i - 1] \in Accs /\ W[i - 1] \in A
    BY <2>1 DEF WroteAs, A
  <2>3. W[i] = WriteBlock(W[i - 1], from + i - 1)
    BY <1>8
  <2>4. WroteAs(W[i - 1], W[i], {from + i - 1})
    BY <1>b, <2>2, <2>3
  <2>5. WroteAs(a, W[i], (from .. from + (i - 1) - 1) \cup {from + i - 1})
    BY <2>1, <2>2, <2>4, WroteTransitive, Zenon
  <2>6. (from .. from + (i - 1) - 1) \cup {from + i - 1} = from .. from + i - 1
    BY CapacityIsNat DEF Logical
  <2>7. WroteAs(a, W[i], from .. from + i - 1)
    BY <2>5, <2>6, Zenon
  <2>8. i \in 0 .. n
    OBVIOUS
  <2> QED
    BY <2>7, <2>8, Zenon
<1> HIDE DEF T
<1>11. \A i \in 0 .. n : i \in T
  <2>1. T \in SUBSET (0 .. n)
    BY DEF T
  <2> QED
    BY <1>9, <1>10, <2>1, Climbs, Zenon
<1> QED
  BY <1>1, <1>11 DEF T

(* What e locates and d did not is mapped, and lies above what d allocated. *)
Fresh(d, e) ==
    \A x \in DOMAIN e.located \ DOMAIN d.located :
        Extent(e, x) \subseteq DOMAIN e.phys /\ d.free <= e.located[x]

(* b follows a by putting the blob h, or part of it when b is not ok. *)
PutAs(a, b, h) ==
    /\ b \in Accs /\ Grows(a.disk, b.disk) /\ Fresh(a.disk, b.disk)
    /\ b.ok => a.ok /\ h \in DOMAIN b.disk.located

LEMMA LocatedMeans ==
    ASSUME NEW d \in Disks, NEW h \in DOMAIN d.located
    PROVE  h \in Blobs /\ d.located[h] \in Logical /\ d.located[h] \in Nat /\ Size[h] \in Nat \ {0}
<1>1. h \in Blobs /\ d.located[h] \in Logical
  BY PartialMeans DEF Disks
<1>2. d.located[h] \in Nat
  BY <1>1, CapacityIsNat DEF Logical
<1>3. Size[h] \in Nat \ {0}
  BY <1>1, CollectAssumption DEF CollectAssumption
<1> QED
  BY <1>1, <1>2, <1>3

LEMMA FreshReflexive ==
    ASSUME NEW d, NEW e, e.located = d.located
    PROVE  Fresh(d, e)
  BY DEF Fresh

LEMMA FreshTransitive ==
    ASSUME NEW d \in Disks, NEW e \in Disks, NEW f \in Disks, Grows(d, e), Grows(e, f),
           Fresh(d, e), Fresh(e, f)
    PROVE  Fresh(d, f)
<1> SUFFICES ASSUME NEW x \in DOMAIN f.located \ DOMAIN d.located
             PROVE  Extent(f, x) \subseteq DOMAIN f.phys /\ d.free <= f.located[x]
  BY DEF Fresh
<1>1. CASE x \in DOMAIN e.located
  <2>1. Extent(e, x) \subseteq DOMAIN e.phys /\ d.free <= e.located[x]
    BY <1>1, Zenon DEF Fresh
  <2>2. f.located[x] = e.located[x] /\ DOMAIN e.phys \subseteq DOMAIN f.phys
    BY <1>1, Zenon DEF Grows
  <2>3. Extent(f, x) = Extent(e, x)
    BY <2>2, Zenon DEF Extent
  <2> QED
    BY <2>1, <2>2, <2>3
<1>2. CASE x \notin DOMAIN e.located
  <2>1. Extent(f, x) \subseteq DOMAIN f.phys /\ e.free <= f.located[x]
    BY <1>2, Zenon DEF Fresh
  <2>2. d.free <= e.free
    BY DEF Grows
  <2>3. f.located[x] \in Nat
    BY LocatedMeans
  <2>4. d.free \in Nat /\ e.free \in Nat
    BY CapacityIsNat DEF Disks
  <2> QED
    BY <2>1, <2>2, <2>3, <2>4
<1> QED
  BY <1>1, <1>2

(* e follows d by entering the blob h, whose blocks are written, in the hash map. *)
LocatedAs(d, e, h) == DiskOK(e) /\ Grows(d, e) /\ Fresh(d, e) /\ h \in DOMAIN e.located

LEMMA LocatedOK ==
    ASSUME NEW d, DiskOK(d), NEW h \in Blobs, h \notin DOMAIN d.located,
           d.free + Size[h] <= 1 + Capacity, d.free .. d.free + Size[h] - 1 \subseteq DOMAIN d.phys
    PROVE  LocatedAs(d, [d EXCEPT !.located = Inserted(d.located, h, d.free),
                                  !.free = d.free + Size[h]], h)
<1> DEFINE t == Inserted(d.located, h, d.free)
           e == [d EXCEPT !.located = t, !.free = d.free + Size[h]]
<1>1. d \in Disks
  BY DEF DiskOK
<1>2. Size[h] \in Nat \ {0} /\ d.free \in Nat \ {0} /\ Capacity \in Nat
  BY <1>1, CapacityIsNat, CollectAssumption DEF Disks, CollectAssumption
<1>3. d.free \in Logical /\ d.free + Size[h] \in 1 .. Capacity + 1
  BY <1>2 DEF Logical
<1>4. t \in Partial(Blobs, Logical) /\ Extends(d.located, t, h, d.free)
  <2>1. d.located \in Partial(Blobs, Logical)
    BY <1>1 DEF Disks
  <2> QED
    BY <1>3, <2>1, PartialExtends
<1> HIDE DEF t
<1>5. /\ e \in Disks /\ e.located = t /\ e.free = d.free + Size[h]
      /\ e.state = d.state /\ e.wp = d.wp /\ e.open = d.open /\ e.copies = d.copies
      /\ e.media = d.media /\ e.phys = d.phys /\ e.reads = d.reads
  BY <1>1, <1>3, <1>4, Zenon DEF Disks
<1> HIDE DEF e
<1>6. /\ DOMAIN t = DOMAIN d.located \cup {h} /\ t[h] = d.free
      /\ \A x \in DOMAIN d.located : t[x] = d.located[x]
  BY <1>4 DEF Extends
<1>7. \A x \in DOMAIN t : t[x] + Size[x] <= e.free
  <2> SUFFICES ASSUME NEW x \in DOMAIN t PROVE t[x] + Size[x] <= e.free
    OBVIOUS
  <2>1. CASE x = h
    BY <1>2, <1>5, <1>6, <2>1
  <2>2. CASE x # h
    <3>1. x \in DOMAIN d.located /\ t[x] = d.located[x]
      BY <1>6, <2>2
    <3>2. d.located[x] + Size[x] <= d.free
      BY <3>1, Zenon DEF DiskOK
    <3>3. d.located[x] \in Nat /\ Size[x] \in Nat
      BY <1>1, <3>1, LocatedMeans
    <3> QED
      BY <1>2, <1>5, <3>1, <3>2, <3>3
  <2> QED
    BY <2>1, <2>2
<1>8. \A x, q : Sits(e, x, q) <=> Sits(d, x, q)
  BY <1>5, Zenon DEF Sits
<1>9. DiskOK(e)
  BY <1>5, <1>7, <1>8, Zenon DEF DiskOK
<1>10. d.free <= e.free
  BY <1>2, <1>5
<1>11. Grows(d, e)
  BY <1>5, <1>6, <1>10, Zenon DEF Grows
<1>12. Fresh(d, e)
  <2>1. Extent(e, h) = d.free .. d.free + Size[h] - 1
    BY <1>5, <1>6, Zenon DEF Extent
  <2>2. d.free <= e.located[h]
    BY <1>2, <1>5, <1>6
  <2> QED
    BY <1>5, <1>6, <2>1, <2>2, Zenon DEF Fresh
<1> QED
  BY <1>5, <1>6, <1>9, <1>11, <1>12 DEF LocatedAs, e, t

LEMMA PutOK ==
    ASSUME NEW a \in Accs, NEW h \in Blobs
    PROVE  PutAs(a, Put(a, h), h)
<1> DEFINE from == a.disk.free
           wrote == Written(a, from, Size[h])
           b == Put(a, h)
<1>1. DiskOK(a.disk) /\ a.disk \in Disks /\ a \in [disk: Disks, ok: BOOLEAN]
  BY AccMeans DEF DiskOK
<1>2. Size[h] \in Nat \ {0} /\ from \in Nat \ {0} /\ Capacity \in Nat
  BY <1>1, CapacityIsNat, CollectAssumption DEF Disks, CollectAssumption
<1>3. Grows(a.disk, a.disk) /\ Fresh(a.disk, a.disk)
  BY <1>1, GrowsReflexive, FreshReflexive
<1>4. CASE ~a.ok \/ h \in DOMAIN a.disk.located
  <2>1. b = a
    BY <1>4, Zenon DEF Put
  <2> QED
    BY <1>3, <1>4, <2>1, Zenon DEF PutAs
<1>5. CASE ~(~a.ok \/ h \in DOMAIN a.disk.located) /\ from + Size[h] > 1 + Capacity
  <2>1. b = [a EXCEPT !.ok = FALSE]
    BY <1>5, Zenon DEF Put
  <2>2. b.disk = a.disk /\ ~b.ok /\ b \in [disk: Disks, ok: BOOLEAN]
    BY <1>1, <2>1, Zenon
  <2> HIDE DEF b
  <2>3. b \in Accs
    BY <1>1, <2>2, AccMeans
  <2> QED
    BY <1>3, <2>2, <2>3 DEF PutAs, b
<1>6. CASE ~(~a.ok \/ h \in DOMAIN a.disk.located) /\ ~(from + Size[h] > 1 + Capacity)
  <2>1. from \in Logical /\ from .. from + Size[h] - 1 \subseteq Logical /\ from <= from
    BY <1>2, <1>6 DEF Logical
  <2>2. WroteAs(a, wrote, from .. from + Size[h] - 1)
    BY <1>2, <2>1, WrittenOK
  <2> HIDE DEF wrote
  <2>3. wrote \in Accs /\ Grows(a.disk, wrote.disk) /\ wrote.disk.located = a.disk.located
        /\ wrote.disk.free = from
    BY <2>2 DEF WroteAs
  <2>4. Fresh(a.disk, wrote.disk)
    BY <2>3, FreshReflexive
  <2>5. CASE ~wrote.ok
    <3>1. b = wrote
      BY <1>6, <2>5, Zenon DEF Put, wrote
    <3> QED
      BY <2>3, <2>4, <2>5, <3>1, Zenon DEF PutAs
  <2>6. CASE wrote.ok
    <3> DEFINE e == [wrote.disk EXCEPT !.located = Inserted(wrote.disk.located, h, wrote.disk.free),
                                       !.free = wrote.disk.free + Size[h]]
    <3>1. b = [wrote EXCEPT !.disk.located = Inserted(@, h, from), !.disk.free = from + Size[h]]
      BY <1>6, <2>6, Zenon DEF Put, wrote
    <3>2. wrote.disk \in Disks /\ DiskOK(wrote.disk) /\ wrote \in [disk: Disks, ok: BOOLEAN]
      BY <2>3, AccMeans
    <3>3. b.disk = e /\ b.ok = wrote.ok /\ b = [disk |-> e, ok |-> TRUE]
      BY <2>3, <2>6, <3>1, <3>2, Zenon
    <3>4. from .. from + Size[h] - 1 \subseteq DOMAIN wrote.disk.phys
      BY <2>2, <2>6 DEF WroteAs
    <3>5. DiskOK(e) /\ Grows(wrote.disk, e) /\ Fresh(wrote.disk, e) /\ h \in DOMAIN e.located
      <4>1. /\ h \notin DOMAIN wrote.disk.located
            /\ wrote.disk.free + Size[h] <= 1 + Capacity
            /\ wrote.disk.free .. wrote.disk.free + Size[h] - 1 \subseteq DOMAIN wrote.disk.phys
        BY <1>2, <1>6, <2>3, <3>4
      <4>2. LocatedAs(wrote.disk, e, h)
        BY <3>2, <4>1, LocatedOK, Zenon
      <4> QED
        BY <4>2, Zenon DEF LocatedAs
    <3> HIDE DEF e, b
    <3>6. b \in Accs
      BY <3>3, <3>5, AccMakes, Zenon
    <3>7. e \in Disks
      BY <3>5 DEF DiskOK
    <3>8. Grows(a.disk, e) /\ Fresh(a.disk, e)
      BY <1>1, <2>3, <2>4, <3>2, <3>5, <3>7, GrowsTransitive, FreshTransitive
    <3> QED
      BY <1>6, <3>3, <3>5, <3>6, <3>8 DEF PutAs, b
  <2> QED
    BY <2>5, <2>6
<1> QED
  BY <1>4, <1>5, <1>6

(* b follows the disk d by putting the blobs of X, or some when b is not ok. *)
PutAllAs(d, b, X) ==
    /\ b \in Accs /\ Grows(d, b.disk) /\ Fresh(d, b.disk)
    /\ b.ok => X \subseteq DOMAIN b.disk.located

LEMMA PutAllStarts ==
    ASSUME NEW d, DiskOK(d)
    PROVE  [disk |-> d, ok |-> TRUE] \in Accs /\ PutAllAs(d, [disk |-> d, ok |-> TRUE], {})
<1>1. [disk |-> d, ok |-> TRUE] \in Accs /\ [disk |-> d, ok |-> TRUE].disk = d
  BY AccMakes, Zenon
<1>2. Grows(d, d) /\ Fresh(d, d)
  BY GrowsReflexive, FreshReflexive DEF DiskOK
<1> QED
  BY <1>1, <1>2, Zenon DEF PutAllAs

LEMMA PutAllSteps ==
    ASSUME NEW d, DiskOK(d), NEW a, NEW b, NEW X, NEW h, PutAllAs(d, a, X), PutAs(a, b, h)
    PROVE  PutAllAs(d, b, X \cup {h})
<1>1. d \in Disks /\ a.disk \in Disks /\ b.disk \in Disks
  BY AccMeans DEF DiskOK, PutAllAs, PutAs
<1>2. Grows(d, b.disk) /\ Fresh(d, b.disk)
  BY <1>1, GrowsTransitive, FreshTransitive DEF PutAllAs, PutAs
<1>3. DOMAIN a.disk.located \subseteq DOMAIN b.disk.located
  BY DEF PutAs, Grows
<1> QED
  BY <1>2, <1>3 DEF PutAllAs, PutAs

LEMMA PutObjectOK ==
    ASSUME NEW d, DiskOK(d), NEW o \in Objects
    PROVE  PutAllAs(d, PutObject(d, o), Range(Content[o]) \cup {o})
<1> DEFINE blobs == Append(Content[o], o)
           n == Len(blobs)
           a == [disk |-> d, ok |-> TRUE]
           F == [x \in (1 .. n) \X Accs |-> Put(x[2], blobs[x[1]])]
           Next1(w) == [i \in 0 .. n |-> IF i = 0 THEN a ELSE Put(w[i - 1], blobs[i])]
           W == CHOOSE w : w = Next1(w)
<1>1. PutObject(d, o) = W[n]
  BY Zenon DEF PutObject
<1>2. /\ n \in Nat /\ n = Len(Content[o]) + 1 /\ blobs[n] = o
      /\ \A i \in 1 .. n : blobs[i] \in Blobs
      /\ Range(Content[o]) \cup {o} = {blobs[i] : i \in 1 .. n}
  <2>1. Content[o] \in Seq(Chunks)
    BY CollectAssumption DEF CollectAssumption
  <2>2. /\ Len(blobs) = Len(Content[o]) + 1 /\ Len(Content[o]) \in Nat
        /\ \A i \in 1 .. Len(Content[o]) : blobs[i] = Content[o][i] /\ Content[o][i] \in Chunks
        /\ blobs[Len(Content[o]) + 1] = o
    BY <2>1
  <2>3. DOMAIN Content[o] = 1 .. Len(Content[o])
    BY <2>1
  <2>4. Range(Content[o]) = {Content[o][i] : i \in 1 .. Len(Content[o])}
    BY <2>3 DEF Range
  <2> HIDE DEF blobs
  <2>5. \A i \in 1 .. n : i = n \/ i \in 1 .. Len(Content[o])
    BY <2>2
  <2>6. \A i \in 1 .. n : blobs[i] \in Blobs
    BY <2>2, <2>5 DEF Blobs
  <2>7. Range(Content[o]) \cup {o} \subseteq {blobs[i] : i \in 1 .. n}
    BY <2>2, <2>4
  <2>8. {blobs[i] : i \in 1 .. n} \subseteq Range(Content[o]) \cup {o}
    BY <2>2, <2>4, <2>5
  <2> QED
    BY <2>2, <2>6, <2>7, <2>8
<1> HIDE DEF blobs, n
<1>3. a \in Accs /\ PutAllAs(d, a, {})
  BY PutAllStarts
<1> HIDE DEF a
<1>4. F \in [(1 .. n) \X Accs -> Accs]
  <2>1. ASSUME NEW x \in (1 .. n) \X Accs PROVE Put(x[2], blobs[x[1]]) \in Accs
    <3>1. x[1] \in 1 .. n /\ x[2] \in Accs
      OBVIOUS
    <3> QED
      BY <1>2, <3>1, PutOK DEF PutAs
  <2> QED
    BY <2>1, Zenon
<1>5. PICK g \in [0 .. n -> Accs] : g[0] = a /\ \A i \in 1 .. n : g[i] = F[<<i, g[i - 1]>>]
  <2> HIDE DEF F
  <2>1. \E g \in [0 .. n -> Accs] : Runs(g, n, a, F)
    BY <1>2, <1>3, <1>4, Recursion, Zenon
  <2> QED
    BY <2>1, Zenon DEF Runs
<1>6. \A i \in 1 .. n : g[i] = Put(g[i - 1], blobs[i])
  <2> SUFFICES ASSUME NEW i \in 1 .. n PROVE g[i] = Put(g[i - 1], blobs[i])
    OBVIOUS
  <2>1. g[i - 1] \in Accs
    BY <1>2
  <2>2. F[<<i, g[i - 1]>>] = Put(g[i - 1], blobs[i])
    BY <2>1
  <2> QED
    BY <1>5, <2>2, Zenon
<1>7. g = Next1(g)
  <2>1. \A i \in 0 .. n : i # 0 => i \in 1 .. n
    BY <1>2
  <2>2. \A i \in 0 .. n : g[i] = IF i = 0 THEN a ELSE Put(g[i - 1], blobs[i])
    BY <1>5, <1>6, <2>1, Zenon
  <2>3. g = [i \in 0 .. n |-> g[i]]
    BY <1>5, Zenon
  <2> QED
    BY <2>2, <2>3, Zenon
<1>8. W = Next1(W)
  BY <1>7, Zenon
<1> HIDE DEF W
<1>9. \A i \in 0 .. n : W[i] = IF i = 0 THEN a ELSE Put(W[i - 1], blobs[i])
  BY <1>8, Zenon
<1> DEFINE upto(i) == {blobs[j] : j \in 1 .. i}
           T == {i \in 0 .. n : PutAllAs(d, W[i], upto(i))}
<1>10. 0 \in T
  <2>1. W[0] = a /\ upto(0) = {}
    BY <1>2, <1>9
  <2>2. PutAllAs(d, W[0], upto(0))
    BY <1>3, <2>1, Zenon
  <2> QED
    BY <1>2, <2>2
<1>11. ASSUME NEW i \in 1 .. n, i - 1 \in T PROVE i \in T
  <2>1. PutAllAs(d, W[i - 1], upto(i - 1))
    BY <1>11
  <2>2. W[i] = Put(W[i - 1], blobs[i])
    BY <1>2, <1>9
  <2>3. PutAs(W[i - 1], W[i], blobs[i])
    BY <1>2, <2>1, <2>2, PutOK DEF PutAllAs
  <2>4. PutAllAs(d, W[i], upto(i - 1) \cup {blobs[i]})
    BY <2>1, <2>3, PutAllSteps
  <2>5. upto(i - 1) \cup {blobs[i]} = upto(i)
    <3>1. \A j \in 1 .. i : j = i \/ j \in 1 .. i - 1
      BY <1>2
    <3>2. i \in 1 .. i /\ 1 .. i - 1 \subseteq 1 .. i
      BY <1>2
    <3> QED
      BY <3>1, <3>2
  <2>6. PutAllAs(d, W[i], upto(i))
    BY <2>4, <2>5, Zenon
  <2>7. i \in 0 .. n
    BY <1>2
  <2> QED
    BY <2>6, <2>7, Zenon
<1> HIDE DEF T
<1>12. \A i \in 0 .. n : i \in T
  <2>1. T \in SUBSET (0 .. n)
    BY DEF T
  <2> QED
    BY <1>2, <1>10, <1>11, <2>1, Climbs, Zenon
<1>13. n \in T
  BY <1>2, <1>12
<1>14. PutAllAs(d, W[n], upto(n))
  BY <1>13 DEF T
<1> QED
  BY <1>1, <1>2, <1>14, Zenon

-----------------------------------------------------------------------------
(* What the collector does to the disk. *)

(* A step from d to e that leaves every block in place and holds no zone. *)
Steady(d, e) ==
    /\ DiskOK(e) /\ e.reads = d.reads
    /\ \A p \in Places : p[2] < d.wp[p[1]] => p[2] < e.wp[p[1]] /\ e.media[p] = d.media[p]

(* The same step, when it moves no blob either. *)
Still(d, e) ==
    Steady(d, e) /\ e.phys = d.phys /\ e.located = d.located /\ e.free = d.free

LEMMA StillReflexive ==
    ASSUME NEW d, DiskOK(d)
    PROVE  Still(d, d)
  BY DEF Still, Steady

LEMMA CopyForwardOK ==
    ASSUME NEW d, DiskOK(d), NEW l
    PROVE  Still(d, CopyForward(d, l).disk)
<1> DEFINE room == Room(d)
           b == CopyForward(d, l)
<1>1. CASE l \notin DOMAIN d.phys
  <2>1. b = [disk |-> d, ok |-> FALSE]
    BY <1>1, Zenon DEF CopyForward
  <2>2. b.disk = d
    BY <2>1
  <2> QED
    BY <2>2, StillReflexive
<1>2. CASE l \in DOMAIN d.phys
  <2>1. /\ DiskOK(room) /\ SameBlocks(d, room)
        /\ room.open # None => room.wp[room.open] < ZoneBlocks
    BY RoomOK
  <2>2. CASE room.open = None
    <3>1. b.disk = room
      <4>1. b = [disk |-> room, ok |-> FALSE]
        BY <1>2, <2>2, Zenon DEF CopyForward
      <4> QED
        BY <4>1
    <3> QED
      BY <2>1, <3>1, Zenon DEF Still, Steady, SameBlocks
  <2>3. CASE room.open # None
    <3> DEFINE e == Appended(room, l)
               p == AppendAt(room)
               t == Inserted(e.copies, l, p)
               f == [e EXCEPT !.copies = t]
    <3>1. b.disk = f
      <4>1. b = [disk |-> f, ok |-> TRUE]
        BY <1>2, <2>3, Zenon DEF CopyForward
      <4> HIDE DEF f, b
      <4> QED
        BY <4>1
    <3>2. l \in Logical
      BY <1>2, PartialMeans DEF DiskOK, Disks
    <3>3. AppendedAs(room, e, l, p)
      BY <2>1, <2>3, <3>2, AppendedOK
    <3> HIDE DEF e, p, room
    <3>4. e \in Disks /\ p \in Places /\ DiskOK(e) /\ Sits(e, l, p)
      BY <3>3 DEF AppendedAs, DiskOK
    <3>5. t \in Partial(Logical, Places) /\ Extends(e.copies, t, l, p)
      <4>1. e.copies \in Partial(Logical, Places) /\ p \in Places
        BY <3>4 DEF Disks
      <4> QED
        BY <3>2, <4>1, PartialExtends
    <3> HIDE DEF t
    <3>6. /\ f \in Disks /\ f.copies = t
          /\ f.state = e.state /\ f.wp = e.wp /\ f.open = e.open /\ f.phys = e.phys
          /\ f.media = e.media /\ f.located = e.located /\ f.free = e.free /\ f.reads = e.reads
      BY <3>4, <3>5 DEF Disks
    <3> HIDE DEF f
    <3>7. \A x, q : Sits(f, x, q) <=> Sits(e, x, q)
      BY <3>6, Zenon DEF Sits
    <3>8. \A x \in DOMAIN t : Sits(f, x, t[x])
      <4> SUFFICES ASSUME NEW x \in DOMAIN t PROVE Sits(f, x, t[x])
        OBVIOUS
      <4>1. CASE x = l
        BY <3>4, <3>5, <3>7, <4>1, Zenon DEF Extends
      <4>2. CASE x # l
        <5>1. x \in DOMAIN e.copies /\ t[x] = e.copies[x]
          BY <3>5, <4>2 DEF Extends
        <5> QED
          BY <3>4, <3>7, <5>1, Zenon DEF DiskOK
      <4> QED
        BY <4>1, <4>2
    <3>9. DiskOK(f)
      BY <3>4, <3>6, <3>7, <3>8, Zenon DEF DiskOK
    <3>10. /\ f.reads = d.reads /\ f.phys = d.phys /\ f.located = d.located /\ f.free = d.free
      BY <2>1, <3>3, <3>6, Zenon DEF AppendedAs, SameBlocks
    <3>11. \A q \in Places : q[2] < d.wp[q[1]] => q[2] < f.wp[q[1]] /\ f.media[q] = d.media[q]
      BY <2>1, <3>3, <3>6, Zenon DEF AppendedAs, SameBlocks
    <3> QED
      BY <3>1, <3>9, <3>10, <3>11, Zenon DEF Still, Steady
  <2> QED
    BY <2>2, <2>3
<1> QED
  BY <1>1, <1>2

LEMMA EmptyIsPartial ==
    ASSUME NEW A, NEW B
    PROVE  << >> \in Partial(A, B) /\ DOMAIN << >> = {}
<1>1. DOMAIN << >> = {} /\ << >> \in [{} -> B]
  OBVIOUS
<1> QED
  BY <1>1, PartialMeans, Zenon

LEMMA CommittedCopiesOK ==
    ASSUME NEW d, DiskOK(d)
    PROVE  LET e == CommittedCopies(d)
           IN  Steady(d, e) /\ DOMAIN e.phys = DOMAIN d.phys /\ e.located = d.located /\ e.free = d.free
<1> DEFINE t == [l \in DOMAIN d.phys |-> IF l \in DOMAIN d.copies THEN d.copies[l] ELSE d.phys[l]]
           e == CommittedCopies(d)
<1>1. d \in Disks
  BY DEF DiskOK
<1>2. e = [d EXCEPT !.phys = t, !.copies = << >>]
  BY DEF CommittedCopies
<1>3. t \in Partial(Logical, Places) /\ DOMAIN t = DOMAIN d.phys
  <2>1. DOMAIN d.phys \subseteq Logical /\ \A l \in DOMAIN d.phys : d.phys[l] \in Places
    BY <1>1, PartialMeans DEF Disks
  <2>2. \A l \in DOMAIN d.copies : d.copies[l] \in Places
    BY <1>1, PartialMeans DEF Disks
  <2>3. t \in [DOMAIN d.phys -> Places]
    BY <2>1, <2>2
  <2> QED
    BY <2>1, <2>3, PartialMeans
<1>4. \A l \in DOMAIN d.phys : Sits(d, l, t[l])
  BY Zenon DEF DiskOK
<1> HIDE DEF t, e
<1>5. << >> \in Partial(Logical, Places) /\ DOMAIN << >> = {}
  BY EmptyIsPartial, Zenon
<1>6. /\ e \in Disks /\ e.phys = t /\ e.copies = << >>
      /\ e.state = d.state /\ e.wp = d.wp /\ e.open = d.open /\ e.reads = d.reads
      /\ e.media = d.media /\ e.located = d.located /\ e.free = d.free
  BY <1>1, <1>2, <1>3, <1>5, Zenon DEF Disks
<1>7. \A x, q : Sits(e, x, q) <=> Sits(d, x, q)
  BY <1>6, Zenon DEF Sits
<1>8. \A l \in DOMAIN e.copies : Sits(e, l, e.copies[l])
  BY <1>5, <1>6
<1>9. DiskOK(e)
  BY <1>3, <1>4, <1>6, <1>7, <1>8, Zenon DEF DiskOK
<1> QED
  BY <1>3, <1>6, <1>9, Zenon DEF Steady, e

LEMMA CountedOK ==
    ASSUME NEW d, DiskOK(d), NEW m
    PROVE  Still(d, Counted(d, m))
<1> DEFINE t == [z \in Zones |-> Cardinality(m.bits \cap InZone(z))]
           e == Counted(d, m)
<1>1. d \in Disks
  BY DEF DiskOK
<1>2. t \in [Zones -> Nat]
  <2>1. ASSUME NEW z \in Zones PROVE Cardinality(m.bits \cap InZone(z)) \in Nat
    <3>1. IsFiniteSet(Places)
      <4>1. IsFiniteSet(0 .. ZoneBlocks - 1)
        BY CollectAssumption, FS_Interval DEF CollectAssumption
      <4> QED
        BY <4>1, CollectAssumption, FS_Product, Zenon DEF Places, CollectAssumption
    <3>2. m.bits \cap InZone(z) \in SUBSET Places
      BY DEF InZone
    <3>3. IsFiniteSet(m.bits \cap InZone(z))
      BY <3>1, <3>2, FS_Subset
    <3> QED
      BY <3>3, FS_CardinalityType
  <2> QED
    BY <2>1, Zenon
<1>3. e = [d EXCEPT !.live = t]
  BY DEF Counted
<1> HIDE DEF t, e
<1>4. /\ e \in Disks /\ e.phys = d.phys /\ e.copies = d.copies
      /\ e.state = d.state /\ e.wp = d.wp /\ e.open = d.open /\ e.reads = d.reads
      /\ e.media = d.media /\ e.located = d.located /\ e.free = d.free
  BY <1>1, <1>2, <1>3 DEF Disks
<1>5. DiskOK(e)
  BY <1>4, Zenon DEF DiskOK, Sits
<1> QED
  BY <1>4, <1>5, Zenon DEF Still, Steady, e

LEMMA CondemnedOK ==
    ASSUME NEW d, DiskOK(d), NEW z, d.state[z] = "sealed"
    PROVE  Still(d, [d EXCEPT !.state[z] = "condemned"])
<1> DEFINE e == [d EXCEPT !.state[z] = "condemned"]
<1>1. d \in Disks
  BY DEF DiskOK
<1>2. /\ e \in Disks /\ e.state = [d.state EXCEPT ![z] = "condemned"]
      /\ e.phys = d.phys /\ e.copies = d.copies
      /\ e.wp = d.wp /\ e.open = d.open /\ e.reads = d.reads
      /\ e.media = d.media /\ e.located = d.located /\ e.free = d.free
  BY <1>1 DEF Disks, States
<1> HIDE DEF e
<1>3. \A x \in Zones : e.state[x] = "free" => d.state[x] = "free"
  BY <1>1, <1>2 DEF Disks
<1>4. e.open # None => e.state[e.open] = "open"
  BY <1>1, <1>2 DEF Disks, DiskOK
<1>5. \A x, q : Sits(e, x, q) <=> Sits(d, x, q)
  BY <1>2, Zenon DEF Sits
<1>6. DiskOK(e)
  BY <1>2, <1>3, <1>4, <1>5, Zenon DEF DiskOK
<1> QED
  BY <1>2, <1>6, Zenon DEF Still, Steady, e

(* The number of readers of one zone changes. *)
LEMMA HeldOK ==
    ASSUME NEW d, DiskOK(d), NEW z \in Zones, NEW k \in Nat
    PROVE  LET e == [d EXCEPT !.reads[z] = k]
           IN  /\ DiskOK(e) /\ e.reads[z] = k
               /\ \A y \in Zones : y # z => e.reads[y] = d.reads[y]
               /\ e.media = d.media /\ e.wp = d.wp
               /\ e.phys = d.phys /\ e.located = d.located /\ e.free = d.free
<1> DEFINE e == [d EXCEPT !.reads[z] = k]
<1>1. d \in Disks
  BY DEF DiskOK
<1>2. /\ e \in Disks /\ e.reads = [d.reads EXCEPT ![z] = k]
      /\ e.phys = d.phys /\ e.copies = d.copies
      /\ e.wp = d.wp /\ e.open = d.open /\ e.state = d.state
      /\ e.media = d.media /\ e.located = d.located /\ e.free = d.free
  BY <1>1 DEF Disks
<1>3. e.reads[z] = k /\ \A y \in Zones : y # z => e.reads[y] = d.reads[y]
  BY <1>1, <1>2 DEF Disks
<1> HIDE DEF e
<1>4. DiskOK(e)
  BY <1>2, Zenon DEF DiskOK, Sits
<1> QED
  BY <1>2, <1>3, <1>4 DEF e

(* The disk e is d with the zone z reset. *)
RecycledAs(d, e, z) ==
    /\ DiskOK(e) /\ e.located = d.located /\ e.free = d.free
    /\ DOMAIN e.phys = DOMAIN d.phys \ Holds(d, z)
    /\ \A l \in DOMAIN e.phys : e.phys[l] = d.phys[l]
    /\ \A y \in Zones : e.reads[y] = IF y = z THEN 0 ELSE d.reads[y]
    /\ \A p \in Places : p[1] # z => e.wp[p[1]] = d.wp[p[1]] /\ e.media[p] = d.media[p]

LEMMA RecycledOK ==
    ASSUME NEW d, DiskOK(d), NEW z, d.state[z] = "condemned", d.copies = << >>
    PROVE  RecycledAs(d, Recycled(d, z), z)
<1> DEFINE e == Recycled(d, z)
           media == [p \in Places |-> IF p[1] = z THEN None ELSE d.media[p]]
           phys  == Restrict(d.phys, DOMAIN d.phys \ Holds(d, z))
<1>1. d \in Disks
  BY DEF DiskOK
<1>2. e = [d EXCEPT !.state[z] = "free", !.live[z] = 0, !.reads[z] = 0, !.wp[z] = 0,
                    !.media = media, !.phys = phys]
  BY DEF Recycled
<1>3. d.phys \in Partial(Logical, Places)
  BY <1>1 DEF Disks
<1>4. /\ phys \in Partial(Logical, Places) /\ DOMAIN phys = DOMAIN d.phys \ Holds(d, z)
      /\ \A l \in DOMAIN phys : phys[l] = d.phys[l]
  <2>1. phys \in Partial(Logical, Places) /\ Shrinks(d.phys, phys, Holds(d, z))
    BY <1>3, PartialShrinks
  <2> QED
    BY <2>1, Zenon DEF Shrinks
<1>5. media \in [Places -> Logical \cup {None}]
  BY <1>1 DEF Disks
<1>6. \A p \in Places : p[1] # z => media[p] = d.media[p]
  OBVIOUS
<1> HIDE DEF media, phys, e
<1> DEFINE state == [d.state EXCEPT ![z] = "free"]
           live  == [d.live EXCEPT ![z] = 0]
           reads == [d.reads EXCEPT ![z] = 0]
           wp    == [d.wp EXCEPT ![z] = 0]
<1>7. /\ state \in [Zones -> States] /\ live \in [Zones -> Nat] /\ reads \in [Zones -> Nat]
      /\ wp \in [Zones -> 0 .. ZoneBlocks]
  <2>1. 0 \in 0 .. ZoneBlocks
    BY CollectAssumption DEF CollectAssumption
  <2> QED
    BY <1>1, <2>1, Zenon DEF Disks, States
<1>8. \A y \in Zones : /\ state[y] = IF y = z THEN "free" ELSE d.state[y]
                       /\ reads[y] = IF y = z THEN 0 ELSE d.reads[y]
                       /\ wp[y] = IF y = z THEN 0 ELSE d.wp[y]
  BY <1>1 DEF Disks
<1>9. /\ e.state = state /\ e.live = live /\ e.reads = reads /\ e.wp = wp
      /\ e.media = media /\ e.phys = phys /\ e.copies = d.copies
      /\ e.open = d.open /\ e.located = d.located /\ e.free = d.free
  BY <1>1, <1>2 DEF Disks
<1> HIDE DEF state, live, reads, wp
<1>10. e \in Disks
  <2>1. e = [state |-> e.state, live |-> e.live, reads |-> e.reads, wp |-> e.wp, open |-> e.open,
             phys |-> e.phys, copies |-> e.copies, media |-> e.media, located |-> e.located,
             free |-> e.free]
    BY <1>1, <1>2, Zenon DEF Disks
  <2> QED
    BY <1>1, <1>4, <1>5, <1>7, <1>9, <2>1 DEF Disks
<1>11. \A x \in Zones : e.state[x] = "free" => e.wp[x] = 0
  BY <1>8, <1>9 DEF DiskOK
<1>12. e.open # None => e.state[e.open] = "open"
  <2>1. d.open # None => d.open \in Zones /\ d.open # z /\ d.state[d.open] = "open"
    BY <1>1 DEF Disks, DiskOK
  <2> QED
    BY <1>8, <1>9, <2>1
<1>13. \A l \in DOMAIN e.phys : Sits(e, l, e.phys[l])
  <2> SUFFICES ASSUME NEW l \in DOMAIN phys PROVE Sits(e, l, phys[l])
    BY <1>9, Zenon
  <2>1. phys[l] = d.phys[l] /\ l \in DOMAIN d.phys /\ d.phys[l][1] # z
    BY <1>4 DEF Holds
  <2>2. d.phys[l] \in Places
    BY <1>3, <2>1, PartialMeans
  <2>3. d.phys[l][1] \in Zones
    BY <2>2, PlaceIsPair
  <2>4. Sits(d, l, d.phys[l])
    BY <2>1 DEF DiskOK
  <2> QED
    BY <1>6, <1>8, <1>9, <2>1, <2>2, <2>3, <2>4, Zenon DEF Sits
<1>14. \A l \in DOMAIN e.copies : Sits(e, l, e.copies[l])
  <2>1. DOMAIN e.copies = {}
    BY <1>9, EmptyIsPartial
  <2> QED
    BY <2>1
<1>15. DiskOK(e)
  BY <1>9, <1>10, <1>11, <1>12, <1>13, <1>14, Zenon DEF DiskOK
<1>16. \A p \in Places : p[1] # z => e.wp[p[1]] = d.wp[p[1]] /\ e.media[p] = d.media[p]
  <2>1. \A p \in Places : p[1] \in Zones
    BY PlaceIsPair
  <2> QED
    BY <1>6, <1>8, <1>9, <2>1
<1> QED
  BY <1>4, <1>8, <1>9, <1>15, <1>16 DEF RecycledAs, e

-----------------------------------------------------------------------------
(* Types, and what readers hold. *)

LEMMA WhereIsPlaces ==
    ASSUME NEW d \in Disks, NEW X
    PROVE  Where(d, X) \subseteq Places
<1>1. \A l \in DOMAIN d.phys : d.phys[l] \in Places
  BY PartialMeans DEF Disks
<1> QED
  BY <1>1 DEF Where

(* What catch_up adds to the mark. *)
LEMMA CaughtUpIs ==
    ASSUME TypeOK
    PROVE  /\ CaughtUp \in Marks
           /\ CaughtUp.bits = mark.bits \cup Where(disk, TransientBlocks(roots))
           /\ CaughtUp.pending = mark.pending \cup (Unmarked \ mark.seen)
           /\ CaughtUp.roots = mark.roots /\ CaughtUp.live = mark.live /\ CaughtUp.seen = mark.seen
<1>1. mark \in Marks /\ disk \in Disks /\ Unmarked \subseteq Blobs
  BY DEF TypeOK, Unmarked, RootSets, Blobs
<1>2. Where(disk, TransientBlocks(roots)) \subseteq Places
  BY <1>1, WhereIsPlaces
<1> DEFINE X == Where(disk, TransientBlocks(roots))
           U == Unmarked \ mark.seen
<1>3. CaughtUp = [[mark EXCEPT !.pending = @ \cup U] EXCEPT !.bits = @ \cup X]
  BY DEF CaughtUp, Walk
<1>4. U \subseteq Blobs /\ X \subseteq Places
  BY <1>1, <1>2
<1> HIDE DEF X, U
<1>5. /\ CaughtUp.bits = mark.bits \cup X /\ CaughtUp.pending = mark.pending \cup U
      /\ CaughtUp.roots = mark.roots /\ CaughtUp.live = mark.live /\ CaughtUp.seen = mark.seen
      /\ CaughtUp \in Marks
  BY <1>1, <1>3, <1>4, Zenon DEF Marks
<1> QED
  BY <1>5 DEF X, U

LEMMA ChildrenAreBlobs ==
    ASSUME NEW h
    PROVE  Children(h) \subseteq Blobs
  BY DEF Children, Blobs, Chunks

LEMMA VisitType ==
    ASSUME NEW m \in Marks, NEW d \in Disks, NEW h \in Blobs
    PROVE  Visit(m, d, h) \in Marks
<1> DEFINE popped   == [m EXCEPT !.pending = @ \ {h}, !.seen = @ \cup {h}]
           occupied == [popped EXCEPT !.live = @ \cup {h}, !.bits = @ \cup Occupied(d, h)]
<1>1. Occupied(d, h) \subseteq Places /\ Children(h) \subseteq Blobs
  BY WhereIsPlaces, ChildrenAreBlobs DEF Occupied
<1>2. popped \in Marks
  BY Zenon DEF Marks
<1> HIDE DEF popped
<1>3. occupied \in Marks
  BY <1>1, <1>2, Zenon DEF Marks
<1> HIDE DEF occupied
<1>4. [popped EXCEPT !.roots = @ \cup {h}] \in Marks
  BY <1>2 DEF Marks
<1>5. [Walk(occupied, Children(h)) EXCEPT !.roots = @ \cup {h}] \in Marks
  <2>1. Walk(occupied, Children(h)) \in Marks
    BY <1>1, <1>3 DEF Marks, Walk
  <2> HIDE DEF Walk
  <2> QED
    BY <2>1 DEF Marks
<1> QED
  BY <1>2, <1>3, <1>4, <1>5, Zenon DEF Visit, popped, occupied

LEMMA RebuiltType ==
    ASSUME NEW m \in Marks, NEW d \in Disks, NEW r
    PROVE  Rebuilt(m, d, r) \in Marks
<1>1. Where(d, TransientBlocks(r)) \subseteq Places /\ \A h \in m.live : Occupied(d, h) \subseteq Places
  BY WhereIsPlaces DEF Occupied
<1> DEFINE X == (UNION {Occupied(d, h) : h \in m.live}) \cup Where(d, TransientBlocks(r))
<1>2. X \subseteq Places
  <2>1. UNION {Occupied(d, h) : h \in m.live} \subseteq Places
    <3> SUFFICES ASSUME NEW h \in m.live, NEW x \in Occupied(d, h) PROVE x \in Places
      BY Zenon
    <3> QED
      BY <1>1
  <2> QED
    BY <1>1, <2>1
<1>3. Rebuilt(m, d, r) = [m EXCEPT !.bits = X]
  BY DEF Rebuilt
<1> HIDE DEF X
<1> QED
  BY <1>2, <1>3 DEF Marks

LEMMA SteadyReaders ==
    ASSUME TypeOK, ReadersOK, Steady(disk, disk'), readers' = readers
    PROVE  ReadersOK'
<1>1. ASSUME NEW r \in Readers, readers[r] # None
      PROVE  Sits(disk', readers[r].logical, readers[r].at)
  <2>1. readers[r].at \in Places
    BY <1>1 DEF TypeOK, Beliefs
  <2>2. Sits(disk, readers[r].logical, readers[r].at)
    BY <1>1 DEF ReadersOK
  <2> QED
    BY <2>1, <2>2, Zenon DEF Sits, Steady
<1>2. disk'.reads = disk.reads
  BY DEF Steady
<1> QED
  BY <1>1, <1>2, Zenon DEF ReadersOK

LEMMA HoldReadOK ==
    ASSUME BaseInv, NEW r \in Readers, HoldRead(r)
    PROVE  BaseInv'
<1>1. PICK l \in DOMAIN disk.phys :
          /\ readers' = [readers EXCEPT ![r] = [at |-> disk.phys[l], logical |-> l]]
          /\ disk' = [disk EXCEPT !.reads[disk.phys[l][1]] = @ + 1]
  <2>1. \E l \in (UNION {Extent(disk, h) : h \in DOMAIN disk.located}) \cap DOMAIN disk.phys :
          /\ readers' = [readers EXCEPT ![r] = [at |-> disk.phys[l], logical |-> l]]
          /\ disk' = [disk EXCEPT !.reads[disk.phys[l][1]] = @ + 1]
    BY Zenon DEF HoldRead
  <2> QED
    BY <2>1, Zenon
<1> DEFINE p == disk.phys[l]
           z == p[1]
           b == [at |-> p, logical |-> l]
<1>2. DiskOK(disk) /\ disk \in Disks /\ readers \in [Readers -> Beliefs \cup {None}] /\ readers[r] = None
  BY DEF BaseInv, TypeOK, HoldRead
<1>3. p \in Places /\ l \in Logical /\ Sits(disk, l, p)
  BY <1>2, PartialMeans DEF Disks, DiskOK
<1>4. z \in Zones /\ disk.reads[z] \in Nat
  BY <1>2, <1>3, PlaceIsPair DEF Disks
<1>5. b \in Beliefs /\ b # None /\ b.at = p /\ b.logical = l
  BY <1>3, CollectAssumption DEF Beliefs, CollectAssumption
<1>6. disk' = [disk EXCEPT !.reads[z] = disk.reads[z] + 1]
  BY <1>1
<1>7. readers' = [readers EXCEPT ![r] = b]
  BY <1>1
<1> HIDE DEF b, z, p
<1>8. /\ DiskOK(disk') /\ disk'.reads[z] = disk.reads[z] + 1
      /\ \A y \in Zones : y # z => disk'.reads[y] = disk.reads[y]
      /\ disk'.media = disk.media /\ disk'.wp = disk.wp
  <2>1. disk.reads[z] + 1 \in Nat
    BY <1>4
  <2> QED
    BY <1>2, <1>4, <1>6, <2>1, HeldOK
<1>9. TypeOK'
  <2>1. readers' \in [Readers -> Beliefs \cup {None}]
    BY <1>2, <1>5, <1>7
  <2> QED
    BY <1>8, <2>1 DEF TypeOK, DiskOK, BaseInv, HoldRead
<1>10. \A x \in Readers : readers'[x] = IF x = r THEN b ELSE readers[x]
  BY <1>2, <1>7
<1>11. \A x \in Readers : readers'[x] # None => Sits(disk', readers'[x].logical, readers'[x].at)
  BY <1>3, <1>5, <1>8, <1>10, Zenon DEF Sits, BaseInv, ReadersOK
<1>12. \A y \in Zones : disk'.reads[y] = Cardinality(Believers(readers', y))
  <2> SUFFICES ASSUME NEW y \in Zones PROVE disk'.reads[y] = Cardinality(Believers(readers', y))
    OBVIOUS
  <2>1. disk.reads[y] = Cardinality(Believers(readers, y))
    BY DEF BaseInv, ReadersOK
  <2>2. CASE y = z
    <3>1. Believers(readers', z) = Believers(readers, z) \cup {r} /\ r \notin Believers(readers, z)
      BY <1>2, <1>5, <1>10 DEF Believers, z
    <3>2. IsFiniteSet(Believers(readers, z))
      <4>1. Believers(readers, z) \in SUBSET Readers
        BY DEF Believers
      <4> QED
        BY <4>1, CollectAssumption, FS_Subset DEF CollectAssumption
    <3>3. Cardinality(Believers(readers, z) \cup {r}) = Cardinality(Believers(readers, z)) + 1
      BY <3>1, <3>2, FS_AddElement, Zenon
    <3> QED
      BY <1>8, <2>1, <2>2, <3>1, <3>3
  <2>3. CASE y # z
    <3>1. Believers(readers', y) = Believers(readers, y)
      BY <1>2, <1>5, <1>10, <2>3 DEF Believers, z
    <3> QED
      BY <1>8, <2>1, <2>3, <3>1
  <2> QED
    BY <2>2, <2>3
<1> QED
  BY <1>8, <1>9, <1>11, <1>12, Zenon DEF BaseInv, ReadersOK

LEMMA ReleaseReadOK ==
    ASSUME BaseInv, NEW r \in Readers, ReleaseRead(r)
    PROVE  BaseInv'
<1> DEFINE p == readers[r].at
           z == p[1]
<1>1. DiskOK(disk) /\ disk \in Disks /\ readers \in [Readers -> Beliefs \cup {None}] /\ readers[r] # None
  BY DEF BaseInv, TypeOK, ReleaseRead
<1>2. p \in Places
  BY <1>1 DEF Beliefs
<1>3. z \in Zones /\ disk.reads[z] \in Nat
  BY <1>1, <1>2, PlaceIsPair DEF Disks
<1>4. disk' = [disk EXCEPT !.reads[z] = disk.reads[z] - 1] /\ readers' = [readers EXCEPT ![r] = None]
  BY DEF ReleaseRead
<1> HIDE DEF z
<1>5. IsFiniteSet(Believers(readers, z)) /\ r \in Believers(readers, z) /\ disk.reads[z] = Cardinality(Believers(readers, z))
  <2>1. Believers(readers, z) \in SUBSET Readers /\ r \in Believers(readers, z)
    BY <1>1 DEF Believers, z
  <2> QED
    BY <1>3, <2>1, CollectAssumption, FS_Subset DEF CollectAssumption, BaseInv, ReadersOK
<1>6. /\ Cardinality(Believers(readers, z) \ {r}) = disk.reads[z] - 1
      /\ Cardinality(Believers(readers, z) \ {r}) \in Nat
  BY <1>5, FS_RemoveElement, FS_CardinalityType
<1>7. /\ DiskOK(disk') /\ disk'.reads[z] = disk.reads[z] - 1
      /\ \A y \in Zones : y # z => disk'.reads[y] = disk.reads[y]
      /\ disk'.media = disk.media /\ disk'.wp = disk.wp
  <2>1. disk.reads[z] - 1 \in Nat
    BY <1>6
  <2> QED
    BY <1>1, <1>3, <1>4, <2>1, HeldOK
<1>8. TypeOK'
  <2>1. readers' \in [Readers -> Beliefs \cup {None}]
    BY <1>1, <1>4
  <2> QED
    BY <1>7, <2>1 DEF TypeOK, DiskOK, BaseInv, ReleaseRead
<1>9. \A x \in Readers : readers'[x] = IF x = r THEN None ELSE readers[x]
  BY <1>1, <1>4
<1>10. \A x \in Readers : readers'[x] # None => Sits(disk', readers'[x].logical, readers'[x].at)
  BY <1>7, <1>9, Zenon DEF Sits, BaseInv, ReadersOK
<1>11. \A y \in Zones : disk'.reads[y] = Cardinality(Believers(readers', y))
  <2> SUFFICES ASSUME NEW y \in Zones PROVE disk'.reads[y] = Cardinality(Believers(readers', y))
    OBVIOUS
  <2>1. disk.reads[y] = Cardinality(Believers(readers, y))
    BY DEF BaseInv, ReadersOK
  <2>2. CASE y = z
    <3>1. Believers(readers', z) = Believers(readers, z) \ {r}
      BY <1>9 DEF Believers
    <3> QED
      BY <1>6, <1>7, <2>2, <3>1
  <2>3. CASE y # z
    <3>1. Believers(readers', y) = Believers(readers, y)
      BY <1>9, <2>3 DEF Believers, z
    <3> QED
      BY <1>7, <2>1, <2>3, <3>1
  <2> QED
    BY <2>2, <2>3
<1> QED
  BY <1>7, <1>8, <1>10, <1>11, Zenon DEF BaseInv, ReadersOK

-----------------------------------------------------------------------------
(* The root set. *)

(* s is r with the write set of w replaced by x. *)
Rewrites(r, s, w, x) ==
    /\ s \in RootSets /\ s.pinned = r.pinned
    /\ DOMAIN s.open = DOMAIN r.open \cup {w} /\ s.open[w] = x
    /\ \A v \in DOMAIN r.open : v # w => s.open[v] = r.open[v]

(* s is r without the write set of w, and with p pinned. *)
Closes(r, s, w, p) ==
    /\ s \in RootSets /\ s.pinned = p
    /\ DOMAIN s.open = DOMAIN r.open \ {w}
    /\ \A v \in DOMAIN s.open : s.open[v] = r.open[v]

LEMMA OpensOK ==
    ASSUME NEW r \in RootSets, NEW w \in Writers, NEW x \in WriteSets
    PROVE  Rewrites(r, [r EXCEPT !.open = Inserted(@, w, x)], w, x)
<1> DEFINE t == Inserted(r.open, w, x)
           s == [r EXCEPT !.open = t]
<1>1. r.open \in Partial(Writers, WriteSets)
  BY DEF RootSets
<1>2. t \in Partial(Writers, WriteSets) /\ Extends(r.open, t, w, x)
  BY <1>1, PartialExtends
<1> HIDE DEF t
<1>3. s \in RootSets /\ s.open = t /\ s.pinned = r.pinned
  BY <1>2 DEF RootSets
<1>4. Rewrites(r, s, w, x)
  BY <1>2, <1>3, Zenon DEF Rewrites, Extends
<1> QED
  BY <1>4 DEF s, t

LEMMA ClosesOK ==
    ASSUME NEW r \in RootSets, NEW w, NEW p \in SUBSET Objects
    PROVE  Closes(r, [r EXCEPT !.pinned = p, !.open = Restrict(@, DOMAIN @ \ {w})], w, p)
<1> DEFINE t == Restrict(r.open, DOMAIN r.open \ {w})
           s == [r EXCEPT !.pinned = p, !.open = t]
<1>1. r.open \in Partial(Writers, WriteSets)
  BY DEF RootSets
<1>2. t \in Partial(Writers, WriteSets) /\ Shrinks(r.open, t, {w})
  BY <1>1, PartialShrinks
<1> HIDE DEF t
<1>3. s \in RootSets /\ s.open = t /\ s.pinned = p
  BY <1>2, Zenon DEF RootSets
<1>4. Closes(r, s, w, p)
  BY <1>2, <1>3, Zenon DEF Closes, Shrinks
<1> QED
  BY <1>4 DEF s, t

LEMMA OpenSetMeans ==
    ASSUME NEW r \in RootSets, NEW w \in DOMAIN r.open
    PROVE  w \in Writers /\ r.open[w] \in WriteSets
  BY PartialMeans DEF RootSets

LEMMA ChangesOK ==
    ASSUME NEW r \in RootSets, NEW w \in DOMAIN r.open, NEW x \in WriteSets
    PROVE  Rewrites(r, [r EXCEPT !.open = [@ EXCEPT ![w] = x]], w, x)
<1> DEFINE t == [r.open EXCEPT ![w] = x]
           s == [r EXCEPT !.open = t]
<1>1. r.open \in [DOMAIN r.open -> WriteSets] /\ DOMAIN r.open \subseteq Writers
  BY PartialMeans DEF RootSets
<1>2. /\ t \in [DOMAIN r.open -> WriteSets] /\ DOMAIN t = DOMAIN r.open /\ t[w] = x
      /\ \A v \in DOMAIN r.open : v # w => t[v] = r.open[v]
  BY <1>1
<1>3. t \in Partial(Writers, WriteSets)
  BY <1>1, <1>2, PartialMeans
<1> HIDE DEF t
<1>4. s \in RootSets /\ s.open = t /\ s.pinned = r.pinned
  BY <1>3 DEF RootSets
<1>5. DOMAIN s.open = DOMAIN r.open \cup {w}
  BY <1>2, <1>4
<1>6. Rewrites(r, s, w, x)
  BY <1>2, <1>4, <1>5, Zenon DEF Rewrites
<1> QED
  BY <1>6 DEF s, t

(* The write set x once it has been told of everything d has allocated. *)
Told(x, d) == [x EXCEPT !.blocks = @ \cup (x.at .. d.free - 1), !.at = d.free]

(* And of the objects X, for which it wrote the blobs Y. *)
Wrote(x, d, X, Y) == [Told(x, d) EXCEPT !.wrote = @ \cup X, !.own = @ \cup Y]

LEMMA ToldOK ==
    ASSUME NEW x \in WriteSets, NEW d \in Disks
    PROVE  /\ Told(x, d) \in WriteSets
           /\ Told(x, d).blocks = x.blocks \cup (x.at .. d.free - 1)
           /\ Told(x, d).at = d.free /\ Told(x, d).wrote = x.wrote /\ Told(x, d).own = x.own
<1>1. x.at .. d.free - 1 \subseteq Logical
  BY CapacityIsNat DEF WriteSets, Disks, Logical
<1> QED
  BY <1>1, Zenon DEF Told, WriteSets, Disks

(* The write set y is x so told. *)
WroteTo(x, y, d, X, Y) ==
    /\ y.blocks = x.blocks \cup (x.at .. d.free - 1) /\ y.at = d.free
    /\ y.wrote = x.wrote \cup X /\ y.own = x.own \cup Y

LEMMA WroteFields ==
    ASSUME NEW x \in WriteSets, NEW d \in Disks, NEW X, NEW Y
    PROVE  WroteTo(x, Wrote(x, d, X, Y), d, X, Y)
<1> DEFINE t == Told(x, d)
<1>1. /\ t \in WriteSets /\ t.blocks = x.blocks \cup (x.at .. d.free - 1)
      /\ t.at = d.free /\ t.wrote = x.wrote /\ t.own = x.own
  BY ToldOK, Zenon
<1>2. Wrote(x, d, X, Y) = [t EXCEPT !.wrote = @ \cup X, !.own = @ \cup Y]
  BY DEF Wrote
<1> HIDE DEF t
<1> QED
  BY <1>1, <1>2, Zenon DEF WroteTo, WriteSets

LEMMA WroteOK ==
    ASSUME NEW x \in WriteSets, NEW d \in Disks, NEW o \in Objects, NEW Y \in SUBSET Blobs
    PROVE  Wrote(x, d, {o}, Y) \in WriteSets
<1> DEFINE t == Told(x, d)
<1>1. t \in WriteSets
  BY ToldOK, Zenon
<1>2. Wrote(x, d, {o}, Y) = [t EXCEPT !.wrote = @ \cup {o}, !.own = @ \cup Y]
  BY DEF Wrote
<1> HIDE DEF t
<1>3. t.wrote \cup {o} \in SUBSET Objects /\ t.own \cup Y \in SUBSET Blobs
  BY <1>1 DEF WriteSets
<1> QED
  BY <1>1, <1>2, <1>3, Zenon DEF WriteSets

LEMMA RecordOK ==
    ASSUME NEW r \in RootSets, NEW w \in DOMAIN r.open, NEW d \in Disks
    PROVE  /\ Rewrites(r, Record(r, w, d), w, Told(r.open[w], d))
           /\ \A o \in Objects, Y \in SUBSET Blobs :
                 Rewrites(r, [Record(r, w, d) EXCEPT !.open[w].wrote = @ \cup {o},
                                                     !.open[w].own = @ \cup Y],
                          w, Wrote(r.open[w], d, {o}, Y))
<1> DEFINE x == r.open[w]
           s == Record(r, w, d)
<1>1. x \in WriteSets /\ w \in Writers
  BY OpenSetMeans
<1>2. Told(x, d) \in WriteSets
  BY <1>1, ToldOK, Zenon
<1>3. s = [r EXCEPT !.open = [@ EXCEPT ![w] = Told(x, d)]]
  BY DEF Record, Told
<1>4. Rewrites(r, s, w, Told(x, d))
  BY <1>2, <1>3, ChangesOK
<1> HIDE DEF s
<1>5. ASSUME NEW o \in Objects, NEW Y \in SUBSET Blobs
      PROVE  Rewrites(r, [s EXCEPT !.open[w].wrote = @ \cup {o}, !.open[w].own = @ \cup Y], w,
                      Wrote(x, d, {o}, Y))
  <2> DEFINE y == Wrote(x, d, {o}, Y)
             q == [s EXCEPT !.open[w].wrote = @ \cup {o}, !.open[w].own = @ \cup Y]
  <2>1. y \in WriteSets
    BY <1>1, WroteOK
  <2>2. s \in RootSets /\ w \in DOMAIN s.open /\ s.open[w] = Told(x, d)
    BY <1>4 DEF Rewrites
  <2>3. q = [s EXCEPT !.open = [@ EXCEPT ![w] = y]]
    BY <2>2, Zenon DEF Wrote
  <2> HIDE DEF y, q
  <2>4. Rewrites(s, q, w, y)
    BY <2>1, <2>2, <2>3, ChangesOK
  <2>5. Rewrites(r, q, w, y)
    BY <1>4, <2>4 DEF Rewrites
  <2> QED
    BY <2>5 DEF y, q
<1> QED
  BY <1>4, <1>5, Zenon DEF s

-----------------------------------------------------------------------------
(* The disk and the readers. *)

LEMMA BaseKept ==
    ASSUME BaseInv, Steady(disk, disk'), readers' = readers,
           roots' \in RootSets, mark' \in Marks, "phase" \in DOMAIN cycle'
    PROVE  BaseInv'
<1>1. DiskOK(disk') /\ disk' \in Disks
  BY DEF Steady, DiskOK
<1>2. readers' \in [Readers -> Beliefs \cup {None}]
  BY DEF BaseInv, TypeOK
<1>3. ReadersOK'
  BY SteadyReaders DEF BaseInv
<1> QED
  BY <1>1, <1>2, <1>3, Zenon DEF BaseInv, TypeOK

LEMMA PutIsSteady ==
    ASSUME NEW d, DiskOK(d), NEW b, NEW X, PutAllAs(d, b, X)
    PROVE  Steady(d, b.disk)
<1>1. DiskOK(b.disk)
  BY AccMeans DEF PutAllAs
<1> QED
  BY <1>1, Zenon DEF PutAllAs, Grows, Steady

(* What each step of the cycle leaves of its phase. *)
LEMMA CyclePhase ==
    ASSUME TypeOK
    PROVE  /\ "phase" \in DOMAIN cycle
           /\ \A p, a : /\ "phase" \in DOMAIN Answer(p, a) /\ Answer(p, a).phase = p
           /\ \A a : /\ "phase" \in DOMAIN [cycle EXCEPT !.answer = a]
                     /\ [cycle EXCEPT !.answer = a].phase = cycle.phase
<1>1. "phase" \in DOMAIN cycle
  BY DEF TypeOK
<1>2. ASSUME NEW p, NEW a PROVE "phase" \in DOMAIN Answer(p, a) /\ Answer(p, a).phase = p
  BY <1>1 DEF Answer
<1>3. ASSUME NEW a PROVE /\ "phase" \in DOMAIN [cycle EXCEPT !.answer = a]
                         /\ [cycle EXCEPT !.answer = a].phase = cycle.phase
  BY <1>1
<1> QED
  BY <1>1, <1>2, <1>3

(* A step of the sweep keeps the phase. *)
LEMMA SweepPhase ==
    ASSUME TypeOK, Condemn \/ Copy \/ CommitCopies \/ WaitForReaders \/ Refuse \/ Recycle
    PROVE  "phase" \in DOMAIN cycle' /\ cycle'.phase = cycle.phase
<1>1. "phase" \in DOMAIN cycle
  BY DEF TypeOK
<1>2. CASE Condemn
  <2> DEFINE z == cycle.chosen[Len(cycle.chosen)]
             popped == [cycle EXCEPT !.chosen = SubSeq(@, 1, Len(cycle.chosen) - 1)]
  <2>1. "phase" \in DOMAIN popped /\ popped.phase = cycle.phase
    BY <1>1
  <2>2. CASE disk.state[z] # "sealed"
    <3>1. cycle' = [popped EXCEPT !.answer = "refused"]
      BY <1>2, <2>2, Zenon DEF Condemn
    <3> HIDE DEF popped
    <3> QED
      BY <2>1, <3>1
  <2>3. CASE disk.state[z] = "sealed"
    <3> DEFINE x == [zone |-> z, committed |-> FALSE,
                     remaining |-> {l \in Holds(disk, z) : disk.phys[l] \in CaughtUp.bits}]
    <3>1. cycle' = [popped EXCEPT !.answer = "stepped", !.sweep = x]
      BY <1>2, <2>3, Zenon DEF Condemn
    <3> HIDE DEF popped, x
    <3> QED
      BY <2>1, <3>1
  <2> QED
    BY <2>2, <2>3
<1>3. CASE Copy
  <2>1. PICK l : cycle' = [cycle EXCEPT !.sweep.remaining = @ \ {l},
                              !.answer = IF CopyForward(disk, l).ok THEN "stepped" ELSE "refused"]
    BY <1>3, Zenon DEF Copy
  <2> QED
    BY <1>1, <2>1
<1>4. CASE CommitCopies
  BY <1>1, <1>4 DEF CommitCopies
<1>5. CASE WaitForReaders
  BY <1>1, <1>5 DEF WaitForReaders
<1>6. CASE Refuse
  BY <1>1, <1>6 DEF Refuse
<1>7. CASE Recycle
  BY <1>1, <1>7 DEF Recycle
<1> QED
  BY <1>2, <1>3, <1>4, <1>5, <1>6, <1>7

(* How each client action changes the root set. *)
LEMMA OpenWriteRoots ==
    ASSUME TypeOK, NEW w \in Writers, OpenWrite(w)
    PROVE  Rewrites(roots, roots', w, [blocks |-> {}, at |-> disk.free, wrote |-> {}, own |-> {}])
<1> DEFINE x == [blocks |-> {}, at |-> disk.free, wrote |-> {}, own |-> {}]
<1>1. x \in WriteSets
  BY DEF WriteSets, TypeOK, Disks
<1>2. roots' = [roots EXCEPT !.open = Inserted(@, w, x)] /\ roots \in RootSets
  BY DEF OpenWrite, TypeOK
<1> HIDE DEF x
<1>3. Rewrites(roots, roots', w, x)
  BY <1>1, <1>2, OpensOK
<1> QED
  BY <1>3 DEF x

LEMMA WriteRoots ==
    ASSUME BaseInv, NEW w \in Writers, NEW o \in Objects, Write(w, o)
    PROVE  /\ w \in DOMAIN roots.open
           /\ PutAllAs(disk, PutObject(disk, o), Reach(o)) /\ disk' = PutObject(disk, o).disk
           /\ disk' \in Disks /\ Steady(disk, disk')
           /\ \/ /\ PutObject(disk, o).ok
                 /\ Rewrites(roots, roots', w,
                             Wrote(roots.open[w], disk', {o}, Reach(o) \ DOMAIN disk.located))
              \/ roots' = roots
<1> DEFINE put == PutObject(disk, o)
<1>1. DiskOK(disk) /\ roots \in RootSets
  BY DEF BaseInv, TypeOK
<1>2. PutAllAs(disk, put, Reach(o))
  <2>1. PutAllAs(disk, put, Range(Content[o]) \cup {o})
    BY <1>1, PutObjectOK
  <2>2. Reach(o) = Range(Content[o]) \cup {o}
    BY DEF Reach
  <2> QED
    BY <2>1, <2>2, Zenon
<1>3. /\ w \in DOMAIN roots.open /\ disk' = put.disk
      /\ roots' = IF put.ok
                    THEN [Record(roots, w, put.disk) EXCEPT
                            !.open[w].wrote = @ \cup {o},
                            !.open[w].own = @ \cup (Reach(o) \ DOMAIN disk.located)]
                    ELSE roots
  BY Zenon DEF Write
<1> HIDE DEF put
<1>4. Steady(disk, disk') /\ disk' \in Disks
  BY <1>1, <1>2, <1>3, PutIsSteady DEF Steady, DiskOK
<1>5. CASE put.ok
  <2> DEFINE Y == Reach(o) \ DOMAIN disk.located
  <2>1. roots' = [Record(roots, w, disk') EXCEPT !.open[w].wrote = @ \cup {o},
                                                 !.open[w].own = @ \cup Y]
    BY <1>3, <1>5, Zenon
  <2>2. Y \in SUBSET Blobs
    BY DEF Reach, Blobs, Chunks
  <2> HIDE DEF Y
  <2>3. Rewrites(roots, roots', w, Wrote(roots.open[w], disk', {o}, Y))
    <3>1. roots \in RootSets /\ w \in DOMAIN roots.open /\ disk' \in Disks
      BY <1>1, <1>3, <1>4
    <3>2. \A q \in Objects, Z \in SUBSET Blobs :
             Rewrites(roots, [Record(roots, w, disk') EXCEPT !.open[w].wrote = @ \cup {q},
                                                             !.open[w].own = @ \cup Z],
                      w, Wrote(roots.open[w], disk', {q}, Z))
      BY <3>1, RecordOK, Zenon
    <3>3. Rewrites(roots, [Record(roots, w, disk') EXCEPT !.open[w].wrote = @ \cup {o},
                                                          !.open[w].own = @ \cup Y],
                   w, Wrote(roots.open[w], disk', {o}, Y))
      BY <2>2, <3>2, Zenon
    <3> QED
      BY <2>1, <3>3, Zenon
  <2> QED
    BY <1>2, <1>3, <1>4, <1>5, <2>3 DEF put, Y
<1>6. CASE ~put.ok
  BY <1>2, <1>3, <1>4, <1>6 DEF put
<1> QED
  BY <1>5, <1>6

LEMMA CommitRoots ==
    ASSUME TypeOK, NEW w \in Writers, Commit(w)
    PROVE  /\ w \in DOMAIN roots.open
           /\ \E o \in roots.open[w].wrote : Closes(roots, roots', w, roots.pinned \cup {o})
<1>1. roots \in RootSets /\ disk \in Disks /\ w \in DOMAIN roots.open
  BY DEF TypeOK, Commit
<1>2. PICK o \in roots.open[w].wrote : roots' = Adopted(Record(roots, w, disk), w, o)
  BY DEF Commit
<1> DEFINE s == Record(roots, w, disk)
           x == Told(roots.open[w], disk)
<1>3. Rewrites(roots, s, w, x)
  BY <1>1, RecordOK, Zenon
<1>4. o \in Objects /\ roots.pinned \in SUBSET Objects
  BY <1>1, OpenSetMeans, Zenon DEF WriteSets, RootSets
<1> HIDE DEF s, x
<1>5. s \in RootSets /\ s.pinned = roots.pinned
  BY <1>3 DEF Rewrites
<1>6. Closes(s, roots', w, roots.pinned \cup {o})
  <2>1. roots' = [s EXCEPT !.pinned = roots.pinned \cup {o}, !.open = Restrict(@, DOMAIN @ \ {w})]
    BY <1>2, <1>5 DEF Adopted, s
  <2>2. roots.pinned \cup {o} \in SUBSET Objects
    BY <1>4
  <2> QED
    BY <1>5, <2>1, <2>2, ClosesOK, Zenon
<1>7. Closes(roots, roots', w, roots.pinned \cup {o})
  BY <1>3, <1>6 DEF Closes, Rewrites
<1> QED
  BY <1>1, <1>7

LEMMA AbandonRoots ==
    ASSUME TypeOK, NEW w \in Writers, Abandon(w)
    PROVE  Closes(roots, roots', w, roots.pinned)
<1>1. roots \in RootSets /\ roots.pinned \in SUBSET Objects
  BY DEF TypeOK, RootSets
<1>2. roots' = [roots EXCEPT !.pinned = roots.pinned, !.open = Restrict(@, DOMAIN @ \ {w})]
  <2>1. roots' = [roots EXCEPT !.open = Restrict(@, DOMAIN @ \ {w})]
    BY DEF Abandon
  <2> QED
    BY <1>1, <2>1, Zenon DEF RootSets
<1> QED
  BY <1>1, <1>2, ClosesOK, Zenon

LEMMA UnpinRoots ==
    ASSUME TypeOK, NEW o, Unpin(o)
    PROVE  roots' \in RootSets /\ roots'.open = roots.open /\ roots'.pinned \subseteq roots.pinned
  BY DEF TypeOK, RootSets, Unpin

(* No reader is left in a zone that is reset. *)
LEMMA RecycleReaders ==
    ASSUME BaseInv, Recycle
    PROVE  /\ RecycledAs(disk, disk', cycle.sweep.zone) /\ ReadersOK'
<1> DEFINE z == cycle.sweep.zone
<1>1. DiskOK(disk) /\ disk \in Disks /\ readers \in [Readers -> Beliefs \cup {None}]
  BY DEF BaseInv, TypeOK
<1>2. /\ disk.state[z] = "condemned" /\ disk.copies = << >> /\ disk.reads[z] = 0
      /\ disk' = Recycled(disk, z) /\ readers' = readers
  BY Zenon DEF Recycle, MayRecycle, NoReaderBelievesTheZone
<1> HIDE DEF z
<1>3. RecycledAs(disk, disk', z)
  BY <1>1, <1>2, RecycledOK
<1>4. z \in Zones => Believers(readers, z) = {}
  <2> SUFFICES ASSUME z \in Zones PROVE Believers(readers, z) = {}
    OBVIOUS
  <2>1. Believers(readers, z) \in SUBSET Readers
    BY DEF Believers
  <2>2. IsFiniteSet(Believers(readers, z))
    BY <2>1, CollectAssumption, FS_Subset DEF CollectAssumption
  <2>3. Cardinality(Believers(readers, z)) = 0
    BY <1>2 DEF BaseInv, ReadersOK
  <2> QED
    BY <2>2, <2>3, FS_EmptySet
<1>5. ASSUME NEW r \in Readers, readers[r] # None
      PROVE  Sits(disk', readers[r].logical, readers[r].at)
  <2>1. readers[r].at \in Places
    BY <1>1, <1>5 DEF Beliefs
  <2>2. readers[r].at[1] \in Zones
    BY <2>1, PlaceIsPair
  <2>3. readers[r].at[1] # z
    BY <1>4, <1>5, <2>2 DEF Believers
  <2>4. Sits(disk, readers[r].logical, readers[r].at)
    BY <1>5 DEF BaseInv, ReadersOK
  <2> QED
    BY <1>3, <2>1, <2>3, <2>4, Zenon DEF RecycledAs, Sits
<1>6. \A y \in Zones : disk'.reads[y] = Cardinality(Believers(readers', y))
  <2> SUFFICES ASSUME NEW y \in Zones PROVE disk'.reads[y] = Cardinality(Believers(readers, y))
    BY <1>2
  <2>1. disk'.reads[y] = IF y = z THEN 0 ELSE disk.reads[y]
    BY <1>3 DEF RecycledAs
  <2>2. disk.reads[y] = Cardinality(Believers(readers, y))
    BY DEF BaseInv, ReadersOK
  <2> QED
    BY <1>2, <2>1, <2>2
<1> QED
  BY <1>2, <1>3, <1>5, <1>6, Zenon DEF ReadersOK, z

(* What each step of the cycle does to the disk. *)
LEMMA StepDisk ==
    ASSUME BaseInv
    PROVE  /\ Publish => Still(disk, disk')
           /\ Condemn => Still(disk, disk')
           /\ Copy => Still(disk, disk')
           /\ CommitCopies => /\ Steady(disk, disk') /\ DOMAIN disk'.phys = DOMAIN disk.phys
                              /\ disk'.located = disk.located /\ disk'.free = disk.free
                              /\ mark' = Rebuilt(CaughtUp, disk', roots)
<1>1. DiskOK(disk)
  BY DEF BaseInv
<1>2. ASSUME Publish PROVE Still(disk, disk')
  BY <1>1, <1>2, CountedOK DEF Publish
<1>3. ASSUME Condemn PROVE Still(disk, disk')
  <2> DEFINE z == cycle.chosen[Len(cycle.chosen)]
  <2>1. CASE disk.state[z] # "sealed"
    <3>1. disk' = disk
      BY <1>3, <2>1, Zenon DEF Condemn
    <3> QED
      BY <1>1, <3>1, StillReflexive
  <2>2. CASE disk.state[z] = "sealed"
    <3>1. disk' = [disk EXCEPT !.state[z] = "condemned"]
      BY <1>3, <2>2, Zenon DEF Condemn
    <3> HIDE DEF z
    <3> QED
      BY <1>1, <2>2, <3>1, CondemnedOK
  <2> QED
    BY <2>1, <2>2
<1>4. ASSUME Copy PROVE Still(disk, disk')
  <2>1. PICK l : disk' = CopyForward(disk, l).disk
    BY <1>4, Zenon DEF Copy
  <2> QED
    BY <1>1, <2>1, CopyForwardOK
<1>5. ASSUME CommitCopies
      PROVE  /\ Steady(disk, disk') /\ DOMAIN disk'.phys = DOMAIN disk.phys
             /\ disk'.located = disk.located /\ disk'.free = disk.free
             /\ mark' = Rebuilt(CaughtUp, disk', roots)
  <2> DEFINE d == CommittedCopies(disk)
             m == Rebuilt(CaughtUp, d, roots)
  <2>1. mark' = m /\ disk' = Counted(d, m)
    BY <1>5, Zenon DEF CommitCopies
  <2>2. Steady(disk, d) /\ DOMAIN d.phys = DOMAIN disk.phys /\ d.located = disk.located
        /\ d.free = disk.free
    BY <1>1, CommittedCopiesOK
  <2> HIDE DEF d
  <2>3. Still(d, Counted(d, m))
    BY <2>2, CountedOK DEF Steady
  <2>4. Still(d, disk')
    BY <2>1, <2>3, Zenon
  <2>5. disk'.phys = d.phys /\ disk'.located = d.located
    BY <2>4 DEF Still
  <2>6. Rebuilt(CaughtUp, disk', roots) = m
    <3>1. \A X : Where(disk', X) = Where(d, X)
      BY <2>5, Zenon DEF Where
    <3>2. \A h : Extent(disk', h) = Extent(d, h)
      BY <2>5, Zenon DEF Extent
    <3>3. \A h : Occupied(disk', h) = Occupied(d, h)
      BY <3>1, <3>2, Zenon DEF Occupied
    <3>4. {Occupied(disk', h) : h \in CaughtUp.live} = {Occupied(d, h) : h \in CaughtUp.live}
      BY <3>3
    <3> QED
      BY <3>1, <3>4, Zenon DEF Rebuilt
  <2>7. Steady(disk, disk')
    BY <2>2, <2>4, Zenon DEF Steady, Still
  <2> HIDE DEF m
  <2> QED
    BY <2>1, <2>2, <2>4, <2>6, <2>7, Zenon DEF Still
<1> QED
  BY <1>2, <1>3, <1>4, <1>5

LEMMA BaseStep ==
    ASSUME BaseInv, [Next]_vars
    PROVE  BaseInv'
<1>1. TypeOK /\ DiskOK(disk) /\ ReadersOK /\ disk \in Disks /\ roots \in RootSets /\ mark \in Marks
      /\ "phase" \in DOMAIN cycle
  BY DEF BaseInv, TypeOK
<1>2. Steady(disk, disk)
  BY <1>1, StillReflexive DEF Still
<1>3. CaughtUp \in Marks
  BY <1>1, CaughtUpIs
<1>4. ASSUME NEW w \in Writers, OpenWrite(w) \/ Commit(w) \/ Abandon(w) PROVE BaseInv'
  <2>1. roots' \in RootSets
    BY <1>1, <1>4, OpenWriteRoots, CommitRoots, AbandonRoots DEF Rewrites, Closes
  <2>2. disk' = disk /\ readers' = readers /\ mark' = mark /\ cycle' = cycle
    BY <1>4 DEF OpenWrite, Commit, Abandon
  <2> QED
    BY <1>1, <1>2, <2>1, <2>2, BaseKept
<1>5. ASSUME NEW w \in Writers, NEW o \in Objects, Write(w, o) PROVE BaseInv'
  <2>1. Steady(disk, disk') /\ roots' \in RootSets
    BY <1>1, <1>5, WriteRoots, Zenon DEF Rewrites
  <2>2. readers' = readers /\ mark' = mark /\ cycle' = cycle
    BY <1>5 DEF Write
  <2> QED
    BY <1>1, <2>1, <2>2, BaseKept
<1>6. ASSUME NEW o \in Objects, Unpin(o) PROVE BaseInv'
  <2>1. roots' \in RootSets
    BY <1>1, <1>6, UnpinRoots
  <2>2. disk' = disk /\ readers' = readers /\ mark' = mark /\ cycle' = cycle
    BY <1>6 DEF Unpin
  <2> QED
    BY <1>1, <1>2, <2>1, <2>2, BaseKept
<1>7. ASSUME NEW r \in Readers, HoldRead(r) \/ ReleaseRead(r) PROVE BaseInv'
  BY <1>7, HoldReadOK, ReleaseReadOK
<1>8. CASE Begin
  <2>1. mark' \in Marks
    <3>1. roots.pinned \subseteq Blobs
      BY <1>1 DEF RootSets, Blobs
    <3>2. mark' = Walk(Restarted, roots.pinned)
      BY <1>8 DEF Begin
    <3> QED
      BY <3>1, <3>2 DEF Walk, Restarted, Marks
  <2>2. "phase" \in DOMAIN cycle'
    BY <1>8 DEF Begin
  <2>3. disk' = disk /\ readers' = readers /\ roots' = roots
    BY <1>8 DEF Begin
  <2> QED
    BY <1>1, <1>2, <2>1, <2>2, <2>3, BaseKept
<1>9. CASE MarkOne
  <2>1. PICK h \in CaughtUp.pending : /\ mark' = Visit(CaughtUp, disk, h)
            /\ cycle' = Answer("marking", IF VisitFails(disk, h) THEN "refused" ELSE "stepped")
    BY <1>9 DEF MarkOne
  <2>2. h \in Blobs
    BY <1>3 DEF Marks
  <2>3. mark' \in Marks
    BY <1>1, <1>3, <2>1, <2>2, VisitType
  <2>4. "phase" \in DOMAIN cycle'
    BY <1>1, <2>1, CyclePhase
  <2>5. disk' = disk /\ readers' = readers /\ roots' = roots
    BY <1>9 DEF MarkOne
  <2> QED
    BY <1>1, <1>2, <2>3, <2>4, <2>5, BaseKept
<1>10. CASE Publish
  <2>1. Steady(disk, disk')
    BY <1>10, StepDisk DEF Still
  <2>2. /\ mark' = CaughtUp /\ cycle' = Answer("selecting", "stepped")
        /\ roots' = roots /\ readers' = readers
    BY <1>10 DEF Publish
  <2>3. "phase" \in DOMAIN cycle'
    BY <1>1, <2>2, CyclePhase
  <2> QED
    BY <1>1, <1>3, <2>1, <2>2, <2>3, BaseKept
<1>11. CASE Select
  <2>1. "phase" \in DOMAIN cycle'
    <3> DEFINE x == InOrder(disk, Candidates(disk))
    <3>1. \/ cycle' = Answer("idle", "done")
          \/ cycle' = [Answer("sweeping", "stepped") EXCEPT !.chosen = x]
      BY <1>11, Zenon DEF Select
    <3> HIDE DEF x
    <3>2. "phase" \in DOMAIN Answer("idle", "done") /\ "phase" \in DOMAIN Answer("sweeping", "stepped")
      BY <1>1, CyclePhase
    <3> QED
      BY <3>1, <3>2
  <2>2. mark' = CaughtUp /\ disk' = disk /\ roots' = roots /\ readers' = readers
    BY <1>11, Zenon DEF Select
  <2> QED
    BY <1>1, <1>2, <1>3, <2>1, <2>2, BaseKept
<1>12. CASE Reselect
  <2>1. /\ mark' = CaughtUp /\ disk' = disk /\ roots' = roots /\ readers' = readers
        /\ cycle' = Answer("selecting", "stepped")
    BY <1>12 DEF Reselect
  <2>2. "phase" \in DOMAIN cycle'
    BY <1>1, <2>1, CyclePhase
  <2> QED
    BY <1>1, <1>2, <1>3, <2>1, <2>2, BaseKept
<1>13. CASE Condemn \/ Copy
  <2>1. Steady(disk, disk')
    BY <1>13, StepDisk DEF Still
  <2>2. mark' = CaughtUp /\ roots' = roots /\ readers' = readers
    BY <1>13, Zenon DEF Condemn, Copy
  <2>3. "phase" \in DOMAIN cycle'
    BY <1>1, <1>13, SweepPhase
  <2> QED
    BY <1>1, <1>3, <2>1, <2>2, <2>3, BaseKept
<1>14. CASE CommitCopies
  <2>1. Steady(disk, disk') /\ mark' = Rebuilt(CaughtUp, disk', roots)
    BY <1>14, StepDisk
  <2>2. mark' \in Marks
    BY <1>3, <2>1, RebuiltType DEF Steady, DiskOK
  <2>3. roots' = roots /\ readers' = readers
    BY <1>14, Zenon DEF CommitCopies
  <2>4. "phase" \in DOMAIN cycle'
    BY <1>1, <1>14, SweepPhase
  <2> QED
    BY <1>1, <2>1, <2>2, <2>3, <2>4, BaseKept
<1>15. CASE WaitForReaders \/ Refuse
  <2>1. mark' = CaughtUp /\ disk' = disk /\ roots' = roots /\ readers' = readers
    BY <1>15, Zenon DEF WaitForReaders, Refuse
  <2>2. "phase" \in DOMAIN cycle'
    BY <1>1, <1>15, SweepPhase
  <2> QED
    BY <1>1, <1>2, <1>3, <2>1, <2>2, BaseKept
<1>16. CASE Recycle
  <2>1. DiskOK(disk') /\ disk' \in Disks /\ ReadersOK'
    BY <1>16, RecycleReaders DEF RecycledAs, DiskOK
  <2>2. mark' = CaughtUp /\ roots' = roots /\ readers' = readers
    BY <1>16, Zenon DEF Recycle
  <2>3. "phase" \in DOMAIN cycle'
    BY <1>1, <1>16, SweepPhase
  <2>4. readers' \in [Readers -> Beliefs \cup {None}]
    BY <1>1, <2>2 DEF TypeOK
  <2> QED
    BY <1>1, <1>3, <2>1, <2>2, <2>3, <2>4, Zenon DEF BaseInv, TypeOK
<1>17. CASE UNCHANGED vars
  <2>1. disk' = disk /\ roots' = roots /\ mark' = mark /\ cycle' = cycle /\ readers' = readers
    BY <1>17 DEF vars
  <2> QED
    BY <1>1, <1>2, <2>1, BaseKept
<1> QED
  BY <1>4, <1>5, <1>6, <1>7, <1>8, <1>9, <1>10, <1>11, <1>12, <1>13, <1>14, <1>15, <1>16, <1>17, Zenon
     DEF Next, Client, Step

LEMMA BaseInit ==
    ASSUME Init
    PROVE  BaseInv
<1>1. 1 \in 1 .. Capacity + 1 /\ 0 \in 0 .. ZoneBlocks
  BY CapacityIsNat, CollectAssumption DEF CollectAssumption
<1>2. /\ << >> \in Partial(Logical, Places) /\ << >> \in Partial(Blobs, Logical)
      /\ << >> \in Partial(Writers, WriteSets) /\ DOMAIN << >> = {}
  BY EmptyIsPartial, Zenon
<1>3. disk \in Disks
  BY <1>1, <1>2 DEF Init, Disks, States
<1>4. /\ disk.phys = << >> /\ disk.copies = << >> /\ disk.located = << >> /\ disk.open = None
      /\ \A z \in Zones : disk.wp[z] = 0 /\ disk.reads[z] = 0
  BY DEF Init
<1>5. DiskOK(disk)
  BY <1>2, <1>3, <1>4 DEF DiskOK
<1>6. roots \in RootSets /\ mark \in Marks /\ "phase" \in DOMAIN cycle
  BY <1>2, Zenon DEF Init, RootSets, Marks, Restarted
<1>7. readers \in [Readers -> Beliefs \cup {None}] /\ \A r \in Readers : readers[r] = None
  BY DEF Init
<1>8. ReadersOK
  <2>1. \A z \in Zones : Believers(readers, z) = {}
    BY <1>7 DEF Believers
  <2> QED
    BY <1>4, <1>7, <2>1, FS_EmptySet, Zenon DEF ReadersOK
<1> QED
  BY <1>3, <1>5, <1>6, <1>7, <1>8 DEF BaseInv, TypeOK

(* The map, the store and the readers agree after every interleaving of
   publishes, reads and collector steps, for every zone size, content and
   number of writers and readers. *)
THEOREM BaseAlways == Spec => []BaseInv
  BY BaseInit, BaseStep, PTL DEF Spec

(* For every number of zones, objects, publishes and readers, and whether or
   not content is put twice: a reader that resolved a block and still holds
   its zone finds at that place the bytes it resolved, however often
   copy_forward moved the block since.  The wait for readers before a reset
   (collect.rs) is enough because hold_read counts exactly them. *)
THEOREM ReadersSeeAlways == Spec => []ReadersSeeWhatTheyResolved
<1>1. BaseInv => ReadersSeeWhatTheyResolved
  BY Zenon DEF BaseInv, ReadersOK, Sits, ReadersSeeWhatTheyResolved
<1> QED
  BY <1>1, BaseAlways, PTL

-----------------------------------------------------------------------------
(* What is marked survives. *)

(* What d stores e stores, under the same blocks. *)
Saves(d, e) ==
    /\ d.free <= e.free
    /\ \A h : Stored(d, h) => Stored(e, h) /\ Extent(e, h) = Extent(d, h)

(* What both store is at the same places. *)
Leaves(d, e) == \A h : Stored(d, h) /\ Stored(e, h) => Occupied(e, h) = Occupied(d, h)

(* What d names e names, and e has got back none of it that d had lost. *)
Names(d, e) ==
    /\ DOMAIN d.located \subseteq DOMAIN e.located
    /\ \A h \in DOMAIN d.located : Stored(e, h) => Stored(d, h)

LEMMA GrowsSaves ==
    ASSUME NEW d, NEW e, DiskOK(d), Grows(d, e)
    PROVE  Saves(d, e) /\ Leaves(d, e) /\ Names(d, e)
<1>1. d.free <= e.free
  BY Zenon DEF Grows
<1>2. ASSUME NEW h, Stored(d, h)
      PROVE  Stored(e, h) /\ Extent(e, h) = Extent(d, h) /\ Occupied(e, h) = Occupied(d, h)
  <2>1. h \in DOMAIN d.located /\ Extent(d, h) \subseteq DOMAIN d.phys
    BY <1>2 DEF Stored
  <2>2. Extent(e, h) = Extent(d, h)
    BY <2>1, Zenon DEF Grows, Extent
  <2>3. Extent(e, h) \subseteq DOMAIN e.phys /\ h \in DOMAIN e.located
    BY <2>1, <2>2 DEF Grows
  <2> DEFINE X == Extent(d, h)
  <2>4. Where(e, X) = Where(d, X)
    <3>1. X \subseteq DOMAIN d.phys /\ X \subseteq DOMAIN e.phys
      BY <2>1, <2>2, <2>3
    <3>2. \A l \in X : e.phys[l] = d.phys[l]
      BY <3>1, Zenon DEF Grows
    <3> HIDE DEF X
    <3>3. X \cap DOMAIN d.phys = X /\ X \cap DOMAIN e.phys = X
      BY <3>1
    <3>4. {e.phys[l] : l \in X} = {d.phys[l] : l \in X}
      BY <3>2
    <3> QED
      BY <3>3, <3>4, Zenon DEF Where
  <2> QED
    BY <2>2, <2>3, <2>4, Zenon DEF Stored, Occupied
<1>3. ASSUME NEW h \in DOMAIN d.located, Stored(e, h) PROVE Stored(d, h)
  <2>1. Extent(e, h) = Extent(d, h) /\ Extent(e, h) \subseteq DOMAIN e.phys
    BY <1>3, Zenon DEF Grows, Extent, Stored
  <2>2. d.located[h] + Size[h] <= d.free /\ d \in Disks
    BY DEF DiskOK
  <2>3. d.located[h] \in Nat /\ Size[h] \in Nat
    BY <2>2, LocatedMeans
  <2>4. \A l \in Extent(d, h) : ~(d.free <= l)
    BY <2>2, <2>3, CapacityIsNat DEF Extent, Disks
  <2>5. \A l \in DOMAIN e.phys \ DOMAIN d.phys : d.free <= l
    BY DEF Grows
  <2>6. Extent(d, h) \subseteq DOMAIN d.phys
    BY <2>1, <2>4, <2>5
  <2> QED
    BY <2>6 DEF Stored
<1>4. DOMAIN d.located \subseteq DOMAIN e.located
  BY DEF Grows
<1> QED
  BY <1>1, <1>2, <1>3, <1>4, Zenon DEF Saves, Leaves, Names

(* The disks name the same blobs at the same places. *)
Same(d, e) == e.phys = d.phys /\ e.located = d.located /\ e.free = d.free

LEMMA SameSaves ==
    ASSUME NEW d \in Disks, NEW e, Same(d, e)
    PROVE  Saves(d, e) /\ Leaves(d, e) /\ Names(d, e)
<1>1. d.free <= d.free
  BY CapacityIsNat DEF Disks
<1>2. \A h : Extent(e, h) = Extent(d, h)
  BY Zenon DEF Same, Extent
<1>3. \A h : Stored(e, h) <=> Stored(d, h)
  BY <1>2, Zenon DEF Same, Stored
<1>4. \A h : Occupied(e, h) = Occupied(d, h)
  <2>1. \A X : Where(e, X) = Where(d, X)
    BY Zenon DEF Same, Where
  <2> QED
    BY <1>2, <2>1, Zenon DEF Occupied
<1> QED
  BY <1>1, <1>2, <1>3, <1>4, Zenon DEF Same, Saves, Leaves, Names

LEMMA RootsSaved ==
    ASSUME NEW d \in Disks, NEW e \in Disks, NEW r \in RootSets, RootsOK(d, r),
           Saves(d, e), Names(d, e)
    PROVE  RootsOK(e, r)
<1>1. ASSUME NEW w \in DOMAIN r.open PROVE r.open[w].at <= e.free
  <2>1. r.open[w].at <= d.free /\ d.free <= e.free
    BY DEF RootsOK, Saves
  <2>2. r.open[w].at \in Nat /\ d.free \in Nat /\ e.free \in Nat
    BY OpenSetMeans, CapacityIsNat DEF WriteSets, Disks
  <2> QED
    BY <2>1, <2>2
<1>2. ASSUME NEW w \in DOMAIN r.open, NEW h \in r.open[w].own
      PROVE  Stored(e, h) /\ Extent(e, h) \subseteq r.open[w].blocks
  <2>1. Stored(d, h) /\ Extent(d, h) \subseteq r.open[w].blocks
    BY Zenon DEF RootsOK
  <2>2. Stored(e, h) /\ Extent(e, h) = Extent(d, h)
    BY <2>1, Zenon DEF Saves
  <2> QED
    BY <2>1, <2>2, Zenon
<1>3. \A o \in r.pinned : Reach(o) \subseteq DOMAIN e.located
  BY Zenon DEF RootsOK, Names
<1>4. \A w \in DOMAIN r.open : \A o \in r.open[w].wrote : Reach(o) \subseteq DOMAIN e.located
  BY Zenon DEF RootsOK, Names
<1> QED
  BY <1>1, <1>2, <1>3, <1>4, Zenon DEF RootsOK

LEMMA LiveSaved ==
    ASSUME NEW d, NEW e, NEW m, LiveOK(d, m), Leaves(d, e), Names(d, e)
    PROVE  LiveOK(e, m)
<1>1. m.seen \subseteq DOMAIN e.located
  BY Zenon DEF LiveOK, Names
<1>2. \A h \in m.pending : h \in DOMAIN e.located /\ Children(h) \subseteq DOMAIN e.located
  BY Zenon DEF LiveOK, Names
<1>3. ASSUME NEW h \in m.seen, Stored(e, h) PROVE h \in m.live /\ Occupied(e, h) \subseteq m.bits
  <2>1. Stored(d, h)
    BY <1>3, Zenon DEF LiveOK, Names
  <2>2. h \in m.live /\ Occupied(d, h) \subseteq m.bits
    BY <2>1, Zenon DEF LiveOK
  <2>3. Occupied(e, h) = Occupied(d, h)
    BY <1>3, <2>1, Zenon DEF Leaves
  <2> QED
    BY <2>2, <2>3, Zenon
<1> QED
  BY <1>1, <1>2, <1>3, Zenon DEF LiveOK

LEMMA ChildrenReached ==
    ASSUME NEW o
    PROVE  o \in Reach(o) /\ Children(o) \subseteq Reach(o)
  BY DEF Reach, Children

LEMMA ChunksAreLeaves ==
    ASSUME NEW h, NEW c \in Children(h)
    PROVE  Children(c) = {}
<1>1. c \in Chunks
  BY DEF Children, Chunks
<1> QED
  BY <1>1, CollectAssumption DEF Children, CollectAssumption

LEMMA CaughtUpLive ==
    ASSUME TypeOK, RootsOK(disk, roots), LiveOK(disk, mark)
    PROVE  LiveOK(disk, CaughtUp)
<1> DEFINE m == CaughtUp
<1>1. /\ m.bits = mark.bits \cup Where(disk, TransientBlocks(roots))
      /\ m.pending = mark.pending \cup (Unmarked \ mark.seen)
      /\ m.roots = mark.roots /\ m.live = mark.live /\ m.seen = mark.seen
  BY CaughtUpIs
<1> HIDE DEF m
<1>2. ASSUME NEW h \in m.pending
      PROVE  h \in DOMAIN disk.located /\ Children(h) \subseteq DOMAIN disk.located
  <2>1. CASE h \in mark.pending
    BY <2>1, Zenon DEF LiveOK
  <2>2. CASE h \in Unmarked
    <3>1. h \in roots.pinned
      BY <2>2 DEF Unmarked
    <3>2. h \in Reach(h) /\ Children(h) \subseteq Reach(h)
      BY ChildrenReached
    <3>3. Reach(h) \subseteq DOMAIN disk.located
      BY <3>1 DEF RootsOK
    <3> QED
      BY <3>2, <3>3
  <2> QED
    BY <1>1, <2>1, <2>2
<1>3. ASSUME NEW h \in m.seen, Stored(disk, h) PROVE h \in m.live /\ Occupied(disk, h) \subseteq m.bits
  <2>1. h \in mark.live /\ Occupied(disk, h) \subseteq mark.bits
    BY <1>1, <1>3, Zenon DEF LiveOK
  <2> QED
    BY <1>1, <2>1
<1>4. ASSUME NEW h \in m.roots PROVE h \in m.seen /\ Children(h) \subseteq m.seen \cup m.pending
  <2>1. h \in mark.seen /\ Children(h) \subseteq mark.seen \cup mark.pending
    BY <1>1, Zenon DEF LiveOK
  <2> QED
    BY <1>1, <2>1
<1>5. m.seen \subseteq DOMAIN disk.located
  BY <1>1, Zenon DEF LiveOK
<1> QED
  BY <1>2, <1>3, <1>4, <1>5, Zenon DEF LiveOK, m

(* What a visit of h makes of the mark: a stored blob does not fail it. *)
LEMMA VisitIs ==
    ASSUME NEW d \in Disks, NEW m \in Marks, NEW h \in m.pending, h \in DOMAIN d.located
    PROVE  LET v == Visit(m, d, h)
           IN  /\ v.seen = m.seen \cup {h}
               /\ m.live \subseteq v.live /\ m.bits \subseteq v.bits
               /\ Stored(d, h) => h \in v.live /\ Occupied(d, h) \subseteq v.bits
               /\ \/ v.pending = m.pending \ {h} /\ v.roots = m.roots
                  \/ /\ v.pending = (m.pending \ {h}) \cup (Children(h) \ (m.seen \cup {h}))
                     /\ v.roots = m.roots \cup {h}
<1> DEFINE popped   == [m EXCEPT !.pending = @ \ {h}, !.seen = @ \cup {h}]
           occupied == [popped EXCEPT !.live = @ \cup {h}, !.bits = @ \cup Occupied(d, h)]
           k == Walk(occupied, Children(h))
           v == Visit(m, d, h)
<1>1. Stored(d, h) => ~VisitFails(d, h)
  <2> SUFFICES ASSUME Stored(d, h) PROVE ~VisitFails(d, h)
    OBVIOUS
  <2>1. Extent(d, h) \subseteq DOMAIN d.phys
    BY DEF Stored
  <2>2. d.located[h] \in Extent(d, h)
    BY LocatedMeans DEF Extent
  <2> QED
    BY <2>1, <2>2 DEF VisitFails, Mapped
<1>2. \/ VisitFails(d, h) /\ (v = popped \/ v = occupied)
      \/ ~VisitFails(d, h) /\ v = [k EXCEPT !.roots = @ \cup {h}]
  BY Zenon DEF Visit
<1>3. /\ popped.pending = m.pending \ {h} /\ popped.seen = m.seen \cup {h}
      /\ popped.live = m.live /\ popped.bits = m.bits /\ popped.roots = m.roots
      /\ DOMAIN popped = {"bits", "roots", "live", "pending", "seen"}
  BY DEF Marks
<1> HIDE DEF popped
<1>4. /\ DOMAIN occupied = DOMAIN popped
      /\ occupied.pending = popped.pending /\ occupied.seen = popped.seen
      /\ occupied.live = popped.live \cup {h} /\ occupied.bits = popped.bits \cup Occupied(d, h)
      /\ occupied.roots = popped.roots
  BY <1>3
<1> HIDE DEF occupied
<1>5. /\ DOMAIN k = DOMAIN occupied
      /\ k.pending = occupied.pending \cup (Children(h) \ occupied.seen)
      /\ k.live = occupied.live /\ k.bits = occupied.bits /\ k.roots = occupied.roots
      /\ k.seen = occupied.seen
  BY <1>3, <1>4 DEF Walk
<1> HIDE DEF k, v
<1>6. CASE VisitFails(d, h)
  BY <1>1, <1>2, <1>3, <1>4, <1>6 DEF v
<1>7. CASE ~VisitFails(d, h)
  <2>1. /\ v.pending = k.pending /\ v.live = k.live /\ v.bits = k.bits /\ v.seen = k.seen
        /\ v.roots = k.roots \cup {h}
    BY <1>2, <1>3, <1>4, <1>5, <1>7
  <2> QED
    BY <1>3, <1>4, <1>5, <2>1 DEF v
<1> QED
  BY <1>6, <1>7

LEMMA VisitLive ==
    ASSUME NEW d \in Disks, NEW m \in Marks, NEW h \in m.pending, LiveOK(d, m)
    PROVE  LiveOK(d, Visit(m, d, h))
<1> DEFINE v == Visit(m, d, h)
<1>1. h \in DOMAIN d.located /\ Children(h) \subseteq DOMAIN d.located
  BY Zenon DEF LiveOK
<1>2. /\ v.seen = m.seen \cup {h}
      /\ m.live \subseteq v.live /\ m.bits \subseteq v.bits
      /\ Stored(d, h) => h \in v.live /\ Occupied(d, h) \subseteq v.bits
      /\ \/ v.pending = m.pending \ {h} /\ v.roots = m.roots
         \/ /\ v.pending = (m.pending \ {h}) \cup (Children(h) \ (m.seen \cup {h}))
            /\ v.roots = m.roots \cup {h}
  BY <1>1, VisitIs
<1> HIDE DEF v
<1>3. ASSUME NEW x \in v.pending PROVE x \in DOMAIN d.located /\ Children(x) \subseteq DOMAIN d.located
  <2>1. CASE x \in m.pending
    BY <2>1, Zenon DEF LiveOK
  <2>2. CASE x \in Children(h)
    <3>1. Children(x) = {}
      BY <2>2, ChunksAreLeaves
    <3> QED
      BY <1>1, <2>2, <3>1
  <2> QED
    BY <1>2, <2>1, <2>2
<1>4. ASSUME NEW x \in v.seen, Stored(d, x) PROVE x \in v.live /\ Occupied(d, x) \subseteq v.bits
  <2>1. CASE x \in m.seen
    <3>1. x \in m.live /\ Occupied(d, x) \subseteq m.bits
      BY <1>4, <2>1, Zenon DEF LiveOK
    <3> QED
      BY <1>2, <3>1
  <2>2. CASE x = h
    BY <1>2, <1>4, <2>2
  <2> QED
    BY <1>2, <2>1, <2>2
<1>5. ASSUME NEW x \in v.roots PROVE x \in v.seen /\ Children(x) \subseteq v.seen \cup v.pending
  <2>1. CASE x \in m.roots
    <3>1. x \in m.seen /\ Children(x) \subseteq m.seen \cup m.pending
      BY <2>1, Zenon DEF LiveOK
    <3> QED
      BY <1>2, <3>1
  <2>2. CASE x \notin m.roots
    BY <1>2, <2>2
  <2> QED
    BY <2>1, <2>2
<1>6. v.seen \subseteq DOMAIN d.located
  BY <1>1, <1>2 DEF LiveOK
<1> QED
  BY <1>3, <1>4, <1>5, <1>6, Zenon DEF LiveOK, v

LEMMA RebuiltLive ==
    ASSUME NEW d \in Disks, NEW e \in Disks, NEW m \in Marks, LiveOK(d, m), Names(d, e), NEW r
    PROVE  LiveOK(e, Rebuilt(m, e, r)) /\ Rebuilt(m, e, r).pending = m.pending
<1> DEFINE X == (UNION {Occupied(e, h) : h \in m.live}) \cup Where(e, TransientBlocks(r))
           v == Rebuilt(m, e, r)
<1>1. v = [m EXCEPT !.bits = X]
  BY DEF Rebuilt
<1>2. \A h \in m.live : Occupied(e, h) \subseteq X
  BY Zenon
<1> HIDE DEF X, v
<1>3. v.bits = X /\ v.pending = m.pending /\ v.live = m.live /\ v.roots = m.roots /\ v.seen = m.seen
  BY <1>1 DEF Marks
<1>4. \A h \in m.pending : h \in DOMAIN e.located /\ Children(h) \subseteq DOMAIN e.located
  BY Zenon DEF LiveOK, Names
<1>5. \A h \in m.seen : Stored(e, h) => h \in m.live
  BY Zenon DEF LiveOK, Names
<1>6. m.seen \subseteq DOMAIN e.located
  BY Zenon DEF LiveOK, Names
<1> QED
  BY <1>2, <1>3, <1>4, <1>5, <1>6, Zenon DEF LiveOK, v

(* A blob none of whose blocks is in the zone that is reset. *)
LEMMA RecycleLeaves ==
    ASSUME NEW d \in Disks, NEW e, NEW z, RecycledAs(d, e, z), NEW h, Stored(d, h),
           \A l \in Extent(d, h) : d.phys[l][1] # z
    PROVE  Stored(e, h) /\ Extent(e, h) = Extent(d, h) /\ Occupied(e, h) = Occupied(d, h)
<1> DEFINE X == Extent(d, h)
<1>1. h \in DOMAIN d.located /\ X \subseteq DOMAIN d.phys
  BY DEF Stored
<1>2. e.located = d.located /\ Extent(e, h) = X
  BY DEF RecycledAs, Extent
<1> HIDE DEF X
<1>3. X \subseteq DOMAIN e.phys
  <2>1. \A l \in X : l \notin Holds(d, z)
    BY DEF Holds, X
  <2> QED
    BY <1>1, <2>1 DEF RecycledAs
<1>4. \A l \in X : e.phys[l] = d.phys[l]
  BY <1>3, Zenon DEF RecycledAs
<1>5. Where(e, X) = Where(d, X)
  <2>1. X \cap DOMAIN d.phys = X /\ X \cap DOMAIN e.phys = X
    BY <1>1, <1>3
  <2>2. {e.phys[l] : l \in X} = {d.phys[l] : l \in X}
    BY <1>4
  <2> QED
    BY <2>1, <2>2, Zenon DEF Where
<1> QED
  BY <1>1, <1>2, <1>3, <1>5, Zenon DEF Stored, Occupied, X

LEMMA RecycleNames ==
    ASSUME NEW d \in Disks, NEW e, NEW z, RecycledAs(d, e, z)
    PROVE  Leaves(d, e) /\ Names(d, e)
<1>1. /\ e.located = d.located /\ DOMAIN e.phys = DOMAIN d.phys \ Holds(d, z)
  BY DEF RecycledAs
<1>2. ASSUME NEW h, Stored(e, h)
      PROVE  Stored(d, h) /\ Occupied(e, h) = Occupied(d, h)
  <2>1. Extent(e, h) = Extent(d, h)
    BY <1>1, Zenon DEF Extent
  <2>2. h \in DOMAIN d.located /\ Extent(d, h) \subseteq DOMAIN d.phys \ Holds(d, z)
    BY <1>1, <1>2, <2>1 DEF Stored
  <2>3. Stored(d, h)
    BY <2>2 DEF Stored
  <2>4. \A l \in Extent(d, h) : d.phys[l][1] # z
    BY <2>2 DEF Holds
  <2> QED
    BY <2>3, <2>4, RecycleLeaves
<1> QED
  BY <1>1, <1>2, Zenon DEF Leaves, Names

(* What has its blocks marked is not in the zone a reset takes. *)
LEMMA RecycleSpares ==
    ASSUME BaseInv, MarkOK, Recycle, NEW h, Stored(disk, h),
           \/ h \in CaughtUp.seen
           \/ \E w \in DOMAIN roots.open : Extent(disk, h) \subseteq roots.open[w].blocks
    PROVE  Stored(disk', h) /\ Extent(disk', h) = Extent(disk, h)
<1> DEFINE z == cycle.sweep.zone
           m == CaughtUp
<1>1. disk \in Disks /\ TypeOK
  BY DEF BaseInv, TypeOK
<1>2. /\ m.bits \cap InZone(z) = {}
      /\ \A l \in TransientBlocks(roots) : l \in DOMAIN disk.phys /\ disk.phys[l] \in m.bits
  BY Zenon DEF Recycle, MayRecycle, Safe, NothingReachableIsSwept
<1>3. RecycledAs(disk, disk', z)
  BY RecycleReaders
<1>4. LiveOK(disk, m)
  BY <1>1, CaughtUpLive DEF MarkOK
<1> HIDE DEF z, m
<1>5. \A l \in DOMAIN disk.phys : disk.phys[l] \in m.bits => disk.phys[l][1] # z
  <2>1. \A l \in DOMAIN disk.phys : disk.phys[l] \in Places
    BY <1>1, PartialMeans DEF Disks
  <2> QED
    BY <1>2, <2>1 DEF InZone
<1>6. Extent(disk, h) \subseteq DOMAIN disk.phys
  BY DEF Stored
<1>7. ASSUME NEW l \in Extent(disk, h) PROVE disk.phys[l] \in m.bits
  <2>1. CASE h \in m.seen
    <3>1. Occupied(disk, h) \subseteq m.bits
      BY <1>4, <2>1, Zenon DEF LiveOK
    <3>2. disk.phys[l] \in Occupied(disk, h)
      BY <1>6 DEF Occupied, Where
    <3> QED
      BY <3>1, <3>2
  <2>2. CASE \E w \in DOMAIN roots.open : Extent(disk, h) \subseteq roots.open[w].blocks
    <3>1. PICK w \in DOMAIN roots.open : Extent(disk, h) \subseteq roots.open[w].blocks
      BY <2>2
    <3>2. l \in TransientBlocks(roots)
      BY <3>1 DEF TransientBlocks
    <3> QED
      BY <1>2, <3>2
  <2> QED
    BY <2>1, <2>2 DEF m
<1>8. \A l \in Extent(disk, h) : disk.phys[l][1] # z
  BY <1>5, <1>6, <1>7
<1> QED
  BY <1>1, <1>3, <1>8, RecycleLeaves

LEMMA RecycleMark ==
    ASSUME BaseInv, MarkOK, Recycle
    PROVE  RootsOK(disk', roots) /\ LiveOK(disk', CaughtUp)
<1>1. disk \in Disks /\ roots \in RootSets /\ TypeOK
  BY DEF BaseInv, TypeOK
<1>2. RecycledAs(disk, disk', cycle.sweep.zone)
  BY RecycleReaders
<1>3. Leaves(disk, disk') /\ Names(disk, disk')
  BY <1>1, <1>2, RecycleNames
<1>4. LiveOK(disk', CaughtUp)
  BY <1>1, <1>3, CaughtUpLive, LiveSaved DEF MarkOK
<1>5. \A o \in roots.pinned : Reach(o) \subseteq DOMAIN disk'.located
  BY <1>3, Zenon DEF MarkOK, RootsOK, Names
<1>6. ASSUME NEW w \in DOMAIN roots.open
      PROVE  /\ roots.open[w].at <= disk'.free
             /\ \A o \in roots.open[w].wrote : Reach(o) \subseteq DOMAIN disk'.located
             /\ \A h \in roots.open[w].own :
                   Stored(disk', h) /\ Extent(disk', h) \subseteq roots.open[w].blocks
  <2>1. roots.open[w].at <= disk'.free
    BY <1>2, Zenon DEF MarkOK, RootsOK, RecycledAs
  <2>2. \A o \in roots.open[w].wrote : Reach(o) \subseteq DOMAIN disk'.located
    BY <1>3, Zenon DEF MarkOK, RootsOK, Names
  <2>3. ASSUME NEW h \in roots.open[w].own
        PROVE  Stored(disk', h) /\ Extent(disk', h) \subseteq roots.open[w].blocks
    <3>1. Stored(disk, h) /\ Extent(disk, h) \subseteq roots.open[w].blocks
      BY Zenon DEF MarkOK, RootsOK
    <3>2. Stored(disk', h) /\ Extent(disk', h) = Extent(disk, h)
      BY <3>1, RecycleSpares
    <3> QED
      BY <3>1, <3>2, Zenon
  <2> QED
    BY <2>1, <2>2, <2>3
<1> QED
  BY <1>4, <1>5, <1>6, Zenon DEF RootsOK

(* What a put writes is stored, above what was allocated before; and what the
   store named and had lost stays lost. *)
LEMMA WriteMark ==
    ASSUME BaseInv, RootsOK(disk, roots), NEW w \in Writers, NEW o \in Objects, Write(w, o)
    PROVE  RootsOK(disk', roots') /\ Saves(disk, disk') /\ Leaves(disk, disk') /\ Names(disk, disk')
<1> DEFINE put == PutObject(disk, o)
           own == Reach(o) \ DOMAIN disk.located
<1>1. disk \in Disks /\ disk' \in Disks /\ roots \in RootSets /\ w \in DOMAIN roots.open
      /\ DiskOK(disk)
  BY WriteRoots, Zenon DEF BaseInv, TypeOK
<1>2. /\ PutAllAs(disk, put, Reach(o)) /\ disk' = put.disk
      /\ \/ put.ok /\ Rewrites(roots, roots', w, Wrote(roots.open[w], disk', {o}, own))
         \/ roots' = roots
  BY WriteRoots
<1>3. own \in SUBSET Blobs
  BY DEF Reach, Blobs, Chunks
<1> HIDE DEF put
<1>4. Grows(disk, disk') /\ Fresh(disk, disk') /\ DiskOK(disk')
  <2>1. put \in Accs
    BY <1>2 DEF PutAllAs
  <2> QED
    BY <1>2, <2>1, AccMeans DEF PutAllAs
<1>5. Saves(disk, disk') /\ Leaves(disk, disk') /\ Names(disk, disk')
  BY <1>1, <1>4, GrowsSaves
<1>6. RootsOK(disk', roots)
  BY <1>1, <1>5, RootsSaved
<1>7. CASE put.ok /\ Rewrites(roots, roots', w, Wrote(roots.open[w], disk', {o}, own))
  <2> DEFINE x == roots.open[w]
             y == Wrote(x, disk', {o}, own)
  <2>1. x \in WriteSets
    BY <1>1, OpenSetMeans
  <2>2. /\ y.blocks = x.blocks \cup (x.at .. disk'.free - 1)
        /\ y.at = disk'.free /\ y.wrote = x.wrote \cup {o} /\ y.own = x.own \cup own
    <3>1. disk' \in Disks
      BY <1>1
    <3>2. y = Wrote(x, disk', {o}, own)
      OBVIOUS
    <3> HIDE DEF own, x, y
    <3>3. WroteTo(x, y, disk', {o}, own)
      BY <2>1, <3>1, <3>2, WroteFields
    <3> QED
      BY <3>3 DEF WroteTo
  <2>3. Reach(o) \subseteq DOMAIN disk'.located
    BY <1>2, <1>7 DEF PutAllAs
  <2> HIDE DEF y
  <2>4. ASSUME NEW h \in own
        PROVE  Stored(disk', h) /\ Extent(disk', h) \subseteq y.blocks
    <3>1. h \in DOMAIN disk'.located \ DOMAIN disk.located
      BY <2>3
    <3>2. Extent(disk', h) \subseteq DOMAIN disk'.phys /\ disk.free <= disk'.located[h]
      BY <1>4, <3>1, Zenon DEF Fresh
    <3>3. disk'.located[h] + Size[h] <= disk'.free
      BY <1>4, <3>1 DEF DiskOK
    <3>4. disk'.located[h] \in Nat /\ Size[h] \in Nat
      BY <1>1, <3>1, LocatedMeans
    <3>5. x.at <= disk.free
      BY <1>1 DEF RootsOK
    <3>6. x.at \in Nat /\ disk.free \in Nat /\ disk'.free \in Nat
      BY <1>1, <2>1, CapacityIsNat DEF WriteSets, Disks
    <3> HIDE DEF x
    <3>7. Extent(disk', h) \subseteq x.at .. disk'.free - 1
      BY <3>2, <3>3, <3>4, <3>5, <3>6 DEF Extent
    <3> QED
      BY <2>2, <3>1, <3>2, <3>7 DEF Stored
  <2>5. /\ roots'.pinned = roots.pinned /\ DOMAIN roots'.open = DOMAIN roots.open \cup {w}
        /\ roots'.open[w] = y
        /\ \A v \in DOMAIN roots.open : v # w => roots'.open[v] = roots.open[v]
    BY <1>7 DEF Rewrites, y
  <2> HIDE DEF own
  <2>6. ASSUME NEW v \in DOMAIN roots'.open
        PROVE  /\ roots'.open[v].at <= disk'.free
               /\ \A q \in roots'.open[v].wrote : Reach(q) \subseteq DOMAIN disk'.located
               /\ \A h \in roots'.open[v].own :
                     Stored(disk', h) /\ Extent(disk', h) \subseteq roots'.open[v].blocks
    <3>1. CASE v # w
      <4>1. v \in DOMAIN roots.open /\ roots'.open[v] = roots.open[v]
        BY <2>5, <3>1
      <4> QED
        BY <1>6, <4>1, Zenon DEF RootsOK
    <3>2. CASE v = w
      <4>1. roots'.open[v] = y
        BY <2>5, <3>2
      <4>2. y.at <= disk'.free
        BY <1>1, <2>2, CapacityIsNat DEF Disks
      <4>3. ASSUME NEW h \in y.own
            PROVE  Stored(disk', h) /\ Extent(disk', h) \subseteq y.blocks
        <5>1. CASE h \in own
          BY <2>4, <5>1, Zenon
        <5>2. CASE h \in x.own
          <6>1. Stored(disk', h) /\ Extent(disk', h) \subseteq x.blocks
            BY <1>1, <1>6, <5>2, Zenon DEF RootsOK
          <6> QED
            BY <2>2, <6>1
        <5> QED
          BY <2>2, <5>1, <5>2
      <4>4. ASSUME NEW q \in y.wrote PROVE Reach(q) \subseteq DOMAIN disk'.located
        <5>1. CASE q = o
          BY <2>3, <5>1
        <5>2. CASE q \in x.wrote
          BY <1>1, <1>6, <5>2, Zenon DEF RootsOK
        <5> QED
          BY <2>2, <5>1, <5>2
      <4> QED
        BY <4>1, <4>2, <4>3, <4>4, Zenon
    <3> QED
      BY <3>1, <3>2
  <2>7. \A q \in roots'.pinned : Reach(q) \subseteq DOMAIN disk'.located
    BY <1>6, <2>5, Zenon DEF RootsOK
  <2>8. RootsOK(disk', roots')
    BY <2>6, <2>7, Zenon DEF RootsOK
  <2> QED
    BY <1>5, <2>8
<1>8. CASE roots' = roots
  BY <1>5, <1>6, <1>8
<1> QED
  BY <1>2, <1>7, <1>8

LEMMA OpenWriteMark ==
    ASSUME TypeOK, RootsOK(disk, roots), NEW w \in Writers, OpenWrite(w)
    PROVE  RootsOK(disk, roots')
<1> DEFINE x == [blocks |-> {}, at |-> disk.free, wrote |-> {}, own |-> {}]
<1>1. Rewrites(roots, roots', w, x)
  BY OpenWriteRoots
<1>2. x.at = disk.free /\ x.wrote = {} /\ x.own = {} /\ disk.free <= disk.free
  BY CapacityIsNat DEF TypeOK, Disks
<1> HIDE DEF x
<1>3. ASSUME NEW v \in DOMAIN roots'.open
      PROVE  /\ roots'.open[v].at <= disk.free
             /\ \A q \in roots'.open[v].wrote : Reach(q) \subseteq DOMAIN disk.located
             /\ \A h \in roots'.open[v].own :
                   Stored(disk, h) /\ Extent(disk, h) \subseteq roots'.open[v].blocks
  <2>1. CASE v = w
    BY <1>1, <1>2, <2>1 DEF Rewrites
  <2>2. CASE v # w
    <3>1. v \in DOMAIN roots.open /\ roots'.open[v] = roots.open[v]
      BY <1>1, <2>2 DEF Rewrites
    <3> QED
      BY <3>1, Zenon DEF RootsOK
  <2> QED
    BY <2>1, <2>2
<1>4. \A o \in roots'.pinned : Reach(o) \subseteq DOMAIN disk.located
  BY <1>1, Zenon DEF RootsOK, Rewrites
<1> QED
  BY <1>3, <1>4, Zenon DEF RootsOK

LEMMA CloseMark ==
    ASSUME RootsOK(disk, roots), NEW w, NEW p, Closes(roots, roots', w, p),
           \A o \in p : Reach(o) \subseteq DOMAIN disk.located
    PROVE  RootsOK(disk, roots')
<1>1. /\ roots'.pinned = p /\ DOMAIN roots'.open \subseteq DOMAIN roots.open
      /\ \A v \in DOMAIN roots'.open : roots'.open[v] = roots.open[v]
  BY DEF Closes
<1>2. ASSUME NEW v \in DOMAIN roots'.open
      PROVE  /\ roots'.open[v].at <= disk.free
             /\ \A q \in roots'.open[v].wrote : Reach(q) \subseteq DOMAIN disk.located
             /\ \A h \in roots'.open[v].own :
                   Stored(disk, h) /\ Extent(disk, h) \subseteq roots'.open[v].blocks
  <2>1. v \in DOMAIN roots.open /\ roots'.open[v] = roots.open[v]
    BY <1>1
  <2> QED
    BY <2>1, Zenon DEF RootsOK
<1> QED
  BY <1>1, <1>2, Zenon DEF RootsOK

LEMMA BeginMark ==
    ASSUME TypeOK, RootsOK(disk, roots), Begin
    PROVE  LiveOK(disk, mark') /\ cycle'.phase = "marking"
<1>1. mark' = Walk(Restarted, roots.pinned) /\ cycle'.phase = "marking"
  BY DEF Begin
<1>2. /\ mark'.pending = roots.pinned /\ mark'.live = {} /\ mark'.roots = {} /\ mark'.seen = {}
  BY <1>1 DEF Walk, Restarted
<1>3. ASSUME NEW h \in roots.pinned
      PROVE  h \in DOMAIN disk.located /\ Children(h) \subseteq DOMAIN disk.located
  <2>1. h \in Reach(h) /\ Children(h) \subseteq Reach(h)
    BY ChildrenReached
  <2>2. Reach(h) \subseteq DOMAIN disk.located
    BY DEF RootsOK
  <2> QED
    BY <2>1, <2>2
<1> QED
  BY <1>1, <1>2, <1>3 DEF LiveOK

(* A step past the marking finds nothing left on the list. *)
LEMMA NothingPending ==
    ASSUME TypeOK, MarkOK, Phase \in {"selecting", "sweeping"}
    PROVE  CaughtUp.pending = {} /\ cycle.phase = Phase
<1>1. Phase = cycle.phase /\ Unmarked = {}
  BY DEF Phase
<1>2. mark.pending = {}
  BY <1>1 DEF MarkOK
<1> QED
  BY <1>1, <1>2, CaughtUpIs

(* Only a reset takes blocks from the store. *)
LEMMA StepSaves ==
    ASSUME BaseInv, RootsOK(disk, roots), [Next]_vars
    PROVE  Recycle \/ (Saves(disk, disk') /\ Names(disk, disk'))
<1>1. disk \in Disks
  BY DEF BaseInv, TypeOK
<1>2. ASSUME Same(disk, disk') PROVE Saves(disk, disk') /\ Names(disk, disk')
  BY <1>1, <1>2, SameSaves
<1>3. ASSUME NEW w \in Writers, NEW o \in Objects, Write(w, o)
      PROVE  Saves(disk, disk') /\ Names(disk, disk')
  BY <1>3, WriteMark
<1>4. ASSUME NEW r \in Readers, HoldRead(r) \/ ReleaseRead(r) PROVE Same(disk, disk')
  <2>1. CASE HoldRead(r)
    <3>1. \E l : disk' = [disk EXCEPT !.reads[disk.phys[l][1]] = @ + 1]
      BY <2>1, Zenon DEF HoldRead
    <3> QED
      BY <1>1, <3>1, Zenon DEF Disks, Same
  <2>2. CASE ReleaseRead(r)
    BY <1>1, <2>2, Zenon DEF Disks, Same, ReleaseRead
  <2> QED
    BY <1>4, <2>1, <2>2
<1>5. CASE Publish \/ Condemn \/ Copy
  <2>1. Same(disk, disk')
    BY <1>5, StepDisk DEF Still, Same
  <2> QED
    BY <1>2, <2>1
<1>6. CASE CommitCopies
  <2>1. /\ DOMAIN disk'.phys = DOMAIN disk.phys
        /\ disk'.located = disk.located /\ disk'.free = disk.free
    BY <1>6, StepDisk
  <2>2. disk.free <= disk.free
    BY <1>1, CapacityIsNat DEF Disks
  <2>3. \A h : Extent(disk', h) = Extent(disk, h)
    BY <2>1, Zenon DEF Extent
  <2>4. \A h : Stored(disk', h) <=> Stored(disk, h)
    BY <2>1, <2>3, Zenon DEF Stored
  <2> QED
    BY <2>1, <2>2, <2>3, <2>4, Zenon DEF Saves, Names
<1>7. CASE disk' = disk
  BY <1>2, <1>7 DEF Same
<1>8. ASSUME NEW w \in Writers, OpenWrite(w) \/ Commit(w) \/ Abandon(w) PROVE disk' = disk
  BY <1>8 DEF OpenWrite, Commit, Abandon
<1>9. ASSUME NEW o \in Objects, Unpin(o) PROVE disk' = disk
  BY <1>9 DEF Unpin
<1>10. ASSUME Begin \/ MarkOne \/ Select \/ Reselect \/ WaitForReaders \/ Refuse
       PROVE  disk' = disk
  BY <1>10, Zenon DEF Begin, MarkOne, Select, Reselect, WaitForReaders, Refuse
<1>11. ASSUME UNCHANGED vars PROVE disk' = disk
  BY <1>11 DEF vars
<1> QED
  BY <1>2, <1>3, <1>4, <1>5, <1>6, <1>7, <1>8, <1>9, <1>10, <1>11, Zenon DEF Next, Client, Step

LEMMA MarkStep ==
    ASSUME BaseInv, MarkOK, [Next]_vars
    PROVE  MarkOK'
<1>1. TypeOK /\ disk \in Disks /\ disk' \in Disks /\ roots \in RootSets /\ CaughtUp \in Marks
  BY BaseStep, CaughtUpIs DEF BaseInv, TypeOK
<1>2. RootsOK(disk, roots) /\ LiveOK(disk, mark)
  BY DEF MarkOK
<1>3. LiveOK(disk, CaughtUp)
  BY <1>1, <1>2, CaughtUpLive
<1>4. ASSUME disk' = disk, mark' = mark, cycle' = cycle, RootsOK(disk, roots') PROVE MarkOK'
  BY <1>2, <1>4, Zenon DEF MarkOK
<1>5. ASSUME Same(disk, disk'), roots' = roots, mark' = CaughtUp,
             cycle'.phase \in {"selecting", "sweeping"} => CaughtUp.pending = {}
      PROVE  MarkOK'
  <2>1. Saves(disk, disk') /\ Leaves(disk, disk') /\ Names(disk, disk')
    BY <1>1, <1>5, SameSaves
  <2>2. RootsOK(disk', roots)
    BY <1>1, <1>2, <2>1, RootsSaved
  <2>3. LiveOK(disk', CaughtUp)
    BY <1>3, <2>1, LiveSaved
  <2> QED
    BY <1>5, <2>2, <2>3, Zenon DEF MarkOK
<1>6. Same(disk, disk)
  BY DEF Same
<1>7. ASSUME NEW w \in Writers, OpenWrite(w) \/ Commit(w) \/ Abandon(w) PROVE MarkOK'
  <2>1. disk' = disk /\ mark' = mark /\ cycle' = cycle
    BY <1>7 DEF OpenWrite, Commit, Abandon
  <2>2. CASE OpenWrite(w)
    BY <1>1, <1>2, <1>4, <2>1, <2>2, OpenWriteMark
  <2>3. CASE Commit(w)
    <3>1. PICK o \in roots.open[w].wrote : Closes(roots, roots', w, roots.pinned \cup {o})
      BY <1>1, <2>3, CommitRoots
    <3>2. w \in DOMAIN roots.open
      BY <1>1, <2>3, CommitRoots
    <3>3. Reach(o) \subseteq DOMAIN disk.located
      BY <1>2, <3>2, Zenon DEF RootsOK
    <3>4. \A q \in roots.pinned \cup {o} : Reach(q) \subseteq DOMAIN disk.located
      BY <1>2, <3>3, Zenon DEF RootsOK
    <3>5. RootsOK(disk, roots')
      BY <1>2, <3>1, <3>4, CloseMark
    <3> QED
      BY <1>4, <2>1, <3>5
  <2>4. CASE Abandon(w)
    <3>1. Closes(roots, roots', w, roots.pinned)
      BY <1>1, <2>4, AbandonRoots
    <3>2. RootsOK(disk, roots')
      BY <1>2, <3>1, CloseMark, Zenon DEF RootsOK
    <3> QED
      BY <1>4, <2>1, <3>2
  <2> QED
    BY <1>7, <2>2, <2>3, <2>4
<1>8. ASSUME NEW w \in Writers, NEW o \in Objects, Write(w, o) PROVE MarkOK'
  <2>1. RootsOK(disk', roots') /\ Leaves(disk, disk') /\ Names(disk, disk')
    BY <1>2, <1>8, WriteMark
  <2>2. mark' = mark /\ cycle' = cycle
    BY <1>8 DEF Write
  <2>3. LiveOK(disk', mark)
    BY <1>2, <2>1, LiveSaved
  <2> QED
    BY <2>1, <2>2, <2>3, Zenon DEF MarkOK
<1>9. ASSUME NEW o \in Objects, Unpin(o) PROVE MarkOK'
  <2>1. roots'.open = roots.open /\ roots'.pinned \subseteq roots.pinned
    BY <1>1, <1>9, UnpinRoots
  <2>2. RootsOK(disk, roots')
    BY <1>2, <2>1 DEF RootsOK
  <2>3. disk' = disk /\ mark' = mark /\ cycle' = cycle
    BY <1>9 DEF Unpin
  <2> QED
    BY <1>4, <2>2, <2>3
<1>10. ASSUME NEW r \in Readers, HoldRead(r) \/ ReleaseRead(r) PROVE MarkOK'
  <2>1. Same(disk, disk')
    <3>1. CASE HoldRead(r)
      <4>1. \E l : disk' = [disk EXCEPT !.reads[disk.phys[l][1]] = @ + 1]
        BY <3>1, Zenon DEF HoldRead
      <4> QED
        BY <1>1, <4>1, Zenon DEF Disks, Same
    <3>2. CASE ReleaseRead(r)
      BY <1>1, <3>2, Zenon DEF Disks, Same, ReleaseRead
    <3> QED
      BY <1>10, <3>1, <3>2
  <2>2. roots' = roots /\ mark' = mark /\ cycle' = cycle
    BY <1>10, Zenon DEF HoldRead, ReleaseRead
  <2>3. Saves(disk, disk') /\ Leaves(disk, disk') /\ Names(disk, disk')
    BY <1>1, <2>1, SameSaves
  <2>4. RootsOK(disk', roots) /\ LiveOK(disk', mark)
    BY <1>1, <1>2, <2>3, RootsSaved, LiveSaved
  <2> QED
    BY <2>2, <2>4, Zenon DEF MarkOK
<1>11. CASE Begin
  <2>1. LiveOK(disk, mark') /\ cycle'.phase = "marking"
    BY <1>1, <1>2, <1>11, BeginMark
  <2>2. disk' = disk /\ roots' = roots
    BY <1>11 DEF Begin
  <2>3. ~(cycle'.phase \in {"selecting", "sweeping"})
    BY <2>1
  <2> QED
    BY <1>2, <2>1, <2>2, <2>3, Zenon DEF MarkOK
<1>12. CASE MarkOne
  <2>1. PICK h \in CaughtUp.pending : /\ mark' = Visit(CaughtUp, disk, h)
            /\ cycle' = Answer("marking", IF VisitFails(disk, h) THEN "refused" ELSE "stepped")
    BY <1>12 DEF MarkOne
  <2>2. LiveOK(disk, mark')
    BY <1>1, <1>3, <2>1, VisitLive
  <2>3. cycle'.phase = "marking"
    BY <1>1, <2>1, CyclePhase
  <2>4. disk' = disk /\ roots' = roots
    BY <1>12 DEF MarkOne
  <2>5. ~(cycle'.phase \in {"selecting", "sweeping"})
    BY <2>3
  <2> QED
    BY <1>2, <2>2, <2>4, <2>5, Zenon DEF MarkOK
<1>13. CASE Publish
  <2>1. mark' = CaughtUp /\ roots' = roots /\ CaughtUp.pending = {}
    BY <1>13 DEF Publish
  <2>2. Same(disk, disk')
    BY <1>13, StepDisk DEF Still, Same
  <2> QED
    BY <1>5, <2>1, <2>2
<1>14. CASE Select \/ Reselect \/ WaitForReaders \/ Refuse
  <2>1. mark' = CaughtUp /\ disk' = disk /\ roots' = roots
    BY <1>14, Zenon DEF Select, Reselect, WaitForReaders, Refuse
  <2>2. Phase = "selecting" \/ Phase = "sweeping"
    BY <1>14, Zenon DEF Select, Reselect, WaitForReaders, Refuse, Evacuated
  <2>3. CaughtUp.pending = {}
    BY <1>1, <2>2, NothingPending
  <2> QED
    BY <1>5, <1>6, <2>1, <2>3
<1>15. CASE Condemn \/ Copy
  <2>1. mark' = CaughtUp /\ roots' = roots /\ Phase = "sweeping"
    BY <1>15, Zenon DEF Condemn, Copy
  <2>2. Same(disk, disk')
    BY <1>15, StepDisk DEF Still, Same
  <2>3. CaughtUp.pending = {}
    BY <1>1, <2>1, NothingPending
  <2> QED
    BY <1>5, <2>1, <2>2, <2>3
<1>16. CASE CommitCopies
  <2>1. /\ DOMAIN disk'.phys = DOMAIN disk.phys
        /\ disk'.located = disk.located /\ disk'.free = disk.free
        /\ mark' = Rebuilt(CaughtUp, disk', roots)
    BY <1>16, StepDisk
  <2>2. roots' = roots /\ Phase = "sweeping"
    BY <1>16, Zenon DEF CommitCopies
  <2>3. Saves(disk, disk') /\ Names(disk, disk')
    <3>1. ~Recycle
      BY <1>16, Zenon DEF CommitCopies, Recycle, Evacuated
    <3> QED
      BY <1>2, <3>1, StepSaves
  <2>4. RootsOK(disk', roots)
    BY <1>1, <1>2, <2>3, RootsSaved
  <2>5. LiveOK(disk', mark') /\ mark'.pending = CaughtUp.pending
    BY <1>1, <1>3, <2>1, <2>3, RebuiltLive
  <2>6. CaughtUp.pending = {}
    BY <1>1, <2>2, NothingPending
  <2> QED
    BY <2>2, <2>4, <2>5, <2>6, Zenon DEF MarkOK
<1>17. CASE Recycle
  <2>1. RootsOK(disk', roots) /\ LiveOK(disk', CaughtUp)
    BY <1>17, RecycleMark
  <2>2. mark' = CaughtUp /\ roots' = roots /\ Phase = "sweeping"
    BY <1>17, Zenon DEF Recycle, Evacuated
  <2>3. CaughtUp.pending = {}
    BY <1>1, <2>2, NothingPending
  <2> QED
    BY <2>1, <2>2, <2>3, Zenon DEF MarkOK
<1>18. CASE UNCHANGED vars
  <2>1. disk' = disk /\ roots' = roots /\ mark' = mark /\ cycle' = cycle
    BY <1>18 DEF vars
  <2> QED
    BY <1>2, <1>4, <2>1
<1> QED
  BY <1>7, <1>8, <1>9, <1>10, <1>11, <1>12, <1>13, <1>14, <1>15, <1>16, <1>17, <1>18, Zenon
     DEF Next, Client, Step

LEMMA MarkInit ==
    ASSUME Init
    PROVE  MarkOK
<1>1. DOMAIN roots.open = {} /\ roots.pinned = {}
  BY EmptyIsPartial DEF Init
<1>2. mark.pending = {} /\ mark.live = {} /\ mark.roots = {} /\ mark.seen = {}
  BY DEF Init, Restarted
<1> QED
  BY <1>1, <1>2 DEF MarkOK, RootsOK, LiveOK

LEMMA StoredIsReadable ==
    ASSUME DiskOK(disk), NEW h, Stored(disk, h)
    PROVE  Readable(h)
  BY DEF DiskOK, Stored, Readable, Sits

(* At every step of a cycle, and between cycles: what pinned roots and open
   publishes name is located, what open publishes wrote is stored, and what the
   mark has left behind is marked if it is still all there. *)
THEOREM MarkAlways == Spec => [](BaseInv /\ MarkOK)
<1>1. Init => BaseInv /\ MarkOK
  BY BaseInit, MarkInit
<1>2. BaseInv /\ MarkOK /\ [Next]_vars => (BaseInv /\ MarkOK)'
  BY BaseStep, MarkStep
<1> QED
  BY <1>1, <1>2, PTL DEF Spec

(* A reset finds the record of a pinned root, and the children the mark walked
   from it, among what was seen. *)
LEMMA RecycleSeen ==
    ASSUME BaseInv, MarkOK, Recycle, NEW o \in roots.pinned, NEW h \in {o} \cup Children(o)
    PROVE  h \in CaughtUp.seen
<1>1. TypeOK /\ Phase = "sweeping" /\ roots.pinned \subseteq CaughtUp.roots
  BY Zenon DEF BaseInv, Recycle, Evacuated, MayRecycle, Safe, NothingReachableIsSwept
<1>2. CaughtUp.pending = {}
  BY <1>1, NothingPending
<1>3. LiveOK(disk, CaughtUp)
  BY <1>1, CaughtUpLive DEF MarkOK
<1>4. o \in CaughtUp.seen /\ Children(o) \subseteq CaughtUp.seen \cup CaughtUp.pending
  BY <1>1, <1>3 DEF LiveOK
<1> QED
  BY <1>2, <1>4

LEMMA PinnedStep ==
    ASSUME BaseInv, MarkOK, [Next]_vars,
           NEW o \in roots.pinned, NEW h \in {o} \cup Children(o), Readable(h)
    PROVE  Readable(h)'
<1>1. Stored(disk, h)
  BY DEF Readable, Stored
<1>2. Stored(disk', h)
  <2>1. CASE Recycle
    <3>1. h \in CaughtUp.seen
      BY <2>1, RecycleSeen
    <3> QED
      BY <1>1, <2>1, <3>1, RecycleSpares
  <2>2. CASE ~Recycle
    <3>1. Saves(disk, disk')
      BY <2>2, StepSaves DEF MarkOK
    <3> QED
      BY <1>1, <3>1 DEF Saves
  <2> QED
    BY <2>1, <2>2
<1>3. DiskOK(disk')
  BY BaseStep DEF BaseInv
<1> QED
  BY <1>2, <1>3 DEF DiskOK, Stored, Readable, Sits, Extent

(* For every number of zones, objects, publishes and readers, and whatever is
   put, published and unpinned meanwhile: nothing the collector does takes from
   a pinned root a record that could be read, its own or a chunk of its own. *)
THEOREM PinnedAlwaysStaysReadable == Spec => PinnedStaysReadable
<1>1. BaseInv /\ MarkOK /\ [Next]_vars =>
         [\A o \in roots.pinned \cap roots'.pinned : \A h \in {o} \cup Children(o) :
             Readable(h) => Readable(h)']_vars
  BY PinnedStep
<1> QED
  BY <1>1, MarkAlways, PTL DEF Spec, PinnedStaysReadable

(* With any number of publishes in progress at once, and whatever else is put,
   dropped or collected: what a publish wrote is there to be committed, and lies
   in its write set, until the publish is committed or abandoned. *)
THEOREM OpenWritesAlwaysSurvive == Spec => []OpenWritesSurvive
<1>1. BaseInv /\ MarkOK => OpenWritesSurvive
  BY StoredIsReadable, Zenon DEF BaseInv, MarkOK, RootsOK, OpenWritesSurvive
<1> QED
  BY <1>1, MarkAlways, PTL
=============================================================================
