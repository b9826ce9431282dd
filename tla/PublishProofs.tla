--------------------------- MODULE PublishProofs ---------------------------
(***************************************************************************)
(* Proofs about Publish.  What a mount may rely on after a cut is that no  *)
(* operation a publish has in flight touches the records behind it: the    *)
(* zone that is reset is never the only one with the root the machine      *)
(* runs, and an append lies beyond what is on the medium.  A record is of  *)
(* the next generation until it is adopted, and on a device whose FLUSH is *)
(* one its tree is there before it is submitted.                           *)
(*                                                                         *)
(* A device that ignores FLUSH is cut at most once: after that cut a       *)
(* refused record may stay on the medium, and the next publish gives its   *)
(* generation to another.                                                  *)
(*                                                                         *)
(* PublishInv is the invariant of a device no tree was committed on that a *)
(* scan does not find.  Where one was, nothing is claimed.                 *)
(***************************************************************************)
EXTENDS Publish, WellFoundedInduction, FiniteSetTheorems, TLAPS

Records == [generation : Nat, tree : Nat]

Publishing == {"blobs", "choose", "carry", "append", "adopt"}

\* The steps at which the root zones have operations in flight.
Writing == {"carry", "append", "adopt"}

Ops ==
    [op : {"append"}, zone : RootZones, at : Nat \ {0}, record : Records]
        \cup [op : {"reset"}, zone : RootZones]
        \cup [op : {"blob", "astray"}, tree : Nat, blob : Blobs]

Carries == UNION {[S -> Records] : S \in SUBSET Nat}

Types ==
    /\ honest \in BOOLEAN
    /\ media \in [zone : [RootZones -> Seq(Records)], blobs : SUBSET (Nat \X Blobs)]
    /\ queue \in Seq(Ops)
    /\ pc \in Publishing \cup {"idle", "off"}
    /\ work \in [record : Records, zone : RootZones, carry : Carries]
    /\ held \in Records
    /\ tried \in Nat /\ cuts \in Nat

IsBlob(op) == op.op = "blob" \/ op.op = "astray"

\* A reset of, or an append to, the zone z that the publish of r writes.
Fits(op, step, z, r, end, roots) ==
    /\ step \in Writing
    /\ op.zone = z
    /\ \/ op.op = "reset"
       \/ /\ op.op = "append"
          /\ op.at <= end
          /\ op.record \in roots \/ (step = "adopt" /\ op.record = r)

InZone(op) ==
    Fits(op, pc, work.zone, work.record, Len(media.zone[work.zone]) + Len(queue), Roots(media))

QueueOK ==
    /\ pc \in {"idle", "off"} => queue = <<>>
    /\ \A i \in DOMAIN queue : IsBlob(queue[i]) \/ InZone(queue[i])

CarryOK ==
    pc = "carry" => \A k \in DOMAIN work.carry : work.carry[k] \in Roots(media)

RecordOK ==
    /\ pc \in Publishing => /\ work.record.generation = held.generation + 1
                            /\ expected = {held, work.record}
    /\ pc = "idle" => held \in expected

\* A record is chosen a zone once its tree is submitted, and written.
TreeOK ==
    pc \in Publishing \ {"blobs"} => /\ Resolves(Seen, work.record)
                                     /\ honest => Resolves(media, work.record)

AdoptOK == pc = "adopt" => work.record \in Verifying(Seen.zone[work.zone])

\* What the publish has in flight, and how far it is.
InFlight == QueueOK /\ CarryOK /\ RecordOK /\ TreeOK /\ AdoptOK

\* Nothing in flight rewrites what the zone it writes has on the medium.
Beyond ==
    \A i \in DOMAIN queue :
        /\ queue[i].op # "reset"
        /\ queue[i].op = "append" => queue[i].at > Len(media.zone[work.zone])

OneEach(roots) == \A q, r \in roots : q.generation = r.generation => q = r

\* The medium of a device no cut of which has lied, running h: whole roots, one
\* of each generation, none above h.
Whole(dev, h) ==
    /\ OneEach(Roots(dev))
    /\ \A r \in Roots(dev) : 1 <= r.generation /\ r.generation <= h.generation /\ Resolves(dev, r)
    /\ h = None \/ h \in Roots(dev)

\* Whatever of the operations in flight lands, the root the machine runs stays.
Shielded ==
    (pc \in Writing /\ held # None) =>
        \/ held \in Verifying(media.zone[OtherThan(work.zone)])
        \/ held \in Verifying(media.zone[work.zone]) /\ Beyond

\* The medium after a cut, before the mount: also the record in flight.
CutMedium ==
    /\ OneEach(Roots(media))
    /\ \A r \in Roots(media) :
          \/ 1 <= r.generation /\ r.generation <= held.generation /\ Resolves(media, r)
          \/ /\ r \in expected /\ r.generation = held.generation + 1
             /\ honest => Resolves(media, r)
    /\ held = None \/ (held \in Roots(media) /\ Resolves(media, held))
    /\ held \in expected

HeldOnMedium == held # None => held \in Roots(media) /\ Resolves(media, held)

NoneRefused == honest => refused = 0

PublishInv ==
    /\ Types
    /\ InFlight
    /\ HeldOnMedium
    /\ NoneRefused
    /\ ~honest => cuts <= 1
    /\ pc = "off" => cuts # 0
    /\ ((honest \/ cuts = 0) /\ pc # "off") => Whole(media, held) /\ Shielded
    /\ pc = "off" => CutMedium

-----------------------------------------------------------------------------
(* One root zone: ZoneAfter with the zone's blocks and the queue as arguments. *)

LEMMA LeastExists ==
    ASSUME NEW S, S \subseteq Nat, S # {}
    PROVE  \E x \in S : \A y \in S : x <= y
<1> DEFINE R == OpToRel(<, Nat)
<1>1. IsWellFoundedOn(R, Nat)
  BY NatLessThanWellFounded, Zenon
<1> HIDE DEF R
<1>2. PICK x \in S : \A y \in S : ~(<<y, x>> \in R)
  BY <1>1, WFMin, Zenon
<1>3. \A m, n \in Nat : m < n => <<m, n>> \in R
  BY DEF R, OpToRel
<1>4. ASSUME NEW y \in S PROVE x <= y
  <2>1. x \in Nat /\ y \in Nat
    OBVIOUS
  <2>2. ~(y < x)
    BY <1>2, <1>3, <2>1, Zenon
  <2> QED
    BY <2>1, <2>2
<1> QED
  BY <1>4

LEMMA MaxOfBounded ==
    ASSUME NEW S, NEW n \in Nat, S \subseteq 0 .. n, S # {}
    PROVE  Max(S) \in S /\ \A y \in S : y <= Max(S)
<1> DEFINE T == {n - x : x \in S}
<1>1. T \subseteq Nat /\ T # {}
  <2>1. \A x \in S : n - x \in Nat
    OBVIOUS
  <2>2. PICK z \in S : TRUE
    BY Zenon
  <2>3. n - z \in T
    OBVIOUS
  <2> QED
    BY <2>1, <2>3
<1>2. PICK m \in T : \A k \in T : m <= k
  BY <1>1, LeastExists, Zenon
<1>3. PICK x \in S : m = n - x
  OBVIOUS
<1>4. ASSUME NEW y \in S PROVE x >= y
  <2>1. n - x <= n - y
    BY <1>2, <1>3
  <2>2. x \in Nat /\ y \in Nat
    OBVIOUS
  <2> QED
    BY <2>1, <2>2
<1>5. Max(S) \in S /\ \A y \in S : Max(S) >= y
  BY <1>4, Zenon DEF Max
<1>6. S \subseteq Nat
  OBVIOUS
<1>7. Max(S) \in Nat
  BY <1>5, <1>6, Zenon
<1> HIDE DEF T
<1> QED
  BY <1>5, <1>6, <1>7

AppendsOf(q, z, S) == {q[i] : i \in {j \in S : q[j].op = "append" /\ q[j].zone = z}}

PositionsOf(q, z, S) == {a.at : a \in AppendsOf(q, z, S)}

BaseOf(m, q, z, whole) == IF \E i \in whole : q[i] = Reset(z) THEN <<>> ELSE m

PointerOf(m, q, z, whole, torn) ==
    Max({Len(BaseOf(m, q, z, whole))} \cup PositionsOf(q, z, whole \cup torn))

ZoneOf(m, q, z, whole, torn) ==
    [at \in 1 .. PointerOf(m, q, z, whole, torn) |->
        IF at \in PositionsOf(q, z, whole)
        THEN (CHOOSE a \in AppendsOf(q, z, whole) : a.at = at).record
        ELSE IF at \in PositionsOf(q, z, torn) \/ at > Len(BaseOf(m, q, z, whole)) THEN None
        ELSE BaseOf(m, q, z, whole)[at]]

LEMMA ZoneAfterIsZoneOf ==
    \A z, whole, torn : ZoneAfter(z, whole, torn) = ZoneOf(media.zone[z], queue, z, whole, torn)
BY Zenon DEF ZoneAfter, ZoneOf, PointerOf, BaseOf, PositionsOf, AppendsOf

LEMMA NoneIsRecord == None \in Records
BY DEF None, Records

LEMMA AnAppend ==
    ASSUME NEW op \in Ops, op.op = "append"
    PROVE  op.zone \in RootZones /\ op.at \in Nat \ {0} /\ op.record \in Records
BY DEF Ops

\* The appends in flight lie no further out than their number can have taken
\* the pointer of the zone.
Within(m, q, z) ==
    \A i \in DOMAIN q : (q[i].op = "append" /\ q[i].zone = z) => q[i].at <= Len(m) + Len(q)

LEMMA PointerIs ==
    ASSUME NEW m \in Seq(Records), NEW q \in Seq(Ops), NEW z \in RootZones,
           NEW whole \in SUBSET DOMAIN q, NEW torn \in SUBSET DOMAIN q, Within(m, q, z)
    PROVE  LET p == PointerOf(m, q, z, whole, torn) IN
           /\ p \in Nat /\ p <= Len(m) + Len(q)
           /\ Len(BaseOf(m, q, z, whole)) <= p
           /\ \A at \in PositionsOf(q, z, whole \cup torn) : at \in Nat \ {0} /\ at <= p
<1> DEFINE B == BaseOf(m, q, z, whole)
           P == PositionsOf(q, z, whole \cup torn)
<1>1. PICK n \in Nat : n = Len(m) + Len(q)
  OBVIOUS
<1>2. Len(B) \in Nat /\ Len(B) <= n
  BY <1>1 DEF BaseOf
<1>3. ASSUME NEW at \in P PROVE at \in Nat \ {0} /\ at <= n
  <2>1. PICK i \in whole \cup torn : q[i].op = "append" /\ q[i].zone = z /\ at = q[i].at
    BY <1>3, Zenon DEF PositionsOf, AppendsOf
  <2>2. i \in DOMAIN q /\ q[i] \in Ops
    OBVIOUS
  <2>3. q[i].at \in Nat \ {0}
    BY <2>1, <2>2, AnAppend, Zenon
  <2>4. q[i].at <= n
    BY <2>1, <2>2, <1>1, Zenon DEF Within
  <2> QED
    BY <2>1, <2>3, <2>4
<1> HIDE DEF B, P
<1>4. ({Len(B)} \cup P) \subseteq 0 .. n
  BY <1>2, <1>3
<1>5. /\ Max({Len(B)} \cup P) \in {Len(B)} \cup P
      /\ \A y \in {Len(B)} \cup P : y <= Max({Len(B)} \cup P)
  BY <1>4, MaxOfBounded, Zenon
<1>6. PointerOf(m, q, z, whole, torn) = Max({Len(B)} \cup P)
  BY Zenon DEF PointerOf, B, P
<1>7. Max({Len(B)} \cup P) \in Nat /\ Max({Len(B)} \cup P) <= n
  BY <1>4, <1>5
<1> QED
  BY <1>1, <1>3, <1>5, <1>6, <1>7, Zenon DEF B, P

\* A block holds a record that was appended whole, one that was there, or none.
Holds(m, q, z, whole, torn, at, block) ==
    \/ \E i \in whole : /\ q[i].op = "append" /\ q[i].zone = z
                        /\ q[i].at = at /\ q[i].record = block
    \/ /\ at \notin PositionsOf(q, z, whole)
       /\ block = None
    \/ /\ at \notin PositionsOf(q, z, whole)
       /\ at \in DOMAIN m /\ block = m[at]

LEMMA BlockIs ==
    ASSUME NEW m \in Seq(Records), NEW q \in Seq(Ops), NEW z \in RootZones,
           NEW whole \in SUBSET DOMAIN q, NEW torn \in SUBSET DOMAIN q, Within(m, q, z),
           NEW at \in 1 .. PointerOf(m, q, z, whole, torn)
    PROVE  Holds(m, q, z, whole, torn, at, ZoneOf(m, q, z, whole, torn)[at])
<1> DEFINE B == BaseOf(m, q, z, whole)
           block == ZoneOf(m, q, z, whole, torn)[at]
<1>0. block = IF at \in PositionsOf(q, z, whole)
              THEN (CHOOSE a \in AppendsOf(q, z, whole) : a.at = at).record
              ELSE IF at \in PositionsOf(q, z, torn) \/ at > Len(B) THEN None
              ELSE B[at]
  BY Zenon DEF ZoneOf
<1> HIDE DEF block
<1>1. CASE at \in PositionsOf(q, z, whole)
  <2> DEFINE a == CHOOSE a \in AppendsOf(q, z, whole) : a.at = at
  <2>1. \E x \in AppendsOf(q, z, whole) : x.at = at
    BY <1>1, Zenon DEF PositionsOf
  <2>2. a \in AppendsOf(q, z, whole) /\ a.at = at
    BY <2>1, Zenon
  <2>3. block = a.record
    BY <1>0, <1>1, Zenon
  <2> HIDE DEF a
  <2>4. PICK i \in whole : q[i].op = "append" /\ q[i].zone = z /\ a = q[i]
    BY <2>2, Zenon DEF AppendsOf
  <2> QED
    BY <2>2, <2>3, <2>4, Zenon DEF block, Holds
<1>2. CASE at \notin PositionsOf(q, z, whole) /\ (at \in PositionsOf(q, z, torn) \/ at > Len(B))
  BY <1>0, <1>2, Zenon DEF block, Holds
<1>3. CASE at \notin PositionsOf(q, z, whole) /\ at \notin PositionsOf(q, z, torn) /\ ~(at > Len(B))
  <2>1. block = B[at]
    BY <1>0, <1>3, Zenon
  <2>3. PointerOf(m, q, z, whole, torn) \in Nat
    BY PointerIs, Zenon
  <2>4. at \in Nat /\ 1 <= at
    BY <2>3
  <2>5. B = m
    BY <1>3, <2>4 DEF BaseOf
  <2>6. at \in DOMAIN m
    BY <2>4, <2>5, <1>3
  <2> QED
    BY <2>1, <1>3, <2>5, <2>6, Zenon DEF block, Holds
<1> QED
  BY <1>1, <1>2, <1>3, Zenon

LEMMA ZoneIsSeq ==
    ASSUME NEW m \in Seq(Records), NEW q \in Seq(Ops), NEW z \in RootZones,
           NEW whole \in SUBSET DOMAIN q, NEW torn \in SUBSET DOMAIN q, Within(m, q, z)
    PROVE  LET Z == ZoneOf(m, q, z, whole, torn) IN
           /\ Z \in Seq(Records)
           /\ DOMAIN Z = 1 .. PointerOf(m, q, z, whole, torn)
           /\ Len(Z) = PointerOf(m, q, z, whole, torn)
<1> DEFINE Z == ZoneOf(m, q, z, whole, torn)
           p == PointerOf(m, q, z, whole, torn)
<1>1. p \in Nat
  BY PointerIs, Zenon
<1>2. DOMAIN Z = 1 .. p
  BY Zenon DEF ZoneOf
<1>3. ASSUME NEW at \in 1 .. p PROVE Z[at] \in Records
  <2>0. Holds(m, q, z, whole, torn, at, Z[at])
    BY BlockIs, Zenon
  <2>1. CASE \E i \in whole : q[i].op = "append" /\ q[i].record = Z[at]
    <3>1. PICK i \in whole : q[i].op = "append" /\ q[i].record = Z[at]
      BY <2>1, Zenon
    <3>2. q[i] \in Ops
      OBVIOUS
    <3> QED
      BY <3>1, <3>2, AnAppend, Zenon
  <2>2. CASE Z[at] = None
    BY <2>2, NoneIsRecord, Zenon
  <2>3. CASE at \in DOMAIN m /\ Z[at] = m[at]
    BY <2>3
  <2> QED
    BY <2>0, <2>1, <2>2, <2>3, Zenon DEF Holds
<1>4. Z \in [1 .. p -> Records]
  BY <1>3 DEF ZoneOf
<1> HIDE DEF Z, p
<1>5. Z \in Seq(Records) /\ Len(Z) = p
  BY <1>1, <1>2, <1>4
<1> QED
  BY <1>2, <1>5 DEF Z, p

\* A record of the zone was there, or was appended whole.
LEMMA ZoneRecords ==
    ASSUME NEW m \in Seq(Records), NEW q \in Seq(Ops), NEW z \in RootZones,
           NEW whole \in SUBSET DOMAIN q, NEW torn \in SUBSET DOMAIN q, Within(m, q, z),
           NEW r \in Verifying(ZoneOf(m, q, z, whole, torn))
    PROVE  \/ r \in Verifying(m)
           \/ \E i \in whole : q[i].op = "append" /\ q[i].zone = z /\ q[i].record = r
<1> DEFINE Z == ZoneOf(m, q, z, whole, torn)
           p == PointerOf(m, q, z, whole, torn)
<1>1. DOMAIN Z = 1 .. p
  BY ZoneIsSeq, ZenonT(60)
<1>2. r # None /\ \E at \in DOMAIN Z : r = Z[at]
  BY Zenon DEF Verifying
<1>3. PICK at \in 1 .. p : r = Z[at]
  BY <1>1, <1>2, Zenon
<1>4. Holds(m, q, z, whole, torn, at, Z[at])
  BY BlockIs, Zenon
<1> QED
  BY <1>2, <1>3, <1>4, Zenon DEF Verifying, Holds

\* A zone nothing in flight resets, and whose blocks nothing in flight writes,
\* keeps its records; one nothing is appended to keeps its length, too.
LEMMA ZoneKept ==
    ASSUME NEW m \in Seq(Records), NEW q \in Seq(Ops), NEW z \in RootZones,
           NEW whole \in SUBSET DOMAIN q, NEW torn \in SUBSET DOMAIN q, Within(m, q, z),
           \A i \in DOMAIN q : q[i] # Reset(z),
           \A i \in DOMAIN q : (q[i].op = "append" /\ q[i].zone = z) => q[i].at > Len(m)
    PROVE  /\ Verifying(m) \subseteq Verifying(ZoneOf(m, q, z, whole, torn))
           /\ Len(m) <= Len(ZoneOf(m, q, z, whole, torn))
<1> DEFINE Z == ZoneOf(m, q, z, whole, torn)
           p == PointerOf(m, q, z, whole, torn)
<1>1. DOMAIN Z = 1 .. p /\ Len(Z) = p
  BY ZoneIsSeq, ZenonT(60)
<1>2. BaseOf(m, q, z, whole) = m
  BY Zenon DEF BaseOf
<1>3. p \in Nat /\ Len(m) <= p
  BY <1>2, PointerIs, Zenon
<1>4. ASSUME NEW S \in SUBSET DOMAIN q, NEW at \in DOMAIN m PROVE at \notin PositionsOf(q, z, S)
  <2>1. SUFFICES ASSUME at \in PositionsOf(q, z, S) PROVE FALSE
    OBVIOUS
  <2>2. PICK i \in S : q[i].op = "append" /\ q[i].zone = z /\ at = q[i].at
    BY <2>1, Zenon DEF PositionsOf, AppendsOf
  <2>3. at > Len(m)
    BY <2>2, Zenon
  <2>4. at \in 1 .. Len(m)
    OBVIOUS
  <2> QED
    BY <2>3, <2>4
<1>5. ASSUME NEW at \in DOMAIN m PROVE at \in DOMAIN Z /\ Z[at] = m[at]
  <2>1. at \in 1 .. p /\ ~(at > Len(m))
    BY <1>3
  <2>2. at \notin PositionsOf(q, z, whole) /\ at \notin PositionsOf(q, z, torn)
    BY <1>4, <1>5, Zenon
  <2>3. Z[at] = m[at]
    BY <2>1, <2>2, <1>2, Zenon DEF ZoneOf
  <2> QED
    BY <1>1, <2>1, <2>3, Zenon
<1> QED
  BY <1>1, <1>3, <1>5, Zenon DEF Verifying

Untouched(q, z) ==
    \A i \in DOMAIN q : q[i] # Reset(z) /\ ~(q[i].op = "append" /\ q[i].zone = z)

LEMMA ZoneSame ==
    ASSUME NEW m \in Seq(Records), NEW q \in Seq(Ops), NEW z \in RootZones,
           NEW whole \in SUBSET DOMAIN q, NEW torn \in SUBSET DOMAIN q,
           Untouched(q, z)
    PROVE  ZoneOf(m, q, z, whole, torn) = m
<1>1. BaseOf(m, q, z, whole) = m
  BY Zenon DEF BaseOf, Untouched
<1>2. \A S \in SUBSET DOMAIN q : PositionsOf(q, z, S) = {}
  BY DEF PositionsOf, AppendsOf, Untouched
<1>3. PointerOf(m, q, z, whole, torn) = Max({Len(m)})
  <2>1. PositionsOf(q, z, whole \cup torn) = {}
    BY <1>2, Zenon
  <2>2. {Len(m)} \cup {} = {Len(m)}
    OBVIOUS
  <2> QED
    BY <1>1, <2>1, <2>2, Zenon DEF PointerOf
<1>4. Max({Len(m)}) = Len(m)
  BY DEF Max
<1>5. ASSUME NEW at \in 1 .. Len(m) PROVE ZoneOf(m, q, z, whole, torn)[at] = m[at]
  <2>1. ~(at > Len(m))
    OBVIOUS
  <2>2. at \notin PositionsOf(q, z, whole) /\ at \notin PositionsOf(q, z, torn)
    BY <1>2, Zenon
  <2> QED
    BY <1>1, <1>3, <1>4, <2>1, <2>2 DEF ZoneOf
<1>6. ZoneOf(m, q, z, whole, torn) = [at \in 1 .. Len(m) |-> ZoneOf(m, q, z, whole, torn)[at]]
  BY <1>3, <1>4 DEF ZoneOf
<1>7. ZoneOf(m, q, z, whole, torn) = [at \in 1 .. Len(m) |-> m[at]]
  BY <1>5, <1>6, Zenon
<1>8. m = [at \in 1 .. Len(m) |-> m[at]]
  OBVIOUS
<1> QED
  BY <1>7, <1>8, Zenon

\* A record appended behind everything in flight is read there.
LEMMA ZoneAppended ==
    ASSUME NEW m \in Seq(Records), NEW q \in Seq(Ops), NEW z \in RootZones, Within(m, q, z),
           NEW r \in Records, r # None,
           NEW op, op = Append1(z, Len(ZoneOf(m, q, z, DOMAIN q, {})) + 1, r)
    PROVE  r \in Verifying(ZoneOf(m, Append(q, op), z, DOMAIN Append(q, op), {}))
<1> DEFINE Z == ZoneOf(m, q, z, DOMAIN q, {})
           q2 == Append(q, op)
           n == Len(q)
<1>1. Len(Z) \in Nat /\ Len(Z) = PointerOf(m, q, z, DOMAIN q, {})
  <2>1. Len(Z) = PointerOf(m, q, z, DOMAIN q, {})
    BY ZoneIsSeq, Zenon
  <2>2. PointerOf(m, q, z, DOMAIN q, {}) \in Nat
    BY PointerIs, Zenon
  <2> QED
    BY <2>1, <2>2
<1>2. PICK e \in Nat : e = Len(Z) /\ e <= Len(m) + n
  <2>1. PointerOf(m, q, z, DOMAIN q, {}) <= Len(m) + Len(q)
    BY PointerIs, Zenon
  <2> QED
    BY <1>1, <2>1
<1>3. op = [op |-> "append", zone |-> z, at |-> e + 1, record |-> r]
  BY <1>2, Zenon DEF Append1
<1>4. op \in Ops
  BY <1>3 DEF Ops
<1>5. /\ q2 \in Seq(Ops) /\ n \in Nat /\ Len(q2) = n + 1 /\ DOMAIN q2 = 1 .. n + 1
      /\ q2[n + 1] = op /\ \A i \in 1 .. n : q2[i] = q[i]
      /\ DOMAIN q = 1 .. n
  BY <1>4
<1> HIDE DEF q2, n
<1>6. ASSUME NEW i \in DOMAIN q2, q2[i].op = "append", q2[i].zone = z
      PROVE  q2[i].at <= e + 1 /\ (q2[i].at = e + 1 => i = n + 1)
  <2>1. CASE i = n + 1
    BY <2>1, <1>3, <1>5
  <2>2. CASE i \in 1 .. n
    <3>1. q[i].op = "append" /\ q[i].zone = z
      BY <1>5, <1>6, <2>2
    <3>2. q[i].at \in PositionsOf(q, z, DOMAIN q \cup {})
      BY <3>1, <2>2, <1>5, Zenon DEF PositionsOf, AppendsOf
    <3>3. q[i].at \in Nat \ {0} /\ q[i].at <= PointerOf(m, q, z, DOMAIN q, {})
      BY <3>2, PointerIs, Zenon
    <3>4. q[i].at <= e
      BY <1>1, <1>2, <3>3, Zenon
    <3>5. q2[i] = q[i]
      BY <1>5, <2>2, Zenon
    <3> QED
      BY <3>3, <3>4, <3>5
  <2> QED
    BY <1>5, <2>1, <2>2
<1>7. Within(m, q2, z)
  <2> SUFFICES ASSUME NEW i \in DOMAIN q2, q2[i].op = "append", q2[i].zone = z
               PROVE  q2[i].at <= Len(m) + Len(q2)
    BY Zenon DEF Within
  <2>1. q2[i].at <= e + 1
    BY <1>6, Zenon
  <2>2. q2[i] \in Ops
    BY <1>5
  <2>3. q2[i].at \in Nat
    BY <2>2, AnAppend, Zenon
  <2>4. PICK k \in Nat : k = Len(m)
    OBVIOUS
  <2> QED
    BY <1>2, <1>5, <2>1, <2>3, <2>4
<1> DEFINE Z2 == ZoneOf(m, q2, z, DOMAIN q2, {})
           p2 == PointerOf(m, q2, z, DOMAIN q2, {})
<1>8. DOMAIN Z2 = 1 .. p2
  BY Zenon DEF ZoneOf
<1>9. e + 1 \in PositionsOf(q2, z, DOMAIN q2) /\ e + 1 \in PositionsOf(q2, z, DOMAIN q2 \cup {})
  <2>1. n + 1 \in DOMAIN q2 /\ q2[n + 1].op = "append" /\ q2[n + 1].zone = z /\ q2[n + 1].at = e + 1
    BY <1>3, <1>5
  <2> QED
    BY <2>1, Zenon DEF PositionsOf, AppendsOf
<1>10. e + 1 \in 1 .. p2
  <2>1. p2 \in Nat
    BY <1>5, <1>7, PointerIs, Zenon
  <2>2. e + 1 <= p2
    BY <1>5, <1>7, <1>9, PointerIs, Zenon
  <2> HIDE DEF p2
  <2> QED
    BY <2>1, <2>2
<1>11. PICK i \in DOMAIN q2 : q2[i].op = "append" /\ q2[i].zone = z /\ q2[i].at = e + 1
                              /\ q2[i].record = Z2[e + 1]
  <2>1. Holds(m, q2, z, DOMAIN q2, {}, e + 1, Z2[e + 1])
    BY <1>5, <1>7, <1>10, BlockIs, Zenon
  <2> QED
    BY <2>1, <1>9, Zenon DEF Holds
<1>12. i = n + 1
  BY <1>6, <1>11, Zenon
<1>13. Z2[e + 1] = r
  <2>1. Z2[e + 1] = op.record
    BY <1>5, <1>11, <1>12, Zenon
  <2> HIDE DEF Z2
  <2> QED
    BY <2>1, <1>3
<1> QED
  BY <1>8, <1>10, <1>13, Zenon DEF Verifying, q2

-----------------------------------------------------------------------------
(* The device: what a FLUSH or a cut makes of the operations in flight. *)

Devices == [zone : [RootZones -> Seq(Records)], blobs : SUBSET (Nat \X Blobs)]

BlobsIn(q, S) == {<<q[i].tree, q[i].blob>> : i \in {j \in S : q[j].op = "blob"}}

DevOf(m, q, whole, torn) ==
    [zone |-> [z \in RootZones |-> ZoneOf(m.zone[z], q, z, whole, torn)],
     blobs |-> m.blobs \cup BlobsIn(q, whole)]

LEMMA AfterIsDevOf == \A whole, torn : After(whole, torn) = DevOf(media, queue, whole, torn)
BY ZoneAfterIsZoneOf, Zenon DEF After, DevOf, BlobsIn

LEMMA SeenIsDevOf == Seen = DevOf(media, queue, DOMAIN queue, {})
BY AfterIsDevOf, Zenon DEF Seen

LEMMA SeenIsDevOfNext == Seen' = DevOf(media', queue', DOMAIN queue', {})
<1>1. \A z : ZoneAfter(z, DOMAIN queue, {})' = ZoneOf(media'.zone[z], queue', z, DOMAIN queue', {})
  BY Zenon DEF ZoneAfter, ZoneOf, PointerOf, BaseOf, PositionsOf, AppendsOf
<1> QED
  BY <1>1, Zenon DEF Seen, After, DevOf, BlobsIn

LEMMA BlobsInQueue ==
    ASSUME NEW q \in Seq(Ops), NEW whole \in SUBSET DOMAIN q
    PROVE  BlobsIn(q, whole) \subseteq Nat \X Blobs
<1> SUFFICES ASSUME NEW i \in whole, q[i].op = "blob"
             PROVE  <<q[i].tree, q[i].blob>> \in Nat \X Blobs
  BY DEF BlobsIn
<1>1. q[i] \in Ops
  OBVIOUS
<1> QED
  BY <1>1 DEF Ops

LEMMA DevIsDevice ==
    ASSUME NEW m \in Devices, NEW q \in Seq(Ops),
           NEW whole \in SUBSET DOMAIN q, NEW torn \in SUBSET DOMAIN q,
           \A z \in RootZones : Within(m.zone[z], q, z)
    PROVE  DevOf(m, q, whole, torn) \in Devices
<1>1. m.blobs \cup BlobsIn(q, whole) \in SUBSET (Nat \X Blobs)
  BY BlobsInQueue DEF Devices
<1>2. \A z \in RootZones : ZoneOf(m.zone[z], q, z, whole, torn) \in Seq(Records)
  <2> TAKE z \in RootZones
  <2>1. m.zone[z] \in Seq(Records)
    BY DEF Devices
  <2> QED
    BY <2>1, ZoneIsSeq, Zenon
<1>3. [z \in RootZones |-> ZoneOf(m.zone[z], q, z, whole, torn)] \in [RootZones -> Seq(Records)]
  BY <1>2, Zenon
<1> QED
  BY <1>1, <1>3 DEF Devices, DevOf

LEMMA NothingInFlight ==
    ASSUME NEW m \in Seq(Records), NEW z \in RootZones, NEW q \in Seq(Ops), DOMAIN q = {}
    PROVE  ZoneOf(m, q, z, {}, {}) = m
<1>1. Untouched(q, z)
  BY DEF Untouched
<1>2. PICK e \in SUBSET DOMAIN q : e = {}
  OBVIOUS
<1>3. ZoneOf(m, q, z, e, e) = m
  BY <1>1, ZoneSame, Zenon
<1> QED
  BY <1>2, <1>3

\* With nothing in flight, what is read is what is there.
LEMMA EmptyQueue ==
    ASSUME NEW m \in Devices
    PROVE  DevOf(m, <<>>, DOMAIN <<>>, {}) = m
<1> DEFINE d == DevOf(m, <<>>, DOMAIN <<>>, {})
<1>0. <<>> \in Seq(Ops) /\ DOMAIN <<>> = {}
  OBVIOUS
<1>1. \A z \in RootZones : ZoneOf(m.zone[z], <<>>, z, {}, {}) = m.zone[z]
  <2> TAKE z \in RootZones
  <2>1. m.zone[z] \in Seq(Records)
    BY DEF Devices
  <2> QED
    BY <1>0, <2>1, NothingInFlight, Zenon
<1>2. BlobsIn(<<>>, {}) = {}
  BY DEF BlobsIn
<1>3. DevOf(m, <<>>, {}, {}) = [zone |-> [z \in RootZones |-> m.zone[z]], blobs |-> m.blobs]
  BY <1>1, <1>2, Zenon DEF DevOf
<1>4. m = [zone |-> [z \in RootZones |-> m.zone[z]], blobs |-> m.blobs]
  BY DEF Devices
<1> QED
  BY <1>0, <1>3, <1>4, Zenon

LEMMA SubmitKeepsBlobs ==
    ASSUME NEW m, NEW q \in Seq(Ops), NEW op \in Ops
    PROVE  DevOf(m, q, DOMAIN q, {}).blobs
             \subseteq DevOf(m, Append(q, op), DOMAIN Append(q, op), {}).blobs
<1> DEFINE q2 == Append(q, op)
<1>1. \A i \in DOMAIN q : i \in DOMAIN q2 /\ q2[i] = q[i]
  OBVIOUS
<1> HIDE DEF q2
<1>2. BlobsIn(q, DOMAIN q) \subseteq BlobsIn(q2, DOMAIN q2)
  <2> SUFFICES ASSUME NEW i \in DOMAIN q, q[i].op = "blob"
               PROVE  <<q[i].tree, q[i].blob>> \in BlobsIn(q2, DOMAIN q2)
    BY Zenon DEF BlobsIn
  <2>1. i \in DOMAIN q2 /\ q2[i].op = "blob" /\ <<q[i].tree, q[i].blob>> = <<q2[i].tree, q2[i].blob>>
    BY <1>1, Zenon
  <2> QED
    BY <2>1, Zenon DEF BlobsIn
<1>3. DevOf(m, q, DOMAIN q, {}).blobs = m.blobs \cup BlobsIn(q, DOMAIN q)
  BY DEF DevOf
<1>4. DevOf(m, q2, DOMAIN q2, {}).blobs = m.blobs \cup BlobsIn(q2, DOMAIN q2)
  BY DEF DevOf
<1> QED
  BY <1>2, <1>3, <1>4, Zenon DEF q2

LEMMA ResolvesMore ==
    ASSUME NEW d, NEW e, NEW r, d.blobs \subseteq e.blobs, Resolves(d, r)
    PROVE  Resolves(e, r)
BY Zenon DEF Resolves

LEMMA RootZonesAre == \A z \in RootZones : /\ OtherThan(z) \in RootZones
                                           /\ OtherThan(z) # z
                                           /\ OtherThan(OtherThan(z)) = z
                                           /\ RootZones = {z, OtherThan(z)}
BY DEF RootZones, OtherThan

LEMMA RootsOf == \A dev : Roots(dev) = UNION {Verifying(dev.zone[z]) : z \in RootZones}
BY DEF Roots, RootZones

LEMMA InRoots ==
    /\ \A dev, r : r \in Roots(dev) <=> \E z \in RootZones : r \in Verifying(dev.zone[z])
BY RootsOf, Zenon

LEMMA QueueWithin ==
    ASSUME Types, InFlight, NEW z \in RootZones
    PROVE  Within(media.zone[z], queue, z)
<1> SUFFICES ASSUME NEW i \in DOMAIN queue, queue[i].op = "append", queue[i].zone = z
             PROVE  queue[i].at <= Len(media.zone[z]) + Len(queue)
  BY Zenon DEF Within
<1>1. queue[i].op # "blob" /\ queue[i].op # "astray" /\ queue[i].op # "reset"
  OBVIOUS
<1>2. InZone(queue[i])
  BY <1>1, Zenon DEF InFlight, QueueOK, IsBlob
<1> QED
  BY <1>1, <1>2, Zenon DEF InZone, Fits

\* The operations in flight never touch the other zone, and the records they
\* leave are those that were there and, once it is submitted, the new one.
LEMMA Landing ==
    ASSUME Types, InFlight, NEW whole \in SUBSET DOMAIN queue, NEW torn \in SUBSET DOMAIN queue
    PROVE  LET dev == After(whole, torn) IN
           /\ dev \in Devices
           /\ media.blobs \subseteq dev.blobs
           /\ \A r \in Roots(dev) : r \in Roots(media) \/ (pc = "adopt" /\ r = work.record)
           /\ pc \notin Writing => dev.zone = media.zone
           /\ pc \in Writing => dev.zone[OtherThan(work.zone)] = media.zone[OtherThan(work.zone)]
           /\ (pc \in Writing /\ Beyond) =>
                 Verifying(media.zone[work.zone]) \subseteq Verifying(dev.zone[work.zone])
<1> DEFINE dev == DevOf(media, queue, whole, torn)
<1>0. After(whole, torn) = dev
  BY AfterIsDevOf, Zenon
<1>t. media \in Devices /\ queue \in Seq(Ops)
  BY Zenon DEF Types, Devices
<1>z. \A z \in RootZones : media.zone[z] \in Seq(Records) /\ Within(media.zone[z], queue, z)
  <2>1. \A z \in RootZones : media.zone[z] \in Seq(Records)
    BY <1>t DEF Devices
  <2> QED
    BY <2>1, QueueWithin, Zenon
<1>p. /\ dev.blobs = media.blobs \cup BlobsIn(queue, whole)
      /\ DOMAIN dev.zone = RootZones
      /\ \A z \in RootZones : dev.zone[z] = ZoneOf(media.zone[z], queue, z, whole, torn)
  BY DEF DevOf
<1>1. dev \in Devices
  BY <1>t, <1>z, DevIsDevice, Zenon
<1> HIDE DEF dev
<1>2. media.blobs \subseteq dev.blobs
  BY <1>p, Zenon
<1>3. ASSUME NEW r \in Roots(dev) PROVE r \in Roots(media) \/ (pc = "adopt" /\ r = work.record)
  <2>1. PICK z \in RootZones : r \in Verifying(dev.zone[z])
    BY <1>3, InRoots, Zenon
  <2>2. r \in Verifying(ZoneOf(media.zone[z], queue, z, whole, torn))
    BY <2>1, <1>p, Zenon
  <2>3. \/ r \in Verifying(media.zone[z])
        \/ \E i \in whole : queue[i].op = "append" /\ queue[i].zone = z /\ queue[i].record = r
    <3>1. media.zone[z] \in Seq(Records) /\ Within(media.zone[z], queue, z)
      BY <1>z, Zenon
    <3> QED
      BY <2>2, <3>1, <1>t, ZoneRecords
  <2>4. CASE r \in Verifying(media.zone[z])
    BY <2>4, InRoots, Zenon
  <2>5. ASSUME NEW i \in whole, queue[i].op = "append", queue[i].record = r
        PROVE  r \in Roots(media) \/ (pc = "adopt" /\ r = work.record)
    <3>1. /\ i \in DOMAIN queue
          /\ queue[i].op # "blob" /\ queue[i].op # "astray" /\ queue[i].op # "reset"
      BY <2>5
    <3>2. InZone(queue[i])
      BY <3>1, Zenon DEF InFlight, QueueOK, IsBlob
    <3> QED
      BY <3>1, <3>2, <2>5, Zenon DEF InZone, Fits
  <2> QED
    BY <2>3, <2>4, <2>5, Zenon
<1>4. ASSUME NEW z \in RootZones, pc \in Writing => z # work.zone
      PROVE  dev.zone[z] = media.zone[z]
  <2>1. Untouched(queue, z)
    <3> SUFFICES ASSUME NEW i \in DOMAIN queue
                 PROVE  queue[i] # Reset(z) /\ ~(queue[i].op = "append" /\ queue[i].zone = z)
      BY Zenon DEF Untouched
    <3>1. CASE IsBlob(queue[i])
      BY <3>1 DEF IsBlob, Reset
    <3>2. CASE InZone(queue[i])
      <4>1. queue[i].zone # z
        BY <3>2, <1>4, Zenon DEF InZone, Fits
      <4>2. Reset(z).zone = z
        BY DEF Reset
      <4> QED
        BY <4>1, <4>2, Zenon
    <3> QED
      BY <3>1, <3>2, Zenon DEF InFlight, QueueOK
  <2>2. ZoneOf(media.zone[z], queue, z, whole, torn) = media.zone[z]
    <3>1. media.zone[z] \in Seq(Records)
      BY <1>z, Zenon
    <3> QED
      BY <2>1, <3>1, <1>t, ZoneSame
  <2> QED
    BY <2>2, <1>p, Zenon
<1>5. pc \notin Writing => dev.zone = media.zone
  <2> HAVE pc \notin Writing
  <2>1. \A z \in RootZones : dev.zone[z] = media.zone[z]
    BY <1>4, Zenon
  <2>2. dev.zone \in [RootZones -> Seq(Records)] /\ media.zone \in [RootZones -> Seq(Records)]
    BY <1>1, <1>t DEF Devices
  <2> QED
    BY <2>1, <2>2
<1>6. pc \in Writing => dev.zone[OtherThan(work.zone)] = media.zone[OtherThan(work.zone)]
  <2>1. work.zone \in RootZones
    BY DEF Types
  <2> QED
    BY <2>1, <1>4, RootZonesAre, Zenon
<1>7. (pc \in Writing /\ Beyond) =>
          Verifying(media.zone[work.zone]) \subseteq Verifying(dev.zone[work.zone])
  <2> HAVE pc \in Writing /\ Beyond
  <2>1. work.zone \in RootZones
    BY DEF Types
  <2>2. \A i \in DOMAIN queue : queue[i] # Reset(work.zone)
    BY DEF Beyond, Reset
  <2>3. \A i \in DOMAIN queue : (queue[i].op = "append" /\ queue[i].zone = work.zone)
                                    => queue[i].at > Len(media.zone[work.zone])
    BY Zenon DEF Beyond
  <2>4. Verifying(media.zone[work.zone])
          \subseteq Verifying(ZoneOf(media.zone[work.zone], queue, work.zone, whole, torn))
    BY <2>1, <2>2, <2>3, <1>z, <1>t, ZoneKept, Zenon
  <2> QED
    BY <2>1, <2>4, <1>p, Zenon
<1> QED
  BY <1>0, <1>1, <1>2, <1>3, <1>5, <1>6, <1>7, Zenon

LEMMA SeenLanding ==
    ASSUME Types, InFlight
    PROVE  /\ Seen \in Devices
           /\ media.blobs \subseteq Seen.blobs
           /\ \A r \in Roots(Seen) : r \in Roots(media) \/ (pc = "adopt" /\ r = work.record)
           /\ pc \notin Writing => Seen.zone = media.zone
           /\ pc \in Writing => Seen.zone[OtherThan(work.zone)] = media.zone[OtherThan(work.zone)]
           /\ (pc \in Writing /\ Beyond) =>
                 Verifying(media.zone[work.zone]) \subseteq Verifying(Seen.zone[work.zone])
<1>1. DOMAIN queue \in SUBSET DOMAIN queue /\ {} \in SUBSET DOMAIN queue
  OBVIOUS
<1> QED
  BY <1>1, Landing, Zenon DEF Seen

\* The pointer of the zone the publish writes, as it reads it.
LEMMA SeenLength ==
    ASSUME Types, InFlight
    PROVE  LET n == Len(Seen.zone[work.zone]) IN
           /\ Seen.zone[work.zone] = ZoneOf(media.zone[work.zone], queue, work.zone, DOMAIN queue, {})
           /\ n \in Nat /\ n <= Len(media.zone[work.zone]) + Len(queue)
           /\ Beyond => Len(media.zone[work.zone]) <= n
<1> DEFINE z == work.zone
           m == media.zone[z]
<1>1. z \in RootZones /\ m \in Seq(Records) /\ queue \in Seq(Ops)
  BY DEF Types
<1>2. Within(m, queue, z)
  BY <1>1, QueueWithin, Zenon
<1>3. Seen.zone[z] = ZoneOf(m, queue, z, DOMAIN queue, {})
  BY <1>1, SeenIsDevOf DEF DevOf
<1>4. DOMAIN queue \in SUBSET DOMAIN queue /\ {} \in SUBSET DOMAIN queue
  OBVIOUS
<1> DEFINE p == PointerOf(m, queue, z, DOMAIN queue, {})
<1>5. Len(ZoneOf(m, queue, z, DOMAIN queue, {})) = p
  BY <1>1, <1>2, <1>4, ZoneIsSeq, Zenon
<1>6. p \in Nat /\ p <= Len(m) + Len(queue)
  BY <1>1, <1>2, <1>4, PointerIs, Zenon
<1>7. ASSUME Beyond PROVE Len(m) <= Len(ZoneOf(m, queue, z, DOMAIN queue, {}))
  <2>1. \A i \in DOMAIN queue : queue[i] # Reset(z)
    BY <1>7 DEF Beyond, Reset
  <2>2. \A i \in DOMAIN queue : (queue[i].op = "append" /\ queue[i].zone = z) => queue[i].at > Len(m)
    BY <1>7, Zenon DEF Beyond
  <2> HIDE DEF z, m
  <2> QED
    BY <1>1, <1>2, <1>4, <2>1, <2>2, ZoneKept, Zenon
<1> QED
  BY <1>3, <1>5, <1>6, <1>7, Zenon

LEMMA HighestIs ==
    ASSUME NEW V, NEW n \in Nat, \A r \in Verifying(V) : r.generation \in Nat /\ r.generation <= n
    PROVE  /\ Highest(V) \in Nat
           /\ \A r \in Verifying(V) : r.generation <= Highest(V)
           /\ Highest(V) # 0 => \E r \in Verifying(V) : r.generation = Highest(V)
<1> DEFINE G == {r.generation : r \in Verifying(V)} \cup {0}
<1>1. G \subseteq 0 .. n /\ G # {}
  OBVIOUS
<1>2. Max(G) \in G /\ \A y \in G : y <= Max(G)
  BY <1>1, MaxOfBounded, Zenon
<1>3. \A r \in Verifying(V) : r.generation \in G
  OBVIOUS
<1>4. \E g \in G : \A r \in Verifying(V) : r.generation <= g
  BY <1>2, <1>3, Zenon
<1>5. Highest(V) \in G /\ \A r \in Verifying(V) : r.generation <= Highest(V)
  BY <1>4, Zenon DEF Highest
<1>6. Highest(V) \in Nat
  <2>1. Highest(V) \in 0 .. n
    BY <1>1, <1>5, Zenon
  <2> QED
    BY <2>1
<1>7. Highest(V) # 0 => \E r \in Verifying(V) : r.generation = Highest(V)
  BY <1>5, Zenon
<1> QED
  BY <1>5, <1>6, <1>7, Zenon

\* root_zone_for_the_next_record: the active zone has the root the machine runs.
LEMMA ActiveHasHeld ==
    ASSUME NEW dev, NEW h, h.generation \in Nat, h \in Roots(dev), OneEach(Roots(dev)),
           \A r \in Roots(dev) : r.generation \in Nat /\ 1 <= r.generation /\ r.generation <= h.generation
    PROVE  h \in Verifying(dev.zone[Active(dev)])
<1> DEFINE A == dev.zone["a"]
           B == dev.zone["b"]
           ha == Highest(A)
           hb == Highest(B)
<1>0. /\ \A r \in Verifying(A) : r \in Roots(dev)
      /\ \A r \in Verifying(B) : r \in Roots(dev)
      /\ h \in Verifying(A) \/ h \in Verifying(B)
  BY Zenon DEF Roots
<1>1. /\ ha \in Nat
      /\ \A r \in Verifying(A) : r.generation <= ha
      /\ ha # 0 => \E r \in Verifying(A) : r.generation = ha
  <2>1. \A r \in Verifying(A) : r.generation \in Nat /\ r.generation <= h.generation
    BY <1>0, Zenon
  <2> QED
    BY <2>1, HighestIs, Zenon
<1>2. /\ hb \in Nat
      /\ \A r \in Verifying(B) : r.generation <= hb
      /\ hb # 0 => \E r \in Verifying(B) : r.generation = hb
  <2>1. \A r \in Verifying(B) : r.generation \in Nat /\ r.generation <= h.generation
    BY <1>0, Zenon
  <2> QED
    BY <2>1, HighestIs, Zenon
<1>3. Active(dev) = IF hb > ha THEN "b" ELSE "a"
  BY Zenon DEF Active
<1> HIDE DEF A, B, ha, hb
<1>4. h.generation >= 1
  OBVIOUS
<1>5. CASE hb > ha
  <2>1. Active(dev) = "b"
    BY <1>3, <1>5, Zenon
  <2>2. h \in Verifying(B)
    <3>1. SUFFICES ASSUME h \in Verifying(A) PROVE FALSE
      BY <1>0, Zenon
    <3>2. h.generation <= ha
      BY <1>1, <3>1, Zenon
    <3>3. PICK r \in Verifying(B) : r.generation = hb
      BY <1>1, <1>2, <1>5
    <3>4. r.generation <= h.generation
      BY <1>0, <3>3, Zenon
    <3> QED
      BY <1>1, <1>2, <1>5, <3>2, <3>3, <3>4
  <2> QED
    BY <2>1, <2>2, Zenon DEF B
<1>6. CASE ~(hb > ha)
  <2>1. Active(dev) = "a"
    BY <1>3, <1>6, Zenon
  <2>2. h \in Verifying(A)
    <3>1. SUFFICES ASSUME h \in Verifying(B) PROVE h \in Verifying(A)
      BY <1>0, Zenon
    <3>2. h.generation <= hb
      BY <1>2, <3>1, Zenon
    <3>3. ha # 0 /\ h.generation <= ha
      BY <1>1, <1>2, <1>4, <1>6, <3>2
    <3>4. PICK r \in Verifying(A) : r.generation = ha
      BY <1>1, <3>3, Zenon
    <3>5. r \in Roots(dev) /\ r.generation <= h.generation
      BY <1>0, Zenon
    <3>6. r.generation = h.generation
      BY <1>1, <3>3, <3>4, <3>5
    <3>7. r = h
      BY <3>5, <3>6, Zenon DEF OneEach
    <3> QED
      BY <3>7
  <2> QED
    BY <2>1, <2>2, Zenon DEF A
<1> QED
  BY <1>5, <1>6

-----------------------------------------------------------------------------
(* Submitting an operation, and writing all of them. *)

LEMMA SubmitQueue ==
    ASSUME Types, QueueOK, NEW op \in Ops, Submit(op),
           pc \in Publishing \ {"adopt"}, pc' \in Publishing,
           pc \in Writing => pc' \in Writing /\ work'.zone = work.zone,
           \/ IsBlob(op)
           \/ Fits(op, pc', work'.zone, work'.record, Len(media.zone[work'.zone]) + Len(queue) + 1,
                   Roots(media))
    PROVE  /\ queue' \in Seq(Ops) /\ media' = media /\ Len(queue') = Len(queue) + 1
           /\ \A i \in DOMAIN queue' : (i \in DOMAIN queue /\ queue'[i] = queue[i])
                                       \/ queue'[i] = op
           /\ QueueOK'
<1>1. queue \in Seq(Ops) /\ queue' = Append(queue, op) /\ media' = media
  BY Zenon DEF Types, Submit
<1>2. /\ queue' \in Seq(Ops) /\ Len(queue') = Len(queue) + 1
      /\ \A i \in DOMAIN queue' : (i \in DOMAIN queue /\ queue'[i] = queue[i])
                                  \/ queue'[i] = op
  BY <1>1
<1> DEFINE FitsNext(x) ==
              Fits(x, pc', work'.zone, work'.record, Len(media'.zone[work'.zone]) + Len(queue'),
                   Roots(media'))
<1>0. Len(media.zone[work'.zone]) + Len(queue) + 1 = Len(media'.zone[work'.zone]) + Len(queue')
      \/ IsBlob(op)
  <2>1. SUFFICES ASSUME ~IsBlob(op)
                 PROVE  Len(media.zone[work'.zone]) + Len(queue) + 1
                          = Len(media'.zone[work'.zone]) + Len(queue')
    OBVIOUS
  <2>2. op.zone = work'.zone /\ (op.op = "append" \/ op.op = "reset")
    BY <2>1, Zenon DEF Fits
  <2>3. op.zone \in RootZones
    BY <2>2 DEF Ops
  <2>4. media.zone[work'.zone] \in Seq(Records)
    BY <2>2, <2>3 DEF Types
  <2>5. PICK k \in Nat, n \in Nat : k = Len(media.zone[work'.zone]) /\ n = Len(queue)
    BY <2>4, <1>1
  <2>6. Len(queue') = n + 1
    BY <2>5, <1>2, Zenon
  <2>7. Len(media'.zone[work'.zone]) = k
    BY <2>5, <1>1, Zenon
  <2>8. k + n + 1 = k + (n + 1)
    OBVIOUS
  <2> QED
    BY <2>5, <2>6, <2>7, <2>8, Zenon
<1>3. ASSUME NEW i \in DOMAIN queue' PROVE IsBlob(queue'[i]) \/ FitsNext(queue'[i])
  <2>1. CASE queue'[i] = op
    BY <2>1, <1>0, <1>1, Zenon
  <2>2. CASE i \in DOMAIN queue /\ queue'[i] = queue[i] /\ IsBlob(queue[i])
    BY <2>2, Zenon
  <2>3. CASE i \in DOMAIN queue /\ queue'[i] = queue[i] /\ InZone(queue[i])
    <3> DEFINE x == queue[i]
    <3>0. x \in Ops /\ queue'[i] = x
      BY <2>3, <1>1
    <3>1. pc' \in Writing /\ work'.zone = work.zone /\ x.zone = work.zone
      BY <2>3, Zenon DEF InZone, Fits
    <3>2. x.op = "append" => x.at <= Len(media.zone[work.zone]) + Len(queue) /\ x.record \in Roots(media)
      BY <2>3, Zenon DEF InZone, Fits
    <3>3. x.op = "reset" \/ x.op = "append"
      BY <2>3, Zenon DEF InZone, Fits
    <3> HIDE DEF x
    <3>4. x.op = "append" => x.at <= Len(media'.zone[work'.zone]) + Len(queue')
      <4>1. media.zone[work.zone] \in Seq(Records)
        BY DEF Types
      <4>2. PICK k \in Nat, n \in Nat : k = Len(media.zone[work.zone]) /\ n = Len(queue)
        BY <4>1, <1>1
      <4>3. x.op = "append" => x.at \in Nat
        BY <3>0, AnAppend, Zenon
      <4>4. x.op = "append" => x.at <= k + n
        BY <3>2, <4>2, Zenon
      <4>5. Len(media'.zone[work'.zone]) + Len(queue') = k + (n + 1)
        BY <4>2, <1>1, <1>2, <3>1
      <4> QED
        BY <4>3, <4>4, <4>5
    <3>5. x.op = "append" => x.record \in Roots(media')
      BY <3>2, <1>1, Zenon
    <3>6. FitsNext(x)
      BY <3>1, <3>3, <3>4, <3>5, Zenon DEF Fits
    <3> QED
      BY <3>0, <3>6, Zenon
  <2> QED
    BY <1>2, <2>1, <2>2, <2>3, Zenon DEF QueueOK
<1>4. pc' \notin {"idle", "off"}
  BY DEF Publishing
<1>5. QueueOK'
  BY <1>3, <1>4, Zenon DEF QueueOK, IsBlob, InZone
<1> QED
  BY <1>1, <1>2, <1>5, Zenon

LEMMA SubmitResolves ==
    ASSUME Types, NEW op \in Ops, Submit(op), NEW r, Resolves(Seen, r)
    PROVE  Resolves(Seen', r)
<1>1. queue \in Seq(Ops) /\ queue' = Append(queue, op) /\ media' = media
  BY Zenon DEF Types, Submit
<1>2. Seen.blobs \subseteq (Seen').blobs
  BY <1>1, SubmitKeepsBlobs, SeenIsDevOf, SeenIsDevOfNext
<1> QED
  BY <1>2, ResolvesMore, Zenon

\* Writing what is in flight, or not, changes nothing the system reads.
LEMMA FlushSeen ==
    ASSUME Types, InFlight, (media' = Seen /\ queue' = <<>>) \/ (media' = media /\ queue' = queue)
    PROVE  Seen' = Seen
<1>1. CASE media' = Seen /\ queue' = <<>>
  <2>1. Seen \in Devices
    BY SeenLanding, Zenon
  <2>2. Seen' = DevOf(Seen, <<>>, DOMAIN <<>>, {})
    BY <1>1, SeenIsDevOfNext, Zenon
  <2> QED
    BY <2>1, <2>2, EmptyQueue, Zenon
<1>2. CASE media' = media /\ queue' = queue
  BY <1>2, SeenIsDevOf, SeenIsDevOfNext, Zenon
<1> QED
  BY <1>1, <1>2

LEMMA RootsAreRecords ==
    ASSUME NEW dev \in Devices
    PROVE  /\ Roots(dev) \subseteq Records
           /\ \A r \in Roots(dev) : r # None /\ r.generation \in Nat /\ r.tree \in Nat
<1>1. ASSUME NEW z \in RootZones PROVE Verifying(dev.zone[z]) \subseteq Records
  <2>1. dev.zone[z] \in Seq(Records)
    BY DEF Devices
  <2> QED
    BY <2>1 DEF Verifying
<1>2. Roots(dev) \subseteq Records
  BY <1>1, InRoots, Zenon
<1>3. \A r \in Roots(dev) : r # None
  BY Zenon DEF Roots, Verifying
<1>4. \A r \in Records : r.generation \in Nat /\ r.tree \in Nat
  BY DEF Records
<1> QED
  BY <1>2, <1>3, <1>4, Zenon

\* Roots lost, or blobs gained, leave a whole medium whole, as long as the
\* root the machine runs is among those that stay.
LEMMA WholeStays ==
    ASSUME NEW d, NEW e, NEW h, Whole(d, h), d.blobs \subseteq e.blobs,
           Roots(e) \subseteq Roots(d), h = None \/ h \in Roots(e)
    PROVE  Whole(e, h)
<1>1. \A r \in Roots(e) : Resolves(e, r)
  BY ResolvesMore, Zenon DEF Whole
<1> QED
  BY <1>1, Zenon DEF Whole, OneEach

LEMMA HeldSurvives ==
    ASSUME Types, InFlight, Whole(media, held), Shielded, held # None,
           NEW whole \in SUBSET DOMAIN queue, NEW torn \in SUBSET DOMAIN queue
    PROVE  held \in Roots(After(whole, torn))
<1> DEFINE dev == After(whole, torn)
<1>1. /\ pc \notin Writing => dev.zone = media.zone
      /\ pc \in Writing => dev.zone[OtherThan(work.zone)] = media.zone[OtherThan(work.zone)]
      /\ (pc \in Writing /\ Beyond) =>
            Verifying(media.zone[work.zone]) \subseteq Verifying(dev.zone[work.zone])
  BY Landing, Zenon
<1> HIDE DEF dev
<1>2. work.zone \in RootZones /\ OtherThan(work.zone) \in RootZones
  <2>1. work.zone \in RootZones
    BY DEF Types
  <2> QED
    BY <2>1, RootZonesAre, Zenon
<1>3. CASE pc \notin Writing
  BY <1>1, <1>3, Zenon DEF Whole, Roots, dev
<1>4. CASE pc \in Writing
  <2>1. \/ held \in Verifying(dev.zone[OtherThan(work.zone)])
        \/ held \in Verifying(dev.zone[work.zone])
    BY <1>1, <1>4, Zenon DEF Shielded
  <2>2. held \in Roots(dev)
    BY <1>2, <2>1, InRoots, Zenon
  <2> QED
    BY <2>2 DEF dev
<1> QED
  BY <1>3, <1>4

\* What is read on a whole medium before the new record is submitted is one, too.
LEMMA SeenIsWhole ==
    ASSUME Types, InFlight, Whole(media, held), Shielded, pc # "adopt"
    PROVE  Whole(Seen, held)
<1>1. DOMAIN queue \in SUBSET DOMAIN queue /\ {} \in SUBSET DOMAIN queue
  OBVIOUS
<1>2. held = None \/ held \in Roots(Seen)
  BY <1>1, HeldSurvives, Zenon DEF Seen
<1>3. Roots(Seen) \subseteq Roots(media) /\ media.blobs \subseteq Seen.blobs
  BY SeenLanding, Zenon
<1> QED
  BY <1>2, <1>3, WholeStays, Zenon

-----------------------------------------------------------------------------
(* Each step keeps the invariant. *)

\* The part of it that says what has been lost and what is running.
Medium ==
    /\ HeldOnMedium
    /\ NoneRefused
    /\ ~honest => cuts <= 1
    /\ pc = "off" => cuts # 0
    /\ ((honest \/ cuts = 0) /\ pc # "off") => Whole(media, held) /\ Shielded
    /\ pc = "off" => CutMedium

LEMMA InvParts == PublishInv <=> Types /\ InFlight /\ Medium
BY Zenon DEF PublishInv, Medium

\* A step that writes nothing to the medium need only see to Shielded.
LEMMA MediumUnwritten ==
    ASSUME Medium, UNCHANGED <<honest, media, held, refused, cuts>>,
           pc # "off", pc' # "off",
           (Whole(media, held) /\ Shielded) => Shielded'
    PROVE  Medium'
<1>1. HeldOnMedium' /\ NoneRefused'
  BY Zenon DEF Medium, HeldOnMedium, NoneRefused
<1>2. Whole(media, held) => Whole(media', held')
  BY Zenon
<1> QED
  BY <1>1, <1>2, Zenon DEF Medium

LEMMA InitInv == Init => PublishInv
<1> SUFFICES ASSUME Init PROVE PublishInv
  OBVIOUS
<1>1. media \in Devices /\ media.zone["a"] = <<>> /\ media.zone["b"] = <<>>
  BY DEF Init, Devices, RootZones
<1>2. Types
  <2>1. work \in [record : Records, zone : RootZones, carry : Carries]
    <3>1. <<>> \in [{} -> Records]
      OBVIOUS
    <3>2. <<>> \in Carries
      BY <3>1 DEF Carries
    <3> QED
      BY <3>2, NoneIsRecord DEF Init, RootZones
  <2> QED
    BY <1>1, <2>1, NoneIsRecord DEF Init, Types, Devices, Publishing
<1>3. InFlight
  BY DEF Init, InFlight, QueueOK, CarryOK, RecordOK, TreeOK, AdoptOK, Publishing
<1>4. Roots(media) = {}
  BY <1>1 DEF Roots, Verifying
<1>5. Whole(media, held)
  BY <1>4, Zenon DEF Init, Whole, OneEach
<1>6. Shielded
  BY DEF Init, Shielded
<1> QED
  BY <1>2, <1>3, <1>5, <1>6 DEF Init, PublishInv, HeldOnMedium, NoneRefused

LEMMA OpenInv == ASSUME PublishInv, Open PROVE PublishInv'
<1>0. Types /\ InFlight /\ Medium
  BY InvParts, Zenon
<1>1. /\ pc = "idle" /\ pc' = "blobs" /\ queue = <<>>
      /\ UNCHANGED <<honest, media, queue, held, refused, cuts>>
      /\ tried' = tried + 1
      /\ expected' = {held, work'.record}
  BY <1>0 DEF Open, this, InFlight, QueueOK
<1>w. PICK tree \in {tried + 1} \cup ({work.record.tree} \ {0}) :
          work' = [record |-> [generation |-> held.generation + 1, tree |-> tree],
                   zone |-> "a", carry |-> <<>>]
  BY Zenon DEF Open
<1>2. work' \in [record : Records, zone : RootZones, carry : Carries]
  <2>1. <<>> \in [{} -> Records]
    OBVIOUS
  <2>2. <<>> \in Carries
    BY <2>1 DEF Carries
  <2>3. held.generation \in Nat /\ tried \in Nat /\ work.record.tree \in Nat
    BY <1>0 DEF Types, Records
  <2>4. [generation |-> held.generation + 1, tree |-> tree] \in Records
    BY <1>w, <2>3 DEF Records
  <2> QED
    BY <1>w, <2>2, <2>4 DEF RootZones
<1>3. Types'
  BY <1>0, <1>1, <1>2 DEF Types, Publishing
<1>4. InFlight'
  <2>1. QueueOK' /\ CarryOK' /\ TreeOK' /\ AdoptOK'
    BY <1>1 DEF QueueOK, CarryOK, TreeOK, AdoptOK
  <2>2. work'.record.generation = held'.generation + 1
    BY <1>1, <1>w
  <2>3. RecordOK'
    BY <1>1, <2>2 DEF RecordOK
  <2> QED
    BY <2>1, <2>3, Zenon DEF InFlight
<1>5. Medium'
  <2>1. Shielded'
    BY <1>1 DEF Shielded, Writing
  <2>2. pc # "off" /\ pc' # "off"
    BY <1>1
  <2> QED
    BY <1>0, <1>1, <2>1, <2>2, MediumUnwritten, Zenon
<1> QED
  BY <1>3, <1>4, <1>5, Zenon DEF PublishInv, Medium

LEMMA PutInv == ASSUME PublishInv, Put PROVE PublishInv'
<1>0. Types /\ InFlight /\ Medium
  BY InvParts, Zenon
<1>1. /\ pc = "blobs" /\ pc' = "blobs"
      /\ UNCHANGED <<honest, work, held, expected, refused, tried, cuts>>
  BY DEF Put, this
<1>2. PICK b \in Blobs : Submit(IF short THEN Astray(work.record.tree, b)
                               ELSE Blob(work.record.tree, b))
  BY Zenon DEF Put
<1> DEFINE op == IF short THEN Astray(work.record.tree, b) ELSE Blob(work.record.tree, b)
<1>3. op \in Ops /\ IsBlob(op)
  <2>1. work.record.tree \in Nat
    BY <1>0 DEF Types, Records
  <2> QED
    BY <2>1 DEF Astray, Blob, Ops, IsBlob
<1> HIDE DEF op
<1>4. /\ queue' \in Seq(Ops) /\ media' = media
      /\ QueueOK'
  <2>1. pc \in Publishing \ {"adopt"} /\ pc' \in Publishing /\ pc \notin Writing
    BY <1>1 DEF Publishing, Writing
  <2> QED
    BY <1>0, <1>2, <1>3, <2>1, SubmitQueue, Zenon DEF InFlight, op
<1>5. Types'
  BY <1>0, <1>1, <1>4, Zenon DEF Types
<1>6. InFlight'
  <2>1. CarryOK' /\ TreeOK' /\ AdoptOK'
    BY <1>1 DEF CarryOK, TreeOK, AdoptOK
  <2>2. RecordOK'
    BY <1>0, <1>1, Zenon DEF InFlight, RecordOK
  <2> QED
    BY <1>4, <2>1, <2>2, Zenon DEF InFlight
<1>7. Medium'
  <2>1. Shielded'
    BY <1>1 DEF Shielded, Writing
  <2>2. pc # "off" /\ pc' # "off"
    BY <1>1
  <2> QED
    BY <1>0, <1>1, <1>4, <2>1, <2>2, MediumUnwritten, Zenon
<1> QED
  BY <1>5, <1>6, <1>7, Zenon DEF PublishInv, Medium

LEMMA MediumWritten ==
    ASSUME Types, InFlight, Medium, UNCHANGED <<honest, held, refused, cuts>>,
           pc # "off", pc' # "off", pc # "adopt", honest \/ pc \notin Writing,
           media' = Seen, (Whole(media, held) /\ Shielded) => Shielded'
    PROVE  Medium'
<1>1. (Whole(media, held) /\ Shielded) => Whole(media', held')
  BY SeenIsWhole, Zenon
<1>2. HeldOnMedium'
  <2> SUFFICES ASSUME held # None PROVE held \in Roots(Seen) /\ Resolves(Seen, held)
    BY Zenon DEF HeldOnMedium
  <2>1. CASE honest
    <3>1. Whole(Seen, held)
      BY <1>1, <2>1, Zenon DEF Medium
    <3> QED
      BY <3>1, Zenon DEF Whole
  <2>2. CASE pc \notin Writing
    <3>1. Seen.zone = media.zone /\ media.blobs \subseteq Seen.blobs
      BY <2>2, SeenLanding, Zenon
    <3>2. held \in Roots(media) /\ Resolves(media, held)
      BY Zenon DEF Medium, HeldOnMedium
    <3> QED
      BY <3>1, <3>2, ResolvesMore, Zenon DEF Roots
  <2> QED
    BY <2>1, <2>2
<1>3. NoneRefused'
  BY Zenon DEF Medium, NoneRefused
<1> QED
  BY <1>1, <1>2, <1>3, Zenon DEF Medium

LEMMA BarrierInv == ASSUME PublishInv, Barrier, ~harmed' PROVE PublishInv'
<1>0. Types /\ InFlight /\ Medium
  BY InvParts, Zenon
<1>1. /\ pc = "blobs" /\ pc' = "choose"
      /\ UNCHANGED <<honest, work, held, expected, refused, tried, cuts>>
      /\ Resolves(Seen, work.record)
  BY Zenon DEF Barrier, this
<1>2. \/ honest /\ media' = Seen /\ queue' = <<>>
      \/ ~honest /\ media' = media /\ queue' = queue
  BY <1>0 DEF Barrier, Flush, Types
<1>3. media' \in Devices /\ queue' \in Seq(Ops) /\ Seen' = Seen
  <2>1. Seen \in Devices /\ media \in Devices /\ queue \in Seq(Ops)
    BY <1>0, SeenLanding, Zenon DEF Types, Devices
  <2>2. <<>> \in Seq(Ops)
    OBVIOUS
  <2>3. Seen' = Seen
    BY <1>0, <1>2, FlushSeen, Zenon
  <2> QED
    BY <1>2, <2>1, <2>2, <2>3, Zenon
<1>n. pc \notin Writing /\ pc' \notin Writing /\ pc \in Publishing /\ pc' \in Publishing
  BY <1>1 DEF Writing, Publishing
<1>4. Types'
  BY <1>0, <1>1, <1>3, <1>n, Zenon DEF Types, Devices
<1>5. InFlight'
  <2>1. QueueOK'
    <3>1. \A i \in DOMAIN queue : IsBlob(queue[i])
      BY <1>0, <1>n, Zenon DEF InFlight, QueueOK, InZone, Fits
    <3>2. \A i \in DOMAIN queue' : IsBlob(queue'[i])
      BY <1>2, <3>1
    <3> QED
      BY <1>1, <3>2 DEF QueueOK, IsBlob
  <2>2. CarryOK' /\ AdoptOK'
    BY <1>1 DEF CarryOK, AdoptOK
  <2>3. RecordOK'
    BY <1>0, <1>1, <1>n DEF InFlight, RecordOK
  <2>4. TreeOK'
    BY <1>1, <1>2, <1>3, Zenon DEF TreeOK
  <2> QED
    BY <2>1, <2>2, <2>3, <2>4, Zenon DEF InFlight
<1>6. Medium'
  <2>1. Shielded'
    BY <1>n, Zenon DEF Shielded
  <2>2. pc # "off" /\ pc' # "off" /\ pc # "adopt"
    BY <1>1
  <2> QED
    BY <1>0, <1>1, <1>2, <1>n, <2>1, <2>2, MediumUnwritten, MediumWritten, Zenon
<1> QED
  BY <1>4, <1>5, <1>6, Zenon DEF PublishInv, Medium

LEMMA CarriedIs ==
    ASSUME NEW zone \in Seq(Records)
    PROVE  /\ Carried(zone) \in Carries
           /\ \A k \in DOMAIN Carried(zone) : Carried(zone)[k] \in Verifying(zone)
<1> DEFINE whole == {i \in DOMAIN zone : zone[i] # None}
           S == {i \in whole : Cardinality({j \in whole : j > i}) < Carry}
<1>1. Carried(zone) = [x \in S |-> zone[x]]
  BY Zenon DEF Carried, Restrict
<1>2. \A x \in S : x \in DOMAIN zone /\ zone[x] # None
  OBVIOUS
<1> HIDE DEF S, whole
<1>3. \A x \in S : zone[x] \in Verifying(zone) /\ zone[x] \in Records /\ x \in Nat
  BY <1>2 DEF Verifying
<1>4. S \in SUBSET Nat /\ Carried(zone) \in [S -> Records]
  BY <1>1, <1>3
<1> QED
  BY <1>1, <1>3, <1>4, Zenon DEF Carries

LEMMA ChooseZoneInv == ASSUME PublishInv, ChooseZone PROVE PublishInv'
<1>0. Types /\ InFlight /\ Medium
  BY InvParts, Zenon
<1> DEFINE active == Active(Seen)
           other == OtherThan(active)
<1>1. pc = "choose" /\ UNCHANGED <<honest, held, expected, refused, tried, cuts>>
  BY DEF ChooseZone, this
<1>2. \/ /\ pc' = "append" /\ work' = [work EXCEPT !.zone = active]
         /\ UNCHANGED <<media, queue>>
      \/ /\ pc' = "idle" /\ work' = work
         /\ media' = Seen /\ queue' = <<>>
      \/ /\ pc' = "carry"
         /\ work' = [work EXCEPT !.zone = other, !.carry = Carried(Seen.zone[active])]
         /\ Submit(Reset(other))
  BY Zenon DEF ChooseZone
<1>3. active \in RootZones /\ other \in RootZones /\ OtherThan(other) = active
  <2>1. active \in RootZones
    BY DEF Active, RootZones
  <2> QED
    BY <2>1, RootZonesAre, Zenon
<1>4. /\ Seen \in Devices /\ Seen.zone = media.zone /\ media.blobs \subseteq Seen.blobs
      /\ media \in Devices /\ queue \in Seq(Ops)
      /\ \A i \in DOMAIN queue : IsBlob(queue[i])
  <2>1. pc \notin Writing
    BY <1>1 DEF Writing
  <2> QED
    BY <1>0, <2>1, SeenLanding, Zenon DEF Types, Devices, InFlight, QueueOK, InZone, Fits
<1>5. (Whole(media, held) /\ held # None) => held \in Verifying(media.zone[active])
  <2> HAVE Whole(media, held) /\ held # None
  <2>1. Roots(Seen) = Roots(media)
    BY <1>4, Zenon DEF Roots
  <2>2. held \in Roots(Seen) /\ OneEach(Roots(Seen))
    BY <2>1, Zenon DEF Whole
  <2>3. \A r \in Roots(Seen) : r.generation \in Nat /\ 1 <= r.generation
                               /\ r.generation <= held.generation
    BY <2>1, <1>4, RootsAreRecords, Zenon DEF Whole
  <2>4. held.generation \in Nat
    BY <2>2, <2>3, Zenon
  <2> QED
    BY <2>2, <2>3, <2>4, <1>4, ActiveHasHeld, Zenon
<1>6. Resolves(Seen, work.record) /\ (honest => Resolves(media, work.record))
      /\ work.record.generation = held.generation + 1 /\ expected = {held, work.record}
  <2>1. pc \in Publishing \ {"blobs"}
    BY <1>1 DEF Publishing
  <2> QED
    BY <1>0, <2>1, Zenon DEF InFlight, TreeOK, RecordOK
<1>w. work \in [record : Records, zone : RootZones, carry : Carries]
  BY <1>0, Zenon DEF Types
<1>z. media.zone[active] \in Seq(Records)
  BY <1>3, <1>4 DEF Devices
<1> HIDE DEF active, other
<1>7. CASE /\ pc' = "append" /\ work' = [work EXCEPT !.zone = active]
           /\ UNCHANGED <<media, queue>>
  <2>1. work' \in [record : Records, zone : RootZones, carry : Carries]
        /\ work'.zone = active /\ work'.record = work.record
    BY <1>7, <1>w, <1>3
  <2>2. Types'
    BY <1>0, <1>1, <1>7, <2>1 DEF Types, Publishing
  <2>3. Seen' = Seen
    BY <1>0, <1>7, FlushSeen, Zenon
  <2>4. InFlight'
    <3>1. QueueOK'
      BY <1>4, <1>7 DEF QueueOK, IsBlob
    <3>2. CarryOK' /\ AdoptOK'
      BY <1>7 DEF CarryOK, AdoptOK
    <3>3. RecordOK'
      BY <1>1, <1>6, <1>7, <2>1 DEF RecordOK
    <3>4. TreeOK'
      BY <1>1, <1>6, <1>7, <2>1, <2>3, Zenon DEF TreeOK
    <3> QED
      BY <3>1, <3>2, <3>3, <3>4, Zenon DEF InFlight
  <2>5. Beyond'
    BY <1>4, <1>7 DEF Beyond, IsBlob
  <2>6. Whole(media, held) => Shielded'
    BY <1>1, <1>5, <1>7, <2>1, <2>5, Zenon DEF Shielded
  <2>7. pc # "off" /\ pc' # "off"
    BY <1>1, <1>7
  <2>8. Medium'
    BY <1>0, <1>1, <1>7, <2>6, <2>7, MediumUnwritten, Zenon
  <2> QED
    BY <2>2, <2>4, <2>8, Zenon DEF PublishInv, Medium
<1>8. CASE /\ pc' = "idle" /\ work' = work
           /\ media' = Seen /\ queue' = <<>>
  <2>1. Types'
    BY <1>0, <1>1, <1>4, <1>8 DEF Types, Devices
  <2>2. InFlight'
    <3>1. QueueOK'
      BY <1>8 DEF QueueOK
    <3>2. CarryOK' /\ AdoptOK' /\ TreeOK'
      BY <1>8 DEF CarryOK, AdoptOK, TreeOK, Publishing
    <3>3. RecordOK'
      BY <1>1, <1>6, <1>8 DEF RecordOK, Publishing
    <3> QED
      BY <3>1, <3>2, <3>3, Zenon DEF InFlight
  <2>3. Shielded'
    BY <1>8 DEF Shielded, Writing
  <2>4. pc # "off" /\ pc' # "off" /\ pc # "adopt" /\ pc \notin Writing
    BY <1>1, <1>8 DEF Writing
  <2>5. Medium'
    BY <1>0, <1>1, <1>8, <2>3, <2>4, MediumWritten, Zenon
  <2> QED
    BY <2>1, <2>2, <2>5, Zenon DEF PublishInv, Medium
<1>9. CASE /\ pc' = "carry"
           /\ work' = [work EXCEPT !.zone = other, !.carry = Carried(Seen.zone[active])]
           /\ Submit(Reset(other))
  <2>1. Carried(Seen.zone[active]) \in Carries
        /\ \A k \in DOMAIN Carried(Seen.zone[active]) :
              Carried(Seen.zone[active])[k] \in Verifying(media.zone[active])
    BY <1>4, <1>z, CarriedIs, Zenon
  <2>2. work' \in [record : Records, zone : RootZones, carry : Carries]
        /\ work'.zone = other /\ work'.record = work.record
        /\ work'.carry = Carried(Seen.zone[active])
    BY <1>9, <1>w, <1>3, <2>1, Zenon
  <2>3. Reset(other) \in Ops /\ Reset(other).op = "reset" /\ Reset(other).zone = other
    BY <1>3 DEF Reset, Ops
  <2>4. /\ queue' \in Seq(Ops) /\ media' = media
        /\ QueueOK'
    <3>1. pc \in Publishing \ {"adopt"} /\ pc' \in Publishing /\ pc \notin Writing /\ pc' \in Writing
      BY <1>1, <1>9 DEF Publishing, Writing
    <3>2. Fits(Reset(other), pc', work'.zone, work'.record,
               Len(media.zone[work'.zone]) + Len(queue) + 1, Roots(media))
      BY <2>2, <2>3, <3>1, Zenon DEF Fits
    <3> QED
      BY <1>0, <1>9, <2>3, <3>1, <3>2, SubmitQueue, Zenon DEF InFlight
  <2>5. Types'
    BY <1>0, <1>1, <1>9, <2>2, <2>4 DEF Types, Publishing
  <2>6. InFlight'
    <3>1. CarryOK'
      BY <1>3, <2>1, <2>2, <2>4, InRoots, Zenon DEF CarryOK
    <3>2. AdoptOK'
      BY <1>9 DEF AdoptOK
    <3>3. RecordOK'
      BY <1>1, <1>6, <1>9, <2>2 DEF RecordOK
    <3>4. Resolves(Seen', work.record)
      BY <1>0, <1>6, <1>9, <2>3, SubmitResolves, Zenon
    <3>5. TreeOK'
      BY <1>1, <1>6, <2>2, <2>4, <3>4, Zenon DEF TreeOK
    <3> QED
      BY <2>4, <3>1, <3>2, <3>3, <3>5, Zenon DEF InFlight
  <2>7. Whole(media, held) => Shielded'
    BY <1>1, <1>3, <1>5, <2>2, <2>4, Zenon DEF Shielded
  <2>8. pc # "off" /\ pc' # "off"
    BY <1>1, <1>9
  <2>9. Medium'
    BY <1>0, <1>1, <2>4, <2>7, <2>8, MediumUnwritten, Zenon
  <2> QED
    BY <2>5, <2>6, <2>9, Zenon DEF PublishInv, Medium
<1> QED
  BY <1>2, <1>7, <1>8, <1>9, Zenon

\* A record appended where the publish reads the zone to end lies beyond the
\* medium when everything else in flight does.
LEMMA AppendShielded ==
    ASSUME Types, InFlight, NEW op, op.op = "append",
           op.at = Len(Seen.zone[work.zone]) + 1,
           media' = media, held' = held, work'.zone = work.zone, pc \in Writing, Shielded,
           \A i \in DOMAIN queue' : (i \in DOMAIN queue /\ queue'[i] = queue[i]) \/ queue'[i] = op
    PROVE  Shielded'
<1>1. ASSUME Beyond PROVE Beyond'
  <2>1. Len(Seen.zone[work.zone]) \in Nat /\ Len(media.zone[work.zone]) <= Len(Seen.zone[work.zone])
    BY <1>1, SeenLength, Zenon
  <2>2. Len(media.zone[work.zone]) \in Nat
    BY DEF Types
  <2>3. op.at > Len(media.zone[work.zone])
    BY <2>1, <2>2
  <2>4. op.op # "reset"
    OBVIOUS
  <2> QED
    BY <1>1, <2>3, <2>4, Zenon DEF Beyond
<1> QED
  BY <1>1, Zenon DEF Shielded

LEMMA MinOfCarry ==
    ASSUME NEW c \in Carries, DOMAIN c # {}
    PROVE  Min(DOMAIN c) \in DOMAIN c
<1>1. DOMAIN c \subseteq Nat
  BY Zenon DEF Carries
<1>2. \E x \in DOMAIN c : \A y \in DOMAIN c : x <= y
  BY <1>1, LeastExists, Zenon
<1> QED
  BY <1>2, Zenon DEF Min

\* An append at the end of the zone as it is read, of a record that fits there.
LEMMA AppendFits ==
    ASSUME Types, InFlight, NEW r \in Records, NEW step \in Writing,
           r \in Roots(media) \/ (step = "adopt" /\ r = work.record)
    PROVE  LET op == Append1(work.zone, Len(Seen.zone[work.zone]) + 1, r) IN
           /\ op \in Ops /\ op.op = "append" /\ op.zone = work.zone
           /\ op.at = Len(Seen.zone[work.zone]) + 1 /\ op.record = r
           /\ Fits(op, step, work.zone, work.record,
                   Len(media.zone[work.zone]) + Len(queue) + 1, Roots(media))
<1>1. PICK n \in Nat : n = Len(Seen.zone[work.zone])
                       /\ n <= Len(media.zone[work.zone]) + Len(queue)
  BY SeenLength, Zenon
<1>2. work.zone \in RootZones /\ Len(media.zone[work.zone]) \in Nat /\ Len(queue) \in Nat
  BY DEF Types
<1>3. n + 1 <= Len(media.zone[work.zone]) + Len(queue) + 1
  BY <1>1, <1>2
<1> DEFINE op == Append1(work.zone, n + 1, r)
<1>4. op \in Ops
  BY <1>2 DEF Append1, Ops
<1>5. op.op = "append" /\ op.zone = work.zone /\ op.at = n + 1 /\ op.record = r
  BY DEF Append1
<1> HIDE DEF op
<1>6. Fits(op, step, work.zone, work.record,
           Len(media.zone[work.zone]) + Len(queue) + 1, Roots(media))
  BY <1>3, <1>5, Zenon DEF Fits
<1> QED
  BY <1>1, <1>4, <1>5, <1>6, Zenon DEF op

LEMMA CarryOneInv == ASSUME PublishInv, CarryOne PROVE PublishInv'
<1>0. Types /\ InFlight /\ Medium
  BY InvParts, Zenon
<1> DEFINE next == Min(DOMAIN work.carry)
           op == Append1(work.zone, Len(Seen.zone[work.zone]) + 1, work.carry[next])
<1>1. /\ pc = "carry" /\ pc' = "carry" /\ DOMAIN work.carry # {}
      /\ UNCHANGED <<honest, held, expected, refused, tried, cuts>>
      /\ Submit(op)
      /\ work' = [work EXCEPT !.carry = Restrict(@, DOMAIN @ \ {next})]
  BY DEF CarryOne, this
<1>w. work \in [record : Records, zone : RootZones, carry : Carries]
  BY <1>0, Zenon DEF Types
<1>2. next \in DOMAIN work.carry /\ work.carry[next] \in Roots(media)
  <2>1. work.carry \in Carries
    BY <1>w
  <2> QED
    BY <1>0, <1>1, <2>1, MinOfCarry, Zenon DEF InFlight, CarryOK
<1>3. work.carry[next] \in Records
  <2>1. media \in Devices
    BY <1>0, Zenon DEF Types, Devices
  <2> QED
    BY <1>2, <2>1, RootsAreRecords, Zenon
<1>4. /\ op \in Ops /\ op.op = "append" /\ op.at = Len(Seen.zone[work.zone]) + 1
      /\ Fits(op, "carry", work.zone, work.record,
              Len(media.zone[work.zone]) + Len(queue) + 1, Roots(media))
  <2>1. "carry" \in Writing
    BY DEF Writing
  <2> QED
    BY <1>0, <1>2, <1>3, <2>1, AppendFits, Zenon
<1> HIDE DEF op
<1>5. /\ work' \in [record : Records, zone : RootZones, carry : Carries]
      /\ work'.zone = work.zone /\ work'.record = work.record
      /\ \A k \in DOMAIN work'.carry : k \in DOMAIN work.carry /\ work'.carry[k] = work.carry[k]
  <2> DEFINE c == work.carry
             S == DOMAIN c \ {next}
             c2 == [x \in S |-> c[x]]
  <2>1. work' = [work EXCEPT !.carry = c2]
    BY <1>1 DEF Restrict
  <2>2. c \in Carries
    BY <1>w
  <2>3. PICK D \in SUBSET Nat : c \in [D -> Records]
    BY <2>2 DEF Carries
  <2> HIDE DEF c, next
  <2>4. S \in SUBSET Nat /\ c2 \in [S -> Records]
    BY <2>3, Zenon
  <2>5. DOMAIN c2 = S /\ \A k \in S : c2[k] = c[k] /\ k \in DOMAIN c
    OBVIOUS
  <2> HIDE DEF c2, S
  <2>6. c2 \in Carries
    BY <2>4 DEF Carries
  <2> QED
    BY <1>w, <2>1, <2>5, <2>6 DEF c
<1> HIDE DEF next
<1>6. /\ queue' \in Seq(Ops) /\ media' = media
      /\ \A i \in DOMAIN queue' : (i \in DOMAIN queue /\ queue'[i] = queue[i]) \/ queue'[i] = op
      /\ QueueOK'
  <2>1. pc \in Publishing \ {"adopt"} /\ pc' \in Publishing /\ pc' \in Writing
    BY <1>1 DEF Publishing, Writing
  <2>2. Fits(op, pc', work'.zone, work'.record,
             Len(media.zone[work'.zone]) + Len(queue) + 1, Roots(media))
    BY <1>1, <1>4, <1>5, Zenon
  <2> QED
    BY <1>0, <1>1, <1>4, <1>5, <2>1, <2>2, SubmitQueue, Zenon DEF InFlight
<1>7. Types'
  BY <1>0, <1>1, <1>5, <1>6, Zenon DEF Types
<1>8. InFlight'
  <2>1. CarryOK'
    BY <1>0, <1>1, <1>5, <1>6, Zenon DEF InFlight, CarryOK
  <2>2. AdoptOK'
    BY <1>1 DEF AdoptOK
  <2>3. RecordOK'
    BY <1>0, <1>1, <1>5, Zenon DEF InFlight, RecordOK
  <2>4. pc \in Publishing \ {"blobs"}
    BY <1>1 DEF Publishing
  <2>5. Resolves(Seen, work.record) /\ (honest => Resolves(media, work.record))
    BY <1>0, <2>4, Zenon DEF InFlight, TreeOK
  <2>6. Resolves(Seen', work.record)
    BY <1>0, <1>1, <1>4, <2>5, SubmitResolves, Zenon
  <2>7. TreeOK'
    BY <1>1, <1>5, <1>6, <2>5, <2>6, Zenon DEF TreeOK
  <2> QED
    BY <1>6, <2>1, <2>2, <2>3, <2>7, Zenon DEF InFlight
<1>9. Medium'
  <2>1. pc \in Writing /\ pc # "off" /\ pc' # "off"
    BY <1>1 DEF Writing
  <2>2. Shielded => Shielded'
    BY <1>0, <1>1, <1>4, <1>5, <1>6, <2>1, AppendShielded, Zenon
  <2> QED
    BY <1>0, <1>1, <1>6, <2>1, <2>2, MediumUnwritten, Zenon
<1> QED
  BY <1>7, <1>8, <1>9, Zenon DEF PublishInv, Medium

LEMMA CarryBarrierInv == ASSUME PublishInv, CarryBarrier PROVE PublishInv'
<1>0. Types /\ InFlight /\ Medium
  BY InvParts, Zenon
<1>1. /\ pc = "carry" /\ pc' = "append"
      /\ UNCHANGED <<honest, work, held, expected, refused, tried, cuts>>
  BY DEF CarryBarrier, this
<1>2. \/ honest /\ media' = Seen /\ queue' = <<>>
      \/ ~honest /\ media' = media /\ queue' = queue
  BY <1>0 DEF CarryBarrier, Flush, Types
<1>3. media' \in Devices /\ queue' \in Seq(Ops) /\ Seen' = Seen
  <2>1. Seen \in Devices /\ media \in Devices /\ queue \in Seq(Ops)
    BY <1>0, SeenLanding, Zenon DEF Types, Devices
  <2>2. <<>> \in Seq(Ops)
    OBVIOUS
  <2>3. Seen' = Seen
    BY <1>0, <1>2, FlushSeen, Zenon
  <2> QED
    BY <1>2, <2>1, <2>2, <2>3, Zenon
<1>n. pc \in Writing /\ pc' \in Writing /\ pc \in Publishing \ {"blobs"} /\ pc' \in Publishing \ {"blobs"}
  BY <1>1 DEF Writing, Publishing
<1>4. Types'
  BY <1>0, <1>1, <1>3, <1>n, Zenon DEF Types, Devices
<1>5. InFlight'
  <2>1. QueueOK'
    <3>1. CASE queue' = <<>>
      BY <3>1, <1>1 DEF QueueOK
    <3>2. CASE media' = media /\ queue' = queue
      <4>1. pc' \notin {"idle", "off"}
        BY <1>1
      <4>2. ASSUME NEW i \in DOMAIN queue PROVE IsBlob(queue'[i]) \/ InZone(queue[i])'
        BY <1>0, <1>1, <1>n, <3>2 DEF InFlight, QueueOK, InZone, Fits
      <4> QED
        BY <3>2, <4>1, <4>2, Zenon DEF QueueOK, IsBlob
    <3> QED
      BY <1>2, <3>1, <3>2, Zenon
  <2>2. CarryOK' /\ AdoptOK'
    BY <1>1 DEF CarryOK, AdoptOK
  <2>3. RecordOK'
    BY <1>0, <1>1, <1>n DEF InFlight, RecordOK
  <2>4. TreeOK'
    BY <1>0, <1>1, <1>2, <1>3, <1>n, Zenon DEF InFlight, TreeOK
  <2> QED
    BY <2>1, <2>2, <2>3, <2>4, Zenon DEF InFlight
<1>6. Medium'
  <2>1. pc # "off" /\ pc' # "off" /\ pc # "adopt"
    BY <1>1
  <2>2. CASE honest /\ media' = Seen /\ queue' = <<>>
    <3>1. Beyond'
      BY <2>2 DEF Beyond
    <3>2. Shielded => Shielded'
      BY <1>0, <1>1, <1>n, <2>2, <3>1, SeenLanding, Zenon DEF Shielded
    <3> QED
      BY <1>0, <1>1, <2>1, <2>2, <3>2, MediumWritten, Zenon
  <2>3. CASE media' = media /\ queue' = queue
    <3>1. Shielded => Shielded'
      BY <1>1, <1>n, <2>3, Zenon DEF Shielded, Beyond
    <3> QED
      BY <1>0, <1>1, <2>1, <2>3, <3>1, MediumUnwritten, Zenon
  <2> QED
    BY <1>2, <2>2, <2>3, Zenon
<1> QED
  BY <1>4, <1>5, <1>6, Zenon DEF PublishInv, Medium

LEMMA AppendRootInv == ASSUME PublishInv, AppendRoot PROVE PublishInv'
<1>0. Types /\ InFlight /\ Medium
  BY InvParts, Zenon
<1> DEFINE op == Append1(work.zone, Len(Seen.zone[work.zone]) + 1, work.record)
<1>1. /\ pc = "append" /\ pc' = "adopt"
      /\ UNCHANGED <<honest, work, held, expected, refused, tried, cuts>>
      /\ Submit(op)
  BY DEF AppendRoot, this
<1>n. pc \in Writing /\ pc' \in Writing /\ pc \in Publishing \ {"blobs"} /\ pc' \in Publishing
      /\ pc \in Publishing \ {"adopt"}
  BY <1>1 DEF Writing, Publishing
<1>r. work.record \in Records /\ work.zone \in RootZones /\ media.zone[work.zone] \in Seq(Records)
      /\ queue \in Seq(Ops) /\ held \in Records
  BY <1>0 DEF Types
<1>2. work.record # None
  <2>1. work.record.generation = held.generation + 1 /\ held.generation \in Nat
    <3>1. work.record.generation = held.generation + 1
      BY <1>0, <1>n, Zenon DEF InFlight, RecordOK
    <3> QED
      BY <1>r, <3>1 DEF Records
  <2> QED
    BY <2>1 DEF None
<1>4. /\ op \in Ops /\ op.op = "append" /\ op.at = Len(Seen.zone[work.zone]) + 1
      /\ Fits(op, "adopt", work.zone, work.record,
              Len(media.zone[work.zone]) + Len(queue) + 1, Roots(media))
  <2>1. "adopt" \in Writing
    BY DEF Writing
  <2> QED
    BY <1>0, <1>r, <2>1, AppendFits, Zenon
<1>5. work.record \in Verifying(Seen'.zone[work.zone])
  <2>1. Seen.zone[work.zone] = ZoneOf(media.zone[work.zone], queue, work.zone, DOMAIN queue, {})
    BY <1>0, SeenLength, Zenon
  <2>2. Within(media.zone[work.zone], queue, work.zone)
    BY <1>0, <1>r, QueueWithin, Zenon
  <2>3. op = Append1(work.zone, Len(ZoneOf(media.zone[work.zone], queue, work.zone, DOMAIN queue, {})) + 1,
                     work.record)
    BY <2>1, Zenon
  <2> HIDE DEF op
  <2>4. work.record \in Verifying(ZoneOf(media.zone[work.zone], Append(queue, op), work.zone,
                                         DOMAIN Append(queue, op), {}))
    BY <1>2, <1>r, <2>2, <2>3, ZoneAppended, Zenon
  <2>5. Seen'.zone[work.zone]
          = ZoneOf(media.zone[work.zone], Append(queue, op), work.zone, DOMAIN Append(queue, op), {})
    <3>1. media' = media /\ queue' = Append(queue, op)
      BY <1>1, Zenon DEF Submit, op
    <3>2. Seen' = DevOf(media, Append(queue, op), DOMAIN Append(queue, op), {})
      BY <3>1, SeenIsDevOfNext, Zenon
    <3>3. \A q, d : DevOf(media, q, d, {}).zone[work.zone] = ZoneOf(media.zone[work.zone], q, work.zone, d, {})
      BY <1>r DEF DevOf
    <3> QED
      BY <3>2, <3>3, Zenon
  <2> QED
    BY <2>4, <2>5, Zenon
<1> HIDE DEF op
<1>6. /\ queue' \in Seq(Ops) /\ media' = media
      /\ \A i \in DOMAIN queue' : (i \in DOMAIN queue /\ queue'[i] = queue[i]) \/ queue'[i] = op
      /\ QueueOK'
  <2>1. Fits(op, pc', work'.zone, work'.record,
             Len(media.zone[work'.zone]) + Len(queue) + 1, Roots(media))
    BY <1>1, <1>4, Zenon
  <2>2. work'.zone = work.zone
    BY <1>1, Zenon
  <2> QED
    BY <1>0, <1>1, <1>4, <1>n, <2>1, <2>2, SubmitQueue, Zenon DEF InFlight
<1>7. Types'
  BY <1>0, <1>1, <1>6, <1>n, Zenon DEF Types
<1>8. InFlight'
  <2>1. CarryOK'
    BY <1>1 DEF CarryOK
  <2>2. AdoptOK'
    BY <1>1, <1>5, Zenon DEF AdoptOK
  <2>3. RecordOK'
    BY <1>0, <1>1, <1>n DEF InFlight, RecordOK
  <2>5. Resolves(Seen, work.record) /\ (honest => Resolves(media, work.record))
    BY <1>0, <1>n, Zenon DEF InFlight, TreeOK
  <2>6. Resolves(Seen', work.record)
    BY <1>0, <1>1, <1>4, <2>5, SubmitResolves, Zenon
  <2>7. TreeOK'
    BY <1>1, <1>6, <2>5, <2>6, Zenon DEF TreeOK
  <2> QED
    BY <1>6, <2>1, <2>2, <2>3, <2>7, Zenon DEF InFlight
<1>9. Medium'
  <2>1. pc # "off" /\ pc' # "off" /\ work'.zone = work.zone
    BY <1>1
  <2>2. Shielded => Shielded'
    BY <1>0, <1>1, <1>4, <1>6, <1>n, <2>1, AppendShielded, Zenon
  <2> QED
    BY <1>0, <1>1, <1>6, <2>1, <2>2, MediumUnwritten, Zenon
<1> QED
  BY <1>7, <1>8, <1>9, Zenon DEF PublishInv, Medium

\* One root more, of a generation above all others, leaves one of each.
LEMMA OneMore ==
    ASSUME NEW R, NEW S, NEW n \in Nat, NEW new, OneEach(R),
           \A r \in R : r.generation \in Nat /\ r.generation <= n, new.generation = n + 1,
           \A r \in S : r \in R \/ r = new
    PROVE  OneEach(S)
<1> SUFFICES ASSUME NEW q \in S, NEW r \in S, q.generation = r.generation PROVE q = r
  BY Zenon DEF OneEach
<1>1. CASE q \in R /\ r \in R
  BY <1>1, Zenon DEF OneEach
<1>2. CASE q = new /\ r = new
  BY <1>2
<1>3. CASE q \in R /\ r = new
  BY <1>3
<1>4. CASE q = new /\ r \in R
  BY <1>4
<1> QED
  BY <1>1, <1>2, <1>3, <1>4

LEMMA AdoptInv == ASSUME PublishInv, Adopt PROVE PublishInv'
<1>0. Types /\ InFlight /\ Medium
  BY InvParts, Zenon
<1>1. /\ pc = "adopt" /\ pc' = "idle" /\ media' = Seen /\ queue' = <<>>
      /\ held' = work.record /\ expected' = {work.record}
      /\ UNCHANGED <<honest, work, refused, tried, cuts>>
  BY DEF Adopt, this
<1>n. pc \in Publishing \ {"blobs"} /\ pc # "off" /\ pc' # "off" /\ pc' \notin Publishing /\ pc' \notin Writing
      /\ pc' # "carry" /\ pc' # "adopt"
  BY <1>1 DEF Publishing, Writing
<1>r. work.record \in Records /\ work.zone \in RootZones /\ held \in Records /\ media \in Devices
  BY <1>0 DEF Types, Devices
<1>2. work.record.generation = held.generation + 1 /\ held.generation \in Nat
  <2>1. work.record.generation = held.generation + 1
    BY <1>0, <1>n, Zenon DEF InFlight, RecordOK
  <2> QED
    BY <1>r, <2>1 DEF Records
<1>3. /\ Seen \in Devices /\ media.blobs \subseteq Seen.blobs
      /\ \A r \in Roots(Seen) : r \in Roots(media) \/ r = work.record
  BY <1>0, SeenLanding, Zenon
<1>4. work.record \in Roots(Seen) /\ Resolves(Seen, work.record)
  BY <1>0, <1>1, <1>n, <1>r, InRoots, Zenon DEF InFlight, AdoptOK, TreeOK
<1>5. Types'
  <2>1. <<>> \in Seq(Ops)
    OBVIOUS
  <2>2. pc' \in Publishing \cup {"idle", "off"}
    BY <1>1
  <2> QED
    BY <1>0, <1>1, <1>3, <1>r, <2>1, <2>2, Zenon DEF Types, Devices
<1>6. InFlight'
  <2>1. QueueOK'
    BY <1>1 DEF QueueOK
  <2>2. CarryOK' /\ TreeOK' /\ AdoptOK'
    BY <1>n, Zenon DEF CarryOK, TreeOK, AdoptOK
  <2>3. RecordOK'
    BY <1>1, <1>n, Zenon DEF RecordOK
  <2> QED
    BY <2>1, <2>2, <2>3, Zenon DEF InFlight
<1>7. HeldOnMedium' /\ NoneRefused'
  BY <1>0, <1>1, <1>4, Zenon DEF HeldOnMedium, NoneRefused, Medium
<1>8. ASSUME Whole(media, held) PROVE Whole(Seen, work.record)
  <2>1. \A r \in Roots(media) : r.generation \in Nat /\ 1 <= r.generation
                                /\ r.generation <= held.generation /\ Resolves(media, r)
    BY <1>8, <1>r, RootsAreRecords, Zenon DEF Whole
  <2>2. OneEach(Roots(Seen))
    BY <1>2, <1>3, <1>8, <2>1, OneMore, Zenon DEF Whole
  <2>3. ASSUME NEW r \in Roots(Seen)
        PROVE  1 <= r.generation /\ r.generation <= work.record.generation /\ Resolves(Seen, r)
    <3>1. CASE r \in Roots(media)
      <4>1. Resolves(Seen, r)
        BY <1>3, <2>1, <3>1, ResolvesMore, Zenon
      <4>2. r.generation \in Nat /\ 1 <= r.generation /\ r.generation <= held.generation
        BY <2>1, <3>1, Zenon
      <4> QED
        BY <1>2, <4>1, <4>2
    <3>2. CASE r = work.record
      BY <1>2, <1>4, <3>2
    <3> QED
      BY <1>3, <3>1, <3>2, Zenon
  <2> QED
    BY <1>4, <2>2, <2>3, Zenon DEF Whole
<1>9. Shielded'
  BY <1>n, Zenon DEF Shielded
<1>10. Medium'
  BY <1>0, <1>1, <1>7, <1>8, <1>9, <1>n, Zenon DEF Medium
<1> QED
  BY <1>5, <1>6, <1>10, Zenon DEF PublishInv, Medium

LEMMA CutInv == ASSUME LyingCuts <= 1, PublishInv, Cut PROVE PublishInv'
<1>0. Types /\ InFlight /\ Medium
  BY InvParts, Zenon
<1>1. /\ pc # "off" /\ pc' = "off" /\ queue' = <<>> /\ cuts' = cuts + 1
      /\ cuts < (IF honest THEN HonestCuts ELSE LyingCuts)
      /\ UNCHANGED <<honest, work, held, expected, refused, tried>>
  BY DEF Cut, this
<1>2. PICK whole \in SUBSET DOMAIN queue, torn \in SUBSET ({Len(queue)} \cap DOMAIN queue) :
          media' = After(whole, torn)
  BY Zenon DEF Cut
<1>3. torn \in SUBSET DOMAIN queue
  OBVIOUS
<1>4. /\ media' \in Devices /\ media.blobs \subseteq media'.blobs
      /\ \A r \in Roots(media') : r \in Roots(media) \/ (pc = "adopt" /\ r = work.record)
  BY <1>0, <1>2, <1>3, Landing, Zenon
<1>c. cuts \in Nat /\ honest \in BOOLEAN /\ LyingCuts \in Nat
  BY <1>0, PublishAssumption DEF Types
<1>5. honest \/ cuts = 0
  BY <1>1, <1>c
<1>6. Whole(media, held) /\ Shielded
  BY <1>0, <1>1, <1>5, Zenon DEF Medium
<1>r. work.record \in Records /\ held \in Records /\ media \in Devices
  BY <1>0 DEF Types, Devices
<1>7. held = None \/ held \in Roots(media')
  BY <1>0, <1>2, <1>3, <1>6, HeldSurvives, Zenon
<1>8. held = None \/ Resolves(media', held)
  BY <1>4, <1>6, ResolvesMore, Zenon DEF Whole
<1>9. pc = "adopt" => /\ work.record.generation = held.generation + 1
                      /\ work.record \in expected
                      /\ honest => Resolves(media', work.record)
  <2> HAVE pc = "adopt"
  <2>1. pc \in Publishing \ {"blobs"}
    BY DEF Publishing
  <2> QED
    BY <1>0, <1>4, <2>1, ResolvesMore, Zenon DEF InFlight, RecordOK, TreeOK
<1>10. held \in expected
  <2>1. pc = "idle" \/ pc \in Publishing
    BY <1>0, <1>1 DEF Types
  <2> QED
    BY <1>0, <2>1, Zenon DEF InFlight, RecordOK
<1>11. held.generation \in Nat
  BY <1>r DEF Records
<1>12. \A r \in Roots(media) : r.generation \in Nat /\ 1 <= r.generation
                               /\ r.generation <= held.generation /\ Resolves(media, r)
  BY <1>6, <1>r, RootsAreRecords, Zenon DEF Whole
<1>13. OneEach(Roots(media'))
  <2>1. CASE pc = "adopt"
    <3>1. OneEach(Roots(media)) /\ work.record.generation = held.generation + 1
      BY <1>6, <1>9, <2>1, Zenon DEF Whole
    <3>2. \A r \in Roots(media) : r.generation \in Nat /\ r.generation <= held.generation
      BY <1>12, Zenon
    <3>3. \A r \in Roots(media') : r \in Roots(media) \/ r = work.record
      BY <1>4, Zenon
    <3> QED
      BY <1>11, <3>1, <3>2, <3>3, OneMore, Zenon
  <2>2. CASE pc # "adopt"
    BY <1>4, <1>6, <2>2, Zenon DEF Whole, OneEach
  <2> QED
    BY <2>1, <2>2
<1>14. \A r \in Roots(media') :
          \/ 1 <= r.generation /\ r.generation <= held.generation /\ Resolves(media', r)
          \/ /\ r \in expected /\ r.generation = held.generation + 1
             /\ honest => Resolves(media', r)
  <2> TAKE r \in Roots(media')
  <2>1. CASE r \in Roots(media)
    BY <1>4, <1>12, <2>1, ResolvesMore, Zenon
  <2>2. CASE pc = "adopt" /\ r = work.record
    BY <1>9, <2>2, Zenon
  <2> QED
    BY <1>4, <2>1, <2>2, Zenon
<1>15. CutMedium'
  BY <1>1, <1>7, <1>8, <1>10, <1>13, <1>14, Zenon DEF CutMedium
<1>16. Types'
  <2>1. <<>> \in Seq(Ops) /\ cuts' \in Nat /\ pc' \in Publishing \cup {"idle", "off"}
    BY <1>1, <1>c
  <2> QED
    BY <1>0, <1>1, <1>4, <2>1, Zenon DEF Types, Devices
<1>17. InFlight'
  <2>1. QueueOK'
    BY <1>1 DEF QueueOK
  <2>2. CarryOK' /\ TreeOK' /\ AdoptOK' /\ RecordOK'
    BY <1>1 DEF CarryOK, TreeOK, AdoptOK, RecordOK, Publishing
  <2> QED
    BY <2>1, <2>2, Zenon DEF InFlight
<1>18. /\ cuts' # 0 /\ (~honest' => cuts' <= 1)
       /\ HeldOnMedium' /\ NoneRefused'
  <2>1. cuts' # 0 /\ (~honest' => cuts' <= 1)
    BY <1>1, <1>5, <1>c
  <2>2. HeldOnMedium' /\ NoneRefused'
    BY <1>0, <1>1, <1>7, <1>8, Zenon DEF HeldOnMedium, NoneRefused, Medium
  <2> QED
    BY <2>1, <2>2, Zenon
<1> QED
  BY <1>1, <1>15, <1>16, <1>17, <1>18, Zenon DEF PublishInv

\* What Mount picks: the newest root that resolves, of the ones it keeps.
LEMMA MountPicks ==
    ASSUME PublishInv, Mount
    PROVE  /\ held' \in expected
           /\ held' = None \/ (held' \in Roots(media) /\ Resolves(media, held'))
           /\ honest => /\ refused' = 0
                        /\ \A r \in Roots(media) : r.generation <= held'.generation /\ Resolves(media, r)
                        /\ OneEach(Roots(media))
                        /\ \A r \in Roots(media) : 1 <= r.generation
<1>0. Types /\ InFlight /\ CutMedium /\ pc = "off" /\ media \in Devices
  BY Zenon DEF PublishInv, Mount, Types, Devices
<1>1. PICK C \in Candidates(media) :
          \E r \in {c \in C : Resolves(media, c)} \cup {None} :
             /\ \A c \in {x \in C : Resolves(media, x)} : c.generation <= r.generation
             /\ held' = r
             /\ refused' = Cardinality({c \in C : c.generation > r.generation})
  BY Zenon DEF Mount
<1>2. /\ held' = None \/ (held' \in C /\ Resolves(media, held'))
      /\ \A c \in C : Resolves(media, c) => c.generation <= held'.generation
      /\ refused' = Cardinality({c \in C : c.generation > held'.generation})
  BY <1>1, Zenon
<1>3. /\ C \subseteq Roots(media)
      /\ \A r \in Roots(media) : \E c \in C : c.generation = r.generation
  BY Zenon DEF Candidates
<1>4. C = Roots(media)
  <2>1. ASSUME NEW r \in Roots(media) PROVE r \in C
    <3>1. PICK c \in C : c.generation = r.generation
      BY <1>3, Zenon
    <3>2. c = r
      BY <1>0, <1>3, <3>1, Zenon DEF CutMedium, OneEach
    <3> QED
      BY <3>2
  <2> QED
    BY <1>3, <2>1, Zenon
<1>g. /\ held.generation \in Nat /\ held'.generation \in Nat
      /\ \A r \in Roots(media) : r.generation \in Nat /\ 1 <= r.generation
  <2>1. \A r \in Roots(media) : r.generation \in Nat
    BY <1>0, RootsAreRecords, Zenon
  <2>2. held.generation \in Nat
    BY <1>0 DEF Types, Records
  <2>3. None.generation = 0
    BY DEF None
  <2>4. held'.generation \in Nat
    BY <1>2, <1>4, <2>1, <2>3
  <2>5. \A r \in Roots(media) : 1 <= r.generation \/ r.generation = held.generation + 1
    BY <1>0, Zenon DEF CutMedium
  <2> QED
    BY <2>1, <2>2, <2>4, <2>5
<1>5. held' \in expected
  <2>1. CASE held = None /\ held' = None
    BY <1>0, <2>1, Zenon DEF CutMedium
  <2>2. CASE held' # None
    <3>1. held' \in Roots(media)
      BY <1>2, <1>4, <2>2, Zenon
    <3>2. CASE held' \in expected
      BY <3>2
    <3>3. CASE held'.generation <= held.generation
      <4>1. held # None
        <5>1. held = None => held.generation = 0
          BY DEF None
        <5> QED
          BY <5>1, <1>g, <3>1, <3>3
      <4>2. held \in Roots(media) /\ Resolves(media, held)
        BY <4>1, <1>0, Zenon DEF CutMedium
      <4>3. held.generation <= held'.generation
        BY <4>2, <1>2, <1>4, Zenon
      <4>4. held.generation = held'.generation
        BY <4>3, <3>3, <1>g
      <4>5. held' = held
        BY <3>1, <4>2, <4>4, <1>0, Zenon DEF CutMedium, OneEach
      <4> QED
        BY <4>5, <1>0, Zenon DEF CutMedium
    <3> QED
      BY <3>1, <3>2, <3>3, <1>0, Zenon DEF CutMedium
  <2>3. CASE held # None /\ held' = None
    <3>1. held \in Roots(media) /\ Resolves(media, held)
      BY <2>3, <1>0, Zenon DEF CutMedium
    <3>2. held.generation <= held'.generation
      BY <3>1, <1>2, <1>4, Zenon
    <3>3. held'.generation = 0
      BY <2>3 DEF None
    <3> QED
      BY <3>1, <3>2, <3>3, <1>g
  <2> QED
    BY <2>1, <2>2, <2>3
<1>6. ASSUME honest
      PROVE  /\ refused' = 0
             /\ \A r \in Roots(media) : r.generation <= held'.generation /\ Resolves(media, r)
  <2>1. \A r \in Roots(media) : Resolves(media, r)
    BY <1>0, <1>6, Zenon DEF CutMedium
  <2>2. \A r \in Roots(media) : r.generation <= held'.generation
    BY <2>1, <1>2, <1>4, Zenon
  <2>3. {c \in C : c.generation > held'.generation} = {}
    BY <2>2, <1>4, <1>g
  <2>4. refused' = 0
    BY <1>2, <2>3, FS_EmptySet, Zenon
  <2> QED
    BY <2>1, <2>2, <2>4, Zenon
<1> QED
  BY <1>0, <1>2, <1>4, <1>5, <1>6, <1>g, Zenon DEF CutMedium

LEMMA MountInv == ASSUME PublishInv, Mount PROVE PublishInv'
<1>0. Types /\ InFlight /\ Medium
  BY InvParts, Zenon
<1>1. /\ pc = "off" /\ pc' = "idle" /\ expected' = {held'}
      /\ UNCHANGED <<honest, media, queue, work, tried, cuts>>
  BY DEF Mount, this
<1>2. /\ held' = None \/ (held' \in Roots(media) /\ Resolves(media, held'))
      /\ honest => /\ refused' = 0
                   /\ \A r \in Roots(media) : r.generation <= held'.generation /\ Resolves(media, r)
                   /\ OneEach(Roots(media))
                   /\ \A r \in Roots(media) : 1 <= r.generation
  BY MountPicks, Zenon
<1>r. media \in Devices
  BY <1>0 DEF Types, Devices
<1>3. held' \in Records
  BY <1>2, <1>r, NoneIsRecord, RootsAreRecords, Zenon
<1>4. Types'
  <2>1. pc' \in Publishing \cup {"idle", "off"}
    BY <1>1
  <2> QED
    BY <1>0, <1>1, <1>3, <2>1, Zenon DEF Types
<1>5. InFlight'
  <2>1. QueueOK'
    BY <1>0, <1>1 DEF QueueOK, InFlight
  <2>2. CarryOK' /\ TreeOK' /\ AdoptOK' /\ RecordOK'
    BY <1>1 DEF CarryOK, TreeOK, AdoptOK, RecordOK, Publishing
  <2> QED
    BY <2>1, <2>2, Zenon DEF InFlight
<1>6. HeldOnMedium' /\ NoneRefused'
  BY <1>1, <1>2, Zenon DEF HeldOnMedium, NoneRefused
<1>7. honest => Whole(media', held') /\ Shielded'
  <2>1. honest => Whole(media', held')
    BY <1>1, <1>2, Zenon DEF Whole
  <2>2. Shielded'
    BY <1>1 DEF Shielded, Writing
  <2> QED
    BY <2>1, <2>2, Zenon
<1>8. Medium'
  <2>1. cuts # 0 /\ pc' # "off"
    BY <1>0, <1>1 DEF Medium
  <2> QED
    BY <1>0, <1>1, <1>6, <1>7, <2>1, Zenon DEF Medium
<1> QED
  BY <1>4, <1>5, <1>8, Zenon DEF PublishInv, Medium

LEMMA StutterInv == ASSUME PublishInv, UNCHANGED vars PROVE PublishInv'
<1>1. UNCHANGED <<honest, media, queue, pc, work, held, expected, refused, tried, cuts>>
  BY DEF vars, this
<1>0. Types /\ InFlight /\ Medium
  BY InvParts, Zenon
<1>2. Seen' = Seen
  BY <1>0, <1>1, FlushSeen, Zenon
<1>3. Types'
  BY <1>0, <1>1, Zenon DEF Types
<1>4. InFlight'
  <2>1. QueueOK'
    BY <1>0, <1>1 DEF InFlight, QueueOK, IsBlob, InZone
  <2>2. CarryOK' /\ RecordOK'
    BY <1>0, <1>1 DEF InFlight, CarryOK, RecordOK
  <2>3. TreeOK' /\ AdoptOK'
    BY <1>0, <1>1, <1>2, Zenon DEF InFlight, TreeOK, AdoptOK
  <2> QED
    BY <2>1, <2>2, <2>3, Zenon DEF InFlight
<1>5. HeldOnMedium' /\ NoneRefused'
  BY <1>0, <1>1, Zenon DEF Medium, HeldOnMedium, NoneRefused
<1>6. Shielded => Shielded'
  BY <1>1, Zenon DEF Shielded, Beyond
<1>7. CutMedium => CutMedium'
  BY <1>1, Zenon DEF CutMedium
<1>8. Whole(media, held) => Whole(media', held')
  BY <1>1, Zenon
<1>9. Medium'
  BY <1>0, <1>1, <1>5, <1>6, <1>7, <1>8, Zenon DEF Medium
<1> QED
  BY <1>3, <1>4, <1>9, Zenon DEF PublishInv, Medium

LEMMA NextInv == ASSUME LyingCuts <= 1, PublishInv, [Next]_vars, ~harmed' PROVE PublishInv'
<1>1. CASE Open
  BY <1>1, OpenInv, Zenon
<1>2. CASE Put
  BY <1>2, PutInv, Zenon
<1>3. CASE Barrier
  BY <1>3, BarrierInv, Zenon
<1>4. CASE ChooseZone
  BY <1>4, ChooseZoneInv, Zenon
<1>5. CASE CarryOne
  BY <1>5, CarryOneInv, Zenon
<1>6. CASE CarryBarrier
  BY <1>6, CarryBarrierInv, Zenon
<1>7. CASE AppendRoot
  BY <1>7, AppendRootInv, Zenon
<1>8. CASE Adopt
  BY <1>8, AdoptInv, Zenon
<1>9. CASE Cut
  BY <1>9, CutInv, Zenon
<1>10. CASE Mount
  BY <1>10, MountInv, Zenon
<1>11. CASE UNCHANGED vars
  BY <1>11, StutterInv, Zenon
<1> QED
  BY <1>1, <1>2, <1>3, <1>4, <1>5, <1>6, <1>7, <1>8, <1>9, <1>10, <1>11, Zenon DEF Next

UnharmedInv == ~harmed => PublishInv

LEMMA HarmStays == ASSUME [Next]_vars, harmed PROVE harmed'
BY Zenon
DEF Next, vars, Open, Put, Barrier, ChooseZone, CarryOne, CarryBarrier, AppendRoot, Adopt, Cut, Mount

LEMMA UnharmedInvHolds == ASSUME LyingCuts <= 1 PROVE Spec => []UnharmedInv
<1>1. Init => UnharmedInv
  BY InitInv, Zenon DEF UnharmedInv
<1>2. UnharmedInv /\ [Next]_vars => UnharmedInv'
  BY NextInv, HarmStays, Zenon DEF UnharmedInv
<1> QED
  BY <1>1, <1>2, PTL DEF Spec

\* With any geometry, any carry and any trees, any number of cuts of a device
\* whose FLUSH is one, and one of a device that ignores it, until a tree is
\* committed that a scan does not find: whatever a publish or a wrap is doing,
\* the root the machine runs is on stable media with its tree (publish.rs,
\* wrap: the zone that is reset is never the only one).
THEOREM HeldStaysDurable == ASSUME LyingCuts <= 1 PROVE Spec => []HeldIsDurable
<1>1. UnharmedInv => HeldIsDurable
  BY Zenon DEF UnharmedInv, PublishInv, HeldOnMedium, HeldIsDurable
<1> QED
  BY <1>1, UnharmedInvHolds, PTL

\* The same, of the barrier before the record (publish.rs, commit): on a device
\* whose FLUSH is one no mount refuses a root for a tree that is not all there,
\* until one is committed that a scan does not find.
THEOREM NoneUnresolved == ASSUME LyingCuts <= 1 PROVE Spec => []NothingIsUnresolved
<1>1. UnharmedInv => NothingIsUnresolved
  BY Zenon DEF UnharmedInv, PublishInv, NoneRefused, NothingIsUnresolved
<1> QED
  BY <1>1, UnharmedInvHolds, PTL

\* The same, of the mount (mount.rs): until a tree is committed that a scan does
\* not find, whatever of the operations in flight landed, and whatever headers
\* without content earlier cuts left, it finds the root the machine ran or the
\* one it was writing.
THEOREM MountsOldOrNew == ASSUME LyingCuts <= 1 PROVE Spec => EitherOldOrNew
<1> DEFINE Truly == pc = "off" /\ pc' = "idle" /\ ~harmed =>
                       held' \in expected /\ (held' # None => Resolves(media, held'))
<1>1. UnharmedInv /\ [Next]_vars => [Truly]_vars
  <2> SUFFICES ASSUME PublishInv, [Next]_vars, ~(UNCHANGED vars), pc = "off", pc' = "idle"
               PROVE  held' \in expected /\ (held' # None => Resolves(media, held'))
    BY Zenon DEF UnharmedInv
  <2>1. Mount
    BY DEF Next, Open, Put, Barrier, ChooseZone, CarryOne, CarryBarrier, AppendRoot, Adopt, Cut
  <2> QED
    BY <2>1, MountPicks, Zenon
<1> QED
  BY <1>1, UnharmedInvHolds, PTL DEF Spec, EitherOldOrNew
=============================================================================
