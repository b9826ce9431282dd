--------------------------- MODULE CapTableProofs ---------------------------
(***************************************************************************)
(* What holds of a capability table whatever its size, its page size, the  *)
(* number of pages it may buy, the generation at which slots are retired,  *)
(* what is granted to it and what is asked of it: a dead handle stays      *)
(* dead, authority only narrows and never outlives what it came from, and  *)
(* the page a slot records is one that was mapped on that very capability. *)
(*                                                                         *)
(* The operations are built from a few functions on tables.  Each has a    *)
(* lemma saying what it makes of a table; the invariants are then shown    *)
(* of the table those functions make.                                      *)
(***************************************************************************)
EXTENDS CapTable, WellFoundedInduction, TLAPS

-----------------------------------------------------------------------------
(* Least and greatest elements. *)

LEMMA LeastExists ==
    ASSUME NEW S, S \subseteq Nat, S # {}
    PROVE  \E x \in S : \A y \in S : x <= y
<1> DEFINE R == OpToRel(<, Nat)
<1>1. IsWellFoundedOn(R, Nat)
  BY NatLessThanWellFounded, Zenon
<1> HIDE DEF R
<1>2. PICK x \in S : \A y \in S : ~(<<y, x>> \in R)
  BY <1>1, WFMin, Zenon
<1>3. \A m, n \in Nat : m < n => <<m, n>> \in R
  BY DEF R, OpToRel
<1>4. ASSUME NEW y \in S PROVE x <= y
  <2>1. x \in Nat /\ y \in Nat
    OBVIOUS
  <2>2. ~(y < x)
    BY <1>2, <1>3, <2>1, Zenon
  <2> QED
    BY <2>1, <2>2
<1> QED
  BY <1>4

LEMMA LeastIsMember ==
    ASSUME NEW S, S \subseteq Nat, S # {}
    PROVE  Least(S) \in S
BY LeastExists, Zenon DEF Least

LEMMA GreatestExists ==
    ASSUME NEW S, NEW n \in Nat, S \subseteq 0 .. n, S # {}
    PROVE  \E x \in S : \A y \in S : y <= x
<1> DEFINE T == {n - x : x \in S}
<1>1. T \subseteq Nat /\ T # {}
  <2>1. \A x \in S : n - x \in Nat
    OBVIOUS
  <2>2. PICK z \in S : TRUE
    BY Zenon
  <2>3. n - z \in T
    OBVIOUS
  <2> QED
    BY <2>1, <2>3
<1>2. PICK m \in T : \A k \in T : m <= k
  BY <1>1, LeastExists, Zenon
<1>3. PICK x \in S : m = n - x
  OBVIOUS
<1>4. ASSUME NEW y \in S PROVE y <= x
  <2>1. n - x <= n - y
    BY <1>2, <1>3
  <2>2. x \in Nat /\ y \in Nat
    OBVIOUS
  <2> QED
    BY <2>1, <2>2
<1> QED
  BY <1>4

-----------------------------------------------------------------------------
(* What the functions on tables make of one. *)

LEMMA ProductIsNat == \A m, n \in Nat : m * n \in Nat /\ (m + 1) * n = m * n + n
OBVIOUS

(* The slots of a table are numbered from zero, and it has no others. *)
LEMMA TableShape ==
    ASSUME NEW t, TableOK(t)
    PROVE  /\ Capacity(t) \in Nat
           /\ Indices(t) \subseteq Nat
           /\ DOMAIN t.slot = Indices(t)
           /\ \A i \in Indices(t) : t.slot[i] \in Slots
           /\ t = [slot |-> t.slot, pages |-> t.pages, grown |-> t.grown,
                   floor |-> t.floor, posts |-> t.posts]
<1>1. /\ t.grown \in Nat
      /\ t.slot \in [Indices(t) -> Slots]
      /\ t = [slot |-> t.slot, pages |-> t.pages, grown |-> t.grown,
              floor |-> t.floor, posts |-> t.posts]
  BY TableAssumption DEF TableAssumption, TableOK
<1>2. t.grown * SlotsPerPage \in Nat
  BY <1>1, ProductIsNat, TableAssumption DEF TableAssumption
<1>3. Capacity(t) \in Nat
  BY <1>2, TableAssumption DEF TableAssumption, Capacity
<1>4. Indices(t) \subseteq Nat
  BY <1>3 DEF Indices
<1> QED
  BY <1>1, <1>3, <1>4

(* One slot replaced. *)
LEMMA UpdateShape ==
    ASSUME NEW t, TableOK(t), NEW i \in Indices(t), NEW s \in Slots,
           s.generation \in FirstGeneration .. Retired
    PROVE  LET u == [t EXCEPT !.slot[i] = s] IN
           /\ TableOK(u)
           /\ Indices(u) = Indices(t)
           /\ u.floor = t.floor /\ u.pages = t.pages /\ u.grown = t.grown /\ u.posts = t.posts
           /\ \A j \in Indices(t) : u.slot[j] = IF j = i THEN s ELSE t.slot[j]
<1> DEFINE u == [t EXCEPT !.slot[i] = s]
<1>1. /\ u = [slot |-> [t.slot EXCEPT ![i] = s], pages |-> t.pages, grown |-> t.grown,
              floor |-> t.floor, posts |-> t.posts]
      /\ DOMAIN t.slot = Indices(t)
  BY TableShape
<1>2. /\ u.slot = [t.slot EXCEPT ![i] = s]
      /\ u.floor = t.floor /\ u.pages = t.pages /\ u.grown = t.grown /\ u.posts = t.posts
  BY <1>1
<1> HIDE DEF u
<1>3. Indices(u) = Indices(t)
  BY <1>2 DEF Indices, Capacity
<1>4. u.slot \in [Indices(t) -> Slots]
  BY <1>1, <1>2 DEF TableOK
<1>5. \A j \in Indices(t) : u.slot[j] = IF j = i THEN s ELSE t.slot[j]
  BY <1>1, <1>2
<1>6. TableOK(u)
  <2>1. u \in [slot: [Indices(u) -> Slots], pages: SUBSET Nat,
               grown: 0 .. MaxPages, floor: FirstGeneration .. Retired, posts: BOOLEAN]
    BY <1>1, <1>2, <1>3, <1>4, Zenon DEF TableOK
  <2>2. \A j \in Indices(u) : u.slot[j].generation \in FirstGeneration .. Retired
    BY <1>3, <1>5 DEF TableOK
  <2> QED
    BY <2>1, <2>2 DEF TableOK
<1> QED
  BY <1>2, <1>3, <1>5, <1>6 DEF u

-----------------------------------------------------------------------------
(* The inductive invariant of the table, and what a step keeps of it. *)

\* A generation that is never issued is never that of a held capability.
LiveNotRetired(t) == \A i \in Live(t) : t.slot[i].generation < Retired

Good(t) == TableOK(t) /\ LiveNotRetired(t) /\ WithinParent(t)

\* The generation of a dead handle is behind its slot's, or behind the floor
\* that the slot will start from when its page is bought again.
Behind(t, h) ==
    IF h.index \in Indices(t) THEN h.generation < t.slot[h.index].generation
                              ELSE h.generation < t.floor

DeadOK(t, D) == \A h \in D : h \in Handles /\ h.generation # 0 /\ Behind(t, h)

\* What a step that takes nothing away keeps.
Keeps(t, u) ==
    /\ u.floor = t.floor
    /\ Indices(t) \subseteq Indices(u)
    /\ Live(t) \subseteq Live(u)
    /\ \A i \in Indices(t) : u.slot[i].generation = t.slot[i].generation
    /\ \A i \in Indices(u) \ Indices(t) : u.slot[i].generation = t.floor
    /\ \A i \in Live(t) : u.slot[i].rights = t.slot[i].rights

\* Nor does it write or forget an address.
KeepsMapped(t, u) ==
    /\ \A i \in Live(t) : u.slot[i].mapped = t.slot[i].mapped
    /\ \A i \in Live(u) \ Live(t) : u.slot[i].mapped = Unmapped

LEMMA ResolvesMeans ==
    ASSUME NEW t, TableOK(t), NEW h \in Handles
    PROVE  Resolves(t, h) <=>
               /\ h.generation # 0
               /\ h.index \in Live(t)
               /\ h.generation = t.slot[h.index].generation
<1>1. h.generation \in Nat
  BY DEF Handles
<1>2. h.index \in Indices(t) => t.slot[h.index].generation \in Nat
  BY TableShape DEF Slots
<1> QED
  BY <1>1, <1>2 DEF Resolves, Verdict, Live

LEMMA KeepsResolves ==
    ASSUME NEW t, NEW u, TableOK(t), TableOK(u), Keeps(t, u), NEW h \in Handles, Resolves(t, h)
    PROVE  Resolves(u, h) /\ u.slot[h.index].rights = t.slot[h.index].rights
<1>1. h.generation # 0 /\ h.index \in Live(t) /\ h.generation = t.slot[h.index].generation
  BY ResolvesMeans
<1>2. h.index \in Indices(t) /\ h.index \in Live(u)
  BY <1>1 DEF Live, Keeps
<1> QED
  BY <1>1, <1>2, ResolvesMeans DEF Keeps

LEMMA KeepsTransitive ==
    ASSUME NEW t, NEW u, NEW v, TableOK(u), Keeps(t, u), Keeps(u, v)
    PROVE  Keeps(t, v)
BY DEF Keeps

LEMMA KeepsMappedTransitive ==
    ASSUME NEW t, NEW u, NEW v, Keeps(t, u), KeepsMapped(t, u), Keeps(u, v), KeepsMapped(u, v)
    PROVE  KeepsMapped(t, v)
BY DEF Keeps, KeepsMapped

LEMMA KeepsHeld ==
    ASSUME NEW t, NEW u, Keeps(t, u)
    PROVE  Held(t) \subseteq Held(u)
BY DEF Keeps, Held, HandleAt, Live

LEMMA KeepsDead ==
    ASSUME NEW t, NEW u, NEW D, Keeps(t, u), DeadOK(t, D)
    PROVE  DeadOK(u, D)
BY DEF Keeps, DeadOK, Behind

(* A slot rewritten with its kind, its name, its rights and its parent. *)
LEMMA UpdateSlot ==
    ASSUME NEW t, Good(t), NEW i \in Indices(t), NEW s \in Slots,
           s.kind = t.slot[i].kind, s.rights = t.slot[i].rights,
           s.generation = t.slot[i].generation, s.parent = t.slot[i].parent
    PROVE  LET u == [t EXCEPT !.slot[i] = s] IN
           /\ Good(u) /\ Keeps(t, u)
           /\ Indices(u) = Indices(t) /\ Live(u) = Live(t)
           /\ u.posts = t.posts /\ u.pages = t.pages
           /\ \A j \in Indices(t) : u.slot[j] = IF j = i THEN s ELSE t.slot[j]
<1> DEFINE u == [t EXCEPT !.slot[i] = s]
<1>1. /\ i \in Indices(t)
      /\ TableOK(t)
      /\ s.generation \in FirstGeneration .. Retired
  BY DEF Good, TableOK, Live
<1>2. /\ TableOK(u)
      /\ Indices(u) = Indices(t)
      /\ u.floor = t.floor /\ u.posts = t.posts /\ u.pages = t.pages
      /\ \A j \in Indices(t) : u.slot[j] = IF j = i THEN s ELSE t.slot[j]
  BY <1>1, UpdateShape
<1> HIDE DEF u
<1>3. Live(u) = Live(t)
  BY <1>2 DEF Live, Occupied
<1>4. Keeps(t, u)
  BY <1>2, <1>3 DEF Keeps, Live
<1>5. LiveNotRetired(u)
  BY <1>2, <1>3, <1>1 DEF LiveNotRetired, Good, Live
<1>6. WithinParent(u)
  <2> SUFFICES ASSUME NEW j \in Live(u), u.slot[j].parent # None
               PROVE  /\ Resolves(u, u.slot[j].parent)
                      /\ u.slot[j].rights \subseteq u.slot[u.slot[j].parent.index].rights
    BY DEF WithinParent
  <2>1. j \in Live(t) /\ j \in Indices(t)
    BY <1>3 DEF Live
  <2>2. u.slot[j].parent = t.slot[j].parent /\ u.slot[j].rights = t.slot[j].rights
    BY <1>2, <2>1
  <2>3. t.slot[j].parent \in Handles
    BY <2>1, <1>1, TableShape DEF Slots
  <2>4. /\ Resolves(t, t.slot[j].parent)
        /\ t.slot[j].rights \subseteq t.slot[t.slot[j].parent.index].rights
    BY <2>1, <2>2 DEF Good, WithinParent
  <2> QED
    BY <2>2, <2>3, <2>4, <1>1, <1>2, <1>4, KeepsResolves
<1>7. Good(u)
  BY <1>2, <1>5, <1>6 DEF Good
<1> QED
  BY <1>2, <1>3, <1>4, <1>7 DEF u

(* Table u is t with the capability c, a child of parent, in its free slot i. *)
PlacedAs(t, u, i, c, parent) ==
    /\ TableOK(u) /\ Indices(u) = Indices(t)
    /\ u.floor = t.floor /\ u.pages = t.pages /\ u.posts = t.posts
    /\ i \in Vacancies(t) /\ i \in Indices(t)
    /\ Live(u) = Live(t) \cup {i} /\ i \notin Live(t)
    /\ \A j \in Indices(t) : j # i => u.slot[j] = t.slot[j]
    /\ u.slot[i].kind = c.kind /\ u.slot[i].rights = c.rights
    /\ u.slot[i].object = c.object /\ u.slot[i].extent = c.extent
    /\ u.slot[i].generation = t.slot[i].generation
    /\ u.slot[i].parent = parent /\ u.slot[i].mapped = Unmapped
    /\ u.slot[i].notice = IF t.posts THEN "Granted" ELSE "Quiet"

(* A capability in the lowest free slot. *)
LEMMA PlacedShape ==
    ASSUME NEW t, TableOK(t), Vacancies(t) # {},
           NEW c \in [kind: Kinds, rights: SUBSET AllRights, object: Nat, extent: Nat],
           NEW parent \in Handles
    PROVE  PlacedAs(t, Placed(t, c, parent), Least(Vacancies(t)), c, parent)
<1> DEFINE i == Least(Vacancies(t))
           n == IF t.posts THEN Granted(t.slot[i].notice) ELSE t.slot[i].notice
           s == [kind |-> c.kind, rights |-> c.rights, generation |-> t.slot[i].generation,
                 parent |-> parent, object |-> c.object, extent |-> c.extent,
                 mapped |-> Unmapped, notice |-> n]
           u == [t EXCEPT !.slot[i] = s]
<1>2. Vacancies(t) \subseteq Nat
  BY TableShape DEF Vacancies
<1>3. i \in Vacancies(t)
  BY <1>2, LeastIsMember
<1>4. /\ i \in Indices(t) /\ ~Occupied(t.slot[i]) /\ t.slot[i].generation # Retired
      /\ t.slot[i].notice = "Quiet"
  BY <1>3 DEF Vacancies
<1>5. t.slot[i] \in Slots
  BY <1>4, TableShape
<1>6. n \in Pendings /\ n = IF t.posts THEN "Granted" ELSE "Quiet"
  BY <1>4 DEF Granted, Pendings
<1>7. t.slot[i].generation \in FirstGeneration .. Retired /\ t.slot[i].generation \in Nat
  BY <1>4, <1>5 DEF TableOK, Slots
<1>8. Placed(t, c, parent) = u
  BY Zenon DEF Placed
<1>9. s \in Slots
  BY <1>6, <1>7 DEF Slots
<1>10. /\ s.generation = t.slot[i].generation /\ s.parent = parent /\ s.mapped = Unmapped
       /\ s.rights = c.rights /\ s.kind = c.kind
       /\ s.object = c.object /\ s.extent = c.extent /\ s.notice = n
  OBVIOUS
<1>11. s.generation \in FirstGeneration .. Retired
  BY <1>7
<1> HIDE DEF s, i
<1>12. /\ TableOK(u)
       /\ Indices(u) = Indices(t)
       /\ u.floor = t.floor /\ u.pages = t.pages /\ u.posts = t.posts
       /\ \A j \in Indices(t) : u.slot[j] = IF j = i THEN s ELSE t.slot[j]
  BY <1>4, <1>9, <1>11, UpdateShape
<1> HIDE DEF u, n
<1>13. Live(u) = Live(t) \cup {i} /\ i \notin Live(t)
  BY <1>12, <1>10, <1>4 DEF Live, Occupied, Kinds
<1>14. u.slot[i] = s /\ \A j \in Indices(t) : j # i => u.slot[j] = t.slot[j]
  BY <1>4, <1>12
<1>15. PlacedAs(t, u, i, c, parent)
  BY <1>3, <1>4, <1>6, <1>10, <1>12, <1>13, <1>14, Zenon DEF PlacedAs
<1> QED
  BY <1>8, <1>15, Zenon DEF i

LEMMA PlacedGood ==
    ASSUME NEW t, Good(t), Vacancies(t) # {},
           NEW c \in [kind: Kinds, rights: SUBSET AllRights, object: Nat, extent: Nat],
           NEW parent \in Handles,
           parent # None => Resolves(t, parent) /\ c.rights \subseteq t.slot[parent.index].rights
    PROVE  LET u == Placed(t, c, parent) IN
           Good(u) /\ Keeps(t, u) /\ KeepsMapped(t, u) /\ Indices(u) = Indices(t)
<1> DEFINE i == Least(Vacancies(t))
           u == Placed(t, c, parent)
<1>1. TableOK(t)
  BY DEF Good
<1>0. PlacedAs(t, u, i, c, parent)
  BY <1>1, PlacedShape
<1>2. /\ TableOK(u) /\ Indices(u) = Indices(t) /\ u.floor = t.floor
      /\ i \in Vacancies(t) /\ i \in Indices(t)
      /\ Live(u) = Live(t) \cup {i} /\ i \notin Live(t)
      /\ \A j \in Indices(t) : j # i => u.slot[j] = t.slot[j]
      /\ u.slot[i].rights = c.rights /\ u.slot[i].generation = t.slot[i].generation
      /\ u.slot[i].parent = parent /\ u.slot[i].mapped = Unmapped
  BY <1>0, Zenon DEF PlacedAs
<1>3. t.slot[i].generation # Retired /\ t.slot[i].generation \in FirstGeneration .. Retired
  BY <1>1, <1>2, Zenon DEF Vacancies, TableOK
<1>4. Live(t) \subseteq Indices(t)
  BY DEF Live
<1> HIDE DEF u, i
<1>14. Keeps(t, u)
  BY <1>2, <1>4 DEF Keeps
<1>15. KeepsMapped(t, u)
  BY <1>2, <1>4 DEF KeepsMapped
<1>16. LiveNotRetired(u)
  <2> SUFFICES ASSUME NEW j \in Live(u) PROVE u.slot[j].generation < Retired
    BY DEF LiveNotRetired
  <2>1. CASE j = i
    BY <2>1, <1>2, <1>3, TableAssumption DEF TableAssumption, FirstGeneration
  <2>2. CASE j # i
    BY <2>2, <1>2, <1>4 DEF Good, LiveNotRetired
  <2> QED
    BY <2>1, <2>2
<1>17. WithinParent(u)
  <2> SUFFICES ASSUME NEW j \in Live(u), u.slot[j].parent # None
               PROVE  /\ Resolves(u, u.slot[j].parent)
                      /\ u.slot[j].rights \subseteq u.slot[u.slot[j].parent.index].rights
    BY DEF WithinParent
  <2>1. CASE j = i
    BY <2>1, <1>1, <1>2, <1>14, KeepsResolves
  <2>2. CASE j # i
    <3>1. j \in Live(t) /\ j \in Indices(t) /\ u.slot[j] = t.slot[j]
      BY <2>2, <1>2, <1>4
    <3>2. t.slot[j].parent \in Handles
      BY <3>1, <1>1, TableShape DEF Slots
    <3>3. /\ Resolves(t, t.slot[j].parent)
          /\ t.slot[j].rights \subseteq t.slot[t.slot[j].parent.index].rights
      BY <3>1 DEF Good, WithinParent
    <3> QED
      BY <3>1, <3>2, <3>3, <1>1, <1>2, <1>14, KeepsResolves
  <2> QED
    BY <2>1, <2>2
<1>18. Good(u)
  BY <1>2, <1>16, <1>17 DEF Good
<1> QED
  BY <1>2, <1>14, <1>15, <1>18 DEF u

(* A frame off an untyped region. *)
LEMMA CarvedGood ==
    ASSUME NEW t, Good(t), NEW i \in Live(t), t.slot[i].extent # 0
    PROVE  LET u == Carved(t, i) IN
           /\ Good(u) /\ Keeps(t, u) /\ KeepsMapped(t, u) /\ Indices(u) = Indices(t)
           /\ u.slot[i].rights = t.slot[i].rights
           /\ Live(u) = Live(t) /\ u.posts = t.posts /\ u.pages = t.pages
           /\ \A j \in Indices(t) : j # i => u.slot[j] = t.slot[j]
           /\ u.slot[i].kind = t.slot[i].kind /\ u.slot[i].parent = t.slot[i].parent
           /\ u.slot[i].notice = t.slot[i].notice
           /\ u.slot[i].object = t.slot[i].object + 1
           /\ u.slot[i].extent = t.slot[i].extent - 1
<1> DEFINE s == [t.slot[i] EXCEPT !.object = t.slot[i].object + 1, !.extent = t.slot[i].extent - 1]
           u == [t EXCEPT !.slot[i] = s]
<1>1. t.slot[i] \in Slots /\ i \in Indices(t) /\ Live(t) \subseteq Indices(t)
  BY TableShape DEF Good, Live
<1>2. t.slot[i].extent \in Nat /\ t.slot[i].object \in Nat
  BY <1>1 DEF Slots
<1>3. t.slot[i].extent - 1 \in Nat /\ t.slot[i].object + 1 \in Nat
  BY <1>2
<1>4. /\ s \in Slots
      /\ s.kind = t.slot[i].kind /\ s.rights = t.slot[i].rights /\ s.parent = t.slot[i].parent
      /\ s.generation = t.slot[i].generation /\ s.mapped = t.slot[i].mapped
      /\ s.notice = t.slot[i].notice
      /\ s.object = t.slot[i].object + 1 /\ s.extent = t.slot[i].extent - 1
  BY <1>1, <1>3, Zenon DEF Slots
<1>5. Carved(t, i) = u
  BY Zenon DEF Carved
<1> HIDE DEF s
<1>6. /\ Good(u) /\ Keeps(t, u)
      /\ Indices(u) = Indices(t) /\ Live(u) = Live(t)
      /\ u.posts = t.posts /\ u.pages = t.pages
      /\ \A j \in Indices(t) : u.slot[j] = IF j = i THEN s ELSE t.slot[j]
  BY <1>1, <1>4, UpdateSlot
<1> HIDE DEF u
<1>7. KeepsMapped(t, u)
  BY <1>1, <1>4, <1>6 DEF KeepsMapped
<1>8. u.slot[i] = s /\ \A j \in Indices(t) : j # i => u.slot[j] = t.slot[j]
  BY <1>1, <1>6
<1> QED
  BY <1>4, <1>5, <1>6, <1>7, <1>8

(* An empty slot at a generation. *)
LEMMA FreshShape ==
    ASSUME NEW g \in Nat
    PROVE  /\ Fresh(g) \in Slots /\ ~Occupied(Fresh(g))
           /\ Fresh(g).generation = g /\ Fresh(g).notice = "Quiet"
BY DEF Fresh, Slots, Occupied, None, Handles, Pendings

(* A page more: the slots there were, and fresh ones at the floor. *)
LEMMA GrownGood ==
    ASSUME NEW t, Good(t), CanGrow(t)
    PROVE  LET u == Grown(t)
               a == Least(Payers(t))
           IN  /\ Good(u) /\ Keeps(t, u) /\ KeepsMapped(t, u)
               /\ a \in Payers(t) /\ Live(u) = Live(t)
               /\ u.posts = t.posts /\ u.pages = t.pages \cup {t.slot[a].object}
               /\ \A j \in Indices(t) : j # a => u.slot[j] = t.slot[j]
               /\ \A j \in Indices(u) \ Indices(t) : u.slot[j].notice = "Quiet"
               /\ u.slot[a].kind = t.slot[a].kind /\ u.slot[a].parent = t.slot[a].parent
               /\ u.slot[a].notice = t.slot[a].notice
               /\ u.slot[a].object = t.slot[a].object + 1
               /\ u.slot[a].extent = t.slot[a].extent - 1
<1> DEFINE account == Least(Payers(t))
           slots == [i \in 0 .. Capacity(t) + SlotsPerPage - 1 |->
                        IF i \in Indices(t) THEN t.slot[i] ELSE Fresh(t.floor)]
           b == [slot |-> slots, pages |-> t.pages \cup {t.slot[account].object},
                 grown |-> t.grown + 1, floor |-> t.floor, posts |-> t.posts]
<1>1. /\ TableOK(t) /\ Capacity(t) \in Nat /\ Indices(t) \subseteq Nat /\ DOMAIN t.slot = Indices(t)
      /\ \A i \in Indices(t) : t.slot[i] \in Slots
      /\ t = [slot |-> t.slot, pages |-> t.pages, grown |-> t.grown,
              floor |-> t.floor, posts |-> t.posts]
  BY TableShape DEF Good
<1>2. /\ t.grown \in 0 .. MaxPages /\ t.floor \in FirstGeneration .. Retired
      /\ t.pages \in SUBSET Nat /\ t.grown \in Nat /\ t.floor \in Nat
  BY <1>1, TableAssumption DEF TableOK, TableAssumption, FirstGeneration
<1>2a. t.posts \in BOOLEAN
  BY <1>1, Zenon DEF TableOK
<1>3. account \in Payers(t)
  <2>1. Payers(t) \subseteq Nat /\ Payers(t) # {}
    BY <1>1 DEF Payers, Live, CanGrow
  <2> QED
    BY <2>1, LeastIsMember
<1>4. /\ account \in Live(t) /\ account \in Indices(t)
      /\ t.slot[account].extent >= 1 /\ t.slot[account] \in Slots
  BY <1>1, <1>3 DEF Payers, Live
<1>5. /\ b = [slot |-> slots, pages |-> t.pages \cup {t.slot[account].object},
              grown |-> t.grown + 1, floor |-> t.floor, posts |-> t.posts]
      /\ Grown(t) = Carved(b, account)
  BY Zenon DEF Grown
<1>6. /\ b.slot = slots /\ b.pages = t.pages \cup {t.slot[account].object}
      /\ b.grown = t.grown + 1 /\ b.floor = t.floor /\ b.posts = t.posts
  BY <1>5
<1> HIDE DEF account, b
<1>7. Capacity(b) = Capacity(t) + SlotsPerPage
  <2>1. (t.grown + 1) * SlotsPerPage = t.grown * SlotsPerPage + SlotsPerPage
        /\ t.grown * SlotsPerPage \in Nat
    BY <1>2, ProductIsNat, TableAssumption DEF TableAssumption
  <2> QED
    BY <2>1, <1>6, TableAssumption DEF TableAssumption, Capacity
<1>8. Indices(b) = 0 .. Capacity(t) + SlotsPerPage - 1 /\ Indices(t) \subseteq Indices(b)
  BY <1>1, <1>7, TableAssumption DEF TableAssumption, Indices
<1>9. \A i \in Indices(b) : b.slot[i] = IF i \in Indices(t) THEN t.slot[i] ELSE Fresh(t.floor)
  BY <1>6, <1>8
<1>10. b.slot \in [Indices(b) -> Slots]
  <2>1. \A i \in Indices(b) : b.slot[i] \in Slots
    BY <1>1, <1>2, <1>9, FreshShape
  <2> QED
    BY <2>1, <1>6, <1>8, Zenon
<1> HIDE DEF slots
<1>11. TableOK(b)
  <2>1. b.grown \in 0 .. MaxPages
    BY <1>2, <1>6, TableAssumption DEF CanGrow, TableAssumption
  <2>2. b.pages \in SUBSET Nat
    BY <1>2, <1>4, <1>6 DEF Slots
  <2>3. b \in [slot: [Indices(b) -> Slots], pages: SUBSET Nat,
               grown: 0 .. MaxPages, floor: FirstGeneration .. Retired, posts: BOOLEAN]
    BY <1>2, <1>2a, <1>5, <1>6, <1>10, <2>1, <2>2, Zenon
  <2>4. \A i \in Indices(b) : b.slot[i].generation \in FirstGeneration .. Retired
    BY <1>1, <1>2, <1>9, FreshShape DEF TableOK
  <2> QED
    BY <2>3, <2>4 DEF TableOK
<1>12. Live(b) = Live(t)
  <2>1. \A i \in Indices(b) : i \in Indices(t) \/ ~Occupied(b.slot[i])
    BY <1>2, <1>9, FreshShape
  <2> QED
    BY <2>1, <1>8, <1>9 DEF Live
<1>13. Keeps(t, b) /\ KeepsMapped(t, b)
  BY <1>2, <1>6, <1>8, <1>9, <1>12, FreshShape DEF Keeps, KeepsMapped, Live
<1>14. LiveNotRetired(b)
  BY <1>8, <1>9, <1>12 DEF Good, LiveNotRetired, Live
<1>15. WithinParent(b)
  <2> SUFFICES ASSUME NEW j \in Live(b), b.slot[j].parent # None
               PROVE  /\ Resolves(b, b.slot[j].parent)
                      /\ b.slot[j].rights \subseteq b.slot[b.slot[j].parent.index].rights
    BY DEF WithinParent
  <2>1. j \in Live(t) /\ j \in Indices(t) /\ b.slot[j] = t.slot[j]
    BY <1>8, <1>9, <1>12 DEF Live
  <2>2. t.slot[j].parent \in Handles
    BY <2>1, <1>1 DEF Slots
  <2>3. /\ Resolves(t, t.slot[j].parent)
        /\ t.slot[j].rights \subseteq t.slot[t.slot[j].parent.index].rights
    BY <2>1 DEF Good, WithinParent
  <2> QED
    BY <2>1, <2>2, <2>3, <1>1, <1>11, <1>13, KeepsResolves
<1>16. Good(b)
  BY <1>11, <1>14, <1>15 DEF Good
<1>17. account \in Live(b) /\ b.slot[account].extent # 0
  BY <1>4, <1>8, <1>9, <1>12 DEF Slots
<1> DEFINE u == Carved(b, account)
<1>18. /\ Good(u) /\ Keeps(b, u) /\ KeepsMapped(b, u) /\ Indices(u) = Indices(b)
       /\ Live(u) = Live(b) /\ u.posts = b.posts /\ u.pages = b.pages
       /\ \A j \in Indices(b) : j # account => u.slot[j] = b.slot[j]
       /\ u.slot[account].kind = b.slot[account].kind
       /\ u.slot[account].parent = b.slot[account].parent
       /\ u.slot[account].notice = b.slot[account].notice
       /\ u.slot[account].object = b.slot[account].object + 1
       /\ u.slot[account].extent = b.slot[account].extent - 1
  BY <1>16, <1>17, CarvedGood
<1> HIDE DEF u
<1>19. Keeps(t, u) /\ KeepsMapped(t, u)
  BY <1>11, <1>13, <1>18, KeepsTransitive, KeepsMappedTransitive
<1>20. b.slot[account] = t.slot[account]
       /\ \A j \in Indices(t) : j # account => u.slot[j] = t.slot[j]
  BY <1>4, <1>8, <1>9, <1>18
<1>21. \A j \in Indices(u) \ Indices(t) : u.slot[j].notice = "Quiet"
  BY <1>2, <1>4, <1>9, <1>18, FreshShape
<1> QED
  BY <1>3, <1>5, <1>6, <1>12, <1>18, <1>19, <1>20, <1>21, ZenonT(60) DEF u, account

(* A slot emptied: one generation on, and nothing in it. *)
LEMMA ClearedShape ==
    ASSUME NEW t, TableOK(t), NEW i \in Indices(t)
    PROVE  LET c == Cleared(t, t.slot[i]) IN
           /\ c \in Slots /\ ~Occupied(c)
           /\ c.generation \in FirstGeneration .. Retired
           /\ t.slot[i].generation < Retired => t.slot[i].generation < c.generation
           /\ t.slot[i].generation < Retired => c.generation = t.slot[i].generation + 1
           /\ t.slot[i].generation <= c.generation
           /\ c.notice = IF t.posts THEN Revoked(t.slot[i].notice) ELSE t.slot[i].notice
<1> DEFINE s == t.slot[i]
           g == IF s.generation < Retired THEN s.generation + 1 ELSE s.generation
           n == IF t.posts THEN Revoked(s.notice) ELSE s.notice
           c == [Fresh(g) EXCEPT !.notice = n]
<1>1. s \in Slots /\ s.generation \in FirstGeneration .. Retired /\ s.generation \in Nat
  BY TableShape DEF TableOK, Slots
<1>2. /\ g \in FirstGeneration .. Retired /\ g \in Nat
      /\ s.generation < Retired => s.generation < g
      /\ s.generation < Retired => g = s.generation + 1
      /\ s.generation <= g
  BY <1>1, TableAssumption DEF TableAssumption, FirstGeneration
<1>3. n \in Pendings
  BY <1>1 DEF Slots, Revoked, Pendings
<1>4. Cleared(t, s) = c
  BY Zenon DEF Cleared
<1> HIDE DEF g, n
<1>5. c \in Slots /\ ~Occupied(c) /\ c.generation = g /\ c.notice = n
  BY <1>2, <1>3 DEF Fresh, Slots, Occupied, None, Handles
<1> HIDE DEF c
<1> QED
  BY <1>2, <1>4, <1>5 DEF n

(* A set of slots that takes every child with its parent. *)
Hereditary(t, S) ==
    /\ S \subseteq Live(t)
    /\ \A i \in Live(t) :
          (t.slot[i].parent # None /\ t.slot[i].parent.index \in S) => i \in S

LEMMA SweptShape ==
    ASSUME NEW t, TableOK(t), NEW S, S \subseteq Live(t)
    PROVE  LET u == Swept(t, S) IN
           /\ TableOK(u)
           /\ Indices(u) = Indices(t) /\ u.floor = t.floor /\ u.posts = t.posts
           /\ u.pages = t.pages
           /\ Live(u) = Live(t) \ S
           /\ \A j \in Indices(t) : j \notin S => u.slot[j] = t.slot[j]
           /\ \A j \in S : u.slot[j] = Cleared(t, t.slot[j])
<1> DEFINE slots == [j \in Indices(t) |-> IF j \in S THEN Cleared(t, t.slot[j]) ELSE t.slot[j]]
           u == [t EXCEPT !.slot = slots]
<1>1. /\ t = [slot |-> t.slot, pages |-> t.pages, grown |-> t.grown,
              floor |-> t.floor, posts |-> t.posts]
      /\ \A j \in Indices(t) : t.slot[j] \in Slots
  BY TableShape
<1>2. Swept(t, S) = u
  BY Zenon DEF Swept
<1>3. slots \in [Indices(t) -> Slots]
  <2>1. \A j \in Indices(t) : Cleared(t, t.slot[j]) \in Slots
    BY ClearedShape
  <2> QED
    BY <1>1, <2>1
<1>4. \A j \in Indices(t) : slots[j] = IF j \in S THEN Cleared(t, t.slot[j]) ELSE t.slot[j]
  OBVIOUS
<1> HIDE DEF slots
<1>5. /\ u = [slot |-> slots, pages |-> t.pages, grown |-> t.grown,
              floor |-> t.floor, posts |-> t.posts]
      /\ u.slot = slots /\ u.pages = t.pages /\ u.grown = t.grown
      /\ u.floor = t.floor /\ u.posts = t.posts
  BY <1>1
<1> HIDE DEF u
<1>6. Indices(u) = Indices(t)
  BY <1>5 DEF Indices, Capacity
<1>7. TableOK(u)
  <2>1. u \in [slot: [Indices(u) -> Slots], pages: SUBSET Nat,
               grown: 0 .. MaxPages, floor: FirstGeneration .. Retired, posts: BOOLEAN]
    BY <1>3, <1>5, <1>6, Zenon DEF TableOK
  <2>2. \A j \in Indices(u) : u.slot[j].generation \in FirstGeneration .. Retired
    BY <1>4, <1>5, <1>6, ClearedShape DEF TableOK
  <2> QED
    BY <2>1, <2>2 DEF TableOK
<1>8. S \subseteq Indices(t)
  BY DEF Live
<1>9. Live(u) = Live(t) \ S
  <2>1. \A j \in S : ~Occupied(u.slot[j])
    BY <1>4, <1>5, <1>8, ClearedShape
  <2> QED
    BY <2>1, <1>4, <1>5, <1>6, <1>8 DEF Live
<1> QED
  BY <1>2, <1>4, <1>5, <1>6, <1>7, <1>8, <1>9

LEMMA SweptGood ==
    ASSUME NEW t, Good(t), NEW S, Hereditary(t, S)
    PROVE  Good(Swept(t, S))
<1> DEFINE u == Swept(t, S)
<1>1. /\ TableOK(t) /\ TableOK(u) /\ S \subseteq Live(t)
      /\ Indices(u) = Indices(t)
      /\ Live(u) = Live(t) \ S
      /\ \A j \in Indices(t) : j \notin S => u.slot[j] = t.slot[j]
  BY SweptShape DEF Good, Hereditary
<1> HIDE DEF u
<1>2. LiveNotRetired(u)
  BY <1>1 DEF Good, LiveNotRetired, Live
<1>3. WithinParent(u)
  <2> SUFFICES ASSUME NEW j \in Live(u), u.slot[j].parent # None
               PROVE  /\ Resolves(u, u.slot[j].parent)
                      /\ u.slot[j].rights \subseteq u.slot[u.slot[j].parent.index].rights
    BY DEF WithinParent
  <2> DEFINE p == t.slot[j].parent
  <2>1. j \in Live(t) /\ j \notin S /\ j \in Indices(t) /\ u.slot[j] = t.slot[j]
    BY <1>1 DEF Live
  <2>2. p \in Handles
    BY <2>1, <1>1, TableShape DEF Slots
  <2>3. Resolves(t, p) /\ t.slot[j].rights \subseteq t.slot[p.index].rights
    BY <2>1 DEF Good, WithinParent
  <2>4. p.generation # 0 /\ p.index \in Live(t) /\ p.generation = t.slot[p.index].generation
    BY <2>2, <2>3, <1>1, ResolvesMeans
  <2>5. p.index \notin S
    BY <2>1 DEF Hereditary
  <2>6. p.index \in Live(u) /\ p.index \in Indices(t) /\ u.slot[p.index] = t.slot[p.index]
    BY <2>4, <2>5, <1>1 DEF Live
  <2>7. Resolves(u, p)
    BY <2>2, <2>4, <2>6, <1>1, ResolvesMeans
  <2> QED
    BY <2>1, <2>3, <2>6, <2>7
<1> QED
  BY <1>1, <1>2, <1>3 DEF Good, u

LEMMA HeldMeans ==
    ASSUME NEW t, TableOK(t), NEW h \in Held(t)
    PROVE  /\ h \in Handles /\ h.index \in Live(t) /\ h.index \in Indices(t)
           /\ h.generation = t.slot[h.index].generation /\ h.generation # 0
           /\ h = HandleAt(t, h.index)
           /\ Resolves(t, h) /\ h # None
<1>1. PICK i \in Live(t) : h = [index |-> i, generation |-> t.slot[i].generation]
  BY DEF Held, HandleAt
<1>2. h.index = i /\ h.generation = t.slot[i].generation
  BY <1>1
<1>3. i \in Indices(t) /\ i \in Nat /\ t.slot[i].generation \in FirstGeneration .. Retired
  BY TableShape DEF Live, TableOK
<1>4. t.slot[i].generation \in Nat /\ t.slot[i].generation # 0
  BY <1>3, TableAssumption DEF TableAssumption, FirstGeneration
<1>5. h \in Handles
  BY <1>1, <1>3, <1>4 DEF Handles
<1>6. h # None
  BY <1>2, <1>4 DEF None
<1> QED
  BY <1>1, <1>2, <1>3, <1>4, <1>5, <1>6, ResolvesMeans DEF HandleAt

(* A handle that is gone is behind the slot it named. *)
LEMMA SweptDead ==
    ASSUME NEW t, Good(t), NEW S, S \subseteq Live(t), NEW D, DeadOK(t, D)
    PROVE  DeadOK(Swept(t, S), D \cup (Held(t) \ Held(Swept(t, S))))
<1> DEFINE u == Swept(t, S)
<1>1. /\ TableOK(t) /\ TableOK(u)
      /\ Indices(u) = Indices(t) /\ u.floor = t.floor
      /\ Live(u) = Live(t) \ S
      /\ \A j \in Indices(t) : j \notin S => u.slot[j] = t.slot[j]
      /\ \A j \in S : u.slot[j] = Cleared(t, t.slot[j])
  BY SweptShape DEF Good
<1> HIDE DEF u
<1>2. \A j \in Indices(t) : /\ t.slot[j].generation \in Nat /\ u.slot[j].generation \in Nat
                            /\ t.slot[j].generation <= u.slot[j].generation
  <2> TAKE j \in Indices(t)
  <2>1. t.slot[j].generation \in Nat /\ u.slot[j].generation \in Nat
    BY <1>1, TableShape DEF Slots
  <2>2. CASE j \in S
    BY <2>1, <2>2, <1>1, ClearedShape
  <2>3. CASE j \notin S
    BY <2>1, <2>3, <1>1
  <2> QED
    BY <2>1, <2>2, <2>3
<1>3. ASSUME NEW h \in D
      PROVE  h \in Handles /\ h.generation # 0 /\ Behind(u, h)
  <2>1. h \in Handles /\ h.generation # 0 /\ Behind(t, h) /\ h.generation \in Nat
    BY DEF DeadOK, Handles
  <2> QED
    BY <2>1, <1>1, <1>2 DEF Behind
<1>4. ASSUME NEW h \in Held(t), h \notin Held(u)
      PROVE  h \in Handles /\ h.generation # 0 /\ Behind(u, h)
  <2>1. /\ h \in Handles /\ h.index \in Live(t) /\ h.index \in Indices(t)
        /\ h.generation = t.slot[h.index].generation /\ h.generation # 0
        /\ h = HandleAt(t, h.index)
    BY <1>1, HeldMeans
  <2>2. h.index \in S
    <3> SUFFICES ASSUME h.index \notin S PROVE FALSE
      OBVIOUS
    <3>1. h = HandleAt(u, h.index) /\ h.index \in Live(u)
      BY <2>1, <1>1 DEF HandleAt
    <3> QED
      BY <3>1, <1>4 DEF Held
  <2>3. t.slot[h.index].generation < u.slot[h.index].generation
    BY <2>1, <2>2, <1>1, ClearedShape DEF Good, LiveNotRetired
  <2> QED
    BY <2>1, <2>3, <1>1 DEF Behind
<1> QED
  BY <1>3, <1>4 DEF DeadOK, u

(* The loop's result takes every child with its parent. *)
LEMMA DescendantsHereditary ==
    ASSUME NEW t, Good(t), NEW h \in Held(t)
    PROVE  /\ Hereditary(t, Descendants(t, h))
           /\ Hereditary(t, Descendants(t, h) \cup {h.index})
<1> DEFINE D == Descendants(t, h)
<1>1. D \subseteq Live(t)
  BY DEF Descendants
<1>2. ASSUME NEW i \in Live(t), t.slot[i].parent.generation # 0,
             \/ t.slot[i].parent = h
             \/ /\ t.slot[i].parent.index \in D
                /\ t.slot[i].parent = HandleAt(t, t.slot[i].parent.index)
      PROVE  i \in D
  <2> SUFFICES ASSUME NEW S \in SUBSET Live(t), Closed(t, h, S) PROVE i \in S
    BY DEF Descendants
  <2>1. D \subseteq S
    BY DEF Descendants
  <2> QED
    BY <1>2, <2>1 DEF Closed
<1> HIDE DEF D
<1>3. ASSUME NEW i \in Live(t), t.slot[i].parent # None
      PROVE  /\ t.slot[i].parent.generation # 0
             /\ t.slot[i].parent = HandleAt(t, t.slot[i].parent.index)
  <2> DEFINE p == t.slot[i].parent
  <2>1. p \in Handles
    BY TableShape DEF Good, Live, Slots
  <2>2. Resolves(t, p)
    BY <1>3 DEF Good, WithinParent
  <2>3. p.generation # 0 /\ p.generation = t.slot[p.index].generation
    BY <2>1, <2>2, ResolvesMeans DEF Good
  <2>4. p = [index |-> p.index, generation |-> p.generation]
    BY <2>1 DEF Handles
  <2> QED
    BY <2>3, <2>4 DEF HandleAt
<1>4. Hereditary(t, D)
  BY <1>1, <1>2, <1>3 DEF Hereditary
<1>5. h.index \in Live(t) /\ h = HandleAt(t, h.index)
  BY HeldMeans DEF Good
<1>6. Hereditary(t, D \cup {h.index})
  BY <1>1, <1>2, <1>3, <1>5 DEF Hereditary
<1> QED
  BY <1>4, <1>6 DEF D

(* The table a component leaves to the next: empty, at higher generations,
   with a floor above everything that was on its pages. *)
LEMMA ClearAllGood ==
    ASSUME Good(table), DeadOK(table, dead), ClearAll
    PROVE  /\ Good(table') /\ DeadOK(table', dead') /\ Live(table') = {}
           /\ ~table'.posts /\ \A i \in Indices(table') : table'.slot[i].notice = "Quiet"
<1> DEFINE w == Swept(table, Live(table))
           base == 0 .. BaseSlots - 1
           reached == {w.slot[i].generation : i \in Indices(table) \ base} \cup {table.floor}
           top == CHOOSE g \in reached : \A k \in reached : k <= g
           slots == [i \in base |-> [w.slot[i] EXCEPT !.notice = "Quiet"]]
           u == [slot |-> slots, pages |-> {}, grown |-> 0, floor |-> top, posts |-> FALSE]
<1>1. /\ TableOK(table) /\ TableOK(w)
      /\ Indices(w) = Indices(table) /\ w.floor = table.floor
      /\ Live(w) = {}
  BY SweptShape DEF Good
<1>2. DeadOK(w, dead \cup (Held(table) \ Held(w)))
  BY SweptDead
<1>3. Held(w) = {}
  BY <1>1 DEF Held
<1>4. table' = u /\ dead' = dead \cup (Held(table) \ Held(u))
  BY Zenon DEF ClearAll, Becomes
<1> HIDE DEF w
<1>5. base \subseteq Indices(table)
  <2>1. table.grown * SlotsPerPage \in Nat
    BY <1>1, ProductIsNat, TableAssumption DEF TableOK, TableAssumption
  <2> QED
    BY <2>1, TableAssumption DEF TableAssumption, Indices, Capacity
<1>6. \A i \in Indices(table) : /\ w.slot[i] \in Slots /\ ~Occupied(w.slot[i])
                                /\ w.slot[i].generation \in FirstGeneration .. Retired
  BY <1>1, TableShape DEF TableOK, Live
<1>7. table.floor \in FirstGeneration .. Retired
  BY <1>1 DEF TableOK
<1>8. /\ top \in reached /\ reached \subseteq FirstGeneration .. Retired
      /\ \A k \in reached : k <= top
  <2>1. reached \subseteq FirstGeneration .. Retired
    BY <1>6, <1>7
  <2>2. reached \subseteq 0 .. Retired /\ reached # {} /\ Retired \in Nat
    BY <2>1, TableAssumption DEF TableAssumption, FirstGeneration
  <2> HIDE DEF reached
  <2>3. \E g \in reached : \A k \in reached : k <= g
    BY <2>2, GreatestExists, Zenon
  <2> QED
    BY <2>1, <2>3, Zenon
<1>9. \A i \in base : /\ slots[i] \in Slots /\ ~Occupied(slots[i])
                      /\ slots[i].generation = w.slot[i].generation
                      /\ slots[i].notice = "Quiet"
  <2> TAKE i \in base
  <2>1. w.slot[i] \in Slots /\ ~Occupied(w.slot[i])
    BY <1>5, <1>6
  <2> QED
    BY <2>1 DEF Slots, Occupied, Pendings
<1>10. table.floor \in reached
       /\ \A i \in Indices(table) \ base : w.slot[i].generation \in reached
  OBVIOUS
<1>11. slots \in [base -> Slots]
  <2> DEFINE sl(i) == [w.slot[i] EXCEPT !.notice = "Quiet"]
  <2>1. slots = [i \in base |-> sl(i)]
    OBVIOUS
  <2>2. \A i \in base : slots[i] = sl(i)
    OBVIOUS
  <2>3. \A i \in base : sl(i) \in Slots
    BY <1>9, <2>2
  <2> HIDE DEF sl
  <2> QED
    BY <2>1, <2>3
<1> HIDE DEF reached, top, slots
<1>11x. \A k \in reached : k \in Nat
  BY <1>8, TableAssumption DEF TableAssumption, FirstGeneration
<1>12. u = [slot |-> slots, pages |-> {}, grown |-> 0, floor |-> top, posts |-> FALSE]
  OBVIOUS
<1>13. u.slot = slots /\ u.pages = {} /\ u.grown = 0 /\ u.floor = top /\ u.posts = FALSE
  BY <1>12
<1> HIDE DEF u
<1>14. Indices(u) = base
  <2>1. 0 * SlotsPerPage = 0
    BY TableAssumption DEF TableAssumption
  <2> QED
    BY <1>13, <2>1, TableAssumption DEF TableAssumption, Indices, Capacity
<1>15. TableOK(u)
  <2>1. u.grown \in 0 .. MaxPages /\ u.floor \in FirstGeneration .. Retired
    BY <1>13, <1>8, TableAssumption DEF TableAssumption
  <2>2. u.posts \in BOOLEAN /\ u.pages \in SUBSET Nat
    BY <1>13, Zenon
  <2>3. u \in [slot: [Indices(u) -> Slots], pages: SUBSET Nat,
               grown: 0 .. MaxPages, floor: FirstGeneration .. Retired, posts: BOOLEAN]
    BY <1>11, <1>12, <1>13, <1>14, <2>1, <2>2, Zenon
  <2>4. \A i \in Indices(u) : u.slot[i].generation \in FirstGeneration .. Retired
    BY <1>5, <1>6, <1>9, <1>13, <1>14
  <2> QED
    BY <2>3, <2>4 DEF TableOK
<1>16. Live(u) = {}
  BY <1>9, <1>13, <1>14 DEF Live
<1>17. Good(u)
  BY <1>15, <1>16 DEF Good, LiveNotRetired, WithinParent
<1>18. DeadOK(u, dead')
  <2> SUFFICES ASSUME NEW h \in dead'
               PROVE  h \in Handles /\ h.generation # 0 /\ Behind(u, h)
    BY DEF DeadOK
  <2>1. h \in Handles /\ h.generation # 0 /\ Behind(w, h) /\ h.generation \in Nat
    BY <1>2, <1>3, <1>4 DEF DeadOK, Handles
  <2>2. CASE h.index \in base
    BY <2>1, <2>2, <1>1, <1>5, <1>9, <1>13, <1>14 DEF Behind
  <2>3. CASE h.index \in Indices(table) /\ h.index \notin base
    <3>1. /\ h.generation < w.slot[h.index].generation
          /\ w.slot[h.index].generation <= top
          /\ w.slot[h.index].generation \in Nat /\ top \in Nat
      BY <2>1, <2>3, <1>1, <1>8, <1>10, <1>11x, Zenon DEF Behind
    <3> QED
      BY <2>1, <2>3, <3>1, <1>13, <1>14 DEF Behind
  <2>4. CASE h.index \notin Indices(table)
    <3>1. h.generation < table.floor /\ table.floor <= top /\ table.floor \in Nat /\ top \in Nat
      BY <2>1, <2>4, <1>1, <1>8, <1>10, <1>11x, Zenon DEF Behind
    <3> QED
      BY <2>1, <2>4, <3>1, <1>5, <1>13, <1>14 DEF Behind
  <2> QED
    BY <2>2, <2>3, <2>4
<1>19. ~u.posts /\ \A i \in Indices(u) : u.slot[i].notice = "Quiet"
  BY <1>9, <1>13, <1>14
<1> QED
  BY <1>4, <1>16, <1>17, <1>18, <1>19

-----------------------------------------------------------------------------
(* The steps. *)

IInv == TypeOK /\ Good(table) /\ DeadOK(table, dead) /\ RecordedMappingsStand

(* A step that takes nothing away and maps nothing. *)
LEMMA KeepingStep ==
    ASSUME IInv, NEW t, Good(t), Keeps(table, t), KeepsMapped(table, t),
           Becomes(t), UNCHANGED <<spaces, heard>>
    PROVE  IInv'
<1>1. table' = t /\ dead' = dead
  BY KeepsHeld DEF Becomes
<1>2. TypeOK'
  BY <1>1 DEF IInv, TypeOK, Good, Keeps
<1>3. DeadOK(t, dead)
  BY KeepsDead DEF IInv
<1>4. RecordedMappingsStand'
  <2> SUFFICES ASSUME NEW i \in Live(t), t.slot[i].mapped # Unmapped
               PROVE  spaces[t.slot[i].mapped] = HandleAt(t, i)
    BY <1>1 DEF RecordedMappingsStand
  <2>1. i \in Live(table) /\ t.slot[i].mapped = table.slot[i].mapped
    BY DEF KeepsMapped
  <2>2. t.slot[i].generation = table.slot[i].generation
    BY <2>1 DEF Keeps, Live
  <2> QED
    BY <2>1, <2>2 DEF IInv, RecordedMappingsStand, HandleAt
<1> QED
  BY <1>1, <1>2, <1>3, <1>4 DEF IInv

LEMMA GrantStep ==
    ASSUME IInv, NEW c \in Grants, Grant(c)
    PROVE  IInv'
<1>1. c \in [kind: Kinds, rights: SUBSET AllRights, object: Nat, extent: Nat]
  BY TableAssumption DEF TableAssumption
<1>2. None \in Handles
  BY DEF None, Handles
<1>3. LET u == Placed(table, c, None) IN
      Good(u) /\ Keeps(table, u) /\ KeepsMapped(table, u)
  BY <1>1, <1>2, PlacedGood DEF IInv, Grant
<1> QED
  BY <1>3, KeepingStep DEF Grant

LEMMA DeriveStep ==
    ASSUME IInv, NEW h \in Held(table), NEW asked \in Asks, Derive(h, asked)
    PROVE  IInv'
<1> DEFINE roomy == IF Vacancies(table) # {} THEN table ELSE Grown(table)
           from == roomy.slot[h.index]
           carves == from.kind = "Untyped"
           c == [kind |-> IF carves THEN "Frame" ELSE from.kind, rights |-> asked,
                 object |-> from.object, extent |-> IF carves THEN 1 ELSE from.extent]
           retyped == IF carves THEN Carved(roomy, h.index) ELSE roomy
<1>1. /\ asked \subseteq table.slot[h.index].rights
      /\ Vacancies(table) # {} \/ CanGrow(table)
      /\ UNCHANGED <<spaces, heard>>
      /\ \/ (carves /\ from.extent = 0) /\ Becomes(roomy)
         \/ ~(carves /\ from.extent = 0) /\ Vacancies(retyped) = {} /\ Becomes(retyped)
         \/ /\ ~(carves /\ from.extent = 0) /\ Vacancies(retyped) # {}
            /\ Becomes(Placed(retyped, c, h))
  BY Zenon DEF Derive
<1>2. Good(table) /\ TableOK(table)
  BY DEF IInv, Good
<1>3. Keeps(table, table) /\ KeepsMapped(table, table)
  BY DEF Keeps, KeepsMapped
<1>4. Good(roomy) /\ Keeps(table, roomy) /\ KeepsMapped(table, roomy)
  BY <1>1, <1>2, <1>3, GrownGood, Zenon
<1> HIDE DEF roomy
<1>5. TableOK(roomy)
  BY <1>4 DEF Good
<1>6. h \in Handles /\ Resolves(table, h) /\ h # None /\ h.index \in Live(table)
  BY <1>2, HeldMeans
<1>7. Resolves(roomy, h) /\ from.rights = table.slot[h.index].rights
  BY <1>2, <1>4, <1>5, <1>6, KeepsResolves
<1>8. h.index \in Live(roomy) /\ h.index \in Indices(roomy) /\ Occupied(from)
  BY <1>5, <1>6, <1>7, ResolvesMeans DEF Live
<1>9. from \in Slots
  BY <1>5, <1>8, TableShape
<1>10. c \in [kind: Kinds, rights: SUBSET AllRights, object: Nat, extent: Nat]
  BY <1>8, <1>9, TableAssumption DEF Slots, Occupied, Kinds, TableAssumption
<1>11. CASE carves /\ from.extent = 0
  BY <1>1, <1>4, <1>11, KeepingStep
<1>12. CASE ~(carves /\ from.extent = 0)
  <2>1. Keeps(roomy, roomy) /\ KeepsMapped(roomy, roomy)
    BY DEF Keeps, KeepsMapped
  <2>2. /\ Good(retyped) /\ Keeps(roomy, retyped) /\ KeepsMapped(roomy, retyped)
    BY <1>4, <1>8, <1>12, <2>1, CarvedGood
  <2> HIDE DEF retyped
  <2>3. TableOK(retyped)
    BY <2>2 DEF Good
  <2>4. Keeps(table, retyped) /\ KeepsMapped(table, retyped)
    BY <1>4, <1>5, <2>2, KeepsTransitive, KeepsMappedTransitive
  <2>5. Resolves(retyped, h) /\ asked \subseteq retyped.slot[h.index].rights
    <3>1. Resolves(retyped, h) /\ retyped.slot[h.index].rights = table.slot[h.index].rights
      BY <1>2, <1>6, <2>3, <2>4, KeepsResolves
    <3> QED
      BY <1>1, <3>1
  <2>6. CASE Becomes(retyped)
    BY <1>1, <2>2, <2>4, <2>6, KeepingStep
  <2>7. CASE Vacancies(retyped) # {} /\ Becomes(Placed(retyped, c, h))
    <3> DEFINE u == Placed(retyped, c, h)
    <3>1. c.rights = asked
      OBVIOUS
    <3> HIDE DEF c
    <3>2. Good(u) /\ Keeps(retyped, u) /\ KeepsMapped(retyped, u)
      BY <1>6, <1>10, <2>2, <2>5, <2>7, <3>1, PlacedGood
    <3> HIDE DEF u
    <3>3. Keeps(table, u) /\ KeepsMapped(table, u)
      BY <2>3, <2>4, <3>2, KeepsTransitive, KeepsMappedTransitive
    <3>4. Becomes(u)
      BY <2>7 DEF u
    <3> QED
      BY <1>1, <3>2, <3>3, <3>4, KeepingStep
  <2> QED
    BY <1>1, <1>12, <2>6, <2>7
<1> QED
  BY <1>11, <1>12

(* A sweep, with the recorded pages of what is swept withdrawn: no page of a
   capability that stays is among them. *)
LEMMA SweepStep ==
    ASSUME IInv, NEW S, Hereditary(table, S), Becomes(Swept(table, S)), UNCHANGED heard,
           NEW W, \A a \in W : a # Unmapped => \E i \in S : a = table.slot[i].mapped,
           spaces' = [a \in Addresses |-> IF a \in W THEN None ELSE spaces[a]]
    PROVE  IInv'
<1> DEFINE u == Swept(table, S)
<1>1. Good(table) /\ TableOK(table) /\ S \subseteq Live(table) /\ Live(table) \subseteq Indices(table)
  BY DEF IInv, Good, Hereditary, Live
<1>2. Good(u)
  BY <1>1, SweptGood
<1>3. table' = u /\ dead' = dead \cup (Held(table) \ Held(u))
  BY DEF Becomes
<1>4. DeadOK(u, dead \cup (Held(table) \ Held(u)))
  BY <1>1, SweptDead DEF IInv
<1>5. /\ Indices(u) = Indices(table) /\ Live(u) = Live(table) \ S
      /\ \A j \in Indices(table) : j \notin S => u.slot[j] = table.slot[j]
  BY <1>1, SweptShape
<1> HIDE DEF u
<1>6. TypeOK'
  <2>1. None \in Handles
    BY DEF None, Handles
  <2>2. spaces' \in [Addresses -> Handles]
    BY <2>1 DEF IInv, TypeOK
  <2>3. dead' \subseteq Handles
    BY <1>1, <1>3, HeldMeans DEF IInv, TypeOK
  <2> QED
    BY <1>2, <1>3, <1>5, <2>2, <2>3 DEF IInv, TypeOK, Good
<1>7. RecordedMappingsStand'
  <2> SUFFICES ASSUME NEW j \in Live(u), u.slot[j].mapped # Unmapped
               PROVE  spaces'[u.slot[j].mapped] = HandleAt(u, j)
    BY <1>3 DEF RecordedMappingsStand
  <2> DEFINE a == table.slot[j].mapped
  <2>1. j \in Live(table) /\ j \notin S /\ u.slot[j] = table.slot[j]
    BY <1>1, <1>5
  <2>2. a # Unmapped /\ a \in Addresses
    BY <2>1, <1>1, TableShape DEF Slots
  <2>3. spaces[a] = HandleAt(table, j)
    BY <2>1, <2>2 DEF IInv, RecordedMappingsStand
  <2>4. a \notin W
    <3> SUFFICES ASSUME a \in W PROVE FALSE
      OBVIOUS
    <3>1. PICK i \in S : a = table.slot[i].mapped
      BY <2>2
    <3>2. spaces[a] = HandleAt(table, i)
      BY <1>1, <2>2, <3>1 DEF IInv, RecordedMappingsStand
    <3>3. i = j
      BY <2>3, <3>2 DEF HandleAt
    <3> QED
      BY <2>1, <3>3
  <2>5. spaces'[a] = spaces[a]
    BY <2>2, <2>4
  <2> QED
    BY <2>1, <2>3, <2>5 DEF HandleAt
<1> QED
  BY <1>2, <1>3, <1>4, <1>6, <1>7 DEF IInv

LEMMA RevokeStep ==
    ASSUME IInv, NEW h \in Held(table), Revoke(h)
    PROVE  IInv'
<1> DEFINE S == Descendants(table, h)
           W == {table.slot[i].mapped : i \in S}
<1>1. Hereditary(table, S)
  BY DescendantsHereditary, Zenon DEF IInv
<1>2. /\ Becomes(Swept(table, S)) /\ UNCHANGED heard
      /\ spaces' = [a \in Addresses |-> IF a \in W THEN None ELSE spaces[a]]
  BY Zenon DEF Revoke
<1>3. \A a \in W : a # Unmapped => \E i \in S : a = table.slot[i].mapped
  OBVIOUS
<1> HIDE DEF S, W
<1> QED
  BY <1>1, <1>2, <1>3, SweepStep

LEMMA RelinquishStep ==
    ASSUME IInv, NEW h \in Held(table), Relinquish(h)
    PROVE  IInv'
<1> DEFINE S == Descendants(table, h) \cup {h.index}
           W == {}
<1>1. Hereditary(table, S)
  BY DescendantsHereditary DEF IInv
<1>2. Becomes(Swept(table, S)) /\ UNCHANGED <<spaces, heard>>
  BY Zenon DEF Relinquish
<1>3. spaces' = [a \in Addresses |-> IF a \in W THEN None ELSE spaces[a]]
  BY <1>2 DEF IInv, TypeOK
<1>4. \A a \in W : a # Unmapped => \E i \in S : a = table.slot[i].mapped
  OBVIOUS
<1> HIDE DEF S, W
<1> QED
  BY <1>1, <1>2, <1>3, <1>4, SweepStep, Zenon

(* A step that rewrites a slot's address or its notice. *)
LEMMA RewriteStep ==
    ASSUME IInv, NEW i \in Indices(table), NEW s \in Slots,
           s.kind = table.slot[i].kind, s.rights = table.slot[i].rights,
           s.generation = table.slot[i].generation, s.parent = table.slot[i].parent,
           table' = [table EXCEPT !.slot[i] = s], UNCHANGED dead,
           spaces' \in [Addresses -> Handles], heard' \subseteq Handles,
           i \in Live(table) /\ s.mapped # Unmapped => spaces'[s.mapped] = HandleAt(table, i),
           \A j \in Live(table) : (j # i /\ table.slot[j].mapped # Unmapped)
               => spaces'[table.slot[j].mapped] = spaces[table.slot[j].mapped]
    PROVE  IInv'
<1>1. /\ Good(table') /\ Keeps(table, table')
      /\ Indices(table') = Indices(table) /\ Live(table') = Live(table)
      /\ \A j \in Indices(table) : table'.slot[j] = IF j = i THEN s ELSE table.slot[j]
  BY UpdateSlot DEF IInv
<1>2. TypeOK'
  BY <1>1 DEF IInv, TypeOK, Good
<1>3. DeadOK(table', dead')
  BY <1>1, KeepsDead DEF IInv
<1>4. RecordedMappingsStand'
  BY <1>1 DEF IInv, RecordedMappingsStand, HandleAt, Live
<1> QED
  BY <1>1, <1>2, <1>3, <1>4 DEF IInv

LEMMA MapFrameStep ==
    ASSUME IInv, NEW h \in Held(table), NEW space, NEW asked, NEW a \in Addresses,
           MapFrame(h, space, asked, a)
    PROVE  IInv'
<1> DEFINE i == h.index
           old == table.slot[i]
           s == [old EXCEPT !.mapped = IF old.mapped = Unmapped THEN a ELSE old.mapped]
<1>1. /\ TableOK(table) /\ i \in Indices(table) /\ i \in Live(table) /\ h \in Handles /\ h # None
      /\ h = HandleAt(table, i)
  BY HeldMeans DEF IInv, Good
<1>2. old \in Slots
  BY <1>1, TableShape
<1>3. /\ s \in Slots /\ s.kind = old.kind /\ s.rights = old.rights
      /\ s.generation = old.generation /\ s.parent = old.parent
      /\ s.mapped = IF old.mapped = Unmapped THEN a ELSE old.mapped
  BY <1>2 DEF Slots
<1>4. /\ spaces[a] = None /\ spaces' = [spaces EXCEPT ![a] = h]
      /\ table' = [table EXCEPT !.slot[i] = s]
      /\ UNCHANGED <<dead, heard>>
  BY Zenon DEF MapFrame
<1> HIDE DEF s
<1>5. spaces' \in [Addresses -> Handles] /\ heard' \subseteq Handles
  BY <1>1, <1>4 DEF IInv, TypeOK
<1>6. ASSUME NEW j \in Live(table), table.slot[j].mapped # Unmapped
      PROVE  /\ spaces[table.slot[j].mapped] = HandleAt(table, j)
             /\ spaces'[table.slot[j].mapped] = spaces[table.slot[j].mapped]
  <2>1. spaces[table.slot[j].mapped] = HandleAt(table, j)
    BY <1>6 DEF IInv, RecordedMappingsStand
  <2>2. HandleAt(table, j) # None
    BY <1>1, HeldMeans DEF Held
  <2>3. table.slot[j].mapped # a
    BY <1>4, <2>1, <2>2
  <2>4. table.slot[j].mapped \in Addresses
    BY <1>1, <1>6, TableShape DEF Slots, Live
  <2> QED
    BY <1>4, <2>1, <2>3, <2>4 DEF IInv, TypeOK
<1>7. spaces'[a] = h
  BY <1>4 DEF IInv, TypeOK
<1>8. s.mapped # Unmapped => spaces'[s.mapped] = HandleAt(table, i)
  BY <1>1, <1>3, <1>6, <1>7
<1> HIDE DEF i
<1> QED
  BY <1>1, <1>3, <1>4, <1>5, <1>6, <1>8, RewriteStep

(* A step that only rewrites the notice a slot owes. *)
LEMMA NoticeStep ==
    ASSUME IInv, NEW i \in Indices(table), NEW n \in Pendings,
           table' = [table EXCEPT !.slot[i] = [table.slot[i] EXCEPT !.notice = n]],
           UNCHANGED <<spaces, dead>>, heard' \subseteq Handles
    PROVE  IInv'
<1> DEFINE old == table.slot[i]
           s == [old EXCEPT !.notice = n]
<1>1. old \in Slots
  BY TableShape DEF IInv, Good
<1>2. /\ s \in Slots /\ s.kind = old.kind /\ s.rights = old.rights
      /\ s.generation = old.generation /\ s.parent = old.parent /\ s.mapped = old.mapped
  BY <1>1 DEF Slots
<1>3. table' = [table EXCEPT !.slot[i] = s]
  OBVIOUS
<1> HIDE DEF s
<1>4. spaces' \in [Addresses -> Handles] /\ spaces' = spaces /\ dead' = dead
  BY DEF IInv, TypeOK
<1>5. i \in Live(table) /\ s.mapped # Unmapped => spaces'[s.mapped] = HandleAt(table, i)
  BY <1>2 DEF IInv, RecordedMappingsStand
<1> QED
  BY <1>2, <1>3, <1>4, <1>5, RewriteStep

LEMMA NotePeerGoneStep ==
    ASSUME IInv, NEW h \in Held(table), NotePeerGone(h)
    PROVE  IInv'
<1> DEFINE n == PeerGone(table.slot[h.index].notice)
<1>1. h.index \in Indices(table) /\ TableOK(table)
  BY HeldMeans DEF IInv, Good
<1>2. table.slot[h.index].notice \in Pendings
  BY <1>1, TableShape DEF Slots
<1>3. n \in Pendings
  BY <1>2 DEF PeerGone, Pendings
<1>4. /\ table' = [table EXCEPT !.slot[h.index] = [table.slot[h.index] EXCEPT !.notice = n]]
      /\ UNCHANGED <<spaces, dead, heard>>
  BY Zenon DEF NotePeerGone
<1>5. heard' \subseteq Handles
  BY <1>4 DEF IInv, TypeOK
<1> HIDE DEF n
<1> QED
  BY <1>1, <1>3, <1>4, <1>5, NoticeStep

LEMMA NextSlotNoticeStep ==
    ASSUME IInv, NextSlotNotice
    PROVE  IInv'
<1> DEFINE owing == {i \in Indices(table) : table.slot[i].notice # "Quiet"}
           i == Least(owing)
           n == Drained(table.slot[i].notice)
<1>1. /\ owing # {}
      /\ table' = [table EXCEPT !.slot[i] = [table.slot[i] EXCEPT !.notice = n]]
      /\ heard' \subseteq heard \cup {HandleAt(table, i)}
      /\ UNCHANGED <<spaces, dead>>
  <2> DEFINE k == NoticeOf(table.slot[i].notice)
  <2>1. /\ owing # {}
        /\ table' = [table EXCEPT !.slot[i] = [table.slot[i] EXCEPT !.notice = n]]
        /\ heard' = CASE k = "GRANTED" -> heard \cup {HandleAt(table, i)}
                      [] k = "REVOKED" -> {h \in heard : h.index # i}
                      [] OTHER -> heard
        /\ UNCHANGED <<spaces, dead>>
    BY Zenon DEF NextSlotNotice
  <2> HIDE DEF k, i, n, owing
  <2>2. heard' \subseteq heard \cup {HandleAt(table, i)}
    BY <2>1
  <2> QED
    BY <2>1, <2>2
<1>2. TableOK(table) /\ Indices(table) \subseteq Nat
  BY TableShape DEF IInv, Good
<1>3. i \in owing
  BY <1>1, <1>2, LeastIsMember
<1>4. i \in Indices(table)
  BY <1>3
<1>5. table.slot[i].notice \in Pendings
  BY <1>2, <1>4, TableShape, Zenon DEF Slots
<1>6. n \in Pendings
  BY <1>5 DEF Drained, Pendings
<1> HIDE DEF i, n
<1>7. heard' \subseteq Handles
  <2>1. HandleAt(table, i) \in Handles
    BY <1>2, <1>4, TableShape DEF HandleAt, Handles, Slots
  <2> QED
    BY <1>1, <2>1 DEF IInv, TypeOK
<1> QED
  BY <1>1, <1>4, <1>6, <1>7, NoticeStep

LEMMA OwesNoticesStep ==
    ASSUME IInv, OwesNotices
    PROVE  IInv'
<1> DEFINE yes == TRUE
           u == [table EXCEPT !.posts = yes]
<1>1. /\ TableOK(table)
      /\ table = [slot |-> table.slot, pages |-> table.pages, grown |-> table.grown,
                  floor |-> table.floor, posts |-> table.posts]
  BY TableShape DEF IInv, Good
<1>2. /\ table' = u /\ heard' = Held(table) /\ UNCHANGED <<spaces, dead>>
      /\ Held(table) \subseteq Handles
  BY <1>1, HeldMeans DEF OwesNotices
<1>3. yes \in BOOLEAN
  OBVIOUS
<1> HIDE DEF yes
<1>4. /\ u = [slot |-> table.slot, pages |-> table.pages, grown |-> table.grown,
              floor |-> table.floor, posts |-> yes]
      /\ u.slot = table.slot /\ u.pages = table.pages /\ u.grown = table.grown
      /\ u.floor = table.floor /\ u.posts = yes
  BY <1>1
<1> HIDE DEF u
<1>5. Indices(u) = Indices(table)
  BY <1>4 DEF Indices, Capacity
<1>6. Live(u) = Live(table) /\ Live(table) \subseteq Indices(table)
  BY <1>4, <1>5 DEF Live
<1>7. TableOK(u)
  <2>1. u \in [slot: [Indices(u) -> Slots], pages: SUBSET Nat,
               grown: 0 .. MaxPages, floor: FirstGeneration .. Retired, posts: BOOLEAN]
    BY <1>1, <1>3, <1>4, <1>5, Zenon DEF TableOK
  <2> QED
    BY <1>1, <1>4, <1>5, <2>1 DEF TableOK
<1>8. Keeps(table, u)
  BY <1>4, <1>5, <1>6 DEF Keeps
<1>9. \A h \in Handles : Resolves(table, h) => Resolves(u, h)
  BY <1>1, <1>7, <1>8, KeepsResolves
<1>10. \A j \in Live(table) : table.slot[j].parent \in Handles
  BY <1>1, TableShape DEF Slots, Live
<1>11. WithinParent(u)
  BY <1>4, <1>6, <1>9, <1>10 DEF WithinParent, IInv, Good
<1>12. Good(u)
  BY <1>4, <1>6, <1>7, <1>11 DEF IInv, Good, LiveNotRetired
<1>13. DeadOK(u, dead)
  BY <1>8, KeepsDead DEF IInv
<1>14. TypeOK' /\ RecordedMappingsStand'
  BY <1>4, <1>2, <1>5, <1>6, <1>7 DEF IInv, TypeOK, RecordedMappingsStand, HandleAt
<1> QED
  BY <1>2, <1>12, <1>13, <1>14 DEF IInv

LEMMA ClearAllStep ==
    ASSUME IInv, ClearAll
    PROVE  IInv'
<1>1. Good(table') /\ DeadOK(table', dead') /\ Live(table') = {}
  BY ClearAllGood DEF IInv
<1>2. spaces' = [a \in Addresses |-> None] /\ heard' = {}
  BY Zenon DEF ClearAll
<1>3. dead' \subseteq Handles
  BY <1>1 DEF DeadOK
<1>4. TypeOK'
  BY <1>1, <1>2, <1>3 DEF TypeOK, Good, None, Handles
<1>5. RecordedMappingsStand'
  BY <1>1 DEF RecordedMappingsStand
<1> QED
  BY <1>1, <1>4, <1>5 DEF IInv

LEMMA InitialTable ==
    ASSUME Init
    PROVE  /\ IInv /\ Live(table) = {} /\ ~table.posts
           /\ \A i \in Indices(table) : table.slot[i].notice = "Quiet"
<1> DEFINE base == 0 .. BaseSlots - 1
           slots == [i \in base |-> Fresh(FirstGeneration)]
<1>1. table = [slot |-> slots, pages |-> {}, grown |-> 0, floor |-> FirstGeneration, posts |-> FALSE]
  BY Zenon DEF Init, Empty
<1>2. \A i \in base : /\ slots[i] \in Slots /\ ~Occupied(slots[i])
                      /\ slots[i].generation = FirstGeneration /\ slots[i].notice = "Quiet"
  BY FreshShape DEF FirstGeneration
<1>3. slots \in [base -> Slots]
  BY <1>2, Zenon
<1> HIDE DEF slots
<1>4. /\ table.slot = slots /\ table.pages = {} /\ table.grown = 0
      /\ table.floor = FirstGeneration /\ table.posts = FALSE
  BY <1>1
<1>5. Indices(table) = base
  <2>1. 0 * SlotsPerPage = 0
    BY TableAssumption DEF TableAssumption
  <2> QED
    BY <1>4, <2>1, TableAssumption DEF TableAssumption, Indices, Capacity
<1>6. FirstGeneration \in FirstGeneration .. Retired /\ 0 \in 0 .. MaxPages
  BY TableAssumption DEF TableAssumption, FirstGeneration
<1>7. TableOK(table)
  <2>1. table \in [slot: [Indices(table) -> Slots], pages: SUBSET Nat,
                   grown: 0 .. MaxPages, floor: FirstGeneration .. Retired, posts: BOOLEAN]
    BY <1>1, <1>3, <1>5, <1>6, Zenon
  <2> QED
    BY <1>2, <1>4, <1>5, <1>6, <2>1 DEF TableOK
<1>8. Live(table) = {}
  BY <1>2, <1>4, <1>5 DEF Live
<1>9. TypeOK
  BY <1>7 DEF Init, TypeOK, None, Handles
<1>10. ~table.posts /\ \A i \in Indices(table) : table.slot[i].notice = "Quiet"
  BY <1>2, <1>4, <1>5
<1> QED
  BY <1>7, <1>8, <1>9, <1>10
  DEF Init, IInv, Good, LiveNotRetired, WithinParent, DeadOK, RecordedMappingsStand

-----------------------------------------------------------------------------
(* The ledger of notices.  A slot that owes nothing is as its holder knows it,
   a grant that is owed is of something held and unheard of, a revocation that
   is owed is of a dead handle the holder still has, and a table that posts
   nothing owes nothing: then nothing is owed falsely when it starts. *)

Of(H, i) == {h \in H : h.index = i}

SlotOwes(t, H, D, i) ==
    LET n == t.slot[i].notice IN
    /\ ~t.posts => n = "Quiet"
    /\ t.posts =>
        /\ n \in {"Granted", "GrantedThenPeerGone"} => i \in Live(t) /\ Of(H, i) = {}
        /\ n = "Revoked" => /\ i \notin Live(t) /\ Of(H, i) = {LastHandleAt(t, i)}
                            /\ LastHandleAt(t, i) \in D
        /\ n = "PeerGone" => i \in Live(t) /\ Of(H, i) = {HandleAt(t, i)}
        /\ n = "Quiet" => Of(H, i) = IF i \in Live(t) THEN {HandleAt(t, i)} ELSE {}

LedgerOK(t, H, D) ==
    /\ \A h \in H : h.index \in Indices(t)
    /\ \A i \in Indices(t) : SlotOwes(t, H, D, i)

(* The same slots held, owing the same, and new ones that owe nothing. *)
LEMMA SameLedger ==
    ASSUME NEW t, NEW u, NEW H, NEW D, LedgerOK(t, H, D),
           u.posts = t.posts, Live(u) = Live(t), Indices(t) \subseteq Indices(u),
           \A j \in Indices(t) : /\ u.slot[j].notice = t.slot[j].notice
                                 /\ u.slot[j].generation = t.slot[j].generation,
           \A j \in Indices(u) \ Indices(t) : u.slot[j].notice = "Quiet"
    PROVE  LedgerOK(u, H, D)
<1>1. Live(t) \subseteq Indices(t) /\ \A h \in H : h.index \in Indices(t)
  BY DEF Live, LedgerOK
<1> SUFFICES ASSUME NEW i \in Indices(u)
             PROVE  SlotOwes(u, H, D, i)
  BY <1>1 DEF LedgerOK
<1>2. CASE i \in Indices(t)
  <2>1. HandleAt(u, i) = HandleAt(t, i) /\ LastHandleAt(u, i) = LastHandleAt(t, i)
    BY <1>2 DEF HandleAt, LastHandleAt
  <2> QED
    BY <1>2, <2>1 DEF LedgerOK, SlotOwes
<1>3. CASE i \notin Indices(t)
  BY <1>1, <1>3 DEF SlotOwes, Of
<1> QED
  BY <1>2, <1>3

LEMMA PlacedLedger ==
    ASSUME NEW t, TableOK(t), Vacancies(t) # {}, NEW H, NEW D, LedgerOK(t, H, D),
           NEW c \in [kind: Kinds, rights: SUBSET AllRights, object: Nat, extent: Nat],
           NEW parent \in Handles
    PROVE  LedgerOK(Placed(t, c, parent), H, D)
<1> DEFINE u == Placed(t, c, parent)
           i == Least(Vacancies(t))
<1>0. PlacedAs(t, u, i, c, parent)
  BY PlacedShape
<1>1. /\ Indices(u) = Indices(t) /\ u.posts = t.posts
      /\ i \in Vacancies(t) /\ i \in Indices(t)
      /\ Live(u) = Live(t) \cup {i} /\ i \notin Live(t)
      /\ \A j \in Indices(t) : j # i => u.slot[j] = t.slot[j]
      /\ u.slot[i].notice = IF t.posts THEN "Granted" ELSE "Quiet"
  BY <1>0, Zenon DEF PlacedAs
<1>2. t.slot[i].notice = "Quiet"
  BY <1>1, Zenon DEF Vacancies
<1> HIDE DEF u, i
<1>3. t.posts => Of(H, i) = {}
  BY <1>1, <1>2 DEF LedgerOK, SlotOwes
<1> SUFFICES ASSUME NEW j \in Indices(t)
             PROVE  SlotOwes(u, H, D, j)
  BY <1>1 DEF LedgerOK, u
<1>4. CASE j = i
  BY <1>1, <1>3, <1>4 DEF SlotOwes
<1>5. CASE j # i
  <2>1. HandleAt(u, j) = HandleAt(t, j) /\ LastHandleAt(u, j) = LastHandleAt(t, j)
    BY <1>1, <1>5 DEF HandleAt, LastHandleAt
  <2> QED
    BY <1>1, <1>5, <2>1 DEF LedgerOK, SlotOwes
<1> QED
  BY <1>4, <1>5

LEMMA SweptLedger ==
    ASSUME NEW t, Good(t), NEW H, NEW D, LedgerOK(t, H, D), NEW S, S \subseteq Live(t)
    PROVE  LedgerOK(Swept(t, S), H, D \cup (Held(t) \ Held(Swept(t, S))))
<1> DEFINE u == Swept(t, S)
           E == D \cup (Held(t) \ Held(u))
<1>0. TableOK(t) /\ LiveNotRetired(t)
  BY DEF Good
<1>1. /\ Indices(u) = Indices(t) /\ u.posts = t.posts /\ Live(u) = Live(t) \ S
      /\ \A j \in Indices(t) : j \notin S => u.slot[j] = t.slot[j]
  BY <1>0, SweptShape DEF Live
<1>2. \A j \in S : u.slot[j] = Cleared(t, t.slot[j])
  BY <1>0, SweptShape DEF Live
<1> HIDE DEF u
<1> SUFFICES ASSUME NEW j \in Indices(t)
             PROVE  SlotOwes(u, H, E, j)
  BY <1>1, Zenon DEF LedgerOK, u
<1>3. CASE j \in S
  <2>1. u.slot[j].notice = IF t.posts THEN Revoked(t.slot[j].notice) ELSE t.slot[j].notice
    BY <1>0, <1>2, <1>3, ClearedShape, Zenon
  <2>2. t.slot[j].notice \in Pendings /\ t.slot[j].generation \in Nat
    BY <1>0, TableShape DEF Slots
  <2>3. j \in Live(t) /\ j \notin Live(u)
    BY <1>1, <1>3
  <2>4. u.slot[j].generation = t.slot[j].generation + 1
    BY <1>0, <1>2, <1>3, <2>3, ClearedShape DEF LiveNotRetired
  <2>5. LastHandleAt(u, j) = HandleAt(t, j)
    BY <2>2, <2>4 DEF LastHandleAt, HandleAt
  <2>6. HandleAt(t, j) \in E
    BY <2>3, Zenon DEF Held, HandleAt
  <2>7. SlotOwes(t, H, D, j)
    BY DEF LedgerOK
  <2> HIDE DEF E
  <2> QED
    BY <1>1, <2>1, <2>2, <2>3, <2>5, <2>6, <2>7 DEF SlotOwes, Revoked, Pendings
<1>4. CASE j \notin S
  <2>1. HandleAt(u, j) = HandleAt(t, j) /\ LastHandleAt(u, j) = LastHandleAt(t, j)
    BY <1>1, <1>4 DEF HandleAt, LastHandleAt
  <2>2. D \subseteq E /\ u.slot[j] = t.slot[j] /\ (j \in Live(u) <=> j \in Live(t))
    BY <1>1, <1>4
  <2> HIDE DEF E
  <2> QED
    BY <1>1, <2>1, <2>2 DEF LedgerOK, SlotOwes
<1> QED
  BY <1>3, <1>4

-----------------------------------------------------------------------------
(* What memory is spent on.  A region that is still untyped overlaps nothing,
   and of two overlapping capabilities one is a copy of a frame. *)

CopyOf(t, k) ==
    LET p == t.slot[k].parent IN
    /\ Resolves(t, p)
    /\ t.slot[p.index].kind = "Frame"
    /\ t.slot[p.index].object = t.slot[k].object

Overlap(t, i, j) == i # j /\ Frames(t.slot[i]) \cap Frames(t.slot[j]) # {}

OneUse(t) ==
    /\ \A i \in Live(t) : Frames(t.slot[i]) \cap t.pages = {}
    /\ \A i, j \in Live(t) :
            Overlap(t, i, j) => t.slot[i].kind # "Untyped" /\ (CopyOf(t, i) \/ CopyOf(t, j))

(* A copy stays one while its parent is held and no frame is renamed. *)
LEMMA CopyStays ==
    ASSUME NEW t, NEW u, TableOK(t), TableOK(u), NEW k \in Live(t), CopyOf(t, k),
           u.slot[k].parent = t.slot[k].parent, u.slot[k].object = t.slot[k].object,
           Resolves(u, t.slot[k].parent),
           \A j \in Live(t) \cap Live(u) : t.slot[j].kind = "Frame"
               => u.slot[j].kind = "Frame" /\ u.slot[j].object = t.slot[j].object
    PROVE  CopyOf(u, k)
<1> DEFINE p == t.slot[k].parent
<1>1. p \in Handles
  BY TableShape DEF Slots, Live
<1>2. Resolves(t, p) /\ t.slot[p.index].kind = "Frame" /\ t.slot[p.index].object = t.slot[k].object
  BY DEF CopyOf
<1>3. p.index \in Live(t) /\ p.index \in Live(u)
  BY <1>1, <1>2, ResolvesMeans
<1> QED
  BY <1>2, <1>3, Zenon DEF CopyOf

(* A step that names no new memory keeps what there is apart. *)
LEMMA OneUseKept ==
    ASSUME NEW t, NEW u, TableOK(t), Good(u), OneUse(t), Live(u) \subseteq Live(t),
           \A j \in Live(u) :
               /\ u.slot[j].kind = t.slot[j].kind /\ u.slot[j].parent = t.slot[j].parent
               /\ t.slot[j].kind # "Untyped" => u.slot[j].object = t.slot[j].object
               /\ Frames(u.slot[j]) \subseteq Frames(t.slot[j])
               /\ Frames(u.slot[j]) \cap u.pages = {}
    PROVE  OneUse(u)
<1>1. TableOK(u) /\ WithinParent(u)
  BY DEF Good
<1>2. \A j \in Live(t) \cap Live(u) : t.slot[j].kind = "Frame"
          => u.slot[j].kind = "Frame" /\ u.slot[j].object = t.slot[j].object
  OBVIOUS
<1>3. ASSUME NEW k \in Live(u), CopyOf(t, k), t.slot[k].kind # "Untyped"
      PROVE  CopyOf(u, k)
  <2> DEFINE p == t.slot[k].parent
  <2>1. p \in Handles /\ Resolves(t, p)
    BY <1>3, TableShape DEF Slots, Live, CopyOf
  <2>2. p # None
    BY <2>1, ResolvesMeans DEF None
  <2>3. Resolves(u, p)
    BY <1>1, <2>2 DEF WithinParent
  <2> QED
    BY <1>1, <1>2, <1>3, <2>3, CopyStays
<1>4. ASSUME NEW i \in Live(u), NEW j \in Live(u), Overlap(u, i, j)
      PROVE  u.slot[i].kind # "Untyped" /\ (CopyOf(u, i) \/ CopyOf(u, j))
  <2>1. Overlap(t, i, j) /\ Overlap(t, j, i)
    BY <1>4 DEF Overlap
  <2>2. /\ t.slot[i].kind # "Untyped" /\ t.slot[j].kind # "Untyped"
        /\ CopyOf(t, i) \/ CopyOf(t, j)
    BY <2>1 DEF OneUse
  <2> QED
    BY <1>3, <2>2
<1> QED
  BY <1>4 DEF OneUse

(* A capability over memory nothing names, or a copy of a frame. *)
LEMMA PlacedOneUse ==
    ASSUME NEW t, TableOK(t), OneUse(t), Vacancies(t) # {},
           NEW c \in [kind: Kinds, rights: SUBSET AllRights, object: Nat, extent: Nat],
           NEW parent \in Handles, TableOK(Placed(t, c, parent)), Keeps(t, Placed(t, c, parent)),
           \/ /\ \A i \in Live(t) : Frames(t.slot[i]) \cap Frames(c) = {}
              /\ t.pages \cap Frames(c) = {}
           \/ /\ Resolves(t, parent) /\ c.kind = "Frame"
              /\ t.slot[parent.index].kind = "Frame"
              /\ t.slot[parent.index].object = c.object
              /\ t.slot[parent.index].extent = c.extent
    PROVE  OneUse(Placed(t, c, parent))
<1> DEFINE u == Placed(t, c, parent)
           i == Least(Vacancies(t))
           copies == /\ Resolves(t, parent) /\ c.kind = "Frame"
                     /\ t.slot[parent.index].kind = "Frame"
                     /\ t.slot[parent.index].object = c.object
                     /\ t.slot[parent.index].extent = c.extent
           apart == /\ \A j \in Live(t) : Frames(t.slot[j]) \cap Frames(c) = {}
                    /\ t.pages \cap Frames(c) = {}
<1>0. apart \/ copies
  BY Zenon
<1>20. PlacedAs(t, u, i, c, parent)
  BY PlacedShape
<1>1. /\ u.pages = t.pages /\ i \in Indices(t)
      /\ Live(u) = Live(t) \cup {i} /\ i \notin Live(t)
      /\ \A j \in Indices(t) : j # i => u.slot[j] = t.slot[j]
      /\ u.slot[i].kind = c.kind /\ u.slot[i].parent = parent
      /\ u.slot[i].object = c.object /\ u.slot[i].extent = c.extent
  BY <1>20, Zenon DEF PlacedAs
<1>2. TableOK(u) /\ Keeps(t, u)
  OBVIOUS
<1> HIDE DEF u, i
<1>3. \A j \in Live(t) : u.slot[j] = t.slot[j]
  BY <1>1 DEF Live
<1>4. Frames(u.slot[i]) = Frames(c)
  BY <1>1 DEF Frames
<1>5. ASSUME copies
      PROVE  /\ parent.index \in Live(t) /\ Frames(t.slot[parent.index]) = Frames(c)
             /\ CopyOf(u, i)
  <2>1. parent.index \in Live(t) /\ Resolves(u, parent)
    BY <1>2, <1>5, ResolvesMeans, KeepsResolves
  <2>2. Frames(t.slot[parent.index]) = Frames(c)
    BY <1>5 DEF Frames
  <2> QED
    BY <1>1, <1>3, <1>5, <2>1, <2>2, Zenon DEF CopyOf
<1> HIDE DEF copies
<1>6. ASSUME NEW k \in Live(t), CopyOf(t, k) PROVE CopyOf(u, k)
  <2>1. t.slot[k].parent \in Handles /\ Resolves(t, t.slot[k].parent)
    BY <1>6, TableShape DEF Slots, Live, CopyOf
  <2>2. Resolves(u, t.slot[k].parent)
    BY <1>2, <2>1, KeepsResolves
  <2> QED
    BY <1>2, <1>3, <1>6, <2>2, CopyStays, Zenon
<1>7. \A j \in Live(u) : Frames(u.slot[j]) \cap u.pages = {}
  <2>1. Frames(c) \cap t.pages = {}
    BY <1>0, <1>5, Zenon DEF OneUse
  <2> QED
    BY <1>1, <1>3, <1>4, <2>1 DEF OneUse
<1>8. ASSUME NEW j \in Live(t), Frames(t.slot[j]) \cap Frames(c) # {}
      PROVE  copies /\ CopyOf(u, i) /\ t.slot[j].kind # "Untyped"
  <2>1. copies
    BY <1>0, <1>8
  <2>2. CASE j = parent.index
    BY <1>5, <2>1, <2>2 DEF copies
  <2>3. CASE j # parent.index
    BY <1>5, <1>8, <2>1, <2>3 DEF OneUse, Overlap
  <2> QED
    BY <1>5, <2>1, <2>2, <2>3, Zenon
<1>9. ASSUME NEW j \in Live(u), NEW k \in Live(u), Overlap(u, j, k)
      PROVE  u.slot[j].kind # "Untyped" /\ (CopyOf(u, j) \/ CopyOf(u, k))
  <2>1. CASE j # i /\ k # i
    <3>1. j \in Live(t) /\ k \in Live(t) /\ Overlap(t, j, k)
      BY <1>1, <1>3, <1>9, <2>1 DEF Overlap
    <3> QED
      BY <1>3, <1>6, <3>1 DEF OneUse
  <2>2. CASE j = i
    <3>1. k \in Live(t) /\ Frames(t.slot[k]) \cap Frames(c) # {}
      BY <1>1, <1>3, <1>4, <1>9, <2>2, Zenon DEF Overlap
    <3> QED
      BY <1>1, <1>8, <2>2, <3>1, Zenon DEF copies
  <2>3. CASE k = i /\ j # i
    <3>1. j \in Live(t) /\ Frames(t.slot[j]) \cap Frames(c) # {}
      BY <1>1, <1>3, <1>4, <1>9, <2>3, Zenon DEF Overlap
    <3> QED
      BY <1>3, <1>8, <2>3, <3>1, Zenon
  <2> QED
    BY <2>1, <2>2, <2>3
<1> QED
  BY <1>7, <1>9, Zenon DEF OneUse, u

(* The frames of a region that gave its first one. *)
LEMMA CarvedFrames ==
    ASSUME NEW s \in Slots, NEW v, s.kind = "Untyped", s.extent # 0, v.kind = s.kind,
           v.object = s.object + 1, v.extent = s.extent - 1
    PROVE  /\ Frames(v) \subseteq Frames(s)
           /\ s.object \in Frames(s) /\ s.object \notin Frames(v)
<1>1. s.object \in Nat /\ s.extent \in Nat
  BY DEF Slots
<1> QED
  BY <1>1 DEF Frames

LEMMA CarvedOneUse ==
    ASSUME NEW t, Good(t), OneUse(t), NEW i \in Live(t),
           t.slot[i].kind = "Untyped", t.slot[i].extent # 0
    PROVE  LET u == Carved(t, i) IN
           /\ OneUse(u) /\ u.pages = t.pages
           /\ t.pages \cap {t.slot[i].object} = {}
           /\ \A j \in Live(u) : Frames(u.slot[j]) \cap {t.slot[i].object} = {}
<1> DEFINE u == Carved(t, i)
           f == t.slot[i].object
<1>1. TableOK(t) /\ i \in Indices(t) /\ t.slot[i] \in Slots
  BY TableShape DEF Good, Live
<1>2. /\ Good(u) /\ Live(u) = Live(t) /\ u.pages = t.pages
      /\ \A j \in Indices(t) : j # i => u.slot[j] = t.slot[j]
      /\ u.slot[i].kind = t.slot[i].kind /\ u.slot[i].parent = t.slot[i].parent
      /\ u.slot[i].object = t.slot[i].object + 1
      /\ u.slot[i].extent = t.slot[i].extent - 1
  BY CarvedGood
<1> HIDE DEF u
<1>3. /\ Frames(u.slot[i]) \subseteq Frames(t.slot[i])
      /\ f \in Frames(t.slot[i]) /\ f \notin Frames(u.slot[i])
  BY <1>1, <1>2, CarvedFrames
<1>4. \A j \in Live(t) : j # i => u.slot[j] = t.slot[j]
  BY <1>2 DEF Live
<1>5. OneUse(u)
  <2>1. \A j \in Live(u) :
            /\ u.slot[j].kind = t.slot[j].kind /\ u.slot[j].parent = t.slot[j].parent
            /\ t.slot[j].kind # "Untyped" => u.slot[j].object = t.slot[j].object
            /\ Frames(u.slot[j]) \subseteq Frames(t.slot[j])
    BY <1>2, <1>3, <1>4
  <2>2. \A j \in Live(u) : Frames(u.slot[j]) \cap u.pages = {}
    BY <1>2, <2>1 DEF OneUse
  <2> QED
    BY <1>1, <1>2, <2>1, <2>2, OneUseKept
<1>6. f \notin t.pages
  BY <1>3 DEF OneUse
<1>7. \A j \in Live(u) : f \notin Frames(u.slot[j])
  BY <1>2, <1>3, <1>4 DEF OneUse, Overlap
<1> HIDE DEF f
<1>8. t.pages \cap {f} = {} /\ \A j \in Live(u) : Frames(u.slot[j]) \cap {f} = {}
  BY <1>6, <1>7
<1> QED
  BY <1>2, <1>5, <1>8 DEF u, f

(* The frame a page is made of leaves the region that pays for it. *)
LEMMA GrownOneUse ==
    ASSUME NEW t, Good(t), OneUse(t), CanGrow(t)
    PROVE  OneUse(Grown(t))
<1> DEFINE u == Grown(t)
           a == Least(Payers(t))
           f == t.slot[a].object
<1>1. /\ Good(u) /\ a \in Payers(t) /\ Live(u) = Live(t)
      /\ u.pages = t.pages \cup {f}
      /\ \A j \in Indices(t) : j # a => u.slot[j] = t.slot[j]
      /\ u.slot[a].kind = t.slot[a].kind /\ u.slot[a].parent = t.slot[a].parent
      /\ u.slot[a].object = t.slot[a].object + 1
      /\ u.slot[a].extent = t.slot[a].extent - 1
  BY GrownGood, Zenon
<1> HIDE DEF u, a
<1>2. TableOK(t) /\ a \in Live(t) /\ a \in Indices(t) /\ t.slot[a] \in Slots
  BY <1>1, TableShape DEF Good, Live, Payers
<1>3. t.slot[a].kind = "Untyped" /\ t.slot[a].extent # 0
  BY <1>1, <1>2 DEF Payers, Slots
<1>4. /\ Frames(u.slot[a]) \subseteq Frames(t.slot[a])
      /\ f \in Frames(t.slot[a]) /\ f \notin Frames(u.slot[a])
  BY <1>1, <1>2, <1>3, CarvedFrames
<1>5. \A j \in Live(t) : j # a => u.slot[j] = t.slot[j]
  BY <1>1 DEF Live
<1>6. \A j \in Live(u) :
            /\ u.slot[j].kind = t.slot[j].kind /\ u.slot[j].parent = t.slot[j].parent
            /\ t.slot[j].kind # "Untyped" => u.slot[j].object = t.slot[j].object
            /\ Frames(u.slot[j]) \subseteq Frames(t.slot[j])
  BY <1>1, <1>3, <1>4, <1>5
<1>7. \A j \in Live(u) : f \notin Frames(u.slot[j])
  BY <1>1, <1>2, <1>3, <1>4, <1>5 DEF OneUse, Overlap
<1> HIDE DEF f
<1>8. \A j \in Live(u) : Frames(u.slot[j]) \cap u.pages = {}
  BY <1>1, <1>6, <1>7, Zenon DEF OneUse
<1> QED
  BY <1>1, <1>2, <1>6, <1>8, OneUseKept, Zenon DEF u

LEMMA SweptOneUse ==
    ASSUME NEW t, Good(t), OneUse(t), NEW S, Hereditary(t, S)
    PROVE  OneUse(Swept(t, S))
<1> DEFINE u == Swept(t, S)
<1>1. TableOK(t) /\ S \subseteq Live(t) /\ Good(u)
  BY SweptGood DEF Good, Hereditary
<1>2. /\ u.pages = t.pages /\ Live(u) = Live(t) \ S
      /\ \A j \in Indices(t) : j \notin S => u.slot[j] = t.slot[j]
  BY <1>1, SweptShape, Zenon
<1> HIDE DEF u
<1>3. \A j \in Live(u) : j \in Live(t) /\ u.slot[j] = t.slot[j]
  BY <1>2 DEF Live
<1> QED
  BY <1>1, <1>2, <1>3, OneUseKept, Zenon DEF OneUse, u

-----------------------------------------------------------------------------
(* The steps, for memory and the ledger. *)

ToldTruth ==
    told # None =>
        IF told.kind = "REVOKED"
        THEN /\ ~Resolves(table, told.handle)
             /\ [told.handle EXCEPT !.generation = @ - 1] \in dead
        ELSE Resolves(table, told.handle)

Accounts == OneUse(table) /\ LedgerOK(table, heard, dead) /\ ToldTruth

LEMMA GrantAccounts ==
    ASSUME IInv, Accounts, NEW c \in Grants, Grant(c)
    PROVE  Accounts'
<1> DEFINE u == Placed(table, c, None)
<1>1. c \in [kind: Kinds, rights: SUBSET AllRights, object: Nat, extent: Nat]
  BY TableAssumption DEF TableAssumption
<1>2. None \in Handles /\ Good(table) /\ TableOK(table) /\ Vacancies(table) # {}
  BY DEF None, Handles, IInv, Good, Grant
<1>3. Good(u) /\ Keeps(table, u) /\ TableOK(u)
  BY <1>1, <1>2, PlacedGood, Zenon DEF Good
<1>4. OneUse(u)
  BY <1>1, <1>2, <1>3, PlacedOneUse, Zenon DEF Accounts, Grant
<1>5. LedgerOK(u, heard, dead)
  BY <1>1, <1>2, PlacedLedger DEF Accounts
<1>6. table' = u /\ heard' = heard /\ told' = None /\ dead' = dead
  BY <1>3, KeepsHeld DEF Grant, Becomes
<1> QED
  BY <1>4, <1>5, <1>6 DEF Accounts, ToldTruth

LEMMA DeriveAccounts ==
    ASSUME IInv, Accounts, NEW h \in Held(table), NEW asked \in Asks, Derive(h, asked)
    PROVE  Accounts'
<1> DEFINE roomy == IF Vacancies(table) # {} THEN table ELSE Grown(table)
           from == roomy.slot[h.index]
           carves == from.kind = "Untyped"
           c == [kind |-> IF carves THEN "Frame" ELSE from.kind, rights |-> asked,
                 object |-> from.object, extent |-> IF carves THEN 1 ELSE from.extent]
           retyped == IF carves THEN Carved(roomy, h.index) ELSE roomy
<1>1. /\ asked \subseteq table.slot[h.index].rights
      /\ Vacancies(table) # {} \/ CanGrow(table)
      /\ UNCHANGED heard /\ told' = None
      /\ \/ (carves /\ from.extent = 0) /\ Becomes(roomy)
         \/ ~(carves /\ from.extent = 0) /\ Vacancies(retyped) = {} /\ Becomes(retyped)
         \/ /\ ~(carves /\ from.extent = 0) /\ Vacancies(retyped) # {}
            /\ Becomes(Placed(retyped, c, h))
  BY Zenon DEF Derive
<1>2. Good(table) /\ TableOK(table)
  BY DEF IInv, Good
<1>3. Good(roomy) /\ Keeps(table, roomy) /\ OneUse(roomy) /\ LedgerOK(roomy, heard, dead)
  <2>1. CASE Vacancies(table) # {}
    BY <1>2, <2>1, Zenon DEF Keeps, Accounts
  <2>2. CASE Vacancies(table) = {}
    <3> DEFINE u == Grown(table)
    <3>1. CanGrow(table) /\ roomy = u
      BY <1>1, <2>2, Zenon
    <3> DEFINE a == Least(Payers(table))
    <3>2. /\ Good(u) /\ Keeps(table, u) /\ Live(u) = Live(table) /\ u.posts = table.posts
          /\ \A j \in Indices(table) : j # a => u.slot[j] = table.slot[j]
          /\ \A j \in Indices(u) \ Indices(table) : u.slot[j].notice = "Quiet"
          /\ u.slot[a].notice = table.slot[a].notice
      BY <1>2, <3>1, GrownGood, Zenon
    <3>3. OneUse(u)
      BY <1>2, <3>1, GrownOneUse DEF Accounts
    <3> HIDE DEF u, a
    <3>4. /\ Indices(table) \subseteq Indices(u)
          /\ \A j \in Indices(table) : /\ u.slot[j].notice = table.slot[j].notice
                                        /\ u.slot[j].generation = table.slot[j].generation
      BY <3>2 DEF Keeps
    <3>5. LedgerOK(u, heard, dead)
      BY <1>2, <3>2, <3>4, SameLedger, Zenon DEF Accounts
    <3> QED
      BY <3>1, <3>2, <3>3, <3>5, Zenon
  <2> QED
    BY <2>1, <2>2
<1> HIDE DEF roomy
<1>4. TableOK(roomy)
  BY <1>3 DEF Good
<1>5. h \in Handles /\ Resolves(table, h) /\ h # None
  BY <1>2, HeldMeans
<1>6. Resolves(roomy, h) /\ from.rights = table.slot[h.index].rights
  <2>1. Keeps(table, roomy)
    BY <1>3
  <2> QED
    BY <1>2, <1>4, <1>5, <2>1, KeepsResolves
<1>7. h.index \in Live(roomy) /\ h.index \in Indices(roomy) /\ Occupied(from)
  BY <1>4, <1>5, <1>6, ResolvesMeans DEF Live
<1>8. from \in Slots
  BY <1>4, <1>7, TableShape
<1>9. c \in [kind: Kinds, rights: SUBSET AllRights, object: Nat, extent: Nat]
  BY <1>7, <1>8, TableAssumption DEF Slots, Occupied, Kinds, TableAssumption
<1>10. CASE carves /\ from.extent = 0
  <2>1. table' = roomy /\ dead' = dead
    BY <1>1, <1>3, <1>10, KeepsHeld, Zenon DEF Becomes
  <2> QED
    BY <1>1, <1>3, <2>1, Zenon DEF Accounts, ToldTruth
<1>11. CASE ~(carves /\ from.extent = 0)
  <2>1. /\ Good(retyped) /\ Keeps(roomy, retyped) /\ OneUse(retyped)
        /\ LedgerOK(retyped, heard, dead)
        /\ carves => /\ retyped.pages \cap {from.object} = {}
                     /\ \A j \in Live(retyped) : Frames(retyped.slot[j]) \cap {from.object} = {}
    <3>1. CASE carves
      <4> DEFINE u == Carved(roomy, h.index)
      <4>1. retyped = u /\ from.extent # 0
        BY <1>11, <3>1, Zenon
      <4>2. /\ Good(u) /\ Keeps(roomy, u) /\ Indices(u) = Indices(roomy)
            /\ Live(u) = Live(roomy) /\ u.posts = roomy.posts
            /\ \A j \in Indices(roomy) : j # h.index => u.slot[j] = roomy.slot[j]
            /\ u.slot[h.index].notice = roomy.slot[h.index].notice
        BY <1>3, <1>7, <4>1, CarvedGood, Zenon
      <4> DEFINE same == \A j \in Indices(roomy) :
                            /\ u.slot[j].notice = roomy.slot[j].notice
                            /\ u.slot[j].generation = roomy.slot[j].generation
      <4>3. /\ OneUse(u) /\ u.pages = roomy.pages
            /\ roomy.pages \cap {from.object} = {}
            /\ \A j \in Live(u) : Frames(u.slot[j]) \cap {from.object} = {}
        BY <1>3, <1>7, <3>1, <4>1, CarvedOneUse, Zenon
      <4> HIDE DEF u
      <4>4. same
        BY <4>2 DEF Keeps
      <4>5. LedgerOK(u, heard, dead)
        BY <1>3, <1>4, <4>2, <4>4, SameLedger, Zenon
      <4> HIDE DEF retyped
      <4> QED
        BY <4>1, <4>2, <4>3, <4>5, Zenon
    <3>2. CASE ~carves
      BY <1>3, <3>2, Zenon DEF Keeps
    <3> QED
      BY <3>1, <3>2, Zenon
  <2>2. ~carves => retyped = roomy
    OBVIOUS
  <2> HIDE DEF retyped
  <2>0. Keeps(table, retyped)
    BY <1>3, <1>4, <2>1, KeepsTransitive
  <2>3. TableOK(retyped) /\ Resolves(retyped, h) /\ asked \subseteq retyped.slot[h.index].rights
    <3>1. TableOK(retyped) /\ Keeps(roomy, retyped)
      BY <2>1, Zenon DEF Good
    <3>2. Resolves(retyped, h) /\ retyped.slot[h.index].rights = from.rights
      BY <1>4, <1>5, <1>6, <3>1, KeepsResolves, Zenon
    <3> QED
      BY <1>1, <1>6, <3>1, <3>2, Zenon
  <2>4. CASE Becomes(retyped)
    <3>1. table' = retyped /\ dead' = dead
      BY <2>0, <2>4, KeepsHeld DEF Becomes
    <3> QED
      BY <1>1, <2>1, <3>1, Zenon DEF Accounts, ToldTruth
  <2>5. CASE Vacancies(retyped) # {} /\ Becomes(Placed(retyped, c, h))
    <3> DEFINE u == Placed(retyped, c, h)
    <3>1. /\ c.rights = asked /\ c.object = from.object
          /\ c.kind = IF carves THEN "Frame" ELSE from.kind
          /\ c.extent = IF carves THEN 1 ELSE from.extent
      BY Zenon
    <3> HIDE DEF c
    <3>2. Good(u) /\ Keeps(retyped, u) /\ TableOK(u)
      BY <1>5, <1>9, <2>1, <2>3, <2>5, <3>1, PlacedGood, Zenon DEF Good
    <3>3. LedgerOK(u, heard, dead)
      BY <1>5, <1>9, <2>1, <2>3, <2>5, PlacedLedger, Zenon
    <3>4. \/ /\ \A j \in Live(retyped) : Frames(retyped.slot[j]) \cap Frames(c) = {}
             /\ retyped.pages \cap Frames(c) = {}
          \/ /\ Resolves(retyped, h) /\ c.kind = "Frame"
             /\ retyped.slot[h.index].kind = "Frame"
             /\ retyped.slot[h.index].object = c.object
             /\ retyped.slot[h.index].extent = c.extent
      <4>1. CASE carves
        <5>1. from.object \in Nat
          BY <1>8, Zenon DEF Slots
        <5>2. Frames(c) = {from.object}
          BY <3>1, <4>1, <5>1 DEF Frames
        <5>3. /\ retyped.pages \cap {from.object} = {}
              /\ \A j \in Live(retyped) : Frames(retyped.slot[j]) \cap {from.object} = {}
          BY <2>1, <4>1, Zenon
        <5> QED
          BY <5>2, <5>3, Zenon
      <4>2. CASE ~carves /\ from.kind = "Frame"
        BY <2>2, <2>3, <3>1, <4>2
      <4>3. CASE ~carves /\ from.kind # "Frame"
        <5>1. Frames(c) = {}
          BY <3>1, <4>3 DEF Frames
        <5> QED
          BY <5>1
      <4> QED
        BY <4>1, <4>2, <4>3, Zenon
    <3>5. OneUse(u)
      BY <1>5, <1>9, <2>1, <2>3, <2>5, <3>2, <3>4, PlacedOneUse, Zenon
    <3>6. table' = u /\ dead' = dead
      <4>1. Keeps(table, u)
        BY <2>0, <2>3, <3>2, KeepsTransitive
      <4> QED
        BY <2>5, <4>1, KeepsHeld DEF Becomes
    <3> HIDE DEF u
    <3> QED
      BY <1>1, <3>3, <3>5, <3>6 DEF Accounts, ToldTruth
  <2> QED
    BY <1>1, <1>11, <2>4, <2>5, Zenon
<1> QED
  BY <1>10, <1>11

LEMMA SweepAccounts ==
    ASSUME IInv, Accounts, NEW S, Hereditary(table, S), Becomes(Swept(table, S)),
           UNCHANGED heard, told' = None
    PROVE  Accounts'
<1>1. Good(table) /\ TableOK(table) /\ S \subseteq Live(table)
  BY DEF IInv, Good, Hereditary
<1>2. OneUse(Swept(table, S))
  BY <1>1, SweptOneUse DEF Accounts
<1>3. LedgerOK(Swept(table, S), heard, dead \cup (Held(table) \ Held(Swept(table, S))))
  BY <1>1, SweptLedger DEF Accounts
<1> QED
  BY <1>2, <1>3 DEF Becomes, Accounts, ToldTruth

LEMMA RevokeAccounts ==
    ASSUME IInv, Accounts, NEW h \in Held(table), Revoke(h) \/ Relinquish(h)
    PROVE  Accounts'
<1>1. /\ Hereditary(table, Descendants(table, h))
      /\ Hereditary(table, Descendants(table, h) \cup {h.index})
  BY DescendantsHereditary DEF IInv
<1>2. CASE Revoke(h)
  <2>1. Becomes(Swept(table, Descendants(table, h))) /\ UNCHANGED heard /\ told' = None
    BY <1>2, Zenon DEF Revoke
  <2> QED
    BY <1>1, <2>1, SweepAccounts
<1>3. CASE Relinquish(h)
  <2>1. /\ Becomes(Swept(table, Descendants(table, h) \cup {h.index}))
        /\ UNCHANGED heard /\ told' = None
    BY <1>3, Zenon DEF Relinquish
  <2> QED
    BY <1>1, <2>1, SweepAccounts
<1> QED
  BY <1>2, <1>3

(* A slot whose address or notice is rewritten names the memory it named. *)
LEMMA RewriteOneUse ==
    ASSUME IInv, OneUse(table), NEW i \in Indices(table), NEW s \in Slots,
           s.kind = table.slot[i].kind, s.rights = table.slot[i].rights,
           s.generation = table.slot[i].generation, s.parent = table.slot[i].parent,
           s.object = table.slot[i].object, s.extent = table.slot[i].extent
    PROVE  LET u == [table EXCEPT !.slot[i] = s] IN
           /\ OneUse(u) /\ Indices(u) = Indices(table) /\ Live(u) = Live(table)
           /\ Good(u) /\ Keeps(table, u) /\ u.posts = table.posts
           /\ \A j \in Indices(table) : u.slot[j] = IF j = i THEN s ELSE table.slot[j]
<1> DEFINE u == [table EXCEPT !.slot[i] = s]
<1>1. Good(table) /\ TableOK(table)
  BY DEF IInv, Good
<1>2. /\ Good(u) /\ Keeps(table, u)
      /\ Indices(u) = Indices(table) /\ Live(u) = Live(table)
      /\ u.posts = table.posts /\ u.pages = table.pages
      /\ \A j \in Indices(table) : u.slot[j] = IF j = i THEN s ELSE table.slot[j]
  BY <1>1, UpdateSlot
<1> HIDE DEF u
<1>3. \A j \in Live(u) : /\ u.slot[j].kind = table.slot[j].kind
                         /\ u.slot[j].parent = table.slot[j].parent
                         /\ u.slot[j].object = table.slot[j].object
                         /\ u.slot[j].extent = table.slot[j].extent
  BY <1>2 DEF Live
<1>4. \A j \in Live(u) : Frames(u.slot[j]) = Frames(table.slot[j])
  BY <1>3 DEF Frames
<1>5. OneUse(u)
  BY <1>1, <1>2, <1>3, <1>4, OneUseKept, Zenon DEF OneUse
<1> QED
  BY <1>2, <1>5 DEF u

LEMMA MapFrameAccounts ==
    ASSUME IInv, Accounts, NEW h \in Held(table), NEW space, NEW asked, NEW a \in Addresses,
           MapFrame(h, space, asked, a)
    PROVE  Accounts'
<1> DEFINE i == h.index
           old == table.slot[i]
           s == [old EXCEPT !.mapped = IF old.mapped = Unmapped THEN a ELSE old.mapped]
<1>1. TableOK(table) /\ i \in Indices(table)
  BY HeldMeans, Zenon DEF IInv, Good
<1>2. old \in Slots
  BY <1>1, TableShape
<1>3. /\ s \in Slots /\ s.kind = old.kind /\ s.rights = old.rights
      /\ s.generation = old.generation /\ s.parent = old.parent
      /\ s.object = old.object /\ s.extent = old.extent /\ s.notice = old.notice
  BY <1>2 DEF Slots
<1>4. table' = [table EXCEPT !.slot[i] = s] /\ UNCHANGED <<heard, dead>> /\ told' = None
  BY Zenon DEF MapFrame
<1> HIDE DEF s, i
<1>5. /\ OneUse(table') /\ Indices(table') = Indices(table) /\ Live(table') = Live(table)
      /\ table'.posts = table.posts
      /\ \A j \in Indices(table) : table'.slot[j] = IF j = i THEN s ELSE table.slot[j]
  BY <1>1, <1>3, <1>4, RewriteOneUse DEF Accounts
<1>6. \A j \in Indices(table) : /\ table'.slot[j].notice = table.slot[j].notice
                                /\ table'.slot[j].generation = table.slot[j].generation
  BY <1>3, <1>5
<1>7. LedgerOK(table', heard, dead)
  BY <1>1, <1>5, <1>6, SameLedger, Zenon DEF Accounts
<1> QED
  BY <1>4, <1>5, <1>7 DEF Accounts, ToldTruth

(* A notice rewritten, with what the holder is told of it. *)
LEMMA NoticeAccounts ==
    ASSUME IInv, Accounts, NEW i \in Indices(table), NEW n \in Pendings, NEW H,
           \A h \in H : h.index \in Indices(table),
           \A j \in Indices(table) : j # i => Of(H, j) = Of(heard, j),
           LET t == table IN
           /\ ~t.posts => n = "Quiet"
           /\ t.posts =>
                /\ n \in {"Granted", "GrantedThenPeerGone"} => i \in Live(t) /\ Of(H, i) = {}
                /\ n # "Revoked"
                /\ n = "PeerGone" => i \in Live(t) /\ Of(H, i) = {HandleAt(t, i)}
                /\ n = "Quiet" => Of(H, i) = IF i \in Live(t) THEN {HandleAt(t, i)} ELSE {}
    PROVE  LET u == [table EXCEPT !.slot[i] = [table.slot[i] EXCEPT !.notice = n]] IN
           /\ OneUse(u) /\ LedgerOK(u, H, dead) /\ Keeps(table, u) /\ TableOK(u)
           /\ Live(u) = Live(table)
<1> DEFINE old == table.slot[i]
           s == [old EXCEPT !.notice = n]
           u == [table EXCEPT !.slot[i] = s]
<1>1. old \in Slots
  BY TableShape DEF IInv, Good
<1>2. /\ s \in Slots /\ s.kind = old.kind /\ s.rights = old.rights
      /\ s.generation = old.generation /\ s.parent = old.parent
      /\ s.object = old.object /\ s.extent = old.extent /\ s.notice = n
  BY <1>1 DEF Slots
<1> HIDE DEF s
<1>3. /\ OneUse(u) /\ Indices(u) = Indices(table) /\ Live(u) = Live(table)
      /\ Good(u) /\ Keeps(table, u) /\ u.posts = table.posts
      /\ \A j \in Indices(table) : u.slot[j] = IF j = i THEN s ELSE table.slot[j]
  BY <1>2, RewriteOneUse DEF Accounts
<1> HIDE DEF u
<1>4. \A j \in Indices(u) : SlotOwes(u, H, dead, j)
  <2> SUFFICES ASSUME NEW j \in Indices(table) PROVE SlotOwes(u, H, dead, j)
    BY <1>3
  <2>0. HandleAt(u, j) = HandleAt(table, j) /\ LastHandleAt(u, j) = LastHandleAt(table, j)
    BY <1>2, <1>3 DEF HandleAt, LastHandleAt
  <2>1. CASE j = i
    BY <1>2, <1>3, <2>0, <2>1, Zenon DEF SlotOwes
  <2>2. CASE j # i
    BY <1>3, <2>0, <2>2, Zenon DEF SlotOwes, Accounts, LedgerOK
  <2> QED
    BY <2>1, <2>2
<1> QED
  BY <1>3, <1>4 DEF LedgerOK, Good, u, s

LEMMA NotePeerGoneAccounts ==
    ASSUME IInv, Accounts, NEW h \in Held(table), NotePeerGone(h)
    PROVE  Accounts'
<1> DEFINE i == h.index
           old == table.slot[i].notice
           n == PeerGone(old)
           u == [table EXCEPT !.slot[i] = [table.slot[i] EXCEPT !.notice = n]]
<1>1. i \in Indices(table) /\ i \in Live(table) /\ TableOK(table)
  BY HeldMeans, Zenon DEF IInv, Good
<1>2. old \in Pendings
  BY <1>1, TableShape DEF Slots
<1>3. /\ n \in Pendings
      /\ \/ n = "GrantedThenPeerGone" /\ old \in {"Granted", "GrantedThenPeerGone"}
         \/ n = "Revoked" /\ old = "Revoked"
         \/ n = "PeerGone" /\ old \in {"Quiet", "PeerGone"}
  <2> HIDE DEF old
  <2> QED
    BY <1>2 DEF PeerGone, Pendings
<1>4. table' = u /\ table.posts /\ UNCHANGED <<heard, dead>> /\ told' = None
  BY Zenon DEF NotePeerGone
<1>5. SlotOwes(table, heard, dead, i) /\ \A g \in heard : g.index \in Indices(table)
  BY <1>1 DEF Accounts, LedgerOK
<1> HIDE DEF n, i
<1>6. /\ n \in {"Granted", "GrantedThenPeerGone"} => i \in Live(table) /\ Of(heard, i) = {}
      /\ n \notin {"Revoked", "Quiet"}
      /\ n = "PeerGone" => i \in Live(table) /\ Of(heard, i) = {HandleAt(table, i)}
  BY <1>1, <1>3, <1>4, <1>5 DEF SlotOwes
<1>7. OneUse(u) /\ LedgerOK(u, heard, dead)
  BY <1>1, <1>3, <1>4, <1>5, <1>6, NoticeAccounts
<1> HIDE DEF u
<1> QED
  BY <1>4, <1>7 DEF Accounts, ToldTruth

LEMMA NextSlotNoticeAccounts ==
    ASSUME IInv, Accounts, NextSlotNotice
    PROVE  Accounts'
<1> DEFINE owing == {i \in Indices(table) : table.slot[i].notice # "Quiet"}
           i == Least(owing)
           old == table.slot[i].notice
           n == Drained(old)
           k == NoticeOf(old)
           u == [table EXCEPT !.slot[i] = [table.slot[i] EXCEPT !.notice = n]]
<1>1. /\ owing # {} /\ table' = u
      /\ told' = [kind |-> k, handle |-> HandleAt(table, i)]
      /\ heard' = CASE k = "GRANTED" -> heard \cup {HandleAt(table, i)}
                    [] k = "REVOKED" -> {h \in heard : h.index # i}
                    [] OTHER -> heard
      /\ dead' = dead
  BY Zenon DEF NextSlotNotice
<1>2. TableOK(table) /\ Indices(table) \subseteq Nat
  BY TableShape DEF IInv, Good
<1>3. i \in owing
  BY <1>1, <1>2, LeastIsMember
<1>4. i \in Indices(table) /\ old # "Quiet"
  BY <1>3
<1>5. old \in Pendings
  BY <1>2, <1>4, TableShape, Zenon DEF Slots
<1>6. /\ SlotOwes(table, heard, dead, i) /\ table.posts \in BOOLEAN
      /\ \A h \in heard : h.index \in Indices(table)
  BY <1>2, <1>4 DEF Accounts, LedgerOK, TableOK
<1>7. table.posts
  BY <1>4, <1>6, Zenon DEF SlotOwes
<1>8. /\ n \in Pendings /\ n \in {"Quiet", "PeerGone"}
      /\ n = "PeerGone" <=> old = "GrantedThenPeerGone"
      /\ k \in {"GRANTED", "REVOKED", "PEER_GONE"}
      /\ k = "GRANTED" <=> old \in {"Granted", "GrantedThenPeerGone"}
      /\ k = "REVOKED" <=> old = "Revoked"
      /\ k = "PEER_GONE" <=> old = "PeerGone"
  BY <1>4, <1>5, Zenon DEF Drained, NoticeOf, Pendings
<1> HIDE DEF i, n, k, owing
<1>9. /\ k = "GRANTED" => heard' = heard \cup {HandleAt(table, i)}
      /\ k = "REVOKED" => heard' = {h \in heard : h.index # i}
      /\ k = "PEER_GONE" => heard' = heard
      /\ HandleAt(table, i).index = i
  BY <1>1 DEF HandleAt
<1>10. /\ \A h \in heard' : h.index \in Indices(table)
       /\ \A j \in Indices(table) : j # i => Of(heard', j) = Of(heard, j)
  BY <1>4, <1>6, <1>8, <1>9 DEF Of
<1>11. /\ old \in {"Granted", "GrantedThenPeerGone"} =>
            i \in Live(table) /\ Of(heard', i) = {HandleAt(table, i)}
       /\ old = "Revoked" => /\ i \notin Live(table) /\ Of(heard', i) = {}
                             /\ LastHandleAt(table, i) \in dead
       /\ old = "PeerGone" => i \in Live(table) /\ Of(heard', i) = {HandleAt(table, i)}
  BY <1>6, <1>7, <1>8, <1>9 DEF SlotOwes, Of
<1>12. /\ n = "PeerGone" => i \in Live(table) /\ Of(heard', i) = {HandleAt(table, i)}
       /\ n = "Quiet" => Of(heard', i) = IF i \in Live(table) THEN {HandleAt(table, i)} ELSE {}
  BY <1>4, <1>5, <1>8, <1>11 DEF Pendings
<1>13. /\ OneUse(u) /\ LedgerOK(u, heard', dead) /\ Keeps(table, u) /\ TableOK(u)
       /\ Live(u) = Live(table)
  BY <1>4, <1>7, <1>8, <1>10, <1>12, NoticeAccounts
<1> HIDE DEF u
<1>14. ToldTruth'
  <2>1. told'.handle = HandleAt(table, i) /\ told'.kind = k
    BY <1>1
  <2>2. CASE k = "REVOKED"
    <3>1. i \notin Live(table) /\ LastHandleAt(table, i) \in dead
      BY <1>8, <1>11, <2>2
    <3>2. i \notin Live(table')
      BY <1>1, <1>13, <3>1
    <3>3. ~Resolves(table', HandleAt(table, i))
      BY <1>9, <3>2 DEF Resolves, Verdict, Live
    <3>4. [HandleAt(table, i) EXCEPT !.generation = @ - 1] = LastHandleAt(table, i)
      BY DEF HandleAt, LastHandleAt
    <3> QED
      BY <1>1, <2>1, <2>2, <3>1, <3>3, <3>4 DEF ToldTruth
  <2>3. CASE k # "REVOKED"
    <3>1. i \in Live(table)
      BY <1>8, <1>11, <2>3
    <3>2. HandleAt(table, i) \in Held(table)
      BY <3>1 DEF Held
    <3>3. HandleAt(table, i) \in Handles /\ Resolves(table, HandleAt(table, i))
      BY <1>2, <3>2, HeldMeans
    <3>4. Resolves(table', HandleAt(table, i))
      BY <1>1, <1>2, <1>13, <3>3, KeepsResolves
    <3> QED
      BY <2>1, <2>3, <3>4 DEF ToldTruth
  <2> QED
    BY <2>2, <2>3
<1> QED
  BY <1>1, <1>13, <1>14 DEF Accounts

(* A component that starts to listen holds what it was told it holds. *)
LEMMA OwesNoticesAccounts ==
    ASSUME IInv, Accounts, OwesNotices, IInv'
    PROVE  Accounts'
<1>1. ~table.posts /\ heard' = Held(table) /\ told' = None
      /\ table' = [table EXCEPT !.posts = TRUE]
  BY Zenon DEF OwesNotices
<1>2. TableOK(table) /\ Good(table')
  BY DEF IInv, Good
<1>3. table = [slot |-> table.slot, pages |-> table.pages, grown |-> table.grown,
               floor |-> table.floor, posts |-> table.posts]
  BY <1>2, TableShape
<1>4. /\ table'.slot = table.slot /\ table'.pages = table.pages /\ table'.grown = table.grown
      /\ table'.posts = TRUE
  BY <1>1, <1>3
<1>5. Indices(table') = Indices(table)
  BY <1>4 DEF Indices, Capacity
<1>6. Live(table') = Live(table)
  BY <1>4, <1>5 DEF Live
<1>7. OneUse(table')
  BY <1>2, <1>4, <1>6, OneUseKept, Zenon DEF Accounts, OneUse
<1>8. \A j \in Indices(table) : table.slot[j].notice = "Quiet"
  BY <1>1 DEF Accounts, LedgerOK, SlotOwes
<1>9. /\ \A h \in Held(table) : h.index \in Indices(table)
      /\ \A j \in Indices(table) :
            Of(Held(table), j) = IF j \in Live(table) THEN {HandleAt(table, j)} ELSE {}
  BY DEF Held, HandleAt, Live, Of
<1>10. \A j \in Indices(table) : HandleAt(table', j) = HandleAt(table, j)
  BY <1>4 DEF HandleAt
<1>11. LedgerOK(table', heard', dead')
  BY <1>1, <1>4, <1>5, <1>6, <1>8, <1>9, <1>10, Zenon DEF LedgerOK, SlotOwes
<1> QED
  BY <1>1, <1>7, <1>11 DEF Accounts, ToldTruth

LEMMA ClearAllAccounts ==
    ASSUME IInv, ClearAll
    PROVE  Accounts'
<1>1. /\ Live(table') = {} /\ ~table'.posts
      /\ \A i \in Indices(table') : table'.slot[i].notice = "Quiet"
  BY ClearAllGood DEF IInv
<1>2. told' = None /\ heard' = {}
  BY Zenon DEF ClearAll
<1> QED
  BY <1>1, <1>2 DEF Accounts, OneUse, LedgerOK, SlotOwes, ToldTruth

-----------------------------------------------------------------------------
(* The theorems. *)

(* The inductive invariant holds: every operation of a table (cap.rs; the
   revoke and map calls of process.rs) keeps it. *)
THEOREM Invariance == Spec => []IInv
<1>1. Init => IInv
  BY InitialTable
<1>2. ASSUME IInv, [Next]_vars PROVE IInv'
  <2>1. CASE \E c \in Grants : Grant(c)
    BY <1>2, <2>1, GrantStep
  <2>2. CASE \E h \in Held(table) : \E asked \in Asks : Derive(h, asked)
    BY <1>2, <2>2, DeriveStep
  <2>3. CASE \E h \in Held(table) : Revoke(h)
    BY <1>2, <2>3, RevokeStep
  <2>4. CASE \E h \in Held(table) : Relinquish(h)
    BY <1>2, <2>4, RelinquishStep
  <2>5. CASE \E h, space \in Held(table), asked \in Asks, a \in Addresses :
                MapFrame(h, space, asked, a)
    BY <1>2, <2>5, MapFrameStep
  <2>6. CASE \E h \in Held(table) : NotePeerGone(h)
    BY <1>2, <2>6, NotePeerGoneStep
  <2>7. CASE NextSlotNotice
    BY <1>2, <2>7, NextSlotNoticeStep
  <2>8. CASE OwesNotices
    BY <1>2, <2>8, OwesNoticesStep
  <2>9. CASE ClearAll
    BY <1>2, <2>9, ClearAllStep
  <2>10. CASE UNCHANGED vars
    BY <1>2, <2>10
    DEF vars, IInv, TypeOK, RecordedMappingsStand
  <2> QED
    BY <1>2, <2>1, <2>2, <2>3, <2>4, <2>5, <2>6, <2>7, <2>8, <2>9, <2>10 DEF Next
<1> QED
  BY <1>1, <1>2, PTL DEF Spec

(* The table has its type for every size: its slots are exactly those of the
   base array and of the bought pages, and no generation passes Retired. *)
THEOREM TypeCorrect == Spec => []TypeOK
<1>1. IInv => TypeOK
  BY DEF IInv
<1> QED
  BY <1>1, Invariance, PTL

(* A handle that died is refused for ever, whatever its slot or its page is
   reused for (cap.rs, resolve_at, clear, clear_all and grow). *)
THEOREM DeadHandlesStayDead == Spec => []DeadStayDead
<1>1. IInv => DeadStayDead
  <2> SUFFICES ASSUME IInv, NEW h \in dead
               PROVE  Verdict(table, h) =
                        IF h.index \in Indices(table) THEN "REVOKED" ELSE "NO_SUCH_CAP"
    BY DEF DeadStayDead
  <2>1. h.generation # 0 /\ Behind(table, h) /\ h.generation \in Nat
    BY DEF IInv, DeadOK, Handles
  <2>2. h.index \in Indices(table) => table.slot[h.index].generation \in Nat
    BY TableShape DEF IInv, Good, Slots
  <2> QED
    BY <2>1, <2>2 DEF Verdict, Behind
<1> QED
  BY <1>1, Invariance, PTL

(* Authority only narrows and never outlives what it was derived from
   (cap.rs, derive, condemn, relinquish and sweep). *)
THEOREM AuthorityNarrows == Spec => []DerivedWithinParent
<1>1. IInv => DerivedWithinParent
  BY DEF IInv, Good, DerivedWithinParent
<1> QED
  BY <1>1, Invariance, PTL

(* The page a slot records was mapped on that very capability, so a revocation
   takes away no page of another (process.rs, map_frame and revoke). *)
THEOREM RecordedPagesStand == Spec => []RecordedMappingsStand
<1>1. IInv => RecordedMappingsStand
  BY DEF IInv
<1> QED
  BY <1>1, Invariance, PTL

(* Memory stays spent on one thing and the notices agree with the table, by
   the same steps over the same invariant. *)
LEMMA AccountsHold == Spec => []Accounts
<1>1. Init => Accounts
  BY InitialTable DEF Init, Accounts, OneUse, LedgerOK, SlotOwes, ToldTruth
<1>2. ASSUME IInv, IInv', Accounts, [Next]_vars PROVE Accounts'
  <2>1. CASE \E c \in Grants : Grant(c)
    BY <1>2, <2>1, GrantAccounts
  <2>2. CASE \E h \in Held(table) : \E asked \in Asks : Derive(h, asked)
    BY <1>2, <2>2, DeriveAccounts
  <2>3. CASE \E h \in Held(table) : Revoke(h)
    BY <1>2, <2>3, RevokeAccounts
  <2>4. CASE \E h \in Held(table) : Relinquish(h)
    BY <1>2, <2>4, RevokeAccounts
  <2>5. CASE \E h, space \in Held(table), asked \in Asks, a \in Addresses :
                MapFrame(h, space, asked, a)
    BY <1>2, <2>5, MapFrameAccounts
  <2>6. CASE \E h \in Held(table) : NotePeerGone(h)
    BY <1>2, <2>6, NotePeerGoneAccounts
  <2>7. CASE NextSlotNotice
    BY <1>2, <2>7, NextSlotNoticeAccounts
  <2>8. CASE OwesNotices
    BY <1>2, <2>8, OwesNoticesAccounts
  <2>9. CASE ClearAll
    BY <1>2, <2>9, ClearAllAccounts
  <2>10. CASE UNCHANGED vars
    BY <1>2, <2>10 DEF vars, Accounts, ToldTruth
  <2> QED
    BY <1>2, <2>1, <2>2, <2>3, <2>4, <2>5, <2>6, <2>7, <2>8, <2>9, <2>10 DEF Next
<1> QED
  BY <1>1, <1>2, Invariance, PTL DEF Spec

(* No frame is spent twice, however regions are carved, copied, revoked and
   turned into pages of the table (cap.rs, retype, derive and grow). *)
THEOREM MemorySpentOnce == Spec => []MemoryHasOneUse
<1>1. Accounts => MemoryHasOneUse
  BY Zenon DEF Accounts, OneUse, Overlap, CopyOf, MemoryHasOneUse
<1> QED
  BY <1>1, AccountsHold, PTL

(* The handles a holder was told of and what it is still owed add up to the
   handles it holds; what it is told is granted or has lost its peer it holds,
   and what it is told is revoked is the generation after a handle that died
   (control.rs, Pending; cap.rs, place, clear and next_slot_notice). *)
THEOREM LedgerIsExact == Spec => []LedgerAgrees
<1>1. IInv /\ Accounts => LedgerAgrees
  <2> SUFFICES ASSUME IInv, Accounts, table.posts, NEW i \in Indices(table)
               PROVE  CASE table.slot[i].notice \in {"Granted", "GrantedThenPeerGone"} ->
                              i \in Live(table) /\ HeardOf(i) = {}
                        [] table.slot[i].notice = "Revoked" ->
                              i \notin Live(table) /\ HeardOf(i) = {LastHandleAt(table, i)}
                        [] OTHER ->
                              HeardOf(i) = IF i \in Live(table) THEN {HandleAt(table, i)} ELSE {}
    BY DEF Accounts, ToldTruth, LedgerAgrees
  <2>1. SlotOwes(table, heard, dead, i) /\ HeardOf(i) = Of(heard, i)
    BY DEF Accounts, LedgerOK, HeardOf, Of
  <2>2. table.slot[i].notice \in Pendings
    BY TableShape DEF IInv, Good, Slots
  <2> QED
    BY <2>1, <2>2 DEF SlotOwes, Pendings
<1> QED
  BY <1>1, Invariance, AccountsHold, PTL
=============================================================================
