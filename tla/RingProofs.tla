---------------------------- MODULE RingProofs ----------------------------
(***************************************************************************)
(* The submission ring is a bounded first-in first-out queue, whatever its *)
(* capacity and whatever multiple of it the cursors wrap at.               *)
(*                                                                         *)
(* RingInv counts positions from the shared tail.  First come the slots    *)
(* popped whose tail store has not landed, then the entries that wait,     *)
(* then the ones an open batch has staged, and together they fit the ring. *)
(* Within one length of the ring no two positions share a slot (the only   *)
(* use of the modulus being a multiple of the capacity), so a stage never  *)
(* touches a slot of the others.  What a slot will hold is said of memory  *)
(* together with the stores under way, which is what a store that lands    *)
(* leaves alone.  A head store is a Release, so it lands last: the entries *)
(* behind the shared head are in memory, none is under way.                *)
(***************************************************************************)
EXTENDS Ring, Integers, SequenceTheorems, TLAPS

\* What a core's buffer is made of.
Stores == [loc : Locations, val : Nat, release : BOOLEAN]

\* Every variable keeps its shape and the two shared cursors their width.
RingTypeOK ==
    /\ mem \in [Locations -> Nat] /\ mem[HEAD] \in Cursors /\ mem[TAIL] \in Cursors
    /\ buf \in [Cores -> Seq(Stores)]
    /\ prod \in [pc : {"idle", "batch", "fence"}, base : Nat, staged : Seq(Nat)]
    /\ cons \in [pc : {"idle", "index", "entry"}, head : Nat, slot : Nat]
    /\ issued \in Nat /\ sent \in Seq(Nat) /\ got \in Seq(Nat)

\* The producer's stores under way, and the two counts.
Unlanded == buf["producer"]
Returned == Len(buf["consumer"])     \* slots popped whose tail has not landed
Waiting == Len(sent) - Len(got)      \* entries published and not popped

\* The cursor, and the slot, n positions past the shared tail.
At(n) == WrappingAdd(mem[TAIL], n)
Slot(n) == SlotOf(At(n))

\* What a location of m holds once the stores b have landed.
Becomes(m, b, loc, v) ==
    \/ m[loc] = v /\ \A i \in DOMAIN b : b[i].loc # loc
    \/ \E i \in DOMAIN b :
          /\ b[i].loc = loc /\ b[i].val = v
          /\ \A j \in DOMAIN b : j > i => b[j].loc # loc
WillBe(loc, v) == Becomes(mem, Unlanded, loc, v)

\* Entry e is, or will be, in slot s, and the index word will name it.
Lies(s, e) == WillBe(EntryAt(s), e) /\ WillBe(IndexAt(s), s)

\* Nothing is on its way to slot s.
Settled(s) == \A i \in DOMAIN Unlanded : Unlanded[i].loc \notin {EntryAt(s), IndexAt(s)}

\* Slots popped, entries waiting and entries staged fit the ring together.
Counts ==
    /\ Len(got) <= Len(sent)
    /\ Returned + Waiting + Len(prod.staged) <= Capacity
    /\ prod.pc # "batch" => prod.staged = <<>>

\* The consumer's unlanded stores are the next cursors past the shared tail.
Tails ==
    \A i \in DOMAIN buf["consumer"] :
        buf["consumer"][i].loc = TAIL /\ buf["consumer"][i].val = At(i)

\* A head store is the last the producer made, and the fence waits for it.
Heads ==
    /\ \A i \in DOMAIN Unlanded :
          /\ Unlanded[i].loc # TAIL
          /\ Unlanded[i].loc = HEAD =>
                /\ i = Len(Unlanded) /\ prod.pc = "fence"
                /\ Unlanded[i].release /\ Unlanded[i].val = At(Returned + Waiting)
    /\ prod.pc = "fence" /\ Unlanded # <<>> => Unlanded[Len(Unlanded)].loc = HEAD
    /\ prod.pc # "fence" \/ Unlanded = <<>> => mem[HEAD] = At(Returned + Waiting)
    /\ prod.pc = "batch" => prod.base = At(Returned + Waiting)

\* The first v waiting entries are visible, and nothing is on its way to
\* their slots.
Visible(v) ==
    /\ mem[HEAD] = At(Returned + v)
    /\ \A j \in 0 .. v - 1 : Settled(Slot(Returned + j))
    /\ cons.pc # "idle" => v >= 1

\* Each waiting entry, and each staged one, is or will be where its cursor says.
Contents ==
    /\ \A j \in 0 .. Waiting - 1 : Lies(Slot(Returned + j), sent[Len(got) + 1 + j])
    /\ \A j \in 0 .. Len(prod.staged) - 1 :
          Lies(Slot(Returned + Waiting + j), prod.staged[j + 1])

\* The inductive invariant.
RingInv ==
    /\ RingTypeOK /\ Counts /\ Tails /\ Heads
    /\ \E v \in 0 .. Waiting : Visible(v)
    /\ Contents
    /\ cons.pc = "entry" => cons.slot = Slot(Returned)

----------------------------------------------------------------------------
(* Cursors. *)

\* What the assumption on the constants gives, the modulus as a multiple included.
LEMMA Constants ==
    /\ Capacity \in Nat /\ Capacity > 0
    /\ CursorModulus \in Nat /\ CursorModulus > Capacity /\ CursorModulus > 0
    /\ MaxIssued \in Nat
    /\ \E q \in Nat : CursorModulus = Capacity * q
<1>1. CursorModulus = Capacity * (CursorModulus \div Capacity) + (CursorModulus % Capacity)
  BY RingAssumption
<1>2. CursorModulus \div Capacity \in Nat
  BY RingAssumption
<1> QED BY <1>1, <1>2, RingAssumption

\* A sum below twice the modulus wraps at most once.
LEMMA Wrap ==
    ASSUME NEW m \in Nat \ {0}, NEW x \in Nat, x < 2 * m
    PROVE  x % m = IF x < m THEN x ELSE x - m
OBVIOUS

\* A cursor a ring's length ahead or less wraps at most once, and the
\* difference gives the distance back.
LEMMA Ahead ==
    ASSUME NEW t \in Cursors, NEW n \in 0 .. Capacity
    PROVE  /\ WrappingAdd(t, n) = IF t + n < CursorModulus THEN t + n ELSE t + n - CursorModulus
           /\ WrappingAdd(t, n) \in Cursors
           /\ WrappingSub(WrappingAdd(t, n), t) = n
<1> DEFINE a == WrappingAdd(t, n)
<1>1. t \in Nat /\ n \in Nat /\ t < CursorModulus /\ n < CursorModulus
  BY Constants DEF Cursors
<1>2. a = IF t + n < CursorModulus THEN t + n ELSE t + n - CursorModulus
  BY <1>1, Constants, Wrap DEF WrappingAdd
<1>3. a \in Cursors /\ a \in Nat
  BY <1>1, <1>2, Constants DEF Cursors
<1>4. (a + CursorModulus - t) % CursorModulus =
        IF a + CursorModulus - t < CursorModulus THEN a + CursorModulus - t ELSE a - t
  <2>1. a + CursorModulus - t \in Nat /\ a + CursorModulus - t < 2 * CursorModulus
    BY <1>1, <1>2, Constants
  <2>2. (a + CursorModulus - t) - CursorModulus = a - t
    BY <1>1, <1>3, Constants
  <2> HIDE DEF a
  <2> QED BY <2>1, <2>2, Wrap, Constants
<1>5. WrappingSub(a, t) = n
  BY <1>1, <1>2, <1>4, Constants DEF WrappingSub
<1> QED BY <1>2, <1>3, <1>5

\* Going ahead twice is going ahead by the sum.
LEMMA AheadAgain ==
    ASSUME NEW t \in Cursors, NEW n \in Nat, NEW m \in Nat, n + m <= Capacity
    PROVE  WrappingAdd(WrappingAdd(t, n), m) = WrappingAdd(t, n + m)
<1> DEFINE a == WrappingAdd(t, n)
<1>1. n \in 0 .. Capacity /\ m \in 0 .. Capacity /\ n + m \in 0 .. Capacity
  BY Constants
<1>2. /\ a = IF t + n < CursorModulus THEN t + n ELSE t + n - CursorModulus
      /\ a \in Cursors
  BY <1>1, Ahead
<1>3. WrappingAdd(t, n + m) =
        IF t + (n + m) < CursorModulus THEN t + (n + m) ELSE t + (n + m) - CursorModulus
  BY <1>1, Ahead
<1>4. WrappingAdd(a, m) = IF a + m < CursorModulus THEN a + m ELSE a + m - CursorModulus
  <2> HIDE DEF a
  <2> QED BY <1>1, <1>2, Ahead
<1> HIDE DEF a
<1>5. t \in Nat /\ t < CursorModulus
  BY Constants DEF Cursors
<1>6. WrappingAdd(a, m) = WrappingAdd(t, n + m)
  BY <1>1, <1>2, <1>3, <1>4, <1>5, Constants
<1> QED BY <1>6 DEF a

\* The one multiple of c strictly between -c and c is zero.
LEMMA Multiples ==
    ASSUME NEW c \in Nat, c > 0, NEW p \in Int, NEW x \in Int, x = c * p, x < c, x > 0 - c
    PROVE  x = 0
<1>1. CASE p >= 1
  BY <1>1
<1>2. CASE p <= 0 - 1
  BY <1>2
<1>3. CASE p = 0
  BY <1>3
<1> QED BY <1>1, <1>2, <1>3

\* Within one length of the ring no two cursors share a slot, across a wrap
\* too, since the modulus is a multiple of the capacity.
LEMMA SlotsDiffer ==
    ASSUME NEW t \in Cursors, NEW a \in 0 .. Capacity - 1, NEW b \in 0 .. Capacity - 1,
           SlotOf(WrappingAdd(t, a)) = SlotOf(WrappingAdd(t, b))
    PROVE  a = b
<1> DEFINE x == WrappingAdd(t, a)
           y == WrappingAdd(t, b)
<1>1. a \in 0 .. Capacity /\ b \in 0 .. Capacity /\ t \in Nat
  BY Constants DEF Cursors
<1>2. /\ x = IF t + a < CursorModulus THEN t + a ELSE t + a - CursorModulus
      /\ y = IF t + b < CursorModulus THEN t + b ELSE t + b - CursorModulus
      /\ x \in Nat /\ y \in Nat
  BY <1>1, Ahead DEF Cursors
<1> HIDE DEF x, y
<1>3. x = Capacity * (x \div Capacity) + (x % Capacity) /\ x \div Capacity \in Nat
  BY <1>2, Constants
<1>4. y = Capacity * (y \div Capacity) + (y % Capacity) /\ y \div Capacity \in Nat
  BY <1>2, Constants
<1>5. x % Capacity = y % Capacity
  BY DEF SlotOf, x, y
<1>6. PICK q \in Nat : CursorModulus = Capacity * q
  BY Constants
<1>7. x % Capacity \in Nat
  BY <1>2, Constants
<1>8. x - y = Capacity * ((x \div Capacity) - (y \div Capacity))
  BY <1>3, <1>4, <1>5, <1>7, Constants
<1>9. \E p \in Int : a - b = Capacity * p
  <2> DEFINE e == (x \div Capacity) - (y \div Capacity)
  <2>1. e \in Int /\ x - y = Capacity * e
    BY <1>3, <1>4, <1>8
  <2> HIDE DEF e
  <2>2. /\ Capacity * (e + q) = Capacity * e + Capacity * q
        /\ Capacity * (e - q) = Capacity * e - Capacity * q
    BY <2>1, <1>6, Constants
  <2>3. a - b \in {x - y, x - y + CursorModulus, x - y - CursorModulus}
    BY <1>1, <1>2, Constants
  <2>4. a - b \in {Capacity * e, Capacity * (e + q), Capacity * (e - q)}
    BY <2>1, <2>2, <2>3, <1>6
  <2>5. e + q \in Int /\ e - q \in Int
    BY <2>1, <1>6
  <2> QED BY <2>1, <2>4, <2>5
<1>10. a - b < Capacity /\ a - b > 0 - Capacity /\ a - b \in Int
  BY <1>1, Constants
<1>11. a - b = 0
  BY <1>9, <1>10, Multiples, Constants
<1> QED BY <1>11, <1>1

\* Every cursor names a slot.
LEMMA SlotIsSlot ==
    ASSUME NEW c \in Nat
    PROVE  SlotOf(c) \in Slots
BY Constants DEF SlotOf, Slots

----------------------------------------------------------------------------
(* Stores that land and stores that are made. *)

\* A sequence without its i-th element.
Without(b, i) == SubSeq(b, 1, i - 1) \o SubSeq(b, i + 1, Len(b))

\* The length of what follows position i.
LEMMA Remaining ==
    ASSUME NEW n \in Nat, NEW i \in 1 .. n
    PROVE  (IF i + 1 <= n THEN n - (i + 1) + 1 ELSE 0) = n - i
OBVIOUS

\* A sequence without its i-th element, element by element.
LEMMA OneLess ==
    ASSUME NEW S, NEW b \in Seq(S), NEW i \in 1 .. Len(b)
    PROVE  /\ Without(b, i) \in Seq(S)
           /\ Len(Without(b, i)) = Len(b) - 1
           /\ \A j \in 1 .. Len(b) - 1 : Without(b, i)[j] = IF j < i THEN b[j] ELSE b[j + 1]
<1> DEFINE l == SubSeq(b, 1, i - 1)
           r == SubSeq(b, i + 1, Len(b))
<1>1. Len(b) \in Nat /\ i \in Nat /\ i >= 1 /\ i <= Len(b) /\ DOMAIN b = 1 .. Len(b)
  OBVIOUS
<1>2. l \in Seq(S) /\ Len(l) = i - 1 /\ \A j \in 1 .. i - 1 : l[j] = b[j]
  BY <1>1, SubSeqProperties
<1>3. r \in Seq(S) /\ Len(r) = Len(b) - i /\ \A j \in 1 .. Len(b) - i : r[j] = b[i + j]
  <2>1. \A j \in i + 1 .. Len(b) : b[j] \in S
    BY <1>1
  <2>2. /\ r \in Seq(S)
        /\ Len(r) = IF i + 1 <= Len(b) THEN Len(b) - (i + 1) + 1 ELSE 0
        /\ \A j \in 1 .. Len(b) - (i + 1) + 1 : r[j] = b[i + 1 + j - 1]
    BY <1>1, <2>1, SubSeqProperties
  <2> HIDE DEF r
  <2>3. Len(b) - (i + 1) + 1 = Len(b) - i
    BY <1>1
  <2>4. \A j \in 1 .. Len(b) - i : i + 1 + j - 1 = i + j
    BY <1>1
  <2>5. Len(r) = Len(b) - i
    BY <1>1, <2>2, Remaining, Zenon
  <2>6. \A j \in 1 .. Len(b) - i : r[j] = b[i + j]
    BY <2>2, <2>3, <2>4, Zenon
  <2> QED BY <2>2, <2>5, <2>6
<1> HIDE DEF l, r
<1>4. l \o r \in Seq(S) /\ Len(l \o r) = Len(b) - 1
  <2>1. l \o r \in Seq(S) /\ Len(l \o r) = Len(l) + Len(r)
    BY <1>2, <1>3, ConcatProperties, Zenon
  <2> QED BY <1>1, <1>2, <1>3, <2>1
<1>5. ASSUME NEW j \in 1 .. Len(b) - 1
      PROVE  (l \o r)[j] = IF j < i THEN b[j] ELSE b[j + 1]
  <2>1. (l \o r)[j] = IF j <= Len(l) THEN l[j] ELSE r[j - Len(l)]
    BY <1>1, <1>2, <1>3, <1>4, ConcatProperties
  <2>2. CASE j < i
    BY <2>1, <2>2, <1>1, <1>2
  <2>3. CASE ~(j < i)
    <3>1. j - (i - 1) \in 1 .. Len(b) - i /\ i + (j - (i - 1)) = j + 1
      BY <2>3, <1>1
    <3> QED BY <2>1, <2>3, <3>1, <1>1, <1>2, <1>3
  <2> QED BY <2>2, <2>3, Zenon
<1> QED BY <1>4, <1>5, Zenon DEF Without, l, r

\* A store that lands changes nothing of what memory is going to be.
LEMMA LandingKeeps ==
    ASSUME NEW m \in [Locations -> Nat], NEW b \in Seq(Stores), NEW i \in 1 .. Len(b),
           \A j \in 1 .. i - 1 : b[j].loc # b[i].loc,
           NEW loc \in Locations, NEW v, Becomes(m, b, loc, v)
    PROVE  Becomes([m EXCEPT ![b[i].loc] = b[i].val], Without(b, i), loc, v)
<1> DEFINE w == Without(b, i)
           n == [m EXCEPT ![b[i].loc] = b[i].val]
<1>1. /\ Len(b) \in Nat /\ DOMAIN b = 1 .. Len(b) /\ i \in Nat /\ i >= 1 /\ i <= Len(b)
      /\ b[i].loc \in Locations
  <2>1. b[i] \in Stores
    BY ElementOfSeq
  <2> QED BY <2>1 DEF Stores
<1>2. /\ DOMAIN w = 1 .. Len(b) - 1
      /\ \A j \in 1 .. Len(b) - 1 : w[j] = IF j < i THEN b[j] ELSE b[j + 1]
  BY OneLess
<1>3. n[loc] = IF loc = b[i].loc THEN b[i].val ELSE m[loc]
  BY <1>1
<1> DEFINE from(j) == IF j < i THEN j ELSE j + 1
<1>6. \A j \in DOMAIN w : /\ from(j) \in DOMAIN b /\ w[j] = b[from(j)] /\ from(j) # i
                          /\ from(j) >= j /\ j \in Nat /\ (j >= i => from(j) > j)
  BY <1>1, <1>2
<1> HIDE DEF from
<1> HIDE DEF w, n
<1>4. CASE m[loc] = v /\ \A j \in DOMAIN b : b[j].loc # loc
  <2>1. n[loc] = v
    BY <1>1, <1>3, <1>4
  <2>2. \A j \in DOMAIN w : w[j].loc # loc
    BY <1>4, <1>6
  <2> QED BY <2>1, <2>2 DEF Becomes, n, w
<1>5. ASSUME NEW k \in DOMAIN b, b[k].loc = loc, b[k].val = v,
             \A j \in DOMAIN b : j > k => b[j].loc # loc
      PROVE  Becomes(n, w, loc, v)
  <2>1. CASE k = i
    <3>1. n[loc] = v
      BY <1>3, <1>5, <2>1
    <3>2. ASSUME NEW j \in DOMAIN w PROVE w[j].loc # loc
      <4>1. CASE from(j) > i
        BY <1>5, <1>6, <2>1, <4>1
      <4>2. CASE from(j) < i
        <5>1. from(j) \in 1 .. i - 1
          BY <1>1, <1>6, <4>2
        <5> QED BY <1>5, <1>6, <2>1, <5>1
      <4> QED BY <1>1, <1>6, <4>1, <4>2
    <3> QED BY <3>1, <3>2 DEF Becomes
  <2>2. CASE k < i
    <3>1. loc # b[i].loc
      BY <1>1, <1>5, <2>2
    <3>2. k \in DOMAIN w /\ w[k].loc = loc /\ w[k].val = v
      BY <1>1, <1>2, <1>5, <2>2
    <3>3. ASSUME NEW j \in DOMAIN w, j > k PROVE w[j].loc # loc
      <4>1. from(j) > k
        BY <1>1, <1>6, <3>3
      <4> QED BY <1>5, <1>6, <4>1
    <3> QED BY <3>2, <3>3 DEF Becomes
  <2>3. CASE k > i
    <3>1. k - 1 \in DOMAIN w /\ w[k - 1].loc = loc /\ w[k - 1].val = v
      BY <1>1, <1>2, <1>5, <2>3
    <3>2. ASSUME NEW j \in DOMAIN w, j > k - 1 PROVE w[j].loc # loc
      <4>1. from(j) > k
        BY <1>1, <1>6, <2>3, <3>2
      <4> QED BY <1>5, <1>6, <4>1
    <3> QED BY <3>1, <3>2 DEF Becomes
  <2> QED BY <2>1, <2>2, <2>3, <1>1
<1> QED BY <1>4, <1>5 DEF Becomes, n, w

\* A store made later to another location changes nothing of it either.
LEMMA MakingKeeps ==
    ASSUME NEW m, NEW b \in Seq(Stores), NEW c \in Seq(Stores), NEW loc, NEW v,
           \A i \in DOMAIN c : c[i].loc # loc, Becomes(m, b, loc, v)
    PROVE  Becomes(m, b \o c, loc, v)
<1>1. /\ Len(b) \in Nat /\ DOMAIN b = 1 .. Len(b) /\ Len(c) \in Nat /\ DOMAIN c = 1 .. Len(c)
      /\ DOMAIN (b \o c) = 1 .. Len(b) + Len(c)
      /\ \A j \in 1 .. Len(b) + Len(c) :
            (b \o c)[j] = IF j <= Len(b) THEN b[j] ELSE c[j - Len(b)]
  BY ConcatProperties
<1> DEFINE d == b \o c
<1> HIDE DEF d
<1>2. \A j \in DOMAIN d : j > Len(b) => d[j].loc # loc
  BY <1>1 DEF d
<1>3. \A j \in DOMAIN b : j \in DOMAIN d /\ d[j] = b[j]
  BY <1>1 DEF d
<1>4. \A j \in DOMAIN d : j > Len(b) \/ j \in DOMAIN b
  BY <1>1 DEF d
<1>5. CASE m[loc] = v /\ \A j \in DOMAIN b : b[j].loc # loc
  <2>1. \A j \in DOMAIN d : d[j].loc # loc
    BY <1>2, <1>3, <1>4, <1>5
  <2> QED BY <1>5, <2>1 DEF Becomes, d
<1>6. ASSUME NEW k \in DOMAIN b, b[k].loc = loc, b[k].val = v,
             \A j \in DOMAIN b : j > k => b[j].loc # loc
      PROVE  Becomes(m, d, loc, v)
  <2>1. \A j \in DOMAIN d : j > k => d[j].loc # loc
    BY <1>2, <1>3, <1>4, <1>6
  <2> QED BY <1>3, <1>6, <2>1 DEF Becomes
<1> QED BY <1>5, <1>6, SMTT(90) DEF Becomes, d

\* The last store made to a location decides what it is going to be.
LEMMA MakingDecides ==
    ASSUME NEW m, NEW b \in Seq(Stores), NEW c \in Seq(Stores), NEW i \in DOMAIN c,
           \A j \in DOMAIN c : j > i => c[j].loc # c[i].loc
    PROVE  Becomes(m, b \o c, c[i].loc, c[i].val)
<1>1. /\ Len(b) \in Nat /\ DOMAIN b = 1 .. Len(b) /\ Len(c) \in Nat /\ DOMAIN c = 1 .. Len(c)
      /\ DOMAIN (b \o c) = 1 .. Len(b) + Len(c)
      /\ \A j \in 1 .. Len(b) + Len(c) :
            (b \o c)[j] = IF j <= Len(b) THEN b[j] ELSE c[j - Len(b)]
  BY ConcatProperties
<1> DEFINE d == b \o c
<1> HIDE DEF d
<1>2. Len(b) + i \in DOMAIN d /\ d[Len(b) + i] = c[i]
  BY <1>1 DEF d
<1>3. \A j \in DOMAIN d : j > Len(b) + i => d[j].loc # c[i].loc
  BY <1>1 DEF d
<1> QED BY <1>2, <1>3 DEF Becomes, d

----------------------------------------------------------------------------
(* What the invariant says of a state. *)

\* Arithmetic of Shapes.
LEMMA Fits ==
    ASSUME NEW a \in Nat, NEW b \in Nat, NEW c \in Nat, NEW k \in Nat, a + b + c <= k
    PROVE  a + b \in 0 .. k /\ a + b + c \in 0 .. k
OBVIOUS

\* A visible position lies before the next one to be written.
LEMMA Below ==
    ASSUME NEW a \in Nat, NEW b \in Nat, NEW c \in Nat, NEW v \in 0 .. b, NEW j \in 0 .. v - 1
    PROVE  a + j \in 0 .. (a + b + c) - 1
OBVIOUS

\* The lengths the invariant speaks of are naturals that fit the ring.
LEMMA Shapes ==
    ASSUME RingTypeOK, Counts
    PROVE  /\ Unlanded \in Seq(Stores) /\ Len(Unlanded) \in Nat
           /\ DOMAIN Unlanded = 1 .. Len(Unlanded)
           /\ buf["consumer"] \in Seq(Stores) /\ Returned \in Nat
           /\ DOMAIN buf["consumer"] = 1 .. Returned
           /\ Len(sent) \in Nat /\ Len(got) \in Nat /\ Waiting \in Nat
           /\ Len(prod.staged) \in Nat
           /\ Returned + Waiting \in 0 .. Capacity
           /\ Returned + Waiting + Len(prod.staged) \in 0 .. Capacity
<1>1. Unlanded \in Seq(Stores) /\ buf["consumer"] \in Seq(Stores) /\ prod.staged \in Seq(Nat)
  BY DEF RingTypeOK, Unlanded, Cores
<1>2. Len(sent) \in Nat /\ Len(got) \in Nat
  BY DEF RingTypeOK
<1>3. Len(Unlanded) \in Nat /\ Returned \in Nat /\ Len(prod.staged) \in Nat
  BY <1>1 DEF Returned
<1>4. DOMAIN Unlanded = 1 .. Len(Unlanded) /\ DOMAIN buf["consumer"] = 1 .. Returned
  BY <1>1 DEF Returned
<1>5. Waiting \in Nat
  BY <1>2 DEF Waiting, Counts
<1>6. Returned + Waiting + Len(prod.staged) <= Capacity
  BY DEF Counts
<1>7. /\ Returned + Waiting \in 0 .. Capacity
      /\ Returned + Waiting + Len(prod.staged) \in 0 .. Capacity
  BY <1>3, <1>5, <1>6, Constants, Fits, Zenon
<1> QED BY <1>1, <1>2, <1>3, <1>4, <1>5, <1>7, Zenon

\* Positions past the shared tail: their cursors, distances and slots.
LEMMA Positions ==
    ASSUME mem[TAIL] \in Cursors
    PROVE  /\ \A n \in 0 .. Capacity : At(n) \in Cursors /\ At(n) \in Nat /\ Slot(n) \in Slots
           /\ At(0) = mem[TAIL]
           /\ \A n \in 0 .. Capacity : WrappingSub(At(n), mem[TAIL]) = n
           /\ \A n, m \in Nat : n + m <= Capacity => WrappingAdd(At(n), m) = At(n + m)
           /\ \A a, b \in 0 .. Capacity - 1 : Slot(a) = Slot(b) => a = b
<1>1. ASSUME NEW n \in 0 .. Capacity
      PROVE  /\ At(n) \in Cursors /\ At(n) \in Nat /\ Slot(n) \in Slots
             /\ WrappingSub(At(n), mem[TAIL]) = n
  <2>1. At(n) \in Cursors /\ WrappingSub(At(n), mem[TAIL]) = n
    BY Ahead DEF At
  <2>2. At(n) \in Nat
    BY <2>1, Constants DEF Cursors
  <2> QED BY <2>1, <2>2, SlotIsSlot DEF Slot
<1>2. At(0) = mem[TAIL]
  <2>1. 0 \in 0 .. Capacity /\ mem[TAIL] \in Nat /\ mem[TAIL] < CursorModulus
    BY Constants DEF Cursors
  <2>2. At(0) = IF mem[TAIL] + 0 < CursorModulus THEN mem[TAIL] + 0
                ELSE mem[TAIL] + 0 - CursorModulus
    BY <2>1, Ahead DEF At
  <2> QED BY <2>1, <2>2, Constants
<1>3. ASSUME NEW n \in Nat, NEW m \in Nat, n + m <= Capacity
      PROVE  WrappingAdd(At(n), m) = At(n + m)
  BY <1>3, AheadAgain DEF At
<1>4. ASSUME NEW a \in 0 .. Capacity - 1, NEW b \in 0 .. Capacity - 1, Slot(a) = Slot(b)
      PROVE  a = b
  BY <1>4, SlotsDiffer DEF Slot, At
<1> QED BY <1>1, <1>2, <1>3, <1>4

\* What each end believes the cursors to be.
LEMMA Views ==
    ASSUME RingTypeOK, Counts, Tails, Heads
    PROVE  /\ View("producer", HEAD) = At(Returned + Waiting)
           /\ View("consumer", TAIL) = At(Returned)
<1> DEFINE p == {i \in DOMAIN buf["producer"] : buf["producer"][i].loc = HEAD}
           c == {i \in DOMAIN buf["consumer"] : buf["consumer"][i].loc = TAIL}
<1>1. View("producer", HEAD) = At(Returned + Waiting)
  <2>1. CASE p = {}
    <3>1. mem[HEAD] = At(Returned + Waiting)
      <4>1. ASSUME prod.pc = "fence", Unlanded # <<>> PROVE FALSE
        <5>1. Len(Unlanded) \in DOMAIN Unlanded
          BY <4>1, Shapes, EmptySeq
        <5> QED BY <2>1, <4>1, <5>1 DEF Heads, Unlanded
      <4> QED BY <4>1 DEF Heads
    <3> QED BY <2>1, <3>1 DEF View
  <2>2. ASSUME NEW i \in p PROVE View("producer", HEAD) = At(Returned + Waiting)
    <3>1. p = {i} /\ buf["producer"][i].val = At(Returned + Waiting)
      BY DEF Heads, Unlanded
    <3>2. i \in Nat
      BY Shapes DEF Unlanded
    <3>3. (CHOOSE k \in p : \A j \in p : j <= k) = i
      BY <3>1, <3>2
    <3> QED BY <3>1, <3>3, Zenon DEF View
  <2> QED BY <2>1, <2>2
<1>2. View("consumer", TAIL) = At(Returned)
  <2>1. c = 1 .. Returned /\ Returned \in Nat
    BY Shapes DEF Tails
  <2>2. CASE Returned = 0
    <3>1. c = {}
      BY <2>1, <2>2
    <3>2. At(0) = mem[TAIL]
      BY Positions DEF RingTypeOK
    <3> QED BY <2>2, <3>1, <3>2 DEF View
  <2>3. CASE Returned > 0
    <3>1. Returned \in c /\ \A j \in c : j <= Returned
      BY <2>1, <2>3
    <3>2. \A k \in c : (\A j \in c : j <= k) => k = Returned
      BY <2>1, <3>1
    <3>3. (CHOOSE k \in c : \A j \in c : j <= k) = Returned
      BY <3>1, <3>2
    <3>4. buf["consumer"][Returned].val = At(Returned)
      BY <3>1 DEF Tails
    <3> QED BY <3>1, <3>3, <3>4, Zenon DEF View
  <2> QED BY <2>1, <2>2, <2>3
<1> QED BY <1>1, <1>2

----------------------------------------------------------------------------
(* The steps. *)

\* A step that moves no store and no entry.
LEMMA StillRing ==
    ASSUME UNCHANGED <<mem, buf, sent, got>>
    PROVE  /\ Unlanded' = Unlanded /\ Returned' = Returned /\ Waiting' = Waiting
           /\ \A n : At(n)' = At(n)
           /\ \A n : Slot(n)' = Slot(n)
           /\ \A l, e : Lies(l, e)' <=> Lies(l, e)
           /\ \A l : Settled(l)' <=> Settled(l)
           /\ Tails' <=> Tails
BY DEF Unlanded, Returned, Waiting, At, Slot, Lies, WillBe, Becomes, Settled, Tails

\* Both cursors start at the same place and nothing is under way.
LEMMA InitInv ==
    ASSUME Init
    PROVE  RingInv
<1>1. PICK start \in Cursors : mem = [l \in Locations |-> IF l \in {HEAD, TAIL} THEN start ELSE 0]
  BY DEF Init
<1>2. mem[HEAD] = start /\ mem[TAIL] = start
  BY <1>1 DEF Locations
<1>3. buf["producer"] = <<>> /\ buf["consumer"] = <<>>
  BY DEF Init, Cores
<1>4. RingTypeOK
  <2>1. mem \in [Locations -> Nat]
    BY <1>1, Constants DEF Cursors
  <2>2. buf \in [Cores -> Seq(Stores)]
    BY EmptySeq DEF Init
  <2>3. /\ prod \in [pc : {"idle", "batch", "fence"}, base : Nat, staged : Seq(Nat)]
        /\ cons \in [pc : {"idle", "index", "entry"}, head : Nat, slot : Nat]
        /\ issued \in Nat /\ sent \in Seq(Nat) /\ got \in Seq(Nat)
    BY EmptySeq DEF Init
  <2> QED BY <1>2, <2>1, <2>2, <2>3 DEF RingTypeOK
<1>5. Len(sent) = 0 /\ Len(got) = 0 /\ Returned = 0 /\ Waiting = 0 /\ Len(prod.staged) = 0
  BY <1>3 DEF Init, Returned, Waiting
<1>6. At(0) = mem[TAIL]
  BY <1>2, Positions
<1>7. Counts
  BY <1>5, Constants DEF Counts, Init
<1>8. Tails
  BY <1>3 DEF Tails
<1>9. Heads
  BY <1>2, <1>3, <1>5, <1>6 DEF Heads, Unlanded, Init
<1>10. Visible(0)
  BY <1>2, <1>5, <1>6 DEF Visible, Init
<1>11. Contents
  BY <1>5 DEF Contents
<1> QED BY <1>4, <1>5, <1>7, <1>8, <1>9, <1>10, <1>11 DEF RingInv, Init

\* Producer::batch keeps the invariant: its base is the head it published.
LEMMA BeginBatchInv ==
    ASSUME RingInv, BeginBatch
    PROVE  RingInv'
<1> USE StillRing DEF BeginBatch
<1>1. View("producer", HEAD) = At(Returned + Waiting) /\ At(Returned + Waiting) \in Nat
  <2>1. Returned + Waiting \in 0 .. Capacity
    BY Shapes DEF RingInv
  <2> QED BY <2>1, Views, Positions DEF RingInv, RingTypeOK
<1>2. prod' = [pc |-> "batch", base |-> At(Returned + Waiting), staged |-> <<>>]
  BY <1>1
<1>3. RingTypeOK'
  BY <1>1, <1>2, EmptySeq DEF RingInv, RingTypeOK
<1>4. Counts'
  <2>1. Returned + Waiting <= Capacity /\ Returned + Waiting \in Nat
    BY Shapes DEF RingInv
  <2> QED BY <1>2, <2>1, EmptySeq DEF RingInv, Counts
<1>5. Heads'
  BY <1>2 DEF RingInv, Heads
<1>6. \E v \in 0 .. Waiting' : Visible(v)'
  BY DEF RingInv, Visible
<1>7. Contents'
  BY <1>2, EmptySeq DEF RingInv, Contents
<1> QED BY <1>3, <1>4, <1>5, <1>6, <1>7 DEF RingInv

\* A batch dropped unpublished keeps it: its stores lie behind the head.
LEMMA DropBatchInv ==
    ASSUME RingInv, DropBatch
    PROVE  RingInv'
<1> USE StillRing DEF DropBatch
<1>1. prod' = [pc |-> "idle", base |-> prod.base, staged |-> <<>>]
  BY Zenon DEF RingInv, RingTypeOK
<1>2. RingTypeOK'
  BY <1>1, EmptySeq, ZenonT(90) DEF RingInv, RingTypeOK
<1>3. Counts'
  <2>1. Returned + Waiting <= Capacity /\ Returned + Waiting \in Nat
    BY Shapes DEF RingInv
  <2> QED BY <1>1, <2>1, EmptySeq DEF RingInv, Counts
<1>4. Heads'
  BY <1>1 DEF RingInv, Heads
<1>5. \E v \in 0 .. Waiting' : Visible(v)'
  BY DEF RingInv, Visible
<1>6. Contents'
  BY <1>1, EmptySeq DEF RingInv, Contents
<1> QED BY <1>2, <1>3, <1>4, <1>5, <1>6 DEF RingInv

\* The fence keeps it: with nothing unlanded the shared head is the head.
LEMMA FenceInv ==
    ASSUME RingInv, Fence
    PROVE  RingInv'
<1> USE StillRing DEF Fence
<1>1. prod' = [pc |-> "idle", base |-> prod.base, staged |-> prod.staged] /\ prod.staged = <<>>
  BY Zenon DEF RingInv, RingTypeOK, Counts
<1>2. RingTypeOK'
  BY <1>1, SMTT(90) DEF RingInv, RingTypeOK
<1>3. Counts'
  BY <1>1 DEF RingInv, Counts
<1>4. Heads'
  BY <1>1 DEF RingInv, Heads, Unlanded
<1>5. \E v \in 0 .. Waiting' : Visible(v)'
  BY DEF RingInv, Visible
<1>6. Contents'
  BY <1>1 DEF RingInv, Contents
<1> QED BY <1>2, <1>3, <1>4, <1>5, <1>6 DEF RingInv

\* The two stores of a stage, and the head store that may follow them: the
\* entry will be in its slot, and no other slot hears of them.
LEMMA StagesLie ==
    ASSUME NEW m, NEW b \in Seq(Stores), NEW c \in Seq(Stores), NEW s, NEW e,
           1 \in DOMAIN c, 2 \in DOMAIN c,
           c[1].loc = EntryAt(s), c[1].val = e, c[2].loc = IndexAt(s), c[2].val = s,
           \A i \in DOMAIN c : i > 2 => c[i].loc = HEAD
    PROVE  /\ Becomes(m, b \o c, EntryAt(s), e) /\ Becomes(m, b \o c, IndexAt(s), s)
           /\ \A t : t # s =>
                 /\ \A x : Becomes(m, b, EntryAt(t), x) => Becomes(m, b \o c, EntryAt(t), x)
                 /\ \A x : Becomes(m, b, IndexAt(t), x) => Becomes(m, b \o c, IndexAt(t), x)
                 /\ \A i \in DOMAIN c : c[i].loc \notin {EntryAt(t), IndexAt(t)}
<1>1. \A i \in DOMAIN c : i \in Nat /\ (i > 2 \/ i = 2 \/ i = 1)
  <2>1. DOMAIN c = 1 .. Len(c) /\ Len(c) \in Nat
    OBVIOUS
  <2> QED BY <2>1
<1>2. \A i \in DOMAIN c : c[i].loc \in {EntryAt(s), IndexAt(s), HEAD}
  BY <1>1
<1>3. \A t : EntryAt(t) # HEAD /\ IndexAt(t) # HEAD
             /\ \A u : /\ EntryAt(t) # IndexAt(u)
                       /\ t # u => EntryAt(t) # EntryAt(u) /\ IndexAt(t) # IndexAt(u)
  BY DEF EntryAt, IndexAt, HEAD
<1>4. Becomes(m, b \o c, EntryAt(s), e)
  <2>1. \A j \in DOMAIN c : j > 1 => c[j].loc # c[1].loc
    BY <1>1, <1>3
  <2> QED BY <2>1, MakingDecides, Zenon
<1>5. Becomes(m, b \o c, IndexAt(s), s)
  <2>1. \A j \in DOMAIN c : j > 2 => c[j].loc # c[2].loc
    BY <1>1, <1>3
  <2> QED BY <2>1, MakingDecides, Zenon
<1>6. ASSUME NEW t, t # s
      PROVE  /\ \A x : Becomes(m, b, EntryAt(t), x) => Becomes(m, b \o c, EntryAt(t), x)
             /\ \A x : Becomes(m, b, IndexAt(t), x) => Becomes(m, b \o c, IndexAt(t), x)
             /\ \A i \in DOMAIN c : c[i].loc \notin {EntryAt(t), IndexAt(t)}
  <2>1. \A i \in DOMAIN c : c[i].loc \notin {EntryAt(t), IndexAt(t)}
    BY <1>2, <1>3, <1>6
  <2>2. \A x : Becomes(m, b, EntryAt(t), x) => Becomes(m, b \o c, EntryAt(t), x)
    BY <2>1, MakingKeeps
  <2>3. \A x : Becomes(m, b, IndexAt(t), x) => Becomes(m, b \o c, IndexAt(t), x)
    BY <2>1, MakingKeeps
  <2> QED BY <2>1, <2>2, <2>3
<1> QED BY <1>4, <1>5, <1>6

\* Stores made, seen from the invariant.
LEMMA Concatenated ==
    ASSUME NEW b \in Seq(Stores), NEW c \in Seq(Stores)
    PROVE  /\ b \o c \in Seq(Stores) /\ Len(b \o c) = Len(b) + Len(c)
           /\ \A i \in DOMAIN (b \o c) :
                 \/ i \in DOMAIN b /\ (b \o c)[i] = b[i]
                 \/ i - Len(b) \in DOMAIN c /\ (b \o c)[i] = c[i - Len(b)]
<1>1. /\ Len(b) \in Nat /\ DOMAIN b = 1 .. Len(b) /\ Len(c) \in Nat /\ DOMAIN c = 1 .. Len(c)
      /\ b \o c \in Seq(Stores) /\ Len(b \o c) = Len(b) + Len(c)
      /\ DOMAIN (b \o c) = 1 .. Len(b) + Len(c)
      /\ \A j \in 1 .. Len(b) + Len(c) :
            (b \o c)[j] = IF j <= Len(b) THEN b[j] ELSE c[j - Len(b)]
  BY ConcatProperties
<1> DEFINE d == b \o c
<1> HIDE DEF d
<1>2. ASSUME NEW i \in DOMAIN d
      PROVE  \/ i \in DOMAIN b /\ d[i] = b[i]
             \/ i - Len(b) \in DOMAIN c /\ d[i] = c[i - Len(b)]
  BY <1>1 DEF d
<1> QED BY <1>1, <1>2 DEF d

\* A stage into the next free slot: the waiting and the staged entries, and
\* the visible ones, are left as they were.
LEMMA StagingRing ==
    ASSUME RingInv, UNCHANGED <<mem, got, cons>>, buf'["consumer"] = buf["consumer"],
           NEW n \in 0 .. Capacity - 1, n = Returned + Waiting + Len(prod.staged),
           NEW e, NEW c \in Seq(Stores), Unlanded' = Unlanded \o c,
           1 \in DOMAIN c, 2 \in DOMAIN c,
           c[1].loc = EntryAt(Slot(n)), c[1].val = e,
           c[2].loc = IndexAt(Slot(n)), c[2].val = Slot(n),
           \A i \in DOMAIN c : i > 2 => c[i].loc = HEAD
    PROVE  /\ Returned' = Returned
           /\ \A k : At(k)' = At(k)
           /\ \A k : Slot(k)' = Slot(k)
           /\ Tails'
           /\ Lies(Slot(n), e)'
           /\ \A k \in 0 .. n - 1 :
                 /\ \A x : Lies(Slot(k), x) => Lies(Slot(k), x)'
                 /\ Settled(Slot(k)) => Settled(Slot(k))'
           /\ \E v \in 0 .. Waiting : Visible(v)'
<1>1. /\ Returned' = Returned
      /\ \A k : At(k)' = At(k)
      /\ \A k : Slot(k)' = Slot(k)
  BY DEF Returned, At, Slot
<1>2. Tails'
  BY <1>1 DEF Tails, RingInv
<1>3. Unlanded \in Seq(Stores)
  BY Shapes DEF RingInv
<1>4. Lies(Slot(n), e)'
  <2>1. /\ Becomes(mem, Unlanded \o c, EntryAt(Slot(n)), e)
        /\ Becomes(mem, Unlanded \o c, IndexAt(Slot(n)), Slot(n))
    BY <1>3, StagesLie, Zenon
  <2> QED BY <1>1, <2>1 DEF Lies, WillBe
<1>5. ASSUME NEW k \in 0 .. n - 1
      PROVE  /\ \A x : Lies(Slot(k), x) => Lies(Slot(k), x)'
             /\ Settled(Slot(k)) => Settled(Slot(k))'
  <2>1. Slot(k) # Slot(n)
    <3>1. k \in 0 .. Capacity - 1 /\ n \in 0 .. Capacity - 1 /\ k # n
      BY Constants
    <3> QED BY <3>1, Positions DEF RingInv, RingTypeOK
  <2> DEFINE s == Slot(k)
  <2>2. s' = s
    BY <1>1
  <2>3. /\ \A x : Becomes(mem, Unlanded, EntryAt(s), x) => Becomes(mem, Unlanded \o c, EntryAt(s), x)
        /\ \A x : Becomes(mem, Unlanded, IndexAt(s), x) => Becomes(mem, Unlanded \o c, IndexAt(s), x)
        /\ \A i \in DOMAIN c : c[i].loc \notin {EntryAt(s), IndexAt(s)}
    BY <1>3, <2>1, StagesLie, Zenon
  <2>4. \A x : Lies(s, x) => Lies(s, x)'
    BY <2>2, <2>3 DEF Lies, WillBe
  <2>5. Settled(s) => Settled(s)'
    BY <2>2, <2>3, <1>3, Concatenated DEF Settled
  <2> QED BY <2>4, <2>5
<1>6. PICK v \in 0 .. Waiting : Visible(v)
  BY DEF RingInv
<1>7. Visible(v)'
  <2>1. ASSUME NEW j \in 0 .. v - 1 PROVE Settled(Slot(Returned + j))'
    <3>1. PICK k \in 0 .. n - 1 : k = Returned + j
      <4>1. Returned \in Nat /\ Waiting \in Nat /\ Len(prod.staged) \in Nat
        BY Shapes DEF RingInv
      <4> QED BY <4>1, Below, Zenon
    <3>2. Settled(Slot(k))'
      BY <3>1, <1>5, <1>6 DEF Visible
    <3> QED BY <3>1, <3>2, <1>1
  <2> QED BY <1>1, <1>6, <2>1 DEF Visible
<1> QED BY <1>1, <1>2, <1>4, <1>5, <1>6, <1>7

\* A sequence of two stores.
LEMMA TwoStores ==
    ASSUME NEW S, NEW x \in S, NEW y \in S
    PROVE  /\ <<x, y>> \in Seq(S) /\ Len(<<x, y>>) = 2 /\ DOMAIN <<x, y>> = 1 .. 2
           /\ <<x, y>>[1] = x /\ <<x, y>>[2] = y
OBVIOUS

\* A sequence of three stores, made as Submit makes it.
LEMMA ThreeStores ==
    ASSUME NEW S, NEW x \in S, NEW y \in S, NEW z \in S
    PROVE  /\ <<x, y>> \o <<z>> \in Seq(S) /\ Len(<<x, y>> \o <<z>>) = 3
           /\ DOMAIN (<<x, y>> \o <<z>>) = 1 .. 3
           /\ (<<x, y>> \o <<z>>)[1] = x /\ (<<x, y>> \o <<z>>)[2] = y /\ (<<x, y>> \o <<z>>)[3] = z
<1>1. <<z>> \in Seq(S) /\ Len(<<z>>) = 1 /\ <<z>>[1] = z
  OBVIOUS
<1>2. /\ <<x, y>> \o <<z>> \in Seq(S) /\ Len(<<x, y>> \o <<z>>) = 2 + 1
      /\ \A i \in 1 .. 2 + 1 :
            (<<x, y>> \o <<z>>)[i] = IF i <= 2 THEN <<x, y>>[i] ELSE <<z>>[i - 2]
  BY <1>1, TwoStores, ConcatProperties
<1> DEFINE t == <<x, y>> \o <<z>>
<1> HIDE DEF t
<1>3. t \in Seq(S) /\ Len(t) = 3 /\ t[1] = <<x, y>>[1] /\ t[2] = <<x, y>>[2] /\ t[3] = <<z>>[1]
  BY <1>2 DEF t
<1>4. DOMAIN t = 1 .. 3
  BY <1>3
<1> QED BY <1>1, <1>3, <1>4, TwoStores DEF t

\* Producer::submit keeps the invariant: one more entry waits.
LEMMA SubmitInv ==
    ASSUME RingInv, Submit
    PROVE  RingInv'
<1>1. /\ Returned \in Nat /\ Waiting \in Nat /\ Returned + Waiting \in 0 .. Capacity
      /\ Unlanded \in Seq(Stores)
      /\ Len(sent) \in Nat /\ Len(got) \in Nat /\ issued \in Nat
  BY Shapes DEF RingInv, RingTypeOK
<1>2. PICK n \in 0 .. Capacity, e \in Nat : n = Returned + Waiting /\ e = issued + 1
  BY <1>1
<1>3. View("producer", HEAD) = At(n) /\ At(n) \in Nat /\ Slot(n) \in Slots
  BY <1>2, Views, Positions DEF RingInv, RingTypeOK
<1>4. n < Capacity
  <2>1. WrappingSub(At(n), mem[TAIL]) < Capacity
    BY <1>3 DEF Submit, HasRoom, Used
  <2>2. WrappingSub(At(n), mem[TAIL]) = n
    BY Positions DEF RingInv, RingTypeOK
  <2> QED BY <2>1, <2>2
<1>5. n \in 0 .. Capacity - 1 /\ n + 1 \in 0 .. Capacity
  BY <1>4, Constants
<1>6. PICK s \in Slots, h \in Nat : s = Slot(n) /\ h = At(n + 1)
  BY <1>3, <1>5, Positions DEF RingInv, RingTypeOK
<1>7. WrappingAdd(View("producer", HEAD), 1) = h
  <2>1. n \in Nat /\ 1 \in Nat /\ n + 1 <= Capacity
    BY <1>5, Constants
  <2> QED BY <2>1, <1>3, <1>6, Positions DEF RingInv, RingTypeOK
<1>8. prod.pc = "idle" /\ prod.staged = <<>> /\ Len(prod.staged) = 0
  BY EmptySeq DEF Submit, RingInv, Counts
<1> DEFINE x == Relaxed(EntryAt(s), e)
           y == Relaxed(IndexAt(s), s)
           z == Release(HEAD, h)
           c == <<x, y>> \o <<z>>
<1>9. x \in Stores /\ y \in Stores /\ z \in Stores
  BY Constants DEF Relaxed, Release, Stores, Locations, Slots
<1>10. /\ x.loc = EntryAt(s) /\ x.val = e /\ y.loc = IndexAt(s) /\ y.val = s
       /\ z.loc = HEAD /\ z.val = h /\ z.release
  BY DEF Relaxed, Release
<1>11. /\ Unlanded' = Unlanded \o <<x, y>> \o <<z>>
       /\ buf' \in [Cores -> Seq(Stores)] /\ buf'["consumer"] = buf["consumer"]
  <2>1. Stage(View("producer", HEAD), issued') = <<x, y>>
    BY <1>2, <1>3, <1>6 DEF Stage, Slot, Submit
  <2>2. buf' = [buf EXCEPT !["producer"] = @ \o <<x, y>> \o <<z>>]
    BY <2>1, <1>7, Zenon DEF Submit
  <2> HIDE DEF x, y, z
  <2>3. buf["producer"] \o <<x, y>> \o <<z>> \in Seq(Stores)
    BY <1>1, <1>9, TwoStores, ConcatProperties DEF Unlanded
  <2> QED BY <2>2, <2>3, SMTT(90) DEF RingInv, RingTypeOK, Unlanded, Cores
<1> HIDE DEF x, y, z
<1>12. /\ c \in Seq(Stores) /\ Len(c) = 3 /\ DOMAIN c = 1 .. 3
       /\ c[1] = x /\ c[2] = y /\ c[3] = z
  BY <1>9, ThreeStores
<1>13. Unlanded' = Unlanded \o c
  BY <1>1, <1>9, <1>11, TwoStores, ConcatAssociative, SMTT(90)
<1> HIDE DEF c
<1>14. /\ Returned' = Returned
       /\ \A k : At(k)' = At(k)
       /\ \A k : Slot(k)' = Slot(k)
       /\ Tails'
       /\ Lies(Slot(n), e)'
       /\ \A k \in 0 .. n - 1 : \A u : Lies(Slot(k), u) => Lies(Slot(k), u)'
       /\ \E v \in 0 .. Waiting : Visible(v)'
  <2>1. n = Returned + Waiting + Len(prod.staged)
    BY <1>1, <1>2, <1>8
  <2>2. /\ 1 \in DOMAIN c /\ 2 \in DOMAIN c
        /\ \A i \in DOMAIN c : i > 2 => c[i].loc = HEAD
    BY <1>10, <1>12
  <2>3. /\ c[1].loc = EntryAt(Slot(n)) /\ c[1].val = e
        /\ c[2].loc = IndexAt(Slot(n)) /\ c[2].val = Slot(n)
    BY <1>6, <1>10, <1>12
  <2>4. UNCHANGED <<mem, got, cons>>
    BY DEF Submit
  <2> QED BY <1>5, <1>11, <1>12, <1>13, <2>1, <2>2, <2>3, <2>4, StagingRing, Zenon
<1>15. /\ sent' = Append(sent, e) /\ got' = got /\ mem' = mem /\ cons' = cons /\ issued' = e
       /\ prod' = [pc |-> "fence", base |-> prod.base, staged |-> <<>>]
  BY <1>2, <1>8, Zenon DEF Submit, RingInv, RingTypeOK
<1>16. /\ sent' \in Seq(Nat) /\ Len(sent') = Len(sent) + 1 /\ sent'[Len(sent) + 1] = e
       /\ \A i \in 1 .. Len(sent) : sent'[i] = sent[i]
  BY <1>15, AppendProperties DEF RingInv, RingTypeOK
<1>17. Waiting' = Waiting + 1 /\ Returned' + Waiting' = n + 1
  BY <1>1, <1>2, <1>14, <1>15, <1>16 DEF Waiting
<1>18. RingTypeOK'
  BY <1>11, <1>15, <1>16, EmptySeq DEF RingInv, RingTypeOK
<1>19. Counts'
  <2>1. prod'.staged = <<>> /\ Len(prod'.staged) = 0
    BY <1>15, EmptySeq
  <2>2. Len(got') <= Len(sent')
    BY <1>1, <1>15, <1>16 DEF RingInv, Counts
  <2>3. Returned' + Waiting' + Len(prod'.staged) <= Capacity
    BY <2>1, <1>5, <1>17
  <2> QED BY <2>1, <2>2, <2>3 DEF Counts
<1>20. Heads'
  <2>1. /\ Unlanded' \in Seq(Stores) /\ Len(Unlanded') = Len(Unlanded) + 3
        /\ Len(Unlanded) \in Nat
        /\ \A i \in DOMAIN Unlanded' :
              \/ i \in DOMAIN Unlanded /\ Unlanded'[i] = Unlanded[i]
              \/ i - Len(Unlanded) \in DOMAIN c /\ Unlanded'[i] = c[i - Len(Unlanded)]
    <3>1. /\ Unlanded' \in Seq(Stores) /\ Len(Unlanded') = Len(Unlanded) + Len(c)
          /\ \A i \in DOMAIN Unlanded' :
                \/ i \in DOMAIN Unlanded /\ Unlanded'[i] = Unlanded[i]
                \/ i - Len(Unlanded) \in DOMAIN c /\ Unlanded'[i] = c[i - Len(Unlanded)]
      BY <1>1, <1>12, <1>13, Concatenated, Zenon
    <3>2. Len(Unlanded) \in Nat
      BY <1>1
    <3> QED BY <3>1, <3>2, <1>12, Zenon
  <2>2. Len(Unlanded') \in DOMAIN Unlanded' /\ Unlanded'[Len(Unlanded')] = z
    <3>1. Len(Unlanded') \in DOMAIN Unlanded' /\ Len(Unlanded') \notin DOMAIN Unlanded
      BY <2>1, <1>1
    <3>2. Len(Unlanded') - Len(Unlanded) = 3
      BY <2>1
    <3> QED BY <3>1, <3>2, <2>1, <1>12
  <2>3. ASSUME NEW i \in DOMAIN Unlanded'
        PROVE  /\ Unlanded'[i].loc # TAIL
               /\ Unlanded'[i].loc = HEAD => i = Len(Unlanded')
    <3>1. CASE i \in DOMAIN Unlanded /\ Unlanded'[i] = Unlanded[i]
      BY <3>1, <1>8 DEF RingInv, Heads
    <3>2. CASE i - Len(Unlanded) \in DOMAIN c /\ Unlanded'[i] = c[i - Len(Unlanded)]
      <4>1. /\ EntryAt(s) # TAIL /\ IndexAt(s) # TAIL /\ HEAD # TAIL
            /\ EntryAt(s) # HEAD /\ IndexAt(s) # HEAD
        BY DEF EntryAt, IndexAt, HEAD, TAIL
      <4>2. i \in Nat
        BY <2>1
      <4>3. i - Len(Unlanded) \in {1, 2, 3}
        BY <3>2, <4>2, <2>1, <1>12
      <4>4. i - Len(Unlanded) = 3 => i = Len(Unlanded')
        BY <4>2, <2>1
      <4> QED BY <3>2, <4>1, <4>3, <4>4, <1>10, <1>12
    <3> QED BY <2>1, <3>1, <3>2
  <2>4. At(Returned + Waiting)' = h
    BY <1>6, <1>14, <1>17
  <2>5. Unlanded' # <<>>
    BY <2>1, <2>2, EmptySeq
  <2> QED BY <2>2, <2>3, <2>4, <2>5, <1>10, <1>15 DEF Heads
<1>21. \E v \in 0 .. Waiting' : Visible(v)'
  BY <1>1, <1>14, <1>17
<1>22. Contents'
  <2>1. ASSUME NEW j \in 0 .. Waiting' - 1
        PROVE  Lies(Slot(Returned + j), sent[Len(got) + 1 + j])'
    <3>1. CASE j = Waiting
      <4>1. Returned' + j = n /\ Len(got') + 1 + j = Len(sent) + 1
        BY <3>1, <1>1, <1>2, <1>14, <1>15 DEF Waiting
      <4> QED BY <4>1, <1>14, <1>16
    <3>2. CASE j \in 0 .. Waiting - 1
      <4>1. PICK k \in 0 .. n - 1, i \in 1 .. Len(sent), u \in {sent[Len(got) + 1 + j]} :
                k = Returned + j /\ i = Len(got) + 1 + j
        <5>1. Returned + j \in 0 .. n - 1
          BY <3>2, <1>1, <1>2
        <5>2. Len(got) + 1 + j \in 1 .. Len(sent)
          BY <3>2, <1>1 DEF Waiting
        <5> QED BY <5>1, <5>2
      <4>2. Lies(Slot(k), u)
        BY <3>2, <4>1 DEF RingInv, Contents
      <4>3. Lies(Slot(k), u)'
        BY <4>2, <1>14
      <4>4. Returned' + j = k /\ Len(got') + 1 + j = i /\ sent'[i] = u
        BY <4>1, <1>14, <1>15, <1>16
      <4> QED BY <4>3, <4>4
    <3> QED BY <3>1, <3>2, <1>1, <1>17
  <2>2. \A j \in 0 .. Len(prod'.staged) - 1 : FALSE
    BY <1>15, EmptySeq
  <2> QED BY <2>1, <2>2 DEF Contents
<1>23. (cons.pc = "entry" => cons.slot = Slot(Returned))'
  BY <1>14, <1>15 DEF RingInv
<1> QED BY <1>14, <1>18, <1>19, <1>20, <1>21, <1>22, <1>23 DEF RingInv

\* Where a batch writes next.
LEMMA NextIs ==
    ASSUME RingInv, prod.pc = "batch"
    PROVE  \E r \in Nat, w \in Nat, t \in Nat, n \in 0 .. Capacity :
              /\ r = Returned /\ w = Waiting /\ t = Len(prod.staged) /\ n = r + w + t
              /\ NextPosition = At(n)
<1>1. Returned \in Nat /\ Waiting \in Nat /\ Len(prod.staged) \in Nat
  BY Shapes DEF RingInv
<1>2. PICK r \in Nat, w \in Nat, t \in Nat :
          r = Returned /\ w = Waiting /\ t = Len(prod.staged) /\ r + w + t <= Capacity
  BY <1>1, Zenon DEF RingInv, Counts
<1>3. r + w + t <= Capacity
  BY <1>2, Zenon
<1>4. r + w + t \in 0 .. Capacity
  BY <1>3, Constants, Fits
<1>5. prod.base = At(Returned + Waiting)
  BY DEF RingInv, Heads
<1>6. NextPosition = WrappingAdd(At(r + w), t)
  BY <1>2, <1>5 DEF NextPosition
<1>7. WrappingAdd(At(r + w), t) = At((r + w) + t)
  <2>1. r + w \in Nat /\ (r + w) + t <= Capacity
    BY <1>3
  <2> QED BY <2>1, Positions DEF RingInv, RingTypeOK
<1>8. NextPosition = At(r + w + t)
  BY <1>6, <1>7, Zenon
<1> QED BY <1>2, <1>4, <1>8, Zenon

\* Batch::push keeps it: one more entry is staged past the ones before it.
LEMMA PushInv ==
    ASSUME RingInv, Push
    PROVE  RingInv'
<1>1. /\ Returned \in Nat /\ Waiting \in Nat /\ Len(prod.staged) \in Nat
      /\ Returned + Waiting \in 0 .. Capacity
      /\ Returned + Waiting + Len(prod.staged) \in 0 .. Capacity
      /\ Unlanded \in Seq(Stores)
      /\ Len(sent) \in Nat /\ Len(got) \in Nat /\ issued \in Nat
  BY Shapes DEF RingInv, RingTypeOK
<1>2. PICK r \in Nat, w \in Nat, t \in Nat, n \in 0 .. Capacity, e \in Nat :
          /\ r = Returned /\ w = Waiting /\ t = Len(prod.staged) /\ n = r + w + t
          /\ e = issued + 1 /\ NextPosition = At(n)
  <2>1. issued + 1 \in Nat
    BY <1>1
  <2> QED BY <2>1, NextIs DEF Push
<1>3. At(n) \in Nat /\ Slot(n) \in Slots /\ n = r + w + t
  BY <1>2, Positions, Zenon DEF RingInv, RingTypeOK
<1>4. n < Capacity
  <2>1. WrappingSub(At(n), mem[TAIL]) < Capacity
    BY <1>2 DEF Push, HasRoom, Used
  <2>2. WrappingSub(At(n), mem[TAIL]) = n
    BY Positions DEF RingInv, RingTypeOK
  <2> QED BY <2>1, <2>2
<1>5. n \in 0 .. Capacity - 1 /\ n + 1 \in 0 .. Capacity
  BY <1>4, Constants
<1>6. PICK s \in Slots : s = Slot(n)
  BY <1>3
<1> DEFINE x == Relaxed(EntryAt(s), e)
           y == Relaxed(IndexAt(s), s)
           c == <<x, y>>
<1>7. x \in Stores /\ y \in Stores
  BY Constants DEF Relaxed, Stores, Locations, Slots
<1>8. x.loc = EntryAt(s) /\ x.val = e /\ y.loc = IndexAt(s) /\ y.val = s
  BY DEF Relaxed
<1>9. /\ Unlanded' = Unlanded \o c
      /\ buf' \in [Cores -> Seq(Stores)] /\ buf'["consumer"] = buf["consumer"]
  <2>1. Stage(NextPosition, issued') = c
    BY <1>2, <1>3, <1>6 DEF Stage, Slot, Push
  <2>2. buf' = [buf EXCEPT !["producer"] = @ \o c]
    BY <2>1, Zenon DEF Push
  <2> HIDE DEF x, y
  <2>3. buf["producer"] \o c \in Seq(Stores)
    BY <1>1, <1>7, TwoStores, ConcatProperties DEF Unlanded
  <2> QED BY <2>2, <2>3, SMTT(90) DEF RingInv, RingTypeOK, Unlanded, Cores
<1> HIDE DEF x, y
<1>10. /\ c \in Seq(Stores) /\ Len(c) = 2 /\ DOMAIN c = 1 .. 2
       /\ c[1] = x /\ c[2] = y
  BY <1>7, TwoStores
<1> HIDE DEF c
<1>11. /\ Returned' = Returned
       /\ \A k : At(k)' = At(k)
       /\ \A k : Slot(k)' = Slot(k)
       /\ Tails'
       /\ Lies(Slot(n), e)'
       /\ \A k \in 0 .. n - 1 : \A u : Lies(Slot(k), u) => Lies(Slot(k), u)'
       /\ \E v \in 0 .. Waiting : Visible(v)'
  <2>1. /\ 1 \in DOMAIN c /\ 2 \in DOMAIN c
        /\ \A i \in DOMAIN c : i > 2 => c[i].loc = HEAD
    BY <1>10
  <2>2. /\ c[1].loc = EntryAt(Slot(n)) /\ c[1].val = e
        /\ c[2].loc = IndexAt(Slot(n)) /\ c[2].val = Slot(n)
    BY <1>6, <1>8, <1>10
  <2>3. UNCHANGED <<mem, got, cons>>
    BY DEF Push
  <2>4. n = Returned + Waiting + Len(prod.staged)
    BY <1>2, Zenon
  <2> QED BY <1>5, <1>9, <1>10, <2>1, <2>2, <2>3, <2>4, StagingRing, Zenon
<1>12. /\ sent' = sent /\ got' = got /\ mem' = mem /\ cons' = cons /\ issued' = e
       /\ prod.pc = "batch"
       /\ prod' = [pc |-> "batch", base |-> prod.base, staged |-> Append(prod.staged, e)]
       /\ Waiting' = Waiting
  BY <1>2, Zenon DEF Push, RingInv, RingTypeOK, Waiting
<1>13. /\ prod'.staged \in Seq(Nat) /\ Len(prod'.staged) = Len(prod.staged) + 1
       /\ prod'.staged[Len(prod.staged) + 1] = e
       /\ \A i \in 1 .. Len(prod.staged) : prod'.staged[i] = prod.staged[i]
  <2>1. prod.staged \in Seq(Nat) /\ prod'.staged = Append(prod.staged, e)
    BY <1>12 DEF RingInv, RingTypeOK
  <2> QED BY <2>1, AppendProperties
<1>14. RingTypeOK'
  BY <1>9, <1>12, <1>13 DEF RingInv, RingTypeOK
<1>15. Counts'
  <2>1. Returned' + Waiting' + Len(prod'.staged) <= Capacity
    <3>1. Returned' + Waiting' + Len(prod'.staged) = n + 1
      <4>1. Returned' = r /\ Waiting' = w /\ Len(prod'.staged) = t + 1
        BY <1>2, <1>11, <1>12, <1>13, Zenon
      <4> QED BY <4>1, <1>3
    <3> QED BY <3>1, <1>5
  <2> QED BY <2>1, <1>12 DEF RingInv, Counts
<1>16. Heads'
  <2>1. /\ Unlanded' \in Seq(Stores)
        /\ \A i \in DOMAIN Unlanded' :
              \/ i \in DOMAIN Unlanded /\ Unlanded'[i] = Unlanded[i]
              \/ i - Len(Unlanded) \in DOMAIN c /\ Unlanded'[i] = c[i - Len(Unlanded)]
    BY <1>1, <1>10, <1>9, Concatenated, Zenon
  <2>2. ASSUME NEW i \in DOMAIN Unlanded'
        PROVE  Unlanded'[i].loc # TAIL /\ Unlanded'[i].loc # HEAD
    <3>1. CASE i \in DOMAIN Unlanded /\ Unlanded'[i] = Unlanded[i]
      BY <3>1, <1>12 DEF RingInv, Heads
    <3>2. CASE i - Len(Unlanded) \in DOMAIN c /\ Unlanded'[i] = c[i - Len(Unlanded)]
      <4>1. /\ EntryAt(s) # TAIL /\ IndexAt(s) # TAIL
            /\ EntryAt(s) # HEAD /\ IndexAt(s) # HEAD
        BY DEF EntryAt, IndexAt, HEAD, TAIL
      <4>2. i - Len(Unlanded) \in {1, 2}
        BY <3>2, <1>10
      <4> QED BY <3>2, <4>1, <4>2, <1>8, <1>10
    <3> QED BY <2>1, <3>1, <3>2
  <2>3. At(Returned + Waiting)' = At(Returned + Waiting)
    BY <1>11, <1>12
  <2> QED BY <2>2, <2>3, <1>12 DEF RingInv, Heads
<1>17. \E v \in 0 .. Waiting' : Visible(v)'
  BY <1>11, <1>12
<1>18. Contents'
  <2>1. ASSUME NEW j \in 0 .. Waiting' - 1
        PROVE  Lies(Slot(Returned + j), sent[Len(got) + 1 + j])'
    <3>1. PICK k \in 0 .. n - 1, u \in {sent[Len(got) + 1 + j]} : k = Returned + j
      <4>1. w = Waiting'
        BY <1>12, <1>2
      <4>3. j \in 0 .. w - 1
        BY <4>1, Zenon
      <4>2. r + j \in 0 .. n - 1
        BY <4>3, <1>3
      <4> QED BY <4>2, <1>2, Zenon
    <3>2. Lies(Slot(k), u)
      BY <3>1, <1>12 DEF RingInv, Contents
    <3>3. Lies(Slot(k), u)'
      BY <3>2, <1>11
    <3> QED BY <3>1, <3>3, <1>11, <1>12
  <2>2. ASSUME NEW j \in 0 .. Len(prod'.staged) - 1
        PROVE  Lies(Slot(Returned + Waiting + j), prod.staged[j + 1])'
    <3>1. CASE j = Len(prod.staged)
      <4>1. Returned' + Waiting' + j = n
        BY <3>1, <1>1, <1>2, <1>11, <1>12
      <4> QED BY <3>1, <4>1, <1>11, <1>13
    <3>2. CASE j \in 0 .. Len(prod.staged) - 1
      <4>1. PICK k \in 0 .. n - 1, i \in 1 .. Len(prod.staged), u \in {prod.staged[j + 1]} :
                k = Returned + Waiting + j /\ i = j + 1
        <5>3. j \in 0 .. t - 1
          BY <3>2, <1>2
        <5>4. r + w + j \in 0 .. n - 1
          BY <5>3, <1>3
        <5>1. Returned + Waiting + j \in 0 .. n - 1
          BY <5>4, <1>2, Zenon
        <5>2. j + 1 \in 1 .. Len(prod.staged)
          BY <3>2, <1>1
        <5> QED BY <5>1, <5>2
      <4>2. Lies(Slot(k), u)
        BY <3>2, <4>1, SMTT(90) DEF RingInv, Contents
      <4>3. Lies(Slot(k), u)'
        BY <4>2, <1>11
      <4>4. Returned' + Waiting' + j = k /\ prod'.staged[i] = u
        BY <4>1, <1>11, <1>12, <1>13
      <4> QED BY <4>1, <4>3, <4>4
    <3> QED BY <3>1, <3>2, <1>1, <1>13
  <2> QED BY <2>1, <2>2 DEF Contents
<1>19. (cons.pc = "entry" => cons.slot = Slot(Returned))'
  BY <1>11, <1>12 DEF RingInv
<1> QED BY <1>11, <1>14, <1>15, <1>16, <1>17, <1>18, <1>19 DEF RingInv

\* Batch::publish keeps it: the staged entries become the last that wait.
LEMMA PublishInv ==
    ASSUME RingInv, Publish
    PROVE  RingInv'
<1>1. PICK r \in Nat, w \in Nat, t \in Nat, n \in 0 .. Capacity :
          /\ r = Returned /\ w = Waiting /\ t = Len(prod.staged) /\ n = r + w + t
          /\ NextPosition = At(n)
  BY NextIs DEF Publish
<1>2. PICK g \in Nat, l \in Nat, h \in Nat :
          g = Len(got) /\ l = Len(sent) /\ w = l - g /\ h = At(n)
  <2>1. Len(got) \in Nat /\ Len(sent) \in Nat
    BY Shapes DEF RingInv
  <2>2. At(n) \in Nat
    BY Positions DEF RingInv, RingTypeOK
  <2> QED BY <1>1, <2>1, <2>2, Zenon DEF Waiting
<1>3. /\ n = r + w + t /\ w = l - g
      /\ Unlanded \in Seq(Stores) /\ prod.staged \in Seq(Nat) /\ sent \in Seq(Nat)
      /\ prod.pc = "batch"
  BY <1>1, <1>2, Shapes, SMTT(90) DEF RingInv, RingTypeOK, Publish
<1> DEFINE z == Release(HEAD, h)
           c == <<z>>
<1>4. z \in Stores /\ z.loc = HEAD /\ z.val = h /\ z.release
  BY DEF Release, Stores, Locations
<1> HIDE DEF z
<1>5. c \in Seq(Stores) /\ Len(c) = 1 /\ DOMAIN c = {1} /\ c[1] = z
  BY <1>4
<1>6. /\ Unlanded' = Unlanded \o c
      /\ buf' \in [Cores -> Seq(Stores)] /\ buf'["consumer"] = buf["consumer"]
  <2>1. buf' = [buf EXCEPT !["producer"] = Append(@, z)]
    BY <1>1, <1>2, Zenon DEF Publish, z
  <2>2. Append(Unlanded, z) = Unlanded \o c /\ Append(Unlanded, z) \in Seq(Stores)
    BY <1>3, <1>4, AppendIsConcat, AppendProperties
  <2> QED BY <2>1, <2>2 DEF RingInv, RingTypeOK, Unlanded, Cores
<1> HIDE DEF c
<1>7. /\ mem' = mem /\ cons' = cons /\ got' = got /\ issued' = issued
      /\ sent' = sent \o prod.staged
      /\ prod' = [pc |-> "fence", base |-> prod.base, staged |-> <<>>]
  BY Zenon DEF Publish, RingInv, RingTypeOK
<1>8. /\ sent' \in Seq(Nat) /\ Len(sent') = l + t
      /\ \A i \in 1 .. l + t : sent'[i] = IF i <= l THEN sent[i] ELSE prod.staged[i - l]
  BY <1>1, <1>2, <1>3, <1>7, ConcatProperties, Zenon
<1>9. Waiting' = w + t
  <2>1. Waiting' = (l + t) - g
    BY <1>2, <1>7, <1>8, Zenon DEF Waiting
  <2> QED BY <2>1, <1>3
<1>10. /\ Returned' = r
       /\ \A k : At(k)' = At(k)
       /\ \A k : Slot(k)' = Slot(k)
  BY <1>1, <1>6, <1>7 DEF Returned, At, Slot
<1>11. Tails'
  BY <1>6, <1>10 DEF Tails, RingInv
<1>12. /\ Unlanded' \in Seq(Stores) /\ Len(Unlanded') = Len(Unlanded) + 1
       /\ \A i \in DOMAIN Unlanded' :
              \/ i \in DOMAIN Unlanded /\ Unlanded'[i] = Unlanded[i]
              \/ i - Len(Unlanded) \in DOMAIN c /\ Unlanded'[i] = c[i - Len(Unlanded)]
  BY <1>3, <1>5, <1>6, Concatenated, Zenon
<1>13. ASSUME NEW s
       PROVE  (\A u : Lies(s, u) => Lies(s, u)') /\ (Settled(s) => Settled(s)')
  <2>1. \A i \in DOMAIN c : c[i].loc # EntryAt(s) /\ c[i].loc # IndexAt(s)
    BY <1>4, <1>5 DEF EntryAt, IndexAt, HEAD
  <2>2. ASSUME NEW u, Lies(s, u) PROVE Lies(s, u)'
    <3>1. /\ Becomes(mem, Unlanded \o c, EntryAt(s), u)
          /\ Becomes(mem, Unlanded \o c, IndexAt(s), s)
      BY <1>3, <1>5, <2>1, <2>2, MakingKeeps DEF Lies, WillBe
    <3> QED BY <1>6, <1>7, <3>1 DEF Lies, WillBe
  <2>3. Settled(s) => Settled(s)'
    BY <1>12, <2>1 DEF Settled
  <2> QED BY <2>2, <2>3
<1>14. RingTypeOK'
  BY <1>6, <1>7, <1>8, EmptySeq DEF RingInv, RingTypeOK
<1>15. Counts'
  <2>1. prod'.staged = <<>> /\ Len(prod'.staged) = 0
    BY <1>7, EmptySeq
  <2>2. Returned' + Waiting' + Len(prod'.staged) <= Capacity
    BY <2>1, <1>3, <1>9, <1>10, Constants
  <2>3. Len(got') <= Len(sent')
    <3>1. Len(got') = g /\ Len(sent') = l + t
      BY <1>2, <1>7, <1>8, Zenon
    <3> QED BY <3>1, <1>3
  <2> QED BY <2>1, <2>2, <2>3 DEF Counts
<1>16. At(Returned + Waiting)' = h
  <2>1. r + (w + t) = n
    BY <1>3
  <2> QED BY <2>1, <1>2, <1>9, <1>10
<1>17. Heads'
  <2>1. Len(Unlanded) \in Nat /\ DOMAIN Unlanded = 1 .. Len(Unlanded)
        /\ DOMAIN Unlanded' = 1 .. Len(Unlanded')
    BY <1>3, <1>12
  <2>2. Len(Unlanded') \in DOMAIN Unlanded' /\ Unlanded'[Len(Unlanded')] = z
    <3>1. Len(Unlanded') \in DOMAIN Unlanded' /\ Len(Unlanded') \notin DOMAIN Unlanded
      BY <2>1, <1>12
    <3>2. Len(Unlanded') - Len(Unlanded) = 1
      BY <2>1, <1>12
    <3> QED BY <3>1, <3>2, <1>12, <1>5
  <2>3. ASSUME NEW i \in DOMAIN Unlanded'
        PROVE  /\ Unlanded'[i].loc # TAIL
               /\ Unlanded'[i].loc = HEAD => i = Len(Unlanded')
    <3>1. CASE i \in DOMAIN Unlanded /\ Unlanded'[i] = Unlanded[i]
      BY <3>1, <1>3 DEF RingInv, Heads
    <3>2. CASE i - Len(Unlanded) \in DOMAIN c /\ Unlanded'[i] = c[i - Len(Unlanded)]
      <4>1. i - Len(Unlanded) = 1
        BY <3>2, <1>5
      <4>2. i = Len(Unlanded')
        BY <4>1, <2>1, <1>12
      <4>3. Unlanded'[i].loc = HEAD /\ HEAD # TAIL
        BY <3>2, <4>1, <1>4, <1>5 DEF HEAD, TAIL
      <4> QED BY <4>2, <4>3
    <3> QED BY <1>12, <3>1, <3>2
  <2>4. Unlanded' # <<>>
    BY <2>2, EmptySeq
  <2> QED BY <2>2, <2>3, <2>4, <1>4, <1>7, <1>16 DEF Heads
<1>18. \E v \in 0 .. Waiting' : Visible(v)'
  <2>1. PICK v \in 0 .. Waiting : Visible(v)
    BY DEF RingInv
  <2>2. v \in 0 .. Waiting'
    <3>1. v \in 0 .. w
      BY <1>1
    <3> QED BY <3>1, <1>9
  <2>3. ASSUME NEW j \in 0 .. v - 1 PROVE Settled(Slot(Returned + j))'
    <3>1. PICK s : s = Slot(Returned + j)
      OBVIOUS
    <3>2. Settled(s)'
      BY <2>1, <3>1, <1>13 DEF Visible
    <3>3. Slot(Returned + j)' = s
      BY <3>1, <1>1, <1>10
    <3> QED BY <3>2, <3>3
  <2>4. Visible(v)'
    BY <2>1, <2>3, <1>1, <1>7, <1>10 DEF Visible
  <2> QED BY <2>2, <2>4
<1>19. Contents'
  <2>1. ASSUME NEW j \in 0 .. Waiting' - 1
        PROVE  Lies(Slot(Returned + j), sent[Len(got) + 1 + j])'
    <3>1. j \in 0 .. (w + t) - 1 /\ g + 1 + j \in 1 .. l + t
      BY <1>3, <1>9
    <3>2. PICK s, u : s = Slot(r + j) /\ u = sent'[g + 1 + j]
      OBVIOUS
    <3>3. CASE j < w
      <4>1. j \in 0 .. w - 1 /\ g + 1 + j <= l
        BY <3>1, <3>3, <1>3
      <4>2. u = sent[g + 1 + j]
        BY <4>1, <3>1, <3>2, <1>8
      <4>3. Lies(s, u)
        BY <4>1, <4>2, <3>2, <1>1, <1>2, Zenon DEF RingInv, Contents
      <4>4. Lies(s, u)'
        BY <4>3, <1>13
      <4>5. Slot(Returned + j)' = s /\ sent'[Len(got') + 1 + j] = u
        BY <3>2, <1>2, <1>7, <1>10
      <4> QED BY <4>4, <4>5
    <3>4. CASE ~(j < w)
      <4>1. /\ j - w \in 0 .. t - 1 /\ ~(g + 1 + j <= l)
            /\ (g + 1 + j) - l = (j - w) + 1 /\ r + w + (j - w) = r + j
        BY <3>1, <3>4, <1>3
      <4>2. u = prod.staged[(j - w) + 1]
        BY <4>1, <3>1, <3>2, <1>8, SMTT(90)
      <4>3. Lies(Slot(r + w + (j - w)), prod.staged[(j - w) + 1])
        BY <4>1, <1>1, Zenon DEF RingInv, Contents
      <4>6. Lies(s, u)
        BY <4>1, <4>2, <4>3, <3>2
      <4>4. Lies(s, u)'
        BY <4>6, <1>13
      <4>5. Slot(Returned + j)' = s /\ sent'[Len(got') + 1 + j] = u
        BY <3>2, <1>2, <1>7, <1>10
      <4> QED BY <4>4, <4>5
    <3> QED BY <3>3, <3>4
  <2>2. \A j \in 0 .. Len(prod'.staged) - 1 : FALSE
    BY <1>7, EmptySeq
  <2> QED BY <2>1, <2>2 DEF Contents
<1>20. (cons.pc = "entry" => cons.slot = Slot(Returned))'
  BY <1>1, <1>7, <1>10 DEF RingInv
<1> QED BY <1>11, <1>14, <1>15, <1>17, <1>18, <1>19, <1>20 DEF RingInv

\* A store of the producer that lands keeps it.  A head store lands alone,
\* so every waiting entry is visible then.
LEMMA LandProducerInv ==
    ASSUME RingInv, NEW i \in DOMAIN buf["producer"], Land("producer", i)
    PROVE  RingInv'
<1> DEFINE b == Unlanded
<1>1. /\ b \in Seq(Stores) /\ Len(b) \in Nat /\ DOMAIN b = 1 .. Len(b) /\ i \in 1 .. Len(b)
      /\ b[i] \in Stores /\ b[i].loc \in Locations /\ b[i].val \in Nat
  <2>1. b \in Seq(Stores) /\ Len(b) \in Nat /\ DOMAIN b = 1 .. Len(b)
    BY Shapes DEF RingInv
  <2>2. i \in 1 .. Len(b)
    BY <2>1 DEF Unlanded
  <2>3. b[i] \in Stores
    BY <2>1, <2>2, ElementOfSeq
  <2> QED BY <2>1, <2>2, <2>3 DEF Stores
<1>2. /\ mem' = [mem EXCEPT ![b[i].loc] = b[i].val]
      /\ Unlanded' = Without(b, i) /\ buf'["consumer"] = buf["consumer"]
      /\ UNCHANGED <<prod, cons, issued, sent, got>>
  BY Zenon DEF Land, Without, Unlanded, RingInv, RingTypeOK, Cores
<1>3. /\ Unlanded' \in Seq(Stores) /\ Len(Unlanded') = Len(b) - 1
      /\ DOMAIN Unlanded' = 1 .. Len(b) - 1
      /\ \A j \in 1 .. Len(b) - 1 : Unlanded'[j] = IF j < i THEN b[j] ELSE b[j + 1]
  <2>1. /\ Without(b, i) \in Seq(Stores) /\ Len(Without(b, i)) = Len(b) - 1
        /\ \A j \in 1 .. Len(b) - 1 : Without(b, i)[j] = IF j < i THEN b[j] ELSE b[j + 1]
    BY <1>1, OneLess, Zenon
  <2> QED BY <1>2, <2>1
<1>4. /\ \A j \in 1 .. i - 1 : b[j].loc # b[i].loc
      /\ \A j \in 1 .. i - 1 : ~b[i].release
  BY DEF Land, CanLand, Unlanded
<1>5. b[i].loc # TAIL /\ mem'[TAIL] = mem[TAIL] /\ mem' \in [Locations -> Nat]
  <2>1. b[i].loc # TAIL
    BY <1>1 DEF RingInv, Heads
  <2> QED BY <1>1, <1>2, <2>1, SMTT(90) DEF RingInv, RingTypeOK, Locations
<1>6. /\ Returned' = Returned /\ Waiting' = Waiting
      /\ \A k : At(k)' = At(k)
      /\ \A k : Slot(k)' = Slot(k)
  BY <1>2, <1>5 DEF Returned, Waiting, At, Slot
<1> HIDE DEF b
<1>7. ASSUME NEW s \in Slots
      PROVE  (\A u : Lies(s, u) => Lies(s, u)') /\ (Settled(s) => Settled(s)')
  <2>1. EntryAt(s) \in Locations /\ IndexAt(s) \in Locations
    BY DEF Locations
  <2>2. ASSUME NEW u, Lies(s, u) PROVE Lies(s, u)'
    <3>1. Becomes(mem, b, EntryAt(s), u) /\ Becomes(mem, b, IndexAt(s), s)
      BY <2>2 DEF Lies, WillBe, b
    <3>2. /\ Becomes(mem', Without(b, i), EntryAt(s), u)
          /\ Becomes(mem', Without(b, i), IndexAt(s), s)
      BY <3>1, <2>1, <1>1, <1>2, <1>4, LandingKeeps, Zenon DEF RingInv, RingTypeOK
    <3> QED BY <3>2, <1>2 DEF Lies, WillBe
  <2>3. \A j \in DOMAIN Unlanded' : \E k \in DOMAIN b : Unlanded'[j] = b[k]
    BY <1>1, <1>3
  <2>4. Settled(s) => Settled(s)'
    BY <2>3 DEF Settled, b
  <2> QED BY <2>2, <2>4
<1>8. mem'[HEAD] \in Cursors
  <2>1. CASE b[i].loc = HEAD
    <3>1. mem'[HEAD] = At(Returned + Waiting)
      BY <2>1, <1>1, <1>2, SMTT(90) DEF RingInv, RingTypeOK, Heads, b
    <3>2. Returned + Waiting \in 0 .. Capacity
      BY Shapes DEF RingInv
    <3> QED BY <3>1, <3>2, Positions DEF RingInv, RingTypeOK
  <2>2. CASE b[i].loc # HEAD
    BY <2>2, <1>1, <1>2 DEF RingInv, RingTypeOK, Locations
  <2> QED BY <2>1, <2>2
<1>9. RingTypeOK'
  <2>1. buf' \in [Cores -> Seq(Stores)]
    BY <1>3, ZenonT(90) DEF Land, Unlanded, RingInv, RingTypeOK, Cores
  <2> QED BY <2>1, <1>2, <1>5, <1>8, SMTT(90) DEF RingInv, RingTypeOK
<1>10. Counts'
  BY <1>2, <1>6, SMTT(90) DEF RingInv, Counts
<1>11. Tails'
  BY <1>2, <1>6 DEF RingInv, Tails
<1>12. Contents'
  <2>1. /\ Returned \in Nat /\ Waiting \in Nat /\ Len(prod.staged) \in Nat
    BY Shapes DEF RingInv
  <2>2. PICK r \in Nat, w \in Nat, t \in Nat :
            r = Returned /\ w = Waiting /\ t = Len(prod.staged) /\ r + w + t <= Capacity
    BY <2>1, Zenon DEF RingInv, Counts
  <2>3. r + w + t <= Capacity
    BY <2>2, Zenon
  <2>4. ASSUME NEW j \in 0 .. w - 1
        PROVE  Lies(Slot(Returned + j), sent[Len(got) + 1 + j])'
    <3>1. r + j \in 0 .. Capacity
      BY <2>3, Constants
    <3>2. PICK s \in Slots, u \in {sent[Len(got) + 1 + j]} : s = Slot(r + j)
      BY <3>1, Positions DEF RingInv, RingTypeOK
    <3>3. Lies(s, u)
      BY <3>2, <2>2, Zenon DEF RingInv, Contents
    <3> QED BY <3>2, <3>3, <2>2, <1>2, <1>6, <1>7
  <2>5. ASSUME NEW j \in 0 .. t - 1
        PROVE  Lies(Slot(Returned + Waiting + j), prod.staged[j + 1])'
    <3>1. r + w + j \in 0 .. Capacity
      BY <2>3, Constants
    <3>2. PICK s \in Slots, u \in {prod.staged[j + 1]} : s = Slot(r + w + j)
      BY <3>1, Positions DEF RingInv, RingTypeOK
    <3>3. Lies(s, u)
      BY <3>2, <2>2 DEF RingInv, Contents
    <3> QED BY <3>2, <3>3, <2>2, <1>2, <1>6, <1>7, Zenon
  <2>6. Waiting' = w /\ Len(prod'.staged) = t
    BY <2>2, <1>2, <1>6
  <2> QED BY <2>4, <2>5, <2>6 DEF Contents
<1>13. (cons.pc = "entry" => cons.slot = Slot(Returned))'
  BY <1>2, <1>6 DEF RingInv
<1>14. PICK v \in 0 .. Waiting : Visible(v)
  BY DEF RingInv
<1>15. Waiting \in Nat /\ Returned \in Nat /\ Returned + Waiting \in 0 .. Capacity
  BY Shapes DEF RingInv
<1>16. CASE b[i].loc = HEAD
  <2>1. i = Len(b) /\ prod.pc = "fence" /\ b[i].release /\ b[i].val = At(Returned + Waiting)
    BY <1>16, <1>1 DEF RingInv, Heads, b
  <2>2. Len(b) = 1
    BY <2>1, <1>1, <1>4
  <2>3. DOMAIN Unlanded' = {} /\ Unlanded' = <<>>
    BY <2>2, <1>3, EmptySeq, SMTT(90)
  <2>4. mem'[HEAD] = At(Returned + Waiting)
    BY <2>1, <1>16, <1>1, <1>2 DEF RingInv, RingTypeOK
  <2>5. Heads'
    BY <2>1, <2>3, <2>4, <1>2, <1>6, SMTT(90) DEF Heads
  <2>6. cons.pc # "idle" => Waiting >= 1
    BY <1>14, <1>15 DEF Visible
  <2>7. Visible(Waiting)'
    BY <2>3, <2>4, <2>6, <1>2, <1>6 DEF Visible, Settled
  <2>8. Waiting' \in 0 .. Waiting'
    BY <1>6, <1>15
  <2>9. (\E q \in 0 .. Waiting : Visible(q))'
    BY <2>7, <2>8
  <2> QED BY <2>5, <2>9, <1>9, <1>10, <1>11, <1>12, <1>13 DEF RingInv
<1>17. CASE b[i].loc # HEAD
  <2>1. mem'[HEAD] = mem[HEAD]
    BY <1>17, <1>1, <1>2, SMTT(90) DEF RingInv, RingTypeOK, Locations
  <2>2. Heads'
    <3>1. ASSUME NEW j \in DOMAIN Unlanded'
          PROVE  /\ Unlanded'[j].loc # TAIL
                 /\ Unlanded'[j].loc = HEAD =>
                       /\ j = Len(Unlanded') /\ prod.pc = "fence" /\ Unlanded'[j].release
                       /\ Unlanded'[j].val = At(Returned + Waiting)
      <4>1. PICK k \in DOMAIN b : Unlanded'[j] = b[k] /\ (k = j \/ k = j + 1)
        BY <1>1, <1>3, SMTT(90)
      <4>2. b[k].loc # TAIL /\ (b[k].loc = HEAD => /\ k = Len(b) /\ prod.pc = "fence"
                                    /\ b[k].release /\ b[k].val = At(Returned + Waiting))
        BY DEF RingInv, Heads, b
      <4>3. k = Len(b) => j = Len(Unlanded')
        BY <4>1, <1>1, <1>3
      <4> QED BY <4>1, <4>2, <4>3, SMTT(90)
    <3>2. ASSUME prod.pc = "fence"
          PROVE  Unlanded' # <<>> /\ Unlanded'[Len(Unlanded')].loc = HEAD
      <4>1. b # <<>> /\ b[Len(b)].loc = HEAD
        <5>1. b # <<>>
          BY <1>1, EmptySeq
        <5> QED BY <5>1, <3>2 DEF RingInv, Heads, b
      <4>2. i < Len(b)
        BY <4>1, <1>1, <1>17
      <4>3. Len(b) - 1 \in 1 .. Len(b) - 1 /\ ~(Len(b) - 1 < i) /\ (Len(b) - 1) + 1 = Len(b)
        BY <4>2, <1>1
      <4>4. Unlanded'[Len(b) - 1] = b[Len(b)]
        BY <4>3, <1>3
      <4>5. Unlanded' # <<>>
        BY <4>3, <1>3, EmptySeq
      <4> QED BY <4>1, <4>4, <4>5, <1>3
    <3>3. prod.pc # "fence" => mem'[HEAD] = At(Returned + Waiting)
      BY <2>1 DEF RingInv, Heads
    <3>4. prod.pc = "batch" => prod.base = At(Returned + Waiting)
      BY SMTT(90) DEF RingInv, Heads
    <3> QED BY <3>1, <3>2, <3>3, <3>4, <1>2, <1>6 DEF Heads
  <2>3. Visible(v)'
    <3>1. ASSUME NEW j \in 0 .. v - 1 PROVE Settled(Slot(Returned + j))'
      <4>1. PICK r \in Nat, w \in Nat :
                r = Returned /\ w = Waiting /\ r + w \in 0 .. Capacity /\ v \in 0 .. w
        BY <1>15
      <4>2. r + j \in 0 .. Capacity
        BY <4>1, Constants
      <4>3. PICK s \in Slots : s = Slot(r + j)
        BY <4>2, Positions DEF RingInv, RingTypeOK
      <4>4. Settled(s)
        BY <4>1, <4>3, <1>14 DEF Visible
      <4> QED BY <4>1, <4>3, <4>4, <1>6, <1>7
    <3> QED BY <3>1, <2>1, <1>2, <1>6, <1>14 DEF Visible
  <2>4. \E q \in 0 .. Waiting' : Visible(q)'
    BY <2>3, <1>6
  <2> QED BY <2>2, <2>4, <1>9, <1>10, <1>11, <1>12, <1>13 DEF RingInv
<1> QED BY <1>16, <1>17

\* A tail store that lands keeps it: the stores land in order and every
\* position is counted from one slot further on.
LEMMA LandConsumerInv ==
    ASSUME RingInv, NEW i \in DOMAIN buf["consumer"], Land("consumer", i)
    PROVE  RingInv'
<1> DEFINE b == buf["consumer"]
<1>1. /\ b \in Seq(Stores) /\ DOMAIN b = 1 .. Returned /\ Len(b) = Returned /\ i \in 1 .. Len(b)
      /\ Returned \in Nat /\ Waiting \in Nat /\ Len(prod.staged) \in Nat
  BY Shapes DEF RingInv, Returned
<1>2. \A j \in 1 .. Returned : b[j].loc = TAIL /\ b[j].val = At(j)
  BY <1>1 DEF RingInv, Tails
<1>3. i = 1
  <2>1. ASSUME i # 1 PROVE FALSE
    <3>1. 1 \in 1 .. i - 1 /\ 1 \in 1 .. Returned
      BY <1>1, <2>1
    <3> QED BY <3>1, <1>1, <1>2, Zenon DEF Land, CanLand
  <2> QED BY <2>1
<1>4. PICK r \in Nat, w \in Nat, t \in Nat :
          r = Returned /\ w = Waiting /\ t = Len(prod.staged) /\ r + w + t <= Capacity
  BY <1>1, Zenon DEF RingInv, Counts
<1>5. r + w + t <= Capacity /\ r >= 1
  <2>1. r + w + t <= Capacity
    BY <1>4, Zenon
  <2>2. r >= 1
    BY <1>1, <1>4
  <2> QED BY <2>1, <2>2
<1>6. 1 \in 1 .. Returned /\ 1 \in 0 .. Capacity
  BY <1>1, <1>3, Constants
<1>7. /\ mem' = [mem EXCEPT ![TAIL] = At(1)]
      /\ buf'["consumer"] = Without(b, 1) /\ Unlanded' = Unlanded
      /\ UNCHANGED <<prod, cons, issued, sent, got>>
  BY <1>2, <1>3, <1>6, Zenon DEF Land, Without, Unlanded, RingInv, RingTypeOK, Cores
<1>8. /\ buf'["consumer"] \in Seq(Stores) /\ Returned' = r - 1
      /\ \A j \in 1 .. r - 1 : buf'["consumer"][j] = b[j + 1]
  <2>1. /\ Without(b, 1) \in Seq(Stores) /\ Len(Without(b, 1)) = Len(b) - 1
        /\ \A j \in 1 .. Len(b) - 1 : Without(b, 1)[j] = IF j < 1 THEN b[j] ELSE b[j + 1]
    BY <1>1, <1>3, OneLess, Zenon
  <2>2. \A j \in 1 .. r - 1 : ~(j < 1)
    OBVIOUS
  <2> QED BY <2>1, <2>2, <1>1, <1>4, <1>7 DEF Returned
<1>9. /\ At(1) \in Cursors /\ mem'[TAIL] = At(1) /\ mem' \in [Locations -> Nat]
      /\ \A l \in Locations : l # TAIL => mem'[l] = mem[l]
  <2>1. At(1) \in Cursors /\ At(1) \in Nat
    BY <1>6, Positions DEF RingInv, RingTypeOK
  <2> QED BY <2>1, <1>7 DEF RingInv, RingTypeOK, Locations
<1>10. ASSUME NEW n \in Nat, 1 + n <= Capacity
       PROVE  At(n)' = At(1 + n) /\ Slot(n)' = Slot(1 + n)
  <2>1. WrappingAdd(At(1), n) = At(1 + n)
    BY <1>10, Positions DEF RingInv, RingTypeOK
  <2>2. At(n)' = At(1 + n)
    BY <2>1, <1>9 DEF At
  <2> QED BY <2>2 DEF Slot
<1>11. ASSUME NEW n \in 0 .. w + t
       PROVE  At(Returned + n)' = At(r + n) /\ Slot(Returned + n)' = Slot(r + n)
  <2>1. /\ (r - 1) + n \in Nat /\ 1 + ((r - 1) + n) <= Capacity
        /\ 1 + ((r - 1) + n) = r + n
    BY <1>5, Constants
  <2>2. PICK k \in Nat : k = (r - 1) + n
    BY <2>1
  <2>3. At(k)' = At(r + n) /\ Slot(k)' = Slot(r + n)
    BY <2>1, <2>2, <1>10
  <2>4. Returned' + n = k
    BY <2>2, <1>8
  <2> QED BY <2>3, <2>4
<1>12. HEAD \in Locations /\ HEAD # TAIL /\ mem'[HEAD] = mem[HEAD]
  BY <1>9 DEF Locations, HEAD, TAIL
<1>13. Waiting' = w /\ Len(prod'.staged) = t
  BY <1>4, <1>7, SMTT(90) DEF Waiting
<1>14. RingTypeOK'
  <2>1. buf' \in [Cores -> Seq(Stores)]
    BY <1>8, SMTT(90) DEF Land, RingInv, RingTypeOK, Cores
  <2> QED BY <2>1, <1>7, <1>9, <1>12 DEF RingInv, RingTypeOK
<1>15. Counts'
  <2>1. (r - 1) + w + t <= Capacity
    BY <1>5, Constants
  <2>2. Returned' + Waiting' + Len(prod'.staged) <= Capacity
    BY <2>1, <1>8, <1>13, Zenon
  <2> QED BY <2>2, <1>7 DEF RingInv, Counts
<1>16. Tails'
  <2>1. DOMAIN buf'["consumer"] = 1 .. r - 1
    BY <1>8 DEF Returned
  <2>2. ASSUME NEW j \in 1 .. r - 1
        PROVE  buf'["consumer"][j].loc = TAIL /\ buf'["consumer"][j].val = At(j)'
    <3>1. j \in Nat /\ 1 + j <= Capacity /\ j + 1 \in 1 .. r /\ 1 + j = j + 1
      BY <1>5, Constants
    <3>2. b[j + 1].loc = TAIL /\ b[j + 1].val = At(j + 1)
      BY <3>1, <1>2, <1>4
    <3>3. At(j)' = At(j + 1)
      BY <3>1, <1>10
    <3> QED BY <3>2, <3>3, <1>8
  <2> QED BY <2>1, <2>2 DEF Tails
<1>17. At(Returned + Waiting)' = At(Returned + Waiting)
  <2>1. w \in 0 .. w + t
    OBVIOUS
  <2> QED BY <2>1, <1>4, <1>11, <1>13
<1>18. Heads'
  BY <1>7, <1>12, <1>17 DEF RingInv, Heads
<1>19. ASSUME NEW s \in Slots
       PROVE  (\A u : Lies(s, u) => Lies(s, u)') /\ (Settled(s) => Settled(s)')
  <2>1. mem'[EntryAt(s)] = mem[EntryAt(s)] /\ mem'[IndexAt(s)] = mem[IndexAt(s)]
    <3>1. /\ EntryAt(s) \in Locations /\ IndexAt(s) \in Locations
          /\ EntryAt(s) # TAIL /\ IndexAt(s) # TAIL
      BY DEF Locations, EntryAt, IndexAt, TAIL
    <3> QED BY <3>1, <1>9
  <2>2. \A u : Lies(s, u) => Lies(s, u)'
    BY <2>1, <1>7 DEF Lies, WillBe, Becomes
  <2>3. Settled(s) => Settled(s)'
    BY <1>7 DEF Settled
  <2> QED BY <2>2, <2>3
<1>20. ASSUME NEW n \in 0 .. w + t
       PROVE  Slot(r + n) \in Slots
  <2>1. r + n \in 0 .. Capacity
    BY <1>5, Constants
  <2> QED BY <2>1, Positions DEF RingInv, RingTypeOK
<1>21. \E v \in 0 .. Waiting' : Visible(v)'
  <2>1. PICK v \in 0 .. w : Visible(v)
    BY <1>4 DEF RingInv
  <2>2. v \in 0 .. w + t
    OBVIOUS
  <2>3. mem'[HEAD] = At(Returned + v)'
    BY <2>1, <2>2, <1>4, <1>11, <1>12 DEF Visible
  <2>4. ASSUME NEW j \in 0 .. v - 1 PROVE Settled(Slot(Returned + j))'
    <3>1. j \in 0 .. w + t
      OBVIOUS
    <3>2. PICK s \in Slots : s = Slot(r + j)
      BY <3>1, <1>20
    <3>3. Settled(s)
      BY <3>2, <2>1, <1>4 DEF Visible
    <3> QED BY <3>1, <3>2, <3>3, <1>11, <1>19
  <2> QED BY <2>1, <2>3, <2>4, <1>7, <1>13 DEF Visible
<1>22. Contents'
  <2>1. ASSUME NEW j \in 0 .. w - 1
        PROVE  Lies(Slot(Returned + j), sent[Len(got) + 1 + j])'
    <3>1. j \in 0 .. w + t
      OBVIOUS
    <3>2. PICK s \in Slots, u \in {sent[Len(got) + 1 + j]} : s = Slot(r + j)
      BY <3>1, <1>20, SMTT(90)
    <3>3. Lies(s, u)
      BY <3>2, <1>4, SMTT(90) DEF RingInv, Contents
    <3> QED BY <3>1, <3>2, <3>3, <1>7, <1>11, <1>19
  <2>2. ASSUME NEW j \in 0 .. t - 1
        PROVE  Lies(Slot(Returned + Waiting + j), prod.staged[j + 1])'
    <3>1. w + j \in 0 .. w + t /\ r + (w + j) = r + w + j
      OBVIOUS
    <3>2. PICK s \in Slots, u \in {prod.staged[j + 1]}, k \in 0 .. w + t :
              k = w + j /\ s = Slot(r + k) /\ s = Slot(r + w + j)
      BY <3>1, <1>20, SMTT(90)
    <3>3. Lies(s, u)
      BY <3>2, <1>4, SMTT(90) DEF RingInv, Contents
    <3>4. Returned' + Waiting' + j = Returned' + k
      <4>1. Returned' \in Nat /\ Waiting' = w
        BY <1>5, <1>8, <1>13
      <4> QED BY <4>1, <3>2
    <3>5. Slot(Returned + Waiting + j)' = s
      BY <3>2, <3>4, <1>11
    <3> QED BY <3>2, <3>3, <3>5, <1>7, <1>19
  <2> QED BY <2>1, <2>2, <1>13 DEF Contents
<1>23. (cons.pc = "entry" => cons.slot = Slot(Returned))'
  <2>1. 0 \in 0 .. w + t /\ r + 0 = r
    OBVIOUS
  <2>2. PICK k \in {0} : TRUE
    OBVIOUS
  <2>3. Slot(Returned + k)' = Slot(r)
    BY <2>1, <2>2, <1>11
  <2>4. Returned' + k = Returned'
    BY <2>2, <1>8
  <2>5. Slot(Returned)' = Slot(Returned)
    BY <2>3, <2>4, <1>4
  <2> QED BY <2>5, <1>7 DEF RingInv
<1> QED BY <1>14, <1>15, <1>16, <1>18, <1>21, <1>22, <1>23, SMTT(90) DEF RingInv

\* The distance between two cursors within one length of the ring.
LEMMA Distance ==
    ASSUME mem[TAIL] \in Cursors, NEW a \in Nat, NEW d \in Nat, a + d <= Capacity
    PROVE  WrappingSub(At(a + d), At(a)) = d
<1>1. a \in 0 .. Capacity /\ d \in 0 .. Capacity
  BY Constants
<1>2. At(a) \in Cursors /\ WrappingAdd(At(a), d) = At(a + d)
  BY <1>1, Positions
<1>3. WrappingSub(WrappingAdd(At(a), d), At(a)) = d
  BY <1>1, <1>2, Ahead
<1> QED BY <1>2, <1>3

\* Consumer::pop that finds the ring not empty keeps it: an entry is visible.
LEMMA PopLoadHeadInv ==
    ASSUME RingInv, PopLoadHead
    PROVE  RingInv'
<1> USE StillRing DEF PopLoadHead
<1>1. PICK r \in Nat, w \in Nat, v \in 0 .. Waiting :
          r = Returned /\ w = Waiting /\ r + w \in 0 .. Capacity /\ Visible(v)
  BY Shapes DEF RingInv
<1>2. v >= 1
  <2>1. v \in Nat /\ r + v <= Capacity
    BY <1>1, Constants
  <2>2. WrappingSub(At(r + v), At(r)) = v
    BY <2>1, Distance DEF RingInv, RingTypeOK
  <2>3. View("consumer", TAIL) = At(r) /\ mem[HEAD] = At(r + v)
    BY <1>1, Views DEF RingInv, Visible
  <2> QED BY <2>2, <2>3
<1>3. cons' = [pc |-> "index", head |-> mem[HEAD], slot |-> cons.slot] /\ mem[HEAD] \in Nat
  <2>1. mem[HEAD] \in Nat
    BY Constants DEF RingInv, RingTypeOK, Cursors
  <2> QED BY <2>1, Zenon DEF RingInv, RingTypeOK
<1>4. RingTypeOK'
  BY <1>3, Zenon DEF RingInv, RingTypeOK
<1>5. Visible(v)'
  BY <1>1, <1>2 DEF Visible
<1>6. \E q \in 0 .. Waiting' : Visible(q)'
  BY <1>1, <1>5
<1>7. Counts' /\ Heads' /\ Contents'
  BY DEF RingInv, Counts, Heads, Contents
<1> QED BY <1>3, <1>4, <1>6, <1>7 DEF RingInv

\* Inside a pop the next entry and the index word that names it have landed.
LEMMA Front ==
    ASSUME RingInv, cons.pc # "idle"
    PROVE  \E r \in Nat, w \in Nat, t \in Nat, v \in 1 .. Waiting :
              /\ r = Returned /\ w = Waiting /\ t = Len(prod.staged) /\ r + w + t <= Capacity
              /\ Visible(v) /\ Settled(Slot(r)) /\ Slot(r) \in Slots
              /\ mem[IndexAt(Slot(r))] = Slot(r)
              /\ mem[EntryAt(Slot(r))] = sent[Len(got) + 1]
<1>1. Returned \in Nat /\ Waiting \in Nat /\ Len(prod.staged) \in Nat /\ Len(got) \in Nat
  BY Shapes DEF RingInv
<1>2. PICK r \in Nat, w \in Nat, t \in Nat :
          r = Returned /\ w = Waiting /\ t = Len(prod.staged) /\ r + w + t <= Capacity
  BY <1>1, Zenon DEF RingInv, Counts
<1>3. r + w + t <= Capacity
  BY <1>2, Zenon
<1>4. PICK v \in 0 .. w : Visible(v)
  BY <1>2 DEF RingInv
<1>5. v \in 1 .. w /\ 0 \in 0 .. v - 1 /\ 0 \in 0 .. w - 1 /\ r + 0 = r /\ Len(got) + 1 + 0 = Len(got) + 1
  BY <1>1, <1>4 DEF Visible
<1>6. Settled(Slot(r))
  <2>1. Settled(Slot(Returned + 0))
    BY <1>4, <1>5, Zenon DEF Visible
  <2> QED BY <2>1, <1>2, <1>5
<1>7. Lies(Slot(r), sent[Len(got) + 1])
  <2>1. Lies(Slot(Returned + 0), sent[Len(got) + 1 + 0])
    BY <1>2, <1>5, Zenon DEF RingInv, Contents
  <2> QED BY <2>1, <1>2, <1>5
<1>8. Slot(r) \in Slots
  <2>1. r \in 0 .. Capacity
    BY <1>3, Constants
  <2> QED BY <2>1, Positions DEF RingInv, RingTypeOK
<1>9. mem[IndexAt(Slot(r))] = Slot(r) /\ mem[EntryAt(Slot(r))] = sent[Len(got) + 1]
  BY <1>6, <1>7 DEF Lies, WillBe, Becomes, Settled
<1> QED BY <1>2, <1>4, <1>5, <1>6, <1>8, <1>9, Zenon

\* The index word names the slot it lies in.
LEMMA PopLoadIndexInv ==
    ASSUME RingInv, PopLoadIndex
    PROVE  RingInv'
<1> USE StillRing DEF PopLoadIndex
<1>1. /\ mem[IndexAt(Slot(Returned))] = Slot(Returned) /\ Slot(Returned) \in Slots
  BY Front
<1>2. View("consumer", TAIL) = At(Returned)
  BY Views DEF RingInv
<1>3. cons' = [pc |-> "entry", head |-> cons.head, slot |-> Slot(Returned)]
  BY <1>1, <1>2, Zenon DEF RingInv, RingTypeOK, Slot
<1>4. RingTypeOK'
  <2>1. Slot(Returned) \in Nat
    BY <1>1, Constants DEF Slots
  <2> QED BY <2>1, <1>3 DEF RingInv, RingTypeOK
<1>5. \E q \in 0 .. Waiting' : Visible(q)'
  <2>1. PICK v \in 0 .. Waiting : Visible(v)
    BY DEF RingInv
  <2>2. Visible(v)'
    BY <2>1 DEF Visible
  <2> QED BY <2>2
<1>6. Counts' /\ Heads' /\ Contents'
  BY DEF RingInv, Counts, Heads, Contents
<1>7. (cons.pc = "entry" => cons.slot = Slot(Returned))'
  <2>1. cons'.slot = Slot(Returned)
    <3> HIDE StillRing DEF PopLoadIndex
    <3> QED BY <1>3
  <2>2. Returned' = Returned /\ \A n : Slot(n)' = Slot(n)
    OBVIOUS
  <2>3. Slot(Returned)' = Slot(Returned)
    BY <2>2
  <2> QED BY <2>1, <2>3, Zenon
<1>8. Tails'
  BY DEF RingInv
<1> QED BY <1>4, <1>5, <1>6, <1>7, <1>8, Zenon DEF RingInv

\* The copy keeps it, and takes the oldest entry that waits.
LEMMA PopCopyInv ==
    ASSUME RingInv, PopCopy
    PROVE  /\ RingInv'
           /\ Len(got) < Len(sent) /\ got' = Append(got, sent[Len(got) + 1])
<1>1. PICK r \in Nat, w \in Nat, t \in Nat, v \in 1 .. Waiting :
          /\ r = Returned /\ w = Waiting /\ t = Len(prod.staged) /\ r + w + t <= Capacity
          /\ Visible(v) /\ mem[EntryAt(Slot(r))] = sent[Len(got) + 1]
  BY Front DEF PopCopy
<1>2. r + w + t <= Capacity /\ v \in 1 .. w
  BY <1>1, Zenon
<1>3. PICK g \in Nat, l \in Nat : g = Len(got) /\ l = Len(sent) /\ w = l - g
  <2>1. Len(got) \in Nat /\ Len(sent) \in Nat
    BY Shapes DEF RingInv
  <2> QED BY <1>1, <2>1, Zenon DEF Waiting
<1>4. w = l - g /\ g < l /\ g + 1 \in 1 .. l /\ w >= 1
  <2>1. w = l - g
    BY <1>3, Zenon
  <2> QED BY <1>2, <2>1
<1>5. got' = Append(got, sent[Len(got) + 1]) /\ sent[Len(got) + 1] \in Nat
  <2>1. mem[EntryAt(cons.slot)] = sent[Len(got) + 1]
    BY <1>1 DEF RingInv, PopCopy
  <2>2. sent[g + 1] \in Nat
    BY <1>3, <1>4, ElementOfSeq DEF RingInv, RingTypeOK
  <2> QED BY <2>1, <2>2, <1>3 DEF PopCopy
<1>6. got' \in Seq(Nat) /\ Len(got') = g + 1
  BY <1>3, <1>5, AppendProperties DEF RingInv, RingTypeOK
<1>7. PICK h \in Nat : h = At(r + 1) /\ WrappingAdd(View("consumer", TAIL), 1) = h
  <2>1. r + 1 \in 0 .. Capacity /\ 1 \in Nat /\ r + 1 <= Capacity
    BY <1>2, <1>4, Constants
  <2>2. View("consumer", TAIL) = At(r)
    BY <1>1, Views DEF RingInv
  <2> QED BY <2>1, <2>2, Positions DEF RingInv, RingTypeOK
<1> DEFINE z == Release(TAIL, h)
           b == buf["consumer"]
<1>8. z \in Stores /\ z.loc = TAIL /\ z.val = h
  BY DEF Release, Stores, Locations
<1>9. b \in Seq(Stores) /\ Len(b) = r /\ DOMAIN b = 1 .. r
  BY <1>1, Shapes DEF RingInv, Returned
<1>10. buf'["consumer"] = Append(b, z) /\ Unlanded' = Unlanded /\ buf' \in [Cores -> Seq(Stores)]
  <2>1. buf' = [buf EXCEPT !["consumer"] = Append(@, z)]
    BY <1>7, Zenon DEF PopCopy
  <2>2. Append(b, z) \in Seq(Stores)
    BY <1>8, <1>9, AppendProperties
  <2> QED BY <2>1, <2>2 DEF RingInv, RingTypeOK, Cores, Unlanded
<1> HIDE DEF z, b
<1>11. /\ Len(Append(b, z)) = r + 1 /\ Append(b, z)[r + 1] = z
       /\ DOMAIN Append(b, z) = 1 .. r + 1
       /\ \A i \in 1 .. r : Append(b, z)[i] = b[i]
  BY <1>8, <1>9, AppendProperties
<1>12. /\ mem' = mem /\ prod' = prod /\ issued' = issued /\ sent' = sent
       /\ cons' = [pc |-> "idle", head |-> cons.head, slot |-> cons.slot]
  BY Zenon DEF PopCopy, RingInv, RingTypeOK
<1>13. Returned' = r + 1
  BY <1>10, <1>11 DEF Returned
<1>14. Waiting' = w - 1
  <2>1. Waiting' = l - (g + 1)
    BY <1>3, <1>6, <1>12, ZenonT(90) DEF Waiting
  <2> QED BY <2>1, <1>4
<1>15. /\ \A k : At(k)' = At(k)
       /\ \A k : Slot(k)' = Slot(k)
       /\ \A k, u : Lies(k, u)' <=> Lies(k, u)
       /\ \A k : Settled(k)' <=> Settled(k)
  BY <1>10, <1>12, SMTT(90) DEF At, Slot, Lies, WillBe, Becomes, Settled
<1>16. RingTypeOK'
  BY <1>6, <1>10, <1>12, SMTT(90) DEF RingInv, RingTypeOK
<1>17. Counts'
  <2>1. (r + 1) + (w - 1) + t <= Capacity
    BY <1>2, <1>4, Constants
  <2>2. Len(prod'.staged) = t
    BY <1>1, <1>12, Zenon
  <2>3. Returned' + Waiting' + Len(prod'.staged) <= Capacity
    BY <2>1, <2>2, <1>13, <1>14, Zenon
  <2>4. Len(got') <= Len(sent')
    <3>1. g + 1 <= l
      BY <1>4, SMTT(90)
    <3> QED BY <3>1, <1>3, <1>6, <1>12, ZenonT(90)
  <2> QED BY <2>3, <2>4, <1>12 DEF RingInv, Counts
<1>18. Tails'
  <2>1. ASSUME NEW i \in 1 .. r + 1
        PROVE  Append(b, z)[i].loc = TAIL /\ Append(b, z)[i].val = At(i)
    <3>1. CASE i = r + 1
      BY <3>1, <1>7, <1>8, <1>11 DEF z
    <3>2. CASE i \in 1 .. r
      BY <3>2, <1>9, <1>11, Zenon DEF RingInv, Tails, b
    <3>3. i = r + 1 \/ i \in 1 .. r
      OBVIOUS
    <3> QED BY <3>1, <3>2, <3>3, ZenonT(90)
  <2> QED BY <2>1, <1>10, <1>11, <1>15, SMTT(90) DEF Tails
<1>19. Returned' + Waiting' = Returned + Waiting
  <2>1. (r + 1) + (w - 1) = r + w
    BY <1>4, SMTT(90)
  <2> QED BY <2>1, <1>1, <1>13, <1>14, Zenon
<1>20. Heads'
  <2>1. At(Returned + Waiting)' = At(Returned + Waiting)
    BY <1>15, <1>19
  <2> QED BY <2>1, <1>10, <1>12 DEF RingInv, Heads
<1>21. (\E q \in 0 .. Waiting : Visible(q))'
  <2>1. PICK q \in 0 .. w - 1 : q = v - 1 /\ r + 1 + q = r + v
    BY <1>2, <1>4, SMTT(90)
  <2>2. mem'[HEAD] = At(Returned + q)'
    BY <2>1, <1>1, <1>12, <1>13, <1>15 DEF Visible
  <2>3. ASSUME NEW j \in 0 .. q - 1 PROVE Settled(Slot(Returned + j))'
    <3>1. j + 1 \in 0 .. v - 1 /\ r + (j + 1) = (r + 1) + j
      BY <1>2, <2>1
    <3>2. Settled(Slot(Returned + (j + 1)))
      BY <3>1, <1>1, Zenon DEF Visible
    <3>3. PICK s : s = Slot((r + 1) + j) /\ Settled(s)
      BY <3>1, <3>2, <1>1
    <3>4. Settled(s)' /\ Slot(Returned + j)' = s
      BY <3>3, <1>13, <1>15
    <3> QED BY <3>4
  <2>4. Visible(q)'
    BY <2>2, <2>3, <1>12 DEF Visible
  <2> QED BY <2>1, <2>4, <1>14
<1>22. Contents'
  <2>1. ASSUME NEW j \in 0 .. Waiting' - 1
        PROVE  Lies(Slot(Returned + j), sent[Len(got) + 1 + j])'
    <3>1. /\ j + 1 \in 0 .. w - 1 /\ r + (j + 1) = (r + 1) + j
          /\ g + 1 + (j + 1) = (g + 1) + 1 + j
      <4>1. j \in 0 .. (w - 1) - 1
        BY <1>14
      <4> QED BY <4>1
    <3>2. Lies(Slot(Returned + (j + 1)), sent[Len(got) + 1 + (j + 1)])
      BY <3>1, <1>1, Zenon DEF RingInv, Contents
    <3>3. PICK s, u : s = Slot((r + 1) + j) /\ u = sent[(g + 1) + 1 + j]
      BY SMTT(90)
    <3>4. Lies(s, u)
      BY <3>1, <3>2, <3>3, <1>1, <1>3
    <3>5. Slot(Returned + j)' = s /\ sent'[Len(got') + 1 + j] = u
      BY <3>3, <1>6, <1>12, <1>13, <1>15, SMTT(90)
    <3> QED BY <3>4, <3>5, <1>15
  <2>2. ASSUME NEW j \in 0 .. Len(prod'.staged) - 1
        PROVE  Lies(Slot(Returned + Waiting + j), prod.staged[j + 1])'
    BY <1>12, <1>15, <1>19 DEF RingInv, Contents
  <2> QED BY <2>1, <2>2 DEF Contents
<1>23. RingInv'
  BY <1>12, <1>16, <1>17, <1>18, <1>20, <1>21, <1>22 DEF RingInv
<1>24. Len(got) < Len(sent)
  BY <1>3, <1>4, Zenon
<1> QED BY <1>5, <1>23, <1>24

----------------------------------------------------------------------------
(* The theorems. *)

\* Every step keeps the invariant.
LEMMA StepInv ==
    ASSUME RingInv, [Next]_vars
    PROVE  RingInv'
<1>1. CASE Submit
  BY <1>1, SubmitInv
<1>2. CASE BeginBatch
  BY <1>2, BeginBatchInv
<1>3. CASE Push
  BY <1>3, PushInv
<1>4. CASE Publish
  BY <1>4, PublishInv
<1>5. CASE DropBatch
  BY <1>5, DropBatchInv
<1>6. CASE Fence
  BY <1>6, FenceInv
<1>7. CASE UNCHANGED vars
  <2>1. UNCHANGED <<mem, buf, sent, got>> /\ prod' = prod /\ cons' = cons /\ issued' = issued
    BY <1>7, SMTT(90) DEF vars
  <2>2. RingTypeOK'
    BY <2>1 DEF RingInv, RingTypeOK
  <2>3. Counts' /\ Heads' /\ Contents' /\ Tails'
    BY <2>1, StillRing, ZenonT(90) DEF RingInv, Counts, Heads, Contents
  <2>4. \E v \in 0 .. Waiting' : Visible(v)'
    BY <2>1, StillRing DEF RingInv, Visible
  <2>5. (cons.pc = "entry" => cons.slot = Slot(Returned))'
    BY <2>1, StillRing DEF RingInv
  <2> QED BY <2>2, <2>3, <2>4, <2>5, Zenon DEF RingInv
<1>8. CASE PopEmpty
  BY <1>7, <1>8 DEF PopEmpty
<1>9. CASE PopLoadHead
  BY <1>9, PopLoadHeadInv
<1>10. CASE PopLoadIndex
  BY <1>10, PopLoadIndexInv
<1>11. CASE PopCopy
  BY <1>11, PopCopyInv
<1>12. CASE Landing
  <2>1. PICK c \in Cores : \E i \in DOMAIN buf[c] : Land(c, i)
    BY <1>12 DEF Landing
  <2>2. CASE c = "producer"
    BY <2>1, <2>2, LandProducerInv
  <2>3. CASE c = "consumer"
    BY <2>1, <2>3, LandConsumerInv
  <2> QED BY <2>2, <2>3 DEF Cores
<1> QED BY <1>1, <1>2, <1>3, <1>4, <1>5, <1>6, <1>7, <1>8, <1>9, <1>10, <1>11, <1>12
        DEF Next, Produce, Consume

\* RingInv holds in every reachable state, for every capacity and every
\* modulus that is a multiple of it.
THEOREM RingInvariant == Spec => []RingInv
<1>1. Init => RingInv
  BY InitInv
<1>2. RingInv /\ [Next]_vars => RingInv'
  BY StepInv
<1> QED BY <1>1, <1>2, PTL DEF Spec

\* No store of the producer is on its way to the slot a pop is reading.
THEOREM NoRace == Spec => []NoEntryRace
<1>1. RingInv => NoEntryRace
  <2>1. ASSUME RingInv, cons.pc \in {"index", "entry"}
        PROVE  \A i \in DOMAIN buf["producer"] :
                  buf["producer"][i].loc \notin {EntryAt(SlotOf(View("consumer", TAIL))),
                                                IndexAt(SlotOf(View("consumer", TAIL)))}
    <3>1. Settled(Slot(Returned))
      BY <2>1, Front
    <3>2. View("consumer", TAIL) = At(Returned)
      BY <2>1, Views DEF RingInv
    <3> QED BY <3>1, <3>2 DEF Settled, Slot, Unlanded
  <2> QED BY <2>1 DEF NoEntryRace
<1> QED BY <1>1, RingInvariant, PTL

\* Neither end ever computes a distance above the capacity.
THEOREM CorruptIsUnreachable == Spec => []NeverCorrupt
<1>1. ASSUME RingInv PROVE NeverCorrupt
  <2>1. Returned \in Nat /\ Waiting \in Nat /\ Returned + Waiting \in 0 .. Capacity
    BY <1>1, Shapes DEF RingInv
  <2>2. Used(View("producer", HEAD)) <= Capacity
    <3>1. View("producer", HEAD) = At(Returned + Waiting)
      BY <1>1, Views DEF RingInv
    <3>2. WrappingSub(At(Returned + Waiting), mem[TAIL]) = Returned + Waiting
      BY <1>1, <2>1, Positions DEF RingInv, RingTypeOK
    <3> QED BY <3>1, <3>2, <2>1 DEF Used
  <2>3. prod.pc = "batch" => Used(NextPosition) <= Capacity
    <3>1. ASSUME prod.pc = "batch" PROVE Used(NextPosition) <= Capacity
      <4>1. PICK n \in 0 .. Capacity : NextPosition = At(n)
        BY <1>1, <3>1, NextIs
      <4>2. WrappingSub(At(n), mem[TAIL]) = n
        BY <1>1, Positions DEF RingInv, RingTypeOK
      <4> QED BY <4>1, <4>2 DEF Used
    <3> QED BY <3>1
  <2>4. WrappingSub(mem[HEAD], View("consumer", TAIL)) <= Capacity
    <3>1. PICK r \in Nat, w \in Nat, v \in 0 .. Waiting :
              r = Returned /\ w = Waiting /\ r + w \in 0 .. Capacity /\ Visible(v)
      BY <1>1, <2>1 DEF RingInv
    <3>2. v \in Nat /\ r + v <= Capacity /\ v <= Capacity
      BY <3>1, Constants
    <3>3. WrappingSub(At(r + v), At(r)) = v
      BY <1>1, <3>2, Distance DEF RingInv, RingTypeOK
    <3>4. View("consumer", TAIL) = At(r) /\ mem[HEAD] = At(r + v)
      BY <1>1, <3>1, Views DEF RingInv, Visible
    <3> QED BY <3>2, <3>3, <3>4
  <2> QED BY <2>2, <2>3, <2>4 DEF NeverCorrupt
<1> QED BY <1>1, RingInvariant, PTL

\* A sequence is a prefix of its extensions.
LEMMA Extends ==
    ASSUME NEW a \in Seq(Nat), NEW b \in Seq(Nat)
    PROVE  SubSeq(a \o b, 1, Len(a)) = a
<1>1. /\ Len(a) \in Nat /\ Len(b) \in Nat
      /\ a \o b \in Seq(Nat) /\ Len(a \o b) = Len(a) + Len(b)
      /\ \A j \in 1 .. Len(a) + Len(b) : (a \o b)[j] = IF j <= Len(a) THEN a[j] ELSE b[j - Len(a)]
  BY ConcatProperties
<1> DEFINE d == a \o b
           e == SubSeq(d, 1, Len(a))
<1> HIDE DEF d
<1>2. \A i \in 1 .. Len(a) : i \in 1 .. Len(a) + Len(b) /\ d[i] = a[i] /\ d[i] \in Nat
  BY <1>1 DEF d
<1>3. e \in Seq(Nat) /\ Len(e) = Len(a) /\ \A i \in 1 .. Len(a) : e[i] = d[i]
  BY <1>1, <1>2 DEF d
<1> HIDE DEF e
<1>4. e = a
  BY <1>2, <1>3, SeqEqual
<1> QED BY <1>4 DEF e, d

\* Every step of the ring is a step of the bounded first-in first-out queue
\* of its published entries, or leaves the queue alone.
THEOREM RingIsFifo == Spec => RefinesFifo
<1>1. Init => Fifo!Init
  BY DEF Init, Fifo!Init
<1> DEFINE Bounded == Len(sent) - Len(got) <= Capacity
<1>4. RingInv => Bounded
  <2>1. ASSUME RingInv PROVE Bounded
    <3>1. Returned \in Nat /\ Waiting \in Nat /\ Returned + Waiting \in 0 .. Capacity
      BY <2>1, Shapes DEF RingInv
    <3>2. Waiting <= Capacity
      BY <3>1, Constants
    <3> QED BY <3>2 DEF Waiting
  <2> QED BY <2>1
<1>2. ASSUME RingInv, Bounded', [Next]_vars
      PROVE  [Fifo!Next]_<<sent, got>>
  <2>1. /\ sent \in Seq(Nat) /\ Len(sent) \in Nat /\ Len(got) \in Nat
        /\ prod.staged \in Seq(Nat) /\ issued \in Nat
    BY <1>2 DEF RingInv, RingTypeOK
  <2>2. Len(sent') - Len(got') <= Capacity
    BY <1>2
  <2>3. CASE Submit
    <3>1. PICK e \in Nat : sent' = Append(sent, e)
      <4>1. issued + 1 \in Nat
        BY <2>1
      <4> QED BY <2>3, <4>1 DEF Submit
    <3>2. Len(sent') = Len(sent) + 1
      BY <2>1, <3>1, AppendProperties
    <3>3. SubSeq(sent', 1, Len(sent)) = sent
      <4>1. <<e>> \in Seq(Nat) /\ sent' = sent \o <<e>>
        BY <2>1, <3>1, AppendIsConcat
      <4> QED BY <2>1, <4>1, Extends
    <3>4. Len(sent') > Len(sent)
      BY <2>1, <3>2
    <3> QED BY <2>2, <2>3, <3>3, <3>4, Zenon DEF Submit, Fifo!Next, Fifo!Publish
  <2>4. CASE Publish
    <3>1. sent' = sent \o prod.staged /\ got' = got /\ prod.staged # <<>>
      BY <2>4 DEF Publish
    <3>2. Len(sent') = Len(sent) + Len(prod.staged) /\ Len(prod.staged) \in Nat
      BY <2>1, <3>1, ConcatProperties
    <3>3. SubSeq(sent', 1, Len(sent)) = sent
      BY <2>1, <3>1, Extends
    <3>4. Len(prod.staged) # 0
      BY <2>1, <3>1, EmptySeq
    <3>5. Len(sent') > Len(sent)
      <4>1. PICK a \in Nat, b \in Nat : a = Len(sent) /\ b = Len(prod.staged)
        BY <2>1, <3>2
      <4>2. b # 0
        BY <4>1, <3>4, Zenon
      <4>3. a + b > a
        BY <4>2
      <4> QED BY <4>1, <4>3, <3>2, Zenon
    <3> QED BY <2>2, <3>1, <3>3, <3>5, Zenon DEF Fifo!Next, Fifo!Publish
  <2>5. CASE PopCopy
    <3>1. Len(got) < Len(sent) /\ got' = Append(got, sent[Len(got) + 1]) /\ sent' = sent
      BY <1>2, <2>5, PopCopyInv DEF PopCopy
    <3> QED BY <3>1 DEF Fifo!Next, Fifo!Take
  <2>6. CASE BeginBatch \/ Push \/ DropBatch \/ Fence \/ PopEmpty \/ PopLoadHead \/ PopLoadIndex
             \/ Landing \/ UNCHANGED vars
    <3>1. sent' = sent /\ got' = got
      BY <2>6 DEF BeginBatch, Push, DropBatch, Fence, PopEmpty, PopLoadHead, PopLoadIndex,
                  Landing, Land, vars
    <3> QED BY <3>1
  <2> QED BY <1>2, <2>3, <2>4, <2>5, <2>6 DEF Next, Produce, Consume
<1>3. RingInv /\ Bounded' /\ [Next]_vars => [Fifo!Next]_<<sent, got>>
  BY <1>2
<1> HIDE DEF Bounded
<1> QED BY <1>1, <1>3, <1>4, RingInvariant, PTL DEF Spec, RefinesFifo, Fifo!Spec
=============================================================================
