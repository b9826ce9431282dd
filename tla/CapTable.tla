------------------------------- MODULE CapTable -------------------------------
(***************************************************************************)
(* The capability table of one component (kernel/src/cap.rs) with the      *)
(* system calls that reach it (kernel/src/process.rs): derive, revoke and  *)
(* map.  A call runs to its end on the core that owns the table, so each   *)
(* is one action.                                                          *)
(*                                                                         *)
(* A handle is an index and a generation.  A slot keeps its generation     *)
(* when it is emptied, one higher, and is never used again once that       *)
(* reaches Retired.  A table that is full buys a page of SlotsPerPage      *)
(* slots with a frame of the first untyped region it holds.                *)
(*                                                                         *)
(* Memory is counted in frames: an untyped region is the frames            *)
(* object .. object+extent-1, and a watermark is its object.               *)
(***************************************************************************)
EXTENDS Integers, FiniteSets

CONSTANTS
    BaseSlots,      \* TABLE_SLOTS: the slots every table has
    SlotsPerPage,   \* SLOTS_PER_PAGE: the slots one bought page adds
    MaxPages,       \* MAX_PAGES: the pages a table may buy
    Retired,        \* RETIRED_GENERATION: the generation that is never issued
    Grants,         \* what the frame puts in a table: kind, rights, object, extent
    Asks,           \* the sets of rights a derive may ask for
    Addresses,      \* the pages of the component's address space
    Unmapped        \* NOT_MAPPED: what a slot records when it is mapped nowhere

VARIABLES
    table,     \* cap::Table: slot, pages, floor, posts
    spaces,    \* the page tables: the handle each page was mapped on, or None
    dead,      \* history: every handle that was issued and is gone
    heard,     \* history: the handles the holder was told of and not told are gone
    told       \* the notice the last step posted, or None

vars == <<table, spaces, dead, heard, told>>

AllRights == {"READ", "WRITE", "EXECUTE", "DERIVE", "REVOKE", "GRANT"}
Kinds == {"Untyped", "Frame", "Endpoint", "AddressSpace"}
FirstGeneration == 1
None == [index |-> 0, generation |-> 0]

ASSUME TableAssumption ==
    /\ BaseSlots \in Nat /\ SlotsPerPage \in Nat /\ MaxPages \in Nat
    /\ Retired \in Nat /\ Retired > FirstGeneration
    /\ Unmapped \notin Addresses
    /\ Asks \subseteq SUBSET AllRights
    /\ Grants \subseteq [kind: Kinds, rights: SUBSET AllRights, object: Nat, extent: Nat]

Handles == [index: Nat, generation: Nat]

-----------------------------------------------------------------------------
(* The pending notice of a slot (abi/src/control.rs). *)

Pendings == {"Quiet", "Granted", "Revoked", "PeerGone", "GrantedThenPeerGone"}

Granted(n) == IF n = "Quiet" THEN "Granted" ELSE n

\* A grant nobody was told of and its revocation leave nothing to tell.
Revoked(n) == IF n \in {"Granted", "GrantedThenPeerGone"} THEN "Quiet" ELSE "Revoked"

PeerGone(n) ==
    CASE n \in {"Granted", "GrantedThenPeerGone"} -> "GrantedThenPeerGone"
      [] n = "Revoked" -> "Revoked"
      [] OTHER -> "PeerGone"

NoticeOf(n) ==
    CASE n \in {"Granted", "GrantedThenPeerGone"} -> "GRANTED"
      [] n = "PeerGone" -> "PEER_GONE"
      [] OTHER -> "REVOKED"

Drained(n) == IF n = "GrantedThenPeerGone" THEN "PeerGone" ELSE "Quiet"

-----------------------------------------------------------------------------
(* Slots and handles. *)

Slots == [kind: Kinds \cup {"Empty"}, rights: SUBSET AllRights, generation: Nat,
          parent: Handles, object: Nat, extent: Nat,
          mapped: Addresses \cup {Unmapped}, notice: Pendings]

Fresh(generation) ==
    [kind |-> "Empty", rights |-> {}, generation |-> generation, parent |-> None,
     object |-> 0, extent |-> 0, mapped |-> Unmapped, notice |-> "Quiet"]

Capacity(t) == BaseSlots + t.grown * SlotsPerPage
Indices(t) == 0 .. Capacity(t) - 1
Occupied(s) == s.kind # "Empty"
Live(t) == {i \in Indices(t) : Occupied(t.slot[i])}
HandleAt(t, i) == [index |-> i, generation |-> t.slot[i].generation]
Held(t) == {HandleAt(t, i) : i \in Live(t)}

Least(S) == CHOOSE i \in S : \A j \in S : i <= j

\* What a submission carrying h earns.
Verdict(t, h) ==
    IF h.generation = 0 \/ h.index \notin Indices(t) THEN "NO_SUCH_CAP"
    ELSE IF h.generation < t.slot[h.index].generation THEN "REVOKED"
    ELSE IF h.generation > t.slot[h.index].generation THEN "NO_SUCH_CAP"
    ELSE IF ~Occupied(t.slot[h.index]) THEN "NO_SUCH_CAP"
    ELSE "FOUND"

Resolves(t, h) == Verdict(t, h) = "FOUND"

InvokeAny(t, h, asked) == Resolves(t, h) /\ asked \subseteq t.slot[h.index].rights

-----------------------------------------------------------------------------
(* What the operations make of a table. *)

VacancyWithPending(t) ==
    {i \in Indices(t) : ~Occupied(t.slot[i]) /\ t.slot[i].generation # Retired}

\* The slots a capability may be placed in: a notice that is still owed keeps
\* its slot.
Vacancies(t) ==
    {i \in Indices(t) :
        /\ ~Occupied(t.slot[i])
        /\ t.slot[i].generation # Retired
        /\ t.slot[i].notice = "Quiet"}

Placed(t, c, parent) ==
    LET i == Least(Vacancies(t))
        n == t.slot[i].notice
    IN  [t EXCEPT !.slot[i] =
            [kind |-> c.kind, rights |-> c.rights, generation |-> t.slot[i].generation,
             parent |-> parent, object |-> c.object, extent |-> c.extent,
             mapped |-> Unmapped, notice |-> IF t.posts THEN Granted(n) ELSE n]]

Cleared(t, s) ==
    [Fresh(IF s.generation < Retired THEN s.generation + 1 ELSE s.generation)
        EXCEPT !.notice = IF t.posts THEN Revoked(s.notice) ELSE s.notice]

Swept(t, condemned) ==
    [t EXCEPT !.slot =
        [i \in Indices(t) |-> IF i \in condemned THEN Cleared(t, t.slot[i]) ELSE t.slot[i]]]

\* A set of slots the descendants' loop could not add to.
Closed(t, h, S) ==
    \A i \in Live(t) :
        LET p == t.slot[i].parent IN
        (p.generation # 0 /\ (p = h \/ (p.index \in S /\ p = HandleAt(t, p.index))))
            => i \in S

ChildrenOnly(t, h) == {i \in Live(t) : t.slot[i].parent = h}

\* Everything derived from h: the least set the loop cannot add to.
Descendants(t, h) ==
    {i \in Live(t) : \A S \in SUBSET Live(t) : Closed(t, h, S) => i \in S}

\* The untyped regions that can pay for a page.
Payers(t) ==
    {i \in Live(t) : /\ t.slot[i].kind = "Untyped"
                     /\ "DERIVE" \in t.slot[i].rights
                     /\ t.slot[i].extent >= 1}

CanGrow(t) == t.grown < MaxPages /\ Payers(t) # {}

Carved(t, i) ==
    LET s == t.slot[i] IN
    [t EXCEPT !.slot[i] = [s EXCEPT !.object = s.object + 1, !.extent = s.extent - 1]]

GrownUncharged(t) ==
    LET account == Least(Payers(t)) IN
    [t EXCEPT !.slot = [i \in 0 .. Capacity(t) + SlotsPerPage - 1 |->
                            IF i \in Indices(t) THEN t.slot[i] ELSE Fresh(t.floor)],
              !.pages = @ \cup {t.slot[account].object},
              !.grown = @ + 1]

Grown(t) ==
    LET account == Least(Payers(t))
        bought == [slot |-> [i \in 0 .. Capacity(t) + SlotsPerPage - 1 |->
                                IF i \in Indices(t) THEN t.slot[i] ELSE Fresh(t.floor)],
                   pages |-> t.pages \cup {t.slot[account].object},
                   grown |-> t.grown + 1, floor |-> t.floor, posts |-> t.posts]
    IN  Carved(bought, account)

-----------------------------------------------------------------------------
(* The actions. *)

Empty == [slot |-> [i \in 0 .. BaseSlots - 1 |-> Fresh(FirstGeneration)],
          pages |-> {}, grown |-> 0, floor |-> FirstGeneration, posts |-> FALSE]

Init ==
    /\ table = Empty
    /\ spaces = [a \in Addresses |-> None]
    /\ dead = {} /\ heard = {} /\ told = None

Becomes(t) ==
    /\ table' = t
    /\ dead' = dead \cup (Held(table) \ Held(t))

Frames(s) == IF s.kind \in {"Untyped", "Frame"} THEN s.object .. s.object + s.extent - 1 ELSE {}

\* The frame grants memory its allocator has just handed it: nothing held
\* names it and no page of the table is made of it.
Grant(c) ==
    /\ Vacancies(table) # {}
    /\ \A i \in Live(table) : Frames(table.slot[i]) \cap Frames(c) = {}
    /\ table.pages \cap Frames(c) = {}
    /\ Becomes(Placed(table, c, None))
    /\ told' = None
    /\ UNCHANGED <<spaces, heard>>

\* derive: a full table grows first, an untyped region gives a frame and any
\* other capability a copy.  A page that is bought stays bought when what
\* follows is refused.
Derive(h, asked) ==
    /\ InvokeAny(table, h, {"DERIVE"})
    /\ asked \subseteq table.slot[h.index].rights
    /\ Vacancies(table) # {} \/ CanGrow(table)
    /\ LET roomy == IF Vacancies(table) # {} THEN table ELSE Grown(table)
           from == roomy.slot[h.index]
           carves == from.kind = "Untyped"
           c == [kind |-> IF carves THEN "Frame" ELSE from.kind, rights |-> asked,
                 object |-> from.object, extent |-> IF carves THEN 1 ELSE from.extent]
           retyped == IF carves THEN Carved(roomy, h.index) ELSE roomy
       IN  IF carves /\ from.extent = 0
           THEN Becomes(roomy)
           ELSE IF Vacancies(retyped) = {} THEN Becomes(retyped)
           ELSE Becomes(Placed(retyped, c, h))
    /\ told' = None
    /\ UNCHANGED <<spaces, heard>>

\* process::revoke: condemn, withdraw every recorded mapping, sweep.
Revoke(h) ==
    /\ InvokeAny(table, h, {"REVOKE"})
    /\ LET condemned == Descendants(table, h)
           withdrawn == {table.slot[i].mapped : i \in condemned}
       IN  /\ Becomes(Swept(table, condemned))
           /\ spaces' = [a \in Addresses |-> IF a \in withdrawn THEN None ELSE spaces[a]]
    /\ told' = None
    /\ UNCHANGED heard

\* relinquish: the descendants and the name itself.  Its callers hold a
\* supervisor's table, and nothing in one is mapped.
Relinquish(h) ==
    /\ InvokeAny(table, h, {"REVOKE"})
    /\ LET condemned == Descendants(table, h) \cup {h.index} IN
       /\ \A i \in condemned : table.slot[i].mapped = Unmapped
       /\ Becomes(Swept(table, condemned))
    /\ told' = None
    /\ UNCHANGED <<spaces, heard>>

\* process::map_frame: the page table first, then note_mapping, which refuses
\* a capability that already has an address and leaves the page mapped.  A page
\* is readable, and not both writable and executable.
MapFrame(h, space, asked, a) ==
    /\ asked \subseteq {"READ", "WRITE", "EXECUTE"}
    /\ InvokeAny(table, h, asked) /\ table.slot[h.index].kind = "Frame"
    /\ InvokeAny(table, space, {"WRITE"}) /\ table.slot[space.index].kind = "AddressSpace"
    /\ ~({"WRITE", "EXECUTE"} \subseteq asked) /\ "READ" \in asked
    /\ spaces[a] = None
    /\ spaces' = [spaces EXCEPT ![a] = h]
    /\ LET s == table.slot[h.index] IN
       table' = [table EXCEPT !.slot[h.index] =
                    [s EXCEPT !.mapped = IF s.mapped = Unmapped THEN a ELSE s.mapped]]
    /\ told' = None
    /\ UNCHANGED <<dead, heard>>

\* The frame calls it on an endpoint; the table does not look.
NotePeerGone(h) ==
    /\ Resolves(table, h)
    /\ table.posts
    /\ LET s == table.slot[h.index] IN
       table' = [table EXCEPT !.slot[h.index] = [s EXCEPT !.notice = PeerGone(s.notice)]]
    /\ told' = None
    /\ UNCHANGED <<spaces, dead, heard>>

\* next_slot_notice: the lowest slot that owes one.  The handle is made when the
\* notice is, so a revoked slot, which has moved on, tells its next generation
\* and the holder goes by the index.
NextSlotNotice ==
    LET owing == {i \in Indices(table) : table.slot[i].notice # "Quiet"}
        i == Least(owing)
        s == table.slot[i]
        kind == NoticeOf(s.notice)
    IN  /\ owing # {}
        /\ table' = [table EXCEPT !.slot[i] = [s EXCEPT !.notice = Drained(s.notice)]]
        /\ told' = [kind |-> kind, handle |-> HandleAt(table, i)]
        /\ heard' = CASE kind = "GRANTED" -> heard \cup {HandleAt(table, i)}
                      [] kind = "REVOKED" -> {h \in heard : h.index # i}
                      [] OTHER -> heard
        /\ UNCHANGED <<spaces, dead>>

\* The holder was given what is already there when it was started.
OwesNotices ==
    /\ ~table.posts
    /\ table' = [table EXCEPT !.posts = TRUE]
    /\ heard' = Held(table)
    /\ told' = None
    /\ UNCHANGED <<spaces, dead>>

ClearAllForgetful ==
    /\ Becomes([Empty EXCEPT !.slot =
            [i \in 0 .. BaseSlots - 1 |-> [Swept(table, Live(table)).slot[i] EXCEPT !.notice = "Quiet"]]])
    /\ spaces' = [a \in Addresses |-> None]
    /\ heard' = {} /\ told' = None

\* clear_all, at the end of the component: its pages go back, so the
\* generations of the slots on them are kept as the floor of the next ones.
\* Its address space is dismantled with it.
ClearAll ==
    LET swept == Swept(table, Live(table))
        reached == {swept.slot[i].generation : i \in Indices(table) \ (0 .. BaseSlots - 1)}
                        \cup {table.floor}
    IN  /\ Becomes([slot |-> [i \in 0 .. BaseSlots - 1 |->
                                [swept.slot[i] EXCEPT !.notice = "Quiet"]],
                    pages |-> {}, grown |-> 0,
                    floor |-> CHOOSE g \in reached : \A k \in reached : k <= g,
                    posts |-> FALSE])
        /\ spaces' = [a \in Addresses |-> None]
        /\ heard' = {} /\ told' = None

Next ==
    \/ \E c \in Grants : Grant(c)
    \/ \E h \in Held(table) : \E asked \in Asks : Derive(h, asked)
    \/ \E h \in Held(table) : Revoke(h)
    \/ \E h \in Held(table) : Relinquish(h)
    \/ \E h, space \in Held(table), asked \in Asks, a \in Addresses : MapFrame(h, space, asked, a)
    \/ \E h \in Held(table) : NotePeerGone(h)
    \/ NextSlotNotice
    \/ OwesNotices
    \/ ClearAll

Spec == Init /\ [][Next]_vars

-----------------------------------------------------------------------------
(* Properties. *)

TableOK(t) ==
    /\ t \in [slot: [Indices(t) -> Slots], pages: SUBSET Nat,
              grown: 0 .. MaxPages, floor: FirstGeneration .. Retired, posts: BOOLEAN]
    /\ \A i \in Indices(t) : t.slot[i].generation \in FirstGeneration .. Retired

\* The table, the page tables and the histories keep their types; the slots
\* are exactly those the base array and the bought pages hold, and no
\* generation passes Retired (cap.rs, Slot and Table).
TypeOK ==
    /\ TableOK(table)
    /\ spaces \in [Addresses -> Handles]
    /\ dead \subseteq Handles
    /\ heard \subseteq Handles

\* A handle that was revoked, given up or outlived its component earns REVOKED
\* for as long as its slot exists, whatever the slot is reused for, and never
\* finds anything again, not even after the page it was on is given back and
\* another is bought in its place (cap.rs, resolve_at, clear and clear_all).
DeadStayDead ==
    \A h \in dead :
        Verdict(table, h) = IF h.index \in Indices(table) THEN "REVOKED" ELSE "NO_SUCH_CAP"

WithinParent(t) ==
    \A i \in Live(t) :
        LET p == t.slot[i].parent IN
        p # None => /\ Resolves(t, p)
                    /\ t.slot[i].rights \subseteq t.slot[p.index].rights

\* A derived capability never outlives what it was derived from and never
\* holds a right its parent does not (cap.rs, derive, condemn and relinquish).
DerivedWithinParent == WithinParent(table)

\* No frame is spent twice: what is left of an untyped region is named by no
\* other capability, the frames that hold the table itself are named by none,
\* and two capabilities over one frame descend from one another or from one
\* capability over that frame (cap.rs, retype and grow).
MemoryHasOneUse ==
    /\ \A i \in Live(table) : Frames(table.slot[i]) \cap table.pages = {}
    /\ \A i, j \in Live(table) :
        (i # j /\ Frames(table.slot[i]) \cap Frames(table.slot[j]) # {})
            => \E k \in {i, j} : LET p == table.slot[k].parent IN
                    /\ Resolves(table, p)
                    /\ table.slot[p.index].kind = "Frame"
                    /\ table.slot[p.index].object = table.slot[k].object

\* A revocation withdraws the page a slot records, so a recorded page must be
\* one that was mapped on this very capability: otherwise a revoke would take
\* away somebody else's page or find none (process.rs, withdraw; cap.rs,
\* note_mapping).
RecordedMappingsStand ==
    \A i \in Live(table) :
        table.slot[i].mapped # Unmapped => spaces[table.slot[i].mapped] = HandleAt(table, i)

HeardOf(i) == {h \in heard : h.index = i}

\* The name a slot had before it was emptied.
LastHandleAt(t, i) == [index |-> i, generation |-> t.slot[i].generation - 1]

\* Coalesced notices lose nothing: the handles the holder has been told of, with
\* what the slots still owe it, are exactly the ones it holds.  A notice of a
\* grant or of a peer's death names a capability it has at that moment.  A notice
\* of a revocation comes of a handle that is dead and names the generation after
\* it, which nothing has: the code tells the slot and not, as
\* abi/src/control.rs:193 has it, the dead handle (abi/src/control.rs, Pending;
\* cap.rs, place, clear, vacancy and next_slot_notice).
LedgerAgrees ==
    /\ told # None =>
        IF told.kind = "REVOKED"
        THEN /\ ~Resolves(table, told.handle)
             /\ [told.handle EXCEPT !.generation = @ - 1] \in dead
        ELSE Resolves(table, told.handle)
    /\ table.posts =>
        \A i \in Indices(table) :
            CASE table.slot[i].notice \in {"Granted", "GrantedThenPeerGone"} ->
                    i \in Live(table) /\ HeardOf(i) = {}
              [] table.slot[i].notice = "Revoked" ->
                    i \notin Live(table) /\ HeardOf(i) = {LastHandleAt(table, i)}
              [] OTHER ->
                    HeardOf(i) = IF i \in Live(table) THEN {HandleAt(table, i)} ELSE {}
=============================================================================
