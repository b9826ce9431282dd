# A TLA+ model of F

F is a research operating system in Rust: a small kernel ("the frame"), a set
of `no_std` libraries that components link, and the components themselves
(drivers, a compositor, a supervisor, a store). This directory holds TLA+
modules that model its concurrent and crash-exposed parts, TLC configurations
that check them on small instances, and TLAPS proofs of what matters most.

## The system and its parts

| part | source | state | operations | what makes it hard |
|---|---|---|---|---|
| submission and completion rings | `ring/src/lib.rs` | head, tail, indices, entries; private cursors | submit, batch, publish, pop, post, take | two cores, wrapping 32-bit cursors, store buffers, a peer that lies about its cursor |
| doorbell and parking | `ring/src/doorbell.rs`, `kernel/src/doorbell.rs`, `user/compositor/src/component.rs` | wakeup flags, latch, halted cores | ring, arm, disarm, wait, answer | check-then-sleep races, coalesced interrupts |
| capability table | `kernel/src/cap.rs`, `abi/src/cap.rs`, `abi/src/control.rs` | slots, generations, bought pages, pending notices | grant, derive, grow, revoke, relinquish, map, drain, clear | reuse of slots, derivation trees, coalesced notices, one step of several failing |
| zoned store: map, marking, collection | `zone/src/{map,roots,mark,collect}.rs` | zones, live bytes, roots, bitmap, sweep | append, pin, mark, condemn, copy, recycle | writers, readers and the collector interleave; crashes |
| zoned store: publication and mount | `zone/src/{publish,mount}.rs` | root records in two conventional zones | commit, wrap, mount | torn tails, a crash between two device operations |
| zoned store: device queue | `zone/src/queue.rs` | waiting and in-flight operations | submit, hand over, complete | the collector must not delay an urgent read by more than one operation |
| registered buffers | `ring/src/{registry,buffers}.rs` | slots with generations, lent bits | register, resolve, release, retire | a retire while a buffer is lent |
| adoption and service | `ring/src/{adopt,mapping}.rs`, `ring/src/lib.rs` (`execute`, `Service`) | negotiated header, arena | adopt, drain, execute | epochs, a full completion ring |
| frame allocator | `kernel/src/mem.rs` | buddy bitmaps | alloc, free, split, merge | coalescing, double free |
| components, places, swaps | `kernel/src/component.rs`, `abi/src/swap.rs` | occupants, accounts, routing word | spawn, tear down, swap, abandon | a watermark that only rewinds; two occupants at once |
| supervision | `user/supervisor/src/policy.rs`, `kernel/src/supervisor.rs` | budgets, windows | decide, answer | restart storms |
| admission | `kernel/src/admit.rs`, `abi/src/reserve.rs` | reservations per core | admit, release | fixed-width arithmetic |
| shootdown, parking of cores | `kernel/src/smp.rs`, `kernel/src/arch/x86_64/ap.rs` | request and acknowledge words | shoot down, acknowledge | cross-core ordering |
| runtimes and core reclaim | `kernel/src/runtime.rs` | allocation, pending reclaims | lend, reclaim | a core taken back while work is queued |
| block, network, gpu, input drivers | `user/virtio-*`, `kernel/src/{blk,net,gpu,input}.rs` | pending queues, virtqueues | submit, complete, hand over | priorities, resets |
| compositor and scene | `user/compositor`, `scene/` | retained tree, dirty sets, frame latch | commit, reconcile, compose | a commit racing a frame |
| content store and index | `blob/`, `index/`, `generation/` | chunks, extents, generations | put, get, snapshot, select | deduplication against collection |
| synchronisation, deadlines, transfer | `abi/src/{sync,deadline,transfer}.rs` | wire records | promote, expire | |
| text, interface, semantics, input prediction | `text/`, `interface/`, `semantic/`, `input/` | pure algorithms | | |
| simulator, benchmarks, build tool | `sim/`, `bench/`, `xtask/` | test tooling | | |

How the parts meet: a client submits on a **ring** and rings a **doorbell**
when the serving component sleeps; what it may name is decided by its
**capability table**; the store keeps content in a **blob store** over a
**zone map**, publishes trees through **root zones**, finds them again at a
**mount**, and is cleaned by a **collector** whose device operations share a
**queue** with urgent reads. A component occupies a **place**, made of frames its
account paid for; its **core** is taken from it by a shootdown and a kill, a
client's **registered buffers** survive its driver, and a **supervisor** decides
what happens to a place whose occupant died.

## What is modelled

Each module is written from the code; `PROJECT.json` gives, for every
definition, the lines it stands for. A definition that stands just before
another and differs from it in one point (`HasRoomOffByOne` before `HasRoom`)
is a mistake one could make in that code: putting it in the place of its
neighbour breaks the property `PROJECT.json` pairs it with.

### Ring, BoundedFifo — the submission ring

One producer core and one consumer core over one mapping. `mem` is what both
can see, `buf` what each has stored and the other cannot see yet. A relaxed or
plain store may land ahead of earlier ones, a Release store may not, and a
SeqCst fence waits until the buffer is empty; loads happen in program order.
That is what the orderings in the code buy, and weaker than x86-64 gives. It
is not all of C11: a load is never delayed past a later one, which the code's
Acquire loads exclude wherever it matters.

| action | code |
|---|---|
| `Submit`, `BeginBatch`, `Push`, `Publish`, `DropBatch` | `Producer::submit`, `batch`, `Batch::push`, `publish`, dropping a batch |
| `Fence` | the fence of `doorbell_wanted` |
| `PopEmpty`, `PopLoadHead`, `PopLoadIndex`, `PopCopy` | the loads of `Consumer::pop`, one by one |
| `Landing` | a store reaches memory (hardware) |

`BoundedFifo` says what a ring is for: published entries come out once, in
order, and never more than the capacity is outstanding. `RefinesFifo` is that
specification as a property of `Ring`; `sent` and `got` are its history.
`RingProofs` proves it for every capacity.

### Wakeup — sleeping and being woken

The client's half of the handshake (publish, fence, load the flag, ring), the
compositor's serving loop (look for room, pop, arm, look again, wait), and the
core's half (`wait`, `answer`, the latch `PENDING`, the counts). Entries are
counted, not carried. Doorbells coalesce in the interrupt request register
`irr`. A stop is posted (`TellStop`) and rung for (`RingStop`) in two steps, on
the half of the boot that waits asleep. `Timer` ends a halt at any time, and no
property relies on it.

### CapTable — one component's capabilities

`table` is `cap::Table`: slots with generations, bought pages, the generation
floor, owed notices; `spaces` is the component's page tables. A system call
runs to its end on the core that owns the table, so each is one action:
`Grant`, `Derive` (with growth of the table and retyping of memory), `Revoke`,
`Relinquish`, `MapFrame`, `NotePeerGone`, `NextSlotNotice` (the drain),
`OwesNotices` (from now on the holder is told), `ClearAll` (the component ends and the next one starts). `dead`
and `heard` are histories the properties speak of; no action reads them.

### Collect — the collector

`disk` is the zone map, the device and the store's hash map; `roots` the pinned
roots and the open write sets; `mark` the marking; `cycle` the collector. One
call of `collect` is one of `MarkOne`, `Publish` (a finished
mark gives every zone its live count), `Select`, `Condemn`, `Reselect`, `Copy`,
`CommitCopies`, `WaitForReaders`, `Refuse`, `Recycle`; between any
two of them a client may open a write set, write, commit, abandon, unpin, or
hold and release a read, and `Begin` may start a cycle over an unfinished one.

Sizes are in blocks. The set of hashes still to visit is a set, since every
order of visits is allowed. The threshold denominator is 4 in the code and 1 in
the instance, which makes a zone with one live block of two worth sweeping.
`Written` and `PutObject` write block by block and child by child, so a device
that fills in the middle leaves what was written before. `InOrder` is the sorted
list of candidates, taken from its back. A root is an object or a generation's
record; both name chunks, and the mark walks into the first only. Of the three
invariants the reset guard asks about, the third is the queue's and is `ZoneQueue`'s
property. `own` is a history: what a publish wrote itself, and did not find stored.
Device errors other than a full device are left out.

### ZoneQueue — the queue in front of the device

Entries wait in rank order (class, deadline, arrival), one is inside the
device, and `collector_operation` drives the queue itself until its own entry
is through. `ahead` and `worst` are the counts the reset guard reads.

### Publish — root records and power cuts

A publish is taken apart into device operations: blobs, a FLUSH, the choice of
the zone, at a wrap the reset and the carry of `ROOT_CARRY` records and a FLUSH,
the record, a FLUSH. `Cut` keeps what FLUSHes cover and any subset of the rest;
the last operation in flight may be torn, and of any blob the header may land
without its content. A later scan takes such a header for the blob (`stubs`), so a
put of the same content writes nothing; and if the header was the last thing on
the device (`short`), the scan takes the record written next for its content
(`Astray`). `Remount` has the numbering of blocks from which both follow. A publish
is of a new tree, or tries the last one again. `harmed` is a history: a tree was
committed that a scan of the device does not find whole. `Mount` takes the newest record whose
tree resolves. `honest` is false for a device whose FLUSH does nothing: the
barriers inside a publish are then none, and what it wrote is durable only once
the publish is over. The caller numbers generations one above the one it holds.

### Remount — where blobs lie

The store's allocator and hash map over the logical-to-physical map, block by
block. `Cut` keeps a subset of what no FLUSH covers and may tear the last block;
`Mount` is `ZoneMap::remount` followed by the scan of `Store::mount`. Blocks of
content never look like headers. The records of one behaviour have one length.
`kept` and `lost` are histories: what was acknowledged when the power last went, and
the blobs the last mount found no good record of because of a header without its
content. Roots are `Publish`'s; here a commit is its first barrier.

### Cores — starting, shooting down, killing

Every core's mailbox, its place in the bring-up, its cached translations, and the
three words of the shootdown (`SHOOT_SEQ`, `SHOOT_PAGE`, `SHOOT_ACK`) with the
interrupt that carries it, load by load and store by store. The two callers that
depend on the answer are modelled with it: `withdraw` of a revocation, inside a
system call of the component, and `Killing::kill`, which takes the text away page
by page, joins the core and mints `PeerGone`. After a kill that failed `serve_ring3`
joins the core itself before the boot fails (`LateJoin`). Deadlines expire anywhere unless
the behaviour is `patient`. The comment on `shootdown` assumes one initiator at a
time; the model does not, because a kill may meet a revocation.

### BlockPath, Names — buffers through the block driver

A composition: a client's buffers (`ring/src/buffers.rs`), the driver's serving
loop with its registration table and journal (`user/virtio-blk`,
`ring/src/registry.rs`), the virtqueue with its poll limit, the frame that answers
the driver's translation requests, and the client in the frame that kills the
driver or swaps it for a successor. The device is external: it fetches what is
made available, and serves it through the remapping unit, late or not at all.

`Names` says what a registration table promises a client, whoever occupies the
place: a name means one page until it is spent, is never bound again, and only a
restart forgets. A swap is not a step of `Names`. `KeepsNames` is that
specification, with the table the client relies on (`Relied`: the predecessor's,
until the successor has replayed) as its `bound`; a swap that dropped an
overflowed journal counts as a restart, and `block_swap` shows what it forgets.

### Place — accounts and swaps

One place: the identity it runs, the occupant, the instance a swap has set aside,
and the account. An account is a watermark that a refund moves down without
looking, so an instance is the interval of frames charged for it and the question
is always whether what is refunded is what lies on top.

| action | code (`kernel/src/component.rs`) |
|---|---|
| `Fill`, `Refill` | `fill`; `Serving::spawn`: offer, spawn, mount |
| `TearDown` | `tear_down`, `retire_instance`, the deferred refund |
| `Kill` | a pass of `demonstrate` whose client killed the occupant |
| `SwapBegin`, `SwapRefused` | the pass that swaps; the offer the account cannot pay |
| `Commit`, `Abandon` | the pass that ends a swap, by what was replayed |
| `Finish`, `Fail` | the last pass; an error out of the loop, which ends the boot |

The needs of a module (`Offered`) and its own parts (`Parts`) are numbers of
frames. The capabilities behind them are `CapTable`'s.

### Supervise — a place and its supervisor

Extends `Place` with the board, the notice and the policy. The frame serves the
occupant, copies the two words it publishes, consults, consults again over the
same words, and performs a stop whose deadline has passed; a death is noted in the
supervisor's slot (`watch`), posted with its cause and consulted about. `Answer` is
`policy::answer`, `Decide` and `Fate` its parts, `Taken` what the assembler starts
before the policy is asked. The supervisor runs to its end before the frame serves
its ring, so a consultation is one action. The boot goes through these stages once
or twice; the model goes round for as long as its bounds allow.

A behaviour is either *driven* (the passes of `Place`) or *supervised*, as each
place of a boot is.

## Runs

Each run asks one question of one part. Every action of every module is taken
in some passing run.

| run | instance | what it shows |
|---|---|---|
| `ring` | 2 slots, cursors modulo 4, every starting cursor, 5 entries | the ring is a FIFO of its capacity under late and reordered stores (`RefinesFifo`), a slot is never written while it is copied (`NoEntryRace`), two honest ends never find it corrupt across a wrap (`NeverCorrupt`), every published entry is popped (`EveryEntryArrives`) |
| `wakeup` | submission ring of 2, completion ring of 1, 4 submissions | no core halts over work or a stop that nobody will ring for (`NoLostWakeup`), a delivered doorbell is spent once (`DoorbellSpentOnce`), every submission is taken and a stop is heard |
| `captable` | 2 slots and one page of 1, generations up to 3, 3 frames of memory, 2 addresses | dead handles stay dead (`DeadStayDead`), authority only narrows and falls with its parent (`DerivedWithinParent`), a frame has one use at a time (`MemoryHasOneUse`), coalesced notices lose nothing, a notice of a grant or a peer's death is true when it is read, and one of a revocation names the generation after a handle that died (`LedgerAgrees`) |
| `collect` | 3 zones of 2 blocks, an object and a generation's record of 1 block over one chunk of 2, one writer, one reader, one cycle | no step takes from a pinned root its record or, if it is an object, a chunk that could be read (`PinnedStaysReadable`), what an open publish wrote stays readable and in its write set (`OpenWritesSurvive`), a reader sees the block it resolved (`ReadersSeeWhatTheyResolved`), a cycle ends unless a pinned root's record cannot be read (`EveryCycleEnds`) |
| `zone_queue` | 4 entries of any class, 3 deadlines | an urgent entry is behind at most one collector operation, the one that was inside when it came; the collector's call returns |
| `publish` | root zones of 2, 4 or 5 blocks, a carry of 2, 7 publishes, 2 cuts, or 1 cut of a device without FLUSH | until a tree is committed that a scan does not find whole: a mount finds the old root or the new one, whole (`EitherOldOrNew`); the root the machine runs is on stable media with its tree (`HeldIsDurable`); with an honest FLUSH no root is refused for its tree (`NothingIsUnresolved`). After such a commit none of the three is claimed |
| `remount` | 3 zones of 3 blocks, 3 contents, records of 1 or 2 blocks, 2 cuts, each of which may tear | what was acknowledged before the first cut is readable after it; after any cut what is acknowledged (`AcknowledgedIsReadable`) or put (`PutIsReadable`) is readable, unless a mount found a header without its content, of that blob or in the block before its record |
| `cores` | 3 cores, 2 pages of text, 2 components, a revocation | a shootdown that answered left the page in no table and no core (`ShotIsForgotten`), evidence of death is given only of the dead (`EvidenceMeansStopped`), a kill lands (`KillLands`) |
| `block_path` | 2 pages, 2 slots with generations up to 3, a journal of 2, a queue of 1, one late poll, one kill, one swap | names survive a swap (`KeepsNames`, `InheritedNamesResolve`), the remapping unit follows the table, a device that answers in time holds only buffers in flight and an answered read was read, a buffer in flight is owed one answer, and answers come, swaps and stops end (`EveryWaitEnds`) |
| `supervise` | modules of 3 and 4 frames, accounts of 5 and 8, with and without a window, 4 kills or swaps; 2 restarts in a window of 2 ticks, 6 occupants | the account balances (`AccountBalances`), no living frame is refunded (`LivingFramesAreHeld`), spawns are not refused, restarts are the policy's and bounded, one frame is one timeout, and a named timeout is replaced |
| `collect_reuse`, `block_swap` | as above | disagreements between code and comments, below |

A property that TLAPS proves for every instance and that needs no run to say what
it means is not repeated in one: the types of `Wakeup`, `CapTable`, `ZoneQueue`,
`Cores` and `Place`, `AnswerAlwaysFits`, `RecordedMappingsStand`,
`CountsAreOfTheWaiting`, `CollectorNeverOvertakes`, `PlaceRunsItsManifest` and
`EveryDeathIsHeard`. The modules without proofs state no type invariant: the
declarations say what each variable holds.

**Why these bounds are enough to be interesting.** Two slots make a ring both
full and partly full; with cursors modulo four every wrap is crossed, and five
entries reuse each slot. A completion ring of one makes room run out. Three
generations let a slot be reused and then retire; one bought page can be given
back and bought again. In three zones of two blocks the chunk straddles a zone
boundary after an odd number of blocks, copies can run out of room, and one cycle
sweeps content that is then put again; its safety was run once with a second cycle,
begun over an unfinished one too (6.1 million states), and the theorems about it bound
no cycles. Seven
publishes wrap the root zones in both directions with two cuts anywhere, in zones
of four blocks at every publish; zones of two blocks meet the refusal. One cut is
enough to leave a header that a second publish trips over. Three zones of three
blocks make a record of two straddle, and a second cut has the scan step over a
record acknowledged after the first. Three cores are one initiator, one that shoots back and
one that both ask; `cores` with two revocations was run once as well (1.9 million
states). Two pages over a journal of two overflow it with the third
request; `block_path` with four requests and a journal of three was run once as
well (1.9 million states). In an account of eight both modules fit and a swap
begins; in one of five the offer for the successor is refused, or its spawn is.
Six occupants are two restarts in one window, two in the next, and one more.
`publish`, `remount`, `zone_queue` and `supervise` end when their bound is spent
or the boot has, so deadlock is not checked there; in the others it is.

**Fairness**, where a run checks that something eventually happens:

- `ring`: stores land and the consumer keeps popping; a producer past its
  publish completes its fence. Nothing is assumed of the submitting side.
- `wakeup`: a core that is not halted runs, a store lands, a pending interrupt
  is delivered, a client reaps its answers. The timer is not assumed to tick, so
  it cannot hide a lost wakeup.
- `collect`: the caller steps while it is told there is more to do, and a reader
  lets go of what it read. Clients need not do anything.
- `zone_queue`: only inside `collector_operation`, which is a loop that hands
  over or completes until it returns.
- `cores`: a core runs its handler and what it is handed, the boot processor
  carries on with a kill it began, a component without text faults.
- `block_path`: the driver's loop runs, the frame answers, the device serves; the
  client need not ask for anything.
- `supervise`: the frame carries on with a consultation it began. Nothing is
  assumed of the occupant or of time.

All fairness is weak: each of these is a program that runs on, or hardware.

## Disagreements between the code and its comments

Each is a run in which TLC finds a behaviour of the code that a comment rules
out; `PROJECT.json` quotes the comments.

- `collect_reuse`: `Store::put` answers from its hash map for content whose zone
  was reset; the root published over it does not resolve
  (`blob/src/store.rs:421`).
- `block_swap`: a journal that overflowed is handed over as an empty one. The
  driver's refusal is read by nobody, the swap commits with no record replayed,
  and the client's names resolve to nothing or, once slots are refilled, to
  another page (`user/virtio-blk/src/component.rs:466`).

Met while modelling and not given a run:

- the notice of a revocation carries the slot's *next* generation, because it is
  built when drained and `clear` has already moved the slot on
  (`kernel/src/cap.rs:725`); `abi/src/control.rs:193` promises the dead handle.
  `LedgerAgrees` says what the notice names in fact;
- a second mapping of one capability is refused after the page is in the live page
  tables, and stays there, recorded by no slot (`kernel/src/process.rs:3716`
  against `cap.rs:325-331`);
- a root pinned during a sweep can end the cycle with the zone condemned, a state
  no later cycle selects (`zone/src/collect.rs:386` against `22-24`);
- after a cut that keeps a header of two blocks and loses its content, a publish
  and a second cut, the scan of the second mount steps over an acknowledged record
  (`zone/src/map.rs:224` against `190-192`, "re-derives the numbering exactly").
  `AcknowledgedIsReadable` excepts that record by name (`Lost`); without the
  exception TLC finds it violated. The root over it is then refused, or an older one
  mounted: that `publish.rs:8` puts every hash on stable media is not enough for a
  mount to find it, and the properties of `Publish` stop at its commit (`harmed`):
  without that TLC finds each of the three violated;
- zones are sorted by ascending live bytes and taken from the back, so the
  fullest candidate goes first (`collect.rs:379`, `401`);
- the mark descends into records of the object kind only (`mark.rs:306`), while
  `mount.rs:36` says a generation's content is an object head and child hashes too,
  and tests publish roots of that kind: the children are swept while the root is
  pinned. `collect` has such a root, and `PinnedStaysReadable` claims its record and
  not its children;
- a pinned root whose record cannot be read is sent back to the mark by every
  `catch_up` and visited by none, since the mark has seen it: the cycle then steps
  for ever (`collect.rs:335`), which `EveryCycleEnds` excepts;
- `publish.rs:73-78` calls the range between the store's `free` at the opening and
  now exactly what this publish appended. With two publishes open it holds the
  other's blocks as well, which may be swept already; the reset guard then refuses
  until the publish is closed. Nothing is lost, the write set is only too large;
- `hold_read` takes readers of a condemned zone, which `invariants.rs:112-115`
  says it does not (`map.rs:339`);
- after a cut inside the carry of a wrap both root zones have the same highest
  generation, which `publish.rs:250-251` rules out ("the only tie is *both
  empty*"). The tie goes to zone a, which may hold fewer records than b: in zones
  of `2 * ROOT_CARRY` blocks, with one more torn record, the next wrap resets b and
  carries what a has, and a single generation is left to roll back to, against
  `publish.rs:229-233` ("somewhere to go whatever point of the cycle"). What does
  hold is `HeldIsDurable`;
- a root zone of exactly `2 * ROOT_CARRY` blocks wraps at every publish
  (`publish.rs:271-286`);
- two cuts of a device without FLUSH can give one generation to two records, of
  which the mount keeps either (`mount.rs:151`);
- after a cut that tears a record, putting its content again deduplicates onto
  the torn copy (`store.rs:421`; the comment at `245` has two records of one hash
  "hold the same bytes by construction"), which `PutIsReadable` excepts; and a put refused in the middle of a record
  leaves the allocator where every later put is refused too (`store.rs:442`);
- two initiators of a shootdown can each wait for the other inside the interrupt
  gate until a deadline frees them (`smp.rs:782-788`, `component.rs:5451`), and a
  core posts itself ready before it takes interrupts (`smp.rs:480-482`);
- a poll that runs out answers the client with its chain still in the device
  (`driver.rs:859`): the two properties about the device are stated for one that
  answers in time;
- a killed driver's buffers are reclaimed before its translations are withdrawn
  (`kernel/src/blk.rs:2170`, `2179` against `buffers.rs:678-686`); the join of the
  core and the reset of the device at the next start close the gap;
- an abandoned swap leaves the root's mount naming the tree of the successor that
  was retired, and not the put-back occupant's (`component.rs:2290-2308` against
  the comment at `6788-6793`);
- a swap whose offer fails leaves the needs it had charged out of the account
  (`component.rs:2164-2180`); the boot ends there, so nothing meets it;
- the routing word after a commit is the loop's generation and after a spawn or an
  abandonment an epoch plus one (`2277`, `2308`, `6696`), and a spawn commits it
  before anything is replayed (`abi/src/swap.rs:183-186`);
- a restart's pause never crosses the board: the comment at `component.rs:2613`
  says `now` is advanced by it, and `now` never moves; nobody performs a verdict
  to retire;
- a place that was stopped with its budget untouched would be refilled if its
  supervisor were consulted about it without a notice (`policy.rs:331`), which the
  frame never does.

## Proofs

TLAPS checks the following for every value of the constants that meets the named
assumptions. None of them bounds the number of steps: bounds such as `MaxSubmits`
are arbitrary naturals.

**RingProofs** (`RingAssumption`: at least one slot, and cursors that wrap at a
larger multiple of the capacity, as 2^32 is of any power of two below it). That the
ring is a FIFO is not inductive: it depends on where each entry is while its stores
are under way. `RingInv` counts positions from the shared tail: slots popped whose
tail store has not landed, then entries that wait, then entries an open batch has
staged, all of which fit the ring (`Counts`). `SlotsDiffer` is where the modulus
matters: within one length of the ring no two positions share a slot, across a wrap
too. `Contents` says of every waiting or staged entry what its slot *will* hold,
memory and stores under way together (`Becomes`), so a store that lands changes
nothing of it (`LandingKeeps`). `Heads` says a head store is the producer's last and
a Release, hence lands alone, and `Visible` that nothing is on its way to the slots
behind the shared head. Theorems: `RingInvariant`, `NoRace`, `CorruptIsUnreachable`,
and the refinement `RingIsFifo` (each step is a step of `BoundedFifo` or changes
neither `sent` nor `got`).

**WakeupProofs** (`WakeupAssumption`: both rings have at least one slot).
`NoLostWakeup` is not inductive: whether a ring is on its way depends on what
client and core saw earlier. `IInv` adds one conjunct for each side of the
handshake, which is Dekker's: past its fence the client's head is visible
(`PublishedBeforeLooking`), and the core does not stop without its flag raised
(`ArmedBeforeSleeping`). From these follows `WorkIsAnnounced`: from the last
empty look on, work that appears has a ring in the client, in the interrupt
register or in the latch. `StopIsAnnounced` says the same of a stop, which the
client may have posted and not rung for yet, and
`DoorbellsAccounted` keeps the counts. Theorems: `TypeCorrect`,
`NeverALostWakeup`, `DoorbellsAreSpentOnce`, `AnswersAlwaysFit`.

**ZoneQueueProofs** (`QueueAssumption`: deadlines are at most `Never`). A
collector entry ranks at batch, so it is first only when no urgent entry waits,
and it is handed over only when the device is empty; so at that moment nobody has
a count to raise (`NoCountIsRaised`), and every count stays where it started, at
one or zero. `IInv` adds that sequence numbers name one entry and that the
counts belong to the urgent entries not yet completed. Theorems:
`UrgentReadsAreNotStarved`, `CountsFollowTheWaiting`,
`UrgentEntriesAreNotOvertaken` (an action property).

**CapTableProofs** (`TableAssumption`: naturals for the sizes, a retiring
generation above the first, grants and requests of the right form). Each
function on tables the calls are built from (`Placed`, `Carved`, `Grown`,
`Cleared`, `Swept`) has a lemma saying what it makes of a table, and each action
a lemma resting on those. `IInv` adds to the type invariant that a live slot is
never at the retiring generation and its parent resolves with at least its rights
(`Good`), and that a dead handle's generation is behind its slot's, or behind the
floor from which the slot restarts once its page is bought again (`DeadOK`): the
second half is what makes dead handles stay dead across a page given back.
`DescendantsHereditary` shows that what a revocation condemns is closed under
derivation, so no orphan is left. `OneUse` adds to
`MemoryHasOneUse` that neither of two capabilities that share a frame is untyped, so
what a retype carves nobody else names (`CarvedOneUse`); that a copy stays one
through a revocation rests on its parent's generation (`CopyStays`). `LedgerOK` says
slot by slot what is owed (`SlotOwes`), and adds that a table without a control ring
owes nothing; `Accounts` adds what the last notice named, which for a revocation is
the generation after a handle that died.
Theorems: `TypeCorrect`, `DeadHandlesStayDead`, `AuthorityNarrows`,
`RecordedPagesStand`, `MemorySpentOnce`, `LedgerIsExact`.

**CoresProofs** (`CoresAssumption`: at least one worker and one page of text).
With two initiators a third core's sequence number can go back, so "acknowledged
is not ahead of requested" is not an invariant of every core. It is one of the
lowest core that is up, the only one components are handed to, which nobody but
the boot processor asks (`Words`). `Placement` says where components and calls of
the shootdown can be, `Calls` what they are about, `Forgotten` that a core past its
flush, or acknowledged, has no translation of the page. Theorems: `Typed`,
`Forgets`, `Stopped`.

**SuperviseProofs, of `Place`** (`PlaceAssumption`: a module is at least one frame, and an account
holds the module its place is built from above the window; nothing of the
successor). `AccountBalances` says how many frames are charged, and a refund is
right only when they lie in the right order. `Stacked` says so: the window, what is
owed, the instance set aside, and the occupant on top, so that a kill in the
middle of a swap and an abandonment both take from the top, and a commit, which
retires from below, must wait. `Spawned` is the lemma on what offer and spawn leave;
each pass has a lemma resting on it. Theorems: `Balanced`,
`NothingLivingIsRefunded`, `IdentityFollowsOccupant`.

**SuperviseProofs, of `Supervise`**. `SupervisedIsAPlace` is the composition: every step of frame
and supervisor is a step of `Place` or leaves the place alone, so `Spec` implies
`PlaceSpec` and the three theorems above hold of it. `StageInv` says what each
stage of a consultation knows (occupied or empty, the notice and its cause),
`FateInv` that timeouts named are at most what was remembered and what was
abandoned. A spawn is never refused because the place is empty, hence its account
is whole (`Balanced`), hence its own module fits (`SpawnPerformed`).
`StormIsBounded` counts over a history: `WithinBudget` adds that no restart is past
the end of the budget's window or ahead of the clock, and that the span just before
the window opened held no more than the budget; a span as long as the window then
meets at most those two (`SpanBounded`). Theorems:
`SupervisedIsAPlace`, `DeathsAreHeard`, `NoSpawnRefused`, `OneFate`,
`PolicyIsFollowed` (an action property), `StormsAreBounded`.

**PublishProofs** (`PublishAssumption`: a carry of at least one record and root
zones that hold it; and, stated in each theorem, at most one cut of a device that
ignores FLUSH, since a second one can give a generation to two records, see above).
The three properties stop at the first commit of a tree a scan does not find
(`harmed`), and so does the invariant: `UnharmedInv` is `PublishInv` until then, and
`HarmStays` that it does not come back. They are about what is on the medium, and what
decides them is what is *in flight*. `InFlight` says it of each step of a publish: blobs first, then
only operations on the zone that was chosen, whose appends repeat records that are
on the medium until the new record is the last. `Landing` is the lemma a cut rests
on: whatever subset lands, and whatever is torn, the other zone is untouched and no
record appears but those. `Shielded` says why the root the machine runs survives
any of it: the other zone has it, or the zone being written has it, is not reset,
and is only written beyond its end. `ActiveHasHeld` gives that at the choice of the
zone, from one root of each generation (`Whole`), and holds in the tie after a cut
inside a wrap, where both zones have it. `CutMedium` is what a mount finds.
Theorems: `HeldStaysDurable`, `NoneUnresolved`, `MountsOldOrNew` (an action
property).

**CollectProofs** (`CollectAssumption`). What a put
does is a recursion over blocks and children, so the proof first shows that such a
function exists and that a fact passes along it (`Recursion`, `Climbs`, from the
well-foundedness of the naturals, cited for a set and not for an operator). Each
function on the disk then has a lemma in terms of what may change: a put `Grows` the
disk (`WrittenOK`, `PutOK`, `PutObjectOK`), a copy leaves it `Still`, a reset takes
one zone's blocks (`RecycledOK`).

`BaseInv` says that a mapped block, a copy not yet committed and a block a reader
believes in are under the write pointer of their zone and on the medium there, and
that a zone's count is the number of its believers (`ReadersOK`): without the count
being exact, waiting for zero would prove nothing. `ReadersSeeAlways` follows with no
further condition.

That a pinned root stays readable is not inductive: whether a reset is harmless
depends on what the mark has seen. `MarkOK` adds `RootsOK`, that what pinned roots
and open publishes name is located, and that what the latter wrote themselves is
stored and in their write sets; and `LiveOK`, the tricolour invariant of this mark:
what it has seen and is still all there has its places marked, and the children of
what it has walked are seen or on the list. "Still all there" is what lets content
be put again after it was swept: the mark may have met a name with nothing behind
it, and nothing is claimed of that. Committing the copies rebuilds the bits from the
live set and the map as it then is (`RebuiltLive`), and a root pinned later was in a
write set until then. At a reset the list is empty and the roots are walked, so what
they have that is all there is marked, hence elsewhere (`RecycleSpares`,
`RecycleSeen`, `RecycleMark`). The theorems have no hypotheses beyond
`CollectAssumption`: `ReadersSeeAlways`, `PinnedAlwaysStaysReadable` (an action
property), `OpenWritesAlwaysSurvive`, for any number of publishes open at once and of
cycles, where the run has one.

**Only model-checked.** Liveness (out of reach of the prover, like `ENABLED`);
what the scan of `Remount`, a recursion over the whole medium, finds; so far also the
safety of `Remount` and `BlockPath`, the refinement `KeepsNames` included.

## Not modelled

Corrupt or hostile peers on a ring, the wire layouts, checksums and hashing,
chunking of content, page-table walks and boot, device registers, text,
layout, semantics and prediction: data and I/O, with little control that
interleaves. The simulator, benchmarks and build tool are test tooling.
`PROJECT.json` lists every part with its reason. Of the parts that do have such
control the following are not modelled *yet*:

- **service and completions** over `Ring`: `Service::drain`, `execute`, `Poster`
  and `Collector`, epochs at adoption;
- clients parked on a place that is being swapped (`connect`, `expire`, `resume`,
  `component.rs:7641-7727`), and sets of more than one buffer in the registry;
- the **frame allocator**'s split, free and bounded coalescing;
- **core reclaim** by runtimes, **admission** with its fixed-width arithmetic;
- **scene commit**, the **index log** and the choice of a generation;
- the network, display and input drivers, which share the block driver's
  virtqueue and have no journal.

What would be proved next: `KeepsNames` for any table and journal, and that a mount
of `Remount` finds what was acknowledged.
