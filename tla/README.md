# Specifications of ptab

TLA+ modules, TLC configurations and TLAPS proofs for `ptab`, a lock-free,
fixed-capacity concurrent table. Paths are given from the root of the
repository (`src/table.rs` is the crate's main module, and so on); line numbers
are of the commit these files stand beside. `PROJECT.json` maps every
definition of a model to the lines it stands for.

    tlc -workers 2 -config TableSafety.cfg MCTable     # one run
    tlapm TableProofs.tla                              # one proof module

## The system

### Components, state and operations

| Component | State | Operations |
|---|---|---|
| `Params`, `Capacity` (`src/params.rs`) | none, compile time | rounding and clamping of the capacity, blocks, masks, shifts |
| `Detached`, `Abstract`, `Concrete` (`src/index.rs`) | none | four conversions between three encodings of an entry's identity |
| `CachePadded` (`src/padded.rs`) | none | the alignment of a cache line on each architecture |
| `Array` (`src/array.rs`) | an allocation of `LENGTH` words | allocate, initialise element by element, unchecked access by `Concrete` index, free |
| `Volatile` (`src/table.rs`) | the counters `entries`, `next_id`, `free_id` (u32) | fetch-add, fetch-sub, weak CAS |
| `ReadOnly` (`src/table.rs`) | arrays `slot` (ring of free abstract indices) and `data` (pointers to entries) | swap, weak CAS, load |
| `Table` (`src/table.rs`) | the two above | `insert`/`write`, `remove`, `with`/`exists`/`read`, `len`, `cap`, `drop` |
| `WeakKeys`, `Debug` (`src/table.rs`) | a position, a guard | `next`; one pass over the cells |
| `reclaim::sdd` (`src/reclaim/sdd.rs`) | an epoch-managed pointer per cell | `load` under a guard, `write`, `evict`, `drop_in_place` |
| `PTab` (`src/public.rs`) | a `Table` | the public interface, each method one call |

An insert takes a *permit* by incrementing `entries`, if it was below `LENGTH`;
otherwise it undoes the increment with a CAS loop and returns `None`. With a
permit it takes a ring position from `next_id` and swaps `RESERVED` into it,
again and again until what it swapped out is an index. It runs the caller's
closure and publishes the entry with a swap on the index's cell of `data`. A
remove swaps null into the key's cell; if it found an entry, it computes the
index of the slot's next generation and tries to put it into the position
`free_id` names, with a weak CAS from `RESERVED`, again and again; then it
decrements `entries`. A lookup is one load under a guard. Components share
nothing but the three counters and the two arrays; the only callback is the
closure of `write` (and that of `with`), which runs while its caller holds a
slot and a permit (or a guard).

### What is hard

Every operation is a sequence of atomic accesses by threads that may stall,
for ever, between any two of them, and two loops depend on what other threads
put into the ring meanwhile. The ring positions and the cells they refer to are
unrelated after the first reuse. Swaps overwrite positions blindly with
`RESERVED`. The counter is wrong by the failing inserts. Keys are arbitrary
bits a caller may forge, keep and reuse. The closure may panic. `Drop` counts
on `len()`. The masks are constants of several architectures. The list, with
lines and the properties aimed at each, is `hazards` in `PROJECT.json`.

### What makes each part correct

* conversions: inverse to one another, in bounds, in every generation;
* ring: no index is ever lost or doubled; whoever has a permit finds an index,
  whoever releases one finds room;
* cells: one owner at a time; an insert never overwrites;
* counter: the permits given out and the increments to undo, exactly;
* callers, if they remove each entry by one call: a key finds its entry until it is
  removed, keys are fresh, and each operation takes effect in one step;
* memory: no reference outlives its entry, no entry is dropped twice, and every entry
  is dropped, unless a destructor panics in the table's `Drop`: then those behind it leak;
* orderings: with the `Ordering` the code gives each access, an entry's contents
  are visible to whoever gets it, and a permit's index to whoever gets the permit;
* progress: lock-freedom.

## Modules

| Module | Models |
|---|---|
| `Params` | `CACHE_LINE`, `Capacity::new`, `derive_blocks`, `derive_layout`, the derived constants, of a parameter record |
| `Index` | the conversions of an index with `\div` and `%`; the form used by the table and the proofs |
| `IndexWalk` | the slot array's allocation and initialisation, then a slot's index through all its generations, on every kind of target |
| `IndexBits` | the conversions as the source writes them, with masks, shifts and ORs of the bits of a word, along the same walk |
| `Table` | `Table`, `Volatile`, `ReadOnly`: one action per atomic access |
| `Progress` | how many steps the operations of `Table` have left: lock-freedom without fairness |
| `TableLive` | the fairness assumptions and progress properties of `Table` |
| `Orderings` | `Table` with the memory ordering of every access |
| `CellSpec` | abstract specification: an array of cells, filled and emptied atomically, within a capacity |
| `Clients` | `Table` with callers that use the keys `insert` returned |
| `PTabSpec` | abstract specification: a bounded map that issues fresh keys |
| `Reclaim` | `Table` with lookups under guards, deferred destruction, and the table's `Drop` |
| `KeysIter` | `Table` with a walk over its cells: the iterator of `weak_keys`, or `Debug` |
| `MC*` | small instances for TLC: symmetry, keys, targets |
| `IndexProofs`, `IndexWalkProofs`, `TableProofs`, `ProgressProofs`, `ClientsProofs`, `KeysIterProofs`, `OrderingsProofs`, `ReclaimProofs` | theorems |

    Params <- IndexWalk <- IndexBits <- MCIndexWalk
    Index <- Table <- Progress, TableLive, Orderings, KeysIter, Clients, Reclaim
    Index <- IndexProofs;  IndexBits <- IndexWalkProofs
    Table, IndexProofs <- TableProofs
    TableProofs <- ProgressProofs, ClientsProofs, KeysIterProofs, OrderingsProofs, ReclaimProofs

`A <- B` means that B EXTENDS A (a proof module also EXTENDS the module it is named
for). `Table` instantiates `CellSpec`, `Clients` instantiates `PTabSpec`, `IndexWalk`
instantiates `Index` for the table its behaviour has chosen, and `IndexWalkProofs`
instantiates `IndexProofs`.

### Table

State: `entries`, `next_id`, `free_id`, `slot` and `data` are the source's; `pc`,
`reg` and `idx` are what each thread has on its stack: the next step, a local
u32 (`current` in `reserve_slot`, else the ring position) and a local usize
(the index taken or to be put back). `leaked` is history: the cells lost to
panics.

| Action | Code |
|---|---|
| `ReserveSlot` | `fetch_add` and the test, `reserve_slot` |
| `UndoReserve`, `UndoRetry` | the CAS of the undo loop, success and failure |
| `FetchNextId`, `SwapSlot` | the two accesses of a round of `acquire_slot` |
| `Publish`, `InitPanics` | `Atomic::write`: the closure returns, and the swap; or it panics |
| `Evict` | the swap of `Atomic::evict` that finds an entry, and `generate_next_slot` |
| `FetchFreeId`, `StoreSlot`, `StoreSlotOccupied`, `StoreSlotSpurious` | a round of `release_slot`: position, CAS succeeding, failing, failing spuriously |
| `DecrEntries` | `decr_entries` |

Abstractions. An entry's value is the key it was inserted under; nothing in the
table depends on more. The closure has no step of its own: it touches nothing
shared, except through operations of its own, which are those of another
thread of the model (the stalled outer call is a thread standing at
`publish`). A remove that finds nothing, and a spurious failure of the undo CAS,
change nothing and are not steps. Registers that no later step reads are reset.
The counters wrap at `U32`, indices at `USIZE`: every reachable wrap is explored.

`Key` is the set of bit patterns callers pass to `remove`. In the runs of
`Table` a caller may pass any of them at any time: keys of entries, keys of
entries removed long ago, and keys never issued.

### Clients, Reclaim, KeysIter

`Clients` records which keys `insert` returned (`issued`) and those by which no remove
has taken an entry away since (`owned`). The call of a remove (`StartRemove`) and its
swap (`RemoveKey`) are two steps, with `removing` the key in between: a caller can know
no more than what was so when it called, and the swap takes whatever entry it then
finds in the key's slot. So it is not enough that callers call `remove` only while
the entry is there. If two of them do so with one key, the second swap may come
after the first one's slot was used again; it then takes the next entry, and
recycles a generation that was used (Findings). `SoleRemoves` is the rule under
which this cannot happen: each time a key is returned, one call of `remove` is made
with it. That swap may be as late as it likes.

`Reclaim` is about memory, which has to be safe whatever callers do: keys are
arbitrary, may be stale and come again. So it tells entries apart by the order of
their insertion, not by their keys: `object` is the entry each pointer of `data` points
to, `Link` is `Atomic::write`'s swap, which makes a new one (and forgets any that was
there), `Unlink` the swap of `evict`. It adds the readers of `with`, `exists`, `read` and
the walks: `NewGuard`, `Load`, the use of the reference, `DropGuard`. A reader may load
again under one guard, as a walk does. The collector is the external crate `sdd`; the model
states the rule its users rely on (`Collect`: an unlinked object is dropped once
every guard there at the unlinking is gone) and checks that the table keeps its
side. The table's `Drop` has it to itself (`&mut self`), so it begins when no
operation and no guard is left; then `BeginDrop` reads `len`, `DropEntry` is one
round of its loop (a cell, and the early exit when the count is used up),
`DestructorPanics` leaves the loop the way unwinding does, and `FreeArrays` frees
the two arrays. `phase`, `cell`, `count` are where it is, `unwound` says whether a
destructor panicked.

`KeysIter` follows one walk, `weak_keys` or `Debug`, with one load per step
(`Visit`), beside the steps of callers (`Meanwhile`), who remove by any keys, those
the walk yielded among them. It records the keys of entries there at some instant
(`during`), and all the time (`throughout`).

An operation made inside another one (by an init closure, a destructor or a
callback) is an operation of another thread or reader of the model, while the
outer one stands where it calls out: the code keeps no per-thread state.

### Orderings

`Table` interleaves atomic accesses as if memory were sequentially consistent.
`Orderings` says why that is enough and what the orderings add. Every write to
`entries`, `next_id`, `free_id`, `slot` and `data` is part of a read-modify-write,
which reads the newest value of its location whatever its ordering. Where what is
read, and what is ordered before, never form a cycle (as in the RC11 model), the
read-modify-writes of an execution therefore have an order in which each location
is interleaved as in `Table`. Only two things can read an old value: a plain load,
and a CAS that fails. A failing CAS only goes on to another position or round,
which the model allows at any time (`StoreSlotSpurious`, `UndoRetry`). A plain
load may return any entry its cell ever had (`Lookup`). In particular an insert
cannot publish ahead of the evict that freed its cell, although the ring between
them is `Relaxed`: the index it publishes into was read from a swap that took it
from a CAS that followed the evict, so the reverse order would be such a cycle.

`seen` is what happens before a thread's next step, `entries_view` and `data_view`
what an acquiring access gets from a location: what releasing accesses put there,
carried on by later read-modify-writes (release sequences). The plain writes
followed are the init closure's, and the fact that an index is back in the ring.
The orderings themselves (`incr_entries`, `decr_entries`, `write_order`, ...) are
definitions, and weakening the ones that matter breaks a property. Two are
stronger than any property here needs: the `Release` of the undo CAS, and the
`Release` half of `evict`'s `AcqRel`.

## Runs

| Run | Instance | Shows |
|---|---|---|
| `IndexWalk` | usize of 8 bits, `MIN` 16, `DEF` 32, `MAX` 64, eight targets with 4, 8, 16 and 32 words per line, six requested capacities, every slot, all generations | valid layouts; the array filled completely; every access within the allocation; conversions inverse to one another and agreeing with the arithmetic form; capacity rounding; spread; keys repeat only after a wrap; every table at least a cache line long is one `Index` is about (`AdmitsIndex`) |
| `TableSafety` | 2 slots, 3 threads, generations wrap after 4 | types, ownership, conservation of slots, permits, `len`, failing inserts, `CellSpec`; every step ends an operation or brings its end nearer |
| `TableSpread` | 4 slots in 2 lines, `Capacity::MAX`, 2 threads | the same where order of allocation, offset and key differ, with one permit taken for ever |
| `TableLive` | 2 slots, 3 threads of which one may stall for ever | lock-freedom, both ring loops end |
| `Orderings` | 2 slots, 2 threads, counters of 6, 3 permits | entries are visible when got; permits are backed by indices their thread is ordered after |
| `Clients` | 2 slots, 3 threads, 7 inserts, 4 generations, one remove for each entry | fresh keys, keys find their entries, `PTabSpec` |
| `Reclaim` | 2 slots, 2 threads, 2 readers, any keys, 2 generations, 3 entries, then `Drop` | references are alive; no entry is dropped twice, and none is left out, unless a destructor panicked |
| `KeysIter` | 4 slots in 2 lines, `Capacity::MAX`, 1 thread and a walk, removes by keys of two cells and two generations at any time | nothing that stays is missed; nothing is yielded of empty cells |
| `StaleRemove`, `IndexLongLine`, `KeysStale`, `KeysAtMax` | see Findings | what the documentation promises and the code does not do |

### Why the bounds are enough

*Capacity 2.* With two slots the table is empty, partly full and full, and ring
positions and cells can be exchanged; with one, they cannot. *Threads.* Three
admit an insert and a remove in every pair of steps with a third thread
standing anywhere; more inserts than permits; and two failing inserts beside a
remove. *Counters.* `U32 = 8` wraps `next_id` and `free_id` after four rounds of
the ring; it exceeds capacity plus threads, as 2^32 does, and is a multiple of
the capacity, as 2^32 is. *usize.* `USIZE = 8` gives two slots four generations:
the wrap and the index `RESERVED` would be (whose predecessor is in `EdgeKeys`)
both occur. *Spread.* Two blocks of two slots are the smallest table in which
the spread is not the identity. *MaxInserts* bounds the runs of `Clients` and
`Reclaim`; behaviours end there, hence `CHECK_DEADLOCK FALSE`. In `Clients` it is 7,
the number of keys two slots have in four generations (one would be that of
`RESERVED`), so that a slot uses up its keys and goes on. In `Reclaim` inserts may
start while there are fewer than two entries, so that there are three at most: one
more than fit at a time, so that a cell is used again while its old entry is read
or waits; with two generations (`USIZE = 4`) keys come again at the second use of a
slot, in one of the two slots at the first.
`IndexWalk` ends with a slot's last generation, and `Orderings` with `MaxPermits`,
likewise. All other
passing runs check deadlock.
*MaxPermits* is 3 in `Orderings`: one more than there are slots, so that a permit
has to be one that was given back, and a cell is published into again. `U32` is 6
there, the least multiple of the capacity above capacity plus threads.
*Targets* has an architecture of each line length and word size, among them the two
with 32 words per line; `Requested` has capacities below, at, between and above
the bounds and one whose rounding overflows.
*IndexWalk* takes `Capacity::MIN` (16) and the line lengths as they are, and scales
`MAX`, `DEF` and usize down; the conversions only move bits below and above
log2(LENGTH). Layouts are checked for every capacity there is, up to 2^27.
*KeysIter* has `AtMax = TRUE`, where the two walks differ in length. Its keys, 1, 2 and
6, are of one cell in each line, one of them with two generations: entries come and go
there by keys that are theirs, stale or never issued, while those of the other cells stay.

### Fairness

`TableLive` assumes weak fairness of each *scheduled* thread's next step, for
threads in the middle of an operation, and nothing of the others: a thread
outside `Fair` may stop anywhere, holding a slot, a permit or an increment.
Nothing is assumed of starting operations, and a panic is never required.
`CasFairness` says that a weak CAS on a position that is `RESERVED` does not
fail spuriously for ever; without it `release_slot` may loop by definition of
`compare_exchange_weak`. It does not help a thread that loses its position to
others. `LockFree` is the crate's claim ("lock-free", `src/lib.rs`): every
scheduled thread leaves its operation again and again, or operations complete
again and again. `RingProgress` is stronger where it matters: the loops of
`acquire_slot` and `release_slot` are left unless others *publish or remove
entries* for ever; failing inserts do not count as progress there.

## Proofs

For every capacity, line length, word width, set of threads and set of keys,
under the named assumptions of the modules. Outside `IndexBits` powers of two enter
only as divisibility, so that the real widths, 2^32 and 2^64, are among the constants
admitted; `IndexBits` admits every `WIDTH` from 8; `LENGTH + Cardinality(Thread) < U32`. That every table the source can
configure, with a line no longer than the table, meets those assumptions is itself
a theorem (`TablesAdmitIndex`).

| Theorem | Says |
|---|---|
| `KeysAndIndices` (`IndexProofs`) | keys and abstract indices correspond one to one |
| `NextSlot` | a recycled index is a word of the same cell and never `RESERVED` |
| `LinesTakeTurns` | consecutive indices, as many as there are lines, go to cells of different lines |
| `IndexTyped` (`IndexWalkProofs`) | `Spec => []TypeOK` of `IndexWalk` |
| `CapacitiesFit` | `Spec => []CapacityFits` |
| `LayoutsAreValid` | `Spec => []LayoutValid` |
| `TablesAdmitIndex` | `Spec => []AdmitsIndex` |
| `KeysRoundTrip` | `Spec => []KeyRoundTrip` |
| `LinesSpread` | `Spec => []ConsecutiveSpread` |
| `KeysRepeatLate` | `Spec => []KeyRepeatsOnlyAfterWrap` |
| `ConversionsAgree` | `Spec => []ArithmeticAgrees` |
| `AccessesAreInBounds` | `Spec => []AccessInBounds` |
| `TypeCorrect` (`TableProofs`) | `Spec => []TypeOK` |
| `CellsAreOwned` | `Spec => []Ownership` |
| `NeverOverwrites` | `Spec => []PublishIntoEmpty` |
| `SlotsConserved` | `Spec => []SlotConservation` |
| `PermitsCounted` | `Spec => []PermitAccounting` |
| `PermitsHonored` | `Spec => []PermitHonored` |
| `ReleasesHaveRoom` | `Spec => []RoomToRelease` |
| `LenCovers` | `Spec => []LenCoversLive` |
| `FailuresExplained` | `Spec => FailsOnlyBesideFull` |
| `TableImplementsCells` | `Spec => ImplementsCells` |
| `OperationsEnd` (`ProgressProofs`) | `Spec => LockFreeSteps` |
| `RingLoopsEnd` | `Spec => RingSteps` |
| `KeysFindTheirEntries` (`ClientsProofs`) | `ClientsSpec => []KeyFindsItsEntry` (1) |
| `TableHoldsWhatCallersOwn` | `ClientsSpec => []LiveAreOwned` (1) |
| `KeysAreFresh` | `ClientsSpec => []KeysFresh` (1) |
| `ClientsSeeAMap` | `ClientsSpec => ImplementsPTab` (1) |
| `WalksMissNothing` (`KeysIterProofs`) | `IterSpec => []NoneMissed` |
| `WalksInventNothing` | `IterSpec => []YieldedHeldAnEntry` |
| `CompleteWalksListAll` | `IterSpec => []AllListed`, if `~AtMax` (2) |
| `EntriesAreInitialised` (`OrderingsProofs`) | `OrderingsSpec => []InitVisible` |
| `PermitsAreBacked` | `OrderingsSpec => PermitBacked` |
| `ReferencesStayValid` (`ReclaimProofs`) | `ReclaimSpec => []ReferencesAreAlive` |
| `DropsAreExact` | `ReclaimSpec => []DroppedOnce` |

(1) assuming `Key = Word` and `SoleRemoves`: callers remove each entry by one call.
Findings says why. (2) `KeysAtMax` shows that it fails at
`Capacity::MAX`. No other theorem needs an assumption of its own.

*Index walk.* `WalkInv` says that the array holds the index each offset starts with,
that the slot followed keeps its cell, and that its index has grown by `LENGTH` a reuse
until the last generation. The capacities and the powers of two are finitely many
and listed one by one; with the line lengths of all architectures that makes
`BLOCKS` whole (`TablesAdmitIndex`, which discharges `IndexAssumption`), and the rest
follows from the lemmas of `IndexProofs`.

*Bits.* All theorems about the table are about the arithmetic form of the conversions;
`ConversionsAgree` says that this is what the masks, shifts and ORs of `src/index.rs`
compute, of any word of any width. The provers know what `2^i` is only where `i` is a
numeral, and the community module `Bitwise` is recursive; `IndexBits` has instead the
recursive function `weight`, and `&` and `|` as the words whose bits are the
intersection and the union. What there is to prove by induction (the function exists,
`WeightSum`, `SameBits`: a word is determined by its bits) rests on `Induction`, which
is stated of a set of numbers and follows from what is known of finite sets. A number
`h * 2^k + l` with `l < 2^k` has the bits of `h` from `k` up and those of `l` below
(`FieldBits`): this gives a mask as a remainder (`Masks`) and an OR of disjoint fields
as a sum (`Fields`). `AccessesAreInBounds` needs both cases of `derive_blocks`: a line
longer than the table leaves one block, and the index within it.

*Ownership.* `PublishIntoEmpty`, the condition of `assert_unchecked` in
`Atomic::write`, is not inductive: that a cell is empty when its index leaves
the ring must have been true while it was in the ring, and when the remover put
it there. `Ownership` is the strengthening: a cell is free (its index in the
ring), held (by a thread between taking and publishing, or between evicting and
putting back) or live, never two of these and none twice; it needs `TypeOK` for
the range of the conversions, and is inductive with it. Each of the four steps
that move a cell (`SwapSlot`, `Publish`, `Evict`, `StoreSlot`) has a lemma; the
others fall under `QuietStep`. What the conversions do enters through four facts
about them: the spread stays in range, is inverted by the initial slot array,
ignores the generation, and a recycled index keeps its cell. `Ownership` holds
for *any* keys passed to `remove`, forged ones included: `IndexOfKey` says that
whatever the bits are, the index recycled belongs to the cell emptied.

*Counting.* `CountInv` is `TypeOK /\ Shares /\ Tally`. `Ownership` says that a cell has
at most one owner; `Covered` and `LeakedApart`, in `Shares`, that it has at least
one or was lost to a panic. `SlotConservation` is that, in numbers per cell. Over
all cells it becomes `Balance`: the free positions, the holding threads, the live
and the leaked cells add up to `LENGTH`. `Counted` says that `entries` is the
permits given out (`Given`) plus the increments to be undone, and `Given <= cap`
what the test in `reserve_slot` achieves. The seekers, the threads in
`acquire_slot`, are among those with permits; subtracting `Given <= cap <= LENGTH`
from `Balance` leaves as many free positions as seekers, which is
`PermitHonored`; `RoomToRelease` and `LenCoversLive` follow likewise. The
counter never wraps because `LENGTH + Cardinality(Thread) < U32`.

*Progress.* Lock-freedom as a rank: `LockFreeSteps` says that every step of any thread
ends an operation, fails spuriously, or makes the rank smaller, and that the rank
is bounded by the number of threads and the capacity. Hence operations end again
and again for as long as any thread runs, wherever the others have stopped; no
fairness is assumed. The first component counts what operations have before them, the
third the undo loop's stale values. The second, `Tries`, is the point: how many
fetches of `next_id` it takes to pass every free position no thread is about to try
(and likewise for `free_id`). There is such a position because of `PermitHonored`'s
counting: free positions are as many as seekers, so that a seeker who is about to
fetch is left one (`SomeUntaken`). A fetch then brings the loop nearer to all of them
(`FetchShrinks`), a failing try uses up one that was fetched. `RingSteps` is the same
where failing inserts count for nothing.

*Refinement.* `TableImplementsCells` maps a cell of `CellSpec` to the cell of `data`:
an insert takes effect at `Publish`, a remove at `Evict`, a panicking closure loses
a cell, every other step stutters. Its hard part, that there is room when a
thread publishes, is `Tally`. `ClientsSeeAMap` adds the keys: what is published
is fresh, what is removed is what was asked for.

*Keys.* For `Clients`, `Registered` says that an owned key finds its entry and that an
entry's key is owned; it is preserved because the cell a thread publishes into
is empty (`Ownership`), so that no owned key leads there. `Reserved` says that the key
of a remove under way is owned, and no other remove's: so the swap, whenever it
comes, takes the entry the remove was called for (`RemoveTakesItsEntry`). Freshness needs more:
`Ages` says that the index a free or held cell has is of a later generation than
every key issued for that cell, and that an owned key is the newest of its cell.
It holds until the slot's generations wrap. A slot wraps only when all its keys
have been issued, and then `KeysFresh` promises no more: there is no bound on the
inserts, and the exception is exact.

*Walks.* `IterInv` adds to the two properties that an entry is in its key's cell
(`InPlace`) and that what was there throughout is there now (`History`).
`CompleteWalksListAll` is what `weak_keys` achieves below `Capacity::MAX`.

*Orderings.* `InitVisible` needs `Carried`: every entry's view contains its own
initialisation, and the later swaps of its cell carry the view on. For `PermitBacked`,
`Owed` gives an injection from the indices put back in the ring that `entries`
does not know of to the threads between that CAS and the decrement (`decr`); such
a thread still counts in `entries`, so a permit given while the counter is below
`LENGTH` finds the rest in the view it acquires.

*Reclamation.* `ReclaimInv` says that an entry is linked, retired or dropped, and
which (`Fates`), that an entry is in one cell only, and its pointer there until it is
unlinked (`CellsFilled`), that a reference is to a linked entry or to a retired one
which waits for that reader's guard (`Protected`), and what `Drop` has left behind and
still counts (`Teardown`). No entry is forgotten by a swap of `Atomic::write` because
the cell is empty (`Ownership`), and `Drop` finds all entries because it begins when
`LenCoversLive` holds. Both are theorems for any keys, so memory safety is one too:
stale removes do harm to callers, not to memory.

*Model-checked only.* `LockFree` and `RingProgress`, liveness under fairness, which is
not provable with the backends of TLAPS used here; `LockFreeSteps` and `RingSteps` are
what is proved of them. The counterexamples under Findings.

## Findings

* **Stale removes** (`StaleRemove`). Lookups and removes use the offset bits of a
  key only (`src/table.rs:162`, `:124`). A stale key finds, and removes, the next
  entry in its slot, against `src/index.rs:84`; and as `remove` recycles the
  generation of the *key*, a key issued before is issued again, against
  `README.md:38`. Nor does a remove by a key that is no entry's return `false`, as
  `src/index.rs:119` says, where there is another entry in the slot. Two removes that
  race with one key do the same, though both were called while the entry was there:
  the loser's swap may come after the slot was used again. The theorems about callers
  need `SoleRemoves` for this reason. What holds in spite of such removes is
  `SlotConservation`, `ImplementsCells` and the rest of `TableSafety`: the slot is
  recycled once for every entry taken. Memory stays safe: `Reclaim` and its theorems are about any keys.
* **Long cache lines** (`IndexLongLine`). Where a cache line has more words than
  the table has slots (32 words: s390x, or 128-byte lines with 4-byte words;
  `Capacity::MIN` is 16), a concrete index can reach beyond `LENGTH` in
  the second generation: `Array::get` (`src/array.rs:114`) then reads padding.
* **weak_keys, generations** (`KeysStale`). The iterator yields the first
  generation's key of every occupied cell (`src/table.rs:555`), against
  `src/public.rs:309`. Removing by such a key is a stale remove.
* **weak_keys, `Capacity::MAX`** (`KeysAtMax`). It stops at `cap()`, one cell short
  of the array (`src/table.rs:499`): what is reserved there is a permit, not a slot.
  That is against `src/public.rs:301`, "over all currently allocated indices". The
  iterator's own text (`src/table.rs:475`) is weaker, "It may miss entries that were
  present when iteration began"; but an entry in that cell is missed every time,
  although nothing touches it.

An insert may also return `None` a little before the table is full, because
the counter includes increments that other failing inserts have yet to undo.
`FailsOnlyBesideFull` bounds this: an insert fails only if every permit is out or
another insert is in the middle of failing.

Two remarks that no run is about. `IMPLEMENTATION.md:24` says that comparing two
indices reveals their order of creation: once slots are recycled
(`src/table.rs:207`) a later generation of one slot compares greater than a newer
entry in another. And the test `slot_churn` (`src/table.rs:836`) means to
interleave releases with its acquisitions, but takes the slot to release from
`track[index..]`, which is always empty; it releases nothing.

## Not modelled

* The internals of `sdd`, an external crate: `Collect` states the rule its users
  rely on.
* `reclaim::leak`, an alternative that frees nothing. Nothing in the crate uses it.
* The shims for std, loom and shuttle, the model tests, benches and scripts. The
  scenarios of the model tests are behaviours of `Clients`.
* The text of `Debug` output, and of panics.
* Several walks at once: a walk changes nothing shared, so each is beside the others
  as it is alone.

## State of the work

All components that have state are modelled, every operation of theirs is an
action, and every safety property of the passing runs is both model-checked and
proved. What could still be added: for callers that use a key again, what remains true
of keys beyond `CellSpec` and memory safety; a model of the collector in place of its
rule, which belongs beside `sdd`.
