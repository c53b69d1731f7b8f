-------------------------------- MODULE Table -------------------------------
(***************************************************************************)
(* The lock-free table (src/src/table.rs): insert, write and remove as     *)
(* threads execute them, one atomic access to shared memory per step.      *)
(*                                                                         *)
(* slot is a ring that holds the free abstract indices. An inserting       *)
(* thread takes the index at the position next_id names, leaving RESERVED  *)
(* behind; a removing thread puts the recycled index back at a RESERVED    *)
(* position free_id names. entries counts the permits: it admits at most   *)
(* LENGTH insertions, so that an admitted one is sure to find an index.    *)
(*                                                                         *)
(* An entry's value is abstracted to the key it was inserted under, and a  *)
(* lookup to the key it would find (find): what a lookup does with the     *)
(* value changes no state of the table.                                    *)
(***************************************************************************)
EXTENDS Index, FiniteSets

CONSTANTS
  Thread,  \* the threads that use the table
  Key,     \* the keys callers pass to remove: any bits are allowed
  U32,     \* 2^32: entries, next_id and free_id wrap here
  AtMax,   \* whether P::LENGTH = Capacity::MAX
  Null     \* the null pointer

(* LENGTH divides 2^32, so the ring positions go on in order when next_id  *)
(* and free_id wrap; and there are fewer than 2^32 - LENGTH threads, so    *)
(* that entries cannot wrap.                                               *)
ASSUME TableAssumption ==
  /\ IsFiniteSet(Thread)
  /\ Key \subseteq Word
  /\ U32 \in Nat /\ U32 % LENGTH = 0
  /\ LENGTH + Cardinality(Thread) < U32
  /\ AtMax \in BOOLEAN
  /\ Null \notin Word

VARIABLES
  entries,  \* Volatile.entries
  next_id,  \* Volatile.next_id
  free_id,  \* Volatile.free_id
  slot,     \* ReadOnly.slot: a free abstract index, or RESERVED
  data,     \* ReadOnly.data: the key of the entry stored there, or Null
  pc,       \* the next step of each thread
  reg,      \* its local u32: current in reserve_slot, else a ring position
  idx,      \* its local usize: the abstract index it has taken or will store
  leaked    \* the cells lost to a panicking init closure (history)

vars == <<entries, next_id, free_id, slot, data, pc, reg, idx, leaked>>

Step == {"idle", "undo", "fetch_next", "swap_slot", "publish",
         "fetch_free", "store_slot", "decr"}

(* Array positions. The counters cast to usize are Abstract indices too.   *)
Concrete(a) == abstract_to_concrete(a)

-----------------------------------------------------------------------------
(* Volatile::new and ReadOnly::new. At Capacity::MAX one permit is taken   *)
(* from the start and never returned.                                      *)
initial_entries_uncounted == 0
initial_entries == IF AtMax THEN 1 ELSE 0

Init ==
  /\ entries = initial_entries
  /\ next_id = 0
  /\ free_id = 0
  /\ slot = [c \in Offset |-> initial_slot(c)]
  /\ data = [c \in Offset |-> Null]
  /\ pc = [t \in Thread |-> "idle"]
  /\ reg = [t \in Thread |-> 0]
  /\ idx = [t \in Thread |-> 0]
  /\ leaked = {}

(* Table::cap and Table::len. The clamp hides inserts about to fail.       *)
cap == IF AtMax THEN LENGTH - 1 ELSE LENGTH

len_unclamped == IF AtMax THEN (entries + U32 - 1) % U32 ELSE entries
len ==
  LET count == IF AtMax THEN (entries + U32 - 1) % U32 ELSE entries
  IN  IF count > cap THEN cap ELSE count

(* Table::find, for with, exists and read: the entry now at the key's cell.*)
find(k) == data[detached_to_concrete(k)]

-----------------------------------------------------------------------------
(* A thread's move to its next step. Registers no later step reads are     *)
(* reset, which merges states no execution can tell apart.                 *)
Goto(t, step, r, i) ==
  /\ pc' = [pc EXCEPT ![t] = step]
  /\ reg' = [reg EXCEPT ![t] = r]
  /\ idx' = [idx EXCEPT ![t] = i]

ring == <<next_id, free_id, slot>>

(* reserve_slot, the fetch_add: a permit, or an increment to undo. Mutant: *)
(* one permit too many.                                                    *)
ReserveSlot_one_over(t) ==
  /\ pc[t] = "idle"
  /\ entries' = (entries + 1) % U32
  /\ IF entries <= LENGTH
       THEN Goto(t, "fetch_next", 0, 0)
       ELSE Goto(t, "undo", (entries + 1) % U32, 0)
  /\ UNCHANGED <<ring, data, leaked>>

ReserveSlot(t) ==
  /\ pc[t] = "idle"
  /\ entries' = (entries + 1) % U32
  /\ IF entries < LENGTH
       THEN Goto(t, "fetch_next", 0, 0)
       ELSE Goto(t, "undo", (entries + 1) % U32, 0)
  /\ UNCHANGED <<ring, data, leaked>>

(* The CAS of the undo loop succeeds, and insert returns None.             *)
UndoReserve_blind(t) ==
  /\ pc[t] = "undo"
  /\ entries' = (reg[t] + U32 - 1) % U32
  /\ Goto(t, "idle", 0, 0)
  /\ UNCHANGED <<ring, data, leaked>>

UndoReserve(t) ==
  /\ pc[t] = "undo" /\ entries = reg[t]
  /\ entries' = (reg[t] + U32 - 1) % U32
  /\ Goto(t, "idle", 0, 0)
  /\ UNCHANGED <<ring, data, leaked>>

(* It fails and the loop goes on with the value it read; where a weak CAS  *)
(* fails spuriously that is the value it had, and nothing changes.         *)
UndoRetry_stale(t) ==
  /\ pc[t] = "undo" /\ entries # reg[t]
  /\ Goto(t, "undo", reg[t], 0)
  /\ UNCHANGED <<entries, ring, data, leaked>>

UndoRetry(t) ==
  /\ pc[t] = "undo" /\ entries # reg[t]
  /\ Goto(t, "undo", entries, 0)
  /\ UNCHANGED <<entries, ring, data, leaked>>

-----------------------------------------------------------------------------
(* acquire_slot: the next position of the ring. Mutant: not passed on.     *)
FetchNextId_load_only(t) ==
  /\ pc[t] = "fetch_next"
  /\ Goto(t, "swap_slot", next_id, 0)
  /\ UNCHANGED <<entries, ring, data, leaked>>

FetchNextId(t) ==
  /\ pc[t] = "fetch_next"
  /\ next_id' = (next_id + 1) % U32
  /\ Goto(t, "swap_slot", next_id, 0)
  /\ UNCHANGED <<entries, free_id, slot, data, leaked>>

(* acquire_slot, the swap: an index taken, or a position some other        *)
(* operation still has RESERVED, and the loop goes on.                     *)
SwapSlot_load_only(t) ==
  /\ pc[t] = "swap_slot"
  /\ LET result == slot[Concrete(reg[t])]
     IN  IF result = RESERVED
           THEN Goto(t, "fetch_next", 0, 0)
           ELSE Goto(t, "publish", 0, result)
  /\ UNCHANGED <<entries, ring, data, leaked>>

SwapSlot_ignores_reserved(t) ==
  /\ pc[t] = "swap_slot"
  /\ Goto(t, "publish", 0, slot[Concrete(reg[t])])
  /\ slot' = [slot EXCEPT ![Concrete(reg[t])] = RESERVED]
  /\ UNCHANGED <<entries, next_id, free_id, data, leaked>>

SwapSlot(t) ==
  /\ pc[t] = "swap_slot"
  /\ LET result == slot[Concrete(reg[t])]
     IN  IF result = RESERVED
           THEN Goto(t, "fetch_next", 0, 0)
           ELSE Goto(t, "publish", 0, result)
  /\ slot' = [slot EXCEPT ![Concrete(reg[t])] = RESERVED]
  /\ UNCHANGED <<entries, next_id, free_id, data, leaked>>

(* Atomic::write: the init closure runs on private memory, then the swap   *)
(* publishes the entry, and write returns the key.                         *)
Publish(t) ==
  /\ pc[t] = "publish"
  /\ data' = [data EXCEPT ![Concrete(idx[t])] = abstract_to_detached(idx[t])]
  /\ Goto(t, "idle", 0, 0)
  /\ UNCHANGED <<entries, ring, leaked>>

(* The init closure panics: nothing is published and neither the slot nor  *)
(* the permit is given back.                                               *)
InitPanics_returns_permit(t) ==
  /\ pc[t] = "publish"
  /\ leaked' = leaked \cup {Concrete(idx[t])}
  /\ entries' = (entries + U32 - 1) % U32
  /\ Goto(t, "idle", 0, 0)
  /\ UNCHANGED <<ring, data>>

InitPanics(t) ==
  /\ pc[t] = "publish"
  /\ leaked' = leaked \cup {Concrete(idx[t])}
  /\ Goto(t, "idle", 0, 0)
  /\ UNCHANGED <<entries, ring, data>>

-----------------------------------------------------------------------------
(* remove, the swap of evict that finds an entry. The key's generation is  *)
(* not compared with the entry's, and it is the key's that is recycled.    *)
(* Where there is no entry, remove returns false and nothing changes.      *)
Evict_load_only(t, k) ==
  /\ pc[t] = "idle" /\ find(k) # Null
  /\ Goto(t, "fetch_free", 0, generate_next_slot(detached_to_abstract(k)))
  /\ UNCHANGED <<entries, ring, data, leaked>>

Evict(t, k) ==
  /\ pc[t] = "idle" /\ find(k) # Null
  /\ data' = [data EXCEPT ![detached_to_concrete(k)] = Null]
  /\ Goto(t, "fetch_free", 0, generate_next_slot(detached_to_abstract(k)))
  /\ UNCHANGED <<entries, ring, leaked>>

(* release_slot: the position to try next.                                 *)
FetchFreeId_load_only(t) ==
  /\ pc[t] = "fetch_free"
  /\ Goto(t, "store_slot", free_id, idx[t])
  /\ UNCHANGED <<entries, ring, data, leaked>>

FetchFreeId(t) ==
  /\ pc[t] = "fetch_free"
  /\ free_id' = (free_id + 1) % U32
  /\ Goto(t, "store_slot", free_id, idx[t])
  /\ UNCHANGED <<entries, next_id, slot, data, leaked>>

(* The CAS puts the index back.                                            *)
StoreSlot_overwrites(t) ==
  /\ pc[t] = "store_slot"
  /\ slot' = [slot EXCEPT ![Concrete(reg[t])] = idx[t]]
  /\ Goto(t, "decr", 0, 0)
  /\ UNCHANGED <<entries, next_id, free_id, data, leaked>>

StoreSlot(t) ==
  /\ pc[t] = "store_slot" /\ slot[Concrete(reg[t])] = RESERVED
  /\ slot' = [slot EXCEPT ![Concrete(reg[t])] = idx[t]]
  /\ Goto(t, "decr", 0, 0)
  /\ UNCHANGED <<entries, next_id, free_id, data, leaked>>

(* It fails on an occupied position, and the loop goes on with the next.   *)
StoreSlotOccupied(t) ==
  /\ pc[t] = "store_slot" /\ slot[Concrete(reg[t])] # RESERVED
  /\ Goto(t, "fetch_free", 0, idx[t])
  /\ UNCHANGED <<entries, ring, data, leaked>>

(* compare_exchange_weak may also fail spuriously.                         *)
StoreSlotSpurious(t) ==
  /\ pc[t] = "store_slot" /\ slot[Concrete(reg[t])] = RESERVED
  /\ Goto(t, "fetch_free", 0, idx[t])
  /\ UNCHANGED <<entries, ring, data, leaked>>

(* decr_entries: the permit is given back, and remove returns true.        *)
DecrEntries(t) ==
  /\ pc[t] = "decr"
  /\ entries' = (entries + U32 - 1) % U32
  /\ Goto(t, "idle", 0, 0)
  /\ UNCHANGED <<ring, data, leaked>>

-----------------------------------------------------------------------------
Insert(t) ==
  \/ ReserveSlot(t) \/ UndoReserve(t) \/ UndoRetry(t)
  \/ FetchNextId(t) \/ SwapSlot(t) \/ Publish(t) \/ InitPanics(t)

Remove(t) ==
  \/ \E k \in Key : Evict(t, k)
  \/ FetchFreeId(t)
  \/ StoreSlot(t) \/ StoreSlotOccupied(t) \/ StoreSlotSpurious(t)
  \/ DecrEntries(t)

Next == \E t \in Thread : Insert(t) \/ Remove(t)

Spec == Init /\ [][Next]_vars

-----------------------------------------------------------------------------
(* Who has a cell: the thread between taking an index and publishing, or   *)
(* between evicting an entry and putting its index back.                   *)
Acquiring(t) == pc[t] \in {"fetch_next", "swap_slot"}
Releasing(t) == pc[t] \in {"fetch_free", "store_slot"}
Holds(t) == pc[t] = "publish" \/ Releasing(t)

Free(p) == slot[p] # RESERVED
Live == {c \in Offset : data[c] # Null}

(* Permits given out: to entries, to operations under way, and those lost. *)
Permits ==
  Cardinality(Live) + Cardinality(leaked)
    + Cardinality({t \in Thread : Acquiring(t) \/ Holds(t) \/ pc[t] = "decr"})

(* Type invariant: every word stays a word, and every step is one of the   *)
(* code's.                                                                 *)
TypeOK ==
  /\ entries \in 0..(U32 - 1)
  /\ next_id \in 0..(U32 - 1)
  /\ free_id \in 0..(U32 - 1)
  /\ slot \in [Offset -> Word]
  /\ data \in [Offset -> Word \cup {Null}]
  /\ pc \in [Thread -> Step]
  /\ reg \in [Thread -> 0..(U32 - 1)]
  /\ idx \in [Thread -> Word]
  /\ leaked \subseteq Offset

(* The cell a thread publishes into is empty: the condition Atomic::write  *)
(* passes to assert_unchecked (sdd.rs), undefined behaviour otherwise.     *)
PublishIntoEmpty ==
  \A t \in Thread : pc[t] = "publish" => data[Concrete(idx[t])] = Null

(* Exclusive ownership of cells, the invariant behind PublishIntoEmpty: a  *)
(* cell whose index is in the ring is there once and empty, a cell a       *)
(* thread holds is held once, empty, and not in the ring.                  *)
FreeOnce ==
  \A p, q \in Offset :
    Free(p) /\ Free(q) /\ Concrete(slot[p]) = Concrete(slot[q]) => p = q
FreeEmpty == \A p \in Offset : Free(p) => data[Concrete(slot[p])] = Null
HeldOnce ==
  \A t, u \in Thread :
    Holds(t) /\ Holds(u) /\ Concrete(idx[t]) = Concrete(idx[u]) => t = u
HeldEmpty == \A t \in Thread : Holds(t) => data[Concrete(idx[t])] = Null
HeldNotFree ==
  \A t \in Thread, p \in Offset :
    Holds(t) /\ Free(p) => Concrete(slot[p]) # Concrete(idx[t])

Ownership == FreeOnce /\ FreeEmpty /\ HeldOnce /\ HeldEmpty /\ HeldNotFree

(* No slot is ever lost or doubled: each cell is exactly one of free (its  *)
(* index in the ring, once), held by one thread, live, or leaked by a      *)
(* panic. Ring positions and cells need not coincide.                      *)
SlotConservation ==
  \A c \in Offset :
    Cardinality(   {<<"free", p>> : p \in {q \in Offset : Free(q) /\ Concrete(slot[q]) = c}}
              \cup {<<"held", t>> : t \in {u \in Thread : Holds(u) /\ Concrete(idx[u]) = c}}
              \cup {<<"live", d>> : d \in Live \cap {c}}
              \cup {<<"lost", d>> : d \in leaked \cap {c}}) = 1

(* entries is the permits given out plus the increments still to be undone *)
(* (and the one taken at Capacity::MAX); the permits alone never exceed    *)
(* the capacity, whatever failing inserts add to the counter meanwhile.    *)
PermitAccounting ==
  /\ entries = initial_entries + Permits + Cardinality({t \in Thread : pc[t] = "undo"})
  /\ Permits <= cap

(* insert "returns None if the table is at capacity" (public.rs). It may   *)
(* also fail a little early, but only beside another insert whose          *)
(* increment is still to be undone: one that runs alone never does.        *)
FailsOnlyBesideFull ==
  [][\A t \in Thread :
       pc[t] = "idle" /\ pc'[t] = "undo" =>
         Permits = cap \/ \E u \in Thread : pc[u] = "undo"]_vars

(* A permit is a promise: there are at least as many free indices in the   *)
(* ring as threads looking for one, however long other threads stall in    *)
(* the middle of an insert or a remove. Without it acquire_slot would spin *)
(* forever. It is why decr_entries comes after the index is put back.      *)
PermitHonored ==
  Cardinality({t \in Thread : Acquiring(t)}) <= Cardinality({p \in Offset : Free(p)})

(* Dually, a releasing thread always has a RESERVED position to find.      *)
RoomToRelease ==
  Cardinality({t \in Thread : Releasing(t)}) <= Cardinality({p \in Offset : ~Free(p)})

(* len never misses a published entry and never exceeds the capacity.      *)
(* Table's Drop stops after len() entries, so with no operation under way  *)
(* a smaller len would leave entries undropped; it is then exact, but for  *)
(* the slots lost to panics.                                               *)
LenCoversLive ==
  /\ Cardinality(Live) <= len /\ len <= cap
  /\ (\A t \in Thread : pc[t] = "idle")
       => len = Cardinality(Live) + Cardinality(leaked)

-----------------------------------------------------------------------------
(* Each operation takes effect in one step: an insert at the swap of       *)
(* Atomic::write, a remove at the swap of evict.                           *)
Cells == INSTANCE CellSpec WITH
  Cell <- Offset, Entry <- Word, CellOf <- detached_to_concrete,
  Capacity <- cap, cells <- data, lost <- leaked

(* Whatever keys callers pass, the table behaves as an array of cells that *)
(* inserts fill and removes empty indivisibly, within the capacity; and an *)
(* entry is put where the key it is returned under looks for it.           *)
ImplementsCells == Cells!Spec
=============================================================================
