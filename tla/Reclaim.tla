------------------------------- MODULE Reclaim ------------------------------
(***************************************************************************)
(* The life of an entry: lookups that hold references to it under a guard  *)
(* (with and the Guard of src/src/public.rs, reclaim/sdd.rs), its deferred *)
(* destruction after a remove, and the destruction of the table with the   *)
(* entries still in it (Drop for Table, src/src/table.rs).                 *)
(*                                                                         *)
(* The collector is the crate sdd, external, and modelled by the rule its  *)
(* users rely on: an object that was unlinked is dropped at some time when *)
(* every guard that was there at the unlinking is gone.                    *)
(*                                                                         *)
(* Memory has to be safe whatever callers do, so they pass any keys they   *)
(* like, stale and forged ones too, and keys come again when a slot's      *)
(* generations wrap. Hence entries are told apart not by their keys but by *)
(* their numbers, in order of insertion.                                   *)
(***************************************************************************)
EXTENDS Table, Sequences

CONSTANTS
  Reader,     \* lookups; one made by a thread inside another operation is a
              \* reader of its own
  MaxInserts  \* bound: inserts start while there have been fewer entries

ASSUME ReclaimAssumption ==
  /\ IsFiniteSet(Reader)
  /\ MaxInserts \in Nat
  /\ Null \notin Reader /\ Null \notin Nat

VARIABLES
  object,   \* what the pointers of data point to: the entry in each cell
  guards,   \* the readers that have a Guard
  ref,      \* the entry a reader has a reference to, or Null
  retired,  \* for each unlinked entry, the guards it waits for
  dropped,  \* for each entry, how often it was dropped
  phase,    \* what has become of the table
  cell,     \* where Drop is in the array
  count,    \* Drop's count of the entries left
  unwound   \* whether a destructor panicked in Drop

teardown == <<phase, cell, count, unwound>>
readers == <<guards, ref>>
memory == <<object, readers, retired, dropped, teardown>>

Phase == {"shared", "dropping", "freeing", "freed"}

ReclaimInit ==
  /\ Init
  /\ object = [c \in Offset |-> Null]
  /\ guards = {}
  /\ ref = [r \in Reader |-> Null]
  /\ retired = << >>
  /\ dropped = << >>
  /\ phase = "shared" /\ cell = 0 /\ count = 0 /\ unwound = FALSE

InUse == phase = "shared"

(* The entries inserted so far.                                            *)
Entry == DOMAIN dropped

(* A function with one more pair, or without some.                         *)
With(f, k, v) == [x \in DOMAIN f \cup {k} |-> IF x = k THEN v ELSE f[x]]
Without(f, k) == [x \in DOMAIN f \ {k} |-> f[x]]

-----------------------------------------------------------------------------
(* Guard::new, the argument of with, exists, read and weak_keys.           *)
NewGuard(r) ==
  /\ InUse /\ r \notin guards
  /\ guards' = guards \cup {r}
  /\ UNCHANGED <<vars, object, ref, retired, dropped, teardown>>

(* find: the reader sees the entry now in the key's cell, if any. A lookup *)
(* loads once; weak_keys and Debug load cell after cell under one guard,   *)
(* and are done with an entry when they go to the next. Mutant: the guard  *)
(* lives no longer than the load.                                          *)
Load_outlives_guard(r) ==
  /\ r \in guards
  /\ \E k \in Key : ref' = [ref EXCEPT ![r] = object[detached_to_concrete(k)]]
  /\ guards' = guards \ {r}
  /\ retired' = [e \in DOMAIN retired |-> retired[e] \ {r}]
  /\ UNCHANGED <<vars, object, dropped, teardown>>

Load(r) ==
  /\ r \in guards
  /\ \E k \in Key : ref' = [ref EXCEPT ![r] = object[detached_to_concrete(k)]]
  /\ UNCHANGED <<vars, object, guards, retired, dropped, teardown>>

(* The callback returns, and the temporary guard is dropped after it.      *)
DropGuard(r) ==
  /\ r \in guards
  /\ guards' = guards \ {r}
  /\ ref' = [ref EXCEPT ![r] = Null]
  /\ retired' = [e \in DOMAIN retired |-> retired[e] \ {r}]
  /\ UNCHANGED <<vars, object, dropped, teardown>>

-----------------------------------------------------------------------------
(* A step of an insert or a remove that leaves the entries as they are.    *)
Use(t) ==
  /\ InUse
  /\ \/ ReserveSlot(t) /\ Len(dropped) < MaxInserts
     \/ UndoReserve(t) \/ UndoRetry(t)
     \/ FetchNextId(t) \/ SwapSlot(t) \/ InitPanics(t)
     \/ FetchFreeId(t) \/ StoreSlot(t) \/ StoreSlotOccupied(t) \/ StoreSlotSpurious(t)
     \/ DecrEntries(t)
  /\ UNCHANGED memory

(* Atomic::write: a new entry. Whatever pointer was in the cell before is  *)
(* forgotten.                                                              *)
Link(t) ==
  /\ InUse
  /\ Publish(t)
  /\ object' = [object EXCEPT ![Concrete(idx[t])] = Len(dropped) + 1]
  /\ dropped' = Append(dropped, 0)
  /\ UNCHANGED <<readers, retired, teardown>>

(* Atomic::evict: the entry its swap returns is handed to the collector.   *)
Unlink(t) ==
  /\ InUse
  /\ \E k \in Key :
       LET c == detached_to_concrete(k)
       IN  /\ Evict(t, k)
           /\ retired' = With(retired, object[c], guards)
           /\ object' = [object EXCEPT ![c] = Null]
  /\ UNCHANGED <<readers, dropped, teardown>>

(* The collector, at any time, even after the table is gone.               *)
Collect ==
  \E e \in DOMAIN retired :
    /\ retired[e] = {}
    /\ dropped' = [dropped EXCEPT ![e] = @ + 1]
    /\ retired' = Without(retired, e)
    /\ UNCHANGED <<vars, object, readers, teardown>>

-----------------------------------------------------------------------------
operations == <<entries, ring, pc, reg, idx, leaked, readers, retired>>

(* Drop for Table begins: it has the table to itself, so that no operation *)
(* is under way and no lookup or iterator borrows it.                      *)
BeginDrop ==
  /\ InUse /\ guards = {} /\ \A t \in Thread : pc[t] = "idle"
  /\ count' = len
  /\ phase' = IF len = 0 THEN "freeing" ELSE "dropping"
  /\ UNCHANGED <<operations, data, object, dropped, cell, unwound>>

(* Whether Drop has found all entries len counted. Mutant: one too few.    *)
found_all_early(n) == n <= 1
found_all(n) == n = 0

(* Atomic::drop_in_place empties the cell, then drops the entry it held.   *)
TakeAndDrop ==
  /\ data' = [data EXCEPT ![cell] = Null]
  /\ object' = [object EXCEPT ![cell] = Null]
  /\ dropped' = [dropped EXCEPT ![object[cell]] = @ + 1]

(* A round of Drop's loop over as_mut_slice: the loop goes on to the next  *)
(* cell unless the count has come down to zero.                            *)
DropEntry ==
  /\ phase = "dropping"
  /\ IF data[cell] = Null
       THEN UNCHANGED <<data, object, dropped, count>>
       ELSE TakeAndDrop /\ count' = count - 1
  /\ LET break == data[cell] # Null /\ found_all(count - 1)
     IN  phase' = IF break \/ cell = LENGTH - 1 THEN "freeing" ELSE "dropping"
  /\ cell' = cell + 1
  /\ UNCHANGED <<operations, unwound>>

(* The destructor of an entry panics: Drop is left there and then, and the *)
(* fields of the table are dropped in the course of unwinding.             *)
DestructorPanics ==
  /\ phase = "dropping" /\ data[cell] # Null
  /\ TakeAndDrop
  /\ phase' = "freeing" /\ unwound' = TRUE
  /\ UNCHANGED <<operations, cell, count>>

(* Drop for Array, twice: deallocation alone, no element is dropped.       *)
FreeArrays ==
  /\ phase = "freeing"
  /\ phase' = "freed"
  /\ UNCHANGED <<operations, data, object, dropped, cell, count, unwound>>

ReclaimNext ==
  \/ \E r \in Reader : NewGuard(r) \/ Load(r) \/ DropGuard(r)
  \/ \E t \in Thread : Use(t) \/ Link(t) \/ Unlink(t)
  \/ Collect
  \/ BeginDrop \/ DropEntry \/ DestructorPanics \/ FreeArrays

ReclaimSpec == ReclaimInit /\ [][ReclaimNext]_<<vars, memory>>

-----------------------------------------------------------------------------
(* A reference is usable as long as its reader has it: "The reference      *)
(* remains valid for the callback's duration even under concurrent         *)
(* removal" (public.rs).                                                   *)
ReferencesAreAlive == \A r \in Reader : ref[r] # Null => dropped[ref[r]] = 0

(* Every entry inserted is, at any time, exactly one of in the table,      *)
(* waiting for the collector, and dropped, once. The array is freed only   *)
(* when nothing is left in it, unless a destructor panicked. Hence no      *)
(* entry is dropped twice, and, but for that, none is never dropped.       *)
DroppedOnce ==
  /\ \A e \in Entry :
       dropped[e] + Cardinality({e} \cap DOMAIN retired)
                  + Cardinality({c \in Live : object[c] = e}) = 1
  /\ phase = "freed" => Live = {} \/ unwound
=============================================================================
