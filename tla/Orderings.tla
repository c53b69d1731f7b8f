------------------------------ MODULE Orderings -----------------------------
(***************************************************************************)
(* The memory orderings of the table's atomic accesses. Table.tla          *)
(* interleaves them; this module follows what the orderings they are given *)
(* add to that: which plain writes happen before which steps.              *)
(*                                                                         *)
(* Every write to entries, next_id, free_id, slot and data is part of a    *)
(* read-modify-write, which reads the newest value whatever its ordering,  *)
(* so interleaving those is enough. A plain load may read an older value   *)
(* (Lookup). A location's view is what an acquiring access to it gets:     *)
(* what releasing accesses put there and later ones, of whatever ordering, *)
(* carry on (release sequences).                                           *)
(***************************************************************************)
EXTENDS Table

CONSTANT MaxPermits  \* bound on the permits given out

ASSUME OrderingsAssumption == MaxPermits \in Nat

VARIABLES
  seen,          \* the writes that happen before each thread's next step
  entries_view,  \* the view of entries
  data_view,     \* the view of each cell of data
  published,     \* the entries ever published: cell, value and view
  got,           \* the value each thread last got a pointer to, if any
  granted,       \* how many permits were given out (history)
  freed          \* how many indices were put back in the ring (history)

orderings == <<seen, entries_view, data_view, published, got, granted, freed>>

(* The writes followed: of a value by an init closure, and of an index to  *)
(* the ring by release_slot.                                               *)
Value(n) == <<"value", n>>
Freed(n) == <<"index", n>>

-----------------------------------------------------------------------------
relaxed == "Relaxed"

incr_entries == "Acquire"
decr_entries == "Release"
swap_entries == "Release"
write_order == "Release"
evict_order == "AcqRel"
load_order == "Acquire"

(* What an access gets from a view and what it adds to it.                 *)
Acquired(order, view) == IF order \in {"Acquire", "AcqRel"} THEN view ELSE {}
Released(order, known) == IF order \in {"Release", "AcqRel"} THEN known ELSE {}

-----------------------------------------------------------------------------
OrderingsInit ==
  /\ Init
  /\ seen = [t \in Thread |-> {}]
  /\ entries_view = {}
  /\ data_view = [c \in Offset |-> {}]
  /\ published = {}
  /\ got = [t \in Thread |-> {}]
  /\ granted = 0
  /\ freed = 0

(* reserve_slot: incr_entries.                                             *)
Reserve(t) ==
  /\ ReserveSlot(t)
  /\ granted < MaxPermits
  /\ granted' = IF entries < LENGTH THEN granted + 1 ELSE granted
  /\ seen' = [seen EXCEPT ![t] = @ \cup Acquired(incr_entries, entries_view)]
  /\ entries_view' = entries_view \cup Released(incr_entries, seen[t])
  /\ UNCHANGED <<data_view, published, got, freed>>

(* reserve_slot: a swap_entries that succeeds.                             *)
Undo(t) ==
  /\ UndoReserve(t)
  /\ seen' = [seen EXCEPT ![t] = @ \cup Acquired(swap_entries, entries_view)]
  /\ entries_view' = entries_view \cup Released(swap_entries, seen[t])
  /\ UNCHANGED <<data_view, published, got, granted, freed>>

(* The init closure writes the value, then the swap publishes it.          *)
Write(t) ==
  /\ Publish(t)
  /\ LET c     == Concrete(idx[t])
         value == Value(Cardinality(published))
         known == seen[t] \cup {value}
         view  == data_view[c] \cup Released(write_order, known)
     IN  /\ seen' = [seen EXCEPT ![t] = known \cup Acquired(write_order, data_view[c])]
         /\ data_view' = [data_view EXCEPT ![c] = view]
         /\ published' = published \cup {[cell |-> c, value |-> value, view |-> view]}
  /\ UNCHANGED <<entries_view, got, granted, freed>>

(* evict gets the newest entry of the cell, to retire it.                  *)
Take(t, k) ==
  /\ Evict(t, k)
  /\ LET c    == detached_to_concrete(k)
         last == CHOOSE m \in published : /\ m.cell = c
                                          /\ \A o \in published : o.cell = c => o.value[2] <= m.value[2]
     IN  /\ got' = [got EXCEPT ![t] = {last.value}]
         /\ seen' = [seen EXCEPT ![t] = @ \cup Acquired(evict_order, data_view[c])]
         /\ data_view' = [data_view EXCEPT ![c] = @ \cup Released(evict_order, seen[t])]
  /\ UNCHANGED <<entries_view, published, granted, freed>>

(* load, for with, exists, read and the walks: any entry the cell ever had.*)
Lookup(t) ==
  /\ pc[t] = "idle"
  /\ \E m \in published :
       /\ got' = [got EXCEPT ![t] = {m.value}]
       /\ seen' = [seen EXCEPT ![t] = @ \cup Acquired(load_order, m.view)]
  /\ UNCHANGED <<vars, entries_view, data_view, published, granted, freed>>

(* release_slot: the CAS that puts the index back.                         *)
PutBack(t) ==
  /\ StoreSlot(t)
  /\ freed' = freed + 1
  /\ seen' = [seen EXCEPT ![t] = @ \cup {Freed(freed)}]
  /\ UNCHANGED <<entries_view, data_view, published, got, granted>>

(* release_slot: decr_entries.                                             *)
GiveBack(t) ==
  /\ DecrEntries(t)
  /\ seen' = [seen EXCEPT ![t] = @ \cup Acquired(decr_entries, entries_view)]
  /\ entries_view' = entries_view \cup Released(decr_entries, seen[t])
  /\ UNCHANGED <<data_view, published, got, granted, freed>>

(* Accesses to next_id, free_id and slot are Relaxed, as are CASes that    *)
(* fail; a panicking closure publishes nothing.                            *)
Unordered(t) ==
  /\ \/ UndoRetry(t) \/ FetchNextId(t) \/ SwapSlot(t) \/ InitPanics(t)
     \/ FetchFreeId(t) \/ StoreSlotOccupied(t) \/ StoreSlotSpurious(t)
  /\ UNCHANGED orderings

OrderingsNext ==
  \E t \in Thread :
    \/ Reserve(t) \/ Undo(t) \/ Write(t) \/ Lookup(t)
    \/ \E k \in Key : Take(t, k)
    \/ PutBack(t) \/ GiveBack(t) \/ Unordered(t)

OrderingsSpec == OrderingsInit /\ [][OrderingsNext]_<<vars, orderings>>

-----------------------------------------------------------------------------
(* "All shared access is mediated through atomic operations" (table.rs): a *)
(* thread that gets a pointer to an entry, to read the value or to retire  *)
(* it, is ordered after the init closure's plain write of it. The ring     *)
(* orders nothing, so the accesses to data must.                           *)
InitVisible == \A t \in Thread : got[t] \subseteq seen[t]

(* A permit is one the thread can rely on: it is ordered after the release *)
(* of enough indices for it and for every permit given out before it. So   *)
(* acquire_slot does not wait for writes to the ring it need not yet see.  *)
(* The ring's own accesses are Relaxed; entries carries the order.         *)
PermitBacked ==
  [][\A t \in Thread :
       pc[t] = "idle" /\ pc'[t] = "fetch_next" =>
         granted' <= cap + Cardinality({n \in 0..(freed - 1) : Freed(n) \in seen'[t]})
    ]_<<vars, orderings>>
=============================================================================
