------------------------------ MODULE KeysIter ------------------------------
(***************************************************************************)
(* A walk over the cells of the table (src/src/table.rs) beside callers    *)
(* that insert and remove: the iterator weak_keys returns, and the Debug   *)
(* output. Both visit the cells in the order of allocation, one load each, *)
(* and yield a key for every entry they see.                               *)
(*                                                                         *)
(* One walk is followed, started at any time.                              *)
(***************************************************************************)
EXTENDS Table

VARIABLES
  walk,       \* which walk it is, or Null before it begins
  index,      \* how many cells it has visited: WeakKeys.index
  yielded,    \* the keys yielded so far
  during,     \* keys of entries there at some instant of the walk
  throughout  \* keys of entries there all the time since it began

ASSUME KeysIterAssumption == Null \notin {"weak_keys", "debug"}

iter == <<walk, index, yielded, during, throughout>>

Scanning == walk # Null

(* The keys of the entries there.                                          *)
present == {data[c] : c \in Live}

IterInit ==
  /\ Init
  /\ walk = Null /\ index = 0
  /\ yielded = {} /\ during = {} /\ throughout = {}

(* WeakKeys::new fixes total at cap(); the loop of Debug ends at LENGTH.   *)
total == IF walk = "weak_keys" THEN cap ELSE LENGTH

Begin(w) ==
  /\ ~Scanning
  /\ walk' = w
  /\ during' = present /\ throughout' = present
  /\ UNCHANGED <<vars, index, yielded>>

weak_keys == Begin("weak_keys")
Debug == Begin("debug")

(* One round of the loop of WeakKeys::next, or of fmt. Mutant: the cell is *)
(* not tested.                                                             *)
Visit_untested ==
  /\ Scanning /\ index < total
  /\ index' = index + 1
  /\ yielded' = yielded \cup {abstract_to_detached(index)}
  /\ UNCHANGED <<vars, walk, during, throughout>>

(* Mutant: the cell is looked for at the abstract index itself.            *)
Visit_unspread ==
  /\ Scanning /\ index < total
  /\ index' = index + 1
  /\ yielded' =
       IF data[index] = Null THEN yielded
                             ELSE yielded \cup {abstract_to_detached(index)}
  /\ UNCHANGED <<vars, walk, during, throughout>>

Visit ==
  /\ Scanning /\ index < total
  /\ index' = index + 1
  /\ yielded' =
       IF data[Concrete(index)] = Null THEN yielded
                                       ELSE yielded \cup {abstract_to_detached(index)}
  /\ UNCHANGED <<vars, walk, during, throughout>>

(* The callers go on, removing entries by any keys; the history of the     *)
(* walk is kept.                                                           *)
Call(t) ==
  \/ Insert(t)
  \/ \E k \in Key : Evict(t, k)
  \/ FetchFreeId(t)
  \/ StoreSlot(t) \/ StoreSlotOccupied(t) \/ StoreSlotSpurious(t)
  \/ DecrEntries(t)

Meanwhile ==
  /\ \E t \in Thread : Call(t)
  /\ during' = IF Scanning THEN during \cup present' ELSE during
  /\ throughout' = throughout \cap present'
  /\ UNCHANGED <<walk, index, yielded>>

IterNext == weak_keys \/ Debug \/ Visit \/ Meanwhile

IterSpec == IterInit /\ [][IterNext]_<<vars, iter>>

-----------------------------------------------------------------------------
(* The cell of a key, and its place in the order of the walk.              *)
SameCell(k, l) == detached_to_concrete(k) = detached_to_concrete(l)

Place(k) == initial_slot(detached_to_concrete(k))

(* Of the cells visited so far, a key was yielded of each that held one    *)
(* entry all the time, whatever else is inserted, removed and reinserted   *)
(* while the walk is on its way; and Debug visits every cell.              *)
NoneMissed ==
  /\ \A k \in throughout :
       Place(k) < index => \E y \in yielded : SameCell(k, y)
  /\ walk = "debug" /\ index = total => \A k \in throughout : Place(k) < index

(* A complete walk misses no entry that was there all the time: an         *)
(* iterator "over all currently allocated indices" (public.rs).            *)
AllListed ==
  Scanning /\ index = total =>
    \A k \in throughout : \E y \in yielded : SameCell(k, y)

(* No key is yielded of a cell that was empty all the time (table.rs: "It  *)
(* never yields an index that was never fully initialized").               *)
YieldedHeldAnEntry == \A y \in yielded : \E k \in during : SameCell(k, y)

(* "Each yielded index was valid at some instant during iteration"         *)
(* (public.rs): it was the key of an entry that was there.                 *)
YieldedWasValid == walk = "weak_keys" => yielded \subseteq during
=============================================================================
