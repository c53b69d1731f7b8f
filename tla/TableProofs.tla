----------------------------- MODULE TableProofs ----------------------------
(***************************************************************************)
(* Theorems about the table (Table.tla), for every capacity, cache line,   *)
(* word width, set of threads and set of keys passed to remove.            *)
(***************************************************************************)
EXTENDS Table, IndexProofs, FiniteSetTheorems

(* The counters are words of a positive modulus.                           *)
LEMMA Counters ==
  /\ U32 \in Nat \ {0}
  /\ \A x \in 0..(U32 - 1) : /\ x \in Nat
                             /\ (x + 1) % U32 \in 0..(U32 - 1)
                             /\ (x + U32 - 1) % U32 \in 0..(U32 - 1)
PROOF
<1>1. Cardinality(Thread) \in Nat
  BY FS_CardinalityType, TableAssumption
<1>2. U32 \in Nat \ {0}
  BY <1>1, TableAssumption, IndexAssumption
<1>. QED
  BY <1>2

(* A step of one thread writes registers of that thread only.              *)
LEMMA GotoTypes ==
  ASSUME TypeOK, NEW t \in Thread, NEW step \in Step,
         NEW r \in 0..(U32 - 1), NEW i \in Word, Goto(t, step, r, i)
  PROVE  /\ pc' \in [Thread -> Step]
         /\ reg' \in [Thread -> 0..(U32 - 1)]
         /\ idx' \in [Thread -> Word]
BY DEF TypeOK, Goto

LEMMA GotoEffect ==
  ASSUME TypeOK, NEW t \in Thread, NEW step, NEW r, NEW i, Goto(t, step, r, i)
  PROVE  /\ pc'[t] = step /\ reg'[t] = r /\ idx'[t] = i
         /\ \A u \in Thread \ {t} : pc'[u] = pc[u] /\ reg'[u] = reg[u] /\ idx'[u] = idx[u]
BY DEF TypeOK, Goto

-----------------------------------------------------------------------------
LEMMA InitTypeOK == Init => TypeOK
PROOF
<1>. SUFFICES ASSUME Init PROVE TypeOK
  OBVIOUS
<1>1. 0 \in 0..(U32 - 1) /\ initial_entries \in 0..(U32 - 1)
  <2>1. Cardinality(Thread) \in Nat
    BY FS_CardinalityType, TableAssumption
  <2>. QED
    BY <2>1, TableAssumption, IndexAssumption DEF initial_entries
<1>2. \A c \in Offset : initial_slot(c) \in Word
  BY InitialSlot, IndexAssumption DEF Offset, Word
<1>3. 0 \in Word
  BY IndexAssumption DEF Word
<1>. QED
  BY <1>1, <1>2, <1>3 DEF Init, TypeOK, Step

LEMMA NextTypeOK == TypeOK /\ [Next]_vars => TypeOK'
PROOF
<1>. SUFFICES ASSUME TypeOK, [Next]_vars PROVE TypeOK'
  OBVIOUS
<1>1. 0 \in 0..(U32 - 1) /\ 0 \in Word /\ RESERVED \in Word
  BY Counters, IndexAssumption DEF Word, RESERVED
<1>2. \A w \in Word : Concrete(w) \in Offset
  BY ConcreteInRange, IndexAssumption DEF Concrete, Word
<1>3. \A x \in 0..(U32 - 1) : Concrete(x) \in Offset
  BY ConcreteInRange, Counters DEF Concrete
<1>4. CASE UNCHANGED vars
  BY <1>4 DEF TypeOK, vars
<1>5. ASSUME NEW t \in Thread, ReserveSlot(t) PROVE TypeOK'
  <2>1. (entries + 1) % U32 \in 0..(U32 - 1)
    BY Counters DEF TypeOK
  <2>2. CASE entries < LENGTH
    BY <1>1, <1>5, <2>1, <2>2, GotoTypes DEF ReserveSlot, ring, TypeOK, Step
  <2>3. CASE ~(entries < LENGTH)
    BY <1>1, <1>5, <2>1, <2>3, GotoTypes DEF ReserveSlot, ring, TypeOK, Step
  <2>. QED
    BY <2>2, <2>3
<1>6. ASSUME NEW t \in Thread, UndoReserve(t) PROVE TypeOK'
  <2>1. (reg[t] + U32 - 1) % U32 \in 0..(U32 - 1)
    BY Counters DEF TypeOK
  <2>. QED
    BY <1>1, <1>6, <2>1, GotoTypes DEF UndoReserve, ring, TypeOK, Step
<1>7. ASSUME NEW t \in Thread, UndoRetry(t) PROVE TypeOK'
  BY <1>1, <1>7, GotoTypes DEF UndoRetry, ring, TypeOK, Step
<1>8. ASSUME NEW t \in Thread, FetchNextId(t) PROVE TypeOK'
  <2>1. (next_id + 1) % U32 \in 0..(U32 - 1)
    BY Counters DEF TypeOK
  <2>. QED
    BY <1>1, <1>8, <2>1, GotoTypes DEF FetchNextId, TypeOK, Step
<1>9. ASSUME NEW t \in Thread, SwapSlot(t) PROVE TypeOK'
  <2>1. slot[Concrete(reg[t])] \in Word
    BY <1>3 DEF TypeOK
  <2>2. slot' \in [Offset -> Word]
    BY <1>1, <1>9 DEF SwapSlot, TypeOK
  <2>3. CASE slot[Concrete(reg[t])] = RESERVED
    BY <1>1, <1>9, <2>2, <2>3, GotoTypes DEF SwapSlot, TypeOK, Step
  <2>4. CASE slot[Concrete(reg[t])] # RESERVED
    BY <1>1, <1>9, <2>1, <2>2, <2>4, GotoTypes DEF SwapSlot, TypeOK, Step
  <2>. QED
    BY <2>3, <2>4
<1>10. ASSUME NEW t \in Thread, Publish(t) PROVE TypeOK'
  <2>1. abstract_to_detached(idx[t]) \in Word
    BY KeyOfIndex DEF TypeOK
  <2>2. data' \in [Offset -> Word \cup {Null}]
    BY <1>10, <2>1 DEF Publish, TypeOK
  <2>. QED
    BY <1>1, <1>10, <2>2, GotoTypes DEF Publish, ring, TypeOK, Step
<1>11. ASSUME NEW t \in Thread, InitPanics(t) PROVE TypeOK'
  <2>1. leaked' \subseteq Offset
    BY <1>2, <1>11 DEF InitPanics, TypeOK
  <2>. QED
    BY <1>1, <1>11, <2>1, GotoTypes DEF InitPanics, ring, TypeOK, Step
<1>12. ASSUME NEW t \in Thread, NEW k \in Key, Evict(t, k) PROVE TypeOK'
  <2>1. generate_next_slot(detached_to_abstract(k)) \in Word
    BY IndexOfKey, NextSlot, TableAssumption
  <2>2. data' \in [Offset -> Word \cup {Null}]
    BY <1>12 DEF Evict, TypeOK
  <2>. QED
    BY <1>1, <1>12, <2>1, <2>2, GotoTypes DEF Evict, ring, TypeOK, Step
<1>13. ASSUME NEW t \in Thread, FetchFreeId(t) PROVE TypeOK'
  <2>1. (free_id + 1) % U32 \in 0..(U32 - 1) /\ idx[t] \in Word
    BY Counters DEF TypeOK
  <2>. QED
    BY <1>13, <2>1, GotoTypes DEF FetchFreeId, TypeOK, Step
<1>14. ASSUME NEW t \in Thread, StoreSlot(t) PROVE TypeOK'
  <2>1. slot' \in [Offset -> Word]
    BY <1>14 DEF StoreSlot, TypeOK
  <2>. QED
    BY <1>1, <1>14, <2>1, GotoTypes DEF StoreSlot, TypeOK, Step
<1>15. ASSUME NEW t \in Thread, StoreSlotOccupied(t) \/ StoreSlotSpurious(t) PROVE TypeOK'
  <2>1. idx[t] \in Word
    BY DEF TypeOK
  <2>. QED
    BY <1>1, <1>15, <2>1, GotoTypes
       DEF StoreSlotOccupied, StoreSlotSpurious, ring, TypeOK, Step
<1>16. ASSUME NEW t \in Thread, DecrEntries(t) PROVE TypeOK'
  <2>1. (entries + U32 - 1) % U32 \in 0..(U32 - 1)
    BY Counters DEF TypeOK
  <2>. QED
    BY <1>1, <1>16, <2>1, GotoTypes DEF DecrEntries, ring, TypeOK, Step
<1>. QED
  BY <1>4, <1>5, <1>6, <1>7, <1>8, <1>9, <1>10, <1>11, <1>12, <1>13, <1>14,
     <1>15, <1>16 DEF Next, Insert, Remove

(* Every reachable state of the table is well typed: no index leaves usize,*)
(* no array access its bounds, and no counter its width.                   *)
THEOREM TypeCorrect == Spec => []TypeOK
PROOF
  BY InitTypeOK, NextTypeOK, PTL DEF Spec

-----------------------------------------------------------------------------
LEMMA InitOwnership == Init => Ownership
PROOF
<1>. SUFFICES ASSUME Init PROVE Ownership
  OBVIOUS
<1>1. \A t \in Thread : ~Holds(t)
  BY DEF Init, Holds, Releasing
<1>2. \A p \in Offset : Concrete(slot[p]) = p /\ data[p] = Null
  BY InitialSlot DEF Init, Concrete
<1>. QED
  BY <1>1, <1>2
     DEF Ownership, FreeOnce, FreeEmpty, HeldOnce, HeldEmpty, HeldNotFree

(* Steps that touch neither array and take hold of no cell.                *)
LEMMA QuietStep ==
  ASSUME Ownership, UNCHANGED <<slot, data>>,
         \A u \in Thread : Holds(u)' => Holds(u) /\ idx'[u] = idx[u]
  PROVE  Ownership'
BY DEF Ownership, FreeOnce, FreeEmpty, HeldOnce, HeldEmpty, HeldNotFree, Free, Concrete

(* acquire_slot moves a cell from the ring to the thread.                  *)
LEMMA SwapSlotOwnership ==
  ASSUME TypeOK, Ownership, NEW t \in Thread, SwapSlot(t)
  PROVE  Ownership'
PROOF
<1> DEFINE p == Concrete(reg[t])
<1>1. p \in Offset
  BY ConcreteInRange, Counters DEF Concrete, TypeOK
<1>2. data' = data /\ slot' = [slot EXCEPT ![p] = RESERVED]
  BY DEF SwapSlot
<1>. HIDE DEF p
<1>3. \A q \in Offset : Free(q)' => q # p /\ Free(q) /\ slot'[q] = slot[q]
  BY <1>1, <1>2 DEF Free, TypeOK
<1>4. CASE slot[p] = RESERVED
  <2>1. Goto(t, "fetch_next", 0, 0)
    BY <1>4 DEF SwapSlot, p
  <2>2. \A u \in Thread : Holds(u)' => Holds(u) /\ idx'[u] = idx[u]
    BY <2>1, GotoEffect DEF Holds, Releasing
  <2>3. slot' = slot
    BY <1>1, <1>2, <1>4 DEF TypeOK
  <2>. QED
    BY <1>2, <2>2, <2>3, QuietStep
<1>5. CASE slot[p] # RESERVED
  <2>1. Goto(t, "publish", 0, slot[p])
    BY <1>5 DEF SwapSlot, p
  <2>2. Holds(t)' /\ idx'[t] = slot[p] /\ Free(p)
    BY <1>5, <2>1, GotoEffect DEF Holds, Free
  <2>3. \A u \in Thread \ {t} : Holds(u)' => Holds(u) /\ idx'[u] = idx[u]
    BY <2>1, GotoEffect DEF Holds, Releasing
  <2>4. FreeOnce'
    BY <1>3 DEF Ownership, FreeOnce, Concrete
  <2>5. FreeEmpty'
    BY <1>2, <1>3 DEF Ownership, FreeEmpty, Concrete
  <2>6. HeldOnce'
    BY <1>1, <2>2, <2>3 DEF Ownership, HeldOnce, HeldNotFree, Concrete
  <2>7. HeldEmpty'
    BY <1>1, <1>2, <2>2, <2>3 DEF Ownership, HeldEmpty, FreeEmpty, Concrete
  <2>8. HeldNotFree'
    <3>1. \A q \in Offset : Free(q)' => Concrete(slot[q]) # Concrete(slot[p])
      BY <1>1, <1>3, <2>2 DEF Ownership, FreeOnce
    <3>. QED
      BY <1>3, <2>2, <2>3, <3>1 DEF Ownership, HeldNotFree, Concrete
  <2>. QED
    BY <2>4, <2>5, <2>6, <2>7, <2>8 DEF Ownership
<1>. QED
  BY <1>4, <1>5

(* Publishing turns the thread's cell into a live one.                     *)
LEMMA PublishOwnership ==
  ASSUME TypeOK, Ownership, NEW t \in Thread, Publish(t)
  PROVE  Ownership'
PROOF
<1> DEFINE c == Concrete(idx[t])
<1>1. /\ slot' = slot
      /\ \A d \in Offset : d # c => data'[d] = data[d]
  BY DEF Publish, ring, TypeOK
<1>2. Holds(t) /\ ~Holds(t)'
  BY GotoEffect DEF Publish, Holds, Releasing, Step
<1>3. \A u \in Thread : Holds(u)' => u # t /\ Holds(u) /\ idx'[u] = idx[u]
  BY <1>2, GotoEffect DEF Publish, Holds, Releasing
<1>4. /\ \A q \in Offset : Concrete(slot[q]) \in Offset
      /\ \A u \in Thread : Concrete(idx[u]) \in Offset
  BY ConcreteInRange, IndexAssumption DEF TypeOK, Word, Concrete
<1>. HIDE DEF c
<1>5. FreeOnce'
  BY <1>1 DEF Ownership, FreeOnce, Free, Concrete
<1>6. FreeEmpty'
  <2>1. \A q \in Offset : Free(q) => Concrete(slot[q]) # c
    BY <1>2 DEF Ownership, HeldNotFree, c
  <2>. QED
    BY <1>1, <1>4, <2>1 DEF Ownership, FreeEmpty, Free, Concrete
<1>7. HeldOnce'
  BY <1>3 DEF Ownership, HeldOnce, Concrete
<1>8. HeldEmpty'
  <2>1. \A u \in Thread : Holds(u)' => Concrete(idx[u]) # c
    BY <1>2, <1>3 DEF Ownership, HeldOnce, c
  <2>. QED
    BY <1>1, <1>3, <1>4, <2>1 DEF Ownership, HeldEmpty, Concrete
<1>9. HeldNotFree'
  BY <1>1, <1>3 DEF Ownership, HeldNotFree, Free, Concrete
<1>. QED
  BY <1>5, <1>6, <1>7, <1>8, <1>9 DEF Ownership

(* evict turns a live cell, whatever its key's generation, into the        *)
(* thread's own; nobody else had it, since it was not empty.               *)
LEMMA EvictOwnership ==
  ASSUME TypeOK, Ownership, NEW t \in Thread, NEW k \in Key, Evict(t, k)
  PROVE  Ownership'
PROOF
<1> DEFINE c == detached_to_concrete(k)
           a == generate_next_slot(detached_to_abstract(k))
<1>1. a \in Word /\ Concrete(a) = c /\ c \in Offset
  <2>1. k \in Word
    BY TableAssumption
  <2>2. /\ detached_to_abstract(k) \in Word
        /\ Concrete(detached_to_abstract(k)) = c
    BY <2>1, IndexOfKey DEF Concrete
  <2>3. c \in Offset
    BY <2>1, Generations DEF detached_to_concrete
  <2>. QED
    BY <2>2, <2>3, NextSlot DEF Concrete
<1>2. data[c] # Null /\ Goto(t, "fetch_free", 0, a)
  BY DEF Evict, find
<1>3. slot' = slot /\ data' = [data EXCEPT ![c] = Null]
  BY DEF Evict, ring
<1>. HIDE DEF c, a
<1>4. data'[c] = Null /\ \A d \in Offset : data[d] = Null => data'[d] = Null
  BY <1>1, <1>3 DEF TypeOK
<1>5. Holds(t)' /\ idx'[t] = a
  BY <1>2, GotoEffect DEF Holds, Releasing
<1>6. \A u \in Thread \ {t} : Holds(u)' => Holds(u) /\ idx'[u] = idx[u]
  BY <1>2, GotoEffect DEF Holds, Releasing
<1>7. /\ \A q \in Offset : Concrete(slot[q]) \in Offset
      /\ \A u \in Thread : Concrete(idx[u]) \in Offset
  BY ConcreteInRange, IndexAssumption DEF TypeOK, Word, Concrete
<1>8. /\ \A q \in Offset : Free(q) => Concrete(slot[q]) # c
      /\ \A u \in Thread : Holds(u) => Concrete(idx[u]) # c
  BY <1>2 DEF Ownership, FreeEmpty, HeldEmpty
<1>9. FreeOnce'
  BY <1>3 DEF Ownership, FreeOnce, Free, Concrete
<1>10. FreeEmpty'
  BY <1>3, <1>4, <1>7 DEF Ownership, FreeEmpty, Free, Concrete
<1>11. HeldOnce'
  BY <1>1, <1>5, <1>6, <1>8 DEF Ownership, HeldOnce, Concrete
<1>12. HeldEmpty'
  BY <1>1, <1>4, <1>5, <1>6, <1>7 DEF Ownership, HeldEmpty, Concrete
<1>13. HeldNotFree'
  BY <1>1, <1>3, <1>5, <1>6, <1>8 DEF Ownership, HeldNotFree, Free, Concrete
<1>. QED
  BY <1>9, <1>10, <1>11, <1>12, <1>13 DEF Ownership

(* release_slot moves the thread's cell back to the ring.                  *)
LEMMA StoreSlotOwnership ==
  ASSUME TypeOK, Ownership, NEW t \in Thread, StoreSlot(t)
  PROVE  Ownership'
PROOF
<1> DEFINE p == Concrete(reg[t])
<1>1. p \in Offset
  BY ConcreteInRange, Counters DEF Concrete, TypeOK
<1>2. data' = data /\ slot' = [slot EXCEPT ![p] = idx[t]]
  BY DEF StoreSlot
<1>. HIDE DEF p
<1>3. slot'[p] = idx[t] /\ \A q \in Offset \ {p} : slot'[q] = slot[q]
  BY <1>1, <1>2 DEF TypeOK
<1>4. \A q \in Offset \ {p} : Free(q)' => Free(q)
  BY <1>3 DEF Free
<1>5. Holds(t) /\ ~Holds(t)'
  BY GotoEffect DEF StoreSlot, Holds, Releasing, Step
<1>6. \A u \in Thread : Holds(u)' => u # t /\ Holds(u) /\ idx'[u] = idx[u]
  BY <1>5, GotoEffect DEF StoreSlot, Holds, Releasing
<1>7. FreeOnce'
  BY <1>3, <1>4, <1>5 DEF Ownership, FreeOnce, HeldNotFree, Concrete
<1>8. FreeEmpty'
  BY <1>2, <1>3, <1>4, <1>5 DEF Ownership, FreeEmpty, HeldEmpty, Concrete
<1>9. HeldOnce'
  BY <1>6 DEF Ownership, HeldOnce, Concrete
<1>10. HeldEmpty'
  BY <1>2, <1>6 DEF Ownership, HeldEmpty, Concrete
<1>11. HeldNotFree'
  BY <1>3, <1>4, <1>5, <1>6 DEF Ownership, HeldNotFree, HeldOnce, Concrete
<1>. QED
  BY <1>7, <1>8, <1>9, <1>10, <1>11 DEF Ownership

LEMMA NextOwnership == TypeOK /\ Ownership /\ [Next]_vars => Ownership'
PROOF
<1>. SUFFICES ASSUME TypeOK, Ownership, [Next]_vars PROVE Ownership'
  OBVIOUS
<1>1. CASE UNCHANGED vars
  <2>1. \A u \in Thread : Holds(u)' => Holds(u) /\ idx'[u] = idx[u]
    BY <1>1 DEF vars, Holds, Releasing
  <2>. QED
    BY <1>1, <2>1, QuietStep DEF vars
<1>2. ASSUME NEW t \in Thread,
             \/ ReserveSlot(t) \/ UndoReserve(t) \/ UndoRetry(t) \/ FetchNextId(t)
             \/ InitPanics(t) \/ DecrEntries(t)
      PROVE  Ownership'
  <2>1. UNCHANGED <<slot, data>>
    BY <1>2 DEF ReserveSlot, UndoReserve, UndoRetry, FetchNextId, InitPanics,
                DecrEntries, ring
  <2>2. \A u \in Thread : Holds(u)' => Holds(u) /\ idx'[u] = idx[u]
    <3>1. PICK step, r : /\ step \in {"fetch_next", "undo", "idle", "swap_slot"}
                         /\ Goto(t, step, r, 0)
      BY <1>2 DEF ReserveSlot, UndoReserve, UndoRetry, FetchNextId, InitPanics,
                  DecrEntries
    <3>. QED
      BY <3>1, GotoEffect DEF Holds, Releasing
  <2>. QED
    BY <2>1, <2>2, QuietStep
<1>3. ASSUME NEW t \in Thread,
             FetchFreeId(t) \/ StoreSlotOccupied(t) \/ StoreSlotSpurious(t)
      PROVE  Ownership'
  <2>1. UNCHANGED <<slot, data>>
    BY <1>3 DEF FetchFreeId, StoreSlotOccupied, StoreSlotSpurious, ring
  <2>2. Holds(t) /\ idx'[t] = idx[t]
    BY <1>3, GotoEffect
       DEF FetchFreeId, StoreSlotOccupied, StoreSlotSpurious, Holds, Releasing
  <2>3. \A u \in Thread \ {t} : Holds(u)' => Holds(u) /\ idx'[u] = idx[u]
    BY <1>3, GotoEffect
       DEF FetchFreeId, StoreSlotOccupied, StoreSlotSpurious, Holds, Releasing
  <2>. QED
    BY <2>1, <2>2, <2>3, QuietStep
<1>. QED
  BY <1>1, <1>2, <1>3, SwapSlotOwnership, PublishOwnership, EvictOwnership,
     StoreSlotOwnership DEF Next, Insert, Remove

(* Every cell has one owner in every reachable state.                      *)
THEOREM CellsAreOwned == Spec => []Ownership
PROOF
<1>1. Init => TypeOK /\ Ownership
  BY InitTypeOK, InitOwnership
<1>2. (TypeOK /\ Ownership) /\ [Next]_vars => (TypeOK /\ Ownership)'
  BY NextTypeOK, NextOwnership
<1>. QED
  BY <1>1, <1>2, PTL DEF Spec

(* The unchecked assumption of Atomic::write holds: whatever the threads   *)
(* do, and whatever keys they remove by, no entry is ever overwritten.     *)
THEOREM NeverOverwrites == Spec => []PublishIntoEmpty
PROOF
<1>1. Ownership => PublishIntoEmpty
  BY DEF Ownership, HeldEmpty, PublishIntoEmpty, Holds
<1>. QED
  BY <1>1, CellsAreOwned, PTL
-----------------------------------------------------------------------------
(***************************************************************************)
(* Counting: no slot is lost or doubled, and entries is the number of      *)
(* permits. From them follows that a permit is honoured, that len covers   *)
(* the entries there are, and that the table implements atomic cells       *)
(* (CellSpec.tla).                                                         *)
(***************************************************************************)

(* The threads at one of some steps.                                       *)
At(S) == {t \in Thread : pc[t] \in S}

Seeking == {"fetch_next", "swap_slot"}
Returning == {"fetch_free", "store_slot"}
Holding == {"publish", "fetch_free", "store_slot"}
Permitted == {"fetch_next", "swap_slot", "publish", "fetch_free", "store_slot", "decr"}
Undoing == {"undo"}

FreePositions == {p \in Offset : Free(p)}

(* What Ownership lacks of SlotConservation: leaked cells are owned by     *)
(* nobody, and every other cell by somebody.                               *)
LeakedApart ==
  \A c \in leaked :
    /\ data[c] = Null
    /\ \A p \in Offset : Free(p) => Concrete(slot[p]) # c
    /\ \A t \in Thread : Holds(t) => Concrete(idx[t]) # c

Covered ==
  \A c \in Offset :
    \/ \E p \in Offset : Free(p) /\ Concrete(slot[p]) = c
    \/ \E t \in Thread : Holds(t) /\ Concrete(idx[t]) = c
    \/ data[c] # Null
    \/ c \in leaked

(* What is put back in the ring is an index.                               *)
Recycled == \A t \in Thread : Releasing(t) => idx[t] # RESERVED

Shares == Ownership /\ LeakedApart /\ Covered /\ Recycled

(* Slots and permits, in numbers.                                          *)
Balance ==
  Cardinality(FreePositions) + Cardinality(At(Holding))
    + Cardinality(Live) + Cardinality(leaked) = LENGTH

Given == Cardinality(Live) + Cardinality(leaked) + Cardinality(At(Permitted))

Counted == entries = initial_entries + Given + Cardinality(At(Undoing))

Tally == Balance /\ Counted /\ Given <= cap

CountInv == TypeOK /\ Shares /\ Tally

-----------------------------------------------------------------------------
LEMMA Grow ==
  ASSUME NEW S, NEW T, NEW x, IsFiniteSet(S), x \notin S, T = S \cup {x}
  PROVE  IsFiniteSet(T) /\ Cardinality(T) = Cardinality(S) + 1
BY FS_AddElement

LEMMA Shrink ==
  ASSUME NEW S, NEW T, NEW x, IsFiniteSet(S), x \in S, T = S \ {x}
  PROVE  IsFiniteSet(T) /\ Cardinality(T) = Cardinality(S) - 1
BY FS_RemoveElement

LEMMA OffsetFinite == IsFiniteSet(Offset) /\ Cardinality(Offset) = LENGTH
PROOF
<1>1. LENGTH - 1 \in Int /\ 0 \in Int
  BY IndexAssumption
<1>. QED
  BY <1>1, FS_Interval, IndexAssumption DEF Offset

LEMMA AtFinite ==
  ASSUME NEW S
  PROVE  /\ IsFiniteSet(At(S)) /\ Cardinality(At(S)) \in Nat
         /\ Cardinality(At(S)) <= Cardinality(Thread)
PROOF
<1>1. At(S) \in SUBSET Thread
  BY DEF At
<1>2. IsFiniteSet(Thread)
  BY TableAssumption
<1>3. IsFiniteSet(At(S)) /\ Cardinality(At(S)) <= Cardinality(Thread)
  BY <1>1, <1>2, FS_Subset
<1>. QED
  BY <1>3, FS_CardinalityType

LEMMA CellsFinite ==
  ASSUME TypeOK
  PROVE  /\ IsFiniteSet(FreePositions) /\ Cardinality(FreePositions) \in Nat
         /\ IsFiniteSet(Live) /\ Cardinality(Live) \in Nat
         /\ IsFiniteSet(leaked) /\ Cardinality(leaked) \in Nat
PROOF
<1>1. FreePositions \in SUBSET Offset /\ Live \in SUBSET Offset /\ leaked \in SUBSET Offset
  BY DEF TypeOK, FreePositions, Live
<1>2. IsFiniteSet(FreePositions) /\ IsFiniteSet(Live) /\ IsFiniteSet(leaked)
  BY <1>1, OffsetFinite, FS_Subset
<1>. QED
  BY <1>2, FS_CardinalityType

(* A move of one thread counts it out of the sets it leaves and into those *)
(* it enters.                                                              *)
LEMMA GotoCounts ==
  ASSUME TypeOK, NEW t \in Thread, NEW step, NEW r, NEW i, Goto(t, step, r, i), NEW S
  PROVE  Cardinality(At(S))' =
           Cardinality(At(S)) + (IF step \in S THEN 1 ELSE 0)
                              - (IF pc[t] \in S THEN 1 ELSE 0)
PROOF
<1>1. pc'[t] = step /\ \A u \in Thread \ {t} : pc'[u] = pc[u]
  BY GotoEffect
<1>2. IsFiniteSet(At(S)) /\ Cardinality(At(S)) \in Nat
  BY AtFinite
<1>3. CASE step \in S /\ pc[t] \notin S
  <2>1. At(S)' = At(S) \cup {t} /\ t \notin At(S)
    BY <1>1, <1>3 DEF At
  <2>. QED
    BY <1>2, <1>3, <2>1, Grow
<1>4. CASE step \notin S /\ pc[t] \in S
  <2>1. At(S)' = At(S) \ {t} /\ t \in At(S)
    BY <1>1, <1>4 DEF At
  <2>. QED
    BY <1>2, <1>4, <2>1, Shrink
<1>5. CASE step \in S <=> pc[t] \in S
  <2>1. At(S)' = At(S)
    BY <1>1, <1>5 DEF At
  <2>. QED
    BY <1>2, <1>5, <2>1
<1>. QED
  BY <1>3, <1>4, <1>5

(* A word counted down from a positive value does not wrap.                *)
LEMMA CountDown ==
  ASSUME NEW x \in 1..(U32 - 1)
  PROVE  (x + U32 - 1) % U32 = x - 1
PROOF
<1>1. U32 \in Nat \ {0} /\ x - 1 \in 0..(U32 - 1) /\ 1 \in Nat
  BY Counters
<1>2. ((1 * U32) + (x - 1)) % U32 = x - 1
  BY <1>1, DivModUnique
<1>3. (1 * U32) + (x - 1) = x + U32 - 1
  BY <1>1
<1>. QED
  BY <1>2, <1>3

LEMMA CountUp ==
  ASSUME NEW x \in Nat, x + 1 < U32
  PROVE  (x + 1) % U32 = x + 1
PROOF
<1>1. U32 \in Nat \ {0}
  BY Counters
<1>. QED
  BY <1>1

-----------------------------------------------------------------------------
LEMMA InitFree == Init => \A p \in Offset : Free(p) /\ Concrete(slot[p]) = p
PROOF
<1>. SUFFICES ASSUME Init, NEW p \in Offset PROVE Free(p) /\ Concrete(slot[p]) = p
  OBVIOUS
<1>1. slot[p] = initial_slot(p)
  BY DEF Init
<1>2. initial_slot(p) \in Offset /\ abstract_to_concrete(initial_slot(p)) = p
  BY InitialSlot
<1>3. \A a \in Offset : a # RESERVED
  BY IndexAssumption DEF Offset, RESERVED
<1>. QED
  BY <1>1, <1>2, <1>3 DEF Free, Concrete

LEMMA InitShares == Init => Shares
PROOF
<1>1. Init => Covered
  BY InitFree DEF Covered
<1>2. Init => LeakedApart /\ Recycled
  BY DEF Init, LeakedApart, Recycled, Releasing
<1>. QED
  BY <1>1, <1>2, InitOwnership DEF Shares

(* A step in which no cell changes hands.                                  *)
LEMMA QuietShares ==
  ASSUME Shares, Ownership', UNCHANGED <<slot, data, leaked>>,
         \A u \in Thread : /\ Holds(u)' <=> Holds(u)
                           /\ Releasing(u)' <=> Releasing(u)
                           /\ Holds(u) => idx'[u] = idx[u]
  PROVE  Shares'
PROOF
<1>1. LeakedApart'
  BY DEF Shares, LeakedApart, Free, Concrete
<1>2. Covered'
  BY DEF Shares, Covered, Free, Concrete
<1>3. Recycled'
  BY DEF Shares, Recycled, Holds
<1>. QED
  BY <1>1, <1>2, <1>3 DEF Shares

LEMMA SwapSlotShares ==
  ASSUME TypeOK, Shares, Ownership', NEW t \in Thread, SwapSlot(t)
  PROVE  Shares'
PROOF
<1> DEFINE p == Concrete(reg[t])
<1>1. p \in Offset
  BY ConcreteInRange, Counters DEF Concrete, TypeOK
<1>2. /\ slot' = [slot EXCEPT ![p] = RESERVED]
      /\ UNCHANGED <<data, leaked>>
      /\ pc[t] = "swap_slot"
  BY DEF SwapSlot
<1>3. CASE slot[p] = RESERVED
  <2>1. Goto(t, "fetch_next", 0, 0)
    BY <1>3 DEF SwapSlot, p
  <2>2. slot' = slot
    BY <1>1, <1>2, <1>3 DEF TypeOK
  <2>. QED
    BY <1>2, <2>1, <2>2, GotoEffect, QuietShares DEF Holds, Releasing
<1>4. CASE slot[p] # RESERVED
  <2>1. Goto(t, "publish", 0, slot[p])
    BY <1>4 DEF SwapSlot, p
  <2>. HIDE DEF p
  <2>2. Holds(t)' /\ ~Releasing(t)' /\ idx'[t] = slot[p] /\ Free(p)
    BY <1>4, <2>1, GotoEffect DEF Holds, Releasing, Free
  <2>3. \A u \in Thread \ {t} : /\ Holds(u)' <=> Holds(u)
                                /\ Releasing(u)' <=> Releasing(u)
                                /\ idx'[u] = idx[u]
    BY <2>1, GotoEffect DEF Holds, Releasing
  <2>4. /\ slot'[p] = RESERVED
        /\ \A q \in Offset \ {p} : slot'[q] = slot[q]
    BY <1>1, <1>2 DEF TypeOK
  <2>5. ~Holds(t)
    BY <1>2 DEF Holds, Releasing
  <2>6. LeakedApart'
    BY <1>1, <1>2, <2>2, <2>3, <2>4 DEF Shares, LeakedApart, Free, Concrete
  <2>7. Covered'
    BY <1>1, <1>2, <2>2, <2>3, <2>4, <2>5 DEF Shares, Covered, Free, Concrete
  <2>8. Recycled'
    BY <2>2, <2>3 DEF Shares, Recycled
  <2>. QED
    BY <2>6, <2>7, <2>8 DEF Shares
<1>. QED
  BY <1>3, <1>4

LEMMA PublishShares ==
  ASSUME TypeOK, Shares, Ownership', NEW t \in Thread, Publish(t)
  PROVE  Shares'
PROOF
<1> DEFINE c == Concrete(idx[t])
<1>1. Holds(t) /\ ~Holds(t)' /\ ~Releasing(t)'
  BY GotoEffect DEF Publish, Holds, Releasing
<1>2. \A u \in Thread \ {t} : /\ Holds(u)' <=> Holds(u)
                              /\ Releasing(u)' <=> Releasing(u)
                              /\ idx'[u] = idx[u]
  BY GotoEffect DEF Publish, Holds, Releasing
<1>3. c \in Offset
  BY ConcreteInRange, IndexAssumption DEF TypeOK, Word, Concrete
<1>4. /\ UNCHANGED <<slot, leaked>>
      /\ \A d \in Offset \ {c} : data'[d] = data[d]
      /\ data'[c] # Null
  <2>1. idx[t] \in Word
    BY DEF TypeOK
  <2>2. abstract_to_detached(idx[t]) # Null
    BY <2>1, KeyOfIndex, TableAssumption
  <2>. QED
    BY <1>3, <2>2 DEF Publish, ring, TypeOK
<1>5. c \notin leaked
  BY <1>1 DEF Shares, LeakedApart
<1>. HIDE DEF c
<1>6. LeakedApart'
  BY <1>1, <1>2, <1>4, <1>5 DEF Shares, LeakedApart, Free, Concrete, TypeOK
<1>7. Covered'
  <2>1. \A d \in Offset \ {c} : \A u \in Thread : Concrete(idx[u]) = d => u # t
    BY DEF c
  <2>. QED
    BY <1>1, <1>2, <1>4, <2>1 DEF Shares, Covered, Free, Concrete
<1>8. Recycled'
  BY <1>1, <1>2 DEF Shares, Recycled
<1>. QED
  BY <1>6, <1>7, <1>8 DEF Shares

LEMMA InitPanicsShares ==
  ASSUME TypeOK, Shares, Ownership', NEW t \in Thread, InitPanics(t)
  PROVE  Shares'
PROOF
<1> DEFINE c == Concrete(idx[t])
<1>1. Holds(t) /\ ~Holds(t)' /\ ~Releasing(t)'
  BY GotoEffect DEF InitPanics, Holds, Releasing
<1>2. \A u \in Thread \ {t} : /\ Holds(u)' <=> Holds(u)
                              /\ Releasing(u)' <=> Releasing(u)
                              /\ idx'[u] = idx[u]
  BY GotoEffect DEF InitPanics, Holds, Releasing
<1>3. UNCHANGED <<slot, data>> /\ leaked' = leaked \cup {c}
  BY DEF InitPanics, ring
<1>4. /\ data[c] = Null
      /\ \A p \in Offset : Free(p) => Concrete(slot[p]) # c
      /\ \A u \in Thread \ {t} : Holds(u) => Concrete(idx[u]) # c
  BY <1>1 DEF Shares, Ownership, HeldEmpty, HeldNotFree, HeldOnce
<1>5. Covered'
  BY <1>1, <1>2, <1>3 DEF Shares, Covered, Free, Concrete
<1>. HIDE DEF c
<1>6. LeakedApart'
  BY <1>1, <1>2, <1>3, <1>4 DEF Shares, LeakedApart, Free, Concrete
<1>7. Recycled'
  BY <1>1, <1>2 DEF Shares, Recycled
<1>. QED
  BY <1>5, <1>6, <1>7 DEF Shares

LEMMA EvictShares ==
  ASSUME TypeOK, Shares, Ownership', NEW t \in Thread, NEW k \in Key, Evict(t, k)
  PROVE  Shares'
PROOF
<1> DEFINE c == detached_to_concrete(k)
           a == generate_next_slot(detached_to_abstract(k))
<1>1. a \in Word /\ a # RESERVED /\ Concrete(a) = c /\ c \in Offset
  <2>1. k \in Word
    BY TableAssumption
  <2>2. /\ detached_to_abstract(k) \in Word
        /\ Concrete(detached_to_abstract(k)) = c
    BY <2>1, IndexOfKey DEF Concrete
  <2>3. c \in Offset
    BY <2>1, Generations DEF detached_to_concrete
  <2>. QED
    BY <2>2, <2>3, NextSlot DEF Concrete
<1>2. data[c] # Null /\ Goto(t, "fetch_free", 0, a) /\ pc[t] = "idle"
  BY DEF Evict, find
<1>3. UNCHANGED <<slot, leaked>> /\ data' = [data EXCEPT ![c] = Null]
  BY DEF Evict, ring
<1>. HIDE DEF c, a
<1>4. data'[c] = Null /\ \A d \in Offset \ {c} : data'[d] = data[d]
  BY <1>1, <1>3 DEF TypeOK
<1>5. Holds(t)' /\ idx'[t] = a /\ ~Holds(t)
  BY <1>2, GotoEffect DEF Holds, Releasing
<1>6. \A u \in Thread \ {t} : /\ Holds(u)' <=> Holds(u)
                              /\ Releasing(u)' <=> Releasing(u)
                              /\ idx'[u] = idx[u]
  BY <1>2, GotoEffect DEF Holds, Releasing
<1>7. c \notin leaked
  BY <1>2 DEF Shares, LeakedApart
<1>8. LeakedApart'
  BY <1>1, <1>3, <1>4, <1>5, <1>6, <1>7 DEF Shares, LeakedApart, Free, Concrete, TypeOK
<1>9. Covered'
  BY <1>1, <1>3, <1>4, <1>5, <1>6 DEF Shares, Covered, Free, Concrete
<1>10. Recycled'
  BY <1>1, <1>5, <1>6 DEF Shares, Recycled
<1>. QED
  BY <1>8, <1>9, <1>10 DEF Shares

LEMMA StoreSlotShares ==
  ASSUME TypeOK, Shares, Ownership', NEW t \in Thread, StoreSlot(t)
  PROVE  Shares'
PROOF
<1> DEFINE p == Concrete(reg[t])
<1>1. p \in Offset
  BY ConcreteInRange, Counters DEF Concrete, TypeOK
<1>2. UNCHANGED <<data, leaked>> /\ slot' = [slot EXCEPT ![p] = idx[t]] /\ ~Free(p)
  BY DEF StoreSlot, Free
<1>. HIDE DEF p
<1>3. slot'[p] = idx[t] /\ \A q \in Offset \ {p} : slot'[q] = slot[q]
  BY <1>1, <1>2 DEF TypeOK
<1>4. Holds(t) /\ Releasing(t) /\ ~Holds(t)' /\ ~Releasing(t)'
  BY GotoEffect DEF StoreSlot, Holds, Releasing
<1>5. \A u \in Thread \ {t} : /\ Holds(u)' <=> Holds(u)
                              /\ Releasing(u)' <=> Releasing(u)
                              /\ idx'[u] = idx[u]
  BY GotoEffect DEF StoreSlot, Holds, Releasing
<1>6. slot'[p] # RESERVED
  BY <1>3, <1>4 DEF Shares, Recycled
<1>7. LeakedApart'
  BY <1>1, <1>2, <1>3, <1>4, <1>5 DEF Shares, LeakedApart, Free, Concrete
<1>8. Covered'
  BY <1>1, <1>2, <1>3, <1>4, <1>5, <1>6 DEF Shares, Covered, Free, Concrete
<1>9. Recycled'
  BY <1>4, <1>5 DEF Shares, Recycled
<1>. QED
  BY <1>7, <1>8, <1>9 DEF Shares

LEMMA NextShares == TypeOK /\ Shares /\ [Next]_vars => Shares'
PROOF
<1>. SUFFICES ASSUME TypeOK, Shares, [Next]_vars PROVE Shares'
  OBVIOUS
<1>1. Ownership'
  BY NextOwnership DEF Shares
<1>2. CASE UNCHANGED vars
  BY <1>1, <1>2, QuietShares DEF vars, Holds, Releasing
<1>3. ASSUME NEW t \in Thread,
             \/ ReserveSlot(t) \/ UndoReserve(t) \/ UndoRetry(t) \/ FetchNextId(t)
             \/ DecrEntries(t)
      PROVE  Shares'
  <2>1. UNCHANGED <<slot, data, leaked>>
    BY <1>3 DEF ReserveSlot, UndoReserve, UndoRetry, FetchNextId, DecrEntries, ring
  <2>2. PICK step, r : /\ step \in {"fetch_next", "undo", "idle", "swap_slot"}
                       /\ Goto(t, step, r, 0)
    BY <1>3 DEF ReserveSlot, UndoReserve, UndoRetry, FetchNextId, DecrEntries
  <2>3. ~Holds(t)
    BY <1>3 DEF ReserveSlot, UndoReserve, UndoRetry, FetchNextId, DecrEntries,
                Holds, Releasing
  <2>. QED
    BY <1>1, <2>1, <2>2, <2>3, GotoEffect, QuietShares DEF Holds, Releasing
<1>4. ASSUME NEW t \in Thread,
             FetchFreeId(t) \/ StoreSlotOccupied(t) \/ StoreSlotSpurious(t)
      PROVE  Shares'
  <2>1. UNCHANGED <<slot, data, leaked>>
    BY <1>4 DEF FetchFreeId, StoreSlotOccupied, StoreSlotSpurious, ring
  <2>2. PICK step, r : /\ step \in {"fetch_free", "store_slot"}
                       /\ Goto(t, step, r, idx[t])
    BY <1>4 DEF FetchFreeId, StoreSlotOccupied, StoreSlotSpurious
  <2>3. Releasing(t)
    BY <1>4 DEF FetchFreeId, StoreSlotOccupied, StoreSlotSpurious, Releasing
  <2>. QED
    BY <1>1, <2>1, <2>2, <2>3, GotoEffect, QuietShares DEF Holds, Releasing
<1>. QED
  BY <1>1, <1>2, <1>3, <1>4, SwapSlotShares, PublishShares, InitPanicsShares,
     EvictShares, StoreSlotShares DEF Next, Insert, Remove

-----------------------------------------------------------------------------
LEMMA Numbers ==
  ASSUME TypeOK
  PROVE  /\ Cardinality(FreePositions) \in Nat
         /\ Cardinality(Live) \in Nat /\ Cardinality(leaked) \in Nat
         /\ Cardinality(At(Holding)) \in Nat /\ Cardinality(At(Permitted)) \in Nat
         /\ Cardinality(At(Undoing)) \in Nat
         /\ Cardinality(At(Undoing)) <= Cardinality(Thread)
         /\ Cardinality(Thread) \in Nat
         /\ initial_entries \in Nat /\ cap \in Nat /\ initial_entries + cap = LENGTH
PROOF
<1>1. Cardinality(Thread) \in Nat
  BY FS_CardinalityType, TableAssumption
<1>2. initial_entries \in Nat /\ cap \in Nat /\ initial_entries + cap = LENGTH
  BY IndexAssumption, TableAssumption DEF initial_entries, cap
<1>. QED
  BY <1>1, <1>2, AtFinite, CellsFinite

LEMMA MoveCounts ==
  ASSUME TypeOK, NEW t \in Thread, NEW step, NEW r, NEW i, Goto(t, step, r, i)
  PROVE  /\ Cardinality(At(Holding))' =
              Cardinality(At(Holding)) + (IF step \in Holding THEN 1 ELSE 0)
                                       - (IF pc[t] \in Holding THEN 1 ELSE 0)
         /\ Cardinality(At(Permitted))' =
              Cardinality(At(Permitted)) + (IF step \in Permitted THEN 1 ELSE 0)
                                         - (IF pc[t] \in Permitted THEN 1 ELSE 0)
         /\ Cardinality(At(Undoing))' =
              Cardinality(At(Undoing)) + (IF step \in Undoing THEN 1 ELSE 0)
                                       - (IF pc[t] \in Undoing THEN 1 ELSE 0)
PROOF
<1>1. ASSUME NEW S
      PROVE  Cardinality(At(S))' =
               Cardinality(At(S)) + (IF step \in S THEN 1 ELSE 0)
                                  - (IF pc[t] \in S THEN 1 ELSE 0)
  BY GotoCounts
<1>. QED
  BY <1>1 DEF At

LEMMA Whereabouts ==
  ASSUME NEW t \in Thread, NEW S
  PROVE  /\ pc[t] \in S => Cardinality(At(S)) >= 1
         /\ pc[t] \notin S => Cardinality(At(S)) + 1 <= Cardinality(Thread)
PROOF
<1>1. IsFiniteSet(At(S)) /\ Cardinality(At(S)) \in Nat
  BY AtFinite
<1>2. ASSUME pc[t] \in S PROVE Cardinality(At(S)) >= 1
  <2>1. At(S) # {}
    BY <1>2 DEF At
  <2>. QED
    BY <1>1, <2>1, FS_EmptySet
<1>3. ASSUME pc[t] \notin S PROVE Cardinality(At(S)) + 1 <= Cardinality(Thread)
  <2>1. t \notin At(S) /\ At(S) \cup {t} \in SUBSET Thread
    BY <1>3 DEF At
  <2>2. Cardinality(At(S) \cup {t}) = Cardinality(At(S)) + 1
    BY <1>1, <2>1, Grow
  <2>. QED
    BY <2>1, <2>2, FS_Subset, TableAssumption
<1>. QED
  BY <1>2, <1>3

LEMMA InitTally == Init => Tally
PROOF
<1>. SUFFICES ASSUME Init PROVE Tally
  OBVIOUS
<1>1. FreePositions = Offset
  BY InitFree DEF FreePositions
<1>2. Live = {} /\ leaked = {}
  BY DEF Init, Live
<1>3. At(Holding) = {} /\ At(Permitted) = {} /\ At(Undoing) = {}
  BY DEF Init, At, Holding, Permitted, Undoing
<1>4. entries = initial_entries /\ cap \in Nat /\ initial_entries \in Nat
  BY IndexAssumption, TableAssumption DEF Init, cap, initial_entries
<1>. QED
  BY <1>1, <1>2, <1>3, <1>4, OffsetFinite, FS_EmptySet, IndexAssumption
     DEF Tally, Balance, Counted, Given

(* The bounds that keep entries from wrapping.                             *)
LEMMA EntriesBound ==
  ASSUME TypeOK, Tally
  PROVE  entries \in Nat /\ entries <= LENGTH + Cardinality(At(Undoing))
PROOF
BY Numbers, IndexAssumption DEF Tally, Counted, Given

LEMMA ReserveSlotTally ==
  ASSUME TypeOK, Tally, NEW t \in Thread, ReserveSlot(t)
  PROVE  Tally'
PROOF
<1>1. pc[t] = "idle" /\ UNCHANGED <<slot, data, leaked>>
  BY DEF ReserveSlot, ring
<1>2. FreePositions' = FreePositions /\ Live' = Live /\ cap' = cap
  BY <1>1 DEF FreePositions, Free, Live, cap
<1>3. U32 \in Nat /\ LENGTH + Cardinality(Thread) < U32 /\ LENGTH \in Nat
  BY TableAssumption, IndexAssumption
<1>4. CASE entries < LENGTH
  <2>1. Goto(t, "fetch_next", 0, 0) /\ entries' = (entries + 1) % U32
    BY <1>4 DEF ReserveSlot
  <2>2. entries' = entries + 1
    BY <1>3, <1>4, <2>1, EntriesBound, Numbers, CountUp
  <2>3. /\ Cardinality(At(Holding))' = Cardinality(At(Holding))
        /\ Cardinality(At(Permitted))' = Cardinality(At(Permitted)) + 1
        /\ Cardinality(At(Undoing))' = Cardinality(At(Undoing))
    BY <1>1, <2>1, MoveCounts, Numbers DEF Holding, Permitted, Undoing
  <2>. QED
    BY <1>1, <1>2, <1>3, <1>4, <2>2, <2>3, Numbers DEF Tally, Balance, Counted, Given
<1>5. CASE ~(entries < LENGTH)
  <2>1. Goto(t, "undo", (entries + 1) % U32, 0) /\ entries' = (entries + 1) % U32
    BY <1>5 DEF ReserveSlot
  <2>2. Cardinality(At(Undoing)) + 1 <= Cardinality(Thread)
    BY <1>1, Whereabouts DEF Undoing
  <2>3. entries' = entries + 1
    BY <1>3, <2>1, <2>2, EntriesBound, Numbers, CountUp
  <2>4. /\ Cardinality(At(Holding))' = Cardinality(At(Holding))
        /\ Cardinality(At(Permitted))' = Cardinality(At(Permitted))
        /\ Cardinality(At(Undoing))' = Cardinality(At(Undoing)) + 1
    BY <1>1, <2>1, MoveCounts, Numbers DEF Holding, Permitted, Undoing
  <2>. QED
    BY <1>1, <1>2, <1>3, <2>3, <2>4, Numbers DEF Tally, Balance, Counted, Given
<1>. QED
  BY <1>4, <1>5

(* An increment undone, a permit given back.                               *)
LEMMA CountDownTally ==
  ASSUME TypeOK, Tally, NEW t \in Thread, UndoReserve(t) \/ DecrEntries(t)
  PROVE  Tally'
PROOF
<1>1. UNCHANGED <<slot, data, leaked>> /\ Goto(t, "idle", 0, 0)
  BY DEF UndoReserve, DecrEntries, ring
<1>2. FreePositions' = FreePositions /\ Live' = Live /\ cap' = cap
  BY <1>1 DEF FreePositions, Free, Live, cap
<1>3. entries' = (entries + U32 - 1) % U32
  BY DEF UndoReserve, DecrEntries
<1>4. pc[t] \in Undoing \/ pc[t] \in Permitted
  BY DEF UndoReserve, DecrEntries, Undoing, Permitted
<1>5. entries \in 1..(U32 - 1)
  <2>1. Cardinality(At(Undoing)) >= 1 \/ Cardinality(At(Permitted)) >= 1
    BY <1>4, Whereabouts
  <2>. QED
    BY <2>1, Numbers DEF TypeOK, Tally, Counted, Given
<1>6. entries' = entries - 1
  BY <1>3, <1>5, CountDown
<1>7. CASE UndoReserve(t)
  <2>1. /\ Cardinality(At(Holding))' = Cardinality(At(Holding))
        /\ Cardinality(At(Permitted))' = Cardinality(At(Permitted))
        /\ Cardinality(At(Undoing))' = Cardinality(At(Undoing)) - 1
    BY <1>1, <1>7, MoveCounts, Numbers DEF UndoReserve, Holding, Permitted, Undoing
  <2>. QED
    BY <1>1, <1>2, <1>5, <1>6, <2>1, Numbers DEF Tally, Balance, Counted, Given
<1>8. CASE DecrEntries(t)
  <2>1. /\ Cardinality(At(Holding))' = Cardinality(At(Holding))
        /\ Cardinality(At(Permitted))' = Cardinality(At(Permitted)) - 1
        /\ Cardinality(At(Undoing))' = Cardinality(At(Undoing))
    BY <1>1, <1>8, MoveCounts, Numbers DEF DecrEntries, Holding, Permitted, Undoing
  <2>. QED
    BY <1>1, <1>2, <1>5, <1>6, <2>1, Numbers DEF Tally, Balance, Counted, Given
<1>. QED
  BY <1>7, <1>8

(* A thread goes on with what it had.                                      *)
LEMMA QuietTally ==
  ASSUME TypeOK, Tally, UNCHANGED <<entries, slot, data, leaked>>,
         NEW t \in Thread, NEW step, NEW r, NEW i, Goto(t, step, r, i),
         \/ pc[t] = "undo" /\ step = "undo"
         \/ pc[t] \in Seeking /\ step \in Seeking
         \/ pc[t] \in Returning /\ step \in Returning
  PROVE  Tally'
PROOF
<1>1. FreePositions' = FreePositions /\ Live' = Live /\ cap' = cap
  BY DEF FreePositions, Free, Live, cap
<1>2. /\ Cardinality(At(Holding))' = Cardinality(At(Holding))
      /\ Cardinality(At(Permitted))' = Cardinality(At(Permitted))
      /\ Cardinality(At(Undoing))' = Cardinality(At(Undoing))
  BY MoveCounts, Numbers DEF Holding, Permitted, Undoing, Seeking, Returning
<1>. QED
  BY <1>1, <1>2, Numbers DEF Tally, Balance, Counted, Given

LEMMA SwapSlotTally ==
  ASSUME TypeOK, Tally, NEW t \in Thread, SwapSlot(t)
  PROVE  Tally'
PROOF
<1> DEFINE p == Concrete(reg[t])
<1>1. p \in Offset
  BY ConcreteInRange, Counters DEF Concrete, TypeOK
<1>2. /\ pc[t] = "swap_slot" /\ UNCHANGED <<entries, data, leaked>>
      /\ slot' = [slot EXCEPT ![p] = RESERVED]
  BY DEF SwapSlot
<1>3. CASE slot[p] = RESERVED
  <2>1. slot' = slot /\ Goto(t, "fetch_next", 0, 0)
    BY <1>1, <1>2, <1>3 DEF SwapSlot, TypeOK
  <2>. QED
    BY <1>2, <2>1, QuietTally DEF Seeking
<1>4. CASE slot[p] # RESERVED
  <2>1. Goto(t, "publish", 0, slot[p])
    BY <1>4 DEF SwapSlot
  <2>2. FreePositions' = FreePositions \ {p} /\ p \in FreePositions
    BY <1>1, <1>2, <1>4 DEF FreePositions, Free, TypeOK
  <2>3. Cardinality(FreePositions)' = Cardinality(FreePositions) - 1
    BY <2>2, CellsFinite, Shrink
  <2>4. /\ Cardinality(At(Holding))' = Cardinality(At(Holding)) + 1
        /\ Cardinality(At(Permitted))' = Cardinality(At(Permitted))
        /\ Cardinality(At(Undoing))' = Cardinality(At(Undoing))
    BY <1>2, <2>1, MoveCounts, Numbers DEF Holding, Permitted, Undoing
  <2>5. Live' = Live /\ cap' = cap
    BY <1>2 DEF Live, cap
  <2>. QED
    BY <1>2, <2>3, <2>4, <2>5, Numbers DEF Tally, Balance, Counted, Given
<1>. QED
  BY <1>3, <1>4

LEMMA PublishTally ==
  ASSUME TypeOK, Shares, Tally, NEW t \in Thread, Publish(t)
  PROVE  Tally'
PROOF
<1> DEFINE c == Concrete(idx[t])
           key == abstract_to_detached(idx[t])
<1>1. c \in Offset /\ key # Null
  <2>1. idx[t] \in Word
    BY DEF TypeOK
  <2>. QED
    BY <2>1, ConcreteInRange, KeyOfIndex, IndexAssumption, TableAssumption DEF Word, Concrete
<1>2. /\ pc[t] = "publish" /\ UNCHANGED <<entries, slot, leaked>>
      /\ data' = [data EXCEPT ![c] = key]
      /\ Goto(t, "idle", 0, 0)
  BY DEF Publish, ring
<1>3. data[c] = Null
  BY <1>2 DEF Shares, Ownership, HeldEmpty, Holds
<1>. HIDE DEF c, key
<1>4. Live' = Live \cup {c} /\ c \notin Live
  BY <1>1, <1>2, <1>3 DEF Live, TypeOK
<1>5. Cardinality(Live)' = Cardinality(Live) + 1
  BY <1>4, CellsFinite, Grow
<1>6. /\ Cardinality(At(Holding))' = Cardinality(At(Holding)) - 1
      /\ Cardinality(At(Permitted))' = Cardinality(At(Permitted)) - 1
      /\ Cardinality(At(Undoing))' = Cardinality(At(Undoing))
  BY <1>2, MoveCounts, Numbers DEF Holding, Permitted, Undoing
<1>7. FreePositions' = FreePositions /\ cap' = cap
  BY <1>2 DEF FreePositions, Free, cap
<1>. QED
  BY <1>2, <1>5, <1>6, <1>7, Numbers DEF Tally, Balance, Counted, Given

LEMMA InitPanicsTally ==
  ASSUME TypeOK, Shares, Tally, NEW t \in Thread, InitPanics(t)
  PROVE  Tally'
PROOF
<1> DEFINE c == Concrete(idx[t])
<1>1. /\ pc[t] = "publish" /\ UNCHANGED <<entries, slot, data>>
      /\ leaked' = leaked \cup {c}
      /\ Goto(t, "idle", 0, 0)
  BY DEF InitPanics, ring
<1>2. c \notin leaked
  BY <1>1 DEF Shares, LeakedApart, Holds
<1>. HIDE DEF c
<1>3. Cardinality(leaked)' = Cardinality(leaked) + 1
  BY <1>1, <1>2, CellsFinite, Grow
<1>4. /\ Cardinality(At(Holding))' = Cardinality(At(Holding)) - 1
      /\ Cardinality(At(Permitted))' = Cardinality(At(Permitted)) - 1
      /\ Cardinality(At(Undoing))' = Cardinality(At(Undoing))
  BY <1>1, MoveCounts, Numbers DEF Holding, Permitted, Undoing
<1>5. FreePositions' = FreePositions /\ Live' = Live /\ cap' = cap
  BY <1>1 DEF FreePositions, Free, Live, cap
<1>. QED
  BY <1>1, <1>3, <1>4, <1>5, Numbers DEF Tally, Balance, Counted, Given

LEMMA EvictTally ==
  ASSUME TypeOK, Tally, NEW t \in Thread, NEW k \in Key, Evict(t, k)
  PROVE  Tally'
PROOF
<1> DEFINE c == detached_to_concrete(k)
           a == generate_next_slot(detached_to_abstract(k))
<1>1. c \in Offset
  BY TableAssumption, Generations DEF detached_to_concrete
<1>2. /\ pc[t] = "idle" /\ UNCHANGED <<entries, slot, leaked>>
      /\ data[c] # Null /\ data' = [data EXCEPT ![c] = Null]
      /\ Goto(t, "fetch_free", 0, a)
  BY DEF Evict, find, ring
<1>. HIDE DEF c, a
<1>3. Live' = Live \ {c} /\ c \in Live
  BY <1>1, <1>2 DEF Live, TypeOK
<1>4. Cardinality(Live)' = Cardinality(Live) - 1
  BY <1>3, CellsFinite, Shrink
<1>5. /\ Cardinality(At(Holding))' = Cardinality(At(Holding)) + 1
      /\ Cardinality(At(Permitted))' = Cardinality(At(Permitted)) + 1
      /\ Cardinality(At(Undoing))' = Cardinality(At(Undoing))
  BY <1>2, MoveCounts, Numbers DEF Holding, Permitted, Undoing
<1>6. FreePositions' = FreePositions /\ cap' = cap
  BY <1>2 DEF FreePositions, Free, cap
<1>. QED
  BY <1>2, <1>4, <1>5, <1>6, Numbers DEF Tally, Balance, Counted, Given

LEMMA StoreSlotTally ==
  ASSUME TypeOK, Shares, Tally, NEW t \in Thread, StoreSlot(t)
  PROVE  Tally'
PROOF
<1> DEFINE p == Concrete(reg[t])
<1>1. p \in Offset
  BY ConcreteInRange, Counters DEF Concrete, TypeOK
<1>2. /\ pc[t] = "store_slot" /\ UNCHANGED <<entries, data, leaked>>
      /\ slot[p] = RESERVED /\ slot' = [slot EXCEPT ![p] = idx[t]]
      /\ Goto(t, "decr", 0, 0)
  BY DEF StoreSlot
<1>3. idx[t] # RESERVED
  BY <1>2 DEF Shares, Recycled, Releasing
<1>. HIDE DEF p
<1>4. FreePositions' = FreePositions \cup {p} /\ p \notin FreePositions
  BY <1>1, <1>2, <1>3 DEF FreePositions, Free, TypeOK
<1>5. Cardinality(FreePositions)' = Cardinality(FreePositions) + 1
  BY <1>4, CellsFinite, Grow
<1>6. /\ Cardinality(At(Holding))' = Cardinality(At(Holding)) - 1
      /\ Cardinality(At(Permitted))' = Cardinality(At(Permitted))
      /\ Cardinality(At(Undoing))' = Cardinality(At(Undoing))
  BY <1>2, MoveCounts, Numbers DEF Holding, Permitted, Undoing
<1>7. Live' = Live /\ cap' = cap
  BY <1>2 DEF Live, cap
<1>. QED
  BY <1>2, <1>5, <1>6, <1>7, Numbers DEF Tally, Balance, Counted, Given

LEMMA NextTally == TypeOK /\ Shares /\ Tally /\ [Next]_vars => Tally'
PROOF
<1>. SUFFICES ASSUME TypeOK, Shares, Tally, [Next]_vars PROVE Tally'
  OBVIOUS
<1>1. CASE UNCHANGED vars
  BY <1>1 DEF vars, Tally, Balance, Counted, Given, FreePositions, Free, At, Live, cap
<1>2. ASSUME NEW t \in Thread,
             \/ UndoRetry(t) \/ FetchNextId(t)
             \/ FetchFreeId(t) \/ StoreSlotOccupied(t) \/ StoreSlotSpurious(t)
      PROVE  Tally'
  <2>1. UNCHANGED <<entries, slot, data, leaked>>
    BY <1>2 DEF UndoRetry, FetchNextId, FetchFreeId, StoreSlotOccupied,
                StoreSlotSpurious, ring
  <2>. QED
    BY <1>2, <2>1, QuietTally
       DEF UndoRetry, FetchNextId, FetchFreeId, StoreSlotOccupied, StoreSlotSpurious,
           Seeking, Returning
<1>. QED
  BY <1>1, <1>2, ReserveSlotTally, CountDownTally, SwapSlotTally, PublishTally,
     InitPanicsTally, EvictTally, StoreSlotTally DEF Next, Insert, Remove

LEMMA InitCount == Init => CountInv
BY InitTypeOK, InitShares, InitTally DEF CountInv

LEMMA NextCount == CountInv /\ [Next]_vars => CountInv'
BY NextTypeOK, NextShares, NextTally DEF CountInv

LEMMA CountInvariant == Spec => []CountInv
BY InitCount, NextCount, PTL DEF Spec

-----------------------------------------------------------------------------
(* Where a cell is: the elements SlotConservation counts.                  *)
LEMMA OnePlace ==
  ASSUME TypeOK, Shares, NEW c \in Offset
  PROVE  \E x :    {<<"free", p>> : p \in {q \in Offset : Free(q) /\ Concrete(slot[q]) = c}}
              \cup {<<"held", t>> : t \in {u \in Thread : Holds(u) /\ Concrete(idx[u]) = c}}
              \cup {<<"live", d>> : d \in Live \cap {c}}
              \cup {<<"lost", d>> : d \in leaked \cap {c}} = {x}
PROOF
<1> DEFINE FreeAt == {q \in Offset : Free(q) /\ Concrete(slot[q]) = c}
           HeldBy == {u \in Thread : Holds(u) /\ Concrete(idx[u]) = c}
           LiveAt == Live \cap {c}
           LostAt == leaked \cap {c}
<1>1. CASE \E p \in Offset : Free(p) /\ Concrete(slot[p]) = c
  <2>1. PICK p \in Offset : Free(p) /\ Concrete(slot[p]) = c
    BY <1>1
  <2>2. FreeAt = {p}
    BY <2>1 DEF Shares, Ownership, FreeOnce
  <2>3. HeldBy = {}
    BY <2>1 DEF Shares, Ownership, HeldNotFree
  <2>4. LiveAt = {}
    BY <2>1 DEF Shares, Ownership, FreeEmpty, Live
  <2>5. LostAt = {}
    BY <2>1 DEF Shares, LeakedApart
  <2>. HIDE DEF FreeAt, HeldBy, LiveAt, LostAt
  <2>6. {<<"free", q>> : q \in FreeAt} \cup {<<"held", t>> : t \in HeldBy}
          \cup {<<"live", d>> : d \in LiveAt} \cup {<<"lost", d>> : d \in LostAt}
        = {<<"free", p>>}
    BY <2>2, <2>3, <2>4, <2>5
  <2>. QED
    BY <2>6 DEF FreeAt, HeldBy, LiveAt, LostAt
<1>2. CASE /\ ~\E p \in Offset : Free(p) /\ Concrete(slot[p]) = c
           /\ \E t \in Thread : Holds(t) /\ Concrete(idx[t]) = c
  <2>1. PICK t \in Thread : Holds(t) /\ Concrete(idx[t]) = c
    BY <1>2
  <2>2. FreeAt = {}
    BY <1>2
  <2>3. HeldBy = {t}
    BY <2>1 DEF Shares, Ownership, HeldOnce
  <2>4. LiveAt = {}
    BY <2>1 DEF Shares, Ownership, HeldEmpty, Live
  <2>5. LostAt = {}
    BY <2>1 DEF Shares, LeakedApart
  <2>. HIDE DEF FreeAt, HeldBy, LiveAt, LostAt
  <2>6. {<<"free", q>> : q \in FreeAt} \cup {<<"held", u>> : u \in HeldBy}
          \cup {<<"live", d>> : d \in LiveAt} \cup {<<"lost", d>> : d \in LostAt}
        = {<<"held", t>>}
    BY <2>2, <2>3, <2>4, <2>5
  <2>. QED
    BY <2>6 DEF FreeAt, HeldBy, LiveAt, LostAt
<1>3. CASE /\ ~\E p \in Offset : Free(p) /\ Concrete(slot[p]) = c
           /\ ~\E t \in Thread : Holds(t) /\ Concrete(idx[t]) = c
  <2>1. FreeAt = {} /\ HeldBy = {}
    BY <1>3
  <2>2. \/ LiveAt = {c} /\ LostAt = {}
        \/ LiveAt = {} /\ LostAt = {c}
    BY <1>3 DEF Shares, Covered, LeakedApart, Live
  <2>. HIDE DEF FreeAt, HeldBy, LiveAt, LostAt
  <2>3. \E x : {<<"free", q>> : q \in FreeAt} \cup {<<"held", u>> : u \in HeldBy}
          \cup {<<"live", d>> : d \in LiveAt} \cup {<<"lost", d>> : d \in LostAt}
        = {x}
    <3>1. CASE LiveAt = {c} /\ LostAt = {}
      <4>1. {<<"free", q>> : q \in FreeAt} \cup {<<"held", u>> : u \in HeldBy}
              \cup {<<"live", d>> : d \in LiveAt} \cup {<<"lost", d>> : d \in LostAt}
            = {<<"live", c>>}
        BY <2>1, <3>1
      <4>. QED
        BY <4>1
    <3>2. CASE LiveAt = {} /\ LostAt = {c}
      <4>1. {<<"free", q>> : q \in FreeAt} \cup {<<"held", u>> : u \in HeldBy}
              \cup {<<"live", d>> : d \in LiveAt} \cup {<<"lost", d>> : d \in LostAt}
            = {<<"lost", c>>}
        BY <2>1, <3>2
      <4>. QED
        BY <4>1
    <3>. QED
      BY <2>2, <3>1, <3>2
  <2>. QED
    BY <2>3 DEF FreeAt, HeldBy, LiveAt, LostAt
<1>. QED
  BY <1>1, <1>2, <1>3

(* No slot is ever lost or doubled: each cell is free, held, live or lost  *)
(* to a panic, exactly one of them, at every moment of any number of       *)
(* inserts and removes by any number of threads.                           *)
THEOREM SlotsConserved == Spec => []SlotConservation
PROOF
<1>1. CountInv => SlotConservation
  <2>1. \A S : (\E x : S = {x}) => Cardinality(S) = 1
    BY FS_Singleton
  <2>2. ASSUME TypeOK, Shares, NEW c \in Offset
        PROVE  Cardinality(
                    {<<"free", p>> : p \in {q \in Offset : Free(q) /\ Concrete(slot[q]) = c}}
               \cup {<<"held", t>> : t \in {u \in Thread : Holds(u) /\ Concrete(idx[u]) = c}}
               \cup {<<"live", d>> : d \in Live \cap {c}}
               \cup {<<"lost", d>> : d \in leaked \cap {c}}) = 1
    BY <2>1, <2>2, OnePlace
  <2>. QED
    BY <2>2 DEF CountInv, SlotConservation
<1>. QED
  BY <1>1, CountInvariant, PTL

-----------------------------------------------------------------------------
(* The sets of threads the properties of Table.tla speak of.               *)
LEMMA SameThreads ==
  /\ {t \in Thread : Acquiring(t) \/ Holds(t) \/ pc[t] = "decr"} = At(Permitted)
  /\ {t \in Thread : pc[t] = "undo"} = At(Undoing)
  /\ {t \in Thread : Acquiring(t)} = At(Seeking)
  /\ {t \in Thread : Releasing(t)} = At(Returning)
BY DEF At, Permitted, Undoing, Seeking, Returning, Acquiring, Holds, Releasing

LEMMA PermitsGiven == Permits = Given
BY SameThreads DEF Permits, Given

(* entries is the permits given out plus the increments to be undone, and  *)
(* the permits never exceed the capacity.                                  *)
THEOREM PermitsCounted == Spec => []PermitAccounting
PROOF
<1>1. CountInv => PermitAccounting
  BY PermitsGiven, SameThreads DEF CountInv, Tally, Counted, PermitAccounting
<1>. QED
  BY <1>1, CountInvariant, PTL

(* Threads looking for an index and threads that hold one are two parts of *)
(* those with a permit.                                                    *)
LEMMA SeekersAndHolders ==
  /\ Cardinality(At(Seeking)) \in Nat
  /\ Cardinality(At(Seeking)) + Cardinality(At(Holding)) <= Cardinality(At(Permitted))
PROOF
<1>1. /\ IsFiniteSet(At(Seeking)) /\ IsFiniteSet(At(Holding)) /\ IsFiniteSet(At(Permitted))
      /\ Cardinality(At(Seeking)) \in Nat /\ Cardinality(At(Holding)) \in Nat
  BY AtFinite
<1>2. At(Seeking) \cap At(Holding) = {}
  BY DEF At, Seeking, Holding
<1>3. At(Seeking) \cup At(Holding) \in SUBSET At(Permitted)
  BY DEF At, Seeking, Holding, Permitted
<1>4. Cardinality(At(Seeking) \cup At(Holding))
        = Cardinality(At(Seeking)) + Cardinality(At(Holding))
  <2>1. Cardinality(At(Seeking) \cap At(Holding)) = 0
    BY <1>2, FS_EmptySet
  <2>2. Cardinality(At(Seeking) \cup At(Holding))
          = Cardinality(At(Seeking)) + Cardinality(At(Holding))
              - Cardinality(At(Seeking) \cap At(Holding))
    BY <1>1, FS_Union
  <2>. QED
    BY <1>1, <2>1, <2>2
<1>. QED
  BY <1>1, <1>3, <1>4, FS_Subset

(* A permit is honoured: there are at least as many indices in the ring as *)
(* threads that look for one, wherever other threads have stopped.         *)
THEOREM PermitsHonored == Spec => []PermitHonored
PROOF
<1>1. CountInv => PermitHonored
  <2>. SUFFICES ASSUME CountInv PROVE PermitHonored
    OBVIOUS
  <2>1. Cardinality(At(Seeking)) <= Cardinality(FreePositions)
    BY Numbers, SeekersAndHolders DEF CountInv, Tally, Balance, Given
  <2>. QED
    BY <2>1, SameThreads DEF PermitHonored, FreePositions
<1>. QED
  BY <1>1, CountInvariant, PTL

(* A thread that gives an index back always has a position to put it in.   *)
THEOREM ReleasesHaveRoom == Spec => []RoomToRelease
PROOF
<1>1. CountInv => RoomToRelease
  <2>. SUFFICES ASSUME CountInv PROVE RoomToRelease
    OBVIOUS
  <2>1. {p \in Offset : ~Free(p)} = Offset \ FreePositions
    BY DEF FreePositions
  <2>2. Cardinality(Offset \ FreePositions) = LENGTH - Cardinality(FreePositions)
    <3>1. Offset \cap FreePositions = FreePositions
      BY DEF FreePositions
    <3>. QED
      BY <3>1, OffsetFinite, FS_Difference
  <2>3. Cardinality(At(Returning)) <= Cardinality(At(Holding))
    <3>1. At(Returning) \in SUBSET At(Holding)
      BY DEF At, Returning, Holding
    <3>. QED
      BY <3>1, AtFinite, FS_Subset
  <2>4. Cardinality(At(Returning)) \in Nat
    BY AtFinite
  <2>5. Cardinality(At(Returning)) <= LENGTH - Cardinality(FreePositions)
    BY <2>3, <2>4, Numbers DEF CountInv, Tally, Balance
  <2>. QED
    BY <2>1, <2>2, <2>5, SameThreads DEF RoomToRelease
<1>. QED
  BY <1>1, CountInvariant, PTL
-----------------------------------------------------------------------------
(* The number len starts from: entries without the permit that is taken    *)
(* from the start at Capacity::MAX.                                        *)
LEMMA LenCounts ==
  ASSUME CountInv
  PROVE  LET count == Given + Cardinality(At(Undoing))
         IN  len = IF count > cap THEN cap ELSE count
PROOF
<1>1. entries \in 0..(U32 - 1) /\ entries = initial_entries + Given + Cardinality(At(Undoing))
  BY DEF CountInv, TypeOK, Tally, Counted
<1>2. Given \in Nat /\ Cardinality(At(Undoing)) \in Nat
  BY Numbers DEF CountInv, Given
<1>3. CASE AtMax
  <2>1. initial_entries = 1
    BY <1>3 DEF initial_entries
  <2>2. entries \in 1..(U32 - 1)
    BY <1>1, <1>2, <2>1
  <2>3. (entries + U32 - 1) % U32 = Given + Cardinality(At(Undoing))
    BY <1>1, <1>2, <2>1, <2>2, CountDown
  <2>. QED
    BY <1>3, <2>3 DEF len
<1>4. CASE ~AtMax
  <2>1. entries = Given + Cardinality(At(Undoing))
    BY <1>1, <1>2, <1>4 DEF initial_entries
  <2>. QED
    BY <1>4, <2>1 DEF len
<1>. QED
  BY <1>3, <1>4

LEMMA CountLen == CountInv => LenCoversLive
PROOF
<1>. SUFFICES ASSUME CountInv PROVE LenCoversLive
  OBVIOUS
<1>1. /\ Cardinality(Live) \in Nat /\ Cardinality(leaked) \in Nat
      /\ Cardinality(At(Permitted)) \in Nat /\ Cardinality(At(Undoing)) \in Nat
      /\ cap \in Nat /\ Given <= cap
  BY Numbers DEF CountInv, Tally
<1>2. Cardinality(Live) <= len /\ len <= cap
  BY <1>1, LenCounts DEF Given
<1>3. ASSUME \A t \in Thread : pc[t] = "idle"
      PROVE  len = Cardinality(Live) + Cardinality(leaked)
  <2>1. At(Permitted) = {} /\ At(Undoing) = {}
    BY <1>3 DEF At, Permitted, Undoing
  <2>2. Cardinality(At(Permitted)) = 0 /\ Cardinality(At(Undoing)) = 0
    BY <2>1, FS_EmptySet
  <2>. QED
    BY <1>1, <2>2, LenCounts DEF Given
<1>. QED
  BY <1>2, <1>3 DEF LenCoversLive

(* len never misses an entry, never exceeds the capacity, and is exact but *)
(* for slots lost to panics when no operation is under way: Table's Drop   *)
(* leaves no entry behind.                                                 *)
THEOREM LenCovers == Spec => []LenCoversLive
BY CountLen, CountInvariant, PTL

-----------------------------------------------------------------------------
(* An insert fails only at capacity, or beside another one whose increment *)
(* is still to be undone.                                                  *)
THEOREM FailuresExplained == Spec => FailsOnlyBesideFull
PROOF
<1>1. ASSUME CountInv, [Next]_vars, NEW t \in Thread, pc[t] = "idle", pc'[t] = "undo"
      PROVE  Permits = cap \/ \E u \in Thread : pc[u] = "undo"
  <2>1. ~UNCHANGED vars
    BY <1>1 DEF vars
  <2>2. PICK u \in Thread : Insert(u) \/ Remove(u)
    BY <1>1, <2>1 DEF Next
  <2>3. u = t /\ ReserveSlot(t)
    BY <1>1, <2>2
       DEF Insert, Remove, ReserveSlot, UndoReserve, UndoRetry, FetchNextId, SwapSlot,
           Publish, InitPanics, Evict, FetchFreeId, StoreSlot, StoreSlotOccupied,
           StoreSlotSpurious, DecrEntries, Goto, CountInv, TypeOK
  <2>4. ~(entries < LENGTH)
    BY <1>1, <2>3, GotoEffect DEF ReserveSlot, CountInv
  <2>5. CASE At(Undoing) = {}
    <3>1. Cardinality(At(Undoing)) = 0
      BY <2>5, FS_EmptySet
    <3>2. Given = cap
      BY <1>1, <2>4, <3>1, Numbers DEF CountInv, Tally, Counted, Given
    <3>. QED
      BY <3>2, PermitsGiven
  <2>6. CASE At(Undoing) # {}
    BY <2>6 DEF At, Undoing
  <2>. QED
    BY <2>5, <2>6
<1>2. CountInv /\ [Next]_vars =>
        [\A t \in Thread : pc[t] = "idle" /\ pc'[t] = "undo" =>
           Permits = cap \/ \E u \in Thread : pc[u] = "undo"]_vars
  BY <1>1
<1>. QED
  BY <1>2, CountInvariant, PTL DEF Spec, FailsOnlyBesideFull
-----------------------------------------------------------------------------
(* The two specifications count alike.                                     *)
LEMMA SameCardinality == \A S : Cells!Cardinality(S) = Cardinality(S)
BY DEF Cells!Cardinality, Cardinality

(* The thread that holds a cell has the permit for it.                     *)
LEMMA HolderHasRoom ==
  ASSUME CountInv, NEW t \in Thread, pc[t] = "publish"
  PROVE  /\ Cells!HasRoom
         /\ Concrete(idx[t]) \in Offset
         /\ Cells!Usable(Concrete(idx[t]))
PROOF
<1>1. Cardinality(At(Permitted)) >= 1
  BY Whereabouts DEF Permitted
<1>2. Cardinality(Live) + Cardinality(leaked) < cap
  BY <1>1, Numbers DEF CountInv, Tally, Given
<1>3. Cells!HasRoom
  BY <1>2, SameCardinality DEF Cells!HasRoom, Live
<1>4. Concrete(idx[t]) \in Offset
  BY ConcreteInRange, IndexAssumption DEF CountInv, TypeOK, Word, Concrete
<1>5. Cells!Usable(Concrete(idx[t]))
  BY <1>4 DEF CountInv, Shares, Ownership, HeldEmpty, LeakedApart, Holds, Cells!Usable
<1>. QED
  BY <1>3, <1>4, <1>5

LEMMA InitCells == Init => Cells!Init
BY DEF Init, Cells!Init

(* An insert takes effect where Atomic::write swaps the entry in, a remove *)
(* where evict swaps it out; every other step but a panic changes nothing. *)
LEMMA PublishCells ==
  ASSUME CountInv, NEW t \in Thread, Publish(t)
  PROVE  Cells!Next
PROOF
<1> DEFINE key == abstract_to_detached(idx[t])
<1>1. key \in Word /\ detached_to_concrete(key) = Concrete(idx[t])
  BY KeyOfIndex DEF CountInv, TypeOK, Concrete
<1>2. /\ pc[t] = "publish" /\ leaked' = leaked
      /\ data' = [data EXCEPT ![Concrete(idx[t])] = key]
  BY DEF Publish
<1>. HIDE DEF key
<1>3. Cells!Insert(key)
  BY <1>1, <1>2, HolderHasRoom DEF Cells!Insert
<1>. QED
  BY <1>1, <1>3 DEF Cells!Next

LEMMA InitPanicsCells ==
  ASSUME CountInv, NEW t \in Thread, InitPanics(t)
  PROVE  Cells!Next
PROOF
<1>1. pc[t] = "publish" /\ data' = data /\ leaked' = leaked \cup {Concrete(idx[t])}
  BY DEF InitPanics
<1>2. Cells!Lose(Concrete(idx[t])) /\ Concrete(idx[t]) \in Offset
  BY <1>1, HolderHasRoom DEF Cells!Lose
<1>. QED
  BY <1>2 DEF Cells!Next

LEMMA EvictCells ==
  ASSUME NEW t \in Thread, NEW k \in Key, Evict(t, k)
  PROVE  Cells!Next
PROOF
<1> DEFINE c == detached_to_concrete(k)
<1>1. c \in Offset
  BY TableAssumption, Generations DEF detached_to_concrete
<1>2. data[c] # Null /\ data' = [data EXCEPT ![c] = Null] /\ leaked' = leaked
  BY DEF Evict, find
<1>. HIDE DEF c
<1>3. Cells!Remove(c)
  BY <1>2 DEF Cells!Remove
<1>. QED
  BY <1>1, <1>3 DEF Cells!Next

LEMMA NextCells == CountInv /\ [Next]_vars => [Cells!Next]_(Cells!vars)
PROOF
<1>. SUFFICES ASSUME CountInv, [Next]_vars PROVE Cells!Next \/ UNCHANGED Cells!vars
  OBVIOUS
<1>1. CASE UNCHANGED vars
  BY <1>1 DEF vars, Cells!vars
<1>2. ASSUME NEW t \in Thread,
             \/ ReserveSlot(t) \/ UndoReserve(t) \/ UndoRetry(t) \/ FetchNextId(t)
             \/ SwapSlot(t) \/ FetchFreeId(t) \/ StoreSlot(t)
             \/ StoreSlotOccupied(t) \/ StoreSlotSpurious(t) \/ DecrEntries(t)
      PROVE  UNCHANGED Cells!vars
  BY <1>2 DEF ReserveSlot, UndoReserve, UndoRetry, FetchNextId, SwapSlot, FetchFreeId,
              StoreSlot, StoreSlotOccupied, StoreSlotSpurious, DecrEntries, Cells!vars
<1>. QED
  BY <1>1, <1>2, PublishCells, InitPanicsCells, EvictCells DEF Next, Insert, Remove

(* The table implements atomic cells: whatever keys callers pass and       *)
(* however threads interleave, each insert and each remove is one step of  *)
(* an array of cells that never exceeds its capacity.                      *)
THEOREM TableImplementsCells == Spec => ImplementsCells
PROOF
<1>1. CountInv /\ [Next]_vars => [Cells!Next]_(Cells!vars)
  BY NextCells
<1>. QED
  BY InitCells, <1>1, CountInvariant, PTL DEF Spec, ImplementsCells, Cells!Spec
=============================================================================
