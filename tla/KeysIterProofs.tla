-------------------------- MODULE KeysIterProofs ---------------------------
(***************************************************************************)
(* Theorems about the walks over the table (KeysIter.tla), at every        *)
(* capacity and layout, beside any number of inserts and removes.          *)
(***************************************************************************)
EXTENDS KeysIter, TableProofs

(* The entry in a cell belongs there.                                      *)
InPlace ==
  \A c \in Offset : data[c] # Null => detached_to_concrete(data[c]) = c

(* The history of the walk: what is there now was there during it, and     *)
(* what was there throughout is there now.                                 *)
History ==
  /\ present \subseteq during
  /\ throughout \subseteq present

Walk ==
  /\ index \in Nat
  /\ walk \in {Null, "weak_keys", "debug"}
  /\ IF Scanning THEN History
                 ELSE yielded = {} /\ throughout = {} /\ index = 0

IterInv == TypeOK /\ InPlace /\ Walk /\ NoneMissed /\ YieldedHeldAnEntry

-----------------------------------------------------------------------------
LEMMA NextInPlace == TypeOK /\ InPlace /\ [Next]_vars => InPlace'
PROOF
<1>. SUFFICES ASSUME TypeOK, InPlace, [Next]_vars PROVE InPlace'
  OBVIOUS
<1>1. ASSUME NEW t \in Thread, Publish(t) PROVE InPlace'
  <2> DEFINE key == abstract_to_detached(idx[t])
             c == Concrete(idx[t])
  <2>1. detached_to_concrete(key) = c
    BY KeyOfIndex DEF TypeOK, Concrete
  <2>2. data' = [data EXCEPT ![c] = key]
    BY <1>1 DEF Publish
  <2>. HIDE DEF key, c
  <2>. QED
    BY <2>1, <2>2 DEF InPlace, TypeOK
<1>2. ASSUME NEW t \in Thread, NEW k \in Key, Evict(t, k) PROVE InPlace'
  BY <1>2 DEF Evict, InPlace, TypeOK
<1>3. ASSUME UNCHANGED data PROVE InPlace'
  BY <1>3 DEF InPlace
<1>. QED
  BY <1>1, <1>2, <1>3
     DEF Next, Insert, Remove, ReserveSlot, UndoReserve, UndoRetry, FetchNextId, SwapSlot,
         InitPanics, FetchFreeId, StoreSlot, StoreSlotOccupied, StoreSlotSpurious,
         DecrEntries, vars

(* An entry that is there is found in the cell of its key.                 *)
LEMMA PresentEntries ==
  ASSUME TypeOK, InPlace, NEW k \in present
  PROVE  /\ k \in Word /\ k # Null
         /\ detached_to_concrete(k) \in Offset
         /\ data[detached_to_concrete(k)] = k
BY TableAssumption DEF present, Live, InPlace, TypeOK

LEMMA TotalBound ==
  /\ total \in Nat /\ total <= LENGTH
  /\ walk = "debug" => total = LENGTH
BY IndexAssumption, TableAssumption DEF total, cap

-----------------------------------------------------------------------------
LEMMA InitWalk == IterInit => IterInv
PROOF
<1>. SUFFICES ASSUME IterInit PROVE IterInv
  OBVIOUS
<1>1. TypeOK /\ InPlace
  BY InitTypeOK DEF IterInit, Init, InPlace
<1>2. Walk
  BY DEF IterInit, Walk, Scanning
<1>3. NoneMissed /\ YieldedHeldAnEntry
  BY DEF IterInit, NoneMissed, YieldedHeldAnEntry
<1>. QED
  BY <1>1, <1>2, <1>3 DEF IterInv

LEMMA BeginWalk ==
  ASSUME IterInv, NEW w \in {"weak_keys", "debug"}, Begin(w)
  PROVE  IterInv'
PROOF
<1>1. /\ UNCHANGED <<vars, index, yielded>> /\ walk' = w
      /\ during' = present /\ throughout' = present
      /\ yielded = {} /\ index = 0
  BY DEF Begin, IterInv, Walk
<1>2. present' = present
  BY <1>1 DEF present, Live, vars
<1>3. TypeOK' /\ InPlace'
  BY <1>1 DEF IterInv, TypeOK, InPlace, vars
<1>4. Scanning' /\ History'
  BY <1>1, <1>2, KeysIterAssumption DEF Scanning, History
<1>5. Walk'
  BY <1>1, <1>4 DEF Walk
<1>6. YieldedHeldAnEntry'
  BY <1>1 DEF YieldedHeldAnEntry
<1>7. total' # 0 \/ w # "debug"
  BY <1>1, IndexAssumption DEF total
<1>8. ASSUME NEW k \in present PROVE Place(k) \in Nat
  BY <1>8, PresentEntries, InitialSlot DEF IterInv, Place, Offset
<1>9. NoneMissed'
  <2>1. \A k \in present : ~(Place(k) < 0)
    BY <1>8
  <2>. QED
    BY <1>1, <1>7, <2>1 DEF NoneMissed, Place
<1>. QED
  BY <1>3, <1>5, <1>6, <1>9 DEF IterInv

(* A visited cell yields a key exactly if there is an entry in it.         *)
LEMMA VisitWalk ==
  ASSUME IterInv, Visit
  PROVE  IterInv'
PROOF
<1> DEFINE key == abstract_to_detached(index)
           c == Concrete(index)
<1>1. /\ Scanning /\ index < total /\ index' = index + 1
      /\ UNCHANGED <<vars, walk, during, throughout>>
      /\ yielded' = IF data[c] = Null THEN yielded ELSE yielded \cup {key}
  BY DEF Visit
<1>2. index \in Word /\ index \in Nat /\ index + 1 <= LENGTH
  BY <1>1, TotalBound, IndexAssumption DEF IterInv, Walk, Word
<1>3. c \in Offset /\ detached_to_concrete(key) = c
  BY <1>2, ConcreteInRange, KeyOfIndex DEF Concrete
<1>. HIDE DEF key, c
<1>4. TypeOK' /\ InPlace'
  BY <1>1 DEF IterInv, TypeOK, InPlace, vars
<1>5. present' = present /\ total' = total /\ Scanning' = Scanning
  BY <1>1 DEF present, Live, vars, total, cap, Scanning
<1>6. Walk'
  BY <1>1, <1>2, <1>5 DEF IterInv, Walk, History
<1>7. YieldedHeldAnEntry'
  <2>1. CASE data[c] = Null
    BY <1>1, <2>1 DEF IterInv, YieldedHeldAnEntry
  <2>2. CASE data[c] # Null
    <3>1. data[c] \in during /\ detached_to_concrete(data[c]) = c
      BY <1>1, <1>3, <2>2 DEF IterInv, Walk, History, InPlace, present, Live
    <3>. QED
      BY <1>1, <1>3, <2>2, <3>1 DEF IterInv, YieldedHeldAnEntry, SameCell
  <2>. QED
    BY <2>1, <2>2
<1>8. ASSUME NEW k \in throughout
      PROVE  /\ Place(k) \in Nat /\ Place(k) < LENGTH
             /\ Place(k) < index + 1 => \E y \in yielded' : SameCell(k, y)
  <2>1. k \in present
    BY <1>1 DEF IterInv, Walk, History
  <2>2. /\ k # Null /\ detached_to_concrete(k) \in Offset
        /\ data[detached_to_concrete(k)] = k
    BY <2>1, PresentEntries DEF IterInv
  <2>3. /\ Place(k) \in Offset
        /\ Concrete(Place(k)) = detached_to_concrete(k)
    BY <2>2, InitialSlot DEF Place, Concrete
  <2>4. CASE Place(k) < index
    BY <1>1, <2>3, <2>4, IndexAssumption DEF IterInv, NoneMissed, Offset
  <2>5. CASE Place(k) = index
    <3>1. c = detached_to_concrete(k)
      BY <2>3, <2>5 DEF c
    <3>2. key \in yielded' /\ SameCell(k, key)
      BY <1>1, <1>3, <2>2, <3>1 DEF SameCell
    <3>. QED
      BY <2>3, <3>2, IndexAssumption DEF Offset
  <2>. QED
    BY <1>2, <2>3, <2>4, <2>5, IndexAssumption DEF Offset
<1>9. NoneMissed'
  <2>1. walk = "debug" /\ index + 1 = total => \A k \in throughout : Place(k) < index + 1
    BY <1>8, TotalBound
  <2>. QED
    BY <1>1, <1>5, <1>8, <2>1 DEF NoneMissed, Place, SameCell
<1>. QED
  BY <1>4, <1>6, <1>7, <1>9 DEF IterInv

LEMMA MeanwhileWalk ==
  ASSUME IterInv, Meanwhile
  PROVE  IterInv'
PROOF
<1>1. Next
  BY DEF Meanwhile, Call, Next, Remove
<1>2. TypeOK' /\ InPlace'
  BY <1>1, NextTypeOK, NextInPlace DEF IterInv
<1>3. /\ during' = IF Scanning THEN during \cup present' ELSE during
      /\ throughout' = throughout \cap present'
      /\ UNCHANGED <<walk, index, yielded>>
  BY DEF Meanwhile
<1>4. total' = total /\ Scanning' = Scanning
  BY <1>3 DEF total, cap, Scanning
<1>5. Walk'
  BY <1>3, <1>4 DEF IterInv, Walk, History
<1>6. during \subseteq during' /\ throughout' \subseteq throughout
  BY <1>3
<1>7. YieldedHeldAnEntry'
  BY <1>3, <1>6 DEF IterInv, YieldedHeldAnEntry, SameCell
<1>8. NoneMissed'
  BY <1>3, <1>4, <1>6 DEF IterInv, NoneMissed, Place, SameCell
<1>. QED
  BY <1>2, <1>5, <1>7, <1>8 DEF IterInv

LEMMA WalkInvariant == IterSpec => []IterInv
PROOF
<1>1. IterInv /\ [IterNext]_<<vars, iter>> => IterInv'
  <2>. SUFFICES ASSUME IterInv, [IterNext]_<<vars, iter>> PROVE IterInv'
    OBVIOUS
  <2>1. CASE UNCHANGED <<vars, iter>>
    BY <2>1 DEF vars, iter, IterInv, TypeOK, InPlace, Walk, History, Scanning, present, Live,
                NoneMissed, YieldedHeldAnEntry, Place, SameCell, total, cap
  <2>. QED
    BY <2>1, BeginWalk, VisitWalk, MeanwhileWalk DEF IterNext, weak_keys, Debug
<1>. QED
  BY <1>1, InitWalk, PTL DEF IterSpec

-----------------------------------------------------------------------------
(* Neither weak_keys nor Debug misses an entry that stays, of the cells it *)
(* has visited, and Debug visits all of them.                              *)
THEOREM WalksMissNothing == IterSpec => []NoneMissed
PROOF
<1>1. IterInv => NoneMissed
  BY DEF IterInv
<1>. QED
  BY <1>1, WalkInvariant, PTL

(* Neither yields a key of a cell that was empty all the time.             *)
THEOREM WalksInventNothing == IterSpec => []YieldedHeldAnEntry
PROOF
<1>1. IterInv => YieldedHeldAnEntry
  BY DEF IterInv
<1>. QED
  BY <1>1, WalkInvariant, PTL

(* Below Capacity::MAX a complete walk of either kind lists every entry    *)
(* that was there all the time: only at MAX does cap() end the iterator    *)
(* one cell short.                                                         *)
THEOREM CompleteWalksListAll ==
  ASSUME ~AtMax
  PROVE  IterSpec => []AllListed
PROOF
<1>1. ASSUME IterInv, Scanning, index = total, NEW k \in throughout
      PROVE  \E y \in yielded : SameCell(k, y)
  <2>1. TypeOK /\ InPlace /\ k \in present
    BY <1>1 DEF IterInv, Walk, History
  <2>2. Place(k) \in Offset
    BY <2>1, PresentEntries, InitialSlot DEF Place
  <2>3. total = LENGTH
    BY DEF total, cap
  <2>4. Place(k) < index
    BY <1>1, <2>2, <2>3, IndexAssumption DEF Offset
  <2>. QED
    BY <1>1, <2>4 DEF IterInv, NoneMissed
<1>2. IterInv => AllListed
  BY <1>1 DEF AllListed
<1>. QED
  BY <1>2, WalkInvariant, PTL
=============================================================================
