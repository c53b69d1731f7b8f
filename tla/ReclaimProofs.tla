--------------------------- MODULE ReclaimProofs ---------------------------
(***************************************************************************)
(* Theorems about the life of entries (Reclaim.tla), from the rule the     *)
(* collector is modelled by: for every number of readers and threads, and  *)
(* whatever keys callers use.                                              *)
(***************************************************************************)
EXTENDS Reclaim, TableProofs, SequenceTheorems

Linked(e) == \E c \in Offset : object[c] = e

Retired == DOMAIN retired

MemoryType ==
  /\ guards \subseteq Reader
  /\ ref \in [Reader -> Nat \cup {Null}]
  /\ dropped \in Seq(Nat)
  /\ data \in [Offset -> Word \cup {Null}]
  /\ object \in [Offset -> Nat \cup {Null}]
  /\ Retired \subseteq Entry
  /\ \A e \in Retired : retired[e] \subseteq guards

(* The cells hold entries that were inserted, each in one cell.            *)
CellsFilled ==
  /\ \A c \in Offset : data[c] = Null <=> object[c] = Null
  /\ \A c \in Offset : object[c] # Null => object[c] \in Entry
  /\ \A c, d \in Offset : object[c] # Null /\ object[c] = object[d] => c = d

(* An entry is in one of three states, and was dropped only in the last.   *)
Fates ==
  \A e \in Entry :
    \/ Linked(e) /\ e \notin Retired /\ dropped[e] = 0
    \/ ~Linked(e) /\ e \in Retired /\ dropped[e] = 0
    \/ ~Linked(e) /\ e \notin Retired /\ dropped[e] = 1

(* A reference is protected by its reader's guard.                         *)
Protected ==
  \A r \in Reader :
    ref[r] # Null => /\ r \in guards /\ ref[r] \in Entry
                     /\ \/ Linked(ref[r])
                        \/ ref[r] \in Retired /\ r \in retired[ref[r]]

(* What Drop has seen of the array, and what it counts down.               *)
Teardown ==
  /\ phase \in Phase
  /\ InUse => CountInv /\ cell = 0
  /\ ~InUse => guards = {}
  /\ phase = "dropping" =>
       /\ cell \in Offset /\ \A c \in Offset : c < cell => data[c] = Null
       /\ count \in Nat /\ Cardinality(Live) <= count
  /\ phase \in {"freeing", "freed"} => Live = {} \/ unwound

ReclaimInv == MemoryType /\ CellsFilled /\ Fates /\ Protected /\ Teardown

-----------------------------------------------------------------------------
(* Null is no entry, and the entries are numbered from one.                *)
LEMMA EntryNumbers ==
  ASSUME MemoryType
  PROVE  /\ Len(dropped) \in Nat /\ Entry = 1..Len(dropped)
         /\ \A e \in Entry : e \in Nat /\ e # Null /\ dropped[e] \in Nat
BY ReclaimAssumption DEF MemoryType, Entry

(* An entry is dropped: one count goes up.                                 *)
LEMMA DropCounts ==
  ASSUME MemoryType, NEW e \in Entry, dropped' = [dropped EXCEPT ![e] = @ + 1]
  PROVE  /\ dropped' \in Seq(Nat) /\ Entry' = Entry
         /\ dropped'[e] = dropped[e] + 1
         /\ \A f \in Entry \ {e} : dropped'[f] = dropped[f]
PROOF
<1>1. dropped \in Seq(Nat) /\ e \in 1..Len(dropped) /\ dropped[e] + 1 \in Nat
  BY EntryNumbers DEF MemoryType
<1>2. dropped' \in Seq(Nat)
  BY <1>1, ExceptSeq
<1>. QED
  BY <1>2 DEF Entry

(* Steps that touch no entry.                                              *)
LEMMA SameEntries ==
  ASSUME ReclaimInv, UNCHANGED <<data, object, guards, ref, retired, dropped>>
  PROVE  /\ MemoryType' /\ CellsFilled' /\ Fates' /\ Protected'
         /\ Live' = Live
PROOF
<1>1. Retired' = Retired /\ Entry' = Entry /\ \A e : Linked(e)' <=> Linked(e)
  BY DEF Retired, Entry, Linked
<1>. QED
  BY <1>1 DEF ReclaimInv, MemoryType, CellsFilled, Fates, Protected, Live

(* Where an entry is not, nothing matters to it.                           *)
LEMMA LinkedElsewhere ==
  ASSUME NEW c \in Offset, \A d \in Offset \ {c} : object'[d] = object[d],
         NEW f, object[c] # f, object'[c] # f
  PROVE  Linked(f)' <=> Linked(f)
PROOF
<1>1. ASSUME NEW d \in Offset, object[d] = f PROVE object'[d] = f
  BY <1>1
<1>2. ASSUME NEW d \in Offset, object'[d] = f PROVE object[d] = f
  BY <1>2
<1>. QED
  BY <1>1, <1>2 DEF Linked

LEMMA CountStutters == CountInv /\ UNCHANGED vars => CountInv'
BY NextCount

LEMMA InitReclaim == ReclaimInit => ReclaimInv
PROOF
<1>. SUFFICES ASSUME ReclaimInit PROVE ReclaimInv
  OBVIOUS
<1>1. CountInv
  BY InitCount DEF ReclaimInit
<1>2. /\ data = [c \in Offset |-> Null] /\ object = [c \in Offset |-> Null]
      /\ Retired = {} /\ Entry = {} /\ dropped \in Seq(Nat)
  BY DEF ReclaimInit, Init, Retired, Entry
<1>3. MemoryType
  BY <1>2 DEF ReclaimInit, MemoryType
<1>4. CellsFilled /\ Fates /\ Protected
  BY <1>2 DEF ReclaimInit, CellsFilled, Fates, Protected
<1>5. Teardown
  BY <1>1 DEF ReclaimInit, Teardown, Phase, InUse
<1>. QED
  BY <1>3, <1>4, <1>5 DEF ReclaimInv

LEMMA GuardReclaim ==
  ASSUME ReclaimInv, NEW r \in Reader, NewGuard(r) \/ Load(r) \/ DropGuard(r)
  PROVE  ReclaimInv'
PROOF
<1>1. UNCHANGED <<vars, object, dropped, teardown>>
  BY DEF NewGuard, Load, DropGuard
<1>2. /\ UNCHANGED <<data, object>> /\ Entry' = Entry
      /\ \A e : Linked(e)' <=> Linked(e)
  BY <1>1 DEF vars, Entry, Linked
<1>3. InUse
  BY DEF NewGuard, Load, DropGuard, ReclaimInv, Teardown
<1>4. Retired' = Retired
  BY DEF NewGuard, Load, DropGuard, Retired
<1>5. CellsFilled' /\ Fates'
  BY <1>1, <1>2, <1>4 DEF ReclaimInv, CellsFilled, Fates
<1>6. Teardown'
  <2>1. CountInv'
    BY <1>1, <1>3, CountStutters DEF ReclaimInv, Teardown
  <2>. QED
    BY <1>1, <1>3, <2>1 DEF ReclaimInv, Teardown, InUse, teardown, Phase
<1>7. CASE NewGuard(r)
  <2>1. guards' = guards \cup {r} /\ UNCHANGED <<ref, retired>>
    BY <1>7 DEF NewGuard
  <2>2. MemoryType' /\ Protected'
    BY <1>1, <1>2, <1>4, <2>1 DEF ReclaimInv, MemoryType, Protected
  <2>. QED
    BY <1>5, <1>6, <2>2 DEF ReclaimInv
<1>8. CASE Load(r)
  <2>1. PICK k \in Key : ref' = [ref EXCEPT ![r] = object[detached_to_concrete(k)]]
    BY <1>8 DEF Load
  <2>2. r \in guards /\ UNCHANGED <<guards, retired>>
    BY <1>8 DEF Load
  <2>3. detached_to_concrete(k) \in Offset
    BY Generations, TableAssumption DEF detached_to_concrete
  <2> DEFINE found == object[detached_to_concrete(k)]
  <2>4. /\ found \in Nat \cup {Null}
        /\ found # Null => found \in Entry /\ Linked(found)
    BY <2>3 DEF ReclaimInv, MemoryType, CellsFilled, Linked
  <2>. HIDE DEF found
  <2>5. ref' = [ref EXCEPT ![r] = found]
    BY <2>1 DEF found
  <2>6. MemoryType' /\ Protected'
    BY <1>1, <1>2, <1>4, <2>2, <2>4, <2>5 DEF ReclaimInv, MemoryType, Protected
  <2>. QED
    BY <1>5, <1>6, <2>6 DEF ReclaimInv
<1>9. CASE DropGuard(r)
  <2>1. /\ guards' = guards \ {r} /\ ref' = [ref EXCEPT ![r] = Null]
        /\ retired' = [e \in Retired |-> retired[e] \ {r}]
    BY <1>9 DEF DropGuard, Retired
  <2>2. MemoryType'
    BY <1>1, <1>2, <1>4, <2>1 DEF ReclaimInv, MemoryType
  <2>3. Protected'
    BY <1>2, <1>4, <2>1 DEF ReclaimInv, MemoryType, Protected
  <2>. QED
    BY <1>5, <1>6, <2>2, <2>3 DEF ReclaimInv
<1>. QED
  BY <1>7, <1>8, <1>9

-----------------------------------------------------------------------------
LEMMA UseReclaim ==
  ASSUME ReclaimInv, NEW t \in Thread, Use(t)
  PROVE  ReclaimInv'
PROOF
<1>1. InUse /\ CountInv /\ UNCHANGED memory
  BY DEF Use, ReclaimInv, Teardown
<1>2. Next
  BY DEF Use, Next, Insert, Remove
<1>3. CountInv'
  BY <1>1, <1>2, NextCount
<1>4. UNCHANGED <<data, object, guards, ref, retired, dropped, teardown>>
  BY <1>1 DEF Use, memory, readers, ReserveSlot, UndoReserve, UndoRetry, FetchNextId,
              SwapSlot, InitPanics, FetchFreeId, StoreSlot, StoreSlotOccupied,
              StoreSlotSpurious, DecrEntries
<1>5. MemoryType' /\ CellsFilled' /\ Fates' /\ Protected'
  BY <1>4, SameEntries
<1>6. Teardown'
  BY <1>1, <1>3, <1>4 DEF ReclaimInv, Teardown, InUse, Phase, teardown
<1>. QED
  BY <1>5, <1>6 DEF ReclaimInv

(* A new entry comes into an empty cell: no entry is forgotten.            *)
LEMMA LinkReclaim ==
  ASSUME ReclaimInv, NEW t \in Thread, Link(t)
  PROVE  ReclaimInv'
PROOF
<1> DEFINE c == Concrete(idx[t])
           key == abstract_to_detached(idx[t])
<1>0. PICK e : e = Len(dropped) + 1
  OBVIOUS
<1>1. /\ InUse /\ CountInv /\ Publish(t) /\ UNCHANGED <<guards, ref, retired, teardown>>
      /\ pc[t] = "publish" /\ data' = [data EXCEPT ![c] = key]
      /\ object' = [object EXCEPT ![c] = e] /\ dropped' = Append(dropped, 0)
  BY <1>0 DEF Link, Publish, ReclaimInv, Teardown, readers
<1>2. Next
  BY <1>1 DEF Next, Insert
<1>3. CountInv'
  BY <1>1, <1>2, NextCount
<1>4. key \in Word /\ key # Null /\ c \in Offset
  <2>1. idx[t] \in Word
    BY <1>1 DEF CountInv, TypeOK
  <2>. QED
    BY <2>1, KeyOfIndex, ConcreteInRange, Generations, TableAssumption DEF Concrete
<1>5. data[c] = Null /\ object[c] = Null
  BY <1>1, <1>4 DEF CountInv, Shares, Ownership, HeldEmpty, Holds, ReclaimInv, CellsFilled
<1>6. /\ e \in Nat /\ e # Null /\ e \notin Entry
      /\ dropped' \in Seq(Nat) /\ Entry' = Entry \cup {e}
      /\ dropped'[e] = 0 /\ \A f \in Entry : dropped'[f] = dropped[f]
  <2>1. /\ dropped \in Seq(Nat) /\ Len(dropped) \in Nat /\ Entry = 1..Len(dropped)
    BY EntryNumbers DEF ReclaimInv, MemoryType
  <2>2. /\ dropped' \in Seq(Nat) /\ Len(dropped') = e
        /\ dropped'[e] = 0 /\ \A f \in Entry : dropped'[f] = dropped[f]
    BY <1>0, <1>1, <2>1
  <2>3. Entry' = 1..e
    BY <2>2 DEF Entry
  <2>4. 1..e = (1..Len(dropped)) \cup {e}
    BY <1>0, <2>1
  <2>. QED
    BY <1>0, <2>1, <2>2, <2>3, <2>4, ReclaimAssumption
<1>. HIDE DEF c, key
<1>7. /\ data' \in [Offset -> Word \cup {Null}] /\ object' \in [Offset -> Nat \cup {Null}]
      /\ data'[c] = key /\ object'[c] = e
      /\ \A d \in Offset \ {c} : data'[d] = data[d] /\ object'[d] = object[d]
  BY <1>1, <1>4, <1>6 DEF ReclaimInv, MemoryType
<1>8. Linked(e)' /\ \A f \in Entry : Linked(f)' <=> Linked(f)
  <2>1. \A f \in Entry : f # e /\ f # Null
    BY <1>6, EntryNumbers DEF ReclaimInv
  <2>2. Linked(e)'
    BY <1>4, <1>7 DEF Linked
  <2>. QED
    BY <1>4, <1>5, <1>7, <2>1, <2>2, LinkedElsewhere
<1>9. Retired' = Retired
  BY <1>1 DEF Retired
<1>10. MemoryType'
  BY <1>1, <1>6, <1>7, <1>9 DEF ReclaimInv, MemoryType
<1>11. CellsFilled'
  BY <1>4, <1>6, <1>7 DEF ReclaimInv, MemoryType, CellsFilled
<1>12. Fates'
  BY <1>6, <1>8, <1>9 DEF ReclaimInv, MemoryType, Fates
<1>13. Protected'
  BY <1>1, <1>6, <1>8, <1>9 DEF ReclaimInv, Protected
<1>14. Teardown'
  BY <1>1, <1>3 DEF ReclaimInv, Teardown, InUse, Phase, teardown
<1>. QED
  BY <1>10, <1>11, <1>12, <1>13, <1>14 DEF ReclaimInv

(* evict hands the entry it took out of the cell to the collector, which   *)
(* waits for the guards there are, among them those of its readers.        *)
LEMMA UnlinkReclaim ==
  ASSUME ReclaimInv, NEW t \in Thread, Unlink(t)
  PROVE  ReclaimInv'
PROOF
<1>1. PICK k \in Key : /\ Evict(t, k)
                       /\ retired' = With(retired, object[detached_to_concrete(k)], guards)
                       /\ object' = [object EXCEPT ![detached_to_concrete(k)] = Null]
  BY DEF Unlink
<1> DEFINE c == detached_to_concrete(k)
<1>0. PICK e : e = object[c]
  OBVIOUS
<1>2. InUse /\ CountInv /\ UNCHANGED <<guards, ref, dropped, teardown>>
  BY DEF Unlink, ReclaimInv, Teardown, readers
<1>3. CountInv'
  <2>1. Next
    BY <1>1 DEF Next, Remove
  <2>. QED
    BY <1>2, <2>1, NextCount
<1>4. c \in Offset /\ data[c] # Null /\ data' = [data EXCEPT ![c] = Null]
  BY <1>1, Generations, TableAssumption DEF Evict, find, detached_to_concrete
<1>5. e # Null /\ e \in Entry /\ Linked(e)
  BY <1>0, <1>4 DEF ReclaimInv, CellsFilled, Linked
<1>6. retired' = [x \in Retired \cup {e} |-> IF x = e THEN guards ELSE retired[x]]
  BY <1>0, <1>1 DEF With, Retired
<1>7. object' = [object EXCEPT ![c] = Null]
  BY <1>1
<1>8. \A d \in Offset \ {c} : object[d] # e
  BY <1>0, <1>4, <1>5 DEF ReclaimInv, CellsFilled
<1>. HIDE DEF c
<1>9. object[c] = e
  BY <1>0
<1>10. /\ data' \in [Offset -> Word \cup {Null}] /\ object' \in [Offset -> Nat \cup {Null}]
       /\ data'[c] = Null /\ object'[c] = Null
       /\ \A d \in Offset \ {c} : data'[d] = data[d] /\ object'[d] = object[d]
  BY <1>4, <1>7 DEF ReclaimInv, MemoryType
<1>11. Retired' = Retired \cup {e} /\ Entry' = Entry
  BY <1>2, <1>6 DEF Retired, Entry
<1>12. ~Linked(e)' /\ \A f \in Entry \ {e} : Linked(f)' <=> Linked(f)
  <2>1. \A f \in Entry : f # Null
    BY EntryNumbers DEF ReclaimInv
  <2>2. \A d \in Offset : object'[d] # e
    BY <1>4, <1>5, <1>8, <1>10
  <2>3. ~Linked(e)'
    BY <2>2 DEF Linked
  <2>. QED
    BY <1>4, <1>9, <1>10, <2>1, <2>3, LinkedElsewhere
<1>13. e \notin Retired /\ dropped[e] = 0
  BY <1>5 DEF ReclaimInv, Fates
<1>14. MemoryType'
  BY <1>2, <1>5, <1>6, <1>10, <1>11 DEF ReclaimInv, MemoryType
<1>15. CellsFilled'
  BY <1>4, <1>10, <1>11 DEF ReclaimInv, CellsFilled
<1>16. Fates'
  BY <1>2, <1>5, <1>11, <1>12, <1>13 DEF ReclaimInv, Fates
<1>17. Protected'
  <2>1. ASSUME NEW r \in Reader, NEW x, x = ref[r], x # Null
        PROVE  /\ r \in guards /\ x \in Entry
               /\ Linked(x)' \/ (x \in Retired' /\ r \in retired'[x])
    BY <2>1, <1>5, <1>6, <1>11, <1>12 DEF ReclaimInv, Protected
  <2>2. ASSUME NEW r \in Reader, ref[r] # Null
        PROVE  /\ r \in guards /\ ref[r] \in Entry
               /\ (\E d \in Offset : object'[d] = ref[r])
                    \/ (ref[r] \in Retired' /\ r \in retired'[ref[r]])
    BY <2>1, <2>2 DEF Linked
  <2>. QED
    BY <1>2, <1>11, <2>2 DEF Protected, Linked
<1>18. Teardown'
  BY <1>2, <1>3 DEF ReclaimInv, Teardown, InUse, Phase, teardown
<1>. QED
  BY <1>14, <1>15, <1>16, <1>17, <1>18 DEF ReclaimInv

(* The collector drops an entry that no reference leads to.                *)
LEMMA CollectReclaim ==
  ASSUME ReclaimInv, Collect
  PROVE  ReclaimInv'
PROOF
<1>1. PICK e \in Retired : /\ retired[e] = {}
                           /\ dropped' = [dropped EXCEPT ![e] = @ + 1]
                           /\ retired' = [x \in Retired \ {e} |-> retired[x]]
  BY DEF Collect, Without, Retired
<1>2. UNCHANGED <<vars, object, guards, ref, teardown>>
  BY DEF Collect, readers
<1>3. UNCHANGED <<data, object>> /\ \A f : Linked(f)' <=> Linked(f)
  BY <1>2 DEF vars, Linked
<1>4. Retired' = Retired \ {e} /\ e \in Entry
  BY <1>1 DEF Retired, ReclaimInv, MemoryType
<1>5. ~Linked(e) /\ dropped[e] = 0
  BY <1>1, <1>4 DEF ReclaimInv, Fates
<1>6. /\ dropped' \in Seq(Nat) /\ Entry' = Entry /\ dropped'[e] = 1
      /\ \A f \in Entry \ {e} : dropped'[f] = dropped[f]
  <2>1. MemoryType
    BY DEF ReclaimInv
  <2>2. dropped[e] + 1 = 1
    BY <1>5
  <2>. QED
    BY <1>1, <1>4, <2>1, <2>2, DropCounts
<1>7. MemoryType'
  BY <1>1, <1>2, <1>3, <1>4, <1>6 DEF ReclaimInv, MemoryType
<1>8. CellsFilled'
  BY <1>3, <1>6 DEF ReclaimInv, CellsFilled
<1>9. Fates'
  BY <1>3, <1>4, <1>5, <1>6 DEF ReclaimInv, Fates
<1>10. Protected'
  <2>1. ASSUME NEW r \in Reader, ref[r] # Null PROVE ref[r] # e
    BY <1>1, <1>5, <2>1 DEF ReclaimInv, Protected
  <2>. QED
    BY <1>1, <1>2, <1>3, <1>4, <1>6, <2>1 DEF ReclaimInv, Protected
<1>11. Teardown'
  <2>1. InUse => CountInv'
    BY <1>2, CountStutters DEF ReclaimInv, Teardown
  <2>. QED
    BY <1>2, <1>3, <2>1 DEF ReclaimInv, Teardown, InUse, teardown, Phase, Live
<1>. QED
  BY <1>7, <1>8, <1>9, <1>10, <1>11 DEF ReclaimInv

-----------------------------------------------------------------------------
(* Drop begins with nobody else there, and len counts every entry.         *)
LEMMA BeginDropReclaim ==
  ASSUME ReclaimInv, BeginDrop
  PROVE  ReclaimInv'
PROOF
<1>1. /\ InUse /\ guards = {} /\ \A t \in Thread : pc[t] = "idle"
      /\ count' = len
      /\ phase' = IF len = 0 THEN "freeing" ELSE "dropping"
      /\ UNCHANGED <<data, object, guards, ref, retired, dropped, cell>>
  BY DEF BeginDrop, operations, readers
<1>2. CountInv /\ cell = 0
  BY <1>1 DEF ReclaimInv, Teardown
<1>3. len \in Nat /\ Cardinality(Live) <= len /\ (len = 0 => Live = {})
  <2>1. /\ IsFiniteSet(Live) /\ Cardinality(Live) \in Nat /\ Cardinality(leaked) \in Nat
    BY <1>2, CellsFinite DEF CountInv
  <2>2. len = Cardinality(Live) + Cardinality(leaked)
    BY <1>1, <1>2, CountLen DEF LenCoversLive
  <2>3. Cardinality(Live) = 0 => Live = {}
    BY <2>1, FS_EmptySet
  <2>. QED
    BY <2>1, <2>2, <2>3
<1>4. MemoryType' /\ CellsFilled' /\ Fates' /\ Protected' /\ Live' = Live
  BY <1>1, SameEntries
<1>5. Teardown'
  <2>1. 0 \in Offset /\ \A c \in Offset : ~(c < 0)
    BY IndexAssumption DEF Offset
  <2>. QED
    BY <1>1, <1>2, <1>3, <1>4, <2>1 DEF Teardown, InUse, Phase
<1>. QED
  BY <1>4, <1>5 DEF ReclaimInv

(* An entry Drop takes out of the array was in its third state nowhere     *)
(* else: it had not been evicted, nor dropped.                             *)
LEMMA TakeReclaim ==
  ASSUME ReclaimInv, phase = "dropping", data[cell] # Null, TakeAndDrop,
         UNCHANGED <<guards, ref, retired>>
  PROVE  /\ MemoryType' /\ CellsFilled' /\ Fates' /\ Protected'
         /\ Live' = Live \ {cell} /\ cell \in Live
         /\ \A c \in Offset : data'[c] = IF c = cell THEN Null ELSE data[c]
PROOF
<1>1. PICK e \in Entry : /\ object[cell] = e /\ e # Null
                         /\ Linked(e) /\ cell \in Offset
  BY DEF ReclaimInv, Teardown, CellsFilled, Linked
<1>2. /\ data' = [data EXCEPT ![cell] = Null]
      /\ object' = [object EXCEPT ![cell] = Null]
      /\ dropped' = [dropped EXCEPT ![e] = @ + 1]
  BY <1>1 DEF TakeAndDrop
<1>3. /\ data' \in [Offset -> Word \cup {Null}] /\ object' \in [Offset -> Nat \cup {Null}]
      /\ data'[cell] = Null /\ object'[cell] = Null
      /\ \A c \in Offset \ {cell} : data'[c] = data[c] /\ object'[c] = object[c]
  BY <1>1, <1>2 DEF ReclaimInv, MemoryType
<1>4. Live' = Live \ {cell} /\ cell \in Live
  BY <1>1, <1>3 DEF Live
<1>5. e \notin Retired /\ dropped[e] = 0
  BY <1>1 DEF ReclaimInv, Fates
<1>6. /\ dropped' \in Seq(Nat) /\ Entry' = Entry /\ dropped'[e] = 1
      /\ \A f \in Entry \ {e} : dropped'[f] = dropped[f]
  <2>1. MemoryType
    BY DEF ReclaimInv
  <2>2. dropped[e] + 1 = 1
    BY <1>5
  <2>. QED
    BY <1>1, <1>2, <2>1, <2>2, DropCounts
<1>7. ~Linked(e)' /\ \A f \in Entry \ {e} : Linked(f)' <=> Linked(f)
  <2>1. \A f \in Entry : f # Null
    BY EntryNumbers DEF ReclaimInv
  <2>2. \A c \in Offset \ {cell} : object[c] # e
    BY <1>1 DEF ReclaimInv, CellsFilled
  <2>3. \A c \in Offset : object'[c] # e
    BY <1>1, <1>3, <2>2
  <2>4. ~Linked(e)'
    BY <2>3 DEF Linked
  <2>. QED
    BY <1>1, <1>3, <2>1, <2>4, LinkedElsewhere
<1>8. Retired' = Retired
  BY DEF Retired
<1>9. MemoryType'
  BY <1>3, <1>6, <1>8 DEF ReclaimInv, MemoryType
<1>10. CellsFilled'
  <2>1. \A c \in Offset : data'[c] = Null <=> object'[c] = Null
    BY <1>3 DEF ReclaimInv, CellsFilled
  <2>2. \A c \in Offset : object'[c] # Null => object'[c] = object[c]
    BY <1>3
  <2>. QED
    BY <1>6, <2>1, <2>2 DEF ReclaimInv, CellsFilled
<1>11. Fates'
  BY <1>5, <1>6, <1>7, <1>8 DEF ReclaimInv, Fates
<1>12. Protected'
  BY DEF ReclaimInv, Teardown, InUse, Protected
<1>. QED
  BY <1>1, <1>3, <1>4, <1>9, <1>10, <1>11, <1>12

LEMMA DropEntryReclaim ==
  ASSUME ReclaimInv, DropEntry
  PROVE  ReclaimInv'
PROOF
<1>1. /\ phase = "dropping" /\ cell' = cell + 1
      /\ UNCHANGED <<guards, ref, retired, unwound>>
  BY DEF DropEntry, operations, readers
<1>2. /\ cell \in Offset /\ cell \in Nat /\ \A c \in Offset : c < cell => data[c] = Null
      /\ count \in Nat /\ Cardinality(Live) <= count /\ guards = {}
  BY <1>1 DEF ReclaimInv, Teardown, InUse, Offset
<1>3. \A c \in Offset : c \in Nat /\ c <= LENGTH - 1
  BY IndexAssumption DEF Offset
<1>4. LENGTH \in Nat /\ (cell # LENGTH - 1 => cell + 1 \in Offset)
  BY <1>2, IndexAssumption DEF Offset
<1>5. ASSUME cell = LENGTH - 1 PROVE \A c \in Offset : c < cell + 1
  <2>1. \A c \in Nat : c <= cell => c < cell + 1
    BY <1>2
  <2>. QED
    BY <1>3, <1>5, <2>1
<1>6. CASE data[cell] = Null
  <2>1. /\ UNCHANGED <<data, object, dropped, count>>
        /\ phase' = IF cell = LENGTH - 1 THEN "freeing" ELSE "dropping"
    BY <1>6 DEF DropEntry
  <2>2. MemoryType' /\ CellsFilled' /\ Fates' /\ Protected' /\ Live' = Live
    BY <1>1, <2>1, SameEntries
  <2>4. \A c \in Offset : c < cell + 1 => data[c] = Null
    BY <1>2, <1>3, <1>6
  <2>5. cell = LENGTH - 1 => Live = {}
    BY <1>5, <2>4 DEF Live
  <2>6. Teardown'
    BY <1>1, <1>2, <1>4, <2>1, <2>2, <2>4, <2>5 DEF Teardown, InUse, Phase
  <2>. QED
    BY <2>2, <2>6 DEF ReclaimInv
<1>7. CASE data[cell] # Null
  <2>1. /\ TakeAndDrop /\ count' = count - 1
        /\ phase' = IF count - 1 = 0 \/ cell = LENGTH - 1 THEN "freeing" ELSE "dropping"
    BY <1>7 DEF DropEntry, found_all
  <2>2. /\ MemoryType' /\ CellsFilled' /\ Fates' /\ Protected'
        /\ Live' = Live \ {cell} /\ cell \in Live
        /\ \A c \in Offset : data'[c] = IF c = cell THEN Null ELSE data[c]
    BY <1>1, <1>7, <2>1, TakeReclaim
  <2>3. /\ IsFiniteSet(Live) /\ Cardinality(Live) \in Nat
        /\ IsFiniteSet(Live') /\ Cardinality(Live') = Cardinality(Live) - 1
    <3>1. Live \in SUBSET Offset
      BY DEF Live
    <3>2. IsFiniteSet(Live)
      BY <3>1, OffsetFinite, FS_Subset
    <3>. QED
      BY <2>2, <3>2, Shrink, FS_Subset, FS_CardinalityType
  <2>4. Cardinality(Live') \in Nat
    BY <2>3, FS_CardinalityType
  <2>5. count - 1 \in Nat /\ Cardinality(Live') <= count - 1
    BY <1>2, <2>3, <2>4
  <2>6. count - 1 = 0 => Live' = {}
    BY <2>3, <2>4, <2>5, FS_EmptySet
  <2>7. \A c \in Offset : c < cell + 1 => data'[c] = Null
    BY <1>2, <1>3, <2>2
  <2>8. cell = LENGTH - 1 => Live' = {}
    BY <1>5, <2>7 DEF Live
  <2>9. Teardown'
    BY <1>1, <1>2, <1>4, <2>1, <2>5, <2>6, <2>7, <2>8 DEF Teardown, InUse, Phase
  <2>. QED
    BY <2>2, <2>9 DEF ReclaimInv
<1>. QED
  BY <1>6, <1>7

LEMMA EndReclaim ==
  ASSUME ReclaimInv, DestructorPanics \/ FreeArrays
  PROVE  ReclaimInv'
PROOF
<1>1. UNCHANGED <<guards, ref, retired>> /\ ~InUse /\ ~InUse'
  BY DEF DestructorPanics, FreeArrays, operations, readers, InUse
<1>2. CASE DestructorPanics
  <2>1. /\ phase = "dropping" /\ data[cell] # Null /\ TakeAndDrop
        /\ phase' = "freeing" /\ unwound' = TRUE
    BY <1>2 DEF DestructorPanics
  <2>2. MemoryType' /\ CellsFilled' /\ Fates' /\ Protected'
    BY <1>1, <2>1, TakeReclaim
  <2>3. Teardown'
    BY <1>1, <2>1 DEF ReclaimInv, Teardown, Phase
  <2>. QED
    BY <2>2, <2>3 DEF ReclaimInv
<1>3. CASE FreeArrays
  <2>1. phase = "freeing" /\ phase' = "freed" /\ UNCHANGED <<data, object, dropped, unwound>>
    BY <1>3 DEF FreeArrays
  <2>2. MemoryType' /\ CellsFilled' /\ Fates' /\ Protected' /\ Live' = Live
    BY <1>1, <2>1, SameEntries
  <2>4. Teardown'
    BY <1>1, <2>1, <2>2 DEF ReclaimInv, Teardown, Phase
  <2>. QED
    BY <2>2, <2>4 DEF ReclaimInv
<1>. QED
  BY <1>2, <1>3

LEMMA ReclaimInvariant == ReclaimSpec => []ReclaimInv
PROOF
<1>1. ReclaimInv /\ [ReclaimNext]_<<vars, memory>> => ReclaimInv'
  <2>. SUFFICES ASSUME ReclaimInv, [ReclaimNext]_<<vars, memory>> PROVE ReclaimInv'
    OBVIOUS
  <2>1. CASE UNCHANGED <<vars, memory>>
    <3>1. InUse => CountInv'
      BY <2>1, CountStutters DEF ReclaimInv, Teardown
    <3>2. UNCHANGED <<data, object, guards, ref, retired, dropped, phase, cell, count, unwound>>
      BY <2>1 DEF vars, memory, readers, teardown
    <3>3. MemoryType' /\ CellsFilled' /\ Fates' /\ Protected' /\ Live' = Live
      BY <3>2, SameEntries
    <3>4. Teardown'
      BY <3>1, <3>2, <3>3 DEF ReclaimInv, Teardown, InUse, Phase
    <3>. QED
      BY <3>3, <3>4 DEF ReclaimInv
  <2>. QED
    BY <2>1, GuardReclaim, UseReclaim, LinkReclaim, UnlinkReclaim, CollectReclaim,
       BeginDropReclaim, DropEntryReclaim, EndReclaim DEF ReclaimNext
<1>. QED
  BY <1>1, InitReclaim, PTL DEF ReclaimSpec

-----------------------------------------------------------------------------
(* No lookup is left with a reference to an entry that was dropped,        *)
(* however inserts, removes, the collector and the table's Drop interleave *)
(* with it, by whatever keys.                                              *)
THEOREM ReferencesStayValid == ReclaimSpec => []ReferencesAreAlive
PROOF
<1>1. ReclaimInv => ReferencesAreAlive
  BY DEF ReclaimInv, Protected, Fates, ReferencesAreAlive
<1>. QED
  BY <1>1, ReclaimInvariant, PTL

(* Every entry is in the table, with the collector, or dropped, exactly    *)
(* once; and the array is not freed with entries still in it, unless a     *)
(* destructor panicked.                                                    *)
THEOREM DropsAreExact == ReclaimSpec => []DroppedOnce
PROOF
<1>1. ReclaimInv => DroppedOnce
  <2>. SUFFICES ASSUME ReclaimInv PROVE DroppedOnce
    OBVIOUS
  <2>1. ASSUME NEW e \in Entry
        PROVE  dropped[e] + Cardinality({e} \cap Retired)
                          + Cardinality({c \in Live : object[c] = e}) = 1
    <3> DEFINE Waiting == {e} \cap Retired
               Inside == {c \in Live : object[c] = e}
    <3>1. Waiting = (IF e \in Retired THEN {e} ELSE {})
      OBVIOUS
    <3>2. (Linked(e) => \E c : Inside = {c}) /\ (~Linked(e) => Inside = {})
      <4>1. e # Null
        BY EntryNumbers DEF ReclaimInv
      <4>. QED
        BY <4>1 DEF ReclaimInv, CellsFilled, Live, Linked
    <3>. HIDE DEF Waiting, Inside
    <3>3. Cardinality(Waiting) = (IF e \in Retired THEN 1 ELSE 0)
      BY <3>1, FS_EmptySet, FS_Singleton
    <3>4. Cardinality(Inside) = (IF Linked(e) THEN 1 ELSE 0)
      <4>1. \A S : (\E c : S = {c}) => Cardinality(S) = 1
        BY FS_Singleton
      <4>. QED
        BY <3>2, <4>1, FS_EmptySet
    <3>5. dropped[e] + Cardinality(Waiting) + Cardinality(Inside) = 1
      BY <3>3, <3>4 DEF ReclaimInv, Fates
    <3>. QED
      BY <3>5 DEF Waiting, Inside
  <2>. QED
    BY <2>1 DEF DroppedOnce, Retired, ReclaimInv, Teardown
<1>. QED
  BY <1>1, ReclaimInvariant, PTL
=============================================================================
