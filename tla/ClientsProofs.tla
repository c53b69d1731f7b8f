---------------------------- MODULE ClientsProofs ---------------------------
(***************************************************************************)
(* Theorems about the table with callers that remove each entry by one     *)
(* call (Clients.tla).                                                     *)
(***************************************************************************)
EXTENDS Clients, TableProofs

(* The entries in the table and the keys callers own are the same.         *)
EntriesOwned ==
  \A c \in Offset :
    data[c] # Null => data[c] \in owned /\ detached_to_concrete(data[c]) = c

Registered ==
  /\ owned \subseteq issued /\ issued \subseteq Word
  /\ KeyFindsItsEntry
  /\ EntriesOwned

(* The entry a remove was called for is there until its swap, since no two *)
(* removes are under way with the same key.                                *)
Reserved ==
  /\ removing \in [Thread -> Word \cup {Null}]
  /\ \A t \in Thread :
       removing[t] # Null =>
         /\ removing[t] \in owned
         /\ \A u \in Thread \ {t} : removing[u] # removing[t]

Inv == TypeOK /\ Ownership /\ Registered /\ Reserved

-----------------------------------------------------------------------------
(* What callers do is within what the table allows.                        *)
LEMMA ClientsStep ==
  ASSUME Key = Word, Registered, Reserved, [ClientsNext]_<<vars, clients>>
  PROVE  [Next]_vars
PROOF
<1>1. CASE UNCHANGED <<vars, clients>>
  BY <1>1
<1>2. ASSUME NEW t \in Thread, RemoveKey(t) PROVE [Next]_vars
  <2>1. removing[t] \in Key
    BY <1>2 DEF RemoveKey, Reserved, Registered
  <2>. QED
    BY <1>2, <2>1 DEF RemoveKey, Next, Remove
<1>3. ASSUME NEW t \in Thread, StartInsert(t) \/ ReturnKey(t) \/ Continue(t)
      PROVE  Next
  BY <1>3 DEF StartInsert, ReturnKey, Continue, Next, Insert, Remove
<1>4. ASSUME NEW t \in Thread, StartRemove(t) PROVE UNCHANGED vars
  BY <1>4 DEF StartRemove
<1>. QED
  BY <1>1, <1>2, <1>3, <1>4 DEF ClientsNext

LEMMA ClientsInitInv == ClientsInit => Inv
PROOF
<1>. SUFFICES ASSUME ClientsInit PROVE Inv
  OBVIOUS
<1>1. TypeOK /\ Ownership
  BY InitTypeOK, InitOwnership DEF ClientsInit
<1>2. Registered
  BY DEF ClientsInit, Init, Registered, KeyFindsItsEntry, EntriesOwned
<1>3. Reserved
  BY DEF ClientsInit, Reserved
<1>. QED
  BY <1>1, <1>2, <1>3 DEF Inv

(* Returning a key: the cell was empty, so no other key led to it.         *)
LEMMA ReturnKeyRegistered ==
  ASSUME Inv, NEW t \in Thread, ReturnKey(t)
  PROVE  Registered'
PROOF
<1> DEFINE key == abstract_to_detached(idx[t])
           c == Concrete(idx[t])
<1>1. key \in Word /\ detached_to_concrete(key) = c /\ c \in Offset
  <2>1. idx[t] \in Word
    BY DEF Inv, TypeOK
  <2>. QED
    BY <2>1, KeyOfIndex, ConcreteInRange, IndexAssumption DEF Concrete, Word
<1>2. data[c] = Null
  BY DEF ReturnKey, Publish, Inv, Ownership, HeldEmpty, Holds
<1>3. /\ data' = [data EXCEPT ![c] = key]
      /\ issued' = issued \cup {key}
      /\ owned' = owned \cup {key}
  BY DEF ReturnKey, Publish
<1>. HIDE DEF key, c
<1>4. data'[c] = key /\ \A d \in Offset \ {c} : data'[d] = data[d]
  BY <1>1, <1>3 DEF Inv, TypeOK
<1>5. \A j \in owned : /\ j # Null /\ j \in Word
                       /\ detached_to_concrete(j) \in Offset
                       /\ data[detached_to_concrete(j)] = j
  BY TableAssumption, Generations
     DEF Inv, Registered, KeyFindsItsEntry, find, detached_to_concrete
<1>6. KeyFindsItsEntry'
  BY <1>1, <1>2, <1>3, <1>4, <1>5 DEF KeyFindsItsEntry, find
<1>7. EntriesOwned'
  BY <1>1, <1>3, <1>4 DEF Inv, Registered, EntriesOwned
<1>. QED
  BY <1>1, <1>3, <1>6, <1>7 DEF Inv, Registered

(* The swap of a remove finds the entry the remove was called for.         *)
LEMMA RemoveTakesItsEntry ==
  ASSUME Registered, Reserved, NEW t \in Thread, RemoveKey(t)
  PROVE  \E k \in owned : /\ k = removing[t]
                          /\ Evict(t, k)
                          /\ owned' = owned \ {k}
                          /\ issued' = issued
PROOF
<1>1. removing[t] \in owned /\ find(removing[t]) # Null
  BY DEF RemoveKey, Reserved, Registered, KeyFindsItsEntry
<1>. QED
  BY <1>1 DEF RemoveKey

(* Removing an entry: it is the one the key was returned for, and no other *)
(* key led to its cell.                                                    *)
LEMMA RemoveKeyRegistered ==
  ASSUME Inv, NEW t \in Thread, RemoveKey(t)
  PROVE  Registered'
PROOF
<1>1. PICK k \in owned : /\ Evict(t, k)
                         /\ owned' = owned \ {k}
                         /\ issued' = issued
  BY RemoveTakesItsEntry DEF Inv
<1> DEFINE c == detached_to_concrete(k)
<1>2. k \in Word /\ c \in Offset /\ data[c] = k
  BY Generations DEF Inv, Registered, KeyFindsItsEntry, find, detached_to_concrete
<1>3. data' = [data EXCEPT ![c] = Null]
  BY <1>1 DEF Evict
<1>4. \A j \in owned : detached_to_concrete(j) \in Offset
  BY Generations DEF Inv, Registered, detached_to_concrete
<1>. HIDE DEF c
<1>5. data'[c] = Null /\ \A d \in Offset \ {c} : data'[d] = data[d]
  BY <1>2, <1>3 DEF Inv, TypeOK
<1>6. \A j \in owned : data[detached_to_concrete(j)] = j
  BY DEF Inv, Registered, KeyFindsItsEntry, find
<1>7. KeyFindsItsEntry'
  BY <1>1, <1>2, <1>4, <1>5, <1>6 DEF KeyFindsItsEntry, find
<1>8. EntriesOwned'
  BY <1>1, <1>2, <1>5 DEF Inv, Registered, EntriesOwned, c
<1>. QED
  BY <1>1, <1>7, <1>8 DEF Inv, Registered

(* No other step touches an entry.                                         *)
LEMMA OtherStepRegistered ==
  ASSUME Inv, UNCHANGED <<data, issued, owned>>
  PROVE  Registered'
BY DEF Inv, Registered, KeyFindsItsEntry, EntriesOwned, find

(* Nor does a remove that is called disturb those that are under way, nor  *)
(* the swap of one.                                                        *)
LEMMA NextReserved ==
  ASSUME SoleRemoves, Inv, [ClientsNext]_<<vars, clients>>
  PROVE  Reserved'
PROOF
<1>1. Reserved /\ \A k \in owned : k # Null /\ k \in Word
  BY TableAssumption DEF Inv, Registered
<1>2. ASSUME UNCHANGED removing, owned \subseteq owned' PROVE Reserved'
  BY <1>1, <1>2 DEF Reserved
<1>3. ASSUME NEW t \in Thread, StartRemove(t) PROVE Reserved'
  <2>1. PICK k \in owned \ {removing[u] : u \in Thread} :
          removing' = [removing EXCEPT ![t] = k]
    BY <1>3 DEF StartRemove
  <2>2. owned' = owned
    BY <1>3 DEF StartRemove
  <2>. QED
    BY <1>1, <2>1, <2>2 DEF Reserved
<1>4. ASSUME NEW t \in Thread, RemoveKey(t) PROVE Reserved'
  <2>1. owned' = owned \ {removing[t]} /\ removing[t] # Null
    BY <1>4, RemoveTakesItsEntry DEF Inv, RemoveKey
  <2>2. removing' = [removing EXCEPT ![t] = Null]
    BY <1>4 DEF RemoveKey
  <2>. QED
    BY <1>1, <2>1, <2>2 DEF Reserved
<1>5. ASSUME NEW t \in Thread, StartInsert(t) \/ ReturnKey(t) \/ Continue(t)
      PROVE  Reserved'
  BY <1>2, <1>5 DEF StartInsert, ReturnKey, Continue, clients
<1>6. CASE UNCHANGED <<vars, clients>>
  BY <1>2, <1>6 DEF clients
<1>. QED
  BY <1>3, <1>4, <1>5, <1>6 DEF ClientsNext

LEMMA ClientsNextInv ==
  ASSUME Key = Word, SoleRemoves, Inv, [ClientsNext]_<<vars, clients>>
  PROVE  Inv'
PROOF
<1>1. [Next]_vars
  BY ClientsStep DEF Inv
<1>2. TypeOK' /\ Ownership'
  BY <1>1, NextTypeOK, NextOwnership DEF Inv
<1>3. ASSUME UNCHANGED <<vars, clients>> PROVE Registered'
  BY <1>3, OtherStepRegistered DEF vars, clients
<1>4. ASSUME NEW t \in Thread, StartInsert(t) PROVE Registered'
  BY <1>4, OtherStepRegistered DEF StartInsert, ReserveSlot
<1>5. ASSUME NEW t \in Thread, Continue(t) PROVE Registered'
  BY <1>5, OtherStepRegistered
     DEF Continue, clients, UndoReserve, UndoRetry, FetchNextId, SwapSlot, InitPanics,
         FetchFreeId, StoreSlot, StoreSlotOccupied, StoreSlotSpurious, DecrEntries
<1>6. ASSUME NEW t \in Thread, StartRemove(t) PROVE Registered'
  BY <1>6, OtherStepRegistered DEF StartRemove, vars
<1>7. Registered'
  BY <1>3, <1>4, <1>5, <1>6, ReturnKeyRegistered, RemoveKeyRegistered DEF ClientsNext
<1>. QED
  BY <1>2, <1>7, NextReserved DEF Inv

LEMMA ClientsInv ==
  ASSUME Key = Word, SoleRemoves
  PROVE  ClientsSpec => []Inv
PROOF
<1>1. Inv /\ [ClientsNext]_<<vars, clients>> => Inv'
  BY ClientsNextInv
<1>. QED
  BY <1>1, ClientsInitInv, PTL DEF ClientsSpec

-----------------------------------------------------------------------------
(* The key of an entry nobody removed finds that entry: through every      *)
(* interleaving of other inserts and removes, at every capacity, and even  *)
(* after usize has run out of generations.                                 *)
THEOREM KeysFindTheirEntries ==
  ASSUME Key = Word, SoleRemoves
  PROVE  ClientsSpec => []KeyFindsItsEntry
PROOF
<1>1. Inv => KeyFindsItsEntry
  BY DEF Inv, Registered
<1>. QED
  BY <1>1, ClientsInv, PTL

LEMMA OwnedArePresent == Inv => LiveAreOwned
PROOF
<1>. SUFFICES ASSUME Inv PROVE LiveAreOwned
  OBVIOUS
<1>1. \A c \in Live : data[c] \in owned
  BY DEF Inv, Registered, EntriesOwned, Live
<1>2. \A k \in owned : /\ detached_to_concrete(k) \in Live
                       /\ data[detached_to_concrete(k)] = k
  BY Generations, TableAssumption
     DEF Inv, Registered, KeyFindsItsEntry, find, detached_to_concrete, Live
<1>. QED
  BY <1>1, <1>2 DEF LiveAreOwned

(* The table holds exactly the entries whose keys were handed out and not  *)
(* removed: nothing is lost, duplicated, or removed in place of another.   *)
THEOREM TableHoldsWhatCallersOwn ==
  ASSUME Key = Word, SoleRemoves
  PROVE  ClientsSpec => []LiveAreOwned
BY OwnedArePresent, ClientsInv, PTL

-----------------------------------------------------------------------------
(* How often the slot of an index, or of a key, had been recycled.         *)
Gen(w) == w \div LENGTH
Generation == 0..((USIZE \div LENGTH) - 1)

(* Every key of a slot was handed out: then they may come again.           *)
Spent(c) == KeysOf(c) \subseteq issued

(* An index with which the keys of its slot go on: those of the earlier    *)
(* generations, and no others, were handed out. The last key handed out    *)
(* for its slot.                                                           *)
Newer(a) ==
  /\ a # RESERVED
  /\ \/ Spent(Concrete(a))
     \/ \A k \in KeysOf(Concrete(a)) : k \in issued <=> Gen(k) < Gen(a)

Newest(k) ==
  \/ Spent(detached_to_concrete(k))
  \/ \A j \in KeysOf(detached_to_concrete(k)) : j \in issued <=> Gen(j) <= Gen(k)

Ages ==
  /\ \A p \in Offset : Free(p) => Newer(slot[p])
  /\ \A t \in Thread : Holds(t) => Newer(idx[t])
  /\ \A k \in owned : Newest(k)

FreshInv == CountInv /\ Registered /\ Reserved /\ Ages

-----------------------------------------------------------------------------
(* A key is of the generation of its index, and a word is given by its     *)
(* generation and its cell.                                                *)
LEMMA GenOfKey ==
  ASSUME NEW a \in Word
  PROVE  /\ Gen(a) \in Generation
         /\ Gen(abstract_to_detached(a)) = Gen(a)
PROOF
<1> DEFINE g == a \div LENGTH
           c == abstract_to_concrete(a)
<1>1. g \in Generation /\ g \in Nat /\ c \in Offset
  BY Generations, ConcreteInRange, Shape DEF Generation
<1>2. abstract_to_detached(a) = (g * LENGTH) + c
  BY Encode
<1>. HIDE DEF g, c
<1>3. ((g * LENGTH) + c) \div LENGTH = g
  BY <1>1, DivModUnique, IndexAssumption DEF Offset
<1>. QED
  BY <1>1, <1>2, <1>3 DEF Gen, g

LEMMA GenOfIndex ==
  ASSUME NEW d \in Word
  PROVE  Gen(detached_to_abstract(d)) = Gen(d)
PROOF
<1> DEFINE g == d \div LENGTH
           x == initial_slot(d % LENGTH)
<1>1. g \in Nat /\ x \in Offset
  BY Generations, InitialSlot, Shape
<1>2. detached_to_abstract(d) = (g * LENGTH) + x
  BY Decode
<1>. HIDE DEF g, x
<1>3. ((g * LENGTH) + x) \div LENGTH = g
  BY <1>1, DivModUnique, IndexAssumption DEF Offset
<1>. QED
  BY <1>2, <1>3 DEF Gen, g

LEMMA SameWord ==
  ASSUME NEW j \in Word, NEW k \in Word, Gen(j) = Gen(k),
         detached_to_concrete(j) = detached_to_concrete(k)
  PROVE  j = k
BY Generations DEF Gen, detached_to_concrete

(* Recycling an index gives the next generation, unless its own is the     *)
(* last one its slot has a key of.                                         *)
LEMMA NextGeneration ==
  ASSUME NEW a \in Word
  PROVE  \/ Gen(generate_next_slot(a)) = Gen(a) + 1
         \/ \A k \in KeysOf(Concrete(a)) : Gen(k) <= Gen(a)
PROOF
<1> DEFINE g == a \div LENGTH
           r == a % LENGTH
           m == USIZE \div LENGTH
           next == (a + LENGTH) % USIZE
<1>1. g \in Nat /\ r \in Offset /\ a = (g * LENGTH) + r /\ g <= m - 1 /\ m \in Nat
  BY Generations, Shape
<1>2. USIZE = m * LENGTH
  BY Shape
<1>3. LENGTH \in Nat \ {0} /\ r \in 0..(LENGTH - 1) /\ r \in Nat /\ USIZE \in Nat \ {0}
  BY <1>1, IndexAssumption DEF Offset
<1>4. a \in Nat /\ g = Gen(a)
  BY Generations DEF Gen
<1>5. \A k \in KeysOf(Concrete(a)) :
        /\ k \in Word /\ Gen(k) \in 0..(m - 1)
        /\ detached_to_concrete(k) = Concrete(a) /\ k # abstract_to_detached(RESERVED)
  BY GenOfKey DEF KeysOf, Keys, Generation
<1>. HIDE DEF g, r, m
<1>6. CASE g = m - 1
  <2>1. ASSUME NEW k \in KeysOf(Concrete(a)) PROVE Gen(k) <= Gen(a)
    <3>1. Gen(k) \in 0..(m - 1)
      BY <1>5
    <3>2. Gen(a) = m - 1 /\ m \in Nat
      BY <1>1, <1>4, <1>6
    <3>. QED
      BY <3>1, <3>2
  <2>. QED
    BY <2>1
<1>7. CASE g # m - 1
  <2>1. a + LENGTH = ((g + 1) * LENGTH) + r
    BY <1>1, <1>3
  <2>2. a + LENGTH \in Nat /\ a + LENGTH < USIZE
    <3>1. g + 1 \in 0..(m - 1) /\ m \in Nat \ {0}
      BY <1>1, <1>7
    <3>2. ((g + 1) * LENGTH) + r < m * LENGTH
      BY <1>3, <3>1, DigitsBound
    <3>. QED
      BY <1>2, <1>3, <1>4, <2>1, <3>2
  <2>3. next = a + LENGTH
    BY <1>3, <2>2
  <2>4. (a + LENGTH) \div LENGTH = g + 1
    <3>1. g + 1 \in Nat
      BY <1>1
    <3>2. (((g + 1) * LENGTH) + r) \div LENGTH = g + 1
      BY <1>3, <3>1, DivModUnique
    <3>. QED
      BY <2>1, <3>2
  <2>5. CASE next # RESERVED
    <3>1. generate_next_slot(a) = a + LENGTH
      BY <2>3, <2>5 DEF generate_next_slot
    <3>. QED
      BY <1>4, <2>4, <3>1 DEF Gen
  <2>6. CASE next = RESERVED
    <3>1. RESERVED \in Word /\ Gen(RESERVED) = g + 1
      <4>1. a + LENGTH = RESERVED
        BY <2>3, <2>6
      <4>2. Gen(RESERVED) = g + 1
        BY <2>4, <4>1 DEF Gen
      <4>. QED
        BY <4>2, IndexAssumption DEF RESERVED, Word
    <3>2. RESERVED = ((m - 1) * LENGTH) + (LENGTH - 1)
      BY <1>1, <1>2, <1>3 DEF RESERVED
    <3>3. m - 1 \in Nat /\ LENGTH - 1 \in 0..(LENGTH - 1)
      BY <1>1, <1>3
    <3>4. (((m - 1) * LENGTH) + (LENGTH - 1)) \div LENGTH = m - 1
      BY <1>3, <3>3, DivModUnique
    <3>5. g + 1 = m - 1
      BY <3>1, <3>2, <3>4 DEF Gen
    <3> DEFINE last == abstract_to_detached(RESERVED)
    <3>6. /\ last \in Word /\ Gen(last) = g + 1
          /\ detached_to_concrete(last) = Concrete(a)
      <4>1. abstract_to_concrete((1 * LENGTH) + a) = abstract_to_concrete(a)
        BY <1>4, ConcreteGeneration
      <4>2. (1 * LENGTH) + a = RESERVED
        BY <1>3, <1>4, <2>3, <2>6
      <4>. QED
        BY <3>1, <4>1, <4>2, GenOfKey, KeyOfIndex DEF Concrete
    <3>. HIDE DEF last
    <3>7. ASSUME NEW k \in KeysOf(Concrete(a)) PROVE Gen(k) <= g
      <4>1. k # last
        BY <1>5 DEF last
      <4>2. Gen(k) # g + 1
        BY <1>5, <3>6, <4>1, SameWord
      <4>. QED
        BY <1>1, <1>5, <3>5, <4>2
    <3>. QED
      BY <1>4, <3>7
  <2>. QED
    BY <2>5, <2>6
<1>. QED
  BY <1>6, <1>7

-----------------------------------------------------------------------------
LEMMA InitFresh == ClientsInit => FreshInv
PROOF
<1>. SUFFICES ASSUME ClientsInit PROVE FreshInv
  OBVIOUS
<1>1. CountInv /\ Registered /\ Reserved
  BY InitCount, ClientsInitInv DEF ClientsInit, Inv
<1>2. issued = {} /\ owned = {}
  BY DEF ClientsInit
<1>3. ASSUME NEW p \in Offset PROVE Newer(slot[p])
  <2>1. slot[p] \in 0..(LENGTH - 1) /\ slot[p] # RESERVED
    BY InitialSlot, IndexAssumption DEF ClientsInit, Init, Offset, RESERVED
  <2>2. ((0 * LENGTH) + slot[p]) \div LENGTH = 0
    BY <2>1, DivModUnique, IndexAssumption
  <2>3. (0 * LENGTH) + slot[p] = slot[p]
    BY <2>1, IndexAssumption
  <2>4. Gen(slot[p]) = 0
    BY <2>2, <2>3 DEF Gen
  <2>5. \A k \in Keys : ~(Gen(k) < 0)
    BY GenOfKey, Shape DEF Keys, Generation
  <2>. QED
    BY <1>2, <2>1, <2>4, <2>5 DEF Newer, KeysOf
<1>4. \A t \in Thread : ~Holds(t)
  BY DEF ClientsInit, Init, Holds, Releasing
<1>. QED
  BY <1>1, <1>2, <1>3, <1>4 DEF FreshInv, Ages

LEMMA FreshStutters ==
  ASSUME FreshInv, UNCHANGED <<vars, issued, owned>>
  PROVE  CountInv' /\ Registered' /\ Ages'
BY DEF FreshInv, CountInv, TypeOK, Shares, Ownership, FreeOnce, FreeEmpty, HeldOnce, HeldEmpty,
       HeldNotFree, LeakedApart, Covered, Recycled, Tally, Balance, Counted, Given,
       FreePositions, Free, Holds, Releasing, At, Live, cap, initial_entries, Registered,
       KeyFindsItsEntry, EntriesOwned, find, Ages, Newer, Newest, Spent, vars

(* No key is handed out, and indices move between ring and threads.        *)
LEMMA AgesKept ==
  ASSUME Ages, issued' = issued, owned' \subseteq owned,
         \A p \in Offset : Free(p)' => Newer(slot'[p]),
         \A t \in Thread : Holds(t)' => Newer(idx'[t])
  PROVE  Ages'
BY DEF Ages, Newer, Newest, Spent

LEMMA IndicesMove ==
  ASSUME TypeOK, Ages, NEW t \in Thread, StartInsert(t) \/ Continue(t)
  PROVE  /\ \A p \in Offset : Free(p)' => Newer(slot'[p])
         /\ \A u \in Thread : Holds(u)' => Newer(idx'[u])
PROOF
<1>1. CASE StartInsert(t) \/ UndoReserve(t) \/ UndoRetry(t) \/ FetchNextId(t)
           \/ InitPanics(t) \/ DecrEntries(t)
  <2>1. slot' = slot
    BY <1>1 DEF StartInsert, ReserveSlot, UndoReserve, UndoRetry, FetchNextId, InitPanics,
                DecrEntries, ring
  <2>2. PICK step, r : /\ step \in {"fetch_next", "undo", "idle", "swap_slot"}
                       /\ Goto(t, step, r, 0)
    BY <1>1 DEF StartInsert, ReserveSlot, UndoReserve, UndoRetry, FetchNextId, InitPanics,
                DecrEntries
  <2>3. \A u \in Thread : Holds(u)' => Holds(u) /\ idx'[u] = idx[u]
    BY <2>2, GotoEffect DEF Holds, Releasing
  <2>. QED
    BY <2>1, <2>3 DEF Ages, Free
<1>2. CASE FetchFreeId(t) \/ StoreSlotOccupied(t) \/ StoreSlotSpurious(t)
  <2>1. slot' = slot
    BY <1>2 DEF FetchFreeId, StoreSlotOccupied, StoreSlotSpurious, ring
  <2>2. Holds(t) /\ idx'[t] = idx[t]
    BY <1>2, GotoEffect
       DEF FetchFreeId, StoreSlotOccupied, StoreSlotSpurious, Holds, Releasing
  <2>3. \A u \in Thread \ {t} : Holds(u)' => Holds(u) /\ idx'[u] = idx[u]
    BY <1>2, GotoEffect
       DEF FetchFreeId, StoreSlotOccupied, StoreSlotSpurious, Holds, Releasing
  <2>. QED
    BY <2>1, <2>2, <2>3 DEF Ages, Free
<1>3. CASE SwapSlot(t)
  <2> DEFINE p == Concrete(reg[t])
  <2>1. p \in Offset
    BY ConcreteInRange, Counters DEF Concrete, TypeOK
  <2>2. slot' = [slot EXCEPT ![p] = RESERVED]
    BY <1>3 DEF SwapSlot
  <2>3. \A q \in Offset : slot'[q] # RESERVED => Free(q) /\ slot'[q] = slot[q]
    BY <2>1, <2>2 DEF Free, TypeOK
  <2>4. \A q \in Offset : Free(q)' => Newer(slot'[q])
    BY <2>3 DEF Ages, Free
  <2>5. CASE slot[p] = RESERVED
    <3>1. Goto(t, "fetch_next", 0, 0)
      BY <1>3, <2>5 DEF SwapSlot
    <3>2. \A u \in Thread : Holds(u)' => Holds(u) /\ idx'[u] = idx[u]
      BY <3>1, GotoEffect DEF Holds, Releasing
    <3>. QED
      BY <2>4, <3>2 DEF Ages
  <2>6. CASE slot[p] # RESERVED
    <3>1. Goto(t, "publish", 0, slot[p])
      BY <1>3, <2>6 DEF SwapSlot
    <3>2. \A u \in Thread \ {t} : Holds(u)' => Holds(u) /\ idx'[u] = idx[u]
      BY <3>1, GotoEffect DEF Holds, Releasing
    <3>3. Newer(slot[p]) /\ idx'[t] = slot[p]
      BY <2>1, <2>6, <3>1, GotoEffect DEF Ages, Free
    <3>4. Newer(idx'[t])
      BY <3>3
    <3>. QED
      BY <2>4, <3>2, <3>4 DEF Ages
  <2>. QED
    BY <2>5, <2>6
<1>4. CASE StoreSlot(t)
  <2> DEFINE p == Concrete(reg[t])
  <2>1. p \in Offset
    BY ConcreteInRange, Counters DEF Concrete, TypeOK
  <2>2. slot' = [slot EXCEPT ![p] = idx[t]] /\ Holds(t)
    BY <1>4 DEF StoreSlot, Holds, Releasing
  <2>3. Newer(idx[t])
    BY <2>2 DEF Ages
  <2>4. \A u \in Thread : Holds(u)' => Holds(u) /\ idx'[u] = idx[u]
    BY <1>4, GotoEffect DEF StoreSlot, Holds, Releasing
  <2>5. slot'[p] = idx[t] /\ \A q \in Offset \ {p} : slot'[q] = slot[q]
    BY <2>1, <2>2 DEF TypeOK
  <2>6. ASSUME NEW q \in Offset, Free(q)' PROVE Newer(slot'[q])
    <3>1. CASE q = p
      BY <2>3, <2>5, <3>1
    <3>2. CASE q # p
      BY <2>5, <2>6, <3>2 DEF Ages, Free
    <3>. QED
      BY <3>1, <3>2
  <2>. QED
    BY <2>4, <2>6 DEF Ages
<1>. QED
  BY <1>1, <1>2, <1>3, <1>4 DEF Continue

-----------------------------------------------------------------------------
(* An index leads to a key of its slot; while the slot has keys left, to a *)
(* fresh one.                                                              *)
LEMMA KeyToCome ==
  ASSUME NEW a \in Word, Newer(a)
  PROVE  /\ abstract_to_detached(a) \in KeysOf(Concrete(a))
         /\ Gen(abstract_to_detached(a)) = Gen(a) /\ Gen(a) \in Nat
         /\ ~Spent(Concrete(a)) => abstract_to_detached(a) \notin issued
PROOF
<1> DEFINE key == abstract_to_detached(a)
<1>1. RESERVED \in Word
  BY IndexAssumption DEF RESERVED, Word
<1>2. key # abstract_to_detached(RESERVED)
  BY <1>1, KeysAndIndices DEF Newer
<1>3. key \in Word /\ detached_to_concrete(key) = Concrete(a)
  BY KeyOfIndex DEF Concrete
<1>4. Gen(key) = Gen(a) /\ Gen(a) \in Nat
  BY GenOfKey, Shape DEF Generation
<1>. HIDE DEF key
<1>5. key \in KeysOf(Concrete(a))
  BY <1>2, <1>3 DEF KeysOf, Keys
<1>6. ~Spent(Concrete(a)) => key \notin issued
  BY <1>4, <1>5 DEF Newer
<1>. QED
  BY <1>4, <1>5, <1>6 DEF key

LEMMA FreshWhenReturned ==
  ASSUME FreshInv, NEW t \in Thread, pc[t] = "publish"
  PROVE  /\ idx[t] \in Word /\ Newer(idx[t])
         /\ abstract_to_detached(idx[t]) \in KeysOf(Concrete(idx[t]))
         /\ \/ abstract_to_detached(idx[t]) \notin issued
            \/ KeysOf(Concrete(idx[t])) \subseteq issued
PROOF
<1>1. idx[t] \in Word /\ Newer(idx[t])
  BY DEF FreshInv, CountInv, TypeOK, Ages, Holds
<1>. QED
  BY <1>1, KeyToCome DEF Spent

(* The key handed out is the newest of its slot, and other slots' indices  *)
(* and keys are not concerned.                                             *)
LEMMA ReturnKeyFresh ==
  ASSUME FreshInv, NEW t \in Thread, ReturnKey(t)
  PROVE  Ages'
PROOF
<1> DEFINE key == abstract_to_detached(idx[t])
           c == Concrete(idx[t])
           g == Gen(idx[t])
<1>1. /\ pc[t] = "publish" /\ Holds(t) /\ data[c] = Null
      /\ issued' = issued \cup {key} /\ owned' = owned \cup {key}
      /\ Goto(t, "idle", 0, 0) /\ slot' = slot
  BY DEF ReturnKey, Publish, Holds, ring, FreshInv, CountInv, Shares, Ownership, HeldEmpty
<1>2. /\ idx[t] \in Word /\ Newer(idx[t]) /\ key \in KeysOf(c)
      /\ Gen(key) = g /\ g \in Nat
  BY <1>1, FreshWhenReturned, KeyToCome
<1>3. detached_to_concrete(key) = c /\ key \in Word
  BY <1>2 DEF KeysOf, Keys
<1>4. Spent(c) \/ \A k \in KeysOf(c) : k \in issued <=> Gen(k) < g
  BY <1>2 DEF Newer
<1>5. \A p \in Offset : Free(p) => Newer(slot[p]) /\ Concrete(slot[p]) # c
  BY <1>1 DEF FreshInv, Ages, CountInv, Shares, Ownership, HeldNotFree
<1>6. \A u \in Thread \ {t} : Holds(u) => Newer(idx[u]) /\ Concrete(idx[u]) # c
  BY <1>1 DEF FreshInv, Ages, CountInv, Shares, Ownership, HeldOnce
<1>7. ASSUME NEW k \in owned PROVE Newest(k) /\ detached_to_concrete(k) # c
  <2>1. data[detached_to_concrete(k)] = k /\ k \in Word
    BY DEF FreshInv, Registered, KeyFindsItsEntry, find
  <2>. QED
    BY <1>1, <2>1, TableAssumption DEF FreshInv, Ages
<1>. HIDE DEF key, c, g
<1>8. /\ \A d : Spent(d) => Spent(d)'
      /\ \A d : d # c => \A k \in KeysOf(d) : k \in issued' <=> k \in issued
  BY <1>1, <1>3 DEF Spent, KeysOf
<1>9. ASSUME NEW p \in Offset, Free(p)' PROVE Newer(slot[p])'
  <2>1. Newer(slot[p]) /\ Concrete(slot[p]) # c /\ slot'[p] = slot[p]
    BY <1>1, <1>5, <1>9 DEF Free
  <2>. QED
    BY <1>8, <2>1 DEF Newer
<1>10. ASSUME NEW u \in Thread, Holds(u)' PROVE Newer(idx[u])'
  <2>1. u # t /\ Holds(u) /\ idx'[u] = idx[u]
    BY <1>1, <1>10, GotoEffect DEF Holds, Releasing, FreshInv, CountInv
  <2>2. Newer(idx[u]) /\ Concrete(idx[u]) # c
    BY <1>6, <2>1
  <2>. QED
    BY <1>8, <2>1, <2>2 DEF Newer
<1>11. ASSUME NEW k \in owned' PROVE Newest(k)'
  <2>1. CASE k = key
    <3>1. CASE Spent(c)
      BY <1>3, <1>8, <2>1, <3>1 DEF Newest
    <3>2. CASE \A j \in KeysOf(c) : j \in issued <=> Gen(j) < g
      <4>1. ASSUME NEW j \in KeysOf(c) PROVE j \in issued' <=> Gen(j) <= g
        <5>1. /\ j \in Word /\ detached_to_concrete(j) = c
              /\ Gen(j) = g => j = key
          BY <1>2, <1>3, SameWord DEF KeysOf, Keys
        <5>2. Gen(j) \in Nat
          BY <5>1, GenOfKey, Shape DEF Generation
        <5>. QED
          BY <1>1, <1>2, <3>2, <5>1, <5>2
      <4>. QED
        BY <1>2, <1>3, <2>1, <4>1 DEF Newest
    <3>. QED
      BY <1>4, <3>1, <3>2
  <2>2. CASE k # key
    <3>1. k \in owned
      BY <1>1, <1>11, <2>2
    <3>2. Newest(k) /\ detached_to_concrete(k) # c
      BY <1>7, <3>1
    <3>. QED
      BY <1>8, <3>2 DEF Newest
  <2>. QED
    BY <2>1, <2>2
<1>. QED
  BY <1>9, <1>10, <1>11 DEF Ages

(* Removing an entry recycles the newest index of its slot: the slot goes  *)
(* on with the next generation, or its keys are used up.                   *)
LEMMA RemoveKeyFresh ==
  ASSUME FreshInv, NEW t \in Thread, RemoveKey(t)
  PROVE  Ages'
PROOF
<1>1. PICK k \in owned : Evict(t, k) /\ owned' = owned \ {k} /\ issued' = issued
  BY RemoveTakesItsEntry DEF FreshInv
<1> DEFINE c == detached_to_concrete(k)
           b == detached_to_abstract(k)
           a == generate_next_slot(b)
<1>2. Ages /\ TypeOK /\ k \in Word
  BY DEF FreshInv, CountInv, Registered
<1>3. slot' = slot /\ Goto(t, "fetch_free", 0, a)
  BY <1>1 DEF Evict, ring
<1>4. b \in Word /\ Gen(b) = Gen(k) /\ Concrete(b) = c
  BY <1>2, IndexOfKey, GenOfIndex DEF Concrete
<1>. HIDE DEF b
<1>5. Concrete(a) = c /\ a # RESERVED
  BY <1>4, NextSlot DEF Concrete
<1>6. Gen(a) = Gen(k) + 1 \/ \A j \in KeysOf(c) : Gen(j) <= Gen(k)
  BY <1>4, NextGeneration
<1>7. Gen(k) \in Nat /\ \A j \in KeysOf(c) : Gen(j) \in Nat
  BY <1>2, GenOfKey, Shape DEF Generation, KeysOf, Keys
<1>8. Newest(k)
  BY <1>1, <1>2 DEF Ages
<1>. HIDE DEF a, c
<1>9. Newer(a)
  <2>1. CASE Spent(c)
    BY <1>5, <2>1 DEF Newer
  <2>2. CASE \A j \in KeysOf(c) : j \in issued <=> Gen(j) <= Gen(k)
    <3>1. CASE Gen(a) = Gen(k) + 1
      BY <1>5, <1>7, <2>2, <3>1 DEF Newer
    <3>2. CASE \A j \in KeysOf(c) : Gen(j) <= Gen(k)
      BY <1>5, <2>2, <3>2 DEF Newer, Spent
    <3>. QED
      BY <1>6, <3>1, <3>2
  <2>. QED
    BY <1>8, <2>1, <2>2 DEF Newest, c
<1>10. idx'[t] = a /\ \A u \in Thread \ {t} : Holds(u)' => Holds(u) /\ idx'[u] = idx[u]
  BY <1>2, <1>3, GotoEffect DEF Holds, Releasing
<1>11. Newer(idx'[t])
  BY <1>9, <1>10
<1>12. /\ \A p \in Offset : Free(p)' => Newer(slot'[p])
       /\ \A u \in Thread : Holds(u)' => Newer(idx'[u])
  BY <1>2, <1>3, <1>10, <1>11 DEF Ages, Free
<1>13. owned' \subseteq owned
  BY <1>1
<1>. QED
  BY <1>1, <1>2, <1>12, <1>13, AgesKept

LEMMA NextFresh ==
  ASSUME Key = Word, SoleRemoves, FreshInv, [ClientsNext]_<<vars, clients>>
  PROVE  FreshInv'
PROOF
<1>1. [Next]_vars
  BY ClientsStep DEF FreshInv
<1>2. CountInv'
  BY <1>1, NextCount DEF FreshInv
<1>3. Registered' /\ Reserved'
  BY ClientsNextInv DEF FreshInv, Inv, CountInv, Shares
<1>4. ASSUME NEW t \in Thread, StartInsert(t) \/ Continue(t) PROVE Ages'
  <2>1. issued' = issued /\ owned' = owned /\ Ages
    BY <1>4 DEF StartInsert, Continue, clients, FreshInv
  <2>2. /\ \A p \in Offset : Free(p)' => Newer(slot'[p])
        /\ \A u \in Thread : Holds(u)' => Newer(idx'[u])
    BY <1>4, IndicesMove DEF FreshInv, CountInv
  <2>. QED
    BY <2>1, <2>2, AgesKept
<1>5. ASSUME UNCHANGED <<vars, issued, owned>> PROVE Ages'
  BY <1>5, FreshStutters
<1>6. ASSUME NEW t \in Thread, StartRemove(t) PROVE Ages'
  BY <1>5, <1>6 DEF StartRemove
<1>7. ASSUME UNCHANGED <<vars, clients>> PROVE Ages'
  BY <1>5, <1>7 DEF clients
<1>8. Ages'
  BY <1>4, <1>6, <1>7, ReturnKeyFresh, RemoveKeyFresh DEF ClientsNext
<1>. QED
  BY <1>2, <1>3, <1>8 DEF FreshInv

LEMMA FreshInvariant ==
  ASSUME Key = Word, SoleRemoves
  PROVE  ClientsSpec => []FreshInv
PROOF
<1>1. FreshInv /\ [ClientsNext]_<<vars, clients>> => FreshInv'
  BY NextFresh
<1>. QED
  BY <1>1, InitFresh, PTL DEF ClientsSpec

(* No key is handed out twice while its slot has a key left that was not   *)
(* handed out, as long as each entry is removed by one call: through every *)
(* interleaving, any number of inserts, and the wrap of usize.             *)
THEOREM KeysAreFresh ==
  ASSUME Key = Word, SoleRemoves
  PROVE  ClientsSpec => []KeysFresh
PROOF
<1>1. FreshInv => KeysFresh
  BY FreshWhenReturned DEF KeysFresh, KeysOf
<1>. QED
  BY <1>1, FreshInvariant, PTL

-----------------------------------------------------------------------------
LEMMA MapCardinality == \A S : PTab!Cardinality(S) = Cardinality(S)
BY DEF PTab!Cardinality, Cardinality

(* The map has room whenever a thread is about to publish.                 *)
LEMMA PublisherHasRoom ==
  ASSUME FreshInv, LiveAreOwned, NEW t \in Thread, pc[t] = "publish"
  PROVE  PTab!HasRoom
PROOF
<1>1. Cardinality(At(Permitted)) >= 1
  BY Whereabouts DEF Permitted
<1>2. Cardinality(Live) + Cardinality(leaked) < cap
  BY <1>1, Numbers DEF FreshInv, CountInv, Tally, Given
<1>3. Cardinality(owned) <= Cardinality(Live) /\ Cardinality(owned) \in Nat
  <2> DEFINE f == [c \in Live |-> data[c]]
  <2>1. f \in Surjection(Live, owned)
    BY DEF LiveAreOwned, Surjection
  <2>. HIDE DEF f
  <2>2. IsFiniteSet(Live)
    BY CellsFinite DEF FreshInv, CountInv
  <2>3. IsFiniteSet(owned) /\ Cardinality(owned) <= Cardinality(Live)
    BY <2>1, <2>2, FS_Surjection
  <2>. QED
    BY <2>3, FS_CardinalityType
<1>4. Cardinality(owned) + Cardinality(leaked) < cap
  BY <1>2, <1>3, Numbers DEF FreshInv, CountInv
<1>. QED
  BY <1>4, MapCardinality DEF PTab!HasRoom, LiveAreOwned

LEMMA InitMap == ClientsInit => PTab!Init
PROOF
<1>. SUFFICES ASSUME ClientsInit PROVE PTab!Init
  OBVIOUS
<1>1. issued = {} /\ {data[c] : c \in Live} = {} /\ leaked = {}
  BY DEF ClientsInit, Init, Live
<1>2. Cardinality(leaked) = 0
  BY <1>1, FS_EmptySet
<1>. QED
  BY <1>1, <1>2 DEF PTab!Init

(* Inserts, removes and panics are steps of the map, and all the rest of   *)
(* what the table does leaves it as it is.                                 *)
LEMMA NextMap ==
  ASSUME FreshInv, LiveAreOwned, LiveAreOwned',
         [ClientsNext]_<<vars, clients>>
  PROVE  PTab!Next \/ UNCHANGED PTab!vars
PROOF
<1> DEFINE present == {data[c] : c \in Live}
<1>1. present = owned /\ present' = owned'
  BY DEF LiveAreOwned
<1>. HIDE DEF present
<1>2. ASSUME NEW t \in Thread, ReturnKey(t) PROVE PTab!Next
  <2> DEFINE key == abstract_to_detached(idx[t])
  <2>1. pc[t] = "publish" /\ leaked' = leaked
    BY <1>2 DEF ReturnKey, Publish
  <2>2. issued' = issued \cup {key} /\ owned' = owned \cup {key}
    BY <1>2 DEF ReturnKey
  <2>3. key \in Keys \ present /\ PTab!Fresh(key)
    <3>1. data[Concrete(idx[t])] = Null
      BY <2>1 DEF FreshInv, CountInv, Shares, Ownership, HeldEmpty, Holds
    <3>2. /\ key \in KeysOf(Concrete(idx[t]))
          /\ key \notin issued \/ KeysOf(Concrete(idx[t])) \subseteq issued
      BY <2>1, FreshWhenReturned
    <3>. HIDE DEF key
    <3>3. key \in Keys /\ detached_to_concrete(key) = Concrete(idx[t])
      BY <3>2 DEF KeysOf
    <3>4. key \notin owned
      BY <3>1, <3>3, TableAssumption
         DEF FreshInv, Registered, KeyFindsItsEntry, find, Keys
    <3>. QED
      BY <1>1, <3>2, <3>3, <3>4 DEF PTab!Fresh, KeysOf
  <2>. HIDE DEF key
  <2>4. PTab!HasRoom
    BY <2>1, PublisherHasRoom
  <2>5. PTab!Insert
    BY <1>1, <2>1, <2>2, <2>3, <2>4 DEF PTab!Insert, present
  <2>. QED
    BY <2>5 DEF PTab!Next
<1>3. ASSUME NEW t \in Thread, RemoveKey(t) PROVE PTab!Next
  <2>1. PICK k \in owned : /\ Evict(t, k)
                           /\ owned' = owned \ {k} /\ issued' = issued
    BY <1>3, RemoveTakesItsEntry DEF FreshInv
  <2>2. leaked' = leaked
    BY <2>1 DEF Evict
  <2>3. PTab!Remove
    BY <1>1, <2>1, <2>2 DEF PTab!Remove, present
  <2>. QED
    BY <2>3 DEF PTab!Next
<1>4. ASSUME NEW t \in Thread, InitPanics(t), UNCHANGED clients PROVE PTab!Next
  <2> DEFINE c == Concrete(idx[t])
  <2>1. /\ pc[t] = "publish" /\ UNCHANGED <<issued, owned>>
        /\ leaked' = leaked \cup {c}
    BY <1>4 DEF InitPanics, clients
  <2>2. c \notin leaked
    BY <2>1 DEF FreshInv, CountInv, Shares, LeakedApart, Holds
  <2>. HIDE DEF c
  <2>3. Cardinality(leaked') = Cardinality(leaked) + 1
    BY <2>1, <2>2, CellsFinite, Grow DEF FreshInv, CountInv
  <2>4. PTab!HasRoom
    BY <2>1, PublisherHasRoom
  <2>5. PTab!Lose
    BY <1>1, <2>1, <2>3, <2>4 DEF PTab!Lose, present
  <2>. QED
    BY <2>5 DEF PTab!Next
<1>5. ASSUME UNCHANGED <<issued, owned, leaked>> PROVE UNCHANGED PTab!vars
  BY <1>1, <1>5 DEF PTab!vars, present
<1>6. ASSUME NEW t \in Thread, StartInsert(t) PROVE UNCHANGED PTab!vars
  BY <1>5, <1>6 DEF StartInsert, ReserveSlot
<1>7. ASSUME NEW t \in Thread, Continue(t), ~InitPanics(t) PROVE UNCHANGED PTab!vars
  <2>1. UNCHANGED <<issued, owned, leaked>>
    BY <1>7 DEF Continue, clients, UndoReserve, UndoRetry, FetchNextId, SwapSlot, FetchFreeId,
           StoreSlot, StoreSlotOccupied, StoreSlotSpurious, DecrEntries
  <2>. QED
    BY <1>5, <2>1
<1>8. ASSUME NEW t \in Thread, Continue(t) PROVE PTab!Next \/ UNCHANGED PTab!vars
  BY <1>4, <1>7, <1>8 DEF Continue
<1>9. ASSUME UNCHANGED <<vars, clients>> PROVE UNCHANGED PTab!vars
  BY <1>5, <1>9 DEF vars, clients
<1>10. ASSUME NEW t \in Thread, StartRemove(t) PROVE UNCHANGED PTab!vars
  BY <1>5, <1>10 DEF StartRemove, vars
<1>. QED
  BY <1>2, <1>3, <1>6, <1>8, <1>9, <1>10 DEF ClientsNext

(* Callers that remove each entry by one call see the map of PTabSpec:     *)
(* fresh keys as long as a slot has any, removes of exactly what was asked *)
(* for, never more entries than the capacity, each operation one step.     *)
THEOREM ClientsSeeAMap ==
  ASSUME Key = Word, SoleRemoves
  PROVE  ClientsSpec => ImplementsPTab
PROOF
<1>1. FreshInv => LiveAreOwned
  BY OwnedArePresent DEF FreshInv, CountInv, Shares, Inv
<1>2. FreshInv /\ LiveAreOwned /\ LiveAreOwned' /\ [ClientsNext]_<<vars, clients>>
        => [PTab!Next]_(PTab!vars)
  BY NextMap
<1>. QED
  BY InitMap, <1>1, <1>2, FreshInvariant, PTL
     DEF ClientsSpec, ImplementsPTab, PTab!Spec
=============================================================================
