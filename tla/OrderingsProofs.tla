-------------------------- MODULE OrderingsProofs --------------------------
(***************************************************************************)
(* Theorems about the memory orderings (Orderings.tla), for every capacity *)
(* and any number of threads and operations.                               *)
(***************************************************************************)
EXTENDS Orderings, TableProofs

(* The writes that are followed.                                           *)
Event == {Value(n) : n \in Nat} \cup {Freed(n) : n \in Nat}

Entry == [cell : Offset, value : {Value(n) : n \in Nat}, view : SUBSET Event]

OrderingsType ==
  /\ seen \in [Thread -> SUBSET Event]
  /\ entries_view \in SUBSET Event
  /\ data_view \in [Offset -> SUBSET Event]
  /\ published \subseteq Entry /\ IsFiniteSet(published)
  /\ got \in [Thread -> SUBSET Event]
  /\ granted \in Nat /\ freed \in Nat

(* Entries are numbered in the order they were published, and one of each  *)
(* cell that had any is the newest.                                        *)
Numbered ==
  /\ \A m \in published : m.value[2] < Cardinality(published)
  /\ \A m \in published :
       \E l \in published : /\ l.cell = m.cell
                            /\ \A o \in published : o.cell = m.cell => o.value[2] <= l.value[2]
  /\ \A c \in Offset : data[c] # Null => \E m \in published : m.cell = c

(* What publishing released is the initialisation at least, and the swaps  *)
(* of a cell carry it on.                                                  *)
Carried ==
  \A m \in published : m.value \in m.view /\ m.view \subseteq data_view[m.cell]

VisibleInv == OrderingsType /\ Numbered /\ Carried /\ InitVisible

-----------------------------------------------------------------------------
LEMMA Orders ==
  /\ \A view : /\ Acquired(incr_entries, view) = view
               /\ Acquired(evict_order, view) = view
               /\ Acquired(load_order, view) = view
               /\ Acquired(decr_entries, view) = {}
               /\ Acquired(swap_entries, view) = {}
               /\ Acquired(write_order, view) = {}
  /\ \A known : /\ Released(incr_entries, known) = {}
                /\ Released(decr_entries, known) = known
                /\ Released(swap_entries, known) = known
                /\ Released(write_order, known) = known
                /\ Released(evict_order, known) = known
BY DEF Acquired, Released, incr_entries, decr_entries, swap_entries, write_order,
       evict_order, load_order

LEMMA Events == \A n \in Nat : Value(n) \in Event /\ Freed(n) \in Event
BY DEF Event

LEMMA InitVisibleInv == OrderingsInit => VisibleInv
PROOF
<1>. SUFFICES ASSUME OrderingsInit PROVE VisibleInv
  OBVIOUS
<1>1. OrderingsType
  BY FS_EmptySet DEF OrderingsInit, OrderingsType
<1>2. Numbered /\ Carried /\ InitVisible
  BY DEF OrderingsInit, Init, Numbered, Carried, InitVisible
<1>. QED
  BY <1>1, <1>2 DEF VisibleInv

(* Steps that publish nothing and let nobody get an entry.                 *)
LEMMA ViewsGrow ==
  ASSUME VisibleInv, OrderingsType', UNCHANGED <<published, got>>,
         \A c \in Offset : data[c] = Null => data'[c] = Null,
         \A c \in Offset : data_view[c] \subseteq data_view'[c],
         \A t \in Thread : seen[t] \subseteq seen'[t]
  PROVE  VisibleInv'
PROOF
<1>1. Numbered'
  BY DEF VisibleInv, Numbered
<1>2. Carried'
  BY DEF VisibleInv, Carried, OrderingsType, Entry
<1>3. InitVisible'
  BY DEF VisibleInv, InitVisible
<1>. QED
  BY <1>1, <1>2, <1>3 DEF VisibleInv

LEMMA ReserveVisible ==
  ASSUME VisibleInv, NEW t \in Thread, Reserve(t) \/ Undo(t) \/ PutBack(t) \/ GiveBack(t)
  PROVE  VisibleInv'
PROOF
<1>1. UNCHANGED <<data, data_view, published, got>>
  BY DEF Reserve, Undo, PutBack, GiveBack, ReserveSlot, UndoReserve, StoreSlot, DecrEntries
<1>2. granted' \in Nat /\ freed' \in Nat
  BY DEF Reserve, Undo, PutBack, GiveBack, VisibleInv, OrderingsType
<1>3. PICK more \in SUBSET Event : seen' = [seen EXCEPT ![t] = @ \cup more]
  BY Orders, Events DEF Reserve, Undo, PutBack, GiveBack, VisibleInv, OrderingsType
<1>4. entries_view' \in SUBSET Event
  BY Orders DEF Reserve, Undo, PutBack, GiveBack, VisibleInv, OrderingsType
<1>5. OrderingsType' /\ \A u \in Thread : seen[u] \subseteq seen'[u]
  BY <1>1, <1>2, <1>3, <1>4 DEF VisibleInv, OrderingsType
<1>. QED
  BY <1>1, <1>5, ViewsGrow

LEMMA UnorderedVisible ==
  ASSUME VisibleInv, NEW t \in Thread, Unordered(t)
  PROVE  VisibleInv'
PROOF
<1>1. UNCHANGED orderings /\ UNCHANGED data
  BY DEF Unordered, UndoRetry, FetchNextId, SwapSlot, InitPanics, FetchFreeId,
         StoreSlotOccupied, StoreSlotSpurious
<1>. QED
  BY <1>1, ViewsGrow DEF orderings, VisibleInv, OrderingsType

(* A plain load may find an old entry, but never one without its view.     *)
LEMMA LookupVisible ==
  ASSUME VisibleInv, NEW t \in Thread, Lookup(t)
  PROVE  VisibleInv'
PROOF
<1>0. PICK m \in published :
        /\ got' = [got EXCEPT ![t] = {m.value}]
        /\ seen' = [seen EXCEPT ![t] = @ \cup Acquired(load_order, m.view)]
  BY DEF Lookup
<1>1. Acquired(load_order, m.view) = m.view
  BY Orders
<1>2. UNCHANGED <<data, data_view, published, entries_view, granted, freed>>
  BY DEF Lookup, vars
<1>3. m.value \in Event /\ m.view \in SUBSET Event /\ m.value \in m.view
  BY DEF VisibleInv, OrderingsType, Entry, Event, Carried
<1>4. OrderingsType'
  BY <1>0, <1>1, <1>2, <1>3 DEF VisibleInv, OrderingsType
<1>5. Numbered' /\ Carried'
  BY <1>2 DEF VisibleInv, Numbered, Carried
<1>6. InitVisible'
  BY <1>0, <1>1, <1>3 DEF VisibleInv, OrderingsType, InitVisible
<1>. QED
  BY <1>4, <1>5, <1>6 DEF VisibleInv

(* evict finds the newest entry of the cell, whose view the cell carries.  *)
LEMMA TakeVisible ==
  ASSUME TypeOK, VisibleInv, NEW t \in Thread, NEW k \in Key, Take(t, k)
  PROVE  VisibleInv'
PROOF
<1> DEFINE c == detached_to_concrete(k)
           Last(m) == /\ m.cell = c
                      /\ \A o \in published : o.cell = c => o.value[2] <= m.value[2]
           last == CHOOSE m \in published : Last(m)
<1>1. c \in Offset
  BY TableAssumption, Generations DEF detached_to_concrete
<1>2. /\ data[c] # Null /\ data' = [data EXCEPT ![c] = Null]
      /\ got' = [got EXCEPT ![t] = {last.value}]
      /\ seen' = [seen EXCEPT ![t] = @ \cup data_view[c]]
      /\ data_view' = [data_view EXCEPT ![c] = @ \cup seen[t]]
      /\ UNCHANGED <<published, entries_view, granted, freed>>
  BY Orders DEF Take, Evict, find
<1>3. \E m \in published : Last(m)
  BY <1>1, <1>2 DEF VisibleInv, Numbered
<1>4. last \in published /\ last.cell = c
  BY <1>3
<1>. HIDE DEF c, last
<1>5. last.value \in Event /\ last.value \in data_view[c]
  BY <1>4 DEF VisibleInv, OrderingsType, Entry, Event, Carried
<1>6. OrderingsType'
  BY <1>1, <1>2, <1>5 DEF VisibleInv, OrderingsType
<1>7. Numbered'
  BY <1>1, <1>2 DEF VisibleInv, Numbered, TypeOK
<1>8. Carried'
  <2>1. \A d \in Offset : data_view[d] \subseteq data_view'[d]
    BY <1>1, <1>2 DEF VisibleInv, OrderingsType
  <2>. QED
    BY <1>2, <2>1 DEF VisibleInv, OrderingsType, Entry, Carried
<1>9. InitVisible'
  BY <1>2, <1>5 DEF VisibleInv, OrderingsType, InitVisible
<1>. QED
  BY <1>6, <1>7, <1>8, <1>9 DEF VisibleInv

(* Publishing releases the initialisation just made.                       *)
LEMMA WriteVisible ==
  ASSUME TypeOK, VisibleInv, NEW t \in Thread, Write(t)
  PROVE  VisibleInv'
PROOF
<1> DEFINE c == Concrete(idx[t])
           n == Cardinality(published)
           view == data_view[c] \cup (seen[t] \cup {Value(n)})
           new == [cell |-> c, value |-> Value(n), view |-> view]
<1>1. c \in Offset
  BY ConcreteInRange, IndexAssumption DEF TypeOK, Word, Concrete
<1>2. n \in Nat /\ Value(n) \in Event
  BY FS_CardinalityType, Events DEF VisibleInv, OrderingsType
<1>3. /\ data' = [data EXCEPT ![c] = abstract_to_detached(idx[t])]
      /\ seen' = [seen EXCEPT ![t] = @ \cup {Value(n)}]
      /\ data_view' = [data_view EXCEPT ![c] = view]
      /\ published' = published \cup {new}
      /\ UNCHANGED <<entries_view, got, granted, freed>>
  <2>1. Acquired(write_order, data_view[c]) = {}
    BY Orders
  <2>2. Released(write_order, seen[t] \cup {Value(n)}) = seen[t] \cup {Value(n)}
    BY Orders
  <2>. QED
    BY <2>1, <2>2 DEF Write, Publish, VisibleInv, OrderingsType
<1>4. view \in SUBSET Event /\ data_view[c] \subseteq view /\ Value(n) \in view
  BY <1>1, <1>2 DEF VisibleInv, OrderingsType
<1>5. Value(n)[2] = n
  BY DEF Value
<1>6. /\ new \in Entry /\ new.cell = c /\ new.value = Value(n) /\ new.view = view
      /\ new.value[2] = n
  BY <1>1, <1>2, <1>4, <1>5 DEF Entry
<1>. HIDE DEF c, n, view, new
<1>7. /\ \A m \in published : /\ m \in Entry /\ m.cell \in Offset
                              /\ m.value[2] \in Nat /\ m.value[2] < n
  BY DEF VisibleInv, OrderingsType, Numbered, Entry, Value, n
<1>8. new \notin published
  BY <1>2, <1>6, <1>7
<1>9. IsFiniteSet(published') /\ Cardinality(published') = n + 1
  BY <1>3, <1>8, Grow DEF VisibleInv, OrderingsType, n
<1>10. OrderingsType'
  BY <1>1, <1>2, <1>3, <1>4, <1>6, <1>9 DEF VisibleInv, OrderingsType
<1>11. Numbered'
  <2>1. \A m \in published' : m.value[2] < Cardinality(published')
    BY <1>2, <1>3, <1>6, <1>7, <1>9
  <2>2. ASSUME NEW m \in published'
        PROVE  \E l \in published' :
                 /\ l.cell = m.cell
                 /\ \A o \in published' : o.cell = m.cell => o.value[2] <= l.value[2]
    <3>1. CASE m.cell = c
      <4>1. \A o \in published' : o.value[2] <= n
        BY <1>2, <1>3, <1>6, <1>7
      <4>. QED
        BY <1>3, <1>6, <3>1, <4>1
    <3>2. CASE m.cell # c
      <4>1. m \in published
        BY <1>3, <1>6, <3>2
      <4>2. PICK l \in published :
              /\ l.cell = m.cell
              /\ \A o \in published : o.cell = m.cell => o.value[2] <= l.value[2]
        BY <4>1 DEF VisibleInv, Numbered
      <4>. QED
        BY <1>3, <1>6, <3>2, <4>2
    <3>. QED
      BY <3>1, <3>2
  <2>3. \A d \in Offset : data'[d] # Null => \E m \in published' : m.cell = d
    BY <1>1, <1>3, <1>6 DEF VisibleInv, Numbered, TypeOK
  <2>. QED
    BY <2>1, <2>2, <2>3 DEF Numbered
<1>12. Carried'
  <2>1. data_view'[c] = view /\ \A d \in Offset : data_view[d] \subseteq data_view'[d]
    BY <1>1, <1>3, <1>4 DEF VisibleInv, OrderingsType
  <2>. QED
    BY <1>3, <1>4, <1>6, <1>7, <2>1 DEF VisibleInv, Carried
<1>13. InitVisible'
  BY <1>3 DEF VisibleInv, OrderingsType, InitVisible
<1>. QED
  BY <1>10, <1>11, <1>12, <1>13 DEF VisibleInv

-----------------------------------------------------------------------------
(* Every step is one of the table's, but for lookups, which change nothing.*)
LEMMA OrderingsStep == [OrderingsNext]_<<vars, orderings>> => [Next]_vars
PROOF
<1>. SUFFICES ASSUME OrderingsNext PROVE Next \/ UNCHANGED vars
  BY DEF vars
<1>1. PICK t \in Thread :
        \/ Reserve(t) \/ Undo(t) \/ Write(t) \/ Lookup(t)
        \/ \E k \in Key : Take(t, k)
        \/ PutBack(t) \/ GiveBack(t) \/ Unordered(t)
  BY DEF OrderingsNext
<1>. QED
  BY <1>1 DEF Reserve, Undo, Write, Lookup, Take, PutBack, GiveBack, Unordered,
              Next, Insert, Remove

LEMMA OrderingsCount == OrderingsSpec => []CountInv
PROOF
<1>1. CountInv /\ [OrderingsNext]_<<vars, orderings>> => CountInv'
  BY OrderingsStep, NextCount
<1>2. OrderingsInit => CountInv
  BY InitCount DEF OrderingsInit
<1>. QED
  BY <1>1, <1>2, PTL DEF OrderingsSpec

LEMMA VisibleInvariant == OrderingsSpec => []VisibleInv
PROOF
<1>1. TypeOK /\ VisibleInv /\ [OrderingsNext]_<<vars, orderings>> => VisibleInv'
  <2>. SUFFICES ASSUME TypeOK, VisibleInv, [OrderingsNext]_<<vars, orderings>>
                PROVE  VisibleInv'
    OBVIOUS
  <2>1. CASE UNCHANGED <<vars, orderings>>
    BY <2>1, ViewsGrow DEF vars, orderings, VisibleInv, OrderingsType
  <2>. QED
    BY <2>1, ReserveVisible, UnorderedVisible, LookupVisible, TakeVisible, WriteVisible
       DEF OrderingsNext
<1>2. CountInv => TypeOK
  BY DEF CountInv
<1>. QED
  BY <1>1, <1>2, InitVisibleInv, OrderingsCount, PTL DEF OrderingsSpec

(* Whoever gets a pointer to an entry, by a lookup or by evict, is ordered *)
(* after the entry's initialisation: the Release of Atomic::write and the  *)
(* Acquires of load and evict are enough, with everything else Relaxed.    *)
THEOREM EntriesAreInitialised == OrderingsSpec => []InitVisible
PROOF
<1>1. VisibleInv => InitVisible
  BY DEF VisibleInv
<1>. QED
  BY <1>1, VisibleInvariant, PTL

-----------------------------------------------------------------------------
(* The permits given out were given back, or are out; a permit given back  *)
(* goes with the index put in the ring before it. An index in the ring     *)
(* that entries does not know of is owed by a thread about to tell it.     *)
Decr == {"decr"}

Missing == {n \in 0..(freed - 1) : Freed(n) \notin entries_view}

Owed ==
  \E f \in [Missing -> At(Decr)] :
    /\ \A m, n \in Missing : f[m] = f[n] => m = n
    /\ \A n \in Missing : Freed(n) \in seen[f[n]]

Grants == granted = Given + freed - Cardinality(At(Decr))

BackedInv == Grants /\ Owed

(* The numbers CountInv speaks of are numbers, in the next state too.      *)
Sized == Given \in Nat /\ Cardinality(At(Undoing)) \in Nat

LEMMA CountSized == CountInv => Sized
BY Numbers DEF CountInv, Sized, Given

LEMMA MoveDecr ==
  ASSUME TypeOK, NEW t \in Thread, NEW step, NEW r, NEW i, Goto(t, step, r, i)
  PROVE  /\ Cardinality(At(Decr)) \in Nat
         /\ Cardinality(At(Decr))' =
              Cardinality(At(Decr)) + (IF step \in Decr THEN 1 ELSE 0)
                                    - (IF pc[t] \in Decr THEN 1 ELSE 0)
         /\ \A u \in At(Decr) : u # t \/ step \in Decr => u \in At(Decr)'
PROOF
<1>1. ASSUME NEW S
      PROVE  Cardinality(At(S))' =
               Cardinality(At(S)) + (IF step \in S THEN 1 ELSE 0)
                                  - (IF pc[t] \in S THEN 1 ELSE 0)
  BY GotoCounts
<1>2. Cardinality(At(Decr)) \in Nat
  BY AtFinite
<1>3. pc'[t] = step /\ \A u \in Thread \ {t} : pc'[u] = pc[u]
  BY GotoEffect
<1>. QED
  BY <1>1, <1>2, <1>3 DEF At

LEMMA InitBacked == OrderingsInit => BackedInv
PROOF
<1>. SUFFICES ASSUME OrderingsInit PROVE BackedInv
  OBVIOUS
<1>1. At(Decr) = {} /\ At(Permitted) = {} /\ Live = {} /\ leaked = {}
  BY DEF OrderingsInit, Init, At, Decr, Permitted, Live
<1>2. Grants
  BY <1>1, FS_EmptySet DEF OrderingsInit, Grants, Given
<1>3. Missing = {}
  BY DEF OrderingsInit, Missing
<1>4. Owed
  <2>1. [n \in Missing |-> n] \in [Missing -> At(Decr)]
    BY <1>3
  <2>. QED
    BY <1>3, <2>1 DEF Owed
<1>. QED
  BY <1>2, <1>4 DEF BackedInv

(* Whoever owes an index goes on owing it, unless entries learns of it.    *)
LEMMA OwedStays ==
  ASSUME Owed, Missing' \subseteq Missing,
         \A n \in Missing' : \A u \in At(Decr) :
           Freed(n) \in seen[u] => u \in At(Decr)' /\ Freed(n) \in seen'[u]
  PROVE  Owed'
PROOF
<1>1. PICK f \in [Missing -> At(Decr)] :
        /\ \A m, n \in Missing : f[m] = f[n] => m = n
        /\ \A n \in Missing : Freed(n) \in seen[f[n]]
  BY DEF Owed
<1> DEFINE g == [n \in Missing' |-> f[n]]
<1>2. g \in [Missing' -> At(Decr)']
  BY <1>1
<1>3. /\ \A m, n \in Missing' : g[m] = g[n] => m = n
      /\ \A n \in Missing' : Freed(n) \in seen'[g[n]]
  BY <1>1
<1>. HIDE DEF g
<1>. QED
  BY <1>2, <1>3 DEF Owed

(* Steps at which no index is put in the ring and none is told to entries. *)
LEMMA OwedKept ==
  ASSUME TypeOK, Owed, freed' = freed, entries_view \subseteq entries_view',
         \A u \in Thread : seen[u] \subseteq seen'[u],
         NEW t \in Thread, NEW step, NEW r, NEW i, Goto(t, step, r, i), pc[t] # "decr"
  PROVE  Owed'
PROOF
<1>1. Missing' \subseteq Missing
  BY DEF Missing
<1>2. \A u \in At(Decr) : u \in Thread /\ u \in At(Decr)'
  BY MoveDecr DEF At, Decr
<1>. QED
  BY <1>1, <1>2, OwedStays

LEMMA ReserveBacked ==
  ASSUME CountInv, CountInv', Sized, Sized', VisibleInv, BackedInv,
         NEW t \in Thread, Reserve(t)
  PROVE  BackedInv'
PROOF
<1>1. /\ pc[t] = "idle" /\ entries' = (entries + 1) % U32
      /\ granted' = IF entries < LENGTH THEN granted + 1 ELSE granted
      /\ UNCHANGED <<freed>>
  BY DEF Reserve, ReserveSlot
<1>2. entries' = entries + 1
  <2>1. Cardinality(At(Undoing)) + 1 <= Cardinality(Thread)
    BY <1>1, Whereabouts DEF Undoing
  <2>2. LENGTH + Cardinality(Thread) < U32 /\ LENGTH \in Nat /\ U32 \in Nat
    BY TableAssumption, IndexAssumption
  <2>. QED
    BY <1>1, <2>1, <2>2, EntriesBound, Numbers, CountUp DEF CountInv
<1>3. PICK step, r : /\ Goto(t, step, r, 0)
                     /\ step = IF entries < LENGTH THEN "fetch_next" ELSE "undo"
  BY DEF Reserve, ReserveSlot
<1>4. Cardinality(At(Decr)) \in Nat /\ Cardinality(At(Decr))' = Cardinality(At(Decr))
  BY <1>1, <1>3, MoveDecr DEF Decr, CountInv
<1>5. Cardinality(At(Undoing))' = Cardinality(At(Undoing)) + (IF entries < LENGTH THEN 0 ELSE 1)
  BY <1>1, <1>3, MoveCounts, Numbers DEF Undoing, CountInv
<1>6. initial_entries' = initial_entries /\ initial_entries \in Nat
  BY Numbers DEF initial_entries, CountInv
<1>7. Grants'
  BY <1>1, <1>2, <1>4, <1>5, <1>6
     DEF CountInv, Tally, Counted, Sized, BackedInv, Grants, VisibleInv, OrderingsType
<1>8. Owed'
  <2>1. entries_view \subseteq entries_view' /\ \A u \in Thread : seen[u] \subseteq seen'[u]
    BY DEF Reserve, VisibleInv, OrderingsType
  <2>. QED
    BY <1>1, <1>3, <2>1, OwedKept DEF BackedInv, CountInv
<1>. QED
  BY <1>7, <1>8 DEF BackedInv

LEMMA UndoBacked ==
  ASSUME CountInv, CountInv', Sized, Sized', VisibleInv, BackedInv,
         NEW t \in Thread, Undo(t)
  PROVE  BackedInv'
PROOF
<1>1. /\ pc[t] = "undo" /\ entries' = (entries + U32 - 1) % U32
      /\ Goto(t, "idle", 0, 0)
      /\ UNCHANGED <<freed, granted>>
  BY DEF Undo, UndoReserve
<1>2. Cardinality(At(Undoing)) >= 1
  BY <1>1, Whereabouts DEF Undoing
<1>3. initial_entries' = initial_entries /\ initial_entries \in Nat
  BY Numbers DEF initial_entries, CountInv
<1>4. entries' = entries - 1
  <2>1. entries \in 1..(U32 - 1)
    BY <1>2, <1>3 DEF CountInv, TypeOK, Tally, Counted, Sized
  <2>. QED
    BY <1>1, <2>1, CountDown
<1>5. Cardinality(At(Decr)) \in Nat /\ Cardinality(At(Decr))' = Cardinality(At(Decr))
  BY <1>1, MoveDecr DEF Decr, CountInv
<1>6. Cardinality(At(Undoing))' = Cardinality(At(Undoing)) - 1
  BY <1>1, MoveCounts, Numbers DEF Undoing, CountInv
<1>7. Grants'
  BY <1>1, <1>3, <1>4, <1>5, <1>6
     DEF CountInv, TypeOK, Tally, Counted, Sized, BackedInv, Grants
<1>8. Owed'
  <2>1. entries_view \subseteq entries_view' /\ \A u \in Thread : seen[u] \subseteq seen'[u]
    BY DEF Undo, VisibleInv, OrderingsType
  <2>. QED
    BY <1>1, <2>1, OwedKept DEF BackedInv, CountInv
<1>. QED
  BY <1>7, <1>8 DEF BackedInv

(* Steps that touch neither entries nor the ring's free indices.           *)
LEMMA OtherBacked ==
  ASSUME CountInv, CountInv', Sized, Sized', VisibleInv, BackedInv,
         NEW t \in Thread,
         \/ Write(t) \/ \E k \in Key : Take(t, k)
         \/ Unordered(t)
  PROVE  BackedInv'
PROOF
<1>1. UNCHANGED <<entries, entries_view, granted, freed>>
  BY DEF Write, Publish, Take, Evict, Unordered, UndoRetry, FetchNextId, SwapSlot, InitPanics,
         FetchFreeId, StoreSlotOccupied, StoreSlotSpurious, orderings
<1>2. PICK step, r, i : /\ Goto(t, step, r, i)
                        /\ pc[t] # "decr" /\ step # "decr"
                        /\ step = "undo" <=> pc[t] = "undo"
  BY DEF Write, Publish, Take, Evict, Unordered, UndoRetry, FetchNextId, SwapSlot, InitPanics,
         FetchFreeId, StoreSlotOccupied, StoreSlotSpurious
<1>3. \A u \in Thread : seen[u] \subseteq seen'[u]
  BY DEF Write, Take, Unordered, orderings, VisibleInv, OrderingsType
<1>4. Cardinality(At(Decr)) \in Nat /\ Cardinality(At(Decr))' = Cardinality(At(Decr))
  BY <1>2, MoveDecr DEF Decr, CountInv
<1>5. Cardinality(At(Undoing))' = Cardinality(At(Undoing))
  BY <1>2, MoveCounts, Numbers DEF Undoing, CountInv
<1>6. initial_entries' = initial_entries /\ initial_entries \in Nat
  BY Numbers DEF initial_entries, CountInv
<1>7. Given' = Given
  BY <1>1, <1>5, <1>6 DEF CountInv, Tally, Counted, Sized
<1>8. Grants'
  BY <1>1, <1>4, <1>7 DEF BackedInv, Grants
<1>9. Owed'
  BY <1>1, <1>2, <1>3, OwedKept DEF BackedInv, CountInv
<1>. QED
  BY <1>8, <1>9 DEF BackedInv

LEMMA LookupBacked ==
  ASSUME VisibleInv, BackedInv, NEW t \in Thread, Lookup(t)
  PROVE  BackedInv'
PROOF
<1>1. /\ UNCHANGED <<vars, entries_view, granted, freed>>
      /\ \A u \in Thread : seen[u] \subseteq seen'[u]
  BY DEF Lookup, VisibleInv, OrderingsType
<1>2. At(Decr)' = At(Decr) /\ Given' = Given /\ Missing' = Missing
  BY <1>1 DEF vars, At, Given, Live, Missing
<1>3. Owed'
  <2>1. \A u \in At(Decr) : u \in Thread
    BY DEF At
  <2>. QED
    BY <1>1, <1>2, <2>1, OwedStays DEF BackedInv
<1>. QED
  BY <1>1, <1>2, <1>3 DEF BackedInv, Grants

(* The thread that puts an index back owes it to entries.                  *)
LEMMA PutBackBacked ==
  ASSUME CountInv, CountInv', Sized, Sized', VisibleInv, BackedInv,
         NEW t \in Thread, PutBack(t)
  PROVE  BackedInv'
PROOF
<1>1. /\ pc[t] = "store_slot" /\ Goto(t, "decr", 0, 0)
      /\ UNCHANGED <<entries, entries_view, granted>>
      /\ freed' = freed + 1 /\ freed \in Nat
      /\ seen' = [seen EXCEPT ![t] = @ \cup {Freed(freed)}]
  BY DEF PutBack, StoreSlot, VisibleInv, OrderingsType
<1>2. /\ Cardinality(At(Decr)) \in Nat
      /\ Cardinality(At(Decr))' = Cardinality(At(Decr)) + 1
      /\ \A u \in At(Decr) : u \in At(Decr)'
  BY <1>1, MoveDecr DEF Decr, CountInv
<1>3. Cardinality(At(Undoing))' = Cardinality(At(Undoing))
  BY <1>1, MoveCounts, Numbers DEF Undoing, CountInv
<1>4. initial_entries' = initial_entries /\ initial_entries \in Nat
  BY Numbers DEF initial_entries, CountInv
<1>5. Given' = Given
  BY <1>1, <1>3, <1>4 DEF CountInv, Tally, Counted, Sized
<1>6. Grants'
  BY <1>1, <1>2, <1>5 DEF BackedInv, Grants, Sized
<1>7. Owed'
  <2>1. PICK f \in [Missing -> At(Decr)] :
          /\ \A m, n \in Missing : f[m] = f[n] => m = n
          /\ \A n \in Missing : Freed(n) \in seen[f[n]]
    BY DEF BackedInv, Owed
  <2>2. t \notin At(Decr) /\ t \in At(Decr)'
    BY <1>1, GotoEffect DEF At, Decr, CountInv
  <2>3. Missing' \subseteq Missing \cup {freed} /\ freed \notin Missing
    BY <1>1 DEF Missing
  <2>4. /\ Freed(freed) \in seen'[t]
        /\ \A u \in Thread : seen[u] \subseteq seen'[u]
    BY <1>1 DEF VisibleInv, OrderingsType
  <2>5. At(Decr) \subseteq Thread
    BY DEF At
  <2> DEFINE g == [n \in Missing' |-> IF n = freed THEN t ELSE f[n]]
  <2>6. g \in [Missing' -> At(Decr)']
    BY <1>2, <2>1, <2>2, <2>3
  <2>7. \A m, n \in Missing' : g[m] = g[n] => m = n
    BY <2>1, <2>2, <2>3
  <2>8. \A n \in Missing' : Freed(n) \in seen'[g[n]]
    BY <2>1, <2>3, <2>4, <2>5
  <2>. HIDE DEF g
  <2>. QED
    BY <2>6, <2>7, <2>8 DEF Owed
<1>. QED
  BY <1>6, <1>7 DEF BackedInv

(* Giving the permit back tells entries all the thread knows.              *)
LEMMA GiveBackBacked ==
  ASSUME CountInv, CountInv', Sized, Sized', VisibleInv, BackedInv,
         NEW t \in Thread, GiveBack(t)
  PROVE  BackedInv'
PROOF
<1>1. /\ pc[t] = "decr" /\ Goto(t, "idle", 0, 0)
      /\ entries' = (entries + U32 - 1) % U32
      /\ UNCHANGED <<granted, freed>>
      /\ entries_view' = entries_view \cup seen[t]
  BY Orders DEF GiveBack, DecrEntries
<1>2. /\ Cardinality(At(Decr)) \in Nat
      /\ Cardinality(At(Decr))' = Cardinality(At(Decr)) - 1
      /\ \A u \in At(Decr) : u # t => u \in At(Decr)'
  BY <1>1, MoveDecr DEF Decr, CountInv
<1>3. initial_entries' = initial_entries /\ initial_entries \in Nat
  BY Numbers DEF initial_entries, CountInv
<1>4. entries' = entries - 1
  <2>1. Cardinality(At(Permitted)) >= 1
    BY <1>1, Whereabouts DEF Permitted
  <2>2. entries \in 1..(U32 - 1)
    BY <2>1, Numbers DEF CountInv, TypeOK, Tally, Counted, Given
  <2>. QED
    BY <1>1, <2>2, CountDown
<1>5. Cardinality(At(Undoing))' = Cardinality(At(Undoing))
  BY <1>1, MoveCounts, Numbers DEF Undoing, CountInv
<1>6. Given' = Given - 1
  BY <1>3, <1>4, <1>5 DEF CountInv, TypeOK, Tally, Counted, Sized
<1>7. Grants'
  BY <1>1, <1>2, <1>6 DEF BackedInv, Grants, Sized, VisibleInv, OrderingsType
<1>8. Owed'
  <2>1. \A n \in Missing' : n \in Missing /\ Freed(n) \notin seen[t]
    BY <1>1 DEF Missing
  <2>2. \A u \in At(Decr) : u \in Thread
    BY DEF At
  <2>3. \A u \in Thread : seen[u] \subseteq seen'[u]
    BY DEF GiveBack, VisibleInv, OrderingsType
  <2>. QED
    BY <1>2, <2>1, <2>2, <2>3, OwedStays DEF BackedInv
<1>. QED
  BY <1>7, <1>8 DEF BackedInv

-----------------------------------------------------------------------------
LEMMA OwedBound ==
  ASSUME Owed, freed \in Nat
  PROVE  /\ Cardinality({n \in 0..(freed - 1) : Freed(n) \in entries_view}) \in Nat
         /\ Cardinality(At(Decr)) \in Nat
         /\ freed <= Cardinality({n \in 0..(freed - 1) : Freed(n) \in entries_view})
                       + Cardinality(At(Decr))
PROOF
<1> DEFINE All == 0..(freed - 1)
           Known == {n \in All : Freed(n) \in entries_view}
<1>1. IsFiniteSet(All) /\ Cardinality(All) = freed
  <2>1. 0 \in Int /\ freed - 1 \in Int
    OBVIOUS
  <2>. QED
    BY <2>1, FS_Interval
<1>2. /\ IsFiniteSet(Missing) /\ IsFiniteSet(Known)
      /\ Cardinality(Missing) \in Nat /\ Cardinality(Known) \in Nat
  <2>1. Missing \in SUBSET All /\ Known \in SUBSET All
    BY DEF Missing
  <2>. QED
    BY <1>1, <2>1, FS_Subset, FS_CardinalityType
<1>3. Missing = All \ Known /\ All \cap Known = Known
  BY DEF Missing
<1>4. Cardinality(Missing) = freed - Cardinality(Known)
  <2>. HIDE DEF All, Known
  <2>1. Cardinality(All \ Known) = Cardinality(All) - Cardinality(All \cap Known)
    BY <1>1, FS_Difference
  <2>. QED
    BY <1>1, <1>3, <2>1
<1>5. IsFiniteSet(At(Decr)) /\ Cardinality(At(Decr)) \in Nat
  BY AtFinite
<1>6. ~(Cardinality(At(Decr)) < Cardinality(Missing))
  BY <1>2, <1>5, FS_PigeonHole DEF Owed
<1>. QED
  BY <1>2, <1>4, <1>5, <1>6

(* What holds when a permit is given: indices for it and all before it.    *)
LEMMA ReserveOrdered ==
  ASSUME CountInv, Sized, VisibleInv, BackedInv,
         NEW t \in Thread, Reserve(t), pc'[t] = "fetch_next"
  PROVE  granted' <= cap + Cardinality({n \in 0..(freed - 1) : Freed(n) \in seen'[t]})
PROOF
<1> DEFINE Known == {n \in 0..(freed - 1) : Freed(n) \in entries_view}
           Ordered == {n \in 0..(freed - 1) : Freed(n) \in seen'[t]}
<1>1. entries < LENGTH
  BY GotoEffect DEF Reserve, ReserveSlot, CountInv
<1>2. granted' = granted + 1 /\ freed \in Nat
  BY <1>1 DEF Reserve, VisibleInv, OrderingsType
<1>3. Given < cap
  BY <1>1, Numbers DEF CountInv, Tally, Counted, Sized
<1>4. entries_view \subseteq seen'[t]
  BY Orders DEF Reserve, VisibleInv, OrderingsType
<1>5. Cardinality(Known) <= Cardinality(Ordered) /\ Cardinality(Ordered) \in Nat
  <2>1. 0 \in Int /\ freed - 1 \in Int
    BY <1>2
  <2>2. IsFiniteSet(0..(freed - 1))
    BY <2>1, FS_Interval
  <2>3. Ordered \in SUBSET (0..(freed - 1)) /\ Known \in SUBSET Ordered
    BY <1>4
  <2>4. IsFiniteSet(Ordered)
    BY <2>2, <2>3, FS_Subset
  <2>. QED
    BY <2>3, <2>4, FS_Subset, FS_CardinalityType
<1>6. /\ freed <= Cardinality(Known) + Cardinality(At(Decr))
      /\ Cardinality(Known) \in Nat /\ Cardinality(At(Decr)) \in Nat
  BY <1>2, OwedBound DEF BackedInv
<1>7. cap \in Nat
  BY Numbers DEF CountInv
<1>. HIDE DEF Known, Ordered
<1>8. granted' <= cap + Cardinality(Ordered)
  BY <1>2, <1>3, <1>5, <1>6, <1>7 DEF BackedInv, Grants, Sized
<1>. QED
  BY <1>8 DEF Ordered

(* A permit is ordered after the release of enough indices for it and for  *)
(* every one given out before: the Acquire of incr_entries and the Release *)
(* of decr_entries are enough for the promise entries makes to be known to *)
(* the thread it is made to.                                               *)
THEOREM PermitsAreBacked == OrderingsSpec => PermitBacked
PROOF
<1>1. CountInv /\ CountInv' /\ Sized /\ Sized' /\ VisibleInv /\ BackedInv
        /\ [OrderingsNext]_<<vars, orderings>> => BackedInv'
  <2>. SUFFICES ASSUME CountInv, CountInv', Sized, Sized', VisibleInv, BackedInv,
                       [OrderingsNext]_<<vars, orderings>>
                PROVE  BackedInv'
    OBVIOUS
  <2>1. CASE UNCHANGED <<vars, orderings>>
    BY <2>1 DEF vars, orderings, BackedInv, Grants, Owed, Missing, Given, At, Live
  <2>. QED
    BY <2>1, ReserveBacked, UndoBacked, OtherBacked, LookupBacked, PutBackBacked,
       GiveBackBacked DEF OrderingsNext
<1>2. CountInv /\ Sized /\ VisibleInv /\ BackedInv /\ [OrderingsNext]_<<vars, orderings>> =>
        [\A t \in Thread :
           pc[t] = "idle" /\ pc'[t] = "fetch_next" =>
             granted' <= cap + Cardinality({n \in 0..(freed - 1) : Freed(n) \in seen'[t]})
        ]_<<vars, orderings>>
  <2>. SUFFICES ASSUME CountInv, Sized, VisibleInv, BackedInv, OrderingsNext,
                       NEW t \in Thread, pc[t] = "idle", pc'[t] = "fetch_next"
                PROVE  granted' <= cap + Cardinality({n \in 0..(freed - 1) : Freed(n) \in seen'[t]})
    OBVIOUS
  <2>1. Reserve(t)
    <3>1. PICK u \in Thread :
            \/ Reserve(u) \/ Undo(u) \/ Write(u) \/ Lookup(u)
            \/ \E k \in Key : Take(u, k)
            \/ PutBack(u) \/ GiveBack(u) \/ Unordered(u)
      BY DEF OrderingsNext
    <3>2. CASE Lookup(u)
      BY <3>2 DEF Lookup, vars
    <3>. QED
      BY <3>1, <3>2
         DEF Reserve, Undo, Write, Take, PutBack, GiveBack, Unordered, ReserveSlot, UndoReserve,
             UndoRetry, FetchNextId, SwapSlot, Publish, InitPanics, Evict, FetchFreeId,
             StoreSlot, StoreSlotOccupied, StoreSlotSpurious, DecrEntries, Goto, CountInv, TypeOK
  <2>. QED
    BY <2>1, ReserveOrdered
<1>. QED
  BY <1>1, <1>2, InitBacked, OrderingsCount, CountSized, VisibleInvariant, PTL
     DEF OrderingsSpec, PermitBacked
=============================================================================
