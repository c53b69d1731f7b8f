--------------------------- MODULE ProgressProofs --------------------------
(***************************************************************************)
(* Theorems about progress: in whatever order threads run and wherever     *)
(* some of them stop, every step brings the end of an operation nearer or  *)
(* ends one, for every capacity and every number of threads.               *)
(***************************************************************************)
EXTENDS Progress, TableProofs

(* Rounds of the ring: a counter reaches every position within one round,  *)
(* and its wrap does not disturb the order.                                *)
LEMMA NextRound ==
  ASSUME NEW n \in Nat
  PROVE  Concrete(n + LENGTH) = Concrete(n)
PROOF
<1>1. abstract_to_concrete((1 * LENGTH) + n) = abstract_to_concrete(n)
  BY ConcreteGeneration
<1>2. (1 * LENGTH) + n = n + LENGTH
  BY IndexAssumption
<1>. QED
  BY <1>1, <1>2 DEF Concrete

LEMMA CounterWraps ==
  ASSUME NEW n \in 0..(U32 - 1), NEW j \in Nat
  PROVE  Concrete(((n + 1) % U32) + j) = Concrete(n + 1 + j)
PROOF
<1>1. U32 \in Nat \ {0} /\ n \in Nat
  BY Counters
<1>2. CASE n + 1 < U32
  <2>1. (n + 1) % U32 = n + 1
    BY <1>1, <1>2
  <2>. QED
    BY <2>1
<1>3. CASE n + 1 = U32
  <2> DEFINE m == U32 \div LENGTH
  <2>1. m \in Nat /\ U32 = m * LENGTH
    <3>1. /\ U32 \div LENGTH \in Nat
          /\ U32 = ((U32 \div LENGTH) * LENGTH) + (U32 % LENGTH)
      BY <1>1, DivMod, IndexAssumption
    <3>. QED
      BY <3>1, TableAssumption, IndexAssumption
  <2>2. (n + 1) % U32 = 0
    <3>1. ((1 * U32) + 0) % U32 = 0
      BY <1>1, DivModUnique
    <3>. QED
      BY <1>1, <1>3, <3>1
  <2>. HIDE DEF m
  <2>3. abstract_to_concrete((m * LENGTH) + j) = abstract_to_concrete(j)
    BY <2>1, ConcreteGeneration
  <2>4. n + 1 + j = U32 + j /\ ((n + 1) % U32) + j = j
    BY <1>1, <1>3, <2>2
  <2>. QED
    BY <2>1, <2>3, <2>4 DEF Concrete
<1>. QED
  BY <1>1, <1>2, <1>3

LEMMA RoundCoversRing ==
  ASSUME NEW n \in Nat, NEW p \in Offset
  PROVE  \E j \in Offset : Concrete(n + j) = p
PROOF
<1> DEFINE q == n \div LENGTH
           r == n % LENGTH
           s == initial_slot(p)
<1>1. q \in Nat /\ r \in 0..(LENGTH - 1) /\ n = (q * LENGTH) + r
  BY DivMod, IndexAssumption
<1>2. s \in 0..(LENGTH - 1) /\ Concrete(s) = p
  BY InitialSlot DEF Concrete, Offset
<1>. HIDE DEF q, r, s
<1>3. q * LENGTH \in Nat /\ (q + 1) * LENGTH = (q * LENGTH) + LENGTH
  BY <1>1, IndexAssumption
<1>4. \A k \in Nat : Concrete((k * LENGTH) + s) = p
  BY <1>2, ConcreteGeneration, IndexAssumption DEF Concrete
<1>5. CASE r <= s
  <2>1. s - r \in Offset /\ n + (s - r) = (q * LENGTH) + s
    BY <1>1, <1>2, <1>3, <1>5, IndexAssumption DEF Offset
  <2>. QED
    BY <1>1, <1>4, <2>1
<1>6. CASE s < r
  <2>1. /\ (s + LENGTH) - r \in Offset
        /\ n + ((s + LENGTH) - r) = ((q + 1) * LENGTH) + s
    BY <1>1, <1>2, <1>3, <1>6, IndexAssumption DEF Offset
  <2>2. q + 1 \in Nat
    BY <1>1
  <2>. QED
    BY <1>4, <2>1, <2>2
<1>. QED
  BY <1>1, <1>2, <1>5, <1>6, IndexAssumption

-----------------------------------------------------------------------------
(* How many fetches reach all of some positions.                           *)
Ahead(n, S) == {k \in Offset : \E j \in k..(LENGTH - 1) : Concrete(n + j) \in S}

LEMMA FetchesType ==
  ASSUME NEW n, NEW S
  PROVE  /\ IsFiniteSet(Ahead(n, S)) /\ Fetches(n, S) = Cardinality(Ahead(n, S))
         /\ Fetches(n, S) \in Nat /\ Fetches(n, S) <= LENGTH
PROOF
<1>1. Ahead(n, S) \in SUBSET Offset
  BY DEF Ahead
<1>2. IsFiniteSet(Ahead(n, S)) /\ Cardinality(Ahead(n, S)) <= LENGTH
  BY <1>1, OffsetFinite, FS_Subset
<1>. QED
  BY <1>2, FS_CardinalityType DEF Fetches, Ahead

(* A fetch brings a loop nearer to all the positions it may end at, unless *)
(* there are none.                                                         *)
LEMMA FetchShrinks ==
  ASSUME NEW n \in 0..(U32 - 1), NEW S \in SUBSET Offset, S # {}
  PROVE  Fetches((n + 1) % U32, S \ {Concrete(n)}) <= Fetches(n, S) - 1
PROOF
<1> DEFINE A == Ahead(n, S)
           B == Ahead((n + 1) % U32, S \ {Concrete(n)})
           f == [k \in B |-> k + 1]
<1>1. n \in Nat /\ 0 \in Offset /\ LENGTH \in Nat \ {0}
  BY Counters, IndexAssumption DEF Offset
<1>2. 0 \in A
  <2>1. PICK p \in S : p \in Offset
    OBVIOUS
  <2>2. PICK j \in Offset : Concrete(n + j) = p
    BY <1>1, <2>1, RoundCoversRing
  <2>3. j \in 0..(LENGTH - 1)
    BY DEF Offset
  <2>. QED
    BY <1>1, <2>1, <2>2, <2>3 DEF Ahead
<1>3. ASSUME NEW k \in B PROVE k + 1 \in A \ {0}
  <2>1. k \in Offset
    BY DEF Ahead
  <2>2. PICK j \in k..(LENGTH - 1) : Concrete(((n + 1) % U32) + j) \in S \ {Concrete(n)}
    BY DEF Ahead
  <2>3. k \in Nat /\ j \in Nat /\ j >= k /\ j <= LENGTH - 1
    BY <1>1, <2>1 DEF Offset
  <2>4. Concrete(n + 1 + j) \in S /\ Concrete(n + 1 + j) # Concrete(n)
    BY <2>2, <2>3, CounterWraps
  <2>5. j # LENGTH - 1
    <3>1. Concrete(n + LENGTH) = Concrete(n)
      BY <1>1, NextRound
    <3>2. j = LENGTH - 1 => n + 1 + j = n + LENGTH
      BY <1>1, <2>3
    <3>. QED
      BY <2>4, <3>1, <3>2
  <2>6. k + 1 \in Offset /\ j + 1 \in (k + 1)..(LENGTH - 1) /\ n + (j + 1) = n + 1 + j
    BY <1>1, <2>3, <2>5 DEF Offset
  <2>7. k + 1 \in A
    BY <2>4, <2>6 DEF Ahead
  <2>. QED
    BY <2>3, <2>7
<1>4. f \in Injection(B, A \ {0})
  <2>1. B \subseteq Nat
    BY <1>1 DEF Ahead, Offset
  <2>2. f \in [B -> A \ {0}] /\ DOMAIN f = B
    BY <1>3
  <2>3. \A x, y \in B : f[x] = f[y] => x = y
    BY <2>1
  <2>. HIDE DEF f, A, B
  <2>. QED
    BY <2>2, <2>3 DEF Injection, IsInjective
<1>5. IsFiniteSet(A) /\ IsFiniteSet(B) /\ Cardinality(A) \in Nat /\ Cardinality(B) \in Nat
  BY FetchesType, FS_CardinalityType
<1>. HIDE DEF A, B, f
<1>6. IsFiniteSet(A \ {0}) /\ Cardinality(A \ {0}) = Cardinality(A) - 1
  BY <1>2, <1>5, Shrink
<1>7. Cardinality(B) <= Cardinality(A \ {0})
  BY <1>4, <1>5, <1>6, FS_Injection
<1>. QED
  BY <1>5, <1>6, <1>7, FetchesType DEF A, B

-----------------------------------------------------------------------------
LEMMA CountIsAt ==
  ASSUME NEW S
  PROVE  Count(S) = Cardinality(At(S)) /\ Count(S) \in Nat
BY AtFinite DEF Count, At

LEMMA CountMoves ==
  ASSUME TypeOK, NEW t \in Thread, NEW step, NEW r, NEW i, Goto(t, step, r, i), NEW S
  PROVE  Count(S)' = Count(S) + (IF step \in S THEN 1 ELSE 0)
                              - (IF pc[t] \in S THEN 1 ELSE 0)
PROOF
<1>1. Cardinality(At(S))' =
        Cardinality(At(S)) + (IF step \in S THEN 1 ELSE 0) - (IF pc[t] \in S THEN 1 ELSE 0)
  BY GotoCounts
<1>. QED
  BY <1>1 DEF Count, At

(* What a thread at a step adds to the parts ahead.                        *)
Weight(step) ==
  IF step = "idle" THEN 3 ELSE IF step \in {"publish", "decr"} THEN 1 ELSE 2
RingWeight(step) ==
  IF step \in {"idle", "undo"} THEN 3 ELSE IF step \in {"publish", "decr"} THEN 1 ELSE 2

LEMMA PartsMove ==
  ASSUME TypeOK, NEW t \in Thread, NEW step \in Step, NEW r, NEW i, Goto(t, step, r, i)
  PROVE  /\ Parts \in Nat /\ Parts' = Parts + Weight(step) - Weight(pc[t])
         /\ RingParts \in Nat /\ RingParts' = RingParts + RingWeight(step) - RingWeight(pc[t])
PROOF
<1>1. ASSUME NEW S
      PROVE  /\ Count(S) \in Nat
             /\ Count(S)' = Count(S) + (IF step \in S THEN 1 ELSE 0)
                                     - (IF pc[t] \in S THEN 1 ELSE 0)
  BY CountIsAt, CountMoves
<1>2. pc[t] \in Step
  BY DEF TypeOK
<1> DEFINE I == {"idle"}
           L == {"undo", "fetch_next", "swap_slot", "fetch_free", "store_slot"}
           J == {"idle", "undo"}
           R == {"fetch_next", "swap_slot", "fetch_free", "store_slot"}
           P == {"publish", "decr"}
<1>3. /\ Parts = (3 * Count(I)) + (2 * Count(L)) + Count(P)
      /\ Parts' = (3 * Count(I)') + (2 * Count(L)') + Count(P)'
      /\ RingParts = (3 * Count(J)) + (2 * Count(R)) + Count(P)
      /\ RingParts' = (3 * Count(J)') + (2 * Count(R)') + Count(P)'
  BY DEF Parts, RingParts
<1>4. \A s \in Step :
        /\ Weight(s) = (3 * (IF s \in I THEN 1 ELSE 0)) + (2 * (IF s \in L THEN 1 ELSE 0))
                          + (IF s \in P THEN 1 ELSE 0)
        /\ RingWeight(s) = (3 * (IF s \in J THEN 1 ELSE 0)) + (2 * (IF s \in R THEN 1 ELSE 0))
                              + (IF s \in P THEN 1 ELSE 0)
  BY DEF Weight, RingWeight, Step
<1>5. /\ Count(I) \in Nat /\ Count(L) \in Nat /\ Count(J) \in Nat
      /\ Count(R) \in Nat /\ Count(P) \in Nat
  BY <1>1
<1>6. /\ Count(I)' = Count(I) + (IF step \in I THEN 1 ELSE 0) - (IF pc[t] \in I THEN 1 ELSE 0)
      /\ Count(L)' = Count(L) + (IF step \in L THEN 1 ELSE 0) - (IF pc[t] \in L THEN 1 ELSE 0)
      /\ Count(J)' = Count(J) + (IF step \in J THEN 1 ELSE 0) - (IF pc[t] \in J THEN 1 ELSE 0)
      /\ Count(R)' = Count(R) + (IF step \in R THEN 1 ELSE 0) - (IF pc[t] \in R THEN 1 ELSE 0)
      /\ Count(P)' = Count(P) + (IF step \in P THEN 1 ELSE 0) - (IF pc[t] \in P THEN 1 ELSE 0)
  BY <1>1 DEF Count
<1>. HIDE DEF I, L, J, R, P
<1>. QED
  BY <1>2, <1>3, <1>4, <1>5, <1>6

-----------------------------------------------------------------------------
(* The positions threads are about to try, as one thread moves.            *)
LEMMA TargetsCount ==
  ASSUME NEW s
  PROVE  /\ IsFiniteSet(Targets(s)) /\ Cardinality(Targets(s)) \in Nat
         /\ Cardinality(Targets(s)) <= Count({s})
PROOF
<1> DEFINE A == At({s})
           f == [t \in A |-> Concrete(reg[t])]
<1>1. Targets(s) = {Concrete(reg[t]) : t \in A}
  BY DEF Targets, At
<1>2. f \in Surjection(A, Targets(s))
  BY <1>1 DEF Surjection
<1>. HIDE DEF f
<1>3. IsFiniteSet(A)
  BY AtFinite
<1>4. IsFiniteSet(Targets(s)) /\ Cardinality(Targets(s)) <= Cardinality(A)
  BY <1>2, <1>3, FS_Surjection
<1>. QED
  BY <1>4, CountIsAt, FS_CardinalityType

LEMMA TargetsLeave ==
  ASSUME TypeOK, NEW t \in Thread, NEW step, NEW r, NEW i, Goto(t, step, r, i),
         NEW s, step # s
  PROVE  /\ pc[t] # s => Targets(s)' = Targets(s)
         /\ pc[t] = s => Targets(s) = Targets(s)' \cup {Concrete(reg[t])}
PROOF
<1>1. /\ pc'[t] = step
      /\ \A u \in Thread \ {t} : pc'[u] = pc[u] /\ reg'[u] = reg[u]
  BY GotoEffect
<1>2. ASSUME pc[t] # s PROVE Targets(s)' = Targets(s)
  BY <1>1, <1>2 DEF Targets, Concrete
<1>3. ASSUME pc[t] = s PROVE Targets(s) = Targets(s)' \cup {Concrete(reg[t])}
  BY <1>1, <1>3 DEF Targets, Concrete
<1>. QED
  BY <1>2, <1>3

LEMMA TargetsEnter ==
  ASSUME TypeOK, NEW t \in Thread, NEW step, NEW r, NEW i, Goto(t, step, r, i),
         pc[t] # step
  PROVE  Targets(step)' = Targets(step) \cup {Concrete(r)}
PROOF
<1>1. /\ pc'[t] = step /\ reg'[t] = r
      /\ \A u \in Thread \ {t} : pc'[u] = pc[u] /\ reg'[u] = reg[u]
  BY GotoEffect
<1>. QED
  BY <1>1 DEF Targets, Concrete

-----------------------------------------------------------------------------
(* Steps left in acquire_slot's loop, and in release_slot's.               *)
SeekTries == (2 * Fetches(next_id, Untaken)) + Count({"swap_slot"})
GiveTries == (2 * Fetches(free_id, Unfilled)) + Count({"store_slot"})

LEMMA TriesAreBoth ==
  SeekTries \in Nat /\ GiveTries \in Nat /\ Tries = SeekTries + GiveTries
PROOF
<1>1. \A n, S : Fetches(n, S) \in Nat
  BY FetchesType
<1>2. \A Q : Count(Q) \in Nat
  BY CountIsAt
<1>. QED
  BY <1>1, <1>2 DEF Tries, SeekTries, GiveTries

LEMMA TriesStayBoth ==
  (SeekTries \in Nat /\ GiveTries \in Nat /\ Tries = SeekTries + GiveTries)'
BY TriesAreBoth, PTL

LEMMA SeekSame ==
  ASSUME TypeOK, NEW t \in Thread, NEW step, NEW r, NEW i, Goto(t, step, r, i),
         step # "swap_slot", pc[t] # "swap_slot", UNCHANGED <<next_id, slot>>
  PROVE  SeekTries' = SeekTries
PROOF
<1>1. Targets("swap_slot")' = Targets("swap_slot")
  BY TargetsLeave
<1>2. Count({"swap_slot"})' = Count({"swap_slot"})
  BY CountMoves, CountIsAt
<1>3. Untaken' = Untaken
  BY <1>1 DEF Untaken, Free
<1>. QED
  BY <1>2, <1>3 DEF SeekTries, Fetches, Concrete

LEMMA GiveSame ==
  ASSUME TypeOK, NEW t \in Thread, NEW step, NEW r, NEW i, Goto(t, step, r, i),
         step # "store_slot", pc[t] # "store_slot", UNCHANGED <<free_id, slot>>
  PROVE  GiveTries' = GiveTries
PROOF
<1>1. Targets("store_slot")' = Targets("store_slot")
  BY TargetsLeave
<1>2. Count({"store_slot"})' = Count({"store_slot"})
  BY CountMoves, CountIsAt
<1>3. Unfilled' = Unfilled
  BY <1>1 DEF Unfilled, Free
<1>. QED
  BY <1>2, <1>3 DEF GiveTries, Fetches, Concrete

(* A fetch finds its counter before a position the loop can end at: one    *)
(* that no other thread is about to try, for there is one for each.        *)
LEMMA SomeUntaken ==
  ASSUME CountInv, NEW t \in Thread, pc[t] = "fetch_next"
  PROVE  Untaken # {}
PROOF
<1>1. Cardinality(At(Seeking)) <= Cardinality(FreePositions)
  BY Numbers, SeekersAndHolders DEF CountInv, Tally, Balance, Given
<1>2. Count({"swap_slot"}) < Cardinality(At(Seeking))
  <2>1. At({"swap_slot"}) \cup {t} \in SUBSET At(Seeking) /\ t \notin At({"swap_slot"})
    BY DEF At, Seeking
  <2>2. /\ IsFiniteSet(At({"swap_slot"})) /\ IsFiniteSet(At(Seeking))
        /\ Cardinality(At({"swap_slot"})) \in Nat /\ Cardinality(At(Seeking)) \in Nat
    BY AtFinite
  <2>3. Cardinality(At({"swap_slot"}) \cup {t}) = Cardinality(At({"swap_slot"})) + 1
    BY <2>1, <2>2, Grow
  <2>4. Cardinality(At({"swap_slot"}) \cup {t}) <= Cardinality(At(Seeking))
    BY <2>1, <2>2, FS_Subset
  <2>. QED
    BY <2>2, <2>3, <2>4, CountIsAt
<1>3. ASSUME Untaken = {} PROVE FALSE
  <2>1. FreePositions \in SUBSET Targets("swap_slot")
    BY <1>3 DEF Untaken, FreePositions
  <2>2. Cardinality(FreePositions) <= Cardinality(Targets("swap_slot"))
    BY <2>1, TargetsCount, FS_Subset
  <2>3. Cardinality(Targets("swap_slot")) <= Count({"swap_slot"})
    BY TargetsCount
  <2>4. /\ Cardinality(Targets("swap_slot")) \in Nat /\ Count({"swap_slot"}) \in Nat
        /\ Cardinality(FreePositions) \in Nat /\ Cardinality(At(Seeking)) \in Nat
    BY TargetsCount, CountIsAt, CellsFinite, AtFinite DEF CountInv
  <2>. QED
    BY <1>1, <1>2, <2>2, <2>3, <2>4
<1>. QED
  BY <1>3

LEMMA SomeUnfilled ==
  ASSUME CountInv, NEW t \in Thread, pc[t] = "fetch_free"
  PROVE  Unfilled # {}
PROOF
<1> DEFINE Gaps == {p \in Offset : ~Free(p)}
<1>1. IsFiniteSet(Gaps) /\ Cardinality(Gaps) = LENGTH - Cardinality(FreePositions)
  <2>1. Gaps = Offset \ FreePositions /\ Offset \cap FreePositions = FreePositions
    BY DEF FreePositions
  <2>. HIDE DEF Gaps
  <2>2. Cardinality(Offset \ FreePositions) = LENGTH - Cardinality(FreePositions)
    BY <2>1, OffsetFinite, FS_Difference
  <2>3. IsFiniteSet(Offset \ FreePositions)
    BY OffsetFinite, FS_Difference
  <2>. QED
    BY <2>1, <2>2, <2>3
<1>2. Count({"store_slot"}) < Cardinality(At(Holding))
  <2>1. At({"store_slot"}) \cup {t} \in SUBSET At(Holding) /\ t \notin At({"store_slot"})
    BY DEF At, Holding
  <2>2. /\ IsFiniteSet(At({"store_slot"})) /\ IsFiniteSet(At(Holding))
        /\ Cardinality(At({"store_slot"})) \in Nat /\ Cardinality(At(Holding)) \in Nat
    BY AtFinite
  <2>3. Cardinality(At({"store_slot"}) \cup {t}) = Cardinality(At({"store_slot"})) + 1
    BY <2>1, <2>2, Grow
  <2>4. Cardinality(At({"store_slot"}) \cup {t}) <= Cardinality(At(Holding))
    BY <2>1, <2>2, FS_Subset
  <2>. QED
    BY <2>2, <2>3, <2>4, CountIsAt
<1>3. Cardinality(At(Holding)) <= LENGTH - Cardinality(FreePositions)
  BY Numbers DEF CountInv, Tally, Balance
<1>. HIDE DEF Gaps
<1>4. ASSUME Unfilled = {} PROVE FALSE
  <2>1. Gaps \in SUBSET Targets("store_slot")
    BY <1>4 DEF Unfilled, Gaps
  <2>2. Cardinality(Gaps) <= Cardinality(Targets("store_slot"))
    BY <2>1, TargetsCount, FS_Subset
  <2>3. Cardinality(Targets("store_slot")) <= Count({"store_slot"})
    BY TargetsCount
  <2>4. /\ Cardinality(Targets("store_slot")) \in Nat /\ Count({"store_slot"}) \in Nat
        /\ Cardinality(FreePositions) \in Nat /\ Cardinality(At(Holding)) \in Nat
    BY TargetsCount, CountIsAt, CellsFinite, AtFinite DEF CountInv
  <2>. QED
    BY <1>1, <1>2, <1>3, <2>2, <2>3, <2>4, IndexAssumption
<1>. QED
  BY <1>4

(* A fetch costs more than it leaves to do; a try that fails costs itself. *)
LEMMA FetchNextIdCloser ==
  ASSUME CountInv, NEW t \in Thread, FetchNextId(t)
  PROVE  SeekTries' < SeekTries /\ GiveTries' = GiveTries
PROOF
<1>1. /\ TypeOK /\ pc[t] = "fetch_next" /\ Goto(t, "swap_slot", next_id, 0)
      /\ next_id' = (next_id + 1) % U32 /\ UNCHANGED <<free_id, slot>>
  BY DEF FetchNextId, CountInv
<1>2. GiveTries' = GiveTries
  BY <1>1, GiveSame
<1>3. Targets("swap_slot")' = Targets("swap_slot") \cup {Concrete(next_id)}
  BY <1>1, TargetsEnter
<1>4. Untaken' = Untaken \ {Concrete(next_id)}
  BY <1>1, <1>3 DEF Untaken, Free
<1>5. Count({"swap_slot"})' = Count({"swap_slot"}) + 1
  BY <1>1, CountMoves, CountIsAt
<1>6. Untaken # {} /\ Untaken \in SUBSET Offset /\ next_id \in 0..(U32 - 1)
  BY <1>1, SomeUntaken DEF Untaken, TypeOK
<1>7. Fetches((next_id + 1) % U32, Untaken \ {Concrete(next_id)}) <= Fetches(next_id, Untaken) - 1
  BY <1>6, FetchShrinks
<1>8. Fetches(next_id, Untaken)' = Fetches((next_id + 1) % U32, Untaken \ {Concrete(next_id)})
  BY <1>1, <1>4 DEF Fetches, Concrete
<1>9. /\ Fetches((next_id + 1) % U32, Untaken \ {Concrete(next_id)}) \in Nat
      /\ Fetches(next_id, Untaken) \in Nat /\ Count({"swap_slot"}) \in Nat
  BY FetchesType, CountIsAt
<1>10. SeekTries' = (2 * Fetches(next_id, Untaken)') + Count({"swap_slot"})'
  BY DEF SeekTries
<1>. QED
  BY <1>2, <1>5, <1>7, <1>8, <1>9, <1>10 DEF SeekTries

LEMMA FetchFreeIdCloser ==
  ASSUME CountInv, NEW t \in Thread, FetchFreeId(t)
  PROVE  GiveTries' < GiveTries /\ SeekTries' = SeekTries
PROOF
<1>1. /\ TypeOK /\ pc[t] = "fetch_free" /\ Goto(t, "store_slot", free_id, idx[t])
      /\ free_id' = (free_id + 1) % U32 /\ UNCHANGED <<next_id, slot>>
  BY DEF FetchFreeId, CountInv
<1>2. SeekTries' = SeekTries
  BY <1>1, SeekSame
<1>3. Targets("store_slot")' = Targets("store_slot") \cup {Concrete(free_id)}
  BY <1>1, TargetsEnter
<1>4. Unfilled' = Unfilled \ {Concrete(free_id)}
  BY <1>1, <1>3 DEF Unfilled, Free
<1>5. Count({"store_slot"})' = Count({"store_slot"}) + 1
  BY <1>1, CountMoves, CountIsAt
<1>6. Unfilled # {} /\ Unfilled \in SUBSET Offset /\ free_id \in 0..(U32 - 1)
  BY <1>1, SomeUnfilled DEF Unfilled, TypeOK
<1>7. Fetches((free_id + 1) % U32, Unfilled \ {Concrete(free_id)}) <= Fetches(free_id, Unfilled) - 1
  BY <1>6, FetchShrinks
<1>8. Fetches(free_id, Unfilled)' = Fetches((free_id + 1) % U32, Unfilled \ {Concrete(free_id)})
  BY <1>1, <1>4 DEF Fetches, Concrete
<1>9. /\ Fetches((free_id + 1) % U32, Unfilled \ {Concrete(free_id)}) \in Nat
      /\ Fetches(free_id, Unfilled) \in Nat /\ Count({"store_slot"}) \in Nat
  BY FetchesType, CountIsAt
<1>10. GiveTries' = (2 * Fetches(free_id, Unfilled)') + Count({"store_slot"})'
  BY DEF GiveTries
<1>. QED
  BY <1>2, <1>5, <1>7, <1>8, <1>9, <1>10 DEF GiveTries

LEMMA SwapFailsCloser ==
  ASSUME TypeOK, NEW t \in Thread, SwapSlot(t), ~Free(Concrete(reg[t]))
  PROVE  SeekTries' < SeekTries /\ GiveTries' = GiveTries
PROOF
<1>1. Concrete(reg[t]) \in Offset
  BY ConcreteInRange, Counters DEF Concrete, TypeOK
<1>2. /\ pc[t] = "swap_slot" /\ Goto(t, "fetch_next", 0, 0)
      /\ UNCHANGED <<next_id, free_id, slot>>
  BY <1>1 DEF SwapSlot, Free, TypeOK
<1>3. GiveTries' = GiveTries
  BY <1>2, GiveSame
<1>4. Targets("swap_slot") = Targets("swap_slot")' \cup {Concrete(reg[t])}
  BY <1>2, TargetsLeave
<1>5. Untaken' = Untaken
  BY <1>2, <1>4 DEF Untaken, Free
<1>6. Count({"swap_slot"})' = Count({"swap_slot"}) - 1
  BY <1>2, CountMoves, CountIsAt
<1>7. Fetches(next_id, Untaken)' = Fetches(next_id, Untaken)
  BY <1>2, <1>5 DEF Fetches, Concrete
<1>8. Fetches(next_id, Untaken) \in Nat /\ Count({"swap_slot"}) \in Nat
  BY FetchesType, CountIsAt
<1>. QED
  BY <1>3, <1>6, <1>7, <1>8 DEF SeekTries

LEMMA StoreFailsCloser ==
  ASSUME TypeOK, NEW t \in Thread, StoreSlotOccupied(t)
  PROVE  GiveTries' < GiveTries /\ SeekTries' = SeekTries
PROOF
<1>1. /\ pc[t] = "store_slot" /\ Goto(t, "fetch_free", 0, idx[t])
      /\ Free(Concrete(reg[t])) /\ UNCHANGED <<next_id, free_id, slot>>
  BY DEF StoreSlotOccupied, Free, ring
<1>2. SeekTries' = SeekTries
  BY <1>1, SeekSame
<1>3. Targets("store_slot") = Targets("store_slot")' \cup {Concrete(reg[t])}
  BY <1>1, TargetsLeave
<1>4. Unfilled' = Unfilled
  BY <1>1, <1>3 DEF Unfilled, Free
<1>5. Count({"store_slot"})' = Count({"store_slot"}) - 1
  BY <1>1, CountMoves, CountIsAt
<1>6. Fetches(free_id, Unfilled)' = Fetches(free_id, Unfilled)
  BY <1>1, <1>4 DEF Fetches, Concrete
<1>7. Fetches(free_id, Unfilled) \in Nat /\ Count({"store_slot"}) \in Nat
  BY FetchesType, CountIsAt
<1>. QED
  BY <1>2, <1>5, <1>6, <1>7 DEF GiveTries

-----------------------------------------------------------------------------
LEMMA FewerParts == Parts' < Parts => Precedes(rank', rank)
BY DEF rank, Precedes

LEMMA FewerTries == Parts' = Parts /\ Tries' < Tries => Precedes(rank', rank)
BY DEF rank, Precedes

LEMMA FewerRingParts == RingParts' < RingParts => Precedes(ring_rank', ring_rank)
BY DEF ring_rank, Precedes

LEMMA FewerRingTries ==
  RingParts' = RingParts /\ Tries' < Tries => Precedes(ring_rank', ring_rank)
BY DEF ring_rank, Precedes

(* A move to a lighter step.                                               *)
LEMMA MoveOn ==
  ASSUME TypeOK, NEW t \in Thread, NEW step \in Step, NEW r, NEW i, Goto(t, step, r, i)
  PROVE  /\ Weight(step) < Weight(pc[t]) => Precedes(rank', rank)
         /\ RingWeight(step) < RingWeight(pc[t]) => Precedes(ring_rank', ring_rank)
         /\ Weight(step) = Weight(pc[t]) => Parts' = Parts
         /\ RingWeight(step) = RingWeight(pc[t]) => RingParts' = RingParts
PROOF
<1>1. /\ Parts \in Nat /\ Parts' = Parts + Weight(step) - Weight(pc[t])
      /\ RingParts \in Nat /\ RingParts' = RingParts + RingWeight(step) - RingWeight(pc[t])
  BY PartsMove
<1>2. \A s : Weight(s) \in Nat /\ RingWeight(s) \in Nat
  BY DEF Weight, RingWeight
<1>3. /\ Weight(step) < Weight(pc[t]) => Parts' < Parts
      /\ RingWeight(step) < RingWeight(pc[t]) => RingParts' < RingParts
      /\ Weight(step) = Weight(pc[t]) => Parts' = Parts
      /\ RingWeight(step) = RingWeight(pc[t]) => RingParts' = RingParts
  BY <1>1, <1>2
<1>. QED
  BY <1>3, FewerParts, FewerRingParts

(* Within a loop a fetch, or a try that fails, brings its end nearer.      *)
LEMMA RoundCloser ==
  ASSUME CountInv, NEW t \in Thread,
         \/ FetchNextId(t) \/ FetchFreeId(t) \/ StoreSlotOccupied(t)
         \/ SwapSlot(t) /\ ~Free(Concrete(reg[t]))
  PROVE  Precedes(rank', rank) /\ Precedes(ring_rank', ring_rank)
PROOF
<1>1. TypeOK
  BY DEF CountInv
<1>2. Tries' < Tries
  <2>1. \/ SeekTries' < SeekTries /\ GiveTries' = GiveTries
        \/ SeekTries' = SeekTries /\ GiveTries' < GiveTries
    BY <1>1, FetchNextIdCloser, FetchFreeIdCloser, SwapFailsCloser, StoreFailsCloser
  <2>2. /\ SeekTries \in Nat /\ GiveTries \in Nat /\ Tries = SeekTries + GiveTries
        /\ SeekTries' \in Nat /\ GiveTries' \in Nat /\ Tries' = SeekTries' + GiveTries'
    BY TriesAreBoth, TriesStayBoth
  <2>3. ASSUME NEW a \in Nat, NEW b \in Nat, NEW x \in Nat, NEW y \in Nat,
               (x < a /\ y = b) \/ (x = a /\ y < b)
        PROVE  x + y < a + b
    BY <2>3
  <2>. QED
    BY <2>1, <2>2, <2>3
<1>3. Parts' = Parts /\ RingParts' = RingParts
  <2>1. PICK step, r, i :
          /\ {pc[t], step} \subseteq {"fetch_next", "swap_slot", "fetch_free", "store_slot"}
          /\ Goto(t, step, r, i)
    BY DEF FetchNextId, FetchFreeId, StoreSlotOccupied, SwapSlot, Free
  <2>2. step \in Step
    BY <2>1, Zenon DEF Step
  <2>3. Weight(step) = Weight(pc[t]) /\ RingWeight(step) = RingWeight(pc[t])
    BY <2>1 DEF Weight, RingWeight
  <2>. QED
    BY <1>1, <2>1, <2>2, <2>3, MoveOn
<1>. QED
  BY <1>2, <1>3, FewerTries, FewerRingTries

(* Steps that begin an operation or leave a loop.                          *)
LEMMA BeginsCloser ==
  ASSUME CountInv, NEW t \in Thread,
         \/ ReserveSlot(t) \/ \E k \in Key : Evict(t, k)
         \/ SwapSlot(t) /\ Free(Concrete(reg[t]))
         \/ StoreSlot(t)
  PROVE  /\ Precedes(rank', rank)
         /\ pc'[t] # "undo" => Precedes(ring_rank', ring_rank)
PROOF
<1>1. TypeOK
  BY DEF CountInv
<1>2. PICK step, r, i :
        /\ step \in Step
        /\ Goto(t, step, r, i)
        /\ \/ pc[t] = "idle" /\ step \in {"undo", "fetch_next", "fetch_free"}
           \/ pc[t] \in {"swap_slot", "store_slot"} /\ step \in {"publish", "decr"}
  BY DEF ReserveSlot, Evict, SwapSlot, StoreSlot, Free, Step
<1>3. pc'[t] = step
  BY <1>1, <1>2, GotoEffect
<1>4. Weight(step) < Weight(pc[t])
  BY <1>2 DEF Weight
<1>5. step # "undo" => RingWeight(step) < RingWeight(pc[t])
  BY <1>2 DEF RingWeight
<1>. QED
  BY <1>1, <1>2, <1>3, <1>4, <1>5, MoveOn

(* A failed CAS of the undo loop has learnt the counter's value: it fails  *)
(* again only after another thread has changed the counter.                *)
LEMMA RetryCloser ==
  ASSUME CountInv, NEW t \in Thread, UndoRetry(t)
  PROVE  Precedes(rank', rank)
PROOF
<1>1. /\ TypeOK /\ pc[t] = "undo" /\ entries # reg[t] /\ Goto(t, "undo", entries, 0)
      /\ UNCHANGED <<entries, next_id, free_id, slot>>
  BY DEF UndoRetry, CountInv, ring
<1>2. Parts' = Parts
  BY <1>1, MoveOn DEF Step
<1>3. Tries' = Tries
  BY <1>1, SeekSame, GiveSame, TriesAreBoth, TriesStayBoth
<1>4. Stale' = Stale \ {t} /\ t \in Stale
  BY <1>1, GotoEffect DEF Stale
<1>5. Cardinality(Stale') < Cardinality(Stale)
  <2>1. IsFiniteSet(Stale)
    BY FS_Subset, TableAssumption DEF Stale
  <2>2. Cardinality(Stale) \in Nat
    BY <2>1, FS_CardinalityType
  <2>. QED
    BY <1>4, <2>1, <2>2, Shrink
<1>. QED
  BY <1>2, <1>3, <1>5 DEF rank, Precedes

-----------------------------------------------------------------------------
(* Every step brings an end nearer, or is one.                             *)
LEMMA StepsDescend ==
  CountInv /\ [Next]_vars =>
    [Ends(Step \ {"idle"}) \/ Spurious \/ Precedes(rank', rank)]_vars
PROOF
<1>. SUFFICES ASSUME CountInv, NEW t \in Thread, Insert(t) \/ Remove(t)
              PROVE  Ends(Step \ {"idle"}) \/ Spurious \/ Precedes(rank', rank)
  BY DEF Next
<1>1. ASSUME UndoReserve(t) \/ Publish(t) \/ InitPanics(t) \/ DecrEntries(t)
      PROVE  Ends(Step \ {"idle"})
  <2>1. pc[t] \in Step \ {"idle"} /\ Goto(t, "idle", 0, 0) /\ TypeOK
    BY <1>1 DEF UndoReserve, Publish, InitPanics, DecrEntries, Step, CountInv
  <2>2. pc'[t] = "idle"
    BY <2>1, GotoEffect
  <2>. QED
    BY <2>1, <2>2 DEF Ends
<1>2. ASSUME StoreSlotSpurious(t) PROVE Spurious
  BY <1>2 DEF Spurious
<1>. QED
  BY <1>1, <1>2, RoundCloser, BeginsCloser, RetryCloser DEF Insert, Remove

LEMMA RingStepsDescend ==
  CountInv /\ [Next]_vars =>
    [\/ Ends({"publish", "decr"}) \/ Spurious
     \/ Precedes(ring_rank', ring_rank)
     \/ /\ ring_rank' = ring_rank
        /\ \A t \in Thread : Acquiring(t) \/ Releasing(t) => pc'[t] = pc[t]]_vars
PROOF
<1> DEFINE Aside == /\ ring_rank' = ring_rank
                    /\ \A t \in Thread : Acquiring(t) \/ Releasing(t) => pc'[t] = pc[t]
<1>. SUFFICES ASSUME CountInv, NEW t \in Thread, Insert(t) \/ Remove(t)
              PROVE  \/ Ends({"publish", "decr"}) \/ Spurious
                     \/ Precedes(ring_rank', ring_rank) \/ Aside
  BY DEF Next
<1>1. ASSUME Publish(t) \/ InitPanics(t) \/ DecrEntries(t) PROVE Ends({"publish", "decr"})
  <2>1. pc[t] \in {"publish", "decr"} /\ Goto(t, "idle", 0, 0) /\ TypeOK
    BY <1>1 DEF Publish, InitPanics, DecrEntries, CountInv
  <2>2. pc'[t] = "idle"
    BY <2>1, GotoEffect
  <2>. QED
    BY <2>1, <2>2 DEF Ends
<1>2. ASSUME StoreSlotSpurious(t) PROVE Spurious
  BY <1>2 DEF Spurious
<1>3. ASSUME \/ ReserveSlot(t) /\ pc'[t] = "undo"
             \/ UndoReserve(t) \/ UndoRetry(t)
      PROVE  Aside
  <2>1. TypeOK /\ UNCHANGED <<next_id, free_id, slot>>
    BY <1>3 DEF CountInv, ReserveSlot, UndoReserve, UndoRetry, ring
  <2>2. PICK step, r : {pc[t], step} \subseteq {"idle", "undo"} /\ Goto(t, step, r, 0)
    <3>1. CASE ReserveSlot(t) /\ pc'[t] = "undo"
      BY <2>1, <3>1, GotoEffect DEF ReserveSlot
    <3>2. CASE UndoReserve(t) \/ UndoRetry(t)
      BY <3>2 DEF UndoReserve, UndoRetry
    <3>. QED
      BY <1>3, <3>1, <3>2
  <2>3. step \in Step /\ RingWeight(step) = RingWeight(pc[t])
    BY <2>2 DEF Step, RingWeight
  <2>4. RingParts' = RingParts
    BY <2>1, <2>2, <2>3, MoveOn
  <2>5. Tries' = Tries
    BY <2>1, <2>2, SeekSame, GiveSame, TriesAreBoth, TriesStayBoth
  <2>6. \A u \in Thread : Acquiring(u) \/ Releasing(u) => pc'[u] = pc[u]
    BY <2>1, <2>2, GotoEffect DEF Acquiring, Releasing
  <2>. QED
    BY <2>4, <2>5, <2>6 DEF ring_rank
<1>. HIDE DEF Aside
<1>4. ASSUME FetchNextId(t) \/ FetchFreeId(t) \/ StoreSlotOccupied(t) \/ SwapSlot(t)
             \/ StoreSlot(t) \/ \E k \in Key : Evict(t, k)
      PROVE  Precedes(ring_rank', ring_rank)
  <2>1. CASE SwapSlot(t)
    <3>1. pc'[t] # "undo"
      BY <2>1, GotoEffect DEF SwapSlot, CountInv
    <3>. QED
      BY <2>1, <3>1, RoundCloser, BeginsCloser
  <2>2. CASE StoreSlot(t) \/ \E k \in Key : Evict(t, k)
    <3>1. pc'[t] # "undo"
      BY <2>2, GotoEffect DEF StoreSlot, Evict, CountInv
    <3>. QED
      BY <2>2, <3>1, BeginsCloser
  <2>. QED
    BY <1>4, <2>1, <2>2, RoundCloser
<1>. QED
  BY <1>1, <1>2, <1>3, <1>4, BeginsCloser DEF Insert, Remove

(* How far the end can be.                                                 *)
LEMMA RankBounds ==
  /\ Parts <= 3 * Cardinality(Thread)
  /\ Tries <= (4 * LENGTH) + Cardinality(Thread)
  /\ Cardinality(Stale) <= Cardinality(Thread)
PROOF
<1> DEFINE I == {"idle"}
           L == {"undo", "fetch_next", "swap_slot", "fetch_free", "store_slot"}
           P == {"publish", "decr"}
<1>1. IsFiniteSet(Thread) /\ Cardinality(Thread) \in Nat
  BY FS_CardinalityType, TableAssumption
<1>2. ASSUME NEW A, NEW B, A \cap B = {}
      PROVE  Count(A) + Count(B) = Count(A \cup B)
  <2>1. At(A \cup B) = At(A) \cup At(B) /\ At(A) \cap At(B) = {}
    BY <1>2 DEF At
  <2>2. /\ IsFiniteSet(At(A)) /\ IsFiniteSet(At(B)) /\ Cardinality(At(A)) \in Nat
        /\ Cardinality(At(B)) \in Nat /\ Cardinality(At(A) \cap At(B)) = 0
    BY <2>1, AtFinite, FS_EmptySet
  <2>3. Cardinality(At(A) \cup At(B))
          = Cardinality(At(A)) + Cardinality(At(B)) - Cardinality(At(A) \cap At(B))
    BY <2>2, FS_Union
  <2>4. /\ Count(A) = Cardinality(At(A)) /\ Count(B) = Cardinality(At(B))
        /\ Count(A \cup B) = Cardinality(At(A) \cup At(B))
    BY <2>1, CountIsAt
  <2>. QED
    BY <2>2, <2>3, <2>4
<1>3. ASSUME NEW A PROVE Count(A) \in Nat /\ Count(A) <= Cardinality(Thread)
  BY CountIsAt, AtFinite
<1>4. Parts <= 3 * Cardinality(Thread)
  <2>1. Count(I) + Count(L) = Count(I \cup L)
    BY <1>2
  <2>2. Count(I \cup L) + Count(P) = Count((I \cup L) \cup P)
    BY <1>2
  <2>3. Parts = (3 * Count(I)) + (2 * Count(L)) + Count(P)
    BY DEF Parts
  <2>4. /\ Count(I) \in Nat /\ Count(L) \in Nat /\ Count(P) \in Nat
        /\ Count((I \cup L) \cup P) <= Cardinality(Thread)
        /\ Count(I \cup L) \in Nat /\ Count((I \cup L) \cup P) \in Nat
    BY <1>3
  <2>. HIDE DEF I, L, P
  <2>. QED
    BY <1>1, <2>1, <2>2, <2>3, <2>4
<1>5. Tries <= (4 * LENGTH) + Cardinality(Thread)
  <2>1. /\ Fetches(next_id, Untaken) \in Nat /\ Fetches(next_id, Untaken) <= LENGTH
        /\ Fetches(free_id, Unfilled) \in Nat /\ Fetches(free_id, Unfilled) <= LENGTH
    BY FetchesType
  <2>2. Count({"swap_slot"}) + Count({"store_slot"}) = Count({"swap_slot"} \cup {"store_slot"})
    BY <1>2
  <2>3. /\ Count({"swap_slot"}) \in Nat /\ Count({"store_slot"}) \in Nat
        /\ Count({"swap_slot"} \cup {"store_slot"}) <= Cardinality(Thread)
    BY <1>3
  <2>. QED
    BY <1>1, <2>1, <2>2, <2>3, IndexAssumption DEF Tries
<1>6. Cardinality(Stale) <= Cardinality(Thread)
  <2>1. Stale \in SUBSET Thread
    BY DEF Stale
  <2>. QED
    BY <1>1, <2>1, FS_Subset
<1>. QED
  BY <1>4, <1>5, <1>6

(* Lock-freedom in steps: every step ends an operation or descends in an   *)
(* order without infinite descents, from a bounded height; only a weak CAS *)
(* failing spuriously climbs. No thread that has stopped holds it up.      *)
THEOREM OperationsEnd == Spec => LockFreeSteps
BY RankBounds, StepsDescend, CountInvariant, PTL DEF Spec, LockFreeSteps

(* The loops over the ring end by themselves: failing inserts neither hold *)
(* them up nor help.                                                       *)
THEOREM RingLoopsEnd == Spec => RingSteps
BY RingStepsDescend, CountInvariant, PTL DEF Spec, RingSteps
=============================================================================
