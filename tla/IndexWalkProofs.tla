-------------------------- MODULE IndexWalkProofs --------------------------
(***************************************************************************)
(* Theorems about the slot array and the life of an index (IndexWalk.tla)  *)
(* and about its conversions by bits (IndexBits.tla), for every build's    *)
(* capacities, every target and every word width.                          *)
(***************************************************************************)
EXTENDS IndexBits, FiniteSetTheorems, TLAPS

(* What is proved of the conversions, for the table being walked.          *)
IX == INSTANCE IndexProofs WITH LENGTH <- params.LENGTH,
                                CACHE_LINE_SLOTS <- SLOTS_PER_LINE(params)

-----------------------------------------------------------------------------
(* The powers of two that capacities and alignments may be, one by one.    *)
CapacitiesListed ==
  {16, 32, 64, 128, 256, 512, 1024, 2048, 4096, 8192, 16384, 32768, 65536,
   131072, 262144, 524288, 1048576, 2097152, 4194304, 8388608, 16777216,
   33554432, 67108864, 134217728}
PowersListed ==
  CapacitiesListed \cup {1, 2, 4, 8, 268435456, 536870912, 1073741824}

CAP_LIMIT == 134217728

LEMMA Powers ==
  PowersOfTwo = PowersListed /\ CapacityEnum = CapacitiesListed
PROOF
<1> DEFINE pow(i) == 2^i
<1>1. /\ pow(0) = 1 /\ pow(1) = 2 /\ pow(2) = 4 /\ pow(3) = 8
      /\ pow(28) = 268435456 /\ pow(29) = 536870912 /\ pow(30) = 1073741824
  BY SMT
<1>2. /\ pow(4) = 16 /\ pow(5) = 32 /\ pow(6) = 64 /\ pow(7) = 128
      /\ pow(8) = 256 /\ pow(9) = 512 /\ pow(10) = 1024 /\ pow(11) = 2048
      /\ pow(12) = 4096 /\ pow(13) = 8192 /\ pow(14) = 16384
      /\ pow(15) = 32768 /\ pow(16) = 65536 /\ pow(17) = 131072
      /\ pow(18) = 262144 /\ pow(19) = 524288 /\ pow(20) = 1048576
      /\ pow(21) = 2097152 /\ pow(22) = 4194304 /\ pow(23) = 8388608
      /\ pow(24) = 16777216 /\ pow(25) = 33554432 /\ pow(26) = 67108864
      /\ pow(27) = 134217728
  BY SMT
<1>3. PowersOfTwo = {pow(i) : i \in 0..30} /\ CapacityEnum = {pow(i) : i \in 4..27}
  BY Zenon DEF PowersOfTwo, CapacityEnum
<1>. HIDE DEF pow
<1>4. \A k \in 4..27 : pow(k) \in CapacitiesListed
  BY <1>2, SMT DEF CapacitiesListed
<1>5. \A p \in CapacitiesListed : \E k \in 4..27 : p = pow(k)
  BY <1>2, SMT DEF CapacitiesListed
<1>6. CapacityEnum = CapacitiesListed
  BY <1>3, <1>4, <1>5, Zenon
<1>7. \A k \in 0..30 : k \in 4..27 \/ pow(k) \in {1, 2, 4, 8, 268435456, 536870912, 1073741824}
  BY <1>1, SMT
<1>8. \A p \in PowersListed : \E k \in 0..30 : p = pow(k)
  <2>1. \A p \in {1, 2, 4, 8, 268435456, 536870912, 1073741824} :
           \E k \in 0..30 : p = pow(k)
    BY <1>1, SMT
  <2>2. \A k \in 4..27 : k \in 0..30
    BY SMT
  <2>. QED
    BY <1>5, <2>1, <2>2, SMT DEF PowersListed
<1>9. \A k \in 0..30 : pow(k) \in PowersListed
  BY <1>4, <1>7, SMT DEF PowersListed
<1>10. PowersOfTwo = PowersListed
  BY <1>3, <1>8, <1>9, Zenon
<1>. QED
  BY <1>6, <1>10, Zenon

(* A capacity divides those above it.                                      *)
LEMMA CapacityDivides ==
  ASSUME NEW c \in CapacityEnum, NEW d \in CapacityEnum, c <= d
  PROVE  d % c = 0
PROOF
BY Powers, SMTT(60) DEF CapacitiesListed

(* The next power of two exists if any power is left.                      *)
LEMMA LeastPower ==
  ASSUME NEW n \in Nat, next_powers(n) # {}
  PROVE  /\ Min(next_powers(n)) \in next_powers(n)
         /\ \A p \in next_powers(n) : Min(next_powers(n)) <= p
PROOF
<1>1. \E m \in next_powers(n) : \A p \in next_powers(n) : m <= p
  BY Powers, ParamsAssumption, SMTT(60) DEF next_powers, PowersListed, CapacitiesListed
<1>. QED
  BY <1>1, Zenon DEF Min
LEMMA Lines ==
  ASSUME NEW P, P.word \in {4, 8}
  PROVE  /\ CACHE_LINE(P.arch) \in {16, 32, 64, 128, 256}
         /\ SLOTS_PER_LINE(P) \in {2, 4, 8, 16, 32, 64}
         /\ CACHE_LINE(P.arch) = SLOTS_PER_LINE(P) * P.word
PROOF
<1>1. CACHE_LINE(P.arch) \in {16, 32, 64, 128, 256}
  BY SMT DEF CACHE_LINE
<1>. QED
  BY <1>1, SMT DEF SLOTS_PER_LINE

LEMMA CapacityRange ==
  ASSUME NEW c \in CapacityEnum
  PROVE  c \in Nat /\ c >= 16 /\ c <= CAP_LIMIT /\ c \in PowersOfTwo
PROOF
BY Powers, SMT DEF PowersListed, CapacitiesListed, CAP_LIMIT

(* The padded array, for the record P of any table.                        *)
LEMMA Padding ==
  ASSUME NEW P, P.LENGTH \in CapacityEnum, P.word \in {4, 8}
  PROVE  LET line == CACHE_LINE(P.arch)
             size == P.LENGTH * P.word
         IN  /\ BLOCKS(P) \in Nat \ {0}
             /\ MEMORY(P) = BLOCKS(P) * line
             /\ size <= BLOCKS(P) * line /\ BLOCKS(P) * line < size + line
             /\ BLOCKS(P) * line <= ISIZE_MAX - (line - 1)
             /\ (BLOCKS(P) * line) % line = 0
PROOF
<1> DEFINE line == CACHE_LINE(P.arch)
           size == P.LENGTH * P.word
           q == (size + line - 1) \div line
<1>1. line \in {16, 32, 64, 128, 256}
  BY Lines
<1>2. size \in Nat /\ size >= 64 /\ size <= 8 * CAP_LIMIT
  BY CapacityRange, SMT DEF CAP_LIMIT
<1>3. mem_align(P) = q * line
  BY DEF mem_align
<1>. HIDE DEF line, size
<1>4. /\ q \in Nat \ {0}
      /\ size <= q * line /\ q * line < size + line
      /\ (q * line) \div line = q /\ (q * line) % line = 0
  BY <1>1, <1>2, SMT
<1>. HIDE DEF q
<1>5. q * line <= ISIZE_MAX - (line - 1)
  BY <1>1, <1>2, <1>4, SMT DEF ISIZE_MAX, CAP_LIMIT
<1>6. ~(q * line > ISIZE_MAX)
  BY <1>1, <1>4, <1>5, SMT DEF ISIZE_MAX
<1>7. BLOCKS(P) = q
  BY <1>3, <1>4, <1>6, Zenon DEF BLOCKS, line
<1>. QED
  BY <1>4, <1>5, <1>7, Zenon DEF MEMORY, line, size
-----------------------------------------------------------------------------
LEMMA MinMax ==
  ASSUME NEW a \in Nat, NEW b \in Nat
  PROVE  /\ Max({a, b}) = IF a <= b THEN b ELSE a
         /\ Min({a, b}) = IF a <= b THEN a ELSE b
PROOF
<1>1. /\ \E m \in {a, b} : \A x \in {a, b} : m >= x
      /\ \E m \in {a, b} : \A x \in {a, b} : m <= x
  BY SMT
<1>2. /\ Max({a, b}) \in {a, b} /\ \A x \in {a, b} : Max({a, b}) >= x
      /\ Min({a, b}) \in {a, b} /\ \A x \in {a, b} : Min({a, b}) <= x
  BY <1>1, Zenon DEF Max, Min
<1>. QED
  BY <1>2, SMT

LEMMA Bounds ==
  /\ CAP_MIN \in CapacityEnum /\ CAP_MAX \in CapacityEnum /\ CAP_DEF \in CapacityEnum
  /\ CAP_MIN \in Nat /\ CAP_MAX \in Nat /\ CAP_DEF \in Nat
  /\ CAP_MIN <= CAP_DEF /\ CAP_DEF <= CAP_MAX
  /\ CAP_MAX \in PowersOfTwo /\ CAP_MAX < USIZE /\ USIZE \in Nat
PROOF
BY CapacityRange, ParamsAssumption

(* Capacity::new: the least capacity that holds n entries, or MAX.         *)
LEMMA CapacityNew ==
  ASSUME NEW n \in Nat
  PROVE  /\ Capacity(n) \in CapacityEnum
         /\ CAP_MIN <= Capacity(n) /\ Capacity(n) <= CAP_MAX
         /\ n <= CAP_MAX => n <= Capacity(n)
         /\ \A d \in CapacityEnum \cap CAP_MIN..CAP_MAX : d < Capacity(n) => d < n
PROOF
<1>1. \A d \in CapacityEnum \cap CAP_MIN..CAP_MAX :
         d \in Nat /\ (d < n \/ d \in next_powers(n))
  BY CapacityRange, Bounds, SMT DEF next_powers
<1>2. CASE next_powers(n) = {}
  <2>1. Capacity(n) = CAP_MAX
    BY <1>2, Zenon DEF Capacity
  <2>2. CAP_MAX \in CapacityEnum \cap CAP_MIN..CAP_MAX
    BY Bounds
  <2>. QED
    BY <1>1, <1>2, <2>1, <2>2, Bounds
<1>3. CASE next_powers(n) # {}
  <2> DEFINE m == Min(next_powers(n))
             x == Max({CAP_MIN, m})
             c == Min({CAP_MAX, x})
  <2>1. /\ m \in PowersOfTwo /\ m >= n
        /\ \A p \in next_powers(n) : m <= p
    BY <1>3, LeastPower, Zenon DEF next_powers
  <2>2. m \in Nat /\ (m >= CAP_MIN /\ m <= CAP_MAX => m \in CapacityEnum)
    <3>1. \A p \in PowersOfTwo : /\ p \in Nat
                                 /\ 16 <= p /\ p <= CAP_LIMIT => p \in CapacityEnum
      BY Powers, SMT DEF PowersListed, CapacitiesListed, CAP_LIMIT
    <3>2. CAP_MIN >= 16 /\ CAP_MAX <= CAP_LIMIT /\ CAP_LIMIT \in Nat
      BY Bounds, CapacityRange, SMT DEF CAP_LIMIT
    <3>. HIDE DEF m
    <3>. QED
      BY <2>1, <3>1, <3>2, Bounds
  <2>3. Capacity(n) = c
    BY <1>3, Zenon DEF Capacity
  <2>. HIDE DEF m
  <2>4. x = IF CAP_MIN <= m THEN m ELSE CAP_MIN
    BY <2>2, Bounds, MinMax
  <2>. HIDE DEF x
  <2>5. x \in Nat
    BY <2>2, <2>4, Bounds
  <2>6. c = IF CAP_MAX <= x THEN CAP_MAX ELSE x
    BY <2>5, Bounds, MinMax
  <2>. HIDE DEF c
  <2>7. ASSUME NEW d \in CapacityEnum \cap CAP_MIN..CAP_MAX, d < c
        PROVE  d < n
    BY <1>1, <2>1, <2>2, <2>4, <2>6, <2>7, Bounds
  <2>8. /\ c \in CapacityEnum /\ CAP_MIN <= c /\ c <= CAP_MAX
        /\ n <= CAP_MAX => n <= c
    BY <2>1, <2>2, <2>4, <2>6, Bounds
  <2>. QED
    BY <2>3, <2>7, <2>8
<1>. QED
  BY <1>2, <1>3
-----------------------------------------------------------------------------
(* The constants of the table being walked.                                *)
Tabled ==
  /\ params \in [N : Nat, LENGTH : CapacityEnum, arch : STRING, word : {4, 8}]
  /\ CapacityFits

LEMMA Shape ==
  ASSUME Tabled
  PROVE  /\ params.LENGTH \in CapacityEnum /\ params.word \in {4, 8}
         /\ params.LENGTH \in Nat \ {0} /\ params.LENGTH < USIZE
         /\ USIZE % params.LENGTH = 0
         /\ SLOTS_PER_LINE(params) \in Nat \ {0}
         /\ BLOCKS(params) \in Nat \ {0}
         /\ ~LineFits => BLOCKS(params) = 1
         /\ LineFits => /\ params.LENGTH % SLOTS_PER_LINE(params) = 0
                        /\ BLOCKS(params) = params.LENGTH \div SLOTS_PER_LINE(params)
PROOF
<1> DEFINE L == params.LENGTH
           S == SLOTS_PER_LINE(params)
           w == params.word
           B == BLOCKS(params)
<1>1. L \in CapacityEnum /\ w \in {4, 8} /\ CAP_MIN <= L /\ L <= CAP_MAX
  BY DEF Tabled, CapacityFits, is_valid
<1>2. L \in Nat /\ L >= 16 /\ L <= CAP_MAX /\ CAP_MAX % L = 0
  BY <1>1, CapacityRange, CapacityDivides, Bounds
<1>3. USIZE % L = 0
  <2> DEFINE k == USIZE \div CAP_MAX
             j == CAP_MAX \div L
  <2>1. /\ k \in Nat /\ USIZE = (k * CAP_MAX) + (USIZE % CAP_MAX)
        /\ j \in Nat /\ CAP_MAX = (j * L) + (CAP_MAX % L)
    <3>1. CAP_MAX \in Nat \ {0} /\ L \in Nat \ {0}
      BY <1>2, Bounds
    <3>. HIDE DEF L
    <3>. QED
      BY <3>1, Bounds, SMT
  <2>2. USIZE % CAP_MAX = 0
    BY ParamsAssumption
  <2>. HIDE DEF k, j, L
  <2>3. USIZE = (k * j) * L /\ k * j \in Nat
    BY <1>2, <2>1, <2>2, Bounds, SMT
  <2>4. ASSUME NEW n \in Nat PROVE (n * L) % L = 0
    BY <1>2, <2>4, SMT
  <2>. QED
    BY <2>3, <2>4
<1>4. /\ S \in {2, 4, 8, 16, 32, 64}
      /\ CACHE_LINE(params.arch) = S * w
      /\ B \in Nat \ {0}
      /\ L * w <= B * (S * w) /\ B * (S * w) < (L * w) + (S * w)
  <2>1. S \in {2, 4, 8, 16, 32, 64} /\ CACHE_LINE(params.arch) = S * w
    BY <1>1, Lines
  <2>2. /\ B \in Nat \ {0}
        /\ L * w <= B * CACHE_LINE(params.arch)
        /\ B * CACHE_LINE(params.arch) < (L * w) + CACHE_LINE(params.arch)
    BY <1>1, Padding
  <2>. QED
    BY <2>1, <2>2, Zenon
<1>5. LineFits <=> S <= L
  BY DEF LineFits
<1>6. S <= L => L % S = 0
  <2>1. \A c \in CapacitiesListed : \A e \in {2, 4, 8, 16, 32, 64} : e <= c => c % e = 0
    BY SMTT(60) DEF CapacitiesListed
  <2>. QED
    BY <1>1, <1>4, <2>1, Powers, Zenon
<1>. HIDE DEF L, S, w, B
<1>7. L <= B * S /\ B * S < L + S
  <2>1. CASE w = 4
    BY <1>2, <1>4, <2>1, SMT
  <2>2. CASE w = 8
    BY <1>2, <1>4, <2>2, SMT
  <2>. QED
    BY <1>1, <2>1, <2>2
<1>8. ~(S <= L) => B = 1
  BY <1>2, <1>4, <1>7, SMT
<1>9. S <= L => B = L \div S
  BY <1>2, <1>4, <1>6, <1>7, SMT
<1>. QED
  BY <1>1, <1>2, <1>3, <1>4, <1>5, <1>6, <1>8, <1>9, Bounds DEF L, S, w, B

(* IndexAssumption holds of every table whose line fits it.                *)
LEMMA Admitted ==
  ASSUME Tabled, LineFits
  PROVE  /\ A!IndexAssumption /\ IX!IndexAssumption
         /\ A!BLOCKS = BLOCKS(params) /\ IX!BLOCKS = BLOCKS(params)
PROOF
BY Shape, Bounds DEF A!IndexAssumption, IX!IndexAssumption, A!BLOCKS, IX!BLOCKS

(* The functions this module has of its own are those of Index.            *)
LEMMA SameFunctions ==
  ASSUME Tabled, LineFits, NEW a
  PROVE  /\ A!initial_slot(a) = initial_slot(params, a)
         /\ IX!initial_slot(a) = initial_slot(params, a)
         /\ A!generate_next_slot(a) = generate_next_slot(params, a)
         /\ IX!generate_next_slot(a) = generate_next_slot(params, a)
         /\ A!abstract_to_concrete(a) = IX!abstract_to_concrete(a)
         /\ A!abstract_to_detached(a) = IX!abstract_to_detached(a)
         /\ A!detached_to_abstract(a) = IX!detached_to_abstract(a)
         /\ A!detached_to_concrete(a) = IX!detached_to_concrete(a)
PROOF
<1>1. A!BLOCKS = BLOCKS(params) /\ IX!BLOCKS = BLOCKS(params)
  BY Admitted
<1>2. A!RESERVED = USIZE - 1 /\ IX!RESERVED = USIZE - 1
  BY DEF A!RESERVED, IX!RESERVED
<1>3. A!abstract_to_concrete(a) = IX!abstract_to_concrete(a)
  BY <1>1, Zenon DEF A!abstract_to_concrete, IX!abstract_to_concrete
<1>4. /\ A!initial_slot(a) = initial_slot(params, a)
      /\ IX!initial_slot(a) = initial_slot(params, a)
  BY <1>1, Zenon DEF A!initial_slot, IX!initial_slot, initial_slot
<1>5. /\ A!generate_next_slot(a) = generate_next_slot(params, a)
      /\ IX!generate_next_slot(a) = generate_next_slot(params, a)
  BY <1>2, Zenon DEF A!generate_next_slot, IX!generate_next_slot, generate_next_slot
<1>6. A!abstract_to_detached(a) = IX!abstract_to_detached(a)
  BY <1>3, Zenon DEF A!abstract_to_detached, IX!abstract_to_detached
<1>7. /\ A!detached_to_abstract(a) = IX!detached_to_abstract(a)
      /\ A!detached_to_concrete(a) = IX!detached_to_concrete(a)
  BY <1>1, Zenon DEF A!detached_to_abstract, IX!detached_to_abstract,
                     A!detached_to_concrete, IX!detached_to_concrete
<1>. QED
  BY <1>3, <1>4, <1>5, <1>6, <1>7

(* Where an offset's slot starts, on any line length.                      *)
LEMMA InitialOffset ==
  ASSUME Tabled, NEW c \in 0..(params.LENGTH - 1)
  PROVE  initial_slot(params, c) \in 0..(params.LENGTH - 1)
PROOF
<1>1. CASE LineFits
  BY <1>1, Admitted, SameFunctions, IX!InitialSlot DEF IX!Offset
<1>2. CASE ~LineFits
  <2>1. /\ BLOCKS(params) = 1 /\ SLOTS_PER_LINE(params) \in Nat
        /\ params.LENGTH \in Nat /\ params.LENGTH < SLOTS_PER_LINE(params)
    BY <1>2, Shape DEF LineFits
  <2>2. /\ c % SLOTS_PER_LINE(params) = c /\ c \div SLOTS_PER_LINE(params) = 0
    BY <2>1, SMT
  <2>. QED
    BY <2>1, <2>2 DEF initial_slot
<1>. QED
  BY <1>1, <1>2
-----------------------------------------------------------------------------
(* Recycling adds LENGTH until the sum is the last word or beyond.         *)
LEMMA NextIndex ==
  ASSUME Tabled, NEW a \in 0..(USIZE - 2)
  PROVE  /\ generate_next_slot(params, a) \in 0..(USIZE - 2)
         /\ a + params.LENGTH < USIZE - 1
              => generate_next_slot(params, a) = a + params.LENGTH
PROOF
<1> DEFINE L == params.LENGTH
           next == (a + L) % USIZE
<1>1. L \in Nat \ {0} /\ USIZE \in Nat \ {0} /\ L < USIZE /\ a \in Nat
  BY Shape, Bounds
<1>2. generate_next_slot(params, a) = IF next = USIZE - 1 THEN (next + L) % USIZE ELSE next
  BY DEF generate_next_slot
<1>. HIDE DEF L
<1>3. \A w \in Nat : w < USIZE => w % USIZE = w
  BY <1>1
<1>4. next \in 0..(USIZE - 1)
  BY <1>1
<1>5. ((USIZE - 1) + L) % USIZE = L - 1
  <2>1. /\ (USIZE - 1) + L = (1 * USIZE) + (L - 1)
        /\ L - 1 \in 0..(USIZE - 1)
    BY <1>1
  <2>2. ((1 * USIZE) + (L - 1)) % USIZE = L - 1
    BY <1>1, <2>1
  <2>. QED
    BY <2>1, <2>2
<1>6. a + L < USIZE - 1 => next = a + L
  BY <1>1, <1>3
<1>. HIDE DEF next
<1>. QED
  BY <1>1, <1>2, <1>4, <1>5, <1>6 DEF L

(* The inductive invariant. The array holds the index each offset starts   *)
(* with; the slot that is followed keeps its cell, and until the last of   *)
(* its generations its index is the initial one plus LENGTH a reuse.       *)
WalkInv ==
  /\ TypeOK
  /\ CapacityFits
  /\ \A i \in DOMAIN slots : slots[i] = initial_slot(params, i - 1)
  /\ Walking =>
       /\ LineFits => A!abstract_to_concrete(index) = home
       /\ reuses <= Generations - 2 =>
            index = initial_slot(params, home) + (reuses * params.LENGTH)
  /\ ~Walking => index = 0 /\ reuses = 0

LEMMA WalkTabled == WalkInv => Tabled
PROOF
BY DEF WalkInv, TypeOK, Tabled

(* usize holds so many generations of the table.                           *)
LEMMA GenerationCount ==
  ASSUME Tabled
  PROVE  Generations \in Nat \ {0} /\ Generations * params.LENGTH = USIZE
PROOF
<1> DEFINE L == params.LENGTH
<1>1. L \in Nat \ {0} /\ USIZE \in Nat /\ L < USIZE /\ USIZE % L = 0
  BY Shape, Bounds
<1>2. Generations = USIZE \div L
  BY DEF Generations
<1>. HIDE DEF L
<1>3. (USIZE \div L) \in Nat /\ USIZE = ((USIZE \div L) * L) + (USIZE % L)
  BY <1>1
<1>. QED
  BY <1>1, <1>2, <1>3 DEF L

LEMMA InitWalk == Init => WalkInv
PROOF
<1>. SUFFICES ASSUME Init PROVE WalkInv
  OBVIOUS
<1>1. PICK p \in {DefaultParams} \cup {ConstParams(n) : n \in Requested}, t \in Targets :
         params = [N |-> p.N, LENGTH |-> p.LENGTH, arch |-> t.arch, word |-> t.word]
  BY DEF Init
<1>2. /\ t \in [arch : STRING, word : {4, 8}]
      /\ Requested \subseteq Nat
  BY WalkAssumption
<1> DEFINE Right(q) ==
             /\ q.N \in Nat /\ q.LENGTH \in CapacityEnum
             /\ CAP_MIN <= q.LENGTH /\ q.LENGTH <= CAP_MAX
             /\ q.N <= CAP_MAX => q.N <= q.LENGTH
             /\ \A d \in CapacityEnum \cap CAP_MIN..CAP_MAX : d < q.LENGTH => d < q.N
<1>3. Right(p)
  <2>1. CASE p = DefaultParams
    <3>1. p.N = CAP_DEF /\ p.LENGTH = CAP_DEF
      BY <2>1 DEF DefaultParams
    <3>. QED
      BY <3>1, Bounds
  <2>2. ASSUME NEW n \in Requested, p = ConstParams(n)
        PROVE  Right(p)
    <3>1. p.N = n /\ p.LENGTH = Capacity(n)
      BY <2>2 DEF ConstParams
    <3>. QED
      BY <1>2, <3>1, CapacityNew
  <2>. QED
    BY <2>1, <2>2
<1>4. /\ params \in [N : Nat, LENGTH : CapacityEnum, arch : STRING, word : {4, 8}]
      /\ params.N = p.N /\ params.LENGTH = p.LENGTH
  BY <1>1, <1>2, <1>3
<1>5. CapacityFits
  BY <1>3, <1>4, CapacityRange DEF CapacityFits, is_valid
<1>6. Tabled
  BY <1>4, <1>5 DEF Tabled
<1>7. slots = << >> /\ home = USIZE /\ index = 0 /\ reuses = 0
  BY DEF Init, new_uninit, Nowhere
<1>8. TypeOK
  BY <1>4, <1>6, <1>7, Shape, GenerationCount, Bounds DEF TypeOK, Nowhere
<1>. QED
  BY <1>5, <1>7, <1>8 DEF WalkInv, Walking, Nowhere

LEMMA NextWalk == WalkInv /\ [Next]_vars => WalkInv'
PROOF
<1>. SUFFICES ASSUME WalkInv, [Next]_vars PROVE WalkInv'
  OBVIOUS
<1> DEFINE L == params.LENGTH
<1>0. Tabled
  BY WalkTabled
<1>1. /\ L \in Nat \ {0} /\ L < USIZE /\ USIZE \in Nat
      /\ Generations \in Nat \ {0} /\ Generations * L = USIZE
  BY <1>0, Shape, Bounds, GenerationCount
<1>2. ASSUME NEW c \in 0..(L - 1)
      PROVE  initial_slot(params, c) \in 0..(L - 1)
  BY <1>0, InitialOffset
<1>3. CASE InitElement
  <2>1. /\ home = USIZE /\ index = 0 /\ reuses = 0
        /\ Len(slots) \in 0..(L - 1)
        /\ slots \in Seq(0..(USIZE - 2))
    BY <1>1, <1>3 DEF InitElement, WalkInv, TypeOK, Walking, Nowhere, init_range
  <2>2. /\ slots' = Append(slots, initial_slot(params, Len(slots)))
        /\ UNCHANGED <<params, home, index, reuses>>
    BY <1>3 DEF InitElement
  <2>3. initial_slot(params, Len(slots)) \in 0..(USIZE - 2)
    BY <1>1, <1>2, <2>1
  <2>4. slots' \in Seq(0..(USIZE - 2)) /\ Len(slots') = Len(slots) + 1
    BY <2>1, <2>2, <2>3
  <2>5. \A i \in DOMAIN slots' : slots'[i] = initial_slot(params, i - 1)
    <3>. TAKE i \in DOMAIN slots'
    <3>1. i \in 1..(Len(slots) + 1)
      BY <2>4
    <3>2. CASE i = Len(slots) + 1
      BY <2>1, <2>2, <3>2
    <3>3. CASE i \in 1..Len(slots)
      BY <2>1, <2>2, <3>3 DEF WalkInv
    <3>. QED
      BY <2>1, <3>1, <3>2, <3>3
  <2>6. TypeOK'
    BY <1>1, <2>1, <2>2, <2>4 DEF WalkInv, TypeOK, Nowhere, Generations
  <2>7. CapacityFits'
    BY <2>2 DEF WalkInv, CapacityFits
  <2>. QED
    BY <2>1, <2>2, <2>5, <2>6, <2>7 DEF WalkInv, Walking, Nowhere
<1>4. CASE assume_init
  <2>1. /\ ~Walking /\ reuses = 0
        /\ UNCHANGED <<params, slots, reuses>>
        /\ Len(slots) = L /\ slots \in Seq(0..(USIZE - 2))
    BY <1>4 DEF assume_init, Filled, WalkInv, TypeOK, init_range
  <2>2. PICK i \in DOMAIN slots : home' = i - 1 /\ index' = slots[home' + 1]
    BY <1>4 DEF assume_init
  <2>3. i \in 1..L /\ index' = slots[i]
    BY <1>1, <2>1, <2>2
  <2>4. home' \in 0..(L - 1) /\ index' = initial_slot(params, home')
    BY <1>1, <2>2, <2>3 DEF WalkInv
  <2>5. index' \in 0..(USIZE - 2)
    BY <1>1, <1>2, <2>4
  <2>6. LineFits => A!abstract_to_concrete(index') = home'
    <3>. HAVE LineFits
    <3>1. A!abstract_to_concrete(index') = IX!abstract_to_concrete(index')
      BY <1>0, SameFunctions
    <3>2. IX!initial_slot(home') = index'
      BY <1>0, <2>4, SameFunctions
    <3>3. IX!abstract_to_concrete(IX!initial_slot(home')) = home'
      BY <1>0, <2>4, Admitted, IX!InitialSlot DEF IX!Offset
    <3>. QED
      BY <3>1, <3>2, <3>3
  <2>7. TypeOK'
    BY <1>1, <2>1, <2>4, <2>5 DEF WalkInv, TypeOK, Generations
  <2>8. CapacityFits' /\ (LineFits' <=> LineFits)
    BY <2>1 DEF WalkInv, CapacityFits, LineFits
  <2>9. LineFits => (A!abstract_to_concrete(index) = home)'
    BY <2>1, <2>6 DEF A!abstract_to_concrete, A!BLOCKS
  <2>10. index' = initial_slot(params, home') + (reuses' * L)
    BY <1>1, <1>2, <2>1, <2>4
  <2>11. /\ \A k \in DOMAIN slots' : slots'[k] = initial_slot(params', k - 1)
         /\ Walking'
         /\ index' = initial_slot(params', home') + (reuses' * params'.LENGTH)
    BY <1>1, <2>1, <2>4, <2>10 DEF WalkInv, Walking, Nowhere
  <2>. QED
    BY <2>7, <2>8, <2>9, <2>11 DEF WalkInv
<1>5. CASE Recycle
  <2>1. /\ Walking /\ reuses < Generations
        /\ index' = generate_next_slot(params, index)
        /\ reuses' = reuses + 1
        /\ UNCHANGED <<params, slots, home>>
    BY <1>5 DEF Recycle
  <2>2. /\ index \in 0..(USIZE - 2) /\ reuses \in Nat
        /\ home \in 0..(L - 1)
    BY <2>1 DEF WalkInv, TypeOK, Walking
  <2>3. index' \in 0..(USIZE - 2)
    BY <1>0, <2>1, <2>2, NextIndex
  <2>4. ASSUME LineFits PROVE A!abstract_to_concrete(index') = home
    <3>1. IX!IndexAssumption
      BY <1>0, <2>4, Admitted
    <3>2. index \in IX!Word
      BY <1>1, <2>2 DEF IX!Word
    <3>3. IX!abstract_to_concrete(IX!generate_next_slot(index)) = IX!abstract_to_concrete(index)
      BY <3>1, <3>2, IX!NextSlot
    <3>4. /\ IX!generate_next_slot(index) = index'
          /\ A!abstract_to_concrete(index') = IX!abstract_to_concrete(index')
          /\ A!abstract_to_concrete(index) = IX!abstract_to_concrete(index)
      BY <1>0, <2>1, <2>4, SameFunctions
    <3>5. A!abstract_to_concrete(index) = home
      BY <2>1, <2>4 DEF WalkInv
    <3>. QED
      BY <3>3, <3>4, <3>5
  <2>5. ASSUME reuses' <= Generations - 2
        PROVE  index' = initial_slot(params, home) + (reuses' * L)
    <3> DEFINE start == initial_slot(params, home)
               G == Generations
    <3>1. start \in 0..(L - 1) /\ index = start + (reuses * L)
      BY <1>1, <1>2, <2>1, <2>2, <2>5 DEF WalkInv
    <3>. HIDE DEF L, G, start
    <3>2. G \in Nat /\ G * L = USIZE /\ reuses + 1 <= G - 2
      BY <1>1, <2>1, <2>5 DEF G, L
    <3>3. reuses' * L = (reuses * L) + L
      BY <1>1, <2>1, <2>2
    <3>4. (reuses + 1) * L <= (G - 2) * L
      BY <1>1, <2>2, <3>2 DEF L
    <3>5. (G - 2) * L = (USIZE - L) - L /\ (reuses + 1) * L = (reuses * L) + L
      BY <1>1, <2>2, <3>2 DEF L
    <3>6. reuses * L \in Nat
      BY <1>1, <2>2 DEF L
    <3>7. index + L < USIZE - 1
      BY <1>1, <3>1, <3>4, <3>5, <3>6 DEF L
    <3>8. index' = index + L
      BY <1>0, <2>1, <2>2, <3>7, NextIndex DEF L
    <3>. QED
      BY <1>1, <3>1, <3>3, <3>6, <3>8 DEF start, L
  <2>6. TypeOK'
    BY <1>1, <2>1, <2>2, <2>3 DEF WalkInv, TypeOK, Generations
  <2>7. CapacityFits' /\ (LineFits' <=> LineFits)
    BY <2>1 DEF WalkInv, CapacityFits, LineFits
  <2>8. LineFits => (A!abstract_to_concrete(index) = home)'
    BY <2>1, <2>4 DEF A!abstract_to_concrete, A!BLOCKS
  <2>9. /\ \A k \in DOMAIN slots' : slots'[k] = initial_slot(params', k - 1)
        /\ Walking' /\ Generations' = Generations
        /\ initial_slot(params', home') + (reuses' * params'.LENGTH)
             = initial_slot(params, home) + (reuses' * L)
    BY <2>1 DEF WalkInv, Walking, Nowhere, Generations
  <2>. QED
    BY <2>5, <2>6, <2>7, <2>8, <2>9 DEF WalkInv
<1>6. CASE UNCHANGED vars
  BY <1>6 DEF vars, WalkInv, TypeOK, CapacityFits, Walking, Nowhere, Generations,
              LineFits, A!abstract_to_concrete, A!BLOCKS
<1>. QED
  BY <1>3, <1>4, <1>5, <1>6 DEF Next

LEMMA WalkInvariant == Spec => []WalkInv
PROOF
BY InitWalk, NextWalk, PTL DEF Spec

(* The index a slot holds is a word, and never RESERVED.                   *)
THEOREM IndexTyped == Spec => []TypeOK
PROOF
<1>1. WalkInv => TypeOK
  BY DEF WalkInv
<1>. QED
  BY <1>1, WalkInvariant, PTL

(* Capacity::new rounds up and clamps, whatever is asked for.              *)
THEOREM CapacitiesFit == Spec => []CapacityFits
PROOF
<1>1. WalkInv => CapacityFits
  BY DEF WalkInv
<1>. QED
  BY <1>1, WalkInvariant, PTL

(* The layout Array::new_uninit allocates is one, for every capacity, on   *)
(* every target.                                                           *)
THEOREM LayoutsAreValid == Spec => []LayoutValid
PROOF
<1>1. ASSUME WalkInv PROVE LayoutValid
  <2>. SUFFICES ASSUME NEW c \in CapacityEnum
                PROVE  LET P == [params EXCEPT !.LENGTH = c]
                           layout == LAYOUT(P)
                       IN  /\ layout.size # 0 /\ layout.align \in PowersOfTwo
                           /\ layout.size % layout.align = 0
                           /\ layout.size <= ISIZE_MAX - (layout.align - 1)
                           /\ c * P.word <= layout.size
    BY DEF LayoutValid
  <2> DEFINE P == [params EXCEPT !.LENGTH = c]
             line == CACHE_LINE(P.arch)
  <2>1. P.LENGTH = c /\ P.word \in {4, 8}
    BY <1>1 DEF WalkInv, TypeOK
  <2>2. LAYOUT(P).size = MEMORY(P) /\ LAYOUT(P).align = line
    BY DEF LAYOUT
  <2>. HIDE DEF P
  <2>3. line \in {16, 32, 64, 128, 256}
    BY <2>1, Lines
  <2>4. line \in PowersOfTwo
    BY <2>3, Powers, SMT DEF PowersListed, CapacitiesListed
  <2>5. /\ BLOCKS(P) \in Nat \ {0} /\ MEMORY(P) = BLOCKS(P) * line
        /\ c * P.word <= MEMORY(P)
        /\ MEMORY(P) <= ISIZE_MAX - (line - 1)
        /\ MEMORY(P) % line = 0
    BY <2>1, Padding
  <2>6. MEMORY(P) # 0
    BY <2>3, <2>5, SMT
  <2>. QED
    BY <2>2, <2>4, <2>5, <2>6, Zenon DEF P
<1>. QED
  BY <1>1, WalkInvariant, PTL

(* What every other module assumes of a table is so of every table the     *)
(* program has, if a cache line fits it.                                   *)
THEOREM TablesAdmitIndex == Spec => []AdmitsIndex
PROOF
<1>1. WalkInv => AdmitsIndex
  BY WalkTabled, Admitted, SameFunctions DEF AdmitsIndex
<1>. QED
  BY <1>1, WalkInvariant, PTL

(* A slot's index and its key lead to the slot's cell for life.            *)
THEOREM KeysRoundTrip == Spec => []KeyRoundTrip
PROOF
<1>1. ASSUME WalkInv, Walking, LineFits
      PROVE  /\ A!abstract_to_concrete(index) = home
             /\ A!detached_to_concrete(A!abstract_to_detached(index)) = home
             /\ A!detached_to_abstract(A!abstract_to_detached(index)) = index
  <2> DEFINE key == A!abstract_to_detached(index)
  <2>1. Tabled /\ IX!IndexAssumption
    BY <1>1, WalkTabled, Admitted
  <2>2. index \in IX!Word
    BY <1>1, Bounds DEF WalkInv, TypeOK, IX!Word
  <2>3. A!abstract_to_concrete(index) = home
    BY <1>1 DEF WalkInv
  <2>4. key = IX!abstract_to_detached(index) /\ IX!abstract_to_concrete(index) = home
    BY <1>1, <2>1, <2>3, SameFunctions
  <2>5. /\ IX!detached_to_concrete(key) = home
        /\ IX!detached_to_abstract(key) = index
    BY <2>1, <2>2, <2>4, IX!KeyOfIndex, IX!KeysAndIndices
  <2>. QED
    BY <1>1, <2>1, <2>3, <2>5, SameFunctions
<1>2. WalkInv => KeyRoundTrip
  BY <1>1 DEF KeyRoundTrip
<1>. QED
  BY <1>2, WalkInvariant, PTL

(* Consecutive allocations are on different cache lines.                   *)
THEOREM LinesSpread == Spec => []ConsecutiveSpread
PROOF
<1> DEFINE line(a) == A!abstract_to_concrete(a % USIZE) \div SLOTS_PER_LINE(params)
<1>1. ASSUME WalkInv, LineFits,
             NEW i \in 0..(BLOCKS(params) - 1), NEW j \in 0..(BLOCKS(params) - 1),
             line(index + i) = line(index + j)
      PROVE  i = j
  <2>1. Tabled /\ IX!IndexAssumption /\ IX!BLOCKS = BLOCKS(params)
    BY <1>1, WalkTabled, Admitted
  <2>2. index \in Nat
    BY <1>1, Bounds DEF WalkInv, TypeOK
  <2>3. \A a : A!abstract_to_concrete(a) = IX!abstract_to_concrete(a)
    BY <1>1, <2>1, SameFunctions
  <2>4. IX!abstract_to_concrete((index + i) % USIZE) \div SLOTS_PER_LINE(params)
          = IX!abstract_to_concrete((index + j) % USIZE) \div SLOTS_PER_LINE(params)
    BY <1>1, <2>3
  <2>. QED
    BY <1>1, <2>1, <2>2, <2>4, IX!LinesTakeTurns
<1>2. WalkInv => ConsecutiveSpread
  BY <1>1 DEF ConsecutiveSpread
<1>. QED
  BY <1>2, WalkInvariant, PTL

(* The first key comes back only once usize has no generation left.        *)
THEOREM KeysRepeatLate == Spec => []KeyRepeatsOnlyAfterWrap
PROOF
<1>1. ASSUME WalkInv, reuses > 0, index = initial_slot(params, home), ~(reuses >= Generations - 1)
      PROVE  FALSE
  <2> DEFINE L == params.LENGTH
             start == initial_slot(params, home)
  <2>1. Tabled
    BY <1>1, WalkTabled
  <2>2. L \in Nat \ {0} /\ Generations \in Nat
    BY <2>1, Shape, GenerationCount
  <2>3. reuses \in Nat /\ Walking /\ home \in 0..(L - 1)
    BY <1>1, <2>2 DEF WalkInv, TypeOK, Walking
  <2>4. reuses <= Generations - 2
    BY <1>1, <2>2, <2>3
  <2>5. start = start + (reuses * L)
    BY <1>1, <2>3, <2>4 DEF WalkInv
  <2>6. start \in Nat
    BY <2>1, <2>2, <2>3, InitialOffset
  <2>. HIDE DEF L, start
  <2>7. reuses * L >= 1 /\ reuses * L \in Nat
    BY <1>1, <2>2, <2>3
  <2>. QED
    BY <2>5, <2>6, <2>7
<1>2. WalkInv => KeyRepeatsOnlyAfterWrap
  <2>1. ASSUME WalkInv PROVE reuses \in Nat /\ Generations \in Nat
    BY <2>1, WalkTabled, GenerationCount DEF WalkInv, TypeOK
  <2>. QED
    BY <1>1, <2>1 DEF KeyRepeatsOnlyAfterWrap
<1>. QED
  BY <1>2, WalkInvariant, PTL

-----------------------------------------------------------------------------
(* The bits of a word. The library's induction theorems cannot be used, as *)
(* they take a predicate for a parameter; Induction takes a set.           *)

(* Induction over Nat, for a property given as the set of the numbers that *)
(* have it. Were S without n, adding 1 would map the members of S up to n  *)
(* injectively to those other than 0, which are one fewer.                 *)
LEMMA Induction ==
  ASSUME NEW S, 0 \in S, \A n \in Nat : n \in S => n + 1 \in S
  PROVE  \A n \in Nat : n \in S
PROOF
<1>. SUFFICES ASSUME NEW n \in Nat, n \notin S PROVE FALSE
  OBVIOUS
<1> DEFINE T == S \cap 0..n
           f == [x \in T |-> x + 1]
<1>1. IsFiniteSet(T) /\ IsFiniteSet(T \ {0})
  <2>1. IsFiniteSet(0..n)
    BY FS_Interval
  <2>. QED
    BY <2>1, FS_Subset
<1>2. f \in Injection(T, T \ {0})
  <2>1. \A x \in T : x + 1 \in T \ {0}
    BY SMT
  <2>. QED
    BY <2>1 DEF Injection, IsInjective
<1>. HIDE DEF T, f
<1>3. Cardinality(T) <= Cardinality(T \ {0})
  BY <1>1, <1>2, FS_Injection
<1>4. 0 \in T
  BY DEF T
<1>. QED
  BY <1>1, <1>3, <1>4, FS_RemoveElement, FS_CardinalityType

(* A function on 0..n that meets the equations of weight so far.           *)
Prefix(h, n) ==
  /\ h \in [0..n -> Nat]
  /\ \A i \in 0..n : h[i] = IF i = 0 THEN 1 ELSE 2 * h[i - 1]

LEMMA PrefixExists == \A n \in Nat : \E h : Prefix(h, n)
PROOF
<1> DEFINE S == {n \in Nat : \E h : Prefix(h, n)}
<1>1. 0 \in S
  <2>1. Prefix([i \in 0..0 |-> 1], 0)
    BY DEF Prefix
  <2>. QED
    BY <2>1
<1>2. ASSUME NEW n \in Nat, n \in S PROVE n + 1 \in S
  <2>1. PICK h : Prefix(h, n)
    BY <1>2
  <2> DEFINE g == [i \in 0..(n + 1) |-> IF i = n + 1 THEN 2 * h[n] ELSE h[i]]
  <2>2. g \in [0..(n + 1) -> Nat]
    BY <2>1 DEF Prefix
  <2>3. ASSUME NEW i \in 0..(n + 1)
        PROVE  g[i] = IF i = 0 THEN 1 ELSE 2 * g[i - 1]
    <3>1. CASE i = n + 1
      BY <3>1
    <3>2. CASE i \in 0..n
      BY <2>1, <3>2 DEF Prefix
    <3>. QED
      BY <3>1, <3>2
  <2>. HIDE DEF g
  <2>4. Prefix(g, n + 1)
    BY <2>2, <2>3 DEF Prefix
  <2>. QED
    BY <2>4
<1>. HIDE DEF S
<1>3. \A n \in Nat : n \in S
  BY <1>1, <1>2, Induction
<1>. QED
  BY <1>3 DEF S

LEMMA PrefixUnique ==
  ASSUME NEW m \in Nat, NEW n \in Nat, NEW g, NEW h, Prefix(g, m), Prefix(h, n)
  PROVE  \A k \in Nat : k <= m /\ k <= n => g[k] = h[k]
PROOF
<1> DEFINE S == {k \in Nat : k <= m /\ k <= n => g[k] = h[k]}
<1>1. 0 \in S
  BY DEF Prefix
<1>2. ASSUME NEW k \in Nat, k \in S PROVE k + 1 \in S
  <2>1. SUFFICES ASSUME k + 1 <= m, k + 1 <= n PROVE g[k + 1] = h[k + 1]
    OBVIOUS
  <2>2. g[k] = h[k]
    BY <1>2, <2>1
  <2>3. g[k + 1] = 2 * g[k] /\ h[k + 1] = 2 * h[k]
    BY <2>1 DEF Prefix
  <2>. QED
    BY <2>2, <2>3
<1>. HIDE DEF S
<1>3. \A k \in Nat : k \in S
  BY <1>1, <1>2, Induction
<1>. QED
  BY <1>3 DEF S

(* The function that weight is defined to be exists.                       *)
LEMMA WeightEquation == weight = [i \in Nat |-> IF i = 0 THEN 1 ELSE 2 * weight[i - 1]]
PROOF
<1> DEFINE part(n) == CHOOSE h : Prefix(h, n)
           g == [n \in Nat |-> part(n)[n]]
<1>1. ASSUME NEW n \in Nat PROVE Prefix(part(n), n)
  BY PrefixExists
<1>. HIDE DEF part
<1>2. ASSUME NEW n \in Nat PROVE g[n] = IF n = 0 THEN 1 ELSE 2 * g[n - 1]
  <2>1. CASE n = 0
    BY <1>1, <2>1 DEF Prefix
  <2>2. CASE n # 0
    <3>1. n - 1 \in Nat /\ n - 1 <= n
      BY <2>2
    <3>2. part(n)[n] = 2 * part(n)[n - 1]
      BY <1>1, <2>2 DEF Prefix
    <3>3. part(n)[n - 1] = part(n - 1)[n - 1]
      BY <1>1, <3>1, PrefixUnique
    <3>. QED
      BY <2>2, <3>1, <3>2, <3>3
  <2>. QED
    BY <2>1, <2>2
<1>3. g = [n \in Nat |-> IF n = 0 THEN 1 ELSE 2 * g[n - 1]]
  <2>. HIDE DEF part
  <2>1. g = [n \in Nat |-> g[n]]
    OBVIOUS
  <2>. HIDE DEF g
  <2>. QED
    BY <1>2, <2>1
<1>. HIDE DEF g
<1>. QED
  BY <1>3, Zenon DEF weight

LEMMA Weights ==
  /\ weight[0] = 1
  /\ \A k \in Nat : weight[k] \in Nat \ {0} /\ weight[k + 1] = 2 * weight[k]
PROOF
<1>1. ASSUME NEW k \in Nat PROVE weight[k + 1] = 2 * weight[k]
  BY WeightEquation
<1>2. weight[0] = 1
  BY WeightEquation
<1> DEFINE S == {k \in Nat : weight[k] \in Nat \ {0}}
<1>3. 0 \in S
  BY <1>2
<1>4. ASSUME NEW k \in Nat, k \in S PROVE k + 1 \in S
  BY <1>1, <1>4
<1>. HIDE DEF S
<1>5. \A k \in Nat : k \in S
  BY <1>3, <1>4, Induction
<1>. QED
  BY <1>1, <1>2, <1>5 DEF S

LEMMA WeightSum ==
  ASSUME NEW i \in Nat, NEW j \in Nat
  PROVE  weight[i + j] = weight[i] * weight[j]
PROOF
<1> DEFINE S == {k \in Nat : weight[i + k] = weight[i] * weight[k]}
<1>1. 0 \in S
  BY Weights
<1>2. ASSUME NEW k \in Nat, k \in S PROVE k + 1 \in S
  <2>1. weight[i + (k + 1)] = 2 * weight[i + k]
    <3>1. i + k \in Nat /\ i + (k + 1) = (i + k) + 1
      OBVIOUS
    <3>. QED
      BY <3>1, Weights
  <2>2. weight[k + 1] = 2 * weight[k]
    BY Weights
  <2>3. weight[i + k] = weight[i] * weight[k]
    BY <1>2
  <2>4. weight[i] \in Nat /\ weight[k] \in Nat
    BY Weights
  <2>5. weight[i + (k + 1)] = weight[i] * weight[k + 1]
    BY <2>1, <2>2, <2>3, <2>4, SMT
  <2>. QED
    BY <2>5
<1>. HIDE DEF S
<1>3. \A k \in Nat : k \in S
  BY <1>1, <1>2, Induction
<1>. QED
  BY <1>3 DEF S

(* Euclidean division.                                                     *)
LEMMA Quotient ==
  ASSUME NEW m \in Nat \ {0}, NEW q \in Nat, NEW r \in 0..(m - 1)
  PROVE  /\ ((q * m) + r) \div m = q
         /\ ((q * m) + r) % m = r
PROOF
BY SMT

LEMMA Division ==
  ASSUME NEW x \in Nat, NEW m \in Nat \ {0}
  PROVE  /\ x \div m \in Nat /\ x % m \in 0..(m - 1)
         /\ x = ((x \div m) * m) + (x % m)
PROOF
BY SMT

LEMMA NestedQuotient ==
  ASSUME NEW x \in Nat, NEW m \in Nat \ {0}, NEW n \in Nat \ {0}
  PROVE  x \div (m * n) = (x \div m) \div n
PROOF
<1> DEFINE y == x \div m
           r == x % m
           z == y \div n
           s == y % n
<1>1. y \in Nat /\ r \in 0..(m - 1) /\ x = (y * m) + r
  BY Division
<1>. HIDE DEF y, r
<1>2. z \in Nat /\ s \in 0..(n - 1) /\ y = (z * n) + s
  BY <1>1, Division
<1>. HIDE DEF z, s
<1>3. x = (z * (m * n)) + ((s * m) + r)
  BY <1>1, <1>2, SMT
<1>4. (s * m) + r \in 0..((m * n) - 1)
  <2>1. s * m <= (n - 1) * m
    BY <1>2, SMT
  <2>2. (n - 1) * m = (m * n) - m /\ s * m \in Nat
    BY <1>2, SMT
  <2>3. m * n \in Nat
    BY SMT
  <2>. HIDE DEF z
  <2>. QED
    BY <1>1, <2>1, <2>2, <2>3, SMT
<1>5. m * n \in Nat \ {0}
  BY SMT
<1>6. x \div (m * n) = z
  BY <1>2, <1>3, <1>4, <1>5, Quotient
<1>. QED
  BY <1>6 DEF z, y

-----------------------------------------------------------------------------
BitAt(x, i) == (x \div weight[i]) % 2

(* The bits of a word that has the field h above bit k, and l below.       *)
LEMMA FieldBits ==
  ASSUME NEW h \in Nat, NEW k \in Nat, NEW l \in 0..(weight[k] - 1), NEW i \in Nat
  PROVE  /\ i < k => BitAt((h * weight[k]) + l, i) = BitAt(l, i)
         /\ i >= k => BitAt((h * weight[k]) + l, i) = BitAt(h, i - k)
PROOF
<1> DEFINE x == (h * weight[k]) + l
<1>0. l \in Nat /\ x \in Nat /\ weight[k] \in Nat \ {0} /\ weight[i] \in Nat \ {0}
  BY Weights, SMT
<1>1. ASSUME i < k PROVE BitAt(x, i) = BitAt(l, i)
  <2> DEFINE j == (k - i) - 1
             w == weight[j]
             q == l \div weight[i]
             r == l % weight[i]
  <2>1. j \in Nat /\ k = i + (j + 1)
    BY <1>1
  <2>. HIDE DEF j
  <2>2. weight[k] = weight[i] * (2 * w) /\ w \in Nat
    <3>1. weight[j + 1] = 2 * w /\ w \in Nat
      BY <2>1, Weights
    <3>2. weight[i + (j + 1)] = weight[i] * weight[j + 1]
      BY <2>1, WeightSum
    <3>. QED
      BY <2>1, <3>1, <3>2
  <2>3. q \in Nat /\ r \in 0..(weight[i] - 1) /\ l = (q * weight[i]) + r
    BY <1>0, Division
  <2>. HIDE DEF w, q, r
  <2>4. x = (((h * (2 * w)) + q) * weight[i]) + r
    BY <1>0, <2>2, <2>3, SMT
  <2>5. (h * (2 * w)) + q \in Nat
    BY <2>2, <2>3, SMT
  <2>6. x \div weight[i] = (h * (2 * w)) + q
    <3>. HIDE DEF x
    <3>. QED
      BY <1>0, <2>3, <2>4, <2>5, Quotient
  <2>7. ((h * (2 * w)) + q) % 2 = q % 2
    <3>1. h * w \in Nat /\ h * (2 * w) = 2 * (h * w)
      BY <2>2, SMT
    <3>2. \A a \in Nat : ((2 * a) + q) % 2 = q % 2
      BY <2>3, SMT
    <3>. QED
      BY <3>1, <3>2
  <2>. QED
    BY <2>6, <2>7 DEF BitAt, q
<1>2. ASSUME i >= k PROVE BitAt(x, i) = BitAt(h, i - k)
  <2>1. i - k \in Nat /\ i = k + (i - k)
    BY <1>2
  <2>2. weight[i] = weight[k] * weight[i - k] /\ weight[i - k] \in Nat \ {0}
    <3>1. weight[k + (i - k)] = weight[k] * weight[i - k]
      BY <2>1, WeightSum
    <3>2. weight[i - k] \in Nat \ {0}
      BY <2>1, Weights
    <3>. QED
      BY <2>1, <3>1, <3>2
  <2>3. x \div weight[k] = h
    BY <1>0, Quotient
  <2>4. x \div weight[i] = h \div weight[i - k]
    <3>1. x \div (weight[k] * weight[i - k]) = (x \div weight[k]) \div weight[i - k]
      BY <1>0, <2>2, NestedQuotient
    <3>. QED
      BY <2>2, <2>3, <3>1
  <2>. QED
    BY <2>4 DEF BitAt
<1>. QED
  BY <1>1, <1>2

LEMMA BitValues ==
  ASSUME NEW x \in Nat, NEW i \in Nat
  PROVE  BitAt(x, i) \in {0, 1} /\ BitAt(0, i) = 0
PROOF
<1>1. weight[i] \in Nat \ {0}
  BY Weights
<1>2. 0 \div weight[i] = 0 /\ x \div weight[i] \in Nat
  BY <1>1, SMT
<1>. QED
  BY <1>2 DEF BitAt

(* A number is below weight[k] just if it has no bit from k up.            *)
LEMMA BitsBelow ==
  ASSUME NEW k \in Nat, NEW l \in 0..(weight[k] - 1), NEW i \in Nat, i >= k
  PROVE  BitAt(l, i) = 0
PROOF
<1>1. (0 * weight[k]) + l = l
  BY Weights
<1>2. BitAt((0 * weight[k]) + l, i) = BitAt(0, i - k)
  BY FieldBits
<1>. QED
  BY <1>1, <1>2, BitValues

(* The bits of a mask.                                                     *)
LEMMA MaskBits ==
  ASSUME NEW k \in Nat, NEW i \in Nat
  PROVE  /\ weight[k] - 1 \in 0..(weight[k] - 1)
         /\ BitAt(weight[k] - 1, i) = IF i < k THEN 1 ELSE 0
PROOF
<1>0. weight[k] \in Nat \ {0} /\ weight[i] \in Nat \ {0}
  BY Weights
<1>1. weight[k] - 1 \in 0..(weight[k] - 1)
  BY <1>0
<1>2. CASE i >= k
  BY <1>1, <1>2, BitsBelow
<1>3. CASE i < k
  <2> DEFINE j == (k - i) - 1
             w == weight[j]
  <2>1. j \in Nat /\ k = i + (j + 1)
    BY <1>3
  <2>. HIDE DEF j
  <2>2. weight[k] = weight[i] * (2 * w) /\ w \in Nat \ {0}
    <3>1. weight[j + 1] = 2 * w /\ w \in Nat \ {0}
      BY <2>1, Weights
    <3>2. weight[i + (j + 1)] = weight[i] * weight[j + 1]
      BY <2>1, WeightSum
    <3>. QED
      BY <2>1, <3>1, <3>2
  <2>. HIDE DEF w
  <2>3. weight[k] - 1 = (((2 * w) - 1) * weight[i]) + (weight[i] - 1)
    BY <1>0, <2>2, SMT
  <2>4. (weight[k] - 1) \div weight[i] = (2 * w) - 1
    <3>1. (2 * w) - 1 \in Nat /\ weight[i] - 1 \in 0..(weight[i] - 1)
      BY <1>0, <2>2
    <3>. QED
      BY <1>0, <2>3, <3>1, Quotient
  <2>5. ((2 * w) - 1) % 2 = 1
    BY <2>2
  <2>. QED
    BY <1>3, <1>1, <2>4, <2>5 DEF BitAt
<1>. QED
  BY <1>2, <1>3

(* A number is determined by its bits.                                     *)
LEMMA SameBits ==
  ASSUME NEW n \in Nat, NEW x \in 0..(weight[n] - 1), NEW y \in 0..(weight[n] - 1),
         \A i \in 0..(n - 1) : BitAt(x, i) = BitAt(y, i)
  PROVE  x = y
PROOF
<1> DEFINE Same(k, a, b) == \A i \in 0..(k - 1) : BitAt(a, i) = BitAt(b, i)
           S == {k \in Nat : \A a, b \in 0..(weight[k] - 1) : Same(k, a, b) => a = b}
<1>1. 0 \in S
  BY Weights
<1>2. ASSUME NEW k \in Nat, k \in S PROVE k + 1 \in S
  <2>. SUFFICES ASSUME NEW a \in 0..(weight[k + 1] - 1), NEW b \in 0..(weight[k + 1] - 1),
                       Same(k + 1, a, b)
                PROVE  a = b
    OBVIOUS
  <2>1. weight[k] \in Nat \ {0} /\ weight[k + 1] = 2 * weight[k]
    BY Weights
  <2> DEFINE h(c) == c \div weight[k]
             l(c) == c % weight[k]
  <2>2. ASSUME NEW c \in 0..(weight[k + 1] - 1)
        PROVE  /\ h(c) \in {0, 1} /\ l(c) \in 0..(weight[k] - 1)
               /\ c = (h(c) * weight[k]) + l(c)
               /\ BitAt(c, k) = h(c)
               /\ \A i \in 0..(k - 1) : BitAt(c, i) = BitAt(l(c), i)
    <3>1. /\ c \in Nat /\ h(c) \in Nat /\ l(c) \in 0..(weight[k] - 1)
          /\ c = (h(c) * weight[k]) + l(c)
      <4>1. c \in Nat
        BY <2>1
      <4>. QED
        BY <2>1, <4>1, Division
    <3>. HIDE DEF h, l
    <3>2. h(c) \in {0, 1}
      <4>1. h(c) * weight[k] < 2 * weight[k]
        BY <2>1, <3>1
      <4>2. h(c) >= 2 => h(c) * weight[k] >= 2 * weight[k]
        BY <2>1, <3>1
      <4>3. h(c) * weight[k] \in Nat /\ 2 * weight[k] \in Nat
        BY <2>1, <3>1
      <4>. QED
        BY <3>1, <4>1, <4>2, <4>3
    <3>3. BitAt(c, k) = BitAt(h(c), k - k)
      BY <3>1, FieldBits
    <3>4. BitAt(h(c), k - k) = h(c)
      <4>1. k - k = 0 /\ weight[0] = 1
        BY Weights
      <4>. QED
        BY <3>2, <4>1 DEF BitAt
    <3>5. \A i \in 0..(k - 1) : BitAt(c, i) = BitAt(l(c), i)
      BY <3>1, FieldBits
    <3>. QED
      BY <3>1, <3>2, <3>3, <3>4, <3>5
  <2>. HIDE DEF h, l
  <2>3. h(a) = h(b)
    BY <2>2
  <2>4. Same(k, l(a), l(b))
    BY <2>2
  <2>5. l(a) = l(b)
    BY <1>2, <2>2, <2>4
  <2>. QED
    BY <2>2, <2>3, <2>5
<1>3. \A k \in Nat : k \in S
  <2>. HIDE DEF S
  <2>. QED
    BY <1>1, <1>2, Induction
<1>4. n \in S
  BY <1>3
<1>. QED
  BY <1>4

-----------------------------------------------------------------------------
LEMMA Words ==
  /\ USIZE = weight[WIDTH] /\ WIDTH \in Nat /\ Word = 0..(weight[WIDTH] - 1)
  /\ \A x \in Word : x \in Nat /\ Bits[x] = {i \in Bit : BitAt(x, i) = 1}
PROOF
<1>1. USIZE \in Nat \ {0}
  BY WidthAssumption, Weights
<1>. QED
  BY <1>1, WidthAssumption DEF Word, Bits, BitAt

(* WordOf picks the only word there is with these bits.                    *)
LEMMA TheWord ==
  ASSUME NEW w \in Word
  PROVE  WordOf(Bits[w]) = w
PROOF
<1> DEFINE v == WordOf(Bits[w])
<1>1. v \in Word /\ Bits[v] = Bits[w]
  BY Zenon DEF WordOf
<1>. HIDE DEF v
<1>2. ASSUME NEW i \in 0..(WIDTH - 1) PROVE BitAt(v, i) = BitAt(w, i)
  <2>1. i \in Bit /\ i \in Nat
    BY Words DEF Bit
  <2>2. BitAt(v, i) = 1 <=> BitAt(w, i) = 1
    BY <1>1, <2>1, Words
  <2>. QED
    BY <1>1, <2>1, <2>2, Words, BitValues
<1>3. v = w
  BY <1>1, <1>2, Words, SameBits
<1>. QED
  BY <1>3 DEF v

(* x & (2^k - 1) is x % 2^k, and masking the other bits leaves the rest.   *)
LEMMA Masks ==
  ASSUME NEW x \in Word, NEW k \in 0..WIDTH
  PROVE  /\ bitand(x, weight[k] - 1) = x % weight[k]
         /\ bitand(x, USIZE - weight[k]) = x - (x % weight[k])
PROOF
<1> DEFINE w == weight[k]
           h == x \div w
           l == x % w
           rest == weight[WIDTH - k] - 1
<1>1. /\ k \in Nat /\ WIDTH - k \in Nat /\ w \in Nat \ {0} /\ x \in Nat
      /\ weight[WIDTH - k] \in Nat \ {0}
      /\ USIZE = w * weight[WIDTH - k]
  <2>1. k \in Nat /\ WIDTH - k \in Nat /\ WIDTH = k + (WIDTH - k)
    BY Words
  <2>2. weight[k + (WIDTH - k)] = weight[k] * weight[WIDTH - k]
    BY <2>1, WeightSum
  <2>. QED
    BY <2>1, <2>2, Words, Weights
<1>2. h \in Nat /\ l \in 0..(w - 1) /\ x = (h * w) + l
  BY <1>1, Division
<1>. HIDE DEF h, l
<1>3. /\ rest \in Nat /\ USIZE - w = (rest * w) + 0 /\ x - l = (h * w) + 0
      /\ 0 \in 0..(w - 1)
  <2> DEFINE u == weight[WIDTH - k]
  <2>1. u \in Nat \ {0} /\ USIZE = w * u /\ rest = u - 1
    BY <1>1
  <2>. HIDE DEF u, rest, w
  <2>2. (u - 1) * w = (w * u) - w /\ h * w \in Nat /\ l \in Nat
    BY <1>1, <1>2, <2>1
  <2>. QED
    BY <1>1, <1>2, <2>1, <2>2
<1>. HIDE DEF w
<1>4. l \in Word /\ x - l \in Word /\ w - 1 \in Word /\ USIZE - w \in Word
  <2>1. x < USIZE /\ USIZE \in Nat
    BY <1>1, Words
  <2>2. w <= USIZE /\ h * w \in Nat
    BY <1>1, <1>2, SMT
  <2>. QED
    BY <1>1, <1>2, <2>1, <2>2 DEF Word
<1>. HIDE DEF rest
<1>5. ASSUME NEW i \in Bit
      PROVE  /\ i \in Nat
             /\ i < k => /\ BitAt(x, i) = BitAt(l, i)
                         /\ BitAt(x - l, i) = 0
                         /\ BitAt(w - 1, i) = 1
                         /\ BitAt(USIZE - w, i) = 0
             /\ i >= k => /\ BitAt(x, i) = BitAt(h, i - k)
                          /\ BitAt(l, i) = 0
                          /\ BitAt(x - l, i) = BitAt(h, i - k)
                          /\ BitAt(w - 1, i) = 0
                          /\ BitAt(USIZE - w, i) = 1
  <2>1. i \in Nat /\ i < WIDTH
    BY Words DEF Bit
  <2>2. CASE i < k
    <3>1. BitAt(x, i) = BitAt(l, i)
      BY <1>1, <1>2, <2>1, <2>2, FieldBits DEF w
    <3>2. BitAt(x - l, i) = BitAt(0, i) /\ BitAt(USIZE - w, i) = BitAt(0, i)
      BY <1>1, <1>2, <1>3, <2>1, <2>2, FieldBits DEF w
    <3>. QED
      BY <1>1, <2>1, <2>2, <3>1, <3>2, MaskBits, BitValues DEF w
  <2>3. CASE i >= k
    <3>1. i - k \in Nat /\ i - k < WIDTH - k
      BY <1>1, <2>1, <2>3, Words
    <3>2. BitAt(x, i) = BitAt(h, i - k)
      BY <1>1, <1>2, <2>1, <2>3, FieldBits DEF w
    <3>3. BitAt(x - l, i) = BitAt(h, i - k) /\ BitAt(USIZE - w, i) = BitAt(rest, i - k)
      BY <1>1, <1>2, <1>3, <2>1, <2>3, FieldBits DEF w
    <3>4. BitAt(rest, i - k) = 1
      BY <1>1, <3>1, MaskBits DEF rest
    <3>5. BitAt(l, i) = 0 /\ BitAt(w - 1, i) = 0
      BY <1>1, <1>2, <2>1, <2>3, MaskBits, BitsBelow DEF w
    <3>. QED
      BY <1>1, <2>1, <2>3, <3>2, <3>3, <3>4, <3>5
  <2>. QED
    BY <1>1, <2>1, <2>2, <2>3
<1>6. Bits[x] \cap Bits[w - 1] = Bits[l]
  <2>1. ASSUME NEW i \in Bit
        PROVE  (BitAt(x, i) = 1 /\ BitAt(w - 1, i) = 1) <=> BitAt(l, i) = 1
    BY <1>1, <1>5
  <2>. QED
    BY <1>4, <2>1, Words
<1>7. Bits[x] \cap Bits[USIZE - w] = Bits[x - l]
  <2>1. ASSUME NEW i \in Bit
        PROVE  (BitAt(x, i) = 1 /\ BitAt(USIZE - w, i) = 1) <=> BitAt(x - l, i) = 1
    BY <1>1, <1>5
  <2>. QED
    BY <1>4, <2>1, Words
<1>. QED
  BY <1>4, <1>6, <1>7, TheWord DEF bitand, w, l

(* The bits of two fields that do not overlap are those of their sum.      *)
LEMMA Fields ==
  ASSUME NEW h \in Nat, NEW k \in Nat, NEW l \in 0..(weight[k] - 1),
         (h * weight[k]) + l \in Word
  PROVE  /\ h * weight[k] \in Word /\ l \in Word
         /\ Bits[h * weight[k]] \cup Bits[l] = Bits[(h * weight[k]) + l]
PROOF
<1> DEFINE w == weight[k]
<1>1. w \in Nat \ {0} /\ h * w \in Nat /\ l \in Nat /\ 0 \in 0..(w - 1)
      /\ h * w = (h * w) + 0
  BY Weights, SMT
<1>2. h * w \in Word /\ l \in Word
  <2>1. weight[WIDTH] \in Nat /\ (h * w) + l \in 0..(weight[WIDTH] - 1)
    BY Words, Weights
  <2>2. h * w \in 0..(weight[WIDTH] - 1) /\ l \in 0..(weight[WIDTH] - 1)
    <3>. HIDE DEF w
    <3>. QED
      BY <1>1, <2>1
  <2>. QED
    BY <2>2, Words
<1>3. ASSUME NEW i \in Bit
      PROVE  BitAt((h * w) + l, i) = 1 <=> (BitAt(h * w, i) = 1 \/ BitAt(l, i) = 1)
  <2>1. i \in Nat
    BY Words DEF Bit
  <2>2. CASE i < k
    BY <1>1, <2>1, <2>2, FieldBits, BitValues
  <2>3. CASE i >= k
    BY <1>1, <2>1, <2>3, FieldBits, BitsBelow
  <2>. QED
    BY <2>1, <2>2, <2>3
<1>. QED
  BY <1>2, <1>3, Words

-----------------------------------------------------------------------------
(* The powers of two of Params are weights; the shifts are their exponents.*)
LEMMA Exponents ==
  ASSUME NEW p \in PowersOfTwo
  PROVE  /\ log2(p) \in 0..30 /\ 2^log2(p) = p /\ weight[log2(p)] = p
         /\ trailing_ones(p - 1) = log2(p)
PROOF
<1> DEFINE pow(i) == 2^i
<1>1. /\ pow(0) = 1 /\ pow(1) = 2 * pow(0) /\ pow(2) = 2 * pow(1)
      /\ pow(3) = 2 * pow(2) /\ pow(4) = 2 * pow(3) /\ pow(5) = 2 * pow(4)
      /\ pow(6) = 2 * pow(5) /\ pow(7) = 2 * pow(6) /\ pow(8) = 2 * pow(7)
      /\ pow(9) = 2 * pow(8) /\ pow(10) = 2 * pow(9) /\ pow(11) = 2 * pow(10)
      /\ pow(12) = 2 * pow(11) /\ pow(13) = 2 * pow(12) /\ pow(14) = 2 * pow(13)
      /\ pow(15) = 2 * pow(14) /\ pow(16) = 2 * pow(15) /\ pow(17) = 2 * pow(16)
      /\ pow(18) = 2 * pow(17) /\ pow(19) = 2 * pow(18) /\ pow(20) = 2 * pow(19)
      /\ pow(21) = 2 * pow(20) /\ pow(22) = 2 * pow(21) /\ pow(23) = 2 * pow(22)
      /\ pow(24) = 2 * pow(23) /\ pow(25) = 2 * pow(24) /\ pow(26) = 2 * pow(25)
      /\ pow(27) = 2 * pow(26) /\ pow(28) = 2 * pow(27) /\ pow(29) = 2 * pow(28)
      /\ pow(30) = 2 * pow(29)
  BY SMT
<1>2. PICK j \in 0..30 : p = pow(j)
  BY Zenon DEF PowersOfTwo
<1>3. log2(p) \in 0..30 /\ p = pow(log2(p))
  BY <1>2, Zenon DEF log2
<1>. HIDE DEF pow
<1>4. ASSUME NEW k \in 0..30 PROVE weight[k] = pow(k)
  <2> DEFINE S == {i \in Nat : i <= 30 => weight[i] = pow(i)}
  <2>1. 0 \in S
    BY <1>1, Weights
  <2>2. ASSUME NEW i \in Nat, i \in S PROVE i + 1 \in S
    <3>1. i <= 29 => pow(i + 1) = 2 * pow(i)
      BY <1>1, SMT
    <3>. QED
      BY <2>2, <3>1, Weights
  <2>. HIDE DEF S
  <2>3. k \in S
    BY <2>1, <2>2, Induction
  <2>. QED
    BY <2>3 DEF S
<1>5. p \in Nat
  <2>1. weight[log2(p)] = p
    BY <1>3, <1>4, Zenon
  <2>2. log2(p) \in Nat
    BY <1>3
  <2>3. weight[log2(p)] \in Nat
    BY <2>2, Weights, Zenon
  <2>. QED
    BY <2>1, <2>3
<1>6. (p - 1) + 1 = p
  BY <1>5
<1>7. trailing_ones(p - 1) = log2(p)
  BY <1>6, Zenon DEF trailing_ones, log2
<1>. QED
  BY <1>3, <1>4, <1>7 DEF pow

LEMMA ShortWeights ==
  ASSUME NEW k \in Nat, weight[k] < USIZE
  PROVE  k \in 0..WIDTH
PROOF
<1>. SUFFICES ASSUME k > WIDTH PROVE FALSE
  BY Words
<1>1. k - WIDTH \in Nat /\ k = WIDTH + (k - WIDTH)
  BY Words
<1>2. weight[k] = USIZE * weight[k - WIDTH]
  BY <1>1, Words, WeightSum
<1>3. USIZE \in Nat /\ weight[k - WIDTH] \in Nat \ {0}
  BY <1>1, Words, Weights
<1>4. USIZE * weight[k - WIDTH] >= USIZE
  BY <1>3, SMT
<1>5. weight[k] \in Nat
  BY Weights
<1>. QED
  BY <1>2, <1>3, <1>4, <1>5

(* The masks and shifts of a table, in terms of its lengths.               *)
LEMMA MasksAndShifts ==
  ASSUME Tabled
  PROVE  LET L == params.LENGTH
             S == SLOTS_PER_LINE(params)
             B == BLOCKS(params)
         IN  /\ ID_MASK_ENTRY(params) = L - 1
             /\ ID_MASK_INDEX(params) = S - 1 /\ ID_MASK_BLOCK(params) = B - 1
             /\ \E e \in 0..WIDTH : weight[e] = L
             /\ ID_SHIFT_BLOCK(params) \in 0..WIDTH /\ weight[ID_SHIFT_BLOCK(params)] = S
             /\ ID_SHIFT_INDEX(params) \in 0..WIDTH /\ weight[ID_SHIFT_INDEX(params)] = B
             /\ L \in Nat \ {0} /\ S \in Nat \ {0} /\ B \in Nat \ {0}
             /\ LineFits => L = B * S
             /\ B * S < USIZE /\ L < USIZE /\ USIZE \in Nat
             /\ L <= B * S
PROOF
<1> DEFINE L == params.LENGTH
           S == SLOTS_PER_LINE(params)
           B == BLOCKS(params)
<1>1. L \in CapacityEnum /\ params.word \in {4, 8}
  BY Shape
<1>2. S \in {2, 4, 8, 16, 32, 64}
  BY <1>1, Lines
<1>3. L \in Nat \ {0} /\ L < USIZE /\ L \in PowersOfTwo
  BY <1>1, Shape, CapacityRange
<1>4. USIZE \in Nat /\ USIZE >= 256
  <2>1. weight[8] = 256
    <3>1. weight[0] = 1 /\ weight[0 + 1] = 2 * weight[0] /\ weight[1 + 1] = 2 * weight[1]
          /\ weight[2 + 1] = 2 * weight[2] /\ weight[3 + 1] = 2 * weight[3]
          /\ weight[4 + 1] = 2 * weight[4] /\ weight[5 + 1] = 2 * weight[5]
          /\ weight[6 + 1] = 2 * weight[6] /\ weight[7 + 1] = 2 * weight[7]
      BY Weights
    <3>. QED
      BY <3>1
  <2>2. WIDTH - 8 \in Nat /\ WIDTH = 8 + (WIDTH - 8)
    BY WidthAssumption
  <2>3. USIZE = weight[8] * weight[WIDTH - 8]
    BY <2>2, Words, WeightSum
  <2>4. weight[WIDTH - 8] \in Nat \ {0}
    BY <2>2, Weights
  <2>. QED
    BY <2>1, <2>3, <2>4
<1>5. S \in Nat \ {0} /\ S < USIZE /\ S \in PowersOfTwo
  BY <1>2, <1>4, Powers, SMT DEF PowersListed, CapacitiesListed
<1> DEFINE Divided ==
             /\ B \in PowersOfTwo /\ B \in Nat \ {0}
             /\ B <= L \/ B = 1
             /\ LineFits => L = B * S
             /\ B * S < USIZE /\ L <= B * S
<1>6. ASSUME LineFits PROVE Divided
  <2>1. \A c \in CapacitiesListed : \A d \in {2, 4, 8, 16, 32, 64} :
           d <= c => c \div d \in PowersListed
    BY SMTT(60) DEF PowersListed, CapacitiesListed
  <2>2. B = L \div S /\ L % S = 0 /\ B \in Nat \ {0}
    BY <1>6, Shape
  <2>3. B \in PowersOfTwo
    <3>1. L \in CapacitiesListed /\ S <= L
      BY <1>1, <1>6, Powers DEF LineFits
    <3>. HIDE DEF L, S, B
    <3>2. L \div S \in PowersListed
      BY <1>2, <2>1, <3>1, Zenon
    <3>. QED
      BY <2>2, <3>2, Powers, Zenon
  <2>4. L = (B * S) + (L % S)
    BY <1>3, <1>5, <2>2, Division
  <2>. HIDE DEF L, S, B
  <2>5. L = B * S /\ B <= L
    BY <1>3, <1>5, <2>2, <2>4, SMT
  <2>. QED
    BY <1>3, <1>6, <2>2, <2>3, <2>5
<1>7. ASSUME ~LineFits PROVE Divided
  <2>1. B = 1 /\ L <= S
    BY <1>3, <1>5, <1>7, Shape DEF LineFits
  <2>2. 1 \in PowersOfTwo
    BY Powers, SMT DEF PowersListed
  <2>. QED
    BY <1>5, <1>7, <2>1, <2>2
<1>8. Divided
  BY <1>6, <1>7
<1> DEFINE e == log2(L)
           s == log2(S)
           b == log2(B)
<1>9. /\ e \in Nat /\ 2^e = L /\ weight[e] = L
      /\ s \in Nat /\ weight[s] = S
      /\ b \in Nat /\ weight[b] = B
  BY <1>3, <1>5, <1>8, Exponents
<1>10. /\ ID_MASK_ENTRY(params) = L - 1
       /\ ID_MASK_INDEX(params) = S - 1 /\ ID_MASK_BLOCK(params) = B - 1
       /\ ID_SHIFT_BLOCK(params) = s /\ ID_SHIFT_INDEX(params) = b
  <2>1. trailing_ones(S - 1) = s /\ trailing_ones(B - 1) = b
    BY <1>5, <1>8, Exponents
  <2>2. ID_MASK_ENTRY(params) = 2^e - 1
    BY Zenon DEF ID_MASK_ENTRY, ID_MASK_BITS
  <2>3. ID_MASK_INDEX(params) = S - 1 /\ ID_MASK_BLOCK(params) = B - 1
    BY Zenon DEF ID_MASK_INDEX, ID_MASK_BLOCK
  <2>4. ID_SHIFT_BLOCK(params) = s /\ ID_SHIFT_INDEX(params) = b
    BY <2>1, <2>3, Zenon DEF ID_SHIFT_BLOCK, ID_SHIFT_INDEX
  <2>. QED
    BY <1>9, <2>2, <2>3, <2>4, Zenon
<1>. HIDE DEF e, s, b
<1>11. B < USIZE
  BY <1>3, <1>4, <1>8
<1>12. e \in 0..WIDTH /\ s \in 0..WIDTH /\ b \in 0..WIDTH
  BY <1>3, <1>5, <1>9, <1>11, ShortWeights
<1>. QED
  BY <1>3, <1>4, <1>5, <1>8, <1>9, <1>10, <1>12

(* What the conversions by bits compute of any word.                       *)
LEMMA BitConversions ==
  ASSUME Tabled, NEW x \in Word
  PROVE  LET L == params.LENGTH
             S == SLOTS_PER_LINE(params)
             B == BLOCKS(params)
         IN  /\ GenerationBits(params, x) = x - (x % L)
             /\ detached_to_concrete(params, x) = x % L
             /\ abstract_to_concrete(params, x) = ((x % B) * S) + ((x \div B) % S)
             /\ shl(bitand(x, ID_MASK_INDEX(params)), ID_SHIFT_INDEX(params)) = (x % S) * B
             /\ bitand(shr(x, ID_SHIFT_BLOCK(params)), ID_MASK_BLOCK(params)) = (x \div S) % B
PROOF
<1> DEFINE L == params.LENGTH
           S == SLOTS_PER_LINE(params)
           B == BLOCKS(params)
           s == ID_SHIFT_BLOCK(params)
           b == ID_SHIFT_INDEX(params)
<1>1. /\ ID_MASK_ENTRY(params) = L - 1
      /\ ID_MASK_INDEX(params) = S - 1 /\ ID_MASK_BLOCK(params) = B - 1
      /\ \E e \in 0..WIDTH : weight[e] = L
      /\ s \in 0..WIDTH /\ weight[s] = S
      /\ b \in 0..WIDTH /\ weight[b] = B
      /\ L \in Nat \ {0} /\ S \in Nat \ {0} /\ B \in Nat \ {0}
      /\ B * S < USIZE /\ L < USIZE /\ USIZE \in Nat
  BY MasksAndShifts
<1>. HIDE DEF L, S, B, s, b
<1>2. PICK e \in 0..WIDTH : weight[e] = L
  BY <1>1
<1>3. x \in Nat /\ x < USIZE
  BY <1>1 DEF Word
<1>4. USIZE - 1 - (L - 1) = USIZE - L
  BY <1>1
<1>5. ASSUME NEW y \in Word
      PROVE  /\ bitand(y, L - 1) = y % L /\ bitand(y, USIZE - L) = y - (y % L)
             /\ bitand(y, S - 1) = y % S /\ bitand(y, B - 1) = y % B
  BY <1>1, <1>2, Masks
<1>6. ASSUME NEW d \in Nat \ {0} PROVE x \div d \in Word
  <2>1. x \div d \in Nat /\ x \div d <= x
    BY <1>3, SMT
  <2>. QED
    BY <1>1, <1>3, <2>1 DEF Word
<1>7. (x % B) * S < USIZE /\ (x % B) * S \in Nat /\ (x % S) * B < USIZE /\ (x % S) * B \in Nat
  <2>1. x % B \in 0..(B - 1) /\ x % S \in 0..(S - 1)
    BY <1>1, <1>3
  <2>2. ASSUME NEW u \in 0..(B - 1) PROVE u * S <= B * S /\ u * S \in Nat
    BY <1>1, SMT
  <2>3. ASSUME NEW v \in 0..(S - 1) PROVE v * B <= B * S /\ v * B \in Nat
    BY <1>1, SMT
  <2>4. B * S \in Nat
    BY <1>1
  <2>. QED
    BY <1>1, <2>1, <2>2, <2>3, <2>4
<1>8. \A y \in Nat : y < USIZE => y % USIZE = y
  BY <1>1
<1>9. shr(x, b) = x \div B /\ shr(x, s) = x \div S
  BY <1>1 DEF shr
<1>10. GenerationBits(params, x) = x - (x % L)
  BY <1>1, <1>4, <1>5 DEF GenerationBits
<1>11. detached_to_concrete(params, x) = x % L
  BY <1>1, <1>5 DEF detached_to_concrete
<1>12. shl(x % B, s) = (x % B) * S /\ shl(x % S, b) = (x % S) * B
  BY <1>1, <1>7, <1>8 DEF shl
<1>13. abstract_to_concrete(params, x) = ((x % B) * S) + ((x \div B) % S)
  <2>1. bitand(x, B - 1) = x % B /\ bitand(shr(x, b), S - 1) = (x \div B) % S
    BY <1>1, <1>5, <1>6, <1>9
  <2>. QED
    BY <1>1, <1>12, <2>1 DEF abstract_to_concrete, s, b
<1>14. shl(bitand(x, ID_MASK_INDEX(params)), b) = (x % S) * B
  BY <1>1, <1>5, <1>12
<1>15. bitand(shr(x, s), ID_MASK_BLOCK(params)) = (x \div S) % B
  BY <1>1, <1>5, <1>6, <1>9
<1>. QED
  BY <1>10, <1>11, <1>13, <1>14, <1>15 DEF L, S, B, s, b

(* On any target, a concrete index is within the allocated lines.          *)
LEMMA ConcreteRange ==
  ASSUME Tabled, NEW x \in Word
  PROVE  /\ abstract_to_concrete(params, x) \in 0..((BLOCKS(params) * SLOTS_PER_LINE(params)) - 1)
         /\ detached_to_concrete(params, x) \in 0..(params.LENGTH - 1)
PROOF
<1> DEFINE L == params.LENGTH
           S == SLOTS_PER_LINE(params)
           B == BLOCKS(params)
<1>1. /\ abstract_to_concrete(params, x) = ((x % B) * S) + ((x \div B) % S)
      /\ detached_to_concrete(params, x) = x % L
  BY BitConversions
<1>2. /\ L \in Nat \ {0} /\ S \in Nat \ {0} /\ B \in Nat \ {0} /\ x \in Nat
  BY MasksAndShifts, Words
<1>. HIDE DEF L, S, B
<1>3. x % B \in 0..(B - 1) /\ (x \div B) % S \in 0..(S - 1) /\ x % L \in 0..(L - 1)
  BY <1>2, Division
<1>4. ASSUME NEW u \in 0..(B - 1), NEW v \in 0..(S - 1)
      PROVE  (u * S) + v \in 0..((B * S) - 1)
  <2>1. u * S <= (B - 1) * S /\ u * S \in Nat
    BY <1>2, SMT
  <2>2. (B - 1) * S = (B * S) - S /\ B * S \in Nat
    BY <1>2, SMT
  <2>. QED
    BY <1>2, <2>1, <2>2
<1>. QED
  BY <1>1, <1>3, <1>4 DEF L, S, B

(* The sum of the fields of an index is their OR.                          *)
LEMMA IndexFields ==
  ASSUME Tabled, LineFits, NEW x \in Word,
         NEW u \in 0..(SLOTS_PER_LINE(params) - 1), NEW v \in 0..(BLOCKS(params) - 1)
  PROVE  LET L == params.LENGTH
             B == BLOCKS(params)
             g == x - (x % L)
         IN  /\ \A r \in 0..(L - 1) : bitor(g, r) = g + r /\ g + r \in Word
             /\ bitor(bitor(g, v), u * B) = g + (v + (u * B))
PROOF
<1> DEFINE L == params.LENGTH
           S == SLOTS_PER_LINE(params)
           B == BLOCKS(params)
           g == x - (x % L)
           q == x \div L
<1>1. /\ \E e \in 0..WIDTH : weight[e] = L
      /\ \E b \in 0..WIDTH : weight[b] = B
      /\ L \in Nat \ {0} /\ S \in Nat \ {0} /\ B \in Nat \ {0}
      /\ L = B * S /\ USIZE \in Nat /\ x \in Nat
      /\ x < USIZE /\ USIZE % L = 0
  BY MasksAndShifts, Shape, Words DEF Word
<1>2. PICK e \in 0..WIDTH, b \in 0..WIDTH : weight[e] = L /\ weight[b] = B
  BY <1>1
<1>3. e \in Nat /\ b \in Nat
  BY Words
<1>. HIDE DEF L, S, B
<1>4. q \in Nat /\ x = (q * L) + (x % L) /\ x % L \in 0..(L - 1) /\ g = q * L
  <2>1. q \in Nat /\ x = (q * L) + (x % L) /\ x % L \in 0..(L - 1)
    BY <1>1, Division
  <2>2. g = x - (x % L)
    OBVIOUS
  <2>. HIDE DEF q, g
  <2>3. \A r \in Nat : q * L \in Nat /\ ((q * L) + r) - r = q * L
    BY <1>1, <2>1
  <2>4. x % L \in Nat
    BY <1>1, <2>1
  <2>. QED
    BY <2>1, <2>2, <2>3, <2>4
<1>5. ASSUME NEW r \in 0..(L - 1) PROVE (q * L) + r \in Word
  <2> DEFINE G == USIZE \div L
  <2>1. G \in Nat /\ USIZE = (G * L)
    <3>1. G \in Nat /\ USIZE = (G * L) + (USIZE % L)
      BY <1>1, Division
    <3>. HIDE DEF G
    <3>2. G * L \in Nat
      BY <1>1, <3>1
    <3>. QED
      BY <1>1, <3>1, <3>2
  <2>. HIDE DEF G, q
  <2>2. q < G
    <3>1. q >= G => q * L >= G * L
      BY <1>1, <1>4, <2>1, SMT
    <3>2. q * L <= x /\ q * L \in Nat
      BY <1>1, <1>4
    <3>. QED
      BY <1>1, <1>4, <2>1, <3>1, <3>2
  <2>3. (q + 1) * L <= G * L
    BY <1>1, <1>4, <2>1, <2>2, SMT
  <2>4. (q + 1) * L = (q * L) + L /\ q * L \in Nat
    BY <1>1, <1>4, SMT
  <2>. QED
    BY <1>1, <2>1, <2>3, <2>4 DEF Word
<1>. HIDE DEF g, q
<1>6. ASSUME NEW r \in 0..(L - 1)
      PROVE  /\ g + r \in Word /\ g \in Word /\ r \in Word
             /\ Bits[g] \cup Bits[r] = Bits[g + r]
  <2>1. r \in 0..(weight[e] - 1) /\ (q * weight[e]) + r \in Word
    BY <1>2, <1>5
  <2>2. /\ q * weight[e] \in Word /\ r \in Word
        /\ Bits[q * weight[e]] \cup Bits[r] = Bits[(q * weight[e]) + r]
    BY <1>3, <1>4, <2>1, Fields
  <2>. QED
    BY <1>2, <1>4, <2>1, <2>2
<1>7. ASSUME NEW r \in 0..(L - 1) PROVE bitor(g, r) = g + r
  BY <1>6, <1>7, TheWord DEF bitor
<1>8. v \in 0..(L - 1) /\ (u * B) + v \in 0..(L - 1) /\ (u * B) + v = v + (u * B)
  <2>1. u * B <= (S - 1) * B /\ u * B \in Nat
    BY <1>1, SMT DEF S
  <2>2. (S - 1) * B = L - B /\ B <= L
    BY <1>1, SMT
  <2>. QED
    BY <1>1, <2>1, <2>2 DEF B
<1>9. /\ u * B \in Word /\ (u * B) + v \in Word
      /\ Bits[u * B] \cup Bits[v] = Bits[(u * B) + v]
  <2>1. u \in Nat /\ v \in 0..(weight[b] - 1)
    BY <1>1, <1>2 DEF S, B
  <2>2. (u * B) + v \in Word
    BY <1>6, <1>8
  <2>. QED
    BY <1>2, <1>3, <2>1, <2>2, Fields
<1>10. bitor(bitor(g, v), u * B) = g + (v + (u * B))
  <2>1. bitor(g, v) = g + v /\ Bits[g + v] = Bits[g] \cup Bits[v]
    BY <1>6, <1>7, <1>8
  <2>2. Bits[g + v] \cup Bits[u * B] = Bits[g + (v + (u * B))]
    <3>1. Bits[g] \cup Bits[(u * B) + v] = Bits[g + ((u * B) + v)]
      BY <1>6, <1>8
    <3>. QED
      BY <1>8, <1>9, <2>1, <3>1
  <2>3. g + (v + (u * B)) \in Word
    BY <1>6, <1>8
  <2>. QED
    BY <2>1, <2>2, <2>3, TheWord DEF bitor
<1>. QED
  BY <1>6, <1>7, <1>10 DEF L, B, g

LEMMA SlotOfKey ==
  ASSUME NEW S \in Nat \ {0}, NEW B \in Nat \ {0}, NEW x \in Nat
  PROVE  (x \div S) % B = (x % (B * S)) \div S
PROOF
<1> DEFINE L == B * S
           g == x \div L
           r == x % L
           u == r \div S
           v == r % S
<1>1. L \in Nat \ {0}
  BY SMT
<1>2. g \in Nat /\ r \in 0..(L - 1) /\ x = (g * L) + r
  BY <1>1, Division
<1>. HIDE DEF g, r
<1>3. u \in Nat /\ v \in 0..(S - 1) /\ r = (u * S) + v
  <2>1. r \in Nat
    BY <1>1, <1>2
  <2>. QED
    BY <2>1, Division
<1>. HIDE DEF u, v
<1>4. u < B
  <2>1. u >= B => u * S >= B * S
    BY <1>3, SMT
  <2>2. u * S \in Nat /\ B * S \in Nat
    BY <1>3, SMT
  <2>. QED
    BY <1>2, <1>3, <2>1, <2>2
<1>5. x = (((g * B) + u) * S) + v
  BY <1>2, <1>3, SMT
<1>6. (g * B) + u \in Nat
  BY <1>2, <1>3, SMT
<1>7. x \div S = (g * B) + u
  BY <1>3, <1>5, <1>6, Quotient
<1>8. ((g * B) + u) % B = u
  BY <1>2, <1>3, <1>4, Quotient
<1>. QED
  BY <1>7, <1>8 DEF u, r, L

(* The arithmetic form of the conversions, which every other module and    *)
(* every other theorem is about, is what the masks and shifts compute, for *)
(* every word, of any width.                                               *)
THEOREM ConversionsAgree == Spec => []ArithmeticAgrees
PROOF
<1>1. ASSUME Tabled, LineFits, NEW w \in Word
      PROVE  /\ A!abstract_to_concrete(w) = abstract_to_concrete(params, w)
             /\ A!abstract_to_detached(w) = abstract_to_detached(params, w)
             /\ A!detached_to_abstract(w) = detached_to_abstract(params, w)
             /\ A!detached_to_concrete(w) = detached_to_concrete(params, w)
  <2> DEFINE L == params.LENGTH
             S == SLOTS_PER_LINE(params)
             B == BLOCKS(params)
             g == w - (w % L)
             concrete == abstract_to_concrete(params, w)
  <2>1. /\ L \in Nat \ {0} /\ S \in Nat \ {0} /\ B \in Nat \ {0} /\ L = B * S
        /\ w \in Nat /\ A!BLOCKS = B
    BY <1>1, MasksAndShifts, Admitted, Words
  <2>2. /\ GenerationBits(params, w) = g
        /\ detached_to_concrete(params, w) = w % L
        /\ concrete = ((w % B) * S) + ((w \div B) % S)
        /\ shl(bitand(w, ID_MASK_INDEX(params)), ID_SHIFT_INDEX(params)) = (w % S) * B
        /\ bitand(shr(w, ID_SHIFT_BLOCK(params)), ID_MASK_BLOCK(params)) = (w \div S) % B
    BY <1>1, BitConversions
  <2>3. concrete \in 0..(L - 1)
    BY <1>1, <2>1, ConcreteRange
  <2>4. A!abstract_to_concrete(w) = concrete
    BY <2>1, <2>2, Zenon DEF A!abstract_to_concrete
  <2>5. abstract_to_detached(params, w) = g + concrete
    <3>1. 0 \in 0..(S - 1) /\ 0 \in 0..(B - 1)
      BY <2>1
    <3>2. bitor(g, concrete) = g + concrete
      BY <1>1, <2>3, <3>1, IndexFields
    <3>. QED
      BY <2>2, <3>2, Zenon DEF abstract_to_detached
  <2>6. detached_to_abstract(params, w) = g + (((w \div S) % B) + ((w % S) * B))
    <3>1. (w \div S) % B \in 0..(B - 1) /\ w % S \in 0..(S - 1)
      BY <2>1, Division
    <3>2. bitor(bitor(g, (w \div S) % B), (w % S) * B)
            = g + (((w \div S) % B) + ((w % S) * B))
      BY <1>1, <3>1, IndexFields
    <3>. QED
      BY <2>2, <3>2, Zenon DEF detached_to_abstract
  <2>7. (w \div S) % B = (w % L) \div S
    BY <2>1, SlotOfKey
  <2>8. A!abstract_to_detached(w) = g + concrete
    BY <2>4, Zenon DEF A!abstract_to_detached
  <2>9. A!detached_to_abstract(w) = g + (((w % L) \div S) + ((w % S) * B))
    BY <2>1, Zenon DEF A!detached_to_abstract
  <2>10. A!detached_to_concrete(w) = w % L
    BY DEF A!detached_to_concrete
  <2>. QED
    BY <2>2, <2>4, <2>5, <2>6, <2>7, <2>8, <2>9, <2>10
<1>2. WalkInv => ArithmeticAgrees
  BY <1>1, WalkTabled DEF ArithmeticAgrees
<1>. QED
  BY <1>2, WalkInvariant, PTL

(* Whatever word the counters come to or a caller forges, Array::get reads *)
(* memory of the allocation, and an initialised element where a line is    *)
(* not longer than the table.                                              *)
THEOREM AccessesAreInBounds == Spec => []AccessInBounds
PROOF
<1>1. ASSUME WalkInv, Filled, NEW word \in Word,
             NEW concrete \in {abstract_to_concrete(params, word),
                               detached_to_concrete(params, word)}
      PROVE  /\ byte_offset(params, concrete) + params.word <= LAYOUT(params).size
             /\ LineFits => concrete < Len(slots)
  <2> DEFINE L == params.LENGTH
             S == SLOTS_PER_LINE(params)
             B == BLOCKS(params)
             w == params.word
  <2>1. Tabled /\ Len(slots) = L
    BY <1>1, WalkTabled DEF Filled, init_range
  <2>2. /\ B \in Nat \ {0} /\ S \in Nat \ {0} /\ L \in Nat /\ L <= B * S
        /\ LineFits => L = B * S
        /\ w \in {4, 8}
    BY <2>1, MasksAndShifts, Shape
  <2>3. LAYOUT(params).size = B * (S * w)
    <3>1. CACHE_LINE(params.arch) = S * w
      BY <2>2, Lines
    <3>. QED
      BY <3>1 DEF LAYOUT, MEMORY
  <2>4. concrete \in 0..((B * S) - 1)
    <3>1. B * S \in Nat
      BY <2>2
    <3>. QED
      BY <1>1, <2>1, <2>2, <3>1, ConcreteRange
  <2>5. byte_offset(params, concrete) = concrete * w
    BY DEF byte_offset
  <2>. HIDE DEF L, S, B, w
  <2>6. B * (S * w) = (B * S) * w /\ B * S \in Nat
    BY <2>2, SMT
  <2>7. (concrete * w) + w <= (B * S) * w
    BY <2>2, <2>4, <2>6, SMT
  <2>. QED
    BY <2>1, <2>2, <2>3, <2>4, <2>5, <2>6, <2>7 DEF w
<1>2. WalkInv => AccessInBounds
  BY <1>1 DEF AccessInBounds
<1>. QED
  BY <1>2, WalkInvariant, PTL
=============================================================================
