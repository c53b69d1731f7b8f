----------------------------- MODULE IndexProofs ----------------------------
(***************************************************************************)
(* Facts about the index conversions (src/src/index.rs), for every table   *)
(* configuration that IndexAssumption admits.                              *)
(***************************************************************************)
EXTENDS Index, TLAPS

(* Division with remainder exists and is unique.                           *)
LEMMA DivMod ==
  ASSUME NEW n \in Nat \ {0}, NEW a \in Nat
  PROVE  /\ a \div n \in Nat
         /\ a % n \in 0..(n - 1)
         /\ a = ((a \div n) * n) + (a % n)
PROOF OBVIOUS

LEMMA DivModUnique ==
  ASSUME NEW n \in Nat \ {0}, NEW q \in Nat, NEW r \in 0..(n - 1)
  PROVE  /\ ((q * n) + r) \div n = q
         /\ ((q * n) + r) % n = r
PROOF OBVIOUS

(* Adding whole multiples of the divisor.                                  *)
LEMMA DivModShift ==
  ASSUME NEW n \in Nat \ {0}, NEW q \in Nat, NEW a \in Nat
  PROVE  /\ ((q * n) + a) \div n = q + (a \div n)
         /\ ((q * n) + a) % n = a % n
PROOF
<1> DEFINE d == a \div n
           r == a % n
<1>1. d \in Nat /\ r \in 0..(n - 1) /\ a = (d * n) + r
  BY DivMod
<1>2. (q + d) \in Nat /\ (q * n) + a = ((q + d) * n) + r
  BY <1>1
<1>. HIDE DEF d, r
<1>3. /\ (((q + d) * n) + r) \div n = q + d
      /\ (((q + d) * n) + r) % n = r
  BY <1>1, <1>2, DivModUnique
<1>. QED
  BY <1>2, <1>3 DEF d, r

(* A quotient is below m exactly when the dividend is below m * n.         *)
LEMMA DivBound ==
  ASSUME NEW n \in Nat \ {0}, NEW m \in Nat, NEW a \in Nat, a < m * n
  PROVE  a \div n \in 0..(m - 1)
PROOF
<1> DEFINE d == a \div n
           r == a % n
<1>1. d \in Nat /\ r \in 0..(n - 1) /\ a = (d * n) + r
  BY DivMod
<1>. HIDE DEF d, r
<1>2. ASSUME d >= m PROVE FALSE
  <2>1. d * n >= m * n
    BY <1>1, <1>2
  <2>. QED
    BY <2>1, <1>1
<1>. QED
  BY <1>1, <1>2 DEF d

(* A two-digit number in mixed radix stays below the product.              *)
LEMMA DigitsBound ==
  ASSUME NEW n \in Nat \ {0}, NEW m \in Nat \ {0},
         NEW h \in 0..(m - 1), NEW r \in 0..(n - 1)
  PROVE  (h * n) + r \in Nat /\ (h * n) + r < m * n
PROOF
<1>1. h * n \in Nat /\ h * n <= (m - 1) * n
  OBVIOUS
<1>2. (m - 1) * n = (m * n) - n
  OBVIOUS
<1>. QED
  BY <1>1, <1>2

-----------------------------------------------------------------------------
(* The cache lines divide the table, and its generations divide usize.     *)
LEMMA Shape ==
  /\ BLOCKS \in Nat \ {0}
  /\ LENGTH = BLOCKS * CACHE_LINE_SLOTS
  /\ USIZE \div LENGTH \in Nat \ {0}
  /\ USIZE = (USIZE \div LENGTH) * LENGTH
PROOF
<1>1. /\ BLOCKS \in Nat
      /\ LENGTH = (BLOCKS * CACHE_LINE_SLOTS) + (LENGTH % CACHE_LINE_SLOTS)
  BY DivMod, IndexAssumption DEF BLOCKS
<1>2. /\ USIZE \div LENGTH \in Nat
      /\ USIZE = ((USIZE \div LENGTH) * LENGTH) + (USIZE % LENGTH)
  BY DivMod, IndexAssumption
<1>. QED
  BY <1>1, <1>2, IndexAssumption

(* The spread maps into the table, alike in every generation.              *)
LEMMA ConcreteInRange ==
  ASSUME NEW a \in Nat
  PROVE  abstract_to_concrete(a) \in Offset
PROOF
<1>1. a % BLOCKS \in 0..(BLOCKS - 1)
  BY DivMod, Shape
<1>2. (a \div BLOCKS) % CACHE_LINE_SLOTS \in 0..(CACHE_LINE_SLOTS - 1)
  BY DivMod, Shape, IndexAssumption
<1>3. /\ abstract_to_concrete(a) \in Nat
      /\ abstract_to_concrete(a) < BLOCKS * CACHE_LINE_SLOTS
  BY <1>1, <1>2, DigitsBound, Shape, IndexAssumption DEF abstract_to_concrete
<1>. QED
  BY <1>3, Shape, IndexAssumption DEF Offset

LEMMA ConcreteGeneration ==
  ASSUME NEW q \in Nat, NEW a \in Nat
  PROVE  abstract_to_concrete((q * LENGTH) + a) = abstract_to_concrete(a)
PROOF
<1> DEFINE s == q * CACHE_LINE_SLOTS
<1>1. s \in Nat /\ q * LENGTH = s * BLOCKS
  BY Shape, IndexAssumption
<1>2. a \div BLOCKS \in Nat
  BY DivMod, Shape
<1>. HIDE DEF s
<1>3. /\ ((s * BLOCKS) + a) % BLOCKS = a % BLOCKS
      /\ ((s * BLOCKS) + a) \div BLOCKS = s + (a \div BLOCKS)
  BY <1>1, DivModShift, Shape
<1>4. (s + (a \div BLOCKS)) % CACHE_LINE_SLOTS = (a \div BLOCKS) % CACHE_LINE_SLOTS
  BY <1>2, DivModShift, IndexAssumption DEF s
<1>. QED
  BY <1>1, <1>3, <1>4 DEF abstract_to_concrete

(* new_slot_array inverts the spread: the index first handed out from an   *)
(* offset is the one the spread maps to it.                                *)
LEMMA InitialSlot ==
  ASSUME NEW c \in Offset
  PROVE  /\ initial_slot(c) \in Offset
         /\ abstract_to_concrete(initial_slot(c)) = c
PROOF
<1> DEFINE h == c \div CACHE_LINE_SLOTS
           r == c % CACHE_LINE_SLOTS
<1>0. c \in Nat /\ c < BLOCKS * CACHE_LINE_SLOTS
  BY Shape, IndexAssumption DEF Offset
<1>1. /\ r \in 0..(CACHE_LINE_SLOTS - 1)
      /\ h \in Nat
      /\ c = (h * CACHE_LINE_SLOTS) + r
  BY <1>0, DivMod, IndexAssumption
<1>2. h \in 0..(BLOCKS - 1)
  BY <1>0, DivBound, Shape, IndexAssumption
<1>3. initial_slot(c) = (r * BLOCKS) + h
  BY DEF initial_slot
<1>. HIDE DEF h, r
<1>4. (r * BLOCKS) + h \in Nat /\ (r * BLOCKS) + h < CACHE_LINE_SLOTS * BLOCKS
  BY <1>1, <1>2, DigitsBound, Shape, IndexAssumption
<1>5. /\ ((r * BLOCKS) + h) % BLOCKS = h
      /\ ((r * BLOCKS) + h) \div BLOCKS = r
  BY <1>1, <1>2, DivModUnique, Shape
<1>6. r % CACHE_LINE_SLOTS = r
  BY <1>1, IndexAssumption
<1>7. initial_slot(c) \in Offset
  BY <1>3, <1>4, Shape, IndexAssumption DEF Offset
<1>. QED
  BY <1>1, <1>3, <1>5, <1>6, <1>7 DEF abstract_to_concrete

-----------------------------------------------------------------------------
(* A word is a generation and a position within it.                        *)
LEMMA Generations ==
  ASSUME NEW w \in Word
  PROVE  /\ w \in Nat
         /\ w \div LENGTH \in 0..((USIZE \div LENGTH) - 1)
         /\ w % LENGTH \in Offset
         /\ w = ((w \div LENGTH) * LENGTH) + (w % LENGTH)
PROOF
<1>1. w \in Nat /\ w < (USIZE \div LENGTH) * LENGTH
  BY Shape, IndexAssumption DEF Word
<1>2. w \div LENGTH \in 0..((USIZE \div LENGTH) - 1)
  BY <1>1, DivBound, Shape, IndexAssumption
<1>. QED
  BY <1>1, <1>2, DivMod, IndexAssumption DEF Offset

LEMMA GenerationIsWord ==
  ASSUME NEW g \in 0..((USIZE \div LENGTH) - 1), NEW c \in Offset
  PROVE  /\ (g * LENGTH) + c \in Word
         /\ ((g * LENGTH) + c) % LENGTH = c
PROOF
<1>1. /\ (g * LENGTH) + c \in Nat
      /\ (g * LENGTH) + c < (USIZE \div LENGTH) * LENGTH
  BY DigitsBound, Shape, IndexAssumption DEF Offset
<1>2. ((g * LENGTH) + c) % LENGTH = c
  BY DivModUnique, IndexAssumption DEF Offset
<1>. QED
  BY <1>1, <1>2, Shape, IndexAssumption DEF Word

(* The conversions act on the position and leave the generation alone.     *)
LEMMA Encode ==
  ASSUME NEW a \in Word
  PROVE  abstract_to_detached(a) = ((a \div LENGTH) * LENGTH) + abstract_to_concrete(a)
PROOF
<1> DEFINE g == a \div LENGTH
           r == a % LENGTH
           c == abstract_to_concrete(a)
<1>1. /\ a \in Nat
      /\ g \in 0..((USIZE \div LENGTH) - 1)
      /\ r \in Offset
      /\ a = (g * LENGTH) + r
  BY Generations
<1>2. c \in Offset
  BY <1>1, ConcreteInRange
<1>3. abstract_to_detached(a) = (a - r) + c
  BY DEF abstract_to_detached
<1>4. g * LENGTH \in Nat
  BY <1>1, Shape, IndexAssumption
<1>. HIDE DEF g, r, c
<1>5. (a - r) + c = (g * LENGTH) + c
  BY <1>1, <1>2, <1>4, IndexAssumption DEF Offset
<1>. QED
  BY <1>3, <1>5 DEF g, c

LEMMA Decode ==
  ASSUME NEW d \in Word
  PROVE  detached_to_abstract(d) = ((d \div LENGTH) * LENGTH) + initial_slot(d % LENGTH)
PROOF
<1> DEFINE g == d \div LENGTH
           c == d % LENGTH
           x == (c \div CACHE_LINE_SLOTS) + ((d % CACHE_LINE_SLOTS) * BLOCKS)
<1>1. /\ d \in Nat
      /\ g \in 0..((USIZE \div LENGTH) - 1)
      /\ c \in Offset
      /\ d = (g * LENGTH) + c
  BY Generations
<1>2. d % CACHE_LINE_SLOTS = c % CACHE_LINE_SLOTS
  <2> DEFINE q == g * BLOCKS
  <2>1. q \in Nat /\ g * LENGTH = q * CACHE_LINE_SLOTS
    <3>. HIDE DEF g
    <3>1. g \in Nat
      BY <1>1
    <3>. QED
      BY <3>1, Shape, IndexAssumption
  <2>2. c \in Nat
    BY <1>1, IndexAssumption DEF Offset
  <2>. HIDE DEF q, g, c
  <2>3. ((q * CACHE_LINE_SLOTS) + c) % CACHE_LINE_SLOTS = c % CACHE_LINE_SLOTS
    BY <2>1, <2>2, DivModShift, IndexAssumption
  <2>. QED
    BY <1>1, <2>1, <2>3
<1>3. x = initial_slot(c)
  <2>1. c \in Nat
    BY <1>1, IndexAssumption DEF Offset
  <2>. HIDE DEF c
  <2>2. c \div CACHE_LINE_SLOTS \in Nat /\ c % CACHE_LINE_SLOTS \in Nat
    BY <2>1, DivMod, IndexAssumption
  <2>3. (c % CACHE_LINE_SLOTS) * BLOCKS \in Nat
    BY <2>2, Shape
  <2>. QED
    BY <1>2, <2>2, <2>3 DEF initial_slot
<1>4. detached_to_abstract(d) = (d - c) + x
  BY DEF detached_to_abstract
<1>5. x \in Offset
  BY <1>1, <1>3, InitialSlot
<1>6. g * LENGTH \in Nat
  BY <1>1, Shape, IndexAssumption
<1>. HIDE DEF g, c, x
<1>7. (d - c) + x = (g * LENGTH) + x
  BY <1>1, <1>5, <1>6, IndexAssumption DEF Offset
<1>. QED
  BY <1>3, <1>4, <1>7 DEF g, c

(* The key of an index is a word, and lookups by it go where the insert    *)
(* that took the index put its entry.                                      *)
LEMMA KeyOfIndex ==
  ASSUME NEW a \in Word
  PROVE  /\ abstract_to_detached(a) \in Word
         /\ detached_to_concrete(abstract_to_detached(a)) = abstract_to_concrete(a)
PROOF
<1>1. abstract_to_concrete(a) \in Offset
  BY Generations, ConcreteInRange
<1>. QED
  BY <1>1, Encode, Generations, GenerationIsWord DEF detached_to_concrete

(* The index recovered from a key is a word of the cell the key names.     *)
LEMMA IndexOfKey ==
  ASSUME NEW d \in Word
  PROVE  /\ detached_to_abstract(d) \in Word
         /\ abstract_to_concrete(detached_to_abstract(d)) = detached_to_concrete(d)
PROOF
<1> DEFINE g == d \div LENGTH
           c == d % LENGTH
           x == initial_slot(c)
<1>1. /\ g \in 0..((USIZE \div LENGTH) - 1)
      /\ c \in Offset
  BY Generations
<1>2. x \in Offset /\ abstract_to_concrete(x) = c
  BY <1>1, InitialSlot
<1>3. detached_to_abstract(d) = (g * LENGTH) + x
  BY Decode
<1>4. detached_to_concrete(d) = c
  BY DEF detached_to_concrete
<1>. HIDE DEF g, c, x
<1>5. g \in Nat /\ x \in Nat
  BY <1>1, <1>2, Shape, IndexAssumption DEF Offset
<1>6. abstract_to_concrete((g * LENGTH) + x) = abstract_to_concrete(x)
  BY <1>5, ConcreteGeneration
<1>. QED
  BY <1>1, <1>2, <1>3, <1>4, <1>6, GenerationIsWord

(* The slot array starts with the inverse of the spread.                   *)
LEMMA SpreadInverse ==
  ASSUME NEW r \in Offset
  PROVE  initial_slot(abstract_to_concrete(r)) = r
PROOF
<1> DEFINE h == r \div BLOCKS
           b == r % BLOCKS
           c == (b * CACHE_LINE_SLOTS) + h
<1>1. r \in Nat /\ r < CACHE_LINE_SLOTS * BLOCKS
  BY Shape, IndexAssumption DEF Offset
<1>2. b \in 0..(BLOCKS - 1) /\ r = (h * BLOCKS) + b
  BY <1>1, DivMod, Shape
<1>3. h \in 0..(CACHE_LINE_SLOTS - 1)
  BY <1>1, DivBound, Shape, IndexAssumption
<1>4. b \in Nat /\ h \in Nat
  BY <1>2, <1>3, Shape, IndexAssumption
<1>. HIDE DEF h, b
<1>5. h % CACHE_LINE_SLOTS = h
  BY <1>3, IndexAssumption
<1>6. abstract_to_concrete(r) = c
  BY <1>5 DEF abstract_to_concrete, h, b
<1>7. c \div CACHE_LINE_SLOTS = b /\ c % CACHE_LINE_SLOTS = h
  BY <1>3, <1>4, DivModUnique, IndexAssumption
<1>. HIDE DEF c
<1>. QED
  BY <1>2, <1>6, <1>7 DEF initial_slot

(* Keys and abstract indices are the same things written differently: no   *)
(* two indices share a key, the index remove recycles is the one insert    *)
(* handed out (the debug_assert of abstract_to_detached), and every word,  *)
(* forged or not, is the key of one index.                                 *)
THEOREM KeysAndIndices ==
  /\ \A a \in Word : detached_to_abstract(abstract_to_detached(a)) = a
  /\ \A d \in Word : abstract_to_detached(detached_to_abstract(d)) = d
PROOF
<1>1. ASSUME NEW a \in Word
      PROVE  detached_to_abstract(abstract_to_detached(a)) = a
  <2> DEFINE g == a \div LENGTH
             r == a % LENGTH
             c == abstract_to_concrete(a)
             d == abstract_to_detached(a)
  <2>1. /\ g \in 0..((USIZE \div LENGTH) - 1)
        /\ r \in Offset
        /\ a = (g * LENGTH) + r
    BY Generations
  <2>2. c \in Offset
    BY Generations, ConcreteInRange
  <2>3. d = (g * LENGTH) + c
    BY Encode
  <2>4. d \in Word
    BY KeyOfIndex
  <2>5. detached_to_abstract(d) = ((d \div LENGTH) * LENGTH) + initial_slot(d % LENGTH)
    BY <2>4, Decode
  <2>. HIDE DEF g, r, d
  <2>6. g \in Nat /\ r \in Nat
    BY <2>1, Shape, IndexAssumption DEF Offset
  <2>7. c = abstract_to_concrete(r)
    BY <2>1, <2>6, ConcreteGeneration
  <2>. HIDE DEF c
  <2>8. d \div LENGTH = g /\ d % LENGTH = c
    BY <2>2, <2>3, <2>6, DivModUnique, IndexAssumption DEF Offset
  <2>9. initial_slot(c) = r
    BY <2>1, <2>7, SpreadInverse
  <2>10. detached_to_abstract(d) = a
    BY <2>1, <2>5, <2>8, <2>9
  <2>. QED
    BY <2>10 DEF d
<1>2. ASSUME NEW d \in Word
      PROVE  abstract_to_detached(detached_to_abstract(d)) = d
  <2> DEFINE g == d \div LENGTH
             c == d % LENGTH
             x == initial_slot(c)
             a == detached_to_abstract(d)
  <2>1. /\ g \in 0..((USIZE \div LENGTH) - 1)
        /\ c \in Offset
        /\ d = (g * LENGTH) + c
    BY Generations
  <2>2. x \in Offset
    BY <2>1, InitialSlot
  <2>3. a = (g * LENGTH) + x
    BY Decode
  <2>4. a \in Word /\ abstract_to_concrete(a) = c
    BY IndexOfKey DEF detached_to_concrete
  <2>5. abstract_to_detached(a) = ((a \div LENGTH) * LENGTH) + abstract_to_concrete(a)
    BY <2>4, Encode
  <2>. HIDE DEF g, c, x, a
  <2>6. g \in Nat
    BY <2>1, Shape, IndexAssumption
  <2>7. a \div LENGTH = g
    BY <2>2, <2>3, <2>6, DivModUnique, IndexAssumption DEF Offset
  <2>8. abstract_to_detached(a) = d
    BY <2>1, <2>4, <2>5, <2>7
  <2>. QED
    BY <2>8 DEF a
<1>. QED
  BY <1>1, <1>2

(* Recycling an index keeps its cell and never produces the marker.        *)
LEMMA NextSlot ==
  ASSUME NEW a \in Word
  PROVE  /\ generate_next_slot(a) \in Word
         /\ generate_next_slot(a) # RESERVED
         /\ abstract_to_concrete(generate_next_slot(a)) = abstract_to_concrete(a)
PROOF
<1> DEFINE add(w) == (w + LENGTH) % USIZE
<1>1. ASSUME NEW w \in Word
      PROVE  add(w) \in Word /\ abstract_to_concrete(add(w)) = abstract_to_concrete(w)
  <2> DEFINE v == w + LENGTH
             k == v \div USIZE
             m == USIZE \div LENGTH
  <2>1. w \in Nat /\ v \in Nat /\ USIZE \in Nat \ {0}
    BY IndexAssumption DEF Word
  <2>2. /\ k \in Nat
        /\ add(w) \in 0..(USIZE - 1)
        /\ v = (k * USIZE) + add(w)
    <3>. HIDE DEF v
    <3>1. /\ v \div USIZE \in Nat
          /\ v % USIZE \in 0..(USIZE - 1)
          /\ v = ((v \div USIZE) * USIZE) + (v % USIZE)
      BY <2>1, DivMod
    <3>. QED
      BY <3>1 DEF v
  <2>3. k * m \in Nat /\ k * USIZE = (k * m) * LENGTH
    <3>1. m \in Nat /\ USIZE = m * LENGTH
      BY Shape
    <3>. HIDE DEF k, m
    <3>. QED
      BY <2>2, <3>1, IndexAssumption
  <2>4. abstract_to_concrete((1 * LENGTH) + w) = abstract_to_concrete(w)
    BY <2>1, ConcreteGeneration
  <2>5. (1 * LENGTH) + w = w + LENGTH
    BY <2>1, IndexAssumption
  <2>6. add(w) \in Nat
    BY <2>2, IndexAssumption
  <2>. HIDE DEF k, m, add
  <2>7. abstract_to_concrete(((k * m) * LENGTH) + add(w)) = abstract_to_concrete(add(w))
    BY <2>3, <2>6, ConcreteGeneration
  <2>. QED
    BY <2>2, <2>3, <2>4, <2>5, <2>7 DEF Word, v
<1>2. RESERVED \in Word /\ add(RESERVED) = LENGTH - 1
  <2>1. RESERVED \in Word
    BY IndexAssumption DEF RESERVED, Word
  <2>2. RESERVED + LENGTH = (1 * USIZE) + (LENGTH - 1)
    BY IndexAssumption DEF RESERVED
  <2>3. ((1 * USIZE) + (LENGTH - 1)) % USIZE = LENGTH - 1
    BY DivModUnique, IndexAssumption
  <2>. QED
    BY <2>1, <2>2, <2>3
<1>3. LENGTH - 1 # RESERVED
  BY IndexAssumption DEF RESERVED
<1>4. generate_next_slot(a) = IF add(a) = RESERVED THEN add(add(a)) ELSE add(a)
  BY DEF generate_next_slot
<1>. HIDE DEF add
<1>. QED
  BY <1>1, <1>2, <1>3, <1>4

(* The cache line an abstract index falls in, also past the wrap of the    *)
(* counters: the lines take turns.                                         *)
LEMMA LineOf ==
  ASSUME NEW a \in Nat
  PROVE  abstract_to_concrete(a % USIZE) \div CACHE_LINE_SLOTS = a % BLOCKS
PROOF
<1> DEFINE k == a \div USIZE
           w == a % USIZE
           m == (USIZE \div LENGTH) * CACHE_LINE_SLOTS
           r == (w \div BLOCKS) % CACHE_LINE_SLOTS
<1>1. k \in Nat /\ w \in Nat /\ a = (k * USIZE) + w
  <2>1. USIZE \in Nat \ {0}
    BY IndexAssumption
  <2>. QED
    BY <2>1, DivMod
<1>2. m \in Nat /\ USIZE = m * BLOCKS
  BY Shape, IndexAssumption
<1>3. a % BLOCKS = w % BLOCKS
  <2>. HIDE DEF k, w, m
  <2>1. k * m \in Nat /\ a = ((k * m) * BLOCKS) + w
    BY <1>1, <1>2, Shape
  <2>. QED
    BY <1>1, <2>1, DivModShift, Shape
<1>4. abstract_to_concrete(w) = ((w % BLOCKS) * CACHE_LINE_SLOTS) + r
  BY DEF abstract_to_concrete
<1>. HIDE DEF w
<1>5. /\ w % BLOCKS \in Nat /\ w \div BLOCKS \in Nat
  BY <1>1, DivMod, Shape
<1>6. r \in 0..(CACHE_LINE_SLOTS - 1)
  BY <1>5, DivMod, IndexAssumption
<1>. HIDE DEF r
<1>7. abstract_to_concrete(w) \div CACHE_LINE_SLOTS = w % BLOCKS
  BY <1>4, <1>5, <1>6, DivModUnique, IndexAssumption
<1>. QED
  BY <1>3, <1>7 DEF w

(* So BLOCKS consecutive allocations touch as many cache lines as there    *)
(* are (index.rs cache_line_distribution).                                 *)
THEOREM LinesTakeTurns ==
  ASSUME NEW a \in Nat, NEW i \in 0..(BLOCKS - 1), NEW j \in 0..(BLOCKS - 1),
         abstract_to_concrete((a + i) % USIZE) \div CACHE_LINE_SLOTS
           = abstract_to_concrete((a + j) % USIZE) \div CACHE_LINE_SLOTS
  PROVE  i = j
PROOF
<1> DEFINE x == a + i
           y == a + j
           p == x \div BLOCKS
           q == y \div BLOCKS
           r == x % BLOCKS
<1>1. /\ x \in Nat /\ y \in Nat /\ x - y = i - j
      /\ x - y < BLOCKS /\ y - x < BLOCKS
  BY Shape
<1>. HIDE DEF x, y
<1>2. r = y % BLOCKS
  BY <1>1, LineOf DEF x, y
<1>3. p \in Nat /\ r \in Nat /\ x = (p * BLOCKS) + r
  <2>1. r \in 0..(BLOCKS - 1)
    BY <1>1, DivMod, Shape
  <2>2. p \in Nat /\ x = (p * BLOCKS) + r
    BY <1>1, DivMod, Shape
  <2>. QED
    BY <2>1, <2>2, Shape
<1>4. q \in Nat /\ y = (q * BLOCKS) + r
  BY <1>1, <1>2, DivMod, Shape
<1>. HIDE DEF p, q, r
<1>5. ASSUME NEW m \in Nat, NEW n \in Nat, m > n
      PROVE  (m * BLOCKS) - (n * BLOCKS) >= BLOCKS
  <2>1. (m * BLOCKS) - (n * BLOCKS) = (m - n) * BLOCKS
    BY Shape
  <2>2. m - n >= 1
    BY <1>5
  <2>. QED
    BY <2>1, <2>2, Shape
<1>6. p * BLOCKS \in Nat /\ q * BLOCKS \in Nat
  BY <1>3, <1>4, Shape
<1>7. ~(p > q) /\ ~(q > p)
  BY <1>1, <1>3, <1>4, <1>5, <1>6, Shape
<1>8. x = y
  BY <1>3, <1>4, <1>7
<1>. QED
  BY <1>1, <1>8, Shape
=============================================================================
