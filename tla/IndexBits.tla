------------------------------ MODULE IndexBits -----------------------------
(***************************************************************************)
(* The literal translation of the conversions of src/src/index.rs: masks,  *)
(* shifts and ORs on usize, for a parameter record P (see Params), and     *)
(* what they compute along the life of an index (see IndexWalk).           *)
(***************************************************************************)
EXTENDS IndexWalk

CONSTANT WIDTH  \* usize::BITS

(* 2^i, in the form that can be proved about for every i.                  *)
weight[i \in Nat] == IF i = 0 THEN 1 ELSE 2 * weight[i - 1]

(* No usize is shorter than 16 bits; TLC counts to 2^8.                    *)
ASSUME WidthAssumption == WIDTH \in Nat /\ WIDTH >= 8 /\ USIZE = weight[WIDTH]

-----------------------------------------------------------------------------
Word == 0..(USIZE - 1)
Bit == 0..(WIDTH - 1)

(* The bits set in a word, and the word that has just these bits set.      *)
Bits == [w \in Word |-> {i \in Bit : (w \div weight[i]) % 2 = 1}]
WordOf(S) == CHOOSE w \in Word : Bits[w] = S

(* usize has these operators: & and |, << and >>. A bit that << moves      *)
(* beyond the last one is lost.                                            *)
bitand(x, y) == WordOf(Bits[x] \cap Bits[y])
bitor(x, y) == WordOf(Bits[x] \cup Bits[y])
shl(x, k) == (x * weight[k]) % USIZE
shr(x, k) == x \div weight[k]

-----------------------------------------------------------------------------
(* The generation bits of a word: x & !P::ID_MASK_ENTRY.                   *)
GenerationBits(P, x) == bitand(x, USIZE - 1 - ID_MASK_ENTRY(P))

(* Mutant: the position within the cache line is not shifted back.         *)
detached_to_abstract_unshifted(P, d) ==
  bitor(bitor(GenerationBits(P, d), bitand(shr(d, ID_SHIFT_BLOCK(P)), ID_MASK_BLOCK(P))),
        bitand(d, ID_MASK_INDEX(P)))

detached_to_abstract(P, d) ==
  bitor(bitor(GenerationBits(P, d), bitand(shr(d, ID_SHIFT_BLOCK(P)), ID_MASK_BLOCK(P))),
        shl(bitand(d, ID_MASK_INDEX(P)), ID_SHIFT_INDEX(P)))

detached_to_concrete(P, d) == bitand(d, ID_MASK_ENTRY(P))

abstract_to_concrete(P, a) ==
  shl(bitand(a, ID_MASK_BLOCK(P)), ID_SHIFT_BLOCK(P))
    + bitand(shr(a, ID_SHIFT_INDEX(P)), ID_MASK_INDEX(P))

abstract_to_detached(P, a) == bitor(GenerationBits(P, a), abstract_to_concrete(P, a))

(* Array::get_unchecked: where the element at a concrete index begins.     *)
byte_offset(P, c) == c * P.word

-----------------------------------------------------------------------------
(* Every access Array::get makes is to memory of the allocation, on every  *)
(* target, and to an element Array::new initialised wherever the line is   *)
(* not longer than the table: whatever word the counters have come to, and *)
(* whatever word a caller passes for a key.                                *)
AccessInBounds ==
  Filled =>
    \A word \in Word :
      \A concrete \in {abstract_to_concrete(params, word), detached_to_concrete(params, word)} :
        /\ byte_offset(params, concrete) + params.word <= LAYOUT(params).size
        /\ LineFits => concrete < Len(slots)

(* "Concrete<P> ensures that the underlying index is strictly less than    *)
(* P::LENGTH, so it is within bounds" (array.rs), on every target.         *)
ConcreteInBounds == Walking => abstract_to_concrete(params, index) < params.LENGTH

(* The conversions by bits and the arithmetic form every other module uses *)
(* are the same functions, on every word the counters or a caller may give.*)
ArithmeticAgrees ==
  slots = << >> /\ LineFits =>
    \A w \in Word :
      /\ A!abstract_to_concrete(w) = abstract_to_concrete(params, w)
      /\ A!abstract_to_detached(w) = abstract_to_detached(params, w)
      /\ A!detached_to_abstract(w) = detached_to_abstract(params, w)
      /\ A!detached_to_concrete(w) = detached_to_concrete(params, w)
=============================================================================
