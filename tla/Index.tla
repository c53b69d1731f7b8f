-------------------------------- MODULE Index -------------------------------
(***************************************************************************)
(* Index conversions (src/src/index.rs) in arithmetic form.                *)
(*                                                                         *)
(* Three encodings of an entry's identity:                                 *)
(*   Abstract  position in the order of allocation; recycling a slot adds  *)
(*             LENGTH, so  a % LENGTH  names the slot and  a \div LENGTH   *)
(*             its generation;                                             *)
(*   Concrete  offset into the storage arrays, spread over cache lines;    *)
(*   Detached  the public key: generation bits of the abstract index over  *)
(*             the concrete offset.                                        *)
(*                                                                         *)
(* The source works with masks and shifts. LENGTH, CACHE_LINE_SLOTS and    *)
(* BLOCKS are powers of two, so  x & (2^k - 1)  is  x % 2^k,  x >> k  is   *)
(* x \div 2^k  and an OR of disjoint bit fields is a sum. IndexBits holds  *)
(* the literal translation, ConversionsAgree (IndexWalkProofs) is that the *)
(* two agree, and this form is the one all other theorems are about.       *)
(***************************************************************************)
EXTENDS Integers

CONSTANTS
  LENGTH,            \* P::LENGTH, the number of slots
  CACHE_LINE_SLOTS,  \* words per cache line
  USIZE              \* 2^width of usize

(* P::BLOCKS, where a cache line is not longer than the table.             *)
BLOCKS == LENGTH \div CACHE_LINE_SLOTS

(* What the powers of two give. The quotients are whole, and usize holds   *)
(* at least two generations of every slot.                                 *)
ASSUME IndexAssumption ==
  /\ LENGTH \in Nat \ {0}
  /\ CACHE_LINE_SLOTS \in Nat \ {0}
  /\ USIZE \in Nat
  /\ LENGTH % CACHE_LINE_SLOTS = 0
  /\ USIZE % LENGTH = 0
  /\ LENGTH < USIZE

Offset == 0..(LENGTH - 1)  \* Concrete indices
Word == 0..(USIZE - 1)     \* usize: Abstract and Detached indices

(* usize::MAX marks a slot whose allocation is in progress.                *)
RESERVED == USIZE - 1

-----------------------------------------------------------------------------
(* Mutants: the two bit fields of the spread exchanged; no spread at all.  *)
abstract_to_concrete_swapped(a) ==
  ((a % CACHE_LINE_SLOTS) * BLOCKS) + ((a \div CACHE_LINE_SLOTS) % BLOCKS)
abstract_to_concrete_unspread(a) == a % LENGTH

abstract_to_concrete(a) ==
  ((a % BLOCKS) * CACHE_LINE_SLOTS) + ((a \div BLOCKS) % CACHE_LINE_SLOTS)

detached_to_concrete(d) == d % LENGTH

abstract_to_detached(a) == (a - (a % LENGTH)) + abstract_to_concrete(a)

detached_to_abstract_unspread(d) == d

detached_to_abstract(d) ==
  (d - (d % LENGTH))
    + (((d % LENGTH) \div CACHE_LINE_SLOTS) + ((d % CACHE_LINE_SLOTS) * BLOCKS))

-----------------------------------------------------------------------------
(* ReadOnly::new_slot_array (src/src/table.rs): the abstract index first   *)
(* handed out from each offset.                                            *)
initial_slot(offset) ==
  ((offset % CACHE_LINE_SLOTS) * BLOCKS) + (offset \div CACHE_LINE_SLOTS)

(* Mutants: no new generation; the next number instead of the next         *)
(* generation; RESERVED not skipped; additions that do not wrap.           *)
next_slot_same_generation(a) == a
next_slot_sequential(a) == (a + 1) % USIZE
next_slot_keeps_reserved(a) == (a + LENGTH) % USIZE
next_slot_unwrapped(a) ==
  IF a + LENGTH = RESERVED THEN (a + LENGTH) + LENGTH ELSE a + LENGTH

(* Table::generate_next_slot: the next generation of the same slot, never  *)
(* the RESERVED marker; both additions wrap.                               *)
generate_next_slot(a) ==
  LET next == (a + LENGTH) % USIZE
  IN  IF next = RESERVED THEN (next + LENGTH) % USIZE ELSE next
=============================================================================
