------------------------------ MODULE IndexWalk -----------------------------
(***************************************************************************)
(* A table's slot array on every kind of target, and the life of one       *)
(* slot's index in it.                                                     *)
(*                                                                         *)
(* A behaviour picks the target and the capacity a program asks for,       *)
(* allocates the array and fills it element by element (src/src/array.rs). *)
(* Then it takes the abstract index some element holds and recycles it, as *)
(* each remove followed by an insert in the same slot does. The properties *)
(* relate the conversions of an index to one another along that life.      *)
(***************************************************************************)
EXTENDS Params, Sequences

CONSTANTS
  Requested,  \* values N of ConstParams<N>
  Targets     \* records of target_arch and the bytes of a word

(* Capacity::MAX does not fit a 16-bit usize.                              *)
ASSUME WalkAssumption ==
  /\ Requested \subseteq Nat
  /\ Targets \subseteq [arch : STRING, word : {4, 8}]

VARIABLES
  params,  \* the parameter record P of the table
  slots,   \* the elements of the slot array initialised so far
  home,    \* the offset whose initial index is followed, or Nowhere
  index,   \* the slot's current abstract index
  reuses   \* how often the slot has been recycled

vars == <<params, slots, home, index, reuses>>

(* The conversions of an index, in arithmetic form.                        *)
A == INSTANCE Index WITH LENGTH <- params.LENGTH,
                         CACHE_LINE_SLOTS <- SLOTS_PER_LINE(params)

(* A slot has USIZE \div LENGTH generations; going on until they are       *)
(* exhausted covers the wrap of the index.                                 *)
Generations == USIZE \div params.LENGTH

Nowhere == USIZE
Walking == home # Nowhere

-----------------------------------------------------------------------------
(* ReadOnly::new_slot_array (src/src/table.rs): the abstract index first   *)
(* handed out from each offset.                                            *)
initial_slot(P, offset) ==
  ((offset % SLOTS_PER_LINE(P)) * BLOCKS(P)) + (offset \div SLOTS_PER_LINE(P))

(* Mutants of generate_next_slot: no new generation; RESERVED not skipped. *)
next_slot_same_generation(P, a) == a
next_slot_keeps_reserved(P, a) == (a + P.LENGTH) % USIZE

(* Table::generate_next_slot: the next generation of the same slot, never  *)
(* the RESERVED marker usize::MAX; both additions wrap.                    *)
generate_next_slot(P, a) ==
  LET next == (a + P.LENGTH) % USIZE
  IN  IF next = USIZE - 1 THEN (next + P.LENGTH) % USIZE ELSE next

-----------------------------------------------------------------------------
(* Array::new_uninit: memory of P::LAYOUT, none of it initialised.         *)
new_uninit == slots = << >>

Init ==
  /\ \E p \in {DefaultParams} \cup {ConstParams(n) : n \in Requested}, t \in Targets :
        params = [N |-> p.N, LENGTH |-> p.LENGTH, arch |-> t.arch, word |-> t.word]
  /\ new_uninit
  /\ home = Nowhere
  /\ index = 0 /\ reuses = 0

(* The range of the loop of Array::new. Mutant: without the last element. *)
init_range_exclusive(P) == P.LENGTH - 1
init_range(P) == P.LENGTH

InitElement ==
  /\ ~Walking /\ Len(slots) < init_range(params)
  /\ slots' = Append(slots, initial_slot(params, Len(slots)))
  /\ UNCHANGED <<params, home, index, reuses>>

(* The loop has ended.                                                     *)
Filled == ~Walking /\ Len(slots) = init_range(params)

(* assume_init makes it an array of indices, and the table is in use.      *)
assume_init ==
  /\ Filled
  /\ home' \in {i - 1 : i \in DOMAIN slots}
  /\ index' = slots[home' + 1]
  /\ UNCHANGED <<params, slots, reuses>>

Recycle ==
  /\ Walking /\ reuses < Generations
  /\ index' = generate_next_slot(params, index)
  /\ reuses' = reuses + 1
  /\ UNCHANGED <<params, slots, home>>

Next == InitElement \/ assume_init \/ Recycle

Spec == Init /\ [][Next]_vars

-----------------------------------------------------------------------------
(* Most targets: a cache line is not longer than the table.                *)
LineFits == SLOTS_PER_LINE(params) <= params.LENGTH

(* Type invariant: an index is a word and never the RESERVED marker, which *)
(* acquire_slot would take for a slot in use.                              *)
TypeOK ==
  /\ params \in [N : Nat, LENGTH : CapacityEnum, arch : STRING, word : {4, 8}]
  /\ slots \in Seq(0..(USIZE - 2)) /\ Len(slots) <= params.LENGTH
  /\ home \in 0..(params.LENGTH - 1) \cup {Nowhere}
  /\ index \in 0..(USIZE - 2)
  /\ reuses \in 0..Generations

(* Capacity::new returns the least capacity that holds N entries, if any   *)
(* does (params.rs: "rounds up to the nearest power of two and clamps").   *)
CapacityFits ==
  /\ is_valid(params.LENGTH)
  /\ params.N <= CAP_MAX => params.N <= params.LENGTH
  /\ \A c \in CapacityEnum \cap CAP_MIN..CAP_MAX :
        c < params.LENGTH => c < params.N

(* What new_uninit passes to alloc is a layout, and what                   *)
(* from_size_align_unchecked (params.rs) and alloc take for granted holds, *)
(* for every capacity there is: not empty, a power of two to align to,     *)
(* whole lines, no longer than isize::MAX; and LENGTH words fit in it.     *)
LayoutValid ==
  slots = << >> =>
    \A c \in CapacityEnum :
      LET P == [params EXCEPT !.LENGTH = c]
          layout == LAYOUT(P)
      IN  /\ layout.size # 0 /\ layout.align \in PowersOfTwo
          /\ layout.size % layout.align = 0
          /\ layout.size <= ISIZE_MAX - (layout.align - 1)
          /\ c * P.word <= layout.size

(* Every table whose cache line fits it is one that Index, and with it     *)
(* every module about the table, is about: the quotients of its constants  *)
(* are whole, BLOCKS is LENGTH / CACHE_LINE_SLOTS with no padding, and the *)
(* table starts and recycles its slots as those modules say.               *)
AdmitsIndex ==
  LineFits =>
    /\ A!IndexAssumption
    /\ A!BLOCKS = BLOCKS(params)
    /\ \A c \in 0..(params.LENGTH - 1) : A!initial_slot(c) = initial_slot(params, c)
    /\ A!generate_next_slot(index) = generate_next_slot(params, index)

(* The slot array, the key and the key's owner agree on the cell: the      *)
(* index that starts at an offset maps to it for life, whether computed    *)
(* from the abstract index (insert) or from the key (lookup, remove), and  *)
(* the key decodes to the abstract index it was made from (the             *)
(* debug_assert of abstract_to_detached).                                  *)
KeyRoundTrip ==
  Walking /\ LineFits =>
    LET key == A!abstract_to_detached(index)
    IN  /\ A!abstract_to_concrete(index) = home
        /\ A!detached_to_concrete(key) = home
        /\ A!detached_to_abstract(key) = index

(* BLOCKS consecutive allocations touch BLOCKS different cache lines, from *)
(* any point of the order of allocation (index.rs cache_line_distribution).*)
ConsecutiveSpread ==
  LineFits =>
    LET line(a) == A!abstract_to_concrete(a % USIZE) \div SLOTS_PER_LINE(params)
    IN  \A i, j \in 0..(BLOCKS(params) - 1) :
          line(index + i) = line(index + j) => i = j

(* A slot's key repeats only when usize has no generation left: all but    *)
(* one (the one RESERVED takes) are used before the first index returns.   *)
KeyRepeatsOnlyAfterWrap ==
  reuses > 0 /\ index = initial_slot(params, home) => reuses >= Generations - 1
=============================================================================
