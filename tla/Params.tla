------------------------------- MODULE Params -------------------------------
(***************************************************************************)
(* Compile-time table parameters (src/src/params.rs) and the cache line    *)
(* they depend on (src/src/padded.rs).                                     *)
(*                                                                         *)
(* The derived constants of the trait ParamsExt are operators of a record  *)
(* P, as they are associated constants of a type P in the source:          *)
(*   P.LENGTH  the capacity, a power of two;                               *)
(*   P.arch    target_arch;                                                *)
(*   P.word    size_of::<AtomicUsize>() in bytes.                          *)
(***************************************************************************)
EXTENDS Naturals, FiniteSetsExt

CONSTANTS
  USIZE,    \* 2^width of the target's usize, as far as indices go
  CAP_MIN,  \* Capacity::MIN
  CAP_MAX,  \* Capacity::MAX
  CAP_DEF   \* Capacity::DEF

PowersOfTwo == {2^i : i \in 0..30}

(* The capacities there are. Builds differ in MIN, MAX and DEF.            *)
CapacityEnum == {2^i : i \in 4..27}

(* usize has 2^32 or 2^64 values, more than TLC counts. Of its being a      *)
(* power of two, all that the table rests on is that a capacity divides it.*)
ASSUME ParamsAssumption ==
  /\ {CAP_MIN, CAP_MAX, CAP_DEF} \subseteq CapacityEnum
  /\ CAP_MIN <= CAP_DEF /\ CAP_DEF <= CAP_MAX
  /\ USIZE \in Nat /\ USIZE % CAP_MAX = 0 /\ CAP_MAX < USIZE

-----------------------------------------------------------------------------
(* The alignment CachePadded has on an architecture; being that of a       *)
(* single byte padded, its size is the same.                               *)
CACHE_LINE(arch) ==
  CASE arch \in {"x86_64", "aarch64", "arm64ec", "powerpc64"} -> 128
    [] arch \in {"arm", "mips", "mips32r6", "mips64", "mips64r6",
                 "sparc", "hexagon"} -> 32
    [] arch = "m68k" -> 16
    [] arch = "s390x" -> 256
    [] OTHER -> 64

(* params::CACHE_LINE_SLOTS, for a target.                                 *)
SLOTS_PER_LINE(P) == CACHE_LINE(P.arch) \div P.word

(* isize::MAX of a 32-bit target. That of a 64-bit one is greater, so what *)
(* is shown below this bound holds there too.                              *)
ISIZE_MAX == 2^30 + (2^30 - 1)

-----------------------------------------------------------------------------
(* Mutants: the next power strictly above; no rounding.                    *)
next_powers_strict(n) == {p \in PowersOfTwo : p > n /\ p < USIZE}
next_powers_unrounded(n) == {n}

(* usize::checked_next_power_of_two is the least of these, and None if     *)
(* there is none. Those above 2^30, which are left out, exceed MAX.        *)
next_powers(n) == {p \in PowersOfTwo : p >= n /\ p < USIZE}

(* The precondition of Capacity::new_unchecked.                            *)
is_valid(n) == n \in PowersOfTwo /\ n >= CAP_MIN /\ n <= CAP_MAX

(* Capacity::new: round up, then clamp to MIN..MAX. A value whose next     *)
(* power of two does not fit usize gives MAX.                              *)
Capacity(n) ==
  IF next_powers(n) = {}
    THEN CAP_MAX
    ELSE Min({CAP_MAX, Max({CAP_MIN, Min(next_powers(n))})})

(* Capacity::log2, by the trailing zeros of a power of two.                *)
log2(c) == CHOOSE k \in 0..30 : 2^k = c

(* The two implementations of Params, with the length asked for.           *)
DefaultParams == [N |-> CAP_DEF, LENGTH |-> CAP_DEF]
ConstParams(n) == [N |-> n, LENGTH |-> Capacity(n)]

-----------------------------------------------------------------------------
(* derive_blocks: the array is padded to whole cache lines, and must not   *)
(* be longer than a Rust object may be. 0 stands for a failed constant     *)
(* evaluation: the program does not compile.                               *)
mem_align(P) ==
  LET line == CACHE_LINE(P.arch)
  IN  ((P.LENGTH * P.word + line - 1) \div line) * line

(* Mutant: the array is not padded.                                        *)
BLOCKS_unpadded(P) == (P.LENGTH * P.word) \div CACHE_LINE(P.arch)

BLOCKS(P) ==
  IF mem_align(P) > ISIZE_MAX THEN 0 ELSE mem_align(P) \div CACHE_LINE(P.arch)

(* P::MEMORY, in bytes.                                                    *)
MEMORY(P) == BLOCKS(P) * CACHE_LINE(P.arch)

(* derive_layout: what Array::new_uninit allocates.                        *)
LAYOUT(P) == [size |-> MEMORY(P), align |-> CACHE_LINE(P.arch)]

ID_MASK_BITS(P) == log2(P.LENGTH)
ID_MASK_ENTRY(P) == 2^ID_MASK_BITS(P) - 1
ID_MASK_BLOCK(P) == BLOCKS(P) - 1
ID_MASK_INDEX(P) == SLOTS_PER_LINE(P) - 1

(* For m = 2^k - 1, the number of trailing ones is k.                      *)
trailing_ones(m) == CHOOSE k \in 0..30 : 2^k = m + 1

ID_SHIFT_BLOCK(P) == trailing_ones(ID_MASK_INDEX(P))
ID_SHIFT_INDEX(P) == trailing_ones(ID_MASK_BLOCK(P))
=============================================================================
