---------------------------- MODULE MCIndexWalk -----------------------------
EXTENDS IndexBits

(* Capacities below, at, between and above the bounds, and one whose next  *)
(* power of two overflows usize.                                           *)
MCRequested == {0, 16, 17, 33, 65, 200}

(* A target of each line length and word size: 4, 8 and 16 words per line, *)
(* and the 32 of long lines (x86_64 with 4-byte words is its x32 ABI).     *)
Target(a, w) == [arch |-> a, word |-> w]
LongLines == {Target("x86_64", 4), Target("s390x", 8)}
AllTargets ==
  LongLines \cup
    {Target("x86_64", 8), Target("arm", 4), Target("mips64", 8),
     Target("m68k", 4), Target("riscv64", 8), Target("riscv32", 4)}
=============================================================================
