---------------------------- MODULE MCOrderings -----------------------------
EXTENDS Orderings, TLC

Threads == Permutations(Thread)
(* One key for each cell: no step here depends on a key's generation.       *)
EachCell == Offset
=============================================================================
