------------------------------ MODULE MCTable -------------------------------
EXTENDS Progress, TLC

Threads == Permutations(Thread)

(* The keys callers pass to remove: the first of each cell and one         *)
(* whose successor RESERVED would be; the first of three cells.            *)
EdgeKeys == Offset \cup {RESERVED - LENGTH}
ThreeCells == {0, 1, 2}
=============================================================================
