------------------------------ MODULE CellSpec ------------------------------
(***************************************************************************)
(* What the table promises whatever keys its callers pass: an array of     *)
(* cells in which each insert fills an empty cell, each remove empties the *)
(* one its key names, in one indivisible step, and the capacity holds.     *)
(* Inserts that fail, removes that find nothing and lookups change nothing.*)
(***************************************************************************)
EXTENDS Naturals, FiniteSets

CONSTANTS
  Cell,
  Entry,      \* what a cell can hold
  CellOf(_),  \* the cell an entry belongs in
  Capacity,
  Null

VARIABLES
  cells,  \* what each cell holds
  lost    \* cells that can no longer be used

vars == <<cells, lost>>

Init == cells = [c \in Cell |-> Null] /\ lost = {}

Usable(c) == cells[c] = Null /\ c \notin lost

HasRoom ==
  Cardinality({c \in Cell : cells[c] # Null}) + Cardinality(lost) < Capacity

Insert(e) ==
  /\ HasRoom /\ Usable(CellOf(e))
  /\ cells' = [cells EXCEPT ![CellOf(e)] = e]
  /\ UNCHANGED lost

Remove(c) ==
  /\ cells[c] # Null
  /\ cells' = [cells EXCEPT ![c] = Null]
  /\ UNCHANGED lost

(* The closure that should have made the entry panicked.                   *)
Lose(c) ==
  /\ HasRoom /\ Usable(c)
  /\ lost' = lost \cup {c}
  /\ UNCHANGED cells

Next ==
  \/ \E e \in Entry : Insert(e)
  \/ \E c \in Cell : Remove(c) \/ Lose(c)

Spec == Init /\ [][Next]_vars
=============================================================================
