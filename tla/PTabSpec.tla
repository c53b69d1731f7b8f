------------------------------ MODULE PTabSpec ------------------------------
(***************************************************************************)
(* What PTab promises callers that remove each entry by one call           *)
(* (src/src/public.rs): a bounded map from keys to entries. Every insert   *)
(* returns a key never returned before, or one of a slot whose keys have   *)
(* all been returned; every remove takes away the entry its key was        *)
(* returned for and no other; each in one indivisible step.                *)
(***************************************************************************)
EXTENDS Naturals, FiniteSets

CONSTANTS
  Key,        \* the keys there are
  SlotOf(_),  \* the slot a key is for
  Capacity

VARIABLES
  present,  \* the keys of the entries in the table
  issued,   \* every key returned so far
  lost      \* how much capacity panics have cost

vars == <<present, issued, lost>>

Init == present = {} /\ issued = {} /\ lost = 0

HasRoom == Cardinality(present) + lost < Capacity

(* A key is used again only when all keys of its slot have been used, and  *)
(* never beside the entry it stands for.                                   *)
Fresh(k) == k \in issued => \A j \in Key : SlotOf(j) = SlotOf(k) => j \in issued

Insert ==
  \E k \in Key \ present :
    /\ HasRoom /\ Fresh(k)
    /\ present' = present \cup {k}
    /\ issued' = issued \cup {k}
    /\ UNCHANGED lost

Remove ==
  \E k \in present :
    /\ present' = present \ {k}
    /\ UNCHANGED <<issued, lost>>

Lose ==
  /\ HasRoom
  /\ lost' = lost + 1
  /\ UNCHANGED <<present, issued>>

Next == Insert \/ Remove \/ Lose

Spec == Init /\ [][Next]_vars
=============================================================================
