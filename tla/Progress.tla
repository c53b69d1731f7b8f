------------------------------ MODULE Progress ------------------------------
(***************************************************************************)
(* How many steps threads can take before an operation ends. The crate is  *)
(* lock-free (src/src/lib.rs): whichever threads are scheduled and however *)
(* they interleave, some operation ends after boundedly many steps. Two    *)
(* loops over the ring and the undo loop stand in the way; this module     *)
(* counts what is left of each. TableLive.tla states the same as liveness. *)
(***************************************************************************)
EXTENDS Table

(* How many threads are at one of some steps.                              *)
Count(steps) == Cardinality({t \in Thread : pc[t] \in steps})

(* The ring positions threads have fetched and not tried yet.              *)
Targets(step) == {Concrete(reg[t]) : t \in {u \in Thread : pc[u] = step}}

(* The positions a loop can end at, which no thread is about to try.       *)
Untaken == {p \in Offset : Free(p)} \ Targets("swap_slot")
Unfilled == {p \in Offset : ~Free(p)} \ Targets("store_slot")

(* How often a counter can be fetched before all of some positions have    *)
(* been fetched: up to the farthest of them in one round of the ring.      *)
Fetches(counter, positions) ==
  Cardinality({k \in Offset :
    \E j \in k..(LENGTH - 1) : Concrete(counter + j) \in positions})

(* Steps left in the two loops, while no index enters or leaves the ring:  *)
(* each fetch is followed by one try.                                      *)
Tries ==
  (2 * Fetches(next_id, Untaken)) + Count({"swap_slot"})
    + (2 * Fetches(free_id, Unfilled)) + Count({"store_slot"})

(* Threads whose next CAS in the undo loop fails.                          *)
Stale == {t \in Thread : pc[t] = "undo" /\ entries # reg[t]}

(* What operations have before them, in parts: to begin, a loop to leave,  *)
(* and to end. A failing insert is in its loop, or counts for nothing.     *)
Parts ==
  (3 * Count({"idle"})) + (2 * Count({"undo", "fetch_next", "swap_slot", "fetch_free", "store_slot"}))
    + Count({"publish", "decr"})

RingParts ==
  (3 * Count({"idle", "undo"})) + (2 * Count({"fetch_next", "swap_slot", "fetch_free", "store_slot"}))
    + Count({"publish", "decr"})

-----------------------------------------------------------------------------
(* The lexicographic order, in which there are no infinite descents.       *)
Precedes(r, s) ==
  \/ r[1] < s[1]
  \/ r[1] = s[1] /\ r[2] < s[2]
  \/ r[1] = s[1] /\ r[2] = s[2] /\ r[3] < s[3]

rank == <<Parts, Tries, Cardinality(Stale)>>
ring_rank == <<RingParts, Tries, 0>>

(* compare_exchange_weak failing where it could succeed sets a loop back;  *)
(* it is all that can, and it is not the table's doing.                    *)
Spurious == \E t \in Thread : StoreSlotSpurious(t)

Ends(steps) == \E t \in Thread : pc[t] \in steps /\ pc'[t] = "idle"

(* Lock-freedom, in steps: every step ends an operation or brings the end  *)
(* of one nearer, whoever takes it. The distance is bounded, by the number *)
(* of threads and the capacity, so operations end again and again as long  *)
(* as any thread runs, wherever the others have stopped.                   *)
LockFreeSteps ==
  /\ [](/\ Parts <= 3 * Cardinality(Thread)
        /\ Tries <= (4 * LENGTH) + Cardinality(Thread)
        /\ Cardinality(Stale) <= Cardinality(Thread))
  /\ [][Ends(Step \ {"idle"}) \/ Spurious \/ Precedes(rank', rank)]_vars

(* The loops of acquire_slot and release_slot end on their own account: a  *)
(* round of either brings its end nearer, unless an insert publishes or a  *)
(* remove returns. Inserts that fail neither hold them up nor help.        *)
RingSteps ==
  [][\/ Ends({"publish", "decr"}) \/ Spurious
     \/ Precedes(ring_rank', ring_rank)
     \/ /\ ring_rank' = ring_rank
        /\ \A t \in Thread : Acquiring(t) \/ Releasing(t) => pc'[t] = pc[t]]_vars
=============================================================================
