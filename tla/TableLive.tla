----------------------------- MODULE TableLive ------------------------------
(***************************************************************************)
(* Progress of the table's operations (src/src/table.rs).                  *)
(*                                                                         *)
(* The crate calls itself lock-free: a thread that stalls in the middle of *)
(* an operation, for ever if need be, does not keep the others from        *)
(* completing theirs. Fair is the set of threads that are scheduled; the   *)
(* others may stop anywhere. A fair thread need not start an operation but *)
(* goes on with the one it is in.                                          *)
(***************************************************************************)
EXTENDS Table

CONSTANT Fair  \* the threads the scheduler keeps running
ASSUME FairAssumption == Fair \subseteq Thread

Proceed(t) ==
  \/ UndoReserve(t) \/ UndoRetry(t)
  \/ FetchNextId(t) \/ SwapSlot(t) \/ Publish(t)
  \/ FetchFreeId(t) \/ StoreSlot(t) \/ StoreSlotOccupied(t) \/ StoreSlotSpurious(t)
  \/ DecrEntries(t)

(* A weak CAS that could succeed does not fail spuriously every time. This *)
(* leaves a thread free to lose every race for a position.                 *)
CasFairness(t) ==
  []<><<StoreSlotSpurious(t)>>_vars => []<><<StoreSlot(t)>>_vars

Fairness == \A t \in Fair : WF_vars(Proceed(t)) /\ CasFairness(t)

LiveSpec == Spec /\ Fairness

-----------------------------------------------------------------------------
(* An operation that ends by changing the table.                           *)
Effective == \E t \in Thread : Publish(t) \/ DecrEntries(t)
Completes == Effective \/ \E t \in Thread : UndoReserve(t)

(* Lock-freedom: either no running thread stays in an operation for ever,  *)
(* or operations complete again and again. Other threads may be stalled    *)
(* anywhere, holding a slot or a permit.                                   *)
LockFree ==
  \/ \A t \in Fair : []<>(pc[t] = "idle")
  \/ []<><<Completes>>_vars

(* The two loops over the ring are left by every running thread unless     *)
(* others publish or remove entries for ever: inserts that fail and stalls *)
(* cannot keep acquire_slot or release_slot going round.                   *)
RingProgress ==
  \/ \A t \in Fair : []<>(~Acquiring(t) /\ ~Releasing(t))
  \/ []<><<Effective>>_vars
=============================================================================
