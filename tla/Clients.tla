------------------------------- MODULE Clients ------------------------------
(***************************************************************************)
(* The table with the programs that use it: threads that insert entries    *)
(* and remove them by the keys insert returned. A key's generation is what *)
(* lets a caller tell an entry from an earlier one in the same slot; these *)
(* are the properties it is there for.                                     *)
(*                                                                         *)
(* remove takes any key, and does not compare generations. Between the     *)
(* call and the swap that takes the entry anything may happen, so a key    *)
(* given to remove twice, even by two calls that both come while its entry *)
(* is there, may take the slot's next entry. SoleRemoves says whether      *)
(* callers give each key they get to one call of remove only.              *)
(***************************************************************************)
EXTENDS Table

CONSTANTS
  SoleRemoves,  \* whether callers remove each entry by one call
  MaxInserts    \* bound on the number of inserts

ASSUME ClientsAssumption ==
  /\ SoleRemoves \in BOOLEAN
  /\ MaxInserts \in Nat

VARIABLES
  inserts,  \* how many inserts were started
  issued,   \* every key an insert returned
  owned,    \* those by which no remove has taken an entry away since
  removing  \* the key of the remove a thread has called, until its swap

clients == <<inserts, issued, owned, removing>>

ClientsInit ==
  /\ Init
  /\ inserts = 0 /\ issued = {} /\ owned = {}
  /\ removing = [t \in Thread |-> Null]

(* The caller starts an insert.                                            *)
StartInsert(t) ==
  /\ inserts < MaxInserts /\ removing[t] = Null
  /\ ReserveSlot(t)
  /\ inserts' = inserts + 1
  /\ UNCHANGED <<issued, owned, removing>>

(* The key it gets.                                                        *)
ReturnKey(t) ==
  /\ Publish(t)
  /\ LET key == abstract_to_detached(idx[t])
     IN  issued' = issued \cup {key} /\ owned' = owned \cup {key}
  /\ UNCHANGED <<inserts, removing>>

(* The caller calls remove: with the key of an entry no other call is to   *)
(* remove, or with any key it was ever given.                              *)
StartRemove(t) ==
  /\ pc[t] = "idle" /\ removing[t] = Null
  /\ \E k \in IF SoleRemoves THEN owned \ {removing[u] : u \in Thread} ELSE issued :
       removing' = [removing EXCEPT ![t] = k]
  /\ UNCHANGED <<vars, inserts, issued, owned>>

(* The swap of that remove, whatever has happened since the call. It takes *)
(* the entry it finds in the key's slot, if any, be it of another key.     *)
RemoveKey(t) ==
  /\ removing[t] # Null
  /\ IF find(removing[t]) = Null
       THEN UNCHANGED <<vars, owned>>
       ELSE Evict(t, removing[t]) /\ owned' = owned \ {removing[t]}
  /\ removing' = [removing EXCEPT ![t] = Null]
  /\ UNCHANGED <<inserts, issued>>

Continue(t) ==
  /\ \/ UndoReserve(t) \/ UndoRetry(t)
     \/ FetchNextId(t) \/ SwapSlot(t) \/ InitPanics(t)
     \/ FetchFreeId(t) \/ StoreSlot(t) \/ StoreSlotOccupied(t) \/ StoreSlotSpurious(t)
     \/ DecrEntries(t)
  /\ UNCHANGED clients

ClientsNext ==
  \E t \in Thread :
    StartInsert(t) \/ ReturnKey(t) \/ StartRemove(t) \/ RemoveKey(t) \/ Continue(t)

ClientsSpec == ClientsInit /\ [][ClientsNext]_<<vars, clients>>

-----------------------------------------------------------------------------
(* The keys a slot has: of every generation, but for the one whose index   *)
(* would be the RESERVED marker.                                           *)
Keys == Word \ {abstract_to_detached(RESERVED)}
KeysOf(c) == {k \in Keys : detached_to_concrete(k) = c}

(* A key an insert is about to return was never returned before: "Slot     *)
(* reuse produces different indices" (README.md). Only when every key of a *)
(* slot has been returned do they come again.                              *)
KeysFresh ==
  \A t \in Thread :
    pc[t] = "publish" =>
      \/ abstract_to_detached(idx[t]) \in Keys \ issued
      \/ KeysOf(Concrete(idx[t])) \subseteq issued

(* The key of an entry nobody removed finds that entry, through every      *)
(* insert and remove of other entries and however threads interleave: a    *)
(* key "uniquely identifies that entry" (lib.rs).                          *)
KeyFindsItsEntry == \A k \in owned : find(k) = k

(* A key was handed out for each entry the table holds, and only those     *)
(* whose entry was not removed find it: remove removed what it was asked   *)
(* to, and nothing more.                                                   *)
LiveAreOwned == {data[c] : c \in Live} = owned

(* The table the callers see.                                              *)
PTab == INSTANCE PTabSpec WITH
  Key <- Keys, SlotOf <- detached_to_concrete, Capacity <- cap,
  present <- {data[c] : c \in Live}, lost <- Cardinality(leaked)

(* Callers that remove each entry by one call see a map that issues fresh  *)
(* keys as long as there are any, and every operation of which is a single *)
(* step.                                                                   *)
ImplementsPTab == PTab!Spec
=============================================================================
