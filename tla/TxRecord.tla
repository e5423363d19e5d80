------------------------------ MODULE TxRecord -------------------------------
(***************************************************************************)
(* One transaction as its executor sees it: the Transaction object in      *)
(* memory and the copy of it the StoreAdapter keeps.                       *)
(*                                                                         *)
(* Every executor advances both with the same two calls, in this order:    *)
(* tx.TransitionTo(target), which checks the table of the mode, and        *)
(* adapter.UpdateTransactionState(tx.ID, target), in which the adapter     *)
(* makes the same check on its own copy.  They are one step here: nothing  *)
(* but the executor reads the object in memory, so no other actor, and no  *)
(* restart, can tell that a crash fell between the two.                    *)
(***************************************************************************)
EXTENDS TxState

(***************************************************************************)
(* How a store that is not the in-memory one may fail a legal update.      *)
(*   "rejected"   : the update is not made and the caller gets an error    *)
(*   "lost_reply" : the update is made and the caller gets an error        *)
(* MemoryAdapter does neither: its StoreFaults is {}.                      *)
(***************************************************************************)
CONSTANT StoreFaults

ASSUME StoreFaultsAssumption == StoreFaults \subseteq {"rejected", "lost_reply"}

VARIABLES
    state,   \* tx.State, the object in the executor's memory
    store    \* the State of the adapter's copy of the transaction

\* Mutant of UpdateTransactionState: the copy's own state is not looked at.
UpdateUnchecked(mode, target, err) ==
    store' \in IF ~err THEN {target}
              ELSE {store} \cup {s \in {target} : "lost_reply" \in StoreFaults}

(***************************************************************************)
(* UpdateTransactionState on the adapter's copy; err tells whether the     *)
(* caller gets an error.  An update that is not a legal move of that copy  *)
(* is refused.                                                             *)
(***************************************************************************)
UpdateTransactionState(mode, target, err) ==
    \/ /\ CanTransition(mode, store, target)
       /\ err => "lost_reply" \in StoreFaults
       /\ store' = target
    \/ /\ err
       /\ CanTransition(mode, store, target) => "rejected" \in StoreFaults
       /\ store' = store

(***************************************************************************)
(* tx.TransitionTo(target) and then UpdateTransactionState(target).        *)
(***************************************************************************)
Advance(mode, target, err) ==
    /\ CanTransition(mode, state, target)
    /\ state' = target
    /\ UpdateTransactionState(mode, target, err)

\* Memory is at most one legal move ahead of the store: a failed update ends the
\* execution.
MemoryLeads(mode) == store = state \/ CanTransition(mode, store, state)
==============================================================================
