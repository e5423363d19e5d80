---------------------------- MODULE TxExecution ------------------------------
(***************************************************************************)
(* What the callers of an executor know of it, whatever its mode: how      *)
(* Execute advances the transaction that it is given, when it returns, and *)
(* what its error says of the store.  Every executor implements this, and  *)
(* a call of a Runtime does no more with its transaction.                  *)
(***************************************************************************)
EXTENDS TxRecord

CONSTANT Mode   \* tx.Mode

VARIABLES
    outcome,   \* what Execute returned: "none" while it runs, "ok" or "error"
    again      \* the transaction was loaded from the store, and is not new

execution == <<state, store, outcome, again>>

Init ==
    /\ state = "PENDING" /\ store = "PENDING"
    /\ outcome = "none"
    /\ again = FALSE

\* An update that fails ends Execute, as do the states without a move.  Only
\* for a stored COMMITTED is there no error.
OutcomeOf(target, err) ==
    IF target = "COMMITTED" /\ ~err THEN "ok"
    ELSE IF err \/ IsFinal(target) \/ target = "SUSPENDED" THEN "error"
    ELSE "none"

Move ==
    /\ outcome = "none"
    /\ \E target \in TxStates, err \in BOOLEAN :
          /\ <<state, target>> \in ExecutorMoves(Mode)
          /\ Advance(Mode, target, err)
          /\ outcome' = OutcomeOf(target, err)
    /\ UNCHANGED again

\* Execute returns where it is: a transaction that is not new and was begun
\* before is refused, and the outbox cannot suspend one that is SUBMITTED.
GiveUp ==
    /\ outcome = "none"
    /\ \/ again /\ state # "PENDING"
       \/ Mode = "OUTBOX" /\ state = "SUBMITTED"
    /\ outcome' = "error"
    /\ UNCHANGED <<state, store, again>>

\* After a return or a crash the stored transaction is loaded and handed to
\* Execute again.
Reload ==
    /\ state' = store
    /\ outcome' = "none"
    /\ again' = TRUE
    /\ UNCHANGED store

Next == Move \/ GiveUp \/ Reload

Spec == Init /\ [][Next]_execution
==============================================================================
