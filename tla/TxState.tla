------------------------------- MODULE TxState -------------------------------
(***************************************************************************)
(* The state machine of a distributed transaction (state.go): the states,  *)
(* which of them are final, and, for every transaction mode, the table of  *)
(* legal moves that Transaction.TransitionTo consults.  A Go table that    *)
(* maps a state to the list of its successors is the set of its edges.     *)
(***************************************************************************)
EXTENDS Naturals, Sequences

TxStates == {"PENDING", "RUNNING", "TRYING", "CONFIRMING", "CANCELING",
             "COMPENSATING", "PREPARING", "PREPARED", "COMMITTING",
             "ABORTING", "ROLLBACKING", "SUBMITTING", "SUBMITTED",
             "COMMITTED", "COMPENSATED", "ROLLEDBACK", "FAILED", "SUSPENDED"}

FinalStates == {"COMMITTED", "COMPENSATED", "ROLLEDBACK", "FAILED"}

IsFinal(s) == s \in FinalStates

\* Mutant of recoverableStates: SUSPENDED comes last.
recoverableStatesSuspendedLast ==
    <<"COMPENSATING", "CONFIRMING", "CANCELING", "COMMITTING", "ABORTING",
      "SUSPENDED">>

\* The states that the recovery scan loads, in the order in which it does.
recoverableStates ==
    <<"SUSPENDED", "COMPENSATING", "CONFIRMING", "CANCELING", "COMMITTING",
      "ABORTING">>

\* Mutant of IsRecoverable: a scan for SUSPENDED only.
IsSuspended(s) == s = "SUSPENDED"

IsRecoverable(s) ==
    \E k \in 1..Len(recoverableStates) : recoverableStates[k] = s

TxModes == {"SAGA", "TCC", "XA", "WORKFLOW", "OUTBOX"}

sagaTransitions ==
    {<<"PENDING", "RUNNING">>}
        \cup {"RUNNING"} \X {"COMMITTED", "COMPENSATING", "FAILED", "SUSPENDED"}
        \cup {"COMPENSATING"} \X {"COMPENSATED", "FAILED", "SUSPENDED"}

\* Mutant of tccTransitions: a confirmation may turn into a cancellation.
tccTransitionsTurning ==
    {<<"PENDING", "TRYING">>}
        \cup {"TRYING"} \X {"CONFIRMING", "CANCELING", "FAILED", "SUSPENDED"}
        \cup {"CONFIRMING"} \X {"COMMITTED", "CANCELING", "FAILED", "SUSPENDED"}
        \cup {"CANCELING"} \X {"ROLLEDBACK", "FAILED", "SUSPENDED"}

tccTransitions ==
    {<<"PENDING", "TRYING">>}
        \cup {"TRYING"} \X {"CONFIRMING", "CANCELING", "FAILED", "SUSPENDED"}
        \cup {"CONFIRMING"} \X {"COMMITTED", "FAILED", "SUSPENDED"}
        \cup {"CANCELING"} \X {"ROLLEDBACK", "FAILED", "SUSPENDED"}

xaTransitions ==
    {<<"PENDING", "PREPARING">>}
        \cup {"PREPARING"} \X {"PREPARED", "ABORTING", "FAILED", "SUSPENDED"}
        \cup {"PREPARED"} \X {"COMMITTING", "ABORTING"}
        \cup {"COMMITTING"} \X {"COMMITTED", "FAILED", "SUSPENDED"}
        \cup {"ABORTING"} \X {"ROLLEDBACK", "FAILED", "SUSPENDED"}

outboxTransitions ==
    {<<"PENDING", "SUBMITTING">>}
        \cup {"SUBMITTING"} \X {"SUBMITTED", "FAILED", "SUSPENDED"}
        \cup {<<"SUBMITTED", "COMMITTED">>}

getTransitions(mode) ==
    CASE mode = "TCC"    -> tccTransitions
      [] mode = "XA"     -> xaTransitions
      [] mode = "OUTBOX" -> outboxTransitions
      [] OTHER           -> sagaTransitions   \* SAGA, and WORKFLOW reuses it

CanTransition(mode, from, to) == <<from, to>> \in getTransitions(mode)

\* The moves that an executor makes.  Only the outbox goes to FAILED, no
\* PREPARED transaction is aborted, and only a workflow is suspended in its
\* first phase.
ExecutorMoves(mode) ==
    {m \in getTransitions(mode) :
        /\ m[2] = "FAILED" => mode = "OUTBOX"
        /\ m # <<"PREPARED", "ABORTING">>
        /\ m[2] = "SUSPENDED" => IsRecoverable(m[1]) \/ mode = "WORKFLOW"}
==============================================================================
