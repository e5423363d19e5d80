---------------------------- MODULE SagaExecutor -----------------------------
(***************************************************************************)
(* SagaExecutor.Execute and compensate (saga/executor.go): run the actions *)
(* of a saga in order; when one fails, run the compensations of those that *)
(* succeeded in reverse order.                                             *)
(*                                                                         *)
(* A step of the model is one call that leaves the executor: an update of  *)
(* the store, one attempt at an Action or at a Compensate.  Crash may fall *)
(* between any two of them.  The steps' callbacks are the services'; of a  *)
(* service only one thing is kept, whether the effect of its Action is in  *)
(* place, and callbacks are idempotent, as docs/01.SAGA.md asks.           *)
(***************************************************************************)
EXTENDS TxRecord, Naturals, Sequences

CONSTANTS
    N,              \* number of steps
    Retries,        \* Step.Retries
    RetryCount,     \* attempts made by e.retry, or 0 when e.retry is nil
    CallFaults,     \* what a failing callback may do besides nothing:
                    \*   "late"     : it takes effect, and returns an error
                    \*   "inflight" : it returns an error, and may take effect
                    \*                at any later time
    MaxExecutions   \* bound: calls of Execute with this transaction

Steps == 1..N

ASSUME SagaAssumption ==
    /\ N \in Nat
    /\ Retries \in [Steps -> Nat]
    /\ RetryCount \in Nat
    /\ CallFaults \subseteq {"late", "inflight"}
    /\ MaxExecutions \in Nat \ {0}

VARIABLES
    pc,           \* where Execute is
    i,            \* the loop index, of the forward and of the reverse loop
    completed,    \* completedSteps
    status,       \* tx.Steps[s].Status, "none" while s has no entry
    attempt,      \* failed attempts of the current retry loop
    lastErr,      \* lastErr # nil in compensate
    result,       \* what the last call of Execute returned
    executions,   \* calls of Execute so far
    effect,       \* services: the steps whose effect is in place
    inflight      \* services: the steps with a call that may still land

locals == <<i, completed, status, attempt, lastErr>>
services == <<effect, inflight>>
vars == <<state, store, pc, i, completed, status, attempt, lastErr, result,
          executions, effect, inflight>>

Results == {"none", "rejected", "adapter_error", "committed", "compensated",
            "compensation_failed"}

\* Attempts that the forward retry loop makes at the action of step s.
ActionAttempts(s) ==
    IF RetryCount > 0 /\ Retries[s] > 0 THEN Retries[s] + 1 ELSE 1

CompensateAttempts == IF RetryCount > 0 THEN RetryCount ELSE 1

Goto(label) == pc' = label /\ UNCHANGED result
\* Mutant of Loop: the range stops one step early.
LoopShort(s) == Goto(IF s >= N THEN "commit" ELSE "action")

Loop(s) == Goto(IF s > N THEN "commit" ELSE "action")
Return(r) == pc' = "returned" /\ result' = r

Init ==
    /\ state = "PENDING" /\ store = "PENDING"
    /\ pc = "begin"
    /\ i = 1
    /\ completed = <<>>
    /\ status = [s \in Steps |-> "none"]
    /\ attempt = 0
    /\ lastErr = FALSE
    /\ result = "none"
    /\ executions = 1
    /\ effect = {} /\ inflight = {}

(***************************************************************************)
(* Entering Execute.                                                       *)
(***************************************************************************)
Begin ==
    /\ pc = "begin"
    /\ \E err \in BOOLEAN :
          /\ Advance("SAGA", "RUNNING", err)
          /\ IF err THEN Return("adapter_error") ELSE Loop(1)
    /\ i' = 1 /\ completed' = <<>> /\ attempt' = 0 /\ lastErr' = FALSE
    /\ UNCHANGED <<status, executions, services>>

\* The transaction handed to Execute is not PENDING.
RejectBegin ==
    /\ pc = "begin"
    /\ ~CanTransition("SAGA", state, "RUNNING")
    /\ Return("rejected")
    /\ UNCHANGED <<state, store, locals, executions, services>>

(***************************************************************************)
(* The forward loop.                                                       *)
(***************************************************************************)

\* One call of step s's Action.
Act(s, err) ==
    \/ /\ err => "late" \in CallFaults
       /\ effect' = effect \cup {s}
       /\ UNCHANGED inflight
    \/ /\ err
       /\ UNCHANGED services
    \/ /\ err /\ "inflight" \in CallFaults
       /\ inflight' = inflight \cup {s}
       /\ UNCHANGED effect

ActionSucceeds ==
    /\ pc = "action"
    /\ Act(i, FALSE)
    /\ status' = [status EXCEPT ![i] = "COMMITTED"]
    /\ completed' = Append(completed, i)
    /\ i' = i + 1
    /\ attempt' = 0
    /\ Loop(i + 1)
    /\ UNCHANGED <<state, store, lastErr, executions>>

\* Mutant of RetryAction: after the last attempt the count starts over.
RetryActionForever ==
    /\ pc = "action"
    /\ Act(i, TRUE)
    /\ attempt' = (attempt + 1) % ActionAttempts(i)
    /\ UNCHANGED <<state, store, pc, i, completed, status, lastErr, result,
                   executions>>

RetryAction ==
    /\ pc = "action"
    /\ attempt + 1 < ActionAttempts(i)
    /\ Act(i, TRUE)
    /\ attempt' = attempt + 1
    /\ UNCHANGED <<state, store, pc, i, completed, status, lastErr, result,
                   executions>>

\* r.Do gives up, and the failed step gets its entry in tx.Steps.
FailStep ==
    /\ status' = [status EXCEPT ![i] = "FAILED"]
    /\ attempt' = 0
    /\ Goto("turn")
    /\ UNCHANGED <<state, store, i, completed, lastErr, executions>>

ActionFails ==
    /\ pc = "action"
    /\ attempt + 1 = ActionAttempts(i)
    /\ Act(i, TRUE)
    /\ FailStep

\* The retry loop is bound to the step's context and ends when that does.
StepContextDone ==
    /\ pc = "action"
    /\ ActionAttempts(i) > 1
    /\ FailStep
    /\ UNCHANGED services

\* Mutant of Commit: the error of the update is not returned.
CommitAnyway ==
    /\ pc = "commit"
    /\ \E err \in BOOLEAN : Advance("SAGA", "COMMITTED", err)
    /\ Return("committed")
    /\ UNCHANGED <<locals, executions, services>>

Commit ==
    /\ pc = "commit"
    /\ \E err \in BOOLEAN :
          /\ Advance("SAGA", "COMMITTED", err)
          /\ Return(IF err THEN "adapter_error" ELSE "committed")
    /\ UNCHANGED <<locals, executions, services>>

(***************************************************************************)
(* compensate.                                                             *)
(***************************************************************************)
\* Mutant of BeginCompensate: the error of the update is dropped.
CompensateAnyway ==
    /\ pc = "turn"
    /\ \E err \in BOOLEAN : Advance("SAGA", "COMPENSATING", err)
    /\ Goto("compensate")
    /\ i' = Len(completed) /\ lastErr' = FALSE
    /\ UNCHANGED <<completed, status, attempt, executions, services>>

BeginCompensate ==
    /\ pc = "turn"
    /\ \E err \in BOOLEAN :
          /\ Advance("SAGA", "COMPENSATING", err)
          /\ IF err THEN Return("compensation_failed") ELSE Goto("compensate")
    /\ i' = Len(completed)
    /\ lastErr' = FALSE
    /\ UNCHANGED <<completed, status, attempt, executions, services>>

\* One call of step s's Compensate.
Undo(s, err) ==
    /\ \/ /\ err => "late" \in CallFaults
          /\ effect' = effect \ {s}
       \/ /\ err
          /\ UNCHANGED effect
    /\ UNCHANGED inflight

CompensateSucceeds ==
    /\ pc = "compensate" /\ i > 0
    /\ Undo(completed[i], FALSE)
    /\ status' = [status EXCEPT ![completed[i]] = "COMPENSATED"]
    /\ i' = i - 1
    /\ attempt' = 0
    /\ UNCHANGED <<state, store, pc, completed, lastErr, result, executions>>

RetryCompensate ==
    /\ pc = "compensate" /\ i > 0
    /\ attempt + 1 < CompensateAttempts
    /\ Undo(completed[i], TRUE)
    /\ attempt' = attempt + 1
    /\ UNCHANGED <<state, store, pc, i, completed, status, lastErr, result,
                   executions>>

\* Mutant of CompensateFails: lastErr is not set.
CompensateFailsUnnoted ==
    /\ pc = "compensate" /\ i > 0
    /\ attempt + 1 = CompensateAttempts
    /\ Undo(completed[i], TRUE)
    /\ status' = [status EXCEPT ![completed[i]] = "FAILED"]
    /\ i' = i - 1 /\ attempt' = 0
    /\ UNCHANGED <<state, store, pc, completed, lastErr, result, executions>>

\* The failure is noted, and the loop goes on with the step before.
CompensateFails ==
    /\ pc = "compensate" /\ i > 0
    /\ attempt + 1 = CompensateAttempts
    /\ Undo(completed[i], TRUE)
    /\ status' = [status EXCEPT ![completed[i]] = "FAILED"]
    /\ lastErr' = TRUE
    /\ i' = i - 1
    /\ attempt' = 0
    /\ UNCHANGED <<state, store, pc, completed, result, executions>>

\* The error of this update is dropped.
Suspend ==
    /\ pc = "compensate" /\ i = 0 /\ lastErr
    /\ \E err \in BOOLEAN : Advance("SAGA", "SUSPENDED", err)
    /\ Return("compensation_failed")
    /\ UNCHANGED <<locals, executions, services>>

\* Mutant of EndCompensate: lastErr is not looked at.
EndCompensateAnyway ==
    /\ pc = "compensate" /\ i = 0
    /\ \E err \in BOOLEAN :
          /\ Advance("SAGA", "COMPENSATED", err)
          /\ Return(IF err THEN "compensation_failed" ELSE "compensated")
    /\ UNCHANGED <<locals, executions, services>>

EndCompensate ==
    /\ pc = "compensate" /\ i = 0 /\ ~lastErr
    /\ \E err \in BOOLEAN :
          /\ Advance("SAGA", "COMPENSATED", err)
          /\ Return(IF err THEN "compensation_failed" ELSE "compensated")
    /\ UNCHANGED <<locals, executions, services>>

Execute ==
    \/ Begin \/ RejectBegin
    \/ ActionSucceeds \/ RetryAction \/ ActionFails \/ StepContextDone
    \/ Commit
    \/ BeginCompensate
    \/ CompensateSucceeds \/ RetryCompensate \/ CompensateFails
    \/ Suspend \/ EndCompensate

(***************************************************************************)
(* What is not the executor's doing.                                       *)
(***************************************************************************)

Over == pc \in {"returned", "crashed"}

\* The process dies; the store and the services do not, and the call that was
\* being made may still land.
Crash ==
    /\ ~Over
    /\ pc' = "crashed"
    /\ \/ UNCHANGED inflight
       \/ /\ pc = "action" /\ "inflight" \in CallFaults
          /\ inflight' = inflight \cup {i}
    /\ UNCHANGED <<state, store, locals, result, executions, effect>>

\* A caller, or a recovery handler, loads the stored transaction and hands it
\* to Execute again.  The entries of tx.Steps are never stored: the copy has
\* none, and the variable status keeps those of the earlier execution.
Reexecute ==
    /\ Over
    /\ executions < MaxExecutions
    /\ executions' = executions + 1
    /\ state' = store
    /\ pc' = "begin"
    /\ result' = "none"
    /\ UNCHANGED <<store, locals, services>>

\* A call without an answer reaches its service, perhaps not for the first time.
Land(s) ==
    /\ s \in inflight \ effect
    /\ effect' = effect \cup {s}
    /\ UNCHANGED <<state, store, pc, locals, result, executions, inflight>>

Terminated ==
    /\ Over
    /\ executions = MaxExecutions
    /\ UNCHANGED vars

Next ==
    \/ Execute
    \/ Crash
    \/ Reexecute
    \/ \E s \in Steps : Land(s)
    \/ Terminated

Spec == Init /\ [][Next]_vars

\* The goroutine of Execute is scheduled and callbacks return; nothing else is
\* sure to happen.
FairSpec == Spec /\ WF_vars(Execute)

------------------------------------------------------------------------------
(***************************************************************************)
(* Properties.                                                             *)
(***************************************************************************)

\* Every variable has its type.
TypeOK ==
    /\ state \in TxStates /\ store \in TxStates
    /\ pc \in {"begin", "action", "commit", "turn", "compensate", "returned",
               "crashed"}
    /\ i \in 0..(N + 1)
    /\ completed \in Seq(Steps)
    /\ status \in [Steps -> {"none", "COMMITTED", "FAILED", "COMPENSATED"}]
    /\ attempt \in Nat
    /\ lastErr \in BOOLEAN
    /\ result \in Results
    /\ executions \in 1..MaxExecutions
    /\ effect \subseteq Steps /\ inflight \subseteq Steps

With(st) == {s \in Steps : status[s] = st}

\* The stored state alone tells a reader after a crash what the services may
\* hold: PENDING means that no action was ever called (so that Execute may be
\* called again), COMMITTED that every step is in effect.
StoreTellsForward ==
    /\ store = "PENDING" => effect = {} /\ inflight = {}
    /\ store = "COMMITTED" => effect = Steps /\ With("COMMITTED") = Steps

\* COMPENSATED is stored only when the compensation of every step that had
\* succeeded has succeeded.  An effect that is left then is of the step whose
\* action reported the failure, or of a call that was never answered; when a
\* failing call has no effect, nothing is left.
CompensatedLeavesNothing ==
    store = "COMPENSATED" =>
        /\ \A s \in 1..Len(completed) : status[s] = "COMPENSATED"
        /\ effect \subseteq {Len(completed) + 1} \cup inflight
        /\ CallFaults = {} => effect = {}

\* What Execute returns is true of the store, whatever the store did: no error
\* only for a stored COMMITTED, "compensated" only for a stored COMPENSATED,
\* and a failed compensation never for a transaction that committed.  With a
\* store that does not fail, the call never ends with the transaction stored in
\* a state of passage.
ResultTellsStore ==
    /\ result = "committed" => store = "COMMITTED"
    /\ result = "compensated" => store = "COMPENSATED"
    /\ result = "compensation_failed" => store # "COMMITTED"
    /\ result = "adapter_error" => store \in {"PENDING", "RUNNING", "COMMITTED"}
    /\ result \notin {"none", "rejected"} /\ StoreFaults = {} =>
           store \in {"COMMITTED", "COMPENSATED", "SUSPENDED"}

\* The phase is on record before a service is called in it: an action gets its
\* effect while the store says RUNNING (or later, when its answer was lost),
\* and an effect is taken back while the store says COMPENSATING.
RecordBeforeCall ==
    [][ /\ effect' \ effect \subseteq inflight \/ store = "RUNNING"
        /\ effect \ effect' = {} \/ store = "COMPENSATING" ]_vars

\* The phase that the stored state stands for.
StackPhase ==
    CASE store \in {"PENDING", "RUNNING"} -> "forward"
      [] store = "COMPENSATING" -> "undo"
      [] store = "COMMITTED" -> "committed"
      [] store = "COMPENSATED" -> "undone"
      [] OTHER -> "stuck"

Stack == INSTANCE CompensationStack
            WITH phase <- StackPhase, standing <- With("COMMITTED"),
                 clean <- ~lastErr

\* The promise of the pattern: steps pile up in order, and come off in reverse
\* order, once each, after which no action is called again.
StackSpec == Stack!Spec

\* Execute comes back, through every retry loop, unless the process dies.
Returns == pc = "begin" ~> Over
==============================================================================
