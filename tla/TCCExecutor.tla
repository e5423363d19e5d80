---------------------------- MODULE TCCExecutor -----------------------------
(***************************************************************************)
(* TCCExecutor.Execute, confirm and cancel (tcc/executor.go): try the      *)
(* branches in order; confirm them in order once every Try succeeded; when *)
(* one fails, cancel, in reverse order, those whose Try succeeded.         *)
(*                                                                         *)
(* A step of the model is one call that leaves the executor: an update of  *)
(* the store, one attempt at Try, Confirm or Cancel.  Crash may fall       *)
(* between any two of them.  A branch is "prepared" while it holds what    *)
(* its Try reserved, "committed" when confirmed, "rolledback" when         *)
(* cancelled; once cancelled it refuses a late Try, as docs/02.TCC.md      *)
(* tells its users to program it.                                          *)
(***************************************************************************)
EXTENDS TxRecord, Participants, Sequences

CONSTANTS
    Retries,        \* Branch.Retries
    RetryCount,     \* attempts made by e.retry, or 0 when e.retry is nil
    MaxExecutions   \* bound: calls of Execute with this transaction

ASSUME TCCAssumption ==
    /\ Retries \in [Branches -> Nat]
    /\ RetryCount \in Nat
    /\ MaxExecutions \in Nat \ {0}

VARIABLES
    pc,           \* where Execute is
    i,            \* the loop index of the phase
    tried,        \* triedBranches
    status,       \* tx.TCCBranches[b].Status, "none" while b has no entry
    attempt,      \* failed attempts of the current retry loop
    lastErr,      \* lastErr # nil in cancel
    result,       \* what the last call of Execute returned
    executions    \* calls of Execute so far

locals == <<i, tried, status, attempt, lastErr>>
vars == <<state, store, pc, i, tried, status, attempt, lastErr, result,
          executions, rm, inflight>>

Results == {"none", "rejected", "adapter_error", "committed", "confirm_failed",
            "rolledback", "cancel_failed"}

\* Attempts that the retry loop of the first phase makes at branch b.
TryAttempts(b) ==
    IF RetryCount > 0 /\ Retries[b] > 0 THEN Retries[b] + 1 ELSE 1

FinishAttempts == IF RetryCount > 0 THEN RetryCount ELSE 1

Goto(label) == pc' = label /\ UNCHANGED result
Loop(b) == Goto(IF b > N THEN "tried" ELSE "try")
Return(r) == pc' = "returned" /\ result' = r

Init ==
    /\ state = "PENDING" /\ store = "PENDING"
    /\ pc = "begin"
    /\ i = 1
    /\ tried = <<>>
    /\ status = [b \in Branches |-> "none"]
    /\ attempt = 0
    /\ lastErr = FALSE
    /\ result = "none"
    /\ executions = 1
    /\ ParticipantsInit

(***************************************************************************)
(* Phase one.                                                              *)
(***************************************************************************)
Begin ==
    /\ pc = "begin"
    /\ \E err \in BOOLEAN :
          /\ Advance("TCC", "TRYING", err)
          /\ IF err THEN Return("adapter_error") ELSE Loop(1)
    /\ i' = 1 /\ tried' = <<>> /\ attempt' = 0 /\ lastErr' = FALSE
    /\ UNCHANGED <<status, executions, participants>>

\* The transaction handed to Execute is not PENDING.
RejectBegin ==
    /\ pc = "begin"
    /\ ~CanTransition("TCC", state, "TRYING")
    /\ Return("rejected")
    /\ UNCHANGED <<state, store, locals, executions, participants>>

TrySucceeds ==
    /\ pc = "try"
    /\ FirstPhase(i, FALSE)
    /\ status' = [status EXCEPT ![i] = "PREPARED"]
    /\ tried' = Append(tried, i)
    /\ i' = i + 1
    /\ attempt' = 0
    /\ Loop(i + 1)
    /\ UNCHANGED <<state, store, lastErr, executions>>

\* Mutant of RetryTry: after the last attempt the count starts over.
RetryTryForever ==
    /\ pc = "try"
    /\ FirstPhase(i, TRUE)
    /\ attempt' = (attempt + 1) % TryAttempts(i)
    /\ UNCHANGED <<state, store, pc, i, tried, status, lastErr, result,
                   executions>>

RetryTry ==
    /\ pc = "try"
    /\ attempt + 1 < TryAttempts(i)
    /\ FirstPhase(i, TRUE)
    /\ attempt' = attempt + 1
    /\ UNCHANGED <<state, store, pc, i, tried, status, lastErr, result,
                   executions>>

\* r.Do gives up, and the failed branch gets its entry in tx.TCCBranches.
FailBranch ==
    /\ status' = [status EXCEPT ![i] = "FAILED"]
    /\ attempt' = 0
    /\ Goto("turn")
    /\ UNCHANGED <<state, store, i, tried, lastErr, executions>>

TryFails ==
    /\ pc = "try"
    /\ attempt + 1 = TryAttempts(i)
    /\ FirstPhase(i, TRUE)
    /\ FailBranch

\* The retry loop is bound to the branch's context and ends when that does.
BranchContextDone ==
    /\ pc = "try"
    /\ TryAttempts(i) > 1
    /\ FailBranch
    /\ UNCHANGED participants

(***************************************************************************)
(* confirm.                                                                *)
(***************************************************************************)
\* Mutant of BeginConfirm: the branches are told before the store is.
ConfirmUnrecorded ==
    /\ pc = "tried"
    /\ Goto("confirm")
    /\ i' = 1
    /\ UNCHANGED <<state, store, tried, status, attempt, lastErr, executions,
                   participants>>

BeginConfirm ==
    /\ pc = "tried"
    /\ \E err \in BOOLEAN :
          /\ Advance("TCC", "CONFIRMING", err)
          /\ IF err THEN Return("adapter_error") ELSE Goto("confirm")
    /\ i' = 1
    /\ UNCHANGED <<tried, status, attempt, lastErr, executions, participants>>

ConfirmSucceeds ==
    /\ pc = "confirm" /\ i <= Len(tried)
    /\ SecondPhase(tried[i], "committed", FALSE)
    /\ status' = [status EXCEPT ![tried[i]] = "COMMITTED"]
    /\ i' = i + 1
    /\ attempt' = 0
    /\ UNCHANGED <<state, store, pc, tried, lastErr, result, executions>>

RetryConfirm ==
    /\ pc = "confirm" /\ i <= Len(tried)
    /\ attempt + 1 < FinishAttempts
    /\ SecondPhase(tried[i], "committed", TRUE)
    /\ attempt' = attempt + 1
    /\ UNCHANGED <<state, store, pc, i, tried, status, lastErr, result,
                   executions>>

\* Mutant of ConfirmFails: the loop goes on, as it does in cancel.
ConfirmFailsGoesOn ==
    /\ pc = "confirm" /\ i <= Len(tried)
    /\ attempt + 1 = FinishAttempts
    /\ SecondPhase(tried[i], "committed", TRUE)
    /\ i' = i + 1 /\ attempt' = 0
    /\ UNCHANGED <<state, store, pc, tried, status, lastErr, result, executions>>

\* The loop stops here: the branches after this one are not told anything, and
\* the entry of this one stays PREPARED.
ConfirmFails ==
    /\ pc = "confirm" /\ i <= Len(tried)
    /\ attempt + 1 = FinishAttempts
    /\ SecondPhase(tried[i], "committed", TRUE)
    /\ attempt' = 0
    /\ Goto("suspend")
    /\ UNCHANGED <<state, store, i, tried, status, lastErr, executions>>

EndConfirm ==
    /\ pc = "confirm" /\ i > Len(tried)
    /\ \E err \in BOOLEAN :
          /\ Advance("TCC", "COMMITTED", err)
          /\ Return(IF err THEN "adapter_error" ELSE "committed")
    /\ UNCHANGED <<locals, executions, participants>>

(***************************************************************************)
(* cancel.                                                                 *)
(***************************************************************************)
BeginCancel ==
    /\ pc = "turn"
    /\ \E err \in BOOLEAN :
          /\ Advance("TCC", "CANCELING", err)
          /\ IF err THEN Return("cancel_failed") ELSE Goto("cancel")
    /\ i' = Len(tried)
    /\ lastErr' = FALSE
    /\ UNCHANGED <<tried, status, attempt, executions, participants>>

CancelSucceeds ==
    /\ pc = "cancel" /\ i > 0
    /\ SecondPhase(tried[i], "rolledback", FALSE)
    /\ status' = [status EXCEPT ![tried[i]] = "ROLLEDBACK"]
    /\ i' = i - 1
    /\ attempt' = 0
    /\ UNCHANGED <<state, store, pc, tried, lastErr, result, executions>>

RetryCancel ==
    /\ pc = "cancel" /\ i > 0
    /\ attempt + 1 < FinishAttempts
    /\ SecondPhase(tried[i], "rolledback", TRUE)
    /\ attempt' = attempt + 1
    /\ UNCHANGED <<state, store, pc, i, tried, status, lastErr, result,
                   executions>>

\* The failure is noted, and the loop goes on with the branch before.
CancelFails ==
    /\ pc = "cancel" /\ i > 0
    /\ attempt + 1 = FinishAttempts
    /\ SecondPhase(tried[i], "rolledback", TRUE)
    /\ status' = [status EXCEPT ![tried[i]] = "FAILED"]
    /\ lastErr' = TRUE
    /\ i' = i - 1
    /\ attempt' = 0
    /\ UNCHANGED <<state, store, pc, tried, result, executions>>

\* Mutant of EndCancel: the error of the update is not returned.
EndCancelUnchecked ==
    /\ pc = "cancel" /\ i = 0 /\ ~lastErr
    /\ \E err \in BOOLEAN : Advance("TCC", "ROLLEDBACK", err)
    /\ Return("rolledback")
    /\ UNCHANGED <<locals, executions, participants>>

EndCancel ==
    /\ pc = "cancel" /\ i = 0 /\ ~lastErr
    /\ \E err \in BOOLEAN :
          /\ Advance("TCC", "ROLLEDBACK", err)
          /\ Return(IF err THEN "cancel_failed" ELSE "rolledback")
    /\ UNCHANGED <<locals, executions, participants>>

\* The end of both phases when a branch failed.  The error of this update is
\* dropped.
Suspend ==
    /\ \/ /\ pc = "suspend"
          /\ Return("confirm_failed")
       \/ /\ pc = "cancel" /\ i = 0 /\ lastErr
          /\ Return("cancel_failed")
    /\ \E err \in BOOLEAN : Advance("TCC", "SUSPENDED", err)
    /\ UNCHANGED <<locals, executions, participants>>

Execute ==
    \/ Begin \/ RejectBegin
    \/ TrySucceeds \/ RetryTry \/ TryFails \/ BranchContextDone
    \/ BeginConfirm \/ ConfirmSucceeds \/ RetryConfirm \/ ConfirmFails \/ EndConfirm
    \/ BeginCancel \/ CancelSucceeds \/ RetryCancel \/ CancelFails \/ EndCancel
    \/ Suspend

(***************************************************************************)
(* What is not the executor's doing.                                       *)
(***************************************************************************)
Over == pc \in {"returned", "crashed"}

\* The process dies; the store and the branches do not.
Crash ==
    /\ ~Over
    /\ pc' = "crashed"
    /\ \/ UNCHANGED participants
       \/ pc = "try" /\ DieCalling(i)
    /\ UNCHANGED <<state, store, locals, result, executions>>

\* The stored transaction is loaded and handed to Execute again.  The entries
\* of tx.TCCBranches are never stored: the copy has none, and the variable
\* status keeps those of the earlier execution.
Reexecute ==
    /\ Over
    /\ executions < MaxExecutions
    /\ executions' = executions + 1
    /\ state' = store
    /\ pc' = "begin"
    /\ result' = "none"
    /\ UNCHANGED <<store, locals, participants>>

Terminated ==
    /\ Over
    /\ executions = MaxExecutions
    /\ UNCHANGED vars

Arrive ==
    /\ \E b \in Branches : Land(b)
    /\ UNCHANGED <<state, store, pc, locals, result, executions>>

Next == Execute \/ Crash \/ Reexecute \/ Arrive \/ Terminated

Spec == Init /\ [][Next]_vars

\* The goroutine of Execute is scheduled and the branches answer; nothing else
\* is sure to happen.
FairSpec == Spec /\ WF_vars(Execute)

------------------------------------------------------------------------------
(***************************************************************************)
(* Properties.                                                             *)
(***************************************************************************)

\* Every variable has its type.
TypeOK ==
    /\ state \in TxStates /\ store \in TxStates
    /\ pc \in {"begin", "try", "tried", "confirm", "suspend", "turn", "cancel",
               "returned", "crashed"}
    /\ i \in 0..(N + 1)
    /\ tried \in Seq(Branches)
    /\ status \in [Branches -> {"none", "PREPARED", "FAILED", "COMMITTED",
                                "ROLLEDBACK"}]
    /\ attempt \in Nat
    /\ lastErr \in BOOLEAN
    /\ result \in Results
    /\ executions \in 1..MaxExecutions
    /\ ParticipantsTypeOK

\* The stored state alone tells a reader after a crash how far the branches can
\* be: untouched when PENDING, tried or confirmed when CONFIRMING, so that
\* Confirm may be called again on each, all confirmed when COMMITTED, and none
\* confirmed while there is no CONFIRMING on record.  A branch that still holds
\* what it reserved in a ROLLEDBACK transaction is the one whose Try reported
\* the failure, or has a call that was never answered; when failing calls have
\* no effect, none does.
StoreTellsBranches ==
    \A b \in Branches :
       /\ store = "PENDING" => rm[b] = "working" /\ b \notin inflight
       /\ store = "TRYING" => rm[b] \in {"working", "prepared"}
       /\ store = "CONFIRMING" => rm[b] \in {"prepared", "committed"}
       /\ store = "COMMITTED" => rm[b] = "committed"
       /\ store \in {"CANCELING", "ROLLEDBACK"} => rm[b] # "committed"
       /\ store = "ROLLEDBACK" /\ rm[b] = "prepared" =>
              /\ b \in inflight \/ b = Len(tried) + 1
              /\ CallFaults # {}

\* What Execute returns is true of the store, whatever the store did, and with
\* a store that does not fail the call never ends with the transaction stored
\* in a state of passage.
ResultTellsStore ==
    /\ result = "committed" => store = "COMMITTED"
    /\ result = "rolledback" => store = "ROLLEDBACK"
    /\ result = "confirm_failed" => store \in {"CONFIRMING", "SUSPENDED"}
    /\ result = "cancel_failed" =>
           store \in {"TRYING", "CANCELING", "ROLLEDBACK", "SUSPENDED"}
    /\ result \notin {"none", "rejected"} /\ StoreFaults = {} =>
           store \in {"COMMITTED", "ROLLEDBACK", "SUSPENDED"}

\* The outcome that the stored state stands for.  SUSPENDED does not tell which
\* it was: the length of triedBranches, known to the executor only,
\* does.
Outcome ==
    CASE store \in {"CONFIRMING", "COMMITTED"} -> "commit"
      [] store \in {"CANCELING", "ROLLEDBACK"} -> "abort"
      [] store = "SUSPENDED" -> IF Len(tried) = N THEN "commit" ELSE "abort"
      [] OTHER -> "open"

Atomic == INSTANCE AtomicCommit WITH outcome <- Outcome

\* Try, then Confirm or Cancel: the outcome is in the store before any branch
\* is told, and every branch that is told goes that way.
AtomicSpec == Atomic!Spec

\* Execute comes back, through every retry loop, unless the process dies.
Returns == pc = "begin" ~> Over
==============================================================================
