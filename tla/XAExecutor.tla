----------------------------- MODULE XAExecutor -----------------------------
(***************************************************************************)
(* XAExecutor.Execute, commit and abort (xa/executor.go): prepare the      *)
(* branches in order; commit them in order once all are prepared; when one *)
(* cannot be prepared, roll back, in reverse order, those that are.        *)
(*                                                                         *)
(* A step of the model is one call that leaves the executor: an update of  *)
(* the store, one attempt at Prepare, Commit or Rollback.  Crash may fall  *)
(* between any two of them.                                                *)
(***************************************************************************)
EXTENDS TxRecord, Participants, Sequences

CONSTANTS
    RetryCount,     \* attempts made by e.retry, or 0 when e.retry is nil
    MaxExecutions   \* bound: calls of Execute with this transaction

ASSUME XAAssumption == RetryCount \in Nat /\ MaxExecutions \in Nat \ {0}

VARIABLES
    pc,           \* where Execute is
    i,            \* the loop index of the phase
    prepared,     \* preparedBranches
    status,       \* tx.XABranches[b].Status, "none" while b has no entry
    attempt,      \* failed attempts of the current retry loop
    lastErr,      \* lastErr # nil in abort
    result,       \* what the last call of Execute returned
    executions    \* calls of Execute so far

locals == <<i, prepared, status, attempt, lastErr>>
vars == <<state, store, pc, i, prepared, status, attempt, lastErr, result,
          executions, rm, inflight>>

Results == {"none", "rejected", "adapter_error", "committed", "commit_failed",
            "rolledback", "rollback_failed"}

PrepareAttempts == IF RetryCount > 0 THEN 3 ELSE 1
FinishAttempts == IF RetryCount > 0 THEN RetryCount ELSE 1

Goto(label) == pc' = label /\ UNCHANGED result
\* Mutant of Loop: the range stops one branch early.
LoopShort(b) == Goto(IF b >= N THEN "prepared" ELSE "prepare")

Loop(b) == Goto(IF b > N THEN "prepared" ELSE "prepare")
Return(r) == pc' = "returned" /\ result' = r

Init ==
    /\ state = "PENDING" /\ store = "PENDING"
    /\ pc = "begin"
    /\ i = 1
    /\ prepared = <<>>
    /\ status = [b \in Branches |-> "none"]
    /\ attempt = 0
    /\ lastErr = FALSE
    /\ result = "none"
    /\ executions = 1
    /\ ParticipantsInit

(***************************************************************************)
(* Phase one.                                                              *)
(***************************************************************************)
Begin ==
    /\ pc = "begin"
    /\ \E err \in BOOLEAN :
          /\ Advance("XA", "PREPARING", err)
          /\ IF err THEN Return("adapter_error") ELSE Loop(1)
    /\ i' = 1 /\ prepared' = <<>> /\ attempt' = 0 /\ lastErr' = FALSE
    /\ UNCHANGED <<status, executions, participants>>

\* The transaction handed to Execute is not PENDING.
RejectBegin ==
    /\ pc = "begin"
    /\ ~CanTransition("XA", state, "PREPARING")
    /\ Return("rejected")
    /\ UNCHANGED <<state, store, locals, executions, participants>>

PrepareSucceeds ==
    /\ pc = "prepare"
    /\ FirstPhase(i, FALSE)
    /\ status' = [status EXCEPT ![i] = "PREPARED"]
    /\ prepared' = Append(prepared, i)
    /\ i' = i + 1
    /\ attempt' = 0
    /\ Loop(i + 1)
    /\ UNCHANGED <<state, store, lastErr, executions>>

RetryPrepare ==
    /\ pc = "prepare"
    /\ attempt + 1 < PrepareAttempts
    /\ FirstPhase(i, TRUE)
    /\ attempt' = attempt + 1
    /\ UNCHANGED <<state, store, pc, i, prepared, status, lastErr, result,
                   executions>>

\* r.Do gives up, and the failed branch gets its entry in tx.XABranches.
FailBranch ==
    /\ status' = [status EXCEPT ![i] = "FAILED"]
    /\ attempt' = 0
    /\ Goto("turn")
    /\ UNCHANGED <<state, store, i, prepared, lastErr, executions>>

PrepareFails ==
    /\ pc = "prepare"
    /\ attempt + 1 = PrepareAttempts
    /\ FirstPhase(i, TRUE)
    /\ FailBranch

\* The retry loop is bound to the branch's context and ends when that does.
BranchContextDone ==
    /\ pc = "prepare"
    /\ PrepareAttempts > 1
    /\ FailBranch
    /\ UNCHANGED participants

RecordPrepared ==
    /\ pc = "prepared"
    /\ \E err \in BOOLEAN :
          /\ Advance("XA", "PREPARED", err)
          /\ IF err THEN Return("adapter_error") ELSE Goto("decide")
    /\ UNCHANGED <<locals, executions, participants>>

(***************************************************************************)
(* commit.                                                                 *)
(***************************************************************************)
\* Mutant of BeginCommit: the error of the update is dropped.
CommitAnyway ==
    /\ pc = "decide"
    /\ \E err \in BOOLEAN : Advance("XA", "COMMITTING", err)
    /\ Goto("commit")
    /\ i' = 1
    /\ UNCHANGED <<prepared, status, attempt, lastErr, executions, participants>>

BeginCommit ==
    /\ pc = "decide"
    /\ \E err \in BOOLEAN :
          /\ Advance("XA", "COMMITTING", err)
          /\ IF err THEN Return("adapter_error") ELSE Goto("commit")
    /\ i' = 1
    /\ UNCHANGED <<prepared, status, attempt, lastErr, executions, participants>>

CommitSucceeds ==
    /\ pc = "commit" /\ i <= Len(prepared)
    /\ SecondPhase(prepared[i], "committed", FALSE)
    /\ status' = [status EXCEPT ![prepared[i]] = "COMMITTED"]
    /\ i' = i + 1
    /\ attempt' = 0
    /\ UNCHANGED <<state, store, pc, prepared, lastErr, result, executions>>

\* Mutant of RetryCommit: after the last attempt the count starts over.
RetryCommitForever ==
    /\ pc = "commit" /\ i <= Len(prepared)
    /\ SecondPhase(prepared[i], "committed", TRUE)
    /\ attempt' = (attempt + 1) % FinishAttempts
    /\ UNCHANGED <<state, store, pc, i, prepared, status, lastErr, result,
                   executions>>

RetryCommit ==
    /\ pc = "commit" /\ i <= Len(prepared)
    /\ attempt + 1 < FinishAttempts
    /\ SecondPhase(prepared[i], "committed", TRUE)
    /\ attempt' = attempt + 1
    /\ UNCHANGED <<state, store, pc, i, prepared, status, lastErr, result,
                   executions>>

\* The loop stops here: the branches after this one are not told anything.
CommitFails ==
    /\ pc = "commit" /\ i <= Len(prepared)
    /\ attempt + 1 = FinishAttempts
    /\ SecondPhase(prepared[i], "committed", TRUE)
    /\ status' = [status EXCEPT ![prepared[i]] = "FAILED"]
    /\ attempt' = 0
    /\ Goto("suspend")
    /\ UNCHANGED <<state, store, i, prepared, lastErr, executions>>

\* Mutant of EndCommit: the error of the update is not returned.
EndCommitAnyway ==
    /\ pc = "commit" /\ i > Len(prepared)
    /\ \E err \in BOOLEAN : Advance("XA", "COMMITTED", err)
    /\ Return("committed")
    /\ UNCHANGED <<locals, executions, participants>>

EndCommit ==
    /\ pc = "commit" /\ i > Len(prepared)
    /\ \E err \in BOOLEAN :
          /\ Advance("XA", "COMMITTED", err)
          /\ Return(IF err THEN "adapter_error" ELSE "committed")
    /\ UNCHANGED <<locals, executions, participants>>

(***************************************************************************)
(* abort.                                                                  *)
(***************************************************************************)
BeginAbort ==
    /\ pc = "turn"
    /\ \E err \in BOOLEAN :
          /\ Advance("XA", "ABORTING", err)
          /\ IF err THEN Return("rollback_failed") ELSE Goto("abort")
    /\ i' = Len(prepared)
    /\ lastErr' = FALSE
    /\ UNCHANGED <<prepared, status, attempt, executions, participants>>

RollbackSucceeds ==
    /\ pc = "abort" /\ i > 0
    /\ SecondPhase(prepared[i], "rolledback", FALSE)
    /\ status' = [status EXCEPT ![prepared[i]] = "ROLLEDBACK"]
    /\ i' = i - 1
    /\ attempt' = 0
    /\ UNCHANGED <<state, store, pc, prepared, lastErr, result, executions>>

RetryRollback ==
    /\ pc = "abort" /\ i > 0
    /\ attempt + 1 < FinishAttempts
    /\ SecondPhase(prepared[i], "rolledback", TRUE)
    /\ attempt' = attempt + 1
    /\ UNCHANGED <<state, store, pc, i, prepared, status, lastErr, result,
                   executions>>

\* The failure is noted, and the loop goes on with the branch before.
RollbackFails ==
    /\ pc = "abort" /\ i > 0
    /\ attempt + 1 = FinishAttempts
    /\ SecondPhase(prepared[i], "rolledback", TRUE)
    /\ status' = [status EXCEPT ![prepared[i]] = "FAILED"]
    /\ lastErr' = TRUE
    /\ i' = i - 1
    /\ attempt' = 0
    /\ UNCHANGED <<state, store, pc, prepared, result, executions>>

EndAbort ==
    /\ pc = "abort" /\ i = 0 /\ ~lastErr
    /\ \E err \in BOOLEAN :
          /\ Advance("XA", "ROLLEDBACK", err)
          /\ Return(IF err THEN "rollback_failed" ELSE "rolledback")
    /\ UNCHANGED <<locals, executions, participants>>

\* The end of both phases when a branch failed.  The error of this update is
\* dropped.
Suspend ==
    /\ \/ /\ pc = "suspend"
          /\ Return("commit_failed")
       \/ /\ pc = "abort" /\ i = 0 /\ lastErr
          /\ Return("rollback_failed")
    /\ \E err \in BOOLEAN : Advance("XA", "SUSPENDED", err)
    /\ UNCHANGED <<locals, executions, participants>>

Execute ==
    \/ Begin \/ RejectBegin
    \/ PrepareSucceeds \/ RetryPrepare \/ PrepareFails \/ BranchContextDone
    \/ RecordPrepared
    \/ BeginCommit \/ CommitSucceeds \/ RetryCommit \/ CommitFails \/ EndCommit
    \/ BeginAbort \/ RollbackSucceeds \/ RetryRollback \/ RollbackFails \/ EndAbort
    \/ Suspend

(***************************************************************************)
(* What is not the executor's doing.                                       *)
(***************************************************************************)
Over == pc \in {"returned", "crashed"}

\* The process dies; the store and the branches do not.
Crash ==
    /\ ~Over
    /\ pc' = "crashed"
    /\ \/ UNCHANGED participants
       \/ pc = "prepare" /\ DieCalling(i)
    /\ UNCHANGED <<state, store, locals, result, executions>>

\* The stored transaction is loaded and handed to Execute again.  The entries
\* of tx.XABranches are never stored: the copy has none, and the variable
\* status keeps those of the earlier execution.
Reexecute ==
    /\ Over
    /\ executions < MaxExecutions
    /\ executions' = executions + 1
    /\ state' = store
    /\ pc' = "begin"
    /\ result' = "none"
    /\ UNCHANGED <<store, locals, participants>>

Terminated ==
    /\ Over
    /\ executions = MaxExecutions
    /\ UNCHANGED vars

Arrive ==
    /\ \E b \in Branches : Land(b)
    /\ UNCHANGED <<state, store, pc, locals, result, executions>>

Next == Execute \/ Crash \/ Reexecute \/ Arrive \/ Terminated

Spec == Init /\ [][Next]_vars

\* The goroutine of Execute is scheduled and the resources answer; nothing else
\* is sure to happen.
FairSpec == Spec /\ WF_vars(Execute)

------------------------------------------------------------------------------
(***************************************************************************)
(* Properties.                                                             *)
(***************************************************************************)

\* Every variable has its type.
TypeOK ==
    /\ state \in TxStates /\ store \in TxStates
    /\ pc \in {"begin", "prepare", "prepared", "decide", "commit", "suspend",
               "turn", "abort", "returned", "crashed"}
    /\ i \in 0..(N + 1)
    /\ prepared \in Seq(Branches)
    /\ status \in [Branches -> {"none", "PREPARED", "FAILED", "COMMITTED",
                                "ROLLEDBACK"}]
    /\ attempt \in Nat
    /\ lastErr \in BOOLEAN
    /\ result \in Results
    /\ executions \in 1..MaxExecutions
    /\ ParticipantsTypeOK

\* The stored state alone tells a reader after a crash how far the branches can
\* be: untouched when PENDING, all prepared when PREPARED, prepared or committed
\* when COMMITTING, so that Commit may be called again on each, all committed
\* when COMMITTED, and none committed when ABORTING or ROLLEDBACK.  A branch that
\* still holds its locks in a ROLLEDBACK transaction is the one whose Prepare
\* reported the failure, or has a call that was never answered; when failing
\* calls have no effect, none does.
StoreTellsBranches ==
    \A b \in Branches :
       /\ store = "PENDING" => rm[b] = "working" /\ b \notin inflight
       /\ store = "PREPARED" => rm[b] = "prepared"
       /\ store = "COMMITTING" => rm[b] \in {"prepared", "committed"}
       /\ store = "COMMITTED" => rm[b] = "committed"
       /\ store \in {"ABORTING", "ROLLEDBACK"} => rm[b] # "committed"
       /\ store = "ROLLEDBACK" /\ rm[b] = "prepared" =>
              /\ b \in inflight \/ b = Len(prepared) + 1
              /\ CallFaults # {}

\* What Execute returns is true of the store, whatever the store did, and with
\* a store that does not fail the call never ends with the transaction stored
\* in a state of passage.
ResultTellsStore ==
    /\ result = "committed" => store = "COMMITTED"
    /\ result = "rolledback" => store = "ROLLEDBACK"
    /\ result = "commit_failed" => store \in {"COMMITTING", "SUSPENDED"}
    /\ result = "rollback_failed" =>
           store \in {"PREPARING", "ABORTING", "ROLLEDBACK", "SUSPENDED"}
    /\ result \notin {"none", "rejected"} /\ StoreFaults = {} =>
           store \in {"COMMITTED", "ROLLEDBACK", "SUSPENDED"}

\* The outcome that the stored state stands for.  SUSPENDED does not tell which
\* it was: the length of preparedBranches, known to the executor only, does.
Outcome ==
    CASE store \in {"COMMITTING", "COMMITTED"} -> "commit"
      [] store \in {"ABORTING", "ROLLEDBACK"} -> "abort"
      [] store = "SUSPENDED" -> IF Len(prepared) = N THEN "commit" ELSE "abort"
      [] OTHER -> "open"

Atomic == INSTANCE AtomicCommit WITH outcome <- Outcome

\* Two-phase commit: the outcome is in the store before any branch is told, and
\* every branch that is told goes that way.
AtomicSpec == Atomic!Spec

\* Execute comes back, through every retry loop, unless the process dies.
Returns == pc = "begin" ~> Over

\* After a coordinator crash between Prepare and the end, the recovery scan
\* finds the transaction, to commit or roll back the branches that hold locks
\* (docs/03.XA.md).
RecoveryFindsPrepared ==
    pc = "crashed" /\ (\E b \in Branches : rm[b] = "prepared") =>
        IsFinal(store) \/ IsRecoverable(store)
==============================================================================
