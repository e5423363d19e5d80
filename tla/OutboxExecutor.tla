--------------------------- MODULE OutboxExecutor ---------------------------
(***************************************************************************)
(* OutboxExecutor.Execute and sendMessages (outbox/executor.go): do the    *)
(* business operation, record that it is done, then send the messages.     *)
(*                                                                         *)
(* A step of the model is one call that leaves the executor: an update of  *)
(* the store, the operation, one attempt at a message.  sendMessage is a   *)
(* placeholder that logs and never fails (SendFails = FALSE); the code     *)
(* around it is written for one that does (SendFails = TRUE).              *)
(***************************************************************************)
EXTENDS TxRecord

CONSTANTS
    N,              \* number of messages
    RetryCount,     \* attempts made by e.retry, or 0 when e.retry is nil
    SendFails,      \* a message may fail to be sent
    OpFaults,       \* {"late"} when a business operation that reports an error
                    \* may have taken effect, or {}
    MaxExecutions   \* bound: calls of Execute with this transaction

Messages == 1..N

ASSUME OutboxAssumption ==
    /\ N \in Nat
    /\ RetryCount \in Nat
    /\ SendFails \in BOOLEAN
    /\ OpFaults \subseteq {"late"}
    /\ MaxExecutions \in Nat \ {0}

VARIABLES
    pc,           \* where Execute is
    i,            \* the index of the loop over the messages
    status,       \* tx.OutboxMsgs[m].Status, "none" while it has no entry
    attempt,      \* failed attempts of the current retry loop
    result,       \* what the last call of Execute returned
    executions,   \* calls of Execute so far
    opDone,       \* the effect of the business operation is in place
    sent          \* the messages that have reached their target

locals == <<i, status, attempt>>
world == <<opDone, sent>>
vars == <<state, store, pc, i, status, attempt, result, executions, opDone,
          sent>>

Results == {"none", "rejected", "adapter_error", "op_failed", "commit_failed",
            "committed"}

SendAttempts == IF RetryCount > 0 THEN RetryCount ELSE 1

Goto(label) == pc' = label /\ UNCHANGED result
Return(r) == pc' = "returned" /\ result' = r

Init ==
    /\ state = "PENDING" /\ store = "PENDING"
    /\ pc = "begin"
    /\ i = 1
    /\ status = [m \in Messages |-> "none"]
    /\ attempt = 0
    /\ result = "none"
    /\ executions = 1
    /\ opDone = FALSE
    /\ sent = {}

Begin ==
    /\ pc = "begin"
    /\ \E err \in BOOLEAN :
          /\ Advance("OUTBOX", "SUBMITTING", err)
          /\ IF err THEN Return("adapter_error") ELSE Goto("op")
    /\ UNCHANGED <<locals, executions, world>>

\* The transaction handed to Execute is not PENDING.
RejectBegin ==
    /\ pc = "begin"
    /\ ~CanTransition("OUTBOX", state, "SUBMITTING")
    /\ Return("rejected")
    /\ UNCHANGED <<state, store, locals, executions, world>>

(***************************************************************************)
(* Phase one: the business operation.                                      *)
(***************************************************************************)
OpSucceeds ==
    /\ pc = "op"
    /\ opDone' = TRUE
    /\ Goto("submit")
    /\ UNCHANGED <<state, store, locals, executions, sent>>

OpFails ==
    /\ pc = "op"
    /\ \/ UNCHANGED opDone
       \/ "late" \in OpFaults /\ opDone' = TRUE
    /\ Goto("fail")
    /\ UNCHANGED <<state, store, locals, executions, sent>>

\* The error of this update is dropped.
RecordFailure ==
    /\ pc = "fail"
    /\ \E err \in BOOLEAN : Advance("OUTBOX", "FAILED", err)
    /\ Return("op_failed")
    /\ UNCHANGED <<locals, executions, world>>

\* Mutant of Submit: the error of the update is dropped.
SubmitAnyway ==
    /\ pc = "submit"
    /\ \E err \in BOOLEAN : Advance("OUTBOX", "SUBMITTED", err)
    /\ Goto("send")
    /\ status' = [m \in Messages |-> "PENDING"]
    /\ i' = 1
    /\ UNCHANGED <<attempt, executions, world>>

\* The messages get their entries after the update.
Submit ==
    /\ pc = "submit"
    /\ \E err \in BOOLEAN :
          /\ Advance("OUTBOX", "SUBMITTED", err)
          /\ IF err THEN Return("adapter_error") /\ UNCHANGED status
                    ELSE /\ Goto("send")
                         /\ status' = [m \in Messages |-> "PENDING"]
    /\ i' = 1
    /\ UNCHANGED <<attempt, executions, world>>

(***************************************************************************)
(* Phase two: sendMessages.                                                *)
(***************************************************************************)
SendSucceeds ==
    /\ pc = "send" /\ i <= N
    /\ sent' = sent \cup {i}
    /\ status' = [status EXCEPT ![i] = "COMMITTED"]
    /\ i' = i + 1
    /\ attempt' = 0
    /\ UNCHANGED <<state, store, pc, result, executions, opDone>>

\* A message that fails to be sent may have reached its target.
SendFailing == SendFails /\ (UNCHANGED sent \/ sent' = sent \cup {i})

\* Mutant of RetrySend: after the last attempt the count starts over.
RetrySendForever ==
    /\ pc = "send" /\ i <= N
    /\ SendFailing
    /\ attempt' = (attempt + 1) % SendAttempts
    /\ UNCHANGED <<state, store, pc, i, status, result, executions, opDone>>

RetrySend ==
    /\ pc = "send" /\ i <= N
    /\ attempt + 1 < SendAttempts
    /\ SendFailing
    /\ attempt' = attempt + 1
    /\ UNCHANGED <<state, store, pc, i, status, result, executions, opDone>>

MessageFails ==
    /\ pc = "send" /\ i <= N
    /\ attempt + 1 = SendAttempts
    /\ SendFailing
    /\ status' = [status EXCEPT ![i] = "FAILED"]
    /\ attempt' = 0
    /\ Goto("suspend")
    /\ UNCHANGED <<state, store, i, executions, opDone>>

\* TransitionTo(StateSuspended), and the update when it is a legal move; the
\* error of the one is returned, the error of the other is dropped.
Suspend ==
    /\ pc = "suspend"
    /\ IF CanTransition("OUTBOX", state, "SUSPENDED")
       THEN /\ \E err \in BOOLEAN : Advance("OUTBOX", "SUSPENDED", err)
            /\ Return("commit_failed")
       ELSE Return("rejected") /\ UNCHANGED <<state, store>>
    /\ UNCHANGED <<locals, executions, world>>

\* Mutant of Commit: one message early.
CommitEarly ==
    /\ pc = "send" /\ i >= N
    /\ \E err \in BOOLEAN :
          /\ Advance("OUTBOX", "COMMITTED", err)
          /\ Return(IF err THEN "adapter_error" ELSE "committed")
    /\ UNCHANGED <<locals, executions, world>>

\* Mutant of Commit: the error of the update is not returned.
CommitAnyway ==
    /\ pc = "send" /\ i > N
    /\ \E err \in BOOLEAN : Advance("OUTBOX", "COMMITTED", err)
    /\ Return("committed")
    /\ UNCHANGED <<locals, executions, world>>

Commit ==
    /\ pc = "send" /\ i > N
    /\ \E err \in BOOLEAN :
          /\ Advance("OUTBOX", "COMMITTED", err)
          /\ Return(IF err THEN "adapter_error" ELSE "committed")
    /\ UNCHANGED <<locals, executions, world>>

Execute ==
    \/ Begin \/ RejectBegin
    \/ OpSucceeds \/ OpFails \/ RecordFailure \/ Submit
    \/ SendSucceeds \/ RetrySend \/ MessageFails \/ Suspend \/ Commit

(***************************************************************************)
(* What is not the executor's doing.                                       *)
(***************************************************************************)
Over == pc \in {"returned", "crashed"}

\* The process dies.  A call that was being made took effect or it did not.
Crash ==
    /\ ~Over
    /\ pc' = "crashed"
    /\ \/ UNCHANGED world
       \/ pc = "op" /\ opDone' = TRUE /\ UNCHANGED sent
       \/ pc = "send" /\ i <= N /\ sent' = sent \cup {i} /\ UNCHANGED opDone
    /\ UNCHANGED <<state, store, locals, result, executions>>

\* The stored transaction is loaded and handed to Execute again.
Reexecute ==
    /\ Over
    /\ executions < MaxExecutions
    /\ executions' = executions + 1
    /\ state' = store
    /\ pc' = "begin"
    /\ result' = "none"
    /\ UNCHANGED <<store, locals, world>>

Terminated ==
    /\ Over
    /\ executions = MaxExecutions
    /\ UNCHANGED vars

Next == Execute \/ Crash \/ Reexecute \/ Terminated

Spec == Init /\ [][Next]_vars

\* The goroutine of Execute is scheduled and its calls return; nothing else is
\* sure to happen.
FairSpec == Spec /\ WF_vars(Execute)

------------------------------------------------------------------------------
(***************************************************************************)
(* Properties.                                                             *)
(***************************************************************************)

\* Every variable has its type.
TypeOK ==
    /\ state \in TxStates /\ store \in TxStates
    /\ pc \in {"begin", "op", "fail", "submit", "send", "suspend", "returned",
               "crashed"}
    /\ i \in 1..(N + 1)
    /\ status \in [Messages -> {"none", "PENDING", "COMMITTED", "FAILED"}]
    /\ attempt \in Nat
    /\ result \in Results
    /\ executions \in 1..MaxExecutions
    /\ opDone \in BOOLEAN
    /\ sent \subseteq Messages

\* No target hears of an operation that is not done, or not on record as done,
\* and a FAILED transaction told nobody.
NoEarlyMessage ==
    sent # {} => opDone /\ store \in {"SUBMITTED", "COMMITTED", "SUSPENDED"}

\* COMMITTED is stored when every message has reached its target, the messages
\* go out in order, and one that failed stops those after it and keeps the
\* transaction from COMMITTED for good, even if it has reached its target.
CommittedIsSent ==
    /\ store = "COMMITTED" => opDone /\ sent = Messages
    /\ \A m \in Messages :
          status[m] = "FAILED" => store # "COMMITTED" /\ sent \subseteq 1..m
    /\ \A m \in sent : 1..m \subseteq sent

\* What Execute returns is true of the store, whatever the store did: no error
\* only for a stored COMMITTED, and a failed operation never for a transaction
\* whose messages could go out.  The object it leaves is at most one legal move
\* ahead of the store.
ResultTellsStore ==
    /\ MemoryLeads("OUTBOX")
    /\ result = "committed" => store = "COMMITTED"
    /\ result = "op_failed" => store \in {"SUBMITTING", "FAILED"} /\ sent = {}

\* Execute comes back, through the retries, unless the process dies.
Returns == pc = "begin" ~> Over
==============================================================================
