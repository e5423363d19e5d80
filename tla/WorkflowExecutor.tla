-------------------------- MODULE WorkflowExecutor ---------------------------
(***************************************************************************)
(* WorkflowExecutor.Execute, confirm and rollback (workflow/executor.go)   *)
(* and the registration of branches (workflow/branch.go), which the user's *)
(* handler does while it runs, from its own goroutine or from others that  *)
(* it starts, and that may outlive it.                                     *)
(*                                                                         *)
(* A step of the model is an update of the store, a call of a callback, a  *)
(* critical section of wf.mu or an unlocked access to a Branch.            *)
(***************************************************************************)
EXTENDS TxRecord, Naturals, Sequences

CONSTANTS
    Branches,       \* branches that the handler may register
    Kind,           \* the callbacks that each is to have
    Loose,          \* branches registered by a goroutine for which the handler
                    \* does not wait
    MaxExecutions   \* bound: calls of Execute with this transaction

Callbacks == {"confirm", "cancel", "rollback"}

ASSUME WorkflowAssumption ==
    /\ Kind \in [Branches -> SUBSET Callbacks]
    /\ Loose \subseteq Branches
    /\ MaxExecutions \in Nat \ {0}

VARIABLES
    pc,           \* where Execute is
    branches,     \* wf.branches
    set,          \* the callbacks assigned so far, each with its branch
    registered,   \* what the handler had registered when it returned
    list,         \* the copy that GetBranches returned
    i,            \* the index of the loop over it
    lastErr,      \* lastErr # nil in rollback
    result,       \* what the last call of Execute returned
    executions,   \* calls of Execute so far
    confirmed,    \* the branches whose OnConfirm has succeeded
    undone        \* the branches whose OnRollback or OnCancel has, in order

workflow == <<branches, set, registered>>
locals == <<list, i, lastErr>>
effects == <<confirmed, undone>>
vars == <<state, store, pc, branches, set, registered, list, i, lastErr,
          result, executions, confirmed, undone>>

Results == {"none", "rejected", "adapter_error", "confirm_failed", "committed",
            "rollback_failed", "compensated"}

Elements(s) == {s[j] : j \in 1..Len(s)}

Goto(label) == pc' = label /\ UNCHANGED result
Return(r) == pc' = "returned" /\ result' = r

Init ==
    /\ state = "PENDING" /\ store = "PENDING"
    /\ pc = "begin"
    /\ branches = <<>> /\ set = {} /\ registered = {}
    /\ list = <<>> /\ i = 0 /\ lastErr = FALSE
    /\ result = "none"
    /\ executions = 1
    /\ confirmed = {} /\ undone = <<>>

\* Mutant of Begin: the error of the update is dropped.
BeginAnyway ==
    /\ pc = "begin"
    /\ \E err \in BOOLEAN : Advance("WORKFLOW", "RUNNING", err)
    /\ Goto("handler")
    /\ UNCHANGED <<workflow, locals, executions, effects>>

Begin ==
    /\ pc = "begin"
    /\ \E err \in BOOLEAN :
          /\ Advance("WORKFLOW", "RUNNING", err)
          /\ IF err THEN Return("adapter_error") ELSE Goto("handler")
    /\ UNCHANGED <<workflow, locals, executions, effects>>

\* The transaction handed to Execute is not PENDING.
RejectBegin ==
    /\ pc = "begin"
    /\ ~CanTransition("WORKFLOW", state, "RUNNING")
    /\ Return("rejected")
    /\ UNCHANGED <<state, store, workflow, locals, executions, effects>>

(***************************************************************************)
(* OnConfirm, OnRollback and OnCancel: NewBranch appends a Branch under    *)
(* wf.mu, and the callback is assigned to it after the unlock.  The fields *)
(* of a Branch being exported, its owner may assign the others as well.    *)
(***************************************************************************)
Over == pc \in {"returned", "crashed"}

MayRegister(b) ==
    IF b \in Loose THEN pc # "begin" /\ ~Over ELSE pc = "handler"

NewBranch(b) ==
    /\ MayRegister(b)
    /\ b \notin Elements(branches)
    /\ branches' = Append(branches, b)
    /\ UNCHANGED <<state, store, pc, set, registered, locals, result,
                   executions, effects>>

SetCallback(b, c) ==
    /\ MayRegister(b)
    /\ b \in Elements(branches) /\ c \in Kind[b]
    /\ <<b, c>> \notin set
    /\ set' = set \cup {<<b, c>>}
    /\ UNCHANGED <<state, store, pc, branches, registered, locals, result,
                   executions, effects>>

\* The handler returns: its own registrations are made, and those of the
\* goroutines that it waited for.
HandlerReturns ==
    /\ pc = "handler"
    /\ registered' = Elements(branches) \ Loose
    /\ \A b \in registered' : {b} \X Kind[b] \subseteq set
    /\ Goto("confirm") \/ Goto("rollback")
    /\ UNCHANGED <<state, store, branches, set, locals, executions, effects>>

(***************************************************************************)
(* confirm.                                                                *)
(***************************************************************************)

\* Whether the loop finds a callback of f assigned to branch b.  An assignment
\* that nothing orders before the loop may or may not be seen.
MaySee(b, f) == \E c \in f : <<b, c>> \in set
MayMiss(b, f) == ~MaySee(b, f) \/ b \in Loose

ListToConfirm ==
    /\ pc = "confirm"
    /\ list' = branches /\ i' = 1
    /\ Goto("confirming")
    /\ UNCHANGED <<state, store, workflow, lastErr, executions, effects>>

\* Mutant of SkipConfirm: the index is not advanced.
SkipConfirmStuck ==
    /\ pc = "confirming" /\ i <= Len(list)
    /\ MayMiss(list[i], {"confirm"})
    /\ UNCHANGED vars

SkipConfirm ==
    /\ pc = "confirming" /\ i <= Len(list)
    /\ MayMiss(list[i], {"confirm"})
    /\ i' = i + 1
    /\ UNCHANGED <<state, store, pc, workflow, list, lastErr, result,
                   executions, effects>>

ConfirmSucceeds ==
    /\ pc = "confirming" /\ i <= Len(list)
    /\ MaySee(list[i], {"confirm"})
    /\ confirmed' = confirmed \cup {list[i]}
    /\ i' = i + 1
    /\ UNCHANGED <<state, store, pc, workflow, list, lastErr, result,
                   executions, undone>>

ConfirmFails ==
    /\ pc = "confirming" /\ i <= Len(list)
    /\ MaySee(list[i], {"confirm"})
    /\ Goto("suspend")
    /\ UNCHANGED <<state, store, workflow, locals, executions, effects>>

\* Mutant of Commit: the error of the update is not returned.
CommitAnyway ==
    /\ pc = "confirming" /\ i > Len(list)
    /\ \E err \in BOOLEAN : Advance("WORKFLOW", "COMMITTED", err)
    /\ Return("committed")
    /\ UNCHANGED <<workflow, locals, executions, effects>>

Commit ==
    /\ pc = "confirming" /\ i > Len(list)
    /\ \E err \in BOOLEAN :
          /\ Advance("WORKFLOW", "COMMITTED", err)
          /\ Return(IF err THEN "adapter_error" ELSE "committed")
    /\ UNCHANGED <<workflow, locals, executions, effects>>

(***************************************************************************)
(* rollback.                                                               *)
(***************************************************************************)
\* Mutant of BeginRollback: the error of the update is dropped.
RollbackAnyway ==
    /\ pc = "rollback"
    /\ \E err \in BOOLEAN : Advance("WORKFLOW", "COMPENSATING", err)
    /\ Goto("list")
    /\ UNCHANGED <<workflow, locals, executions, effects>>

BeginRollback ==
    /\ pc = "rollback"
    /\ \E err \in BOOLEAN :
          /\ Advance("WORKFLOW", "COMPENSATING", err)
          /\ IF err THEN Return("rollback_failed") ELSE Goto("list")
    /\ UNCHANGED <<workflow, locals, executions, effects>>

\* Mutant of ListToRollBack: the loop goes through the branches forwards.
ListToRollBackForwards ==
    /\ pc = "list"
    /\ list' = [j \in 1..Len(branches) |-> branches[Len(branches) + 1 - j]]
    /\ i' = Len(branches) /\ lastErr' = FALSE
    /\ Goto("rolling back")
    /\ UNCHANGED <<state, store, workflow, executions, effects>>

ListToRollBack ==
    /\ pc = "list"
    /\ list' = branches /\ i' = Len(branches) /\ lastErr' = FALSE
    /\ Goto("rolling back")
    /\ UNCHANGED <<state, store, workflow, executions, effects>>

SkipRollback ==
    /\ pc = "rolling back" /\ i > 0
    /\ MayMiss(list[i], {"rollback", "cancel"})
    /\ i' = i - 1
    /\ UNCHANGED <<state, store, pc, workflow, list, lastErr, result,
                   executions, effects>>

RollbackSucceeds ==
    /\ pc = "rolling back" /\ i > 0
    /\ MaySee(list[i], {"rollback", "cancel"})
    /\ undone' = Append(undone, list[i])
    /\ i' = i - 1
    /\ UNCHANGED <<state, store, pc, workflow, list, lastErr, result,
                   executions, confirmed>>

\* The failure is noted, and the loop goes on with the branch before.
RollbackFails ==
    /\ pc = "rolling back" /\ i > 0
    /\ MaySee(list[i], {"rollback", "cancel"})
    /\ lastErr' = TRUE
    /\ i' = i - 1
    /\ UNCHANGED <<state, store, pc, workflow, list, result, executions, effects>>

\* Mutant of EndRollback: lastErr is not looked at.
EndRollbackAnyway ==
    /\ pc = "rolling back" /\ i = 0
    /\ \E err \in BOOLEAN :
          /\ Advance("WORKFLOW", "COMPENSATED", err)
          /\ Return(IF err THEN "rollback_failed" ELSE "compensated")
    /\ UNCHANGED <<workflow, locals, executions, effects>>

EndRollback ==
    /\ pc = "rolling back" /\ i = 0 /\ ~lastErr
    /\ \E err \in BOOLEAN :
          /\ Advance("WORKFLOW", "COMPENSATED", err)
          /\ Return(IF err THEN "rollback_failed" ELSE "compensated")
    /\ UNCHANGED <<workflow, locals, executions, effects>>

\* The error of this update is dropped.
Suspend ==
    /\ \/ /\ pc = "suspend"
          /\ Return("confirm_failed")
       \/ /\ pc = "rolling back" /\ i = 0 /\ lastErr
          /\ Return("rollback_failed")
    /\ \E err \in BOOLEAN : Advance("WORKFLOW", "SUSPENDED", err)
    /\ UNCHANGED <<workflow, locals, executions, effects>>

Execute ==
    \/ Begin \/ RejectBegin
    \/ HandlerReturns
    \/ ListToConfirm \/ SkipConfirm \/ ConfirmSucceeds \/ ConfirmFails \/ Commit
    \/ BeginRollback \/ ListToRollBack
    \/ SkipRollback \/ RollbackSucceeds \/ RollbackFails \/ EndRollback
    \/ Suspend

(***************************************************************************)
(* What is not the executor's doing.                                       *)
(***************************************************************************)
Crash ==
    /\ ~Over
    /\ pc' = "crashed"
    /\ UNCHANGED <<state, store, workflow, locals, result, executions, effects>>

\* The stored transaction is loaded and handed to Execute again.  Only one whose
\* handler was never called gets past Begin.
Reexecute ==
    /\ Over
    /\ executions < MaxExecutions
    /\ executions' = executions + 1
    /\ state' = store
    /\ pc' = "begin"
    /\ result' = "none"
    /\ UNCHANGED <<store, workflow, locals, effects>>

Terminated ==
    /\ Over
    /\ executions = MaxExecutions
    /\ UNCHANGED vars

Next ==
    \/ Execute
    \/ \E b \in Branches : NewBranch(b) \/ \E c \in Callbacks : SetCallback(b, c)
    \/ Crash \/ Reexecute \/ Terminated

Spec == Init /\ [][Next]_vars

\* The goroutine of Execute is scheduled, the handler and the callbacks return;
\* a registration that was begun is ended.
FairSpec ==
    /\ Spec
    /\ WF_vars(Execute)
    /\ \A b \in Branches, c \in Callbacks : WF_vars(SetCallback(b, c))

------------------------------------------------------------------------------
(***************************************************************************)
(* Properties.                                                             *)
(***************************************************************************)

\* Every variable has its type.
TypeOK ==
    /\ state \in TxStates /\ store \in TxStates
    /\ pc \in {"begin", "handler", "confirm", "confirming", "rollback", "list",
               "rolling back", "suspend", "returned", "crashed"}
    /\ branches \in Seq(Branches) /\ list \in Seq(Branches)
    /\ set \subseteq Branches \X Callbacks /\ registered \subseteq Branches
    /\ i \in Nat
    /\ lastErr \in BOOLEAN
    /\ result \in Results
    /\ executions \in 1..MaxExecutions
    /\ confirmed \subseteq Branches
    /\ undone \in Seq(Branches)

OfKind(f) == {b \in registered : Kind[b] \cap f # {}}

\* What the handler had registered when it returned is not lost, whatever other
\* goroutines register meanwhile: COMMITTED is stored when all of it that is to
\* be confirmed was, COMPENSATED when all of it that is to be undone was.
NothingRegisteredIsLost ==
    /\ store = "COMMITTED" => OfKind({"confirm"}) \subseteq confirmed
    /\ store = "COMPENSATED" =>
           OfKind({"rollback", "cancel"}) \subseteq Elements(undone)

\* No workflow confirms one branch and takes back another, and none calls a
\* callback before the store tells which way it goes: a confirmation is on the
\* way to COMMITTED, a rollback after COMPENSATING.
OneWay ==
    /\ confirmed = {} \/ undone = <<>>
    /\ confirmed # {} => store \in {"RUNNING", "COMMITTED", "SUSPENDED"}
    /\ undone # <<>> => store \in {"COMPENSATING", "COMPENSATED", "SUSPENDED"}

\* Branches are rolled back in the reverse of the order in which they were
\* registered, each once.
ReverseOrder ==
    \A j, l \in 1..Len(undone) : j < l =>
        \E m, n \in 1..Len(branches) :
            m > n /\ branches[m] = undone[j] /\ branches[n] = undone[l]

\* What Execute returns is true of the store, whatever the store did, and the
\* object it leaves is at most one legal move ahead of the store.
ResultTellsStore ==
    /\ MemoryLeads("WORKFLOW")
    /\ result = "committed" => store = "COMMITTED"
    /\ result = "compensated" => store = "COMPENSATED"
    /\ result = "confirm_failed" => store \in {"RUNNING", "SUSPENDED"}
    /\ result = "rollback_failed" => store # "COMMITTED"

\* What a caller of Execute gets: "none" until it returns.
Returned ==
    IF result = "none" THEN "none"
    ELSE IF result = "committed" THEN "ok" ELSE "error"

Execution ==
    INSTANCE TxExecution WITH
        Mode <- "WORKFLOW", outcome <- Returned, again <- executions > 1

\* Those who call Execute may take the workflow for the executor that Runtime
\* and RecoveryScan know: whatever the handler and its goroutines do, and
\* wherever it crashes, memory and store move as in TxExecution, a failed update
\* ends the call, and the error tells whether COMMITTED is stored.
ExecutionSpec == Execution!Spec

\* Execute comes back, unless the process dies.
Returns == pc = "begin" ~> Over
==============================================================================
