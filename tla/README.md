# A TLA+ model of go-distsaga

go-distsaga coordinates distributed transactions in five modes: saga, TCC, XA,
outbox and workflow. An executor per mode drives one transaction through a table
of states, saves each state with a store adapter, and calls the user's callbacks;
a background recoverer looks for transactions that were left behind; a runtime
puts these together. The modules here model the state machine, the five
executors, the recoverer, a saga that its executor and the recovery drive at the
same time, and the runtime with its notifier. TLC checks them on small
instances, and TLAPS proves the safety properties of all of them for all values
of the constants.

Source references are to the repository (`src/` here).

## 1. The system

| Part | State it keeps | Operations | What makes it correct |
|---|---|---|---|
| Transaction (`transaction.go`, `state.go`) | `State`, the statuses of steps, branches and messages, `Payload` | `TransitionTo`, which consults the table of the mode | only moves of the table are made; final states are final |
| Saga executor (`saga/executor.go`) | loop index, `completedSteps`, retry counter, `lastErr` | `Execute`, `compensate` | all steps stand and the saga commits, or the completed ones are compensated in reverse order and nothing runs afterwards; the store tells the truth after a crash |
| TCC executor (`tcc/executor.go`) | the same, with `triedBranches` | `Execute`, `confirm`, `cancel` | no branch is confirmed while another is cancelled; the decision is stored before a branch is told |
| XA executor (`xa/executor.go`) | the same, with `preparedBranches` | `Execute`, `commit`, `abort` | as for TCC, with the vote (PREPARED) on record as well |
| Outbox executor (`outbox/executor.go`) | loop index, statuses of the messages | `Execute`, `sendMessages` | no message before its operation is on record; COMMITTED only when all are sent |
| Workflow executor (`workflow/executor.go`, `branch.go`) | `wf.branches` under `wf.mu`, the callbacks | `Execute`, `NewBranch`, `OnConfirm`, `OnRollback`, `OnCancel`, `confirm`, `rollback` | what the handler registered is confirmed, or undone in reverse order, even if goroutines still register |
| Recovery (`recovery.go`) | `running`, `stopCh`, `once`; in a scan, a batch of copies | `Start`, `Stop`, `run`, `scan`, `recover` | one scanner; `Stop` is final; what was left behind is finished; a stale copy does no harm |
| Store adapters (`adapter.go`, `memory_adapter.go`) | a map of copies of transactions | save, load, update, delete, `LoadByState` | an update is a legal move of the stored copy |
| Runtime (`runtime/`) | an adapter, a notifier, a recovery | one method for each mode; `StartRecovery`, `StopRecovery` | each transaction that ends has the event of its end |
| Notifier (`notifier.go`) | `events`, `handlers` | `Publish`, `Subscribe` | no event is lost |
| Options, loggers, errors | configuration | setters | – |

### How the parts interact

* An executor and its transaction: `tx.TransitionTo(s)` on the object in memory,
  then `adapter.UpdateTransactionState(id, s)`, in which the adapter makes the
  same check on its own copy. The statuses of steps and branches live in memory
  only; nothing ever stores them.
* An executor and the services: a callback is called, perhaps several times
  (`retry.Do`), with a context that may time out. A callback that reports an
  error may have taken effect, or may yet.
* The recoverer, the store and everybody else: `scan` loads copies state by
  state, up to 100 of each, and hands them one after the other to a handler. It
  does not know whether the executor of a transaction is alive, and other
  recoverers on the same store do the same.
* The runtime, the store and the notifier: a method makes a transaction, saves
  it, has the executor drive it and publishes one event of how it ended. Methods
  run concurrently, in one process with one notifier or in several that share a
  store and draw their IDs with the same worker numbers.
* The workflow executor and the handler: the handler may start goroutines that
  register branches while the executor confirms or rolls back.

### What is hard

A crash between a callback and the next update; a store that refuses an update
or loses its answer, at each of the places where the code returns the error and
at those where it drops it; a handler that compensates what a live executor is
compensating; IDs of two processes that collide; events appended without a lock;
a callback that fails late; a failure in the middle
of a second phase; the same transaction handed to `Execute` twice; copies that
grow stale in a scan; concurrent `Start` and `Stop`; registration that races the
end of a workflow. `PROJECT.json` lists each at its line, under "hazards".

## 2. The modules

| Module | Models | Notes |
|---|---|---|
| `TxState` | `state.go` | A table is the set of its edges. `recoverableStates` is the list in `Recovery.scan`, in its order. |
| `TxRecord` | one transaction in memory (`state`) and in the store (`store`) | `Advance` is `TransitionTo` and then `UpdateTransactionState`. `StoreFaults` says what a remote store may do: refuse a legal update, or make it and report an error. `MemoryAdapter` does neither. |
| `Participants` | the user's branches, external | How far a branch is (`rm`), and the first-phase calls that may still land (`inflight`). Calls are idempotent, as the documentation requires. |
| `SagaExecutor` | `saga/executor.go` | |
| `TCCExecutor`, `XAExecutor` | `tcc/executor.go`, `xa/executor.go` | both EXTEND `Participants` and `TxRecord` |
| `OutboxExecutor` | `outbox/executor.go` | |
| `WorkflowExecutor` | `workflow/executor.go`, `workflow/branch.go` | |
| `RecoveryLoop` | `Start`, `Stop`, `run` of `recovery.go` | |
| `RecoveryScan` | `RegisterHandler`, `scan`, `recover`, `isExpired` and `LoadByState` | Transactions of all five modes, whose executors are kept as their moves of the stored state. |
| `SagaRecovery` | `SagaExecutor` and the recovery of the same transaction | EXTENDS `SagaExecutor`: every step of it, and beside them a recoverer, with a handler that knows no step statuses. |
| `Runtime` | `runtime/coordinator.go`, `notifier.go`, `SaveTransaction` | Executors are kept as their moves of memory and store. |
| `CompensationStack` | abstract: what the saga pattern promises | a stack that is full, or emptied from the top |
| `AtomicCommit` | abstract: what TCC and XA promise | one outcome, chosen once, followed by every branch |
| `TxExecution` | abstract: what the callers of any executor see | memory and store advance together, an error for anything but a stored COMMITTED |
| `MC*` | instances for TLC | definitions of constants only |
| `*Proofs` | theorems | see section 5 |

**A step of an executor's model** is one call that leaves the executor: one
update of the store, one attempt at one callback. Between two of them the code
works on its own variables only, which no other actor reads, so that a finer
grain would show nothing more. `Crash` may fall between any two of them, and in
a call (the call may still land, or took effect unseen). `Reexecute` is a caller
or a handler that loads the stored transaction and hands it to `Execute` again.
`pc` names the place in the code; each action is one outcome of the call made
there (`ActionSucceeds`, `RetryAction`, `ActionFails`, `StepContextDone`, ...).
The variables have the names of the source where TLA+ allows.

**Retry.** `retry.Do` is external; it is a loop of at most `RetryCount` (or
`Retries[s] + 1`) attempts that may also end with its context.

**Faults of callbacks** are the constant `CallFaults`: "late" (takes effect and
reports an error), "inflight" (reports an error and may take effect at any later
moment, or never). Without either a failing call has no effect.

**An executor as its moves.** `RecoveryScan` and `Runtime` have many
transactions, and keep of an executor the moves of the table that it makes
(`ExecutorMoves` of `TxState`), the order of memory and store, and when `Execute`
returns, without an error only for a stored COMMITTED. `TxExecution` states this
for one transaction of any mode. It is not an assumption: each of the five
executors implements it (`ImplementsExecution` in their proof modules; the run
`Workflow` checks it as well, as `ExecutionSpec`), and what a call of a `Runtime`
does with its transaction is a behaviour of it (`CallsAreExecutions`).
`RecoveryScan` has the stored state only, and needs of it what `ExecutorContract`
says of each executor.

**The recovery.** `scan` returns at once when the adapter is not a
`FilteredStoreAdapter` (`recovery.go:109`); such a recoverer takes no step of the
model, and the `Scanners` of `RecoveryScan` are the others. A transaction that is
loaded is skipped when it is older than `maxAge` (`isExpired`; `expired` in both
modules), or when no handler is registered yet. Between the load of a batch and
the call of a handler everybody else may move: `Load` and what follows are
separate steps. The model of one saga, `SagaRecovery`, has no loads that fail and
no other states in a scan; `RecoveryScan` has both.

**The recovery handler** is the user's. In `RecoveryScan` it fails or succeeds;
when it succeeds it has called what was left to call, and updates the store if
it is one that does so itself (`Updating`): `scan` and `recover` update nothing.
In `SagaRecovery` its calls are steps of their own: the copy that it is given has
no `Steps`, since `UpdateTransactionState` keeps the state only
(`memory_adapter.go:65`), so that it compensates every step, the last one first,
stops at the first error and stores COMPENSATED.

**A branch of a workflow** has the callbacks that `Kind` gives it, any of the
three. `OnConfirm`, `OnRollback` and `OnCancel` make a branch with one callback;
the owner of a branch, of `NewBranch` as well, may assign the others by hand
(`docs/04.WORKFLOW.md`, "Workflow.NewBranch"), at any time while it may register.

**A method of the Runtime** is its calls: save, the moves of the executor, and
`Publish` as the two halves of `n.events = append(n.events, event)`, between
which another `Publish` may come. The header of the slice is read and written at
once; a torn header would touch only transactions in `overlap`, of which
`AnnouncedOnce` promises nothing. `NewTransaction` draws an ID that no
other call of its process has; two processes may draw the same.

**Mutants.** An operator "Mutant of X" above a definition X is X with a
plausible slip of the code (a dropped error, a missing reset, an index off by
one). `PROJECT.json` names, for every property of a passing run, one mutant with
which TLC finds that property violated.

## 3. The runs

All constants are small, the state spaces complete.

| Run | Instance | Shows |
|---|---|---|
| `Saga` | 4 steps, the second retried once, 2 attempts for a compensation, all faults of calls and store, 2 executions; 7 906 states | `StoreTellsForward`, `CompensatedLeavesNothing`, `ResultTellsStore`, `RecordBeforeCall`, refinement of `CompensationStack`, `Returns` |
| `XA` | 4 branches, 2 attempts, all faults, 2 executions; 27 514 states | `StoreTellsBranches`, `ResultTellsStore`, refinement of `AtomicCommit`, `Returns` |
| `TCC` | 4 branches, the second retried, all faults, 2 executions; 7 324 states | the same for TCC |
| `Outbox` | 6 messages, 3 attempts, a sender and a store that fail, an operation that fails late, 2 executions; 348 states | `NoEarlyMessage`, `CommittedIsSent`, `ResultTellsStore`, `Returns` |
| `Workflow` | 4 branches with 3, 1, 1 and 2 callbacks, two of them registered by goroutines nobody waits for, a store that fails, 2 executions; 126 823 states | `NothingRegisteredIsLost`, `OneWay`, `ReverseOrder`, `ResultTellsStore`, refinement of `TxExecution`, `Returns` |
| `Loop` | 3 callers, 6 calls of Start and Stop; 5 008 states | `OneScanner`, `StopClosesOnce`, `StopIsFinal`, `CallsReturn` |
| `Scan` | 2 recoverers, one of which may die, handlers registered at any time; a TCC transaction and a workflow that ages and whose handler never succeeds, 1 to a load; 464 508 states | `TypeOK`, `StaleIsNotWrong`, `OutcomeKept`, `HandledOnce`, `StrandedIsFinished` |
| `SagaRecovery` | the saga of the run `Saga` beside a recoverer, a handler registered at any time, a saga that may grow too old at any time; 128 734 states | `RecoveredIsClean`, `EndIsKept`, `ReverseOrder`, `CleanedInTheEnd` |
| `Runtime` | 2 calls of one Runtime with a notifier (saga or outbox, TCC or workflow) and one of another without (XA), 3 IDs, a store that fails; 460 554 states up to symmetry of the IDs | `OwnTransaction`, `EventTellsStore`, `AnnouncedOnce` |
| `XACrash` | 2 branches, no faults but crashes | a violation, section 4 |
| `LoopFlag` | 1 caller, 1 call | a violation |
| `ScanSuspended` | 1 saga, 1 recoverer | a violation |

`Scan` checks the type invariant of its module. Those of all the modules are
proved (section 5).

**Why the bounds are enough.** Four branches make a first, a last and two in
between, the least with which a loop can go wrong between two that are alike;
the six messages of the outbox are more than its one loop needs. One step that
is retried beside some that are not gives every form of the retry loop. A second execution finds the store in every state that a first can
leave it in, and nothing but the store and the services outlives an execution,
so that a third finds nothing new. With two recoverers every pair of steps is
interleaved. A limit of one to a load, with two transactions, has the situation
that the limit of 100 has with a hundred and one. `Aging` bounds the
transactions that grow older than `maxAge`: with one that ages and one that does
not, the scan meets both. A workflow has the
moves of a saga and one more, to SUSPENDED from its first phase; with a TCC
transaction beside it, both ways and both ends of an undo are there. XA has
longer ways of the same form, and an outbox transaction is in no state that is
loaded. A handler of `SagaRecovery` begins again whenever the
store is in a state that is loaded, without a bound, since its variables return
to where they were. Two calls of one Runtime race for its events, the third, of
another Runtime, for the entries of the store; every mode is among them. Six calls from three
goroutines allow a Start and a Stop in each of them at the same time.
The theorems of section 5 remove the bounds.

**Fairness.** `FairSpec` of an executor is weak fairness of `Execute`: the
goroutine is scheduled and callbacks return, which the code relies on and step
contexts serve. Failures, crashes and re-executions have no fairness: a crash is
`Over`, and so `Returns` says that `Execute` returns or the process dies. In
`RecoveryLoop` a call that was begun goes on, a scan ends, and the select of
`run`, which picks at random among the branches that are ready (the Go
specification), does not pick the ticker for ever: strong fairness of `Exit`. In
`RecoveryScan` the goroutine of a recoverer goes on; a load that is made again
and again succeeds and, since a Go map is ranged over from a random place,
returns each transaction in the end; a handler called again and again for a
transaction succeeds in the end, save for those in `Failing`. The fairness of the
loads is that of the memory adapter: with a store that returns the same hundred
transactions each time, those that age or whose handler fails could keep the
others out for ever, of which no property speaks. This holds for the
recoverers in `Lasting`, whose process lives on; the others may stop anywhere.
Nothing makes anybody register a handler: `StrandedIsFinished` asks for one, and
for one that updates the store. In
`SagaRecovery` the executor is scheduled as long as it lives, the scan goes on,
and the handler's calls succeed in the end when made again and again; here too
`CleanedInTheEnd` asks for a handler, and promises nothing of a saga that grows
too old first, which the code leaves to people (`recovery.go:154`).

**Deadlock** is checked but in the runs of `RecoveryLoop`, where the calls may be
used up and all goroutines be gone. A finished executor stutters explicitly
(`Terminated`).

## 4. Where code and documentation disagree

* **XACrash.** `docs/03.XA.md:176` leaves a crash between Prepare and Commit to
  the recovery module, but `scan` (`recovery.go:115`) loads neither PREPARING
  nor PREPARED: such a transaction is never seen again and its branches keep
  their locks. (The same holds of RUNNING and TRYING, and of SUBMITTING and
  SUBMITTED in the outbox mode, for which `outbox/executor.go:28` promises that
  no message is lost.)
* **ScanSuspended.** SUSPENDED has no successor in any table (`state.go:114`
  ff.), so that whatever a handler does for a SUSPENDED transaction cannot be
  stored; `docs/08.RECOVERY.md:3` and `docs/01.SAGA.md:166` say that such
  transactions are completed in the end. It is handled again at every scan until
  it expires.
* **LoopFlag.** When the context given to `Start` ends, `run` returns and
  `running` stays up (`recovery.go:93`); every later `Start` returns nil and
  starts nothing.

Met while modelling and not made into runs. No property of a passing run states
what the code does here, or hides it; where one leaves a case out, it says so.

* `scan` and `recover` store nothing when a handler succeeds,
  while `docs/08.RECOVERY.md:15` has an update follow and `docs/06.RUNTIME.md:191`
  the end of the transaction. A handler that does not store the state itself, as
  that of `docs/08.RECOVERY.md:111-129`, is called again at every scan. (That one
  works from `tx.Steps` besides, which no store ever has.) `StrandedIsFinished`
  is of the handlers in `Updating`.
* `outbox/executor.go:132` moves from SUBMITTED to SUSPENDED
  when a message cannot be sent, which is not in the table (`state.go:144`): the
  transaction stays SUBMITTED, which no scan loads, although the comment at line
  115 and `docs/05.OUTBOX.md` (lines 13, 70, 80, 175) say that it becomes
  SUSPENDED. The placeholder `sendMessage` never fails, so that today's build
  cannot get there. The properties of `OutboxExecutor` allow both states, and say
  that such a transaction is not COMMITTED.
* `Execute` returns an error for a transaction that was
  compensated or rolled back, whose event is therefore `EventTransactionFailed`;
  the branches of `runtime/coordinator.go` that publish
  `EventTransactionCompensated` and `EventTransactionRolledback` (lines 55-57 and
  92-94) are never taken. `docs/06.RUNTIME.md:160` lists both, and line 136 has
  the event of the end published. `EventTellsStore` allows either event.
* `Publish` appends without a lock (`notifier.go:73`), so that of
  two transactions that end at the same time the event of one may be lost, while
  `docs/06.RUNTIME.md:136` has each published. `AnnouncedOnce`
  leaves out the calls whose `Publish` met another.
* `runtime.New` makes the recoverer of a Runtime (`runtime/runtime.go:63`) and
  no handler can be registered with it, so that it skips every transaction;
  `docs/06.RUNTIME.md:190` shows it call one.
* "failed" is announced for a stored COMMITTED when the answer of the last update
  was lost (`FailedIsNotCommitted` says that it is not otherwise).
* A Start after a Stop may run a second goroutine beside the first until that
  one reads `stopCh`.
* The branch whose Try or Prepare failed is never told to cancel or roll back
  (`tcc/executor.go:89`), so that a Try that lands late stays reserved, which
  `StoreTellsBranches` allows for exactly that branch.

## 5. What is proved

TLAPS checks every step. The theorems hold for all values of the constants that
satisfy the assumptions `SagaAssumption`, `XAAssumption`, `TCCAssumption`,
`ParticipantsAssumption`, `StoreFaultsAssumption`, `OutboxAssumption`,
`WorkflowAssumption`, `LoopAssumption`, `ScanAssumption`, `RecoveryAssumption`
and `RuntimeAssumption`: any number of steps, branches or messages (zero included),
any retry counts, any faults, any number of executions, callers, workers,
transactions, recoverers, Runtimes and IDs.

| Module | Theorems |
|---|---|
| `SagaProofs`, of `SagaExecutor` | `TypeCorrect`, `StoreTells`, `CompensatedIsClean`, `ResultIsTrue`, `PhaseIsOnRecord`, `ImplementsStack`, `ExecutorContract`, `ImplementsExecution` |
| `SagaProofs`, of `SagaRecovery` | `RecoveryTypeCorrect`, `CleanWhoeverStores`, `EndStays`, `BackwardsWhoeverCalls` |
| `XAExecutorProofs`, `TCCExecutorProofs` | `TypeCorrect`, `StoreTells`, `ResultIsTrue`, `BranchesAgree`, `ImplementsAtomicCommit`, `ExecutorContract`, `ImplementsExecution` |
| `OutboxExecutorProofs` | `TypeCorrect`, `NothingEarly`, `CommittedMeansSent`, `ResultIsTrue`, `ExecutorContract`, `ImplementsExecution` |
| `WorkflowExecutorProofs` | `TypeCorrect`, `NothingIsLost`, `GoesOneWay`, `RollsBackInReverse`, `ResultIsTrue`, `ExecutorContract`, `ImplementsExecution` |
| `RecoveryLoopProofs` | `TypeCorrect`, `ScansAlone`, `ClosesOnce` |
| `RecoveryScanProofs` | `TypeCorrect`, `StaleNeverWrong`, `WayIsKept`, `NeverTwice` |
| `RuntimeProofs` | `TypeCorrect`, `EntryIsOwn`, `EventIsTrue`, `FailedIsNotCommitted`, `AnnouncedAndKept`, `CallsAreExecutions` |

**The argument for the executors.** The properties speak of the store and the
services and are not inductive: they do not say what the executor is about to do.
`IInv` ties the three together by the control point. Inside `Execute`, memory and
store agree (`PcInv`); `completed` lists the first steps in order
(`CompletedInv`); before the decision the statuses and effects are those of a
prefix whose length is known to the loop index (`RunningInv`, `PreparingInv`,
`TryingInv`); after it, those of what the loop has already been through
(`CompensateInv`, `CommitInv`, `ConfirmInv`, `AbortInv`, `CancelInv`);
`PendingInv` says that nothing was called while the store says PENDING, which is
why a second execution does no harm; `InflightInv` that nothing is in flight
without that fault. For XA and TCC `OutcomeInv` and `DecidedInv` tie branches to
the outcome that the stored state stands for, also in SUSPENDED, which does not
say which way the transaction went. Each proof has a step for each action.
The refinement theorems use `IInv` for both states of a step and show that it
maps to one step of the abstract module or to a stutter. `BranchesAgree` follows
from `IInv`: no branch is committed while another is rolled back.

The outbox has one loop, and its `SentInv` says that the messages that went out
are the first ones up to the loop index, one more or one less while an attempt
is under way. `ExecutorContract` follows from the invariant of each executor.

**The argument for the workflow.** Its list grows while the loops go through a
copy of it. `Copied` says that the copy is a prefix of the list and holds all
that the handler had registered when it returned; what is appended behind it
comes from goroutines for which nobody waited. `ConfirmingInv` and
`RollingBackInv` say that the branches of the copy on the far side of the index
have had their callback (or, in a rollback, that a failure was noted), and that
all that was undone stood behind the index, which gives the reverse order.
`UntouchedInv` says which effects there cannot be yet at each place, and with it
that a workflow goes one way only.

**The argument for `ImplementsExecution`.** The mapping is the identity on memory
and store; the outcome is "none" until `Execute` returns. Each update of the
store is a `Move`, which ends the call exactly when the abstract one does: the
value returned follows from the branch of the code that was taken, and that
nothing was returned before from `PcInv`. A refused transaction is a `GiveUp`,
for which `FirstInv` is needed: the first call is given a PENDING one, so that
what is refused was loaded from the store. All other actions, whatever they do
to services, branches and messages, are stutters.

**The argument for the scan.** `WayInv` ties the stored state of a transaction to
the way that its executor took and to its mode; it is what makes a stale copy
harmless, since no state of the other way can follow. It covers all five modes: an
outbox transaction takes its way with COMMITTED and is never loaded, and a
workflow that failed while it confirmed is SUSPENDED without having taken one,
and moves no more. `PassedInv` says that a
transaction that a scan has handled is in a state of `recoverableStates` that
the scan is past, or in SUSPENDED or a final state: SUSPENDED is loaded first,
and no state that is loaded later follows the one that was handled.

**The argument for the saga in two hands.** The invariant `IInv` of the executor
alone does not hold here: once the store is in a state that recovery loads, memory and
store part. What stays true is that each of the two has taken back the completed
steps behind its own index (`ExecutorInv`, `HandlerInv`, both by `TakenBack`),
and that no handler is at work before the executor stopped doing steps, so that
`completed` stands still while there is one.

**The argument for the runtime.** `SaveTransaction` refuses an ID that has an
entry, and only a call whose save succeeded is in `Driven`: its entry is its own
from then on (`OwnTransaction` is itself part of the invariant). `DrivenInv` says
that memory and store agree while `Execute` runs, and how result and entry go
together after it; `EventsInv` that each event, on the list or in the copy that
a `Publish` holds, says how its call ended, which never changes again.
For `AnnouncedOnce` the events are counted (`AnnouncedInv`): no list, and no copy
of one in a `Publish`, has two events of a call (`EachOnce`); a call that
returned without having met another `Publish` (`Settled`) is on its list, and on
the copy of every `Publish` that is under way, since that will replace the list;
and of two `Publish` under way at the same time both are in `overlap`.
`CallsAreExecutions` uses that the steps of the other calls change neither the
object of a call nor its entry: theirs is another entry, or one that is absent.

The clauses of `CompensatedLeavesNothing`, `StoreTellsBranches` and
`ResultTellsStore` that speak of stores or calls without faults
(`StoreFaults = {}`, `CallFaults = {}`) are trivially true in the runs, which
have all the faults, and rest on the theorems.

**The argument for the loop.** `running` is up whenever a goroutine scans or is
about to be launched and `stopCh` is open, and `once` is "unused" exactly while
`stopCh` is open; from this, at most one scanner and at most one close.

**Model-checked only.** The liveness properties (`Returns`, `StopIsFinal`,
`CallsReturn`, `StrandedIsFinished`, `CleanedInTheEnd`), which need fairness and
ENABLED, out of the prover's reach. The safety properties of the passing runs
are all proved.

## 6. What is not modelled

* `DeleteTransaction`, which nothing calls, and the `WithCtx` variants of the
  adapter, which pass the call on.
* The `Payload` map, which the copies of a transaction share in spite of the
  thread safety that `docs/07.ADAPTER.md:129` promises: no executor passes
  `updates`, and nothing in the repository reads the map.
* `Subscribe`, which appends to a list that nothing reads; `Unsubscribe` and
  `Close`, which do nothing; notifiers other than the one in memory.
* `StartRecovery` and `StopRecovery`: they pass the call on to the recoverer.
* Callbacks that a user of a workflow replaces or clears once they are assigned.
* Options, loggers, error texts, names, timestamps, durations, the option
  `transactionTTL`, which nothing reads: nothing about them can be wrong that the
  properties would see. Of the IDs, only whether two are equal.
* Contexts, but for the deadline that ends a retry loop: the executors pass them
  on and do not look at them.

## 7. Plan

Done, in this order: `TxState`, `TxRecord`; `SagaExecutor` with
`CompensationStack` and its proofs; `Participants`, `XAExecutor`, `TCCExecutor`
with `AtomicCommit` and their proofs; `RecoveryLoop` with its proofs;
`RecoveryScan`; `OutboxExecutor`; `WorkflowExecutor`; `SagaRecovery`; `Runtime`;
the proofs about the outbox, the scan, the saga in two hands and the runtime;
the proofs about the workflow, the count of the events, and `TxExecution` with
the proofs that the executors implement it.

Worth doing next:

1. **TCC and XA in two hands**, as `SagaRecovery`: a handler that confirms or
   cancels beside a live executor, from a copy without branches.
2. **An abstract outbox** (operation, record, messages in order) that
   `OutboxExecutor` implements.
3. **The executors in `RecoveryScan`** as instances of `TxExecution`, with the
   object in memory that it leaves out.
