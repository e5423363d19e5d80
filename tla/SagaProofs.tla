---------------------------- MODULE SagaProofs ------------------------------
(***************************************************************************)
(* Proofs about SagaExecutor and, in the second half, about SagaRecovery,  *)
(* for any number of steps, any retry counts and any faults of callbacks   *)
(* and store.                                                              *)
(***************************************************************************)
EXTENDS SagaRecovery, TLAPS

(***************************************************************************)
(* The inductive invariant.  What the invariants of the component say of   *)
(* the stored state is kept by the control point of the executor: where pc *)
(* is inside Execute, memory and store agree, and the statuses are a       *)
(* prefix of committed steps whose length the loop index knows.            *)
(***************************************************************************)

\* completedSteps lists the first steps, in order.
CompletedInv ==
    /\ Len(completed) <= N
    /\ \A j \in 1..Len(completed) : completed[j] = j

PcInv ==
    /\ pc = "begin" => state = store
    /\ pc \in {"action", "commit", "turn"} =>
           state = "RUNNING" /\ store = "RUNNING"
    /\ pc \in {"action", "turn"} => i \in Steps /\ i = Len(completed) + 1
    /\ pc = "commit" => Len(completed) = N
    /\ pc = "turn" => status[i] = "FAILED"
    /\ pc = "compensate" =>
           state = "COMPENSATING" /\ store = "COMPENSATING" /\ i <= Len(completed)
    /\ pc # "returned" => result = "none"

PendingInv ==
    store = "PENDING" =>
        /\ effect = {} /\ inflight = {} /\ ~lastErr
        /\ \A s \in Steps : status[s] = "none"

RunningInv ==
    store = "RUNNING" =>
        /\ ~lastErr
        /\ \A s \in Steps :
              s <= Len(completed) => s \in effect /\ status[s] = "COMMITTED"
        /\ \A s \in Steps : s > Len(completed) => status[s] \in {"none", "FAILED"}
        /\ pc \in {"action", "turn"} => \A s \in effect : s \in inflight \/ s <= i
        /\ CallFaults = {} => \A s \in effect : s <= Len(completed)

CompensateInv ==
    pc = "compensate" =>
        /\ \A s \in Steps : s <= i <=> status[s] = "COMMITTED"
        /\ ~lastErr =>
              \A s \in Steps :
                 /\ i < s /\ s <= Len(completed) => status[s] = "COMPENSATED"
                 /\ s \in effect =>
                       s \in inflight \/ s <= i \/ s = Len(completed) + 1
                 /\ CallFaults = {} /\ s \in effect => s <= i

InflightInv == CallFaults = {} => inflight = {}

IInv ==
    /\ TypeOK
    /\ CompletedInv /\ PcInv
    /\ PendingInv /\ RunningInv /\ CompensateInv /\ InflightInv
    /\ StoreTellsForward /\ CompensatedLeavesNothing /\ ResultTellsStore

------------------------------------------------------------------------------
(***************************************************************************)
(* The table and the two calls of an advance.                              *)
(***************************************************************************)

\* The moves of sagaTransitions, one successor list to a line.
LEMMA SagaMoves ==
    ASSUME NEW a, NEW b
    PROVE  CanTransition("SAGA", a, b) <=>
             \/ a = "PENDING" /\ b = "RUNNING"
             \/ a = "RUNNING" /\ b \in {"COMMITTED", "COMPENSATING", "FAILED",
                                        "SUSPENDED"}
             \/ a = "COMPENSATING" /\ b \in {"COMPENSATED", "FAILED",
                                             "SUSPENDED"}
  BY DEF CanTransition, getTransitions, sagaTransitions

\* When memory and store agree, an advance moves memory; it moves the store too
\* unless an error is returned, and only a faulty store returns one.
LEMMA AdvanceTells ==
    ASSUME NEW target, NEW err \in BOOLEAN, state = store,
           Advance("SAGA", target, err)
    PROVE  /\ CanTransition("SAGA", state, target)
           /\ state' = target
           /\ store' \in {store, target}
           /\ ~err => store' = target
           /\ StoreFaults = {} => ~err
  BY DEF Advance, UpdateTransactionState

------------------------------------------------------------------------------
(***************************************************************************)
(* IInv is an invariant.                                                   *)
(***************************************************************************)

LEMMA InitIInv == Init => IInv
<1> SUFFICES ASSUME Init PROVE IInv
  OBVIOUS
<1>1. TypeOK
  <2>1. state \in TxStates /\ store \in TxStates
    BY DEF Init, TxStates
  <2>2. i \in 0..(N + 1) /\ executions \in 1..MaxExecutions
    BY SagaAssumption DEF Init
  <2>3. completed \in Seq(Steps)
    BY DEF Init
  <2>4. status \in [Steps -> {"none", "COMMITTED", "FAILED", "COMPENSATED"}]
    BY DEF Init
  <2>5. QED
    BY <2>1, <2>2, <2>3, <2>4 DEF Init, TypeOK, Results
<1>2. CompletedInv /\ PcInv
  BY SagaAssumption DEF Init, CompletedInv, PcInv
<1>3. PendingInv /\ RunningInv /\ CompensateInv /\ InflightInv
  BY DEF Init, PendingInv, RunningInv, CompensateInv, InflightInv
<1>4. StoreTellsForward /\ CompensatedLeavesNothing /\ ResultTellsStore
  BY DEF Init, StoreTellsForward, CompensatedLeavesNothing, ResultTellsStore
<1>5. QED
  BY <1>1, <1>2, <1>3, <1>4 DEF IInv

\* The states and results that the executor names are states and results.
LEMMA Names ==
    /\ {"PENDING", "RUNNING", "COMMITTED", "COMPENSATING", "COMPENSATED",
        "SUSPENDED"} \subseteq TxStates
    /\ Results = {"none", "rejected", "adapter_error", "committed",
                  "compensated", "compensation_failed"}
  BY DEF TxStates, Results

\* What typing says, with the sets of names left folded where only membership
\* of a variable matters.
LEMMA Types ==
    ASSUME TypeOK
    PROVE  /\ i \in Nat /\ N \in Nat
           /\ completed \in Seq(Steps) /\ Len(completed) \in Nat
           /\ \A s \in Steps : s \in Nat /\ s >= 1 /\ s <= N
           /\ status \in [Steps -> {"none", "COMMITTED", "FAILED",
                                    "COMPENSATED"}]
           /\ effect \subseteq Steps /\ inflight \subseteq Steps
  BY SagaAssumption DEF TypeOK, Steps

\* Every step keeps the invariant.
LEMMA NextIInv ==
    ASSUME IInv, [Next]_vars
    PROVE  IInv'
<1> USE SagaAssumption, Names, Types DEF IInv
<1>1. CASE Begin
  <2> USE <1>1 DEF Begin, Loop, Goto, Return, services
  <2>1. PICK err \in BOOLEAN :
              /\ Advance("SAGA", "RUNNING", err)
              /\ IF err THEN Return("adapter_error") ELSE Loop(1)
    OBVIOUS
  <2>2. /\ store = "PENDING" /\ state' = "RUNNING"
        /\ store' \in {store, "RUNNING"}
        /\ ~err => store' = "RUNNING"
        /\ StoreFaults = {} => ~err
    BY <2>1, AdvanceTells, SagaMoves DEF PcInv
  <2>3. TypeOK'
    <3>1. /\ pc' \in {"begin", "action", "commit", "turn", "compensate",
                      "returned", "crashed"}
          /\ result' \in Results
      BY <2>1, <2>2 DEF TypeOK
    <3>2. state' \in TxStates /\ store' \in TxStates
      BY <2>1, <2>2 DEF TypeOK
    <3>3. i' \in 0..(N + 1) /\ completed' \in Seq(Steps)
      BY <2>1, <2>2 DEF TypeOK, CompletedInv
    <3>4. QED
      BY <2>1, <2>2, <3>1, <3>2, <3>3 DEF TypeOK
  <2>4. (CompletedInv /\ PcInv)'
    BY <2>1, <2>2 DEF CompletedInv, PcInv, Steps
  <2>5. (PendingInv /\ InflightInv /\ StoreTellsForward)'
    BY <2>1, <2>2
       DEF PendingInv, InflightInv, StoreTellsForward, With, PcInv, Steps
  <2>6. RunningInv'
    <3>1. effect' = {} /\ Len(completed') = 0 /\ ~lastErr'
      BY <2>2 DEF PendingInv
    <3>2. \A s \in Steps : status'[s] = "none" /\ ~(s <= 0)
      BY <2>2 DEF PendingInv
    <3>3. QED
      BY <3>1, <3>2 DEF RunningInv
  <2>7. CompensateInv'
    BY <2>1, <2>2 DEF CompensateInv
  <2>8. CompensatedLeavesNothing'
    BY <2>1, <2>2 DEF CompensatedLeavesNothing, With
  <2>9. ResultTellsStore'
    BY <2>1, <2>2 DEF ResultTellsStore, PcInv
  <2>10. QED
    BY <2>3, <2>4, <2>5, <2>6, <2>7, <2>8, <2>9
<1>2. CASE Commit
  <2> USE <1>2 DEF Commit, Return, locals, services
  <2>1. PICK err \in BOOLEAN :
              /\ Advance("SAGA", "COMMITTED", err)
              /\ Return(IF err THEN "adapter_error" ELSE "committed")
    OBVIOUS
  <2>2. /\ store = "RUNNING" /\ state' = "COMMITTED"
        /\ store' \in {store, "COMMITTED"}
        /\ ~err => store' = "COMMITTED"
        /\ StoreFaults = {} => ~err
    BY <2>1, AdvanceTells, SagaMoves DEF PcInv
  <2>3. TypeOK'
    BY <2>1, <2>2 DEF TypeOK
  <2>4. (CompletedInv /\ PcInv)'
    BY <2>1, <2>2 DEF CompletedInv, PcInv
  <2>5. (PendingInv /\ InflightInv)'
    BY <2>1, <2>2 DEF PendingInv, InflightInv, PcInv
  <2>6. StoreTellsForward'
    <3>1. \A s \in Steps : s \in effect /\ status[s] = "COMMITTED"
      BY <2>2 DEF PcInv, RunningInv
    <3>2. QED
      BY <2>2, <3>1 DEF StoreTellsForward, With
  <2>7. (RunningInv /\ CompensateInv)'
    BY <2>1, <2>2 DEF RunningInv, CompensateInv
  <2>8. CompensatedLeavesNothing'
    BY <2>1, <2>2 DEF CompensatedLeavesNothing, With, PcInv
  <2>9. ResultTellsStore'
    BY <2>1, <2>2 DEF ResultTellsStore, PcInv
  <2>10. QED
    BY <2>3, <2>4, <2>5, <2>6, <2>7, <2>8, <2>9
<1>3. CASE BeginCompensate
  <2> USE <1>3 DEF BeginCompensate, Goto, Return, services
  <2>1. PICK err \in BOOLEAN :
              /\ Advance("SAGA", "COMPENSATING", err)
              /\ IF err THEN Return("compensation_failed") ELSE Goto("compensate")
    OBVIOUS
  <2>2. /\ store = "RUNNING" /\ state' = "COMPENSATING"
        /\ store' \in {store, "COMPENSATING"}
        /\ ~err => store' = "COMPENSATING"
        /\ StoreFaults = {} => ~err
    BY <2>1, AdvanceTells, SagaMoves DEF PcInv
  <2>3. TypeOK'
    <3>1. /\ pc' \in {"begin", "action", "commit", "turn", "compensate",
                      "returned", "crashed"}
          /\ result' \in Results
      BY <2>1, <2>2 DEF TypeOK
    <3>2. state' \in TxStates /\ store' \in TxStates
      BY <2>1, <2>2 DEF TypeOK
    <3>3. i' \in 0..(N + 1) /\ completed' \in Seq(Steps)
      BY <2>1, <2>2 DEF TypeOK, CompletedInv
    <3>4. QED
      BY <2>1, <2>2, <3>1, <3>2, <3>3 DEF TypeOK
  <2>4. (CompletedInv /\ PcInv)'
    BY <2>1, <2>2 DEF CompletedInv, PcInv
  <2>5. (PendingInv /\ InflightInv /\ StoreTellsForward)'
    BY <2>1, <2>2 DEF PendingInv, InflightInv, StoreTellsForward, With, PcInv
  <2>6. RunningInv'
    BY <2>1, <2>2 DEF RunningInv, PcInv
  <2>7. CompensateInv'
    <3>1. /\ i \in Steps /\ i = Len(completed) + 1 /\ status[i] = "FAILED"
          /\ i' = i - 1 /\ ~lastErr'
      BY <2>2 DEF PcInv
    <3>2. \A s \in Steps : s <= i - 1 <=> status[s] = "COMMITTED"
      BY <2>2, <3>1 DEF RunningInv
    <3>3. \A s \in Steps : s <= i => s <= i - 1 \/ s = Len(completed) + 1
      BY <3>1
    <3>4. \A s \in effect : s \in Steps /\ (s \in inflight \/ s <= i)
      BY <2>2 DEF RunningInv
    <3>5. CallFaults = {} => \A s \in effect : s <= i - 1
      BY <2>2, <3>1 DEF RunningInv
    <3>6. \A s \in Steps : ~(i - 1 < s /\ s <= Len(completed))
      BY <3>1
    <3>7. UNCHANGED <<completed, status, effect, inflight>>
      BY DEF services
    <3>8. QED
      BY <3>1, <3>2, <3>3, <3>4, <3>5, <3>6, <3>7 DEF CompensateInv
  <2>8. CompensatedLeavesNothing'
    BY <2>1, <2>2 DEF CompensatedLeavesNothing, With, PcInv
  <2>9. ResultTellsStore'
    BY <2>1, <2>2 DEF ResultTellsStore, PcInv
  <2>10. QED
    BY <2>3, <2>4, <2>5, <2>6, <2>7, <2>8, <2>9
<1>4. CASE Suspend
  <2> USE <1>4 DEF Suspend, Return, locals, services
  <2>1. PICK err \in BOOLEAN :
              /\ Advance("SAGA", "SUSPENDED", err)
              /\ Return("compensation_failed")
    OBVIOUS
  <2>2. /\ store = "COMPENSATING" /\ state' = "SUSPENDED"
        /\ store' \in {store, "SUSPENDED"}
        /\ ~err => store' = "SUSPENDED"
        /\ StoreFaults = {} => ~err
    BY <2>1, AdvanceTells, SagaMoves DEF PcInv
  <2>3. TypeOK'
    BY <2>1, <2>2 DEF TypeOK
  <2>4. (CompletedInv /\ PcInv)'
    BY <2>1, <2>2 DEF CompletedInv, PcInv
  <2>5. (PendingInv /\ InflightInv /\ StoreTellsForward)'
    BY <2>1, <2>2 DEF PendingInv, InflightInv, StoreTellsForward, With, PcInv
  <2>6. (RunningInv /\ CompensateInv)'
    BY <2>1, <2>2 DEF RunningInv, CompensateInv
  <2>7. CompensatedLeavesNothing'
    BY <2>1, <2>2 DEF CompensatedLeavesNothing, With, PcInv
  <2>8. ResultTellsStore'
    BY <2>1, <2>2 DEF ResultTellsStore, PcInv
  <2>9. QED
    BY <2>3, <2>4, <2>5, <2>6, <2>7, <2>8
<1>5. CASE EndCompensate
  <2> USE <1>5 DEF EndCompensate, Return, locals, services
  <2>1. PICK err \in BOOLEAN :
              /\ Advance("SAGA", "COMPENSATED", err)
              /\ Return(IF err THEN "compensation_failed" ELSE "compensated")
    OBVIOUS
  <2>2. /\ store = "COMPENSATING" /\ state' = "COMPENSATED"
        /\ store' \in {store, "COMPENSATED"}
        /\ ~err => store' = "COMPENSATED"
        /\ StoreFaults = {} => ~err
    BY <2>1, AdvanceTells, SagaMoves DEF PcInv
  <2>3. TypeOK'
    BY <2>1, <2>2 DEF TypeOK
  <2>4. (CompletedInv /\ PcInv)'
    BY <2>1, <2>2 DEF CompletedInv, PcInv
  <2>5. (PendingInv /\ InflightInv /\ StoreTellsForward)'
    BY <2>1, <2>2 DEF PendingInv, InflightInv, StoreTellsForward, With, PcInv
  <2>6. (RunningInv /\ CompensateInv)'
    BY <2>1, <2>2 DEF RunningInv, CompensateInv
  <2>7. CompensatedLeavesNothing'
    <3>1. \A s \in 1..Len(completed) : s \in Steps /\ 0 < s /\ s <= Len(completed)
      BY DEF CompletedInv, Steps
    <3>2. \A s \in 1..Len(completed) : status[s] = "COMPENSATED"
      BY <3>1 DEF CompensateInv
    <3>3. \A s \in effect :
             s \in inflight \cup {Len(completed) + 1} /\ CallFaults # {}
      BY DEF CompensateInv
    <3>4. UNCHANGED <<completed, status, effect, inflight>>
      BY DEF locals, services
    <3>5. QED
      BY <3>2, <3>3, <3>4 DEF CompensatedLeavesNothing
  <2>8. ResultTellsStore'
    BY <2>1, <2>2 DEF ResultTellsStore, PcInv
  <2>9. QED
    BY <2>3, <2>4, <2>5, <2>6, <2>7, <2>8
<1>6. CASE RejectBegin
  <2> USE <1>6 DEF RejectBegin, Return, locals, services
  <2>1. TypeOK'
    BY DEF TypeOK
  <2>2. (CompletedInv /\ PcInv)'
    BY DEF CompletedInv, PcInv
  <2>3. (PendingInv /\ InflightInv /\ StoreTellsForward)'
    BY DEF PendingInv, InflightInv, StoreTellsForward, With
  <2>4. (RunningInv /\ CompensateInv)'
    BY DEF RunningInv, CompensateInv
  <2>5. (CompensatedLeavesNothing /\ ResultTellsStore)'
    BY DEF CompensatedLeavesNothing, With, ResultTellsStore
  <2>6. QED
    BY <2>1, <2>2, <2>3, <2>4, <2>5
<1>7. CASE ActionSucceeds
  <2> USE <1>7 DEF ActionSucceeds, Act, Loop, Goto, services
  <2>1. TypeOK'
    <3>1. i \in Steps
      BY DEF PcInv
    <3>2. completed' \in Seq(Steps) /\ i' \in 0..(N + 1)
      BY <3>1
    <3>3. status' \in [Steps -> {"none", "COMMITTED", "FAILED", "COMPENSATED"}]
      BY <3>1
    <3>4. effect' \subseteq Steps /\ inflight' \subseteq Steps
      BY <3>1
    <3>5. QED
      BY <3>2, <3>3, <3>4 DEF TypeOK
  <2>2. (CompletedInv /\ PcInv)'
    BY DEF CompletedInv, PcInv, Steps
  <2>3. (PendingInv /\ InflightInv /\ StoreTellsForward)'
    BY DEF PendingInv, InflightInv, StoreTellsForward, With, PcInv
  <2>4. RunningInv'
    <3>1. /\ i \in Steps /\ i = Len(completed) + 1
          /\ i' = i + 1 /\ Len(completed') = i
      BY DEF PcInv
    <3>2. \A s \in Steps : s <= i => s \in effect' /\ status'[s] = "COMMITTED"
      BY <3>1 DEF PcInv, RunningInv
    <3>3. \A s \in Steps : s > i => status'[s] = status[s]
      BY <3>1
    <3>4. effect' = effect \cup {i} /\ inflight' = inflight
      OBVIOUS
    <3>5. /\ \A s \in effect : s \in inflight \/ s <= i
          /\ CallFaults = {} => \A s \in effect : s <= Len(completed)
      BY DEF PcInv, RunningInv
    <3>6. /\ \A s \in effect' : s \in inflight' \/ s <= i + 1
          /\ CallFaults = {} => \A s \in effect' : s <= i
      <4> SUFFICES ASSUME NEW s \in effect'
                   PROVE  /\ s \in inflight' \/ s <= i + 1
                          /\ CallFaults = {} => s <= i
        OBVIOUS
      <4>1. CASE s = i
        BY <3>1, <4>1
      <4>2. CASE s \in effect
        <5>1. s \in Nat /\ i \in Nat
          BY <3>1, <4>2 DEF TypeOK, Steps
        <5>2. s \in inflight \/ s <= i
          BY <3>5, <4>2
        <5>3. CallFaults = {} => s <= Len(completed)
          BY <3>5, <4>2
        <5>4. QED
          BY <3>1, <3>4, <5>1, <5>2, <5>3
      <4>3. QED
        BY <3>4, <4>1, <4>2
    <3>7. QED
      BY <3>1, <3>2, <3>3, <3>6 DEF PcInv, RunningInv
  <2>5. CompensateInv'
    BY DEF CompensateInv
  <2>6. (CompensatedLeavesNothing /\ ResultTellsStore)'
    BY DEF CompensatedLeavesNothing, With, ResultTellsStore, PcInv
  <2>7. QED
    BY <2>1, <2>2, <2>3, <2>4, <2>5, <2>6
<1>8. CASE RetryAction
  <2> USE <1>8 DEF RetryAction, Act, services
  <2>1. TypeOK'
    <3>1. i \in Steps
      BY DEF PcInv
    <3>2. effect' \subseteq Steps /\ inflight' \subseteq Steps
      BY <3>1
    <3>3. attempt' \in Nat
      BY DEF TypeOK
    <3>4. QED
      BY <3>2, <3>3 DEF TypeOK
  <2>2. (CompletedInv /\ PcInv)'
    BY DEF CompletedInv, PcInv
  <2>3. (PendingInv /\ InflightInv /\ StoreTellsForward)'
    BY DEF PendingInv, InflightInv, StoreTellsForward, With, PcInv
  <2>4. RunningInv'
    BY DEF RunningInv, PcInv
  <2>5. CompensateInv'
    BY DEF CompensateInv
  <2>6. (CompensatedLeavesNothing /\ ResultTellsStore)'
    BY DEF CompensatedLeavesNothing, With, ResultTellsStore, PcInv
  <2>7. QED
    BY <2>1, <2>2, <2>3, <2>4, <2>5, <2>6
<1>9. CASE ActionFails
  <2> USE <1>9 DEF ActionFails, FailStep, Act, Goto, services
  <2>1. TypeOK'
    <3>1. i \in Steps
      BY DEF PcInv
    <3>2. effect' \subseteq Steps /\ inflight' \subseteq Steps
      BY <3>1
    <3>3. status' \in [Steps -> {"none", "COMMITTED", "FAILED", "COMPENSATED"}]
      BY <3>1
    <3>4. QED
      BY <3>2, <3>3 DEF TypeOK
  <2>2. (CompletedInv /\ PcInv)'
    BY DEF CompletedInv, PcInv
  <2>3. (PendingInv /\ InflightInv /\ StoreTellsForward)'
    BY DEF PendingInv, InflightInv, StoreTellsForward, With, PcInv
  <2>4. RunningInv'
    <3>1. \A s \in Steps : s # i => status'[s] = status[s]
      BY DEF PcInv
    <3>2. \A s \in effect' : s \in effect \/ s = i
      BY DEF PcInv
    <3>3. i > Len(completed) /\ status'[i] = "FAILED"
      BY DEF PcInv
    <3>4. CallFaults = {} => effect' = effect
      OBVIOUS
    <3>5. QED
      BY <3>1, <3>2, <3>3, <3>4 DEF PcInv, RunningInv
  <2>5. CompensateInv'
    BY DEF CompensateInv
  <2>6. (CompensatedLeavesNothing /\ ResultTellsStore)'
    BY DEF CompensatedLeavesNothing, With, ResultTellsStore, PcInv
  <2>7. QED
    BY <2>1, <2>2, <2>3, <2>4, <2>5, <2>6
<1>10. CASE StepContextDone
  <2> USE <1>10 DEF StepContextDone, FailStep, Goto, services
  <2>1. TypeOK'
    BY DEF TypeOK, PcInv
  <2>2. (CompletedInv /\ PcInv)'
    BY DEF CompletedInv, PcInv
  <2>3. (PendingInv /\ InflightInv /\ StoreTellsForward)'
    BY DEF PendingInv, InflightInv, StoreTellsForward, With, PcInv
  <2>4. RunningInv'
    BY DEF RunningInv, PcInv
  <2>5. CompensateInv'
    BY DEF CompensateInv
  <2>6. (CompensatedLeavesNothing /\ ResultTellsStore)'
    BY DEF CompensatedLeavesNothing, With, ResultTellsStore, PcInv
  <2>7. QED
    BY <2>1, <2>2, <2>3, <2>4, <2>5, <2>6
<1>11. CASE CompensateSucceeds
  <2> USE <1>11 DEF CompensateSucceeds, Undo
  <2>1. completed[i] = i /\ i \in Steps
    BY DEF CompletedInv, PcInv, Steps
  <2>2. TypeOK'
    <3>1. effect' \subseteq Steps /\ i' \in 0..(N + 1)
      BY <2>1 DEF Steps
    <3>2. status' \in [Steps -> {"none", "COMMITTED", "FAILED", "COMPENSATED"}]
      BY <2>1
    <3>3. attempt' \in Nat /\ lastErr' \in BOOLEAN
      BY DEF TypeOK
    <3>4. QED
      BY <3>1, <3>2, <3>3 DEF TypeOK
  <2>3. (CompletedInv /\ PcInv)'
    BY <2>1 DEF CompletedInv, PcInv
  <2>4. (PendingInv /\ InflightInv /\ StoreTellsForward)'
    BY DEF PendingInv, InflightInv, StoreTellsForward, With, PcInv
  <2>5. RunningInv'
    BY DEF RunningInv, PcInv
  <2>6. CompensateInv'
    <3>1. \A s \in Steps : s # i => status'[s] = status[s]
      BY <2>1
    <3>2. status'[i] = "COMPENSATED" /\ i' = i - 1
      BY <2>1
    <3>3. \A s \in Steps : s <= i - 1 <=> s <= i /\ s # i
      BY <2>1
    <3>4. effect' \subseteq effect
      OBVIOUS
    <3>5. i \notin effect'
      BY <2>1
    <3>6. QED
      BY <2>1, <3>1, <3>2, <3>3, <3>4, <3>5 DEF CompensateInv
  <2>7. (CompensatedLeavesNothing /\ ResultTellsStore)'
    BY DEF CompensatedLeavesNothing, With, ResultTellsStore, PcInv
  <2>8. QED
    BY <2>2, <2>3, <2>4, <2>5, <2>6, <2>7
<1>12. CASE RetryCompensate
  <2> USE <1>12 DEF RetryCompensate, Undo
  <2>1. completed[i] = i /\ i \in Steps
    BY DEF CompletedInv, PcInv, Steps
  <2>2. TypeOK'
    <3>1. effect' \subseteq Steps /\ i' \in 0..(N + 1)
      BY <2>1 DEF Steps
    <3>2. status' \in [Steps -> {"none", "COMMITTED", "FAILED", "COMPENSATED"}]
      BY <2>1
    <3>3. attempt' \in Nat /\ lastErr' \in BOOLEAN
      BY DEF TypeOK
    <3>4. QED
      BY <3>1, <3>2, <3>3 DEF TypeOK
  <2>3. (CompletedInv /\ PcInv)'
    BY <2>1 DEF CompletedInv, PcInv
  <2>4. (PendingInv /\ InflightInv /\ StoreTellsForward)'
    BY DEF PendingInv, InflightInv, StoreTellsForward, With, PcInv
  <2>5. RunningInv'
    BY DEF RunningInv, PcInv
  <2>6. CompensateInv'
    BY <2>1 DEF CompensateInv
  <2>7. (CompensatedLeavesNothing /\ ResultTellsStore)'
    BY DEF CompensatedLeavesNothing, With, ResultTellsStore, PcInv
  <2>8. QED
    BY <2>2, <2>3, <2>4, <2>5, <2>6, <2>7
<1>13. CASE CompensateFails
  <2> USE <1>13 DEF CompensateFails, Undo
  <2>1. completed[i] = i /\ i \in Steps
    BY DEF CompletedInv, PcInv, Steps
  <2>2. TypeOK'
    <3>1. effect' \subseteq Steps /\ i' \in 0..(N + 1)
      BY <2>1 DEF Steps
    <3>2. status' \in [Steps -> {"none", "COMMITTED", "FAILED", "COMPENSATED"}]
      BY <2>1
    <3>3. attempt' \in Nat /\ lastErr' \in BOOLEAN
      BY DEF TypeOK
    <3>4. QED
      BY <3>1, <3>2, <3>3 DEF TypeOK
  <2>3. (CompletedInv /\ PcInv)'
    BY <2>1 DEF CompletedInv, PcInv
  <2>4. (PendingInv /\ InflightInv /\ StoreTellsForward)'
    BY DEF PendingInv, InflightInv, StoreTellsForward, With, PcInv
  <2>5. RunningInv'
    BY DEF RunningInv, PcInv
  <2>6. CompensateInv'
    <3>1. \A s \in Steps : s # i => status'[s] = status[s]
      BY <2>1
    <3>2. status'[i] = "FAILED" /\ i' = i - 1
      BY <2>1
    <3>3. \A s \in Steps : s <= i - 1 <=> s <= i /\ s # i
      BY <2>1
    <3>4. effect' \subseteq effect
      OBVIOUS
    <3>5. lastErr'
      BY <2>1
    <3>6. QED
      BY <2>1, <3>1, <3>2, <3>3, <3>4, <3>5 DEF CompensateInv
  <2>7. (CompensatedLeavesNothing /\ ResultTellsStore)'
    BY DEF CompensatedLeavesNothing, With, ResultTellsStore, PcInv
  <2>8. QED
    BY <2>2, <2>3, <2>4, <2>5, <2>6, <2>7
<1>14. CASE Crash
  <2> USE <1>14 DEF Crash, Over, locals
  <2>1. TypeOK'
    BY DEF TypeOK, PcInv
  <2>2. (CompletedInv /\ PcInv)'
    BY DEF CompletedInv, PcInv
  <2>3. (PendingInv /\ InflightInv /\ StoreTellsForward)'
    BY DEF PendingInv, InflightInv, StoreTellsForward, With, PcInv
  <2>4. (RunningInv /\ CompensateInv)'
    BY DEF RunningInv, CompensateInv
  <2>5. (CompensatedLeavesNothing /\ ResultTellsStore)'
    BY DEF CompensatedLeavesNothing, With, ResultTellsStore, PcInv
  <2>6. QED
    BY <2>1, <2>2, <2>3, <2>4, <2>5
<1>15. CASE Reexecute
  <2> USE <1>15 DEF Reexecute, Over, locals, services
  <2>1. TypeOK'
    BY DEF TypeOK
  <2>2. (CompletedInv /\ PcInv)'
    BY DEF CompletedInv, PcInv
  <2>3. (PendingInv /\ InflightInv /\ StoreTellsForward)'
    BY DEF PendingInv, InflightInv, StoreTellsForward, With
  <2>4. (RunningInv /\ CompensateInv)'
    BY DEF RunningInv, CompensateInv
  <2>5. (CompensatedLeavesNothing /\ ResultTellsStore)'
    BY DEF CompensatedLeavesNothing, With, ResultTellsStore
  <2>6. QED
    BY <2>1, <2>2, <2>3, <2>4, <2>5
<1>16. CASE \E s \in Steps : Land(s)
  <2>1. PICK s \in Steps : Land(s)
    BY <1>16
  <2> USE <2>1 DEF Land, locals
  <2>2. TypeOK'
    BY DEF TypeOK
  <2>3. (CompletedInv /\ PcInv)'
    BY DEF CompletedInv, PcInv
  <2>4. (PendingInv /\ InflightInv /\ StoreTellsForward)'
    BY DEF PendingInv, InflightInv, StoreTellsForward, With
  <2>5. effect' = effect \cup {s} /\ s \in inflight /\ CallFaults # {}
    BY DEF InflightInv
  <2>6. RunningInv'
    BY <2>5 DEF RunningInv
  <2>7. CompensateInv'
    BY <2>5 DEF CompensateInv
  <2>8. (CompensatedLeavesNothing /\ ResultTellsStore)'
    BY <2>5 DEF CompensatedLeavesNothing, With, ResultTellsStore
  <2>9. QED
    BY <2>2, <2>3, <2>4, <2>6, <2>7, <2>8
<1>17. CASE UNCHANGED vars
  BY <1>17
     DEF vars, TypeOK, CompletedInv, PcInv, PendingInv, RunningInv,
         CompensateInv,
         InflightInv, StoreTellsForward, CompensatedLeavesNothing,
         ResultTellsStore, With
<1>18. QED
  BY <1>1, <1>2, <1>3, <1>4, <1>5, <1>6, <1>7, <1>8, <1>9, <1>10, <1>11,
     <1>12, <1>13, <1>14, <1>15, <1>16, <1>17 DEF Next, Execute, Terminated

THEOREM Invariance == Spec => []IInv
<1>1. IInv /\ [Next]_vars => IInv'
  BY NextIInv
<1>2. QED
  BY InitIInv, <1>1, PTL DEF Spec

------------------------------------------------------------------------------
(***************************************************************************)
(* The theorems.                                                           *)
(***************************************************************************)

\* Every variable has its type: the executor never indexes the steps, or the
\* statuses, out of range.
THEOREM TypeCorrect == Spec => []TypeOK
  BY Invariance, PTL DEF IInv

\* The stored state alone tells what the services may hold after a crash.
THEOREM StoreTells == Spec => []StoreTellsForward
  BY Invariance, PTL DEF IInv

\* A stored COMPENSATED means that every step that had succeeded was undone.
THEOREM CompensatedIsClean == Spec => []CompensatedLeavesNothing
  BY Invariance, PTL DEF IInv

\* What Execute returns is true of the store.
THEOREM ResultIsTrue == Spec => []ResultTellsStore
  BY Invariance, PTL DEF IInv

\* The services are called only in a phase that is already on record.
THEOREM PhaseIsOnRecord == Spec => RecordBeforeCall
<1> DEFINE A == /\ effect' \ effect \subseteq inflight \/ store = "RUNNING"
                /\ effect \ effect' = {} \/ store = "COMPENSATING"
<1>1. ASSUME IInv, [Next]_vars PROVE [A]_vars
  <2> USE <1>1 DEF IInv, PcInv
  <2>1. CASE UNCHANGED services
    BY <2>1 DEF services
  <2>2. CASE ActionSucceeds \/ RetryAction \/ ActionFails
    BY <2>2 DEF ActionSucceeds, RetryAction, ActionFails, Act, services
  <2>3. CASE CompensateSucceeds \/ RetryCompensate \/ CompensateFails
    BY <2>3 DEF CompensateSucceeds, RetryCompensate, CompensateFails, Undo
  <2>4. CASE Crash
    BY <2>4 DEF Crash
  <2>5. CASE \E s \in Steps : Land(s)
    BY <2>5 DEF Land
  <2>6. QED
    BY <2>1, <2>2, <2>3, <2>4, <2>5
       DEF Next, Execute, Terminated, Begin, RejectBegin, StepContextDone,
           Commit,
           BeginCompensate, Suspend, EndCompensate, Reexecute, services, vars
<1>2. QED
  BY Invariance, <1>1, PTL DEF Spec, RecordBeforeCall

------------------------------------------------------------------------------
(***************************************************************************)
(* The executor implements CompensationStack.                              *)
(***************************************************************************)

LEMMA StackInit == Init => Stack!Init
  BY DEF Init, Stack!Init, StackPhase, With, Steps

LEMMA StackStep ==
    ASSUME IInv, [Next]_vars
    PROVE  [Stack!Next]_(Stack!stackVars)
<1> USE SagaAssumption, Types DEF IInv
<1> USE DEF Stack!stackVars, StackPhase
<1>1. ASSUME UNCHANGED <<store, status, lastErr>>
      PROVE  UNCHANGED Stack!stackVars
  BY <1>1 DEF With
<1>2. CASE Begin
  <2>1. PICK err \in BOOLEAN : Advance("SAGA", "RUNNING", err)
    BY <1>2 DEF Begin
  <2>2. store = "PENDING" /\ store' \in {"PENDING", "RUNNING"}
    <3>1. state = store
      BY <1>2 DEF Begin, PcInv
    <3>2. QED
      BY <2>1, <3>1, AdvanceTells, SagaMoves
  <2>3. ~lastErr /\ ~lastErr' /\ status' = status
    BY <1>2, <2>2 DEF Begin, PendingInv
  <2>4. QED
    BY <2>2, <2>3 DEF With, TypeOK
<1>3. CASE ActionSucceeds
  <2>1. /\ pc = "action" /\ store = "RUNNING"
        /\ store' = store /\ lastErr' = lastErr
        /\ status' = [status EXCEPT ![i] = "COMMITTED"]
        /\ i \in Steps /\ i = Len(completed) + 1
    BY <1>3 DEF ActionSucceeds, PcInv
  <2>2. With("COMMITTED") = 1..(i - 1)
    <3>1. \A s \in Steps : s <= i - 1 <=> status[s] = "COMMITTED"
      BY <2>1 DEF RunningInv
    <3>2. \A s \in Steps : s <= i - 1 <=> s \in 1..(i - 1)
      BY <2>1 DEF Steps
    <3>3. 1..(i - 1) \subseteq Steps
      BY <2>1 DEF Steps
    <3>4. QED
      BY <3>1, <3>2, <3>3 DEF With
  <2>3. With("COMMITTED")' = 1..i
    BY <2>1, <2>2 DEF With, Steps
  <2>4. Stack!Push(i)
    BY <2>1, <2>2, <2>3 DEF Stack!Push
  <2>5. QED
    BY <2>1, <2>4 DEF Stack!Next, Steps
<1>4. CASE ActionFails \/ StepContextDone
  <2>1. /\ store = "RUNNING" /\ store' = store /\ lastErr' = lastErr
        /\ status' = [status EXCEPT ![i] = "FAILED"]
        /\ i \in Steps /\ i = Len(completed) + 1
    BY <1>4 DEF ActionFails, StepContextDone, FailStep, PcInv
  <2>2. With("COMMITTED")' = With("COMMITTED")
    <3>1. i > Len(completed)
      BY <2>1
    <3>2. status[i] # "COMMITTED"
      BY <2>1, <3>1 DEF RunningInv
    <3>3. QED
      BY <2>1, <3>2 DEF With
  <2>3. QED
    BY <2>1, <2>2
<1>5. CASE Commit
  <2>1. PICK err \in BOOLEAN : Advance("SAGA", "COMMITTED", err)
    BY <1>5 DEF Commit
  <2>2. store = "RUNNING" /\ store' \in {"RUNNING", "COMMITTED"}
    BY <1>5, <2>1, AdvanceTells, SagaMoves DEF Commit, PcInv
  <2>3. status' = status /\ lastErr' = lastErr
    BY <1>5 DEF Commit, locals
  <2>4. With("COMMITTED") = 1..N
    BY <1>5, <2>2 DEF Commit, PcInv, RunningInv, With, Steps
  <2>5. CASE store' = "COMMITTED"
    <3>1. Stack!Commit
      BY <2>2, <2>3, <2>4, <2>5 DEF Stack!Commit, With
    <3>2. QED
      BY <3>1 DEF Stack!Next
  <2>6. QED
    BY <1>1, <2>2, <2>3, <2>5
<1>6. CASE BeginCompensate
  <2>1. PICK err \in BOOLEAN : Advance("SAGA", "COMPENSATING", err)
    BY <1>6 DEF BeginCompensate
  <2>2. /\ store = "RUNNING" /\ store' \in {"RUNNING", "COMPENSATING"}
        /\ i \in Steps /\ status[i] = "FAILED"
    BY <1>6, <2>1, AdvanceTells, SagaMoves DEF BeginCompensate, PcInv
  <2>3. status' = status /\ lastErr' = lastErr
    BY <1>6, <2>2 DEF BeginCompensate, RunningInv, TypeOK
  <2>4. With("COMMITTED") # 1..N
    BY <2>2 DEF With, Steps
  <2>5. CASE store' = "COMPENSATING"
    <3>1. Stack!TurnBack
      BY <2>2, <2>3, <2>4, <2>5 DEF Stack!TurnBack, With
    <3>2. QED
      BY <3>1 DEF Stack!Next
  <2>6. QED
    BY <1>1, <2>2, <2>3, <2>5
<1>7. CASE CompensateSucceeds \/ CompensateFails
  <2>1. /\ pc = "compensate" /\ store = "COMPENSATING" /\ store' = store
        /\ i > 0 /\ i <= Len(completed)
    BY <1>7 DEF CompensateSucceeds, CompensateFails, PcInv
  <2>0. completed[i] = i /\ i \in Steps
    BY <2>1 DEF CompletedInv, Steps
  <2>2. /\ \A s \in Steps : s # i => status'[s] = status[s]
        /\ status'[i] # "COMMITTED"
        /\ lastErr' \in {lastErr, TRUE}
    BY <1>7, <2>0 DEF CompensateSucceeds, CompensateFails
  <2>3. With("COMMITTED")' = With("COMMITTED") \ {i}
    BY <2>2 DEF With
  <2>4. i \in With("COMMITTED") /\ \A t \in With("COMMITTED") : t <= i
    BY <2>0, <2>1 DEF CompensateInv, With
  <2>5. (~lastErr)' \in {~lastErr, FALSE}
    <3>1. CASE lastErr' = lastErr
      BY <3>1
    <3>2. CASE lastErr' = TRUE
      BY <3>2
    <3>3. QED
      BY <2>2, <3>1, <3>2
  <2>6. Stack!Pop(i)
    BY <2>0, <2>1, <2>3, <2>4, <2>5 DEF Stack!Pop
  <2>7. QED
    BY <2>0, <2>6 DEF Stack!Next, Steps
<1>8. CASE Suspend \/ EndCompensate
  <2>1. /\ pc = "compensate" /\ store = "COMPENSATING" /\ i = 0
        /\ status' = status /\ lastErr' = lastErr
    BY <1>8 DEF Suspend, EndCompensate, locals, PcInv
  <2>2. \/ store' = store
        \/ store' = "SUSPENDED" /\ lastErr
        \/ store' = "COMPENSATED" /\ ~lastErr
    <3>1. CASE Suspend
      BY <2>1, <3>1, AdvanceTells DEF Suspend, PcInv
    <3>2. CASE EndCompensate
      BY <2>1, <3>2, AdvanceTells DEF EndCompensate, PcInv
    <3>3. QED
      BY <1>8, <3>1, <3>2
  <2>3. With("COMMITTED") = {}
    BY <2>1 DEF CompensateInv, With
  <2>4. CASE store' # store
    <3>1. Stack!Finish
      BY <2>1, <2>2, <2>3, <2>4 DEF Stack!Finish, With
    <3>2. QED
      BY <3>1 DEF Stack!Next
  <2>5. QED
    BY <1>1, <2>1, <2>4
<1>9. QED
  BY <1>1, <1>2, <1>3, <1>4, <1>5, <1>6, <1>7, <1>8
     DEF Next, Execute, RejectBegin, RetryAction, RetryCompensate, Crash,
         Reexecute,
         Land, Terminated, locals, vars

\* The executor, with its retries, its failing store and its crashes, does what
\* the saga pattern promises.
THEOREM ImplementsStack == Spec => StackSpec
<1>1. IInv /\ [Next]_vars => [Stack!Next]_(Stack!stackVars)
  BY StackStep
<1>2. QED
  BY Invariance, StackInit, <1>1, PTL DEF Spec, StackSpec, Stack!Spec
------------------------------------------------------------------------------
(***************************************************************************)
(* The contract of an executor, which modules that keep of it only its     *)
(* moves rely on.                                                          *)
(***************************************************************************)

Move ==
    \/ store' = store /\ state' \in {state, store}
    \/ /\ store = state
       /\ <<state, state'>> \in ExecutorMoves("SAGA")
       /\ store' \in {store, state'}

\* The moves of an executor among those of its table.
LEMMA Listed ==
    ASSUME NEW a, NEW b, CanTransition("SAGA", a, b), b # "FAILED",
           <<a, b>> # <<"PREPARED", "ABORTING">>,
           b = "SUSPENDED" => a \in {"COMPENSATING"}
    PROVE  <<a, b>> \in ExecutorMoves("SAGA")
<1>1. a \in {"COMPENSATING"} => IsRecoverable(a)
  <2>1. /\ Len(recoverableStates) = 6
        /\ recoverableStates[2] = "COMPENSATING"
    BY DEF recoverableStates
  <2>2. QED
    BY <2>1 DEF IsRecoverable
<1>2. QED
  BY <1>1 DEF ExecutorMoves, CanTransition

LEMMA EveryMove ==
    ASSUME IInv, [Next]_vars
    PROVE  Move
<1>1. ASSUME NEW target, NEW err \in BOOLEAN, state = store,
             Advance("SAGA", target, err), target # "FAILED",
             <<state, target>> # <<"PREPARED", "ABORTING">>,
             target = "SUSPENDED" => state \in {"COMPENSATING"}
      PROVE  Move
  <2>1. /\ CanTransition("SAGA", state, target)
        /\ state' = target /\ store' \in {store, target}
    BY <1>1, AdvanceTells
  <2>2. QED
    BY <1>1, <2>1, Listed DEF Move
<1>2. CASE UNCHANGED <<state, store>> \/ Reexecute
  BY <1>2 DEF Move, Reexecute
<1>3. CASE Begin \/ Commit \/ BeginCompensate \/ Suspend \/ EndCompensate
  <2>1. CASE Begin
    BY <2>1, <1>1 DEF Begin, PcInv, IInv
  <2>2. CASE Commit
    BY <2>2, <1>1 DEF Commit, PcInv, IInv
  <2>3. CASE BeginCompensate
    BY <2>3, <1>1 DEF BeginCompensate, PcInv, IInv
  <2>4. CASE Suspend
    BY <2>4, <1>1 DEF Suspend, PcInv, IInv
  <2>5. CASE EndCompensate
    BY <2>5, <1>1 DEF EndCompensate, PcInv, IInv
  <2>6. QED
    BY <1>3, <2>1, <2>2, <2>3, <2>4, <2>5
<1>4. QED
  BY <1>2, <1>3 DEF Next, Execute, Terminated, RejectBegin,
         ActionSucceeds, RetryAction, ActionFails, StepContextDone, FailStep,
         CompensateSucceeds, RetryCompensate, CompensateFails, Crash, Land, vars

\* The store moves only as listed in ExecutorMoves, and memory is at most one
\* legal move ahead of it, crashes and store failures included.
THEOREM ExecutorContract ==
    Spec => /\ []MemoryLeads("SAGA")
            /\ [][\/ store' = store
                  \/ <<store, store'>> \in ExecutorMoves("SAGA")]_vars
<1>1. Init => MemoryLeads("SAGA")
  BY DEF Init, MemoryLeads
<1>2. ASSUME IInv, [Next]_vars, MemoryLeads("SAGA")
      PROVE  MemoryLeads("SAGA")'
  BY <1>2, EveryMove DEF Move, MemoryLeads, ExecutorMoves, CanTransition
<1>3. ASSUME IInv, [Next]_vars
      PROVE  [\/ store' = store
              \/ <<store, store'>> \in ExecutorMoves("SAGA")]_vars
  BY <1>3, EveryMove DEF Move
<1>4. QED
  BY Invariance, <1>1, <1>2, <1>3, PTL DEF Spec

------------------------------------------------------------------------------
(***************************************************************************)
(* The executor implements TxExecution.  Its callers see the state of the  *)
(* transaction and of the store, whether Execute has returned and with or  *)
(* without an error, and whether this is the first call.                   *)
(***************************************************************************)
Returned ==
    IF result = "none" THEN "none"
    ELSE IF result = "committed" THEN "ok" ELSE "error"

Execution ==
    INSTANCE TxExecution WITH
        Mode <- "SAGA", outcome <- Returned, again <- executions > 1

\* The first call is given a new transaction.
FirstInv == pc = "begin" /\ executions = 1 => state = "PENDING"

\* There has been a call.
LEMMA ExecutionsCount ==
    ASSUME TypeOK
    PROVE  executions \in Nat /\ executions >= 1
<1>1. executions \in 1..MaxExecutions /\ MaxExecutions \in Nat
  BY SagaAssumption DEF TypeOK
<1>2. QED
  BY <1>1

\* What a call finds that is not PENDING was loaded from the store.
LEMMA FirstCall ==
    Spec => []FirstInv
<1>1. Init => FirstInv
  BY DEF Init, FirstInv
<1>2. ASSUME IInv, FirstInv, [Next]_vars
      PROVE  FirstInv'
  <2>1. CASE Reexecute
    <3>1. executions \in Nat /\ executions >= 1
      BY <1>2, ExecutionsCount DEF IInv
    <3>2. executions' # 1
      BY <2>1, <3>1 DEF Reexecute
    <3>3. QED
      BY <3>2 DEF FirstInv
  <2>2. CASE /\ pc' # "begin" \/ (pc' = pc /\ state' = state)
             /\ executions' = executions
    BY <2>2, <1>2 DEF FirstInv
  <2>3. CASE Execute
    <3>1. CASE \/ Begin \/ RejectBegin \/ ActionSucceeds \/ ActionFails
               \/ StepContextDone \/ Commit \/ BeginCompensate \/ Suspend
               \/ EndCompensate
      <4>1. pc' # "begin"
        BY <3>1 DEF Begin, RejectBegin, ActionSucceeds, ActionFails,
                    StepContextDone, Commit, BeginCompensate, Suspend,
                    EndCompensate, FailStep, Loop, Goto, Return
      <4>2. QED
        BY <4>1 DEF FirstInv
    <3>2. CASE \/ RetryAction \/ CompensateSucceeds \/ RetryCompensate
               \/ CompensateFails
      BY <3>2, <2>2 DEF RetryAction, CompensateSucceeds, RetryCompensate,
                        CompensateFails
    <3>3. QED
      BY <2>3, <3>1, <3>2 DEF Execute
  <2>4. QED
    BY <1>2, <2>1, <2>2, <2>3
       DEF Next, Crash, Land, Terminated, vars
<1>3. QED
  BY Invariance, <1>1, <1>2, PTL DEF Spec

\* An advance whose error is returned is a Move of TxExecution.
LEMMA AdvanceIsMove ==
    ASSUME NEW target \in TxStates, NEW err \in BOOLEAN,
           target # "FAILED",
           <<state, target>> # <<"PREPARED", "ABORTING">>,
           target = "SUSPENDED" => state \in {"COMPENSATING"},
           Advance("SAGA", target, err), UNCHANGED executions,
           Returned = "none", Returned' = Execution!OutcomeOf(target, err)
    PROVE  Execution!Move
<1>1. <<state, target>> \in ExecutorMoves("SAGA")
  BY Listed DEF Advance
<1>2. <<state, target>> \in Execution!ExecutorMoves("SAGA")
  BY <1>1 DEF ExecutorMoves, Execution!ExecutorMoves, getTransitions,
         Execution!getTransitions, sagaTransitions, Execution!sagaTransitions,
         IsRecoverable, Execution!IsRecoverable, recoverableStates,
         Execution!recoverableStates
<1>3. Execution!Advance("SAGA", target, err)
  BY DEF Advance, Execution!Advance, UpdateTransactionState,
         Execution!UpdateTransactionState, CanTransition,
         Execution!CanTransition, getTransitions, Execution!getTransitions,
         sagaTransitions, Execution!sagaTransitions
<1>4. target \in Execution!TxStates
  BY DEF TxStates, Execution!TxStates
<1>5. QED
  BY <1>2, <1>3, <1>4 DEF Execution!Move

\* Each action is a Move, a GiveUp or a Reload, or a step that the callers do
\* not see.
LEMMA EveryStep ==
    ASSUME IInv, FirstInv, [Next]_vars
    PROVE  [Execution!Next]_(Execution!execution)
<1>1. executions \in Nat /\ executions >= 1
  BY ExecutionsCount DEF IInv
<1>2. pc # "returned" => Returned = "none"
  BY DEF IInv, PcInv, Returned
<1> DEFINE Out(target, err) == Execution!OutcomeOf(target, err)
<1>3. ASSUME NEW err \in BOOLEAN
      PROVE  /\ Out("RUNNING", err) = IF err THEN "error" ELSE "none"
             /\ Out("COMMITTED", err) = IF err THEN "error" ELSE "ok"
             /\ Out("COMPENSATING", err) = IF err THEN "error" ELSE "none"
             /\ Out("COMPENSATED", err) = "error"
             /\ Out("SUSPENDED", err) = "error"
  BY DEF Execution!OutcomeOf, Execution!IsFinal, Execution!FinalStates
<1> HIDE DEF Out
<1>4. ASSUME NEW target \in {"RUNNING", "COMMITTED", "COMPENSATING",
                             "COMPENSATED", "SUSPENDED"},
             NEW err \in BOOLEAN, Advance("SAGA", target, err),
             target = "SUSPENDED" => state \in {"COMPENSATING"},
             pc # "returned", UNCHANGED executions,
             Returned' = Out(target, err)
      PROVE  Execution!Next
  <2>1. /\ target \in TxStates /\ target # "FAILED"
        /\ <<state, target>> # <<"PREPARED", "ABORTING">>
    BY <1>4, Names
  <2>2. Returned' = Execution!OutcomeOf(target, err)
    BY <1>4 DEF Out
  <2>3. QED
    BY <1>2, <1>4, <2>1, <2>2, AdvanceIsMove DEF Execution!Next
<1>5. CASE Begin
  <2>1. PICK err \in BOOLEAN :
            /\ Advance("SAGA", "RUNNING", err)
            /\ IF err THEN Return("adapter_error") ELSE Loop(1)
    BY <1>5 DEF Begin
  <2>2. pc # "returned" /\ UNCHANGED executions
    BY <1>5 DEF Begin
  <2>3. Returned' = Out("RUNNING", err)
    BY <1>2, <1>3, <2>1, <2>2 DEF Return, Goto, Returned, Loop
  <2>4. QED
    BY <1>4, <2>1, <2>2, <2>3
<1>6. CASE Commit
  <2>1. PICK err \in BOOLEAN :
            /\ Advance("SAGA", "COMMITTED", err)
            /\ Return(IF err THEN "adapter_error" ELSE "committed")
    BY <1>6 DEF Commit
  <2>2. pc # "returned" /\ UNCHANGED executions
    BY <1>6 DEF Commit
  <2>3. Returned' = Out("COMMITTED", err)
    BY <1>3, <2>1 DEF Return, Returned
  <2>4. QED
    BY <1>4, <2>1, <2>2, <2>3
<1>7. CASE BeginCompensate
  <2>1. PICK err \in BOOLEAN :
            /\ Advance("SAGA", "COMPENSATING", err)
            /\ IF err THEN Return("compensation_failed") ELSE Goto("compensate")
    BY <1>7 DEF BeginCompensate
  <2>2. pc # "returned" /\ UNCHANGED executions
    BY <1>7 DEF BeginCompensate
  <2>3. Returned' = Out("COMPENSATING", err)
    BY <1>2, <1>3, <2>1, <2>2 DEF Return, Goto, Returned
  <2>4. QED
    BY <1>4, <2>1, <2>2, <2>3
<1>8. CASE EndCompensate
  <2>1. PICK err \in BOOLEAN :
            /\ Advance("SAGA", "COMPENSATED", err)
            /\ Return(IF err THEN "compensation_failed" ELSE "compensated")
    BY <1>8 DEF EndCompensate
  <2>2. pc # "returned" /\ UNCHANGED executions
    BY <1>8 DEF EndCompensate
  <2>3. Returned' = Out("COMPENSATED", err)
    BY <1>3, <2>1 DEF Return, Returned
  <2>4. QED
    BY <1>4, <2>1, <2>2, <2>3
<1>9. CASE Suspend
  <2>1. PICK err \in BOOLEAN : Advance("SAGA", "SUSPENDED", err)
    BY <1>9 DEF Suspend
  <2>2. pc # "returned" /\ UNCHANGED executions
    BY <1>9 DEF Suspend
  <2>3. Returned' = Out("SUSPENDED", err)
    BY <1>3, <1>9, <2>1 DEF Suspend, Return, Returned
  <2>4. state \in {"COMPENSATING"}
    BY <1>9 DEF Suspend, IInv, PcInv
  <2>5. QED
    BY <1>4, <2>1, <2>2, <2>3, <2>4
<1>10. CASE RejectBegin
  <2>1. executions > 1 /\ state # "PENDING"
    BY <1>1, <1>10, SagaMoves DEF RejectBegin, FirstInv
  <2>2. Returned = "none" /\ Returned' = "error"
    BY <1>2, <1>10 DEF RejectBegin, Return, Returned
  <2>3. QED
    BY <1>10, <2>1, <2>2 DEF RejectBegin, Execution!Next, Execution!GiveUp
<1>11. CASE Reexecute
  <2>1. executions' > 1
    BY <1>1, <1>11 DEF Reexecute
  <2>2. QED
    BY <1>11, <2>1
       DEF Reexecute, Returned, Execution!Next, Execution!Reload
<1>12. CASE UNCHANGED <<state, store, result, executions>>
  BY <1>12 DEF Returned, Execution!execution
<1>13. CASE Execute
  BY <1>13, <1>5, <1>6, <1>7, <1>8, <1>9, <1>10, <1>12
     DEF Execute, ActionSucceeds, ActionFails, StepContextDone, RetryAction,
         CompensateSucceeds, RetryCompensate, CompensateFails, FailStep, Loop,
         Goto
<1>14. QED
  BY <1>11, <1>12, <1>13
     DEF Next, Crash, Land, Terminated, vars

\* The executor implements TxExecution: whatever its steps, its retries and its
\* store do, and wherever it crashes, a caller sees no other steps.
THEOREM ImplementsExecution ==
    Spec => Execution!Spec
<1>1. Init => Execution!Init
  BY DEF Init, Returned, Execution!Init
<1>2. ASSUME IInv, FirstInv, [Next]_vars
      PROVE  [Execution!Next]_(Execution!execution)
  BY <1>2, EveryStep
<1>3. QED
  BY Invariance, FirstCall, <1>1, <1>2, PTL DEF Spec, Execution!Spec
------------------------------------------------------------------------------
(***************************************************************************)
(* SagaRecovery: what the executor and the recovery handler of one saga do *)
(* to each other.                                                          *)
(*                                                                         *)
(* The inductive invariant.  The executor and the store need not agree     *)
(* once the store is in a state that recovery loads; before that no        *)
(* handler is at work.  Each of the two has taken back the steps that are  *)
(* behind its index.                                                       *)
(***************************************************************************)
SagaStates == {"PENDING", "RUNNING", "COMMITTED", "COMPENSATING",
               "COMPENSATED", "SUSPENDED"}

RecoveryPcInv ==
    /\ pc = "begin" /\ state = "PENDING" => store = "PENDING"
    /\ pc \in {"action", "commit", "turn"} =>
           state = "RUNNING" /\ store = "RUNNING"
    /\ pc \in {"action", "turn"} => i \in Steps /\ i = Len(completed) + 1
    /\ pc = "compensate" =>
           /\ state = "COMPENSATING" /\ i <= Len(completed)
           /\ store \in {"COMPENSATING", "COMPENSATED"}

\* The completed steps from k on have been taken back.
TakenBack(k) ==
    \A s \in effect : k <= s /\ s <= Len(completed) => s \in inflight

ExecutorInv == pc = "compensate" /\ ~lastErr => TakenBack(i + 1)

HandlerInv ==
    rpc # "scan" =>
        /\ store \in {"COMPENSATING", "SUSPENDED", "COMPENSATED"}
        /\ TakenBack(h + 1)

RInv ==
    /\ RecoveryTypeOK
    /\ store \in SagaStates
    /\ CompletedInv /\ RecoveryPcInv
    /\ ExecutorInv /\ HandlerInv
    /\ RecoveredIsClean

------------------------------------------------------------------------------
\* The stored states of a saga that recovery loads.
LEMMA LoadedStates ==
    ASSUME NEW s, IsRecoverable(s),
           s \in SagaStates
    PROVE  s \in {"COMPENSATING", "SUSPENDED"}
<1>1. /\ Len(recoverableStates) = 6
      /\ recoverableStates[1] = "SUSPENDED"
      /\ recoverableStates[2] = "COMPENSATING"
      /\ recoverableStates[3] = "CONFIRMING"
      /\ recoverableStates[4] = "CANCELING"
      /\ recoverableStates[5] = "COMMITTING"
      /\ recoverableStates[6] = "ABORTING"
  BY DEF recoverableStates
<1>2. QED
  BY <1>1 DEF IsRecoverable, SagaStates

\* What an update does to the store, whoever makes it.
LEMMA Updates ==
    ASSUME NEW target, NEW err \in BOOLEAN,
           UpdateTransactionState("SAGA", target, err)
    PROVE  /\ store' \in {store, target}
           /\ store' # store => CanTransition("SAGA", store, target)
           /\ ~err => store' = target /\ CanTransition("SAGA", store, target)
  BY DEF UpdateTransactionState


\* The states and results that the executor names are states and results.
LEMMA RecoveryNames ==
    /\ SagaStates \subseteq TxStates
    /\ Results = {"none", "rejected", "adapter_error", "committed",
                  "compensated", "compensation_failed"}
  BY DEF SagaStates, TxStates, Results

\* What typing says, with the sets of names left folded where only membership
\* of a variable matters.
LEMMA RecoveryTypes ==
    ASSUME RecoveryTypeOK
    PROVE  /\ i \in Nat /\ N \in Nat /\ h \in Nat /\ h <= N
           /\ completed \in Seq(Steps) /\ Len(completed) \in Nat
           /\ \A s \in Steps : s \in Nat /\ s >= 1 /\ s <= N
           /\ effect \subseteq Steps /\ inflight \subseteq Steps
           /\ \A s \in effect : s \in Nat
  BY SagaAssumption DEF RecoveryTypeOK, TypeOK, Steps

LEMMA InitRInv == RecoveryInit => RInv
<1> SUFFICES ASSUME RecoveryInit PROVE RInv
  OBVIOUS
<1> USE SagaAssumption DEF RecoveryInit, Init
<1>1. RecoveryTypeOK
  <2>1. /\ state \in TxStates /\ store \in TxStates /\ result \in Results
        /\ rpc = "scan" /\ h \in 0..N
    BY RecoveryNames DEF SagaStates
  <2>2. i \in 0..(N + 1) /\ executions \in 1..MaxExecutions /\ attempt \in Nat
    OBVIOUS
  <2>3. completed \in Seq(Steps)
    OBVIOUS
  <2>4. status \in [Steps -> {"none", "COMMITTED", "FAILED", "COMPENSATED"}]
    OBVIOUS
  <2>5. QED
    BY <2>1, <2>2, <2>3, <2>4 DEF RecoveryTypeOK, TypeOK
<1>2. CompletedInv /\ RecoveryPcInv /\ store \in SagaStates
  BY DEF CompletedInv, RecoveryPcInv, SagaStates
<1>3. ExecutorInv /\ HandlerInv /\ RecoveredIsClean
  BY DEF ExecutorInv, HandlerInv, RecoveredIsClean
<1>4. QED
  BY <1>1, <1>2, <1>3 DEF RInv

------------------------------------------------------------------------------
\* The steps of the executor, of its process and of the services.
LEMMA DriveKeeps ==
    ASSUME RInv, Drive
    PROVE  RInv'
<1> USE SagaAssumption, RecoveryNames, RecoveryTypes DEF RInv, Drive, recovery
<1>1. CASE Begin
  <2> USE <1>1 DEF Begin, Loop, Goto, Return, services
  <2>1. PICK err \in BOOLEAN :
              /\ Advance("SAGA", "RUNNING", err)
              /\ IF err THEN Return("adapter_error") ELSE Loop(1)
    OBVIOUS
  <2>2. /\ store = "PENDING" /\ state' = "RUNNING"
        /\ store' \in {"PENDING", "RUNNING"}
        /\ ~err => store' = "RUNNING"
    <3>1. state = "PENDING"
      BY <2>1, SagaMoves DEF Advance
    <3>2. QED
      BY <2>1, <3>1, Updates DEF Advance, RecoveryPcInv
  <2>3. RecoveryTypeOK'
    <3>1. pc' \in {"action", "commit", "returned"} /\ result' \in Results
      BY <2>1 DEF RecoveryTypeOK, TypeOK
    <3>2. i' \in 0..(N + 1) /\ completed' \in Seq(Steps)
      OBVIOUS
    <3>3. QED
      BY <2>2, <3>1, <3>2 DEF RecoveryTypeOK, TypeOK, SagaStates
  <2>4. (CompletedInv /\ RecoveryPcInv)' /\ store' \in SagaStates
    BY <2>1, <2>2 DEF CompletedInv, RecoveryPcInv, Steps, SagaStates
  <2>5. (ExecutorInv /\ HandlerInv /\ RecoveredIsClean)'
    BY <2>1, <2>2 DEF ExecutorInv, HandlerInv, RecoveredIsClean
  <2>6. QED
    BY <2>3, <2>4, <2>5
<1>2. CASE ActionSucceeds
  <2> USE <1>2 DEF ActionSucceeds, Loop, Goto
  <2>1. /\ store = "RUNNING" /\ state = "RUNNING" /\ i \in Steps
        /\ i = Len(completed) + 1
        /\ completed' = Append(completed, i) /\ completed' \in Seq(Steps)
        /\ Len(completed') = i
        /\ pc' \in {"action", "commit"} /\ i' = i + 1
    BY DEF RecoveryPcInv
  <2>2. effect' \subseteq Steps /\ inflight' \subseteq Steps
    BY <2>1 DEF Act, services
  <2>3. RecoveryTypeOK'
    <3>1. i' \in 0..(N + 1)
      BY <2>1 DEF Steps
    <3>2. status' \in [Steps -> {"none", "COMMITTED", "FAILED", "COMPENSATED"}]
      BY DEF RecoveryTypeOK, TypeOK
    <3>3. QED
      BY <2>1, <2>2, <3>1, <3>2 DEF RecoveryTypeOK, TypeOK
  <2>4. (CompletedInv /\ RecoveryPcInv)'
    BY <2>1 DEF CompletedInv, RecoveryPcInv, Steps
  <2>5. (ExecutorInv /\ HandlerInv /\ RecoveredIsClean)'
    BY <2>1 DEF ExecutorInv, HandlerInv, RecoveredIsClean
  <2>6. QED
    BY <2>1, <2>3, <2>4, <2>5
<1>3. CASE RetryAction \/ ActionFails \/ StepContextDone
  <2>1. /\ pc = "action" /\ pc' \in {"action", "turn"}
        /\ attempt' \in Nat
        /\ UNCHANGED <<state, store, i, completed, lastErr, result, executions>>
        /\ status' \in {status, [status EXCEPT ![i] = "FAILED"]}
    <3>1. CASE RetryAction
      BY <3>1 DEF RetryAction, RecoveryTypeOK, TypeOK
    <3>2. CASE ActionFails \/ StepContextDone
      <4>1. pc = "action" /\ FailStep
        BY <3>2 DEF ActionFails, StepContextDone
      <4>2. QED
        BY <4>1 DEF FailStep, Goto
    <3>3. QED
      BY <1>3, <3>1, <3>2
  <2>2. store = "RUNNING" /\ i \in Steps
    BY <2>1 DEF RecoveryPcInv
  <2>3. effect' \subseteq Steps /\ inflight' \subseteq Steps
    <3>1. CASE Act(i, TRUE)
      BY <2>2, <3>1 DEF Act, services
    <3>2. CASE UNCHANGED services
      BY <3>2 DEF services
    <3>3. QED
      BY <1>3, <3>1, <3>2 DEF RetryAction, ActionFails, StepContextDone
  <2>4. RecoveryTypeOK'
    BY <2>1, <2>2, <2>3 DEF RecoveryTypeOK, TypeOK
  <2>5. (CompletedInv /\ RecoveryPcInv)'
    BY <2>1, <2>2 DEF CompletedInv, RecoveryPcInv
  <2>6. (ExecutorInv /\ HandlerInv /\ RecoveredIsClean)'
    BY <2>1, <2>2 DEF ExecutorInv, HandlerInv, RecoveredIsClean
  <2>7. QED
    BY <2>1, <2>4, <2>5, <2>6
<1>4. CASE Commit
  <2> USE <1>4 DEF Commit, Return, locals, services
  <2>1. /\ store = "RUNNING" /\ state' = "COMMITTED" /\ pc' = "returned"
        /\ store' \in {"RUNNING", "COMMITTED"}
        /\ result' \in Results
    BY Updates DEF Advance, RecoveryPcInv
  <2>2. RecoveryTypeOK' /\ store' \in SagaStates
    BY <2>1 DEF RecoveryTypeOK, TypeOK, SagaStates
  <2>3. (CompletedInv /\ RecoveryPcInv)'
    BY <2>1 DEF CompletedInv, RecoveryPcInv
  <2>4. (ExecutorInv /\ HandlerInv /\ RecoveredIsClean)'
    BY <2>1 DEF ExecutorInv, HandlerInv, RecoveredIsClean
  <2>5. QED
    BY <2>2, <2>3, <2>4
<1>5. CASE BeginCompensate
  <2> USE <1>5 DEF BeginCompensate, Return, Goto, services
  <2>1. /\ store = "RUNNING" /\ state' = "COMPENSATING"
        /\ store' \in {"RUNNING", "COMPENSATING"}
        /\ pc' = "compensate" => store' = "COMPENSATING"
        /\ pc' \in {"returned", "compensate"} /\ result' \in Results
    BY Updates DEF Advance, RecoveryPcInv, RecoveryTypeOK, TypeOK
  <2>2. i' \in 0..(N + 1)
    BY DEF CompletedInv
  <2>3. RecoveryTypeOK' /\ store' \in SagaStates
    BY <2>1, <2>2 DEF RecoveryTypeOK, TypeOK, SagaStates
  <2>4. (CompletedInv /\ RecoveryPcInv)'
    BY <2>1 DEF CompletedInv, RecoveryPcInv
  <2>5. ExecutorInv'
    BY DEF ExecutorInv, TakenBack
  <2>6. (HandlerInv /\ RecoveredIsClean)'
    BY <2>1 DEF HandlerInv, RecoveredIsClean
  <2>7. QED
    BY <2>3, <2>4, <2>5, <2>6
<1>6. CASE CompensateSucceeds \/ RetryCompensate \/ CompensateFails
  <2>1. /\ pc = "compensate" /\ i > 0 /\ completed[i] = i /\ i <= Len(completed)
        /\ store \in {"COMPENSATING", "COMPENSATED"}
    <3>1. pc = "compensate" /\ i > 0
      BY <1>6 DEF CompensateSucceeds, RetryCompensate, CompensateFails
    <3>2. i <= Len(completed) /\ store \in {"COMPENSATING", "COMPENSATED"}
      BY <3>1 DEF RecoveryPcInv
    <3>3. completed[i] = i
      BY <3>1, <3>2 DEF CompletedInv
    <3>4. QED
      BY <3>1, <3>2, <3>3
  <2>2. i \in Steps
    BY <2>1 DEF CompletedInv, Steps
  <2>3. /\ UNCHANGED <<state, store, pc, completed, result, executions>>
        /\ effect' \subseteq effect /\ inflight' = inflight
        /\ attempt' \in Nat
        /\ status' \in [Steps -> {"none", "COMMITTED", "FAILED", "COMPENSATED"}]
        /\ \/ i' = i /\ lastErr' = lastErr
           \/ i' = i - 1 /\ lastErr' = TRUE
           \/ i' = i - 1 /\ lastErr' = lastErr /\ i \notin effect'
    <3>1. /\ attempt \in Nat
          /\ status \in [Steps -> {"none", "COMMITTED", "FAILED",
                                   "COMPENSATED"}]
      BY DEF RecoveryTypeOK, TypeOK
    <3>2. CASE CompensateSucceeds
      BY <2>1, <2>2, <3>1, <3>2 DEF CompensateSucceeds, Undo
    <3>3. CASE RetryCompensate
      BY <2>1, <2>2, <3>1, <3>3 DEF RetryCompensate, Undo
    <3>4. CASE CompensateFails
      BY <2>1, <2>2, <3>1, <3>4 DEF CompensateFails, Undo
    <3>5. QED
      BY <1>6, <3>2, <3>3, <3>4
  <2>4. RecoveryTypeOK'
    <3>1. i' \in 0..(N + 1)
      BY <2>2, <2>3 DEF Steps
    <3>2. lastErr' \in BOOLEAN
      BY <2>3 DEF RecoveryTypeOK, TypeOK
    <3>3. QED
      BY <2>3, <3>1, <3>2 DEF RecoveryTypeOK, TypeOK
  <2>5. (CompletedInv /\ RecoveryPcInv)'
    BY <2>1, <2>3 DEF CompletedInv, RecoveryPcInv
  <2>6. ExecutorInv'
    <3>1. CASE i' = i /\ lastErr' = lastErr
      BY <2>3, <3>1 DEF ExecutorInv, TakenBack
    <3>2. CASE i' = i - 1 /\ lastErr' = lastErr /\ i \notin effect'
      BY <2>1, <2>3, <3>2 DEF ExecutorInv, TakenBack
    <3>3. QED
      BY <2>3, <3>1, <3>2 DEF ExecutorInv
  <2>7. (HandlerInv /\ RecoveredIsClean)'
    BY <2>1, <2>3 DEF HandlerInv, RecoveredIsClean, TakenBack, Done
  <2>8. QED
    BY <2>3, <2>4, <2>5, <2>6, <2>7
<1>7. CASE Suspend \/ EndCompensate
  <2>1. /\ pc = "compensate" /\ i = 0 /\ pc' = "returned"
        /\ store \in {"COMPENSATING", "COMPENSATED"}
        /\ UNCHANGED <<locals, executions, services>>
        /\ result' \in Results
    BY <1>7 DEF Suspend, EndCompensate, RecoveryPcInv, Return
  <2>2. \/ /\ state' = "SUSPENDED" /\ store' \in {store, "SUSPENDED"}
           /\ store = "COMPENSATED" => store' = store
        \/ /\ state' = "COMPENSATED" /\ store' \in {store, "COMPENSATED"}
           /\ ~lastErr
    <3>1. CASE Suspend
      BY <3>1, <2>1, Updates, SagaMoves DEF Suspend, Advance
    <3>2. CASE EndCompensate
      BY <3>2, <2>1, Updates, SagaMoves DEF EndCompensate, Advance
    <3>3. QED
      BY <1>7, <3>1, <3>2
  <2>3. RecoveryTypeOK' /\ store' \in SagaStates
    BY <2>1, <2>2 DEF RecoveryTypeOK, TypeOK, SagaStates, locals, services
  <2>4. (CompletedInv /\ RecoveryPcInv)'
    BY <2>1 DEF CompletedInv, RecoveryPcInv, locals
  <2>5. (ExecutorInv /\ HandlerInv)'
    BY <2>1, <2>2 DEF ExecutorInv, HandlerInv, TakenBack, locals, services
  <2>6. RecoveredIsClean'
    <3>1. CASE store' = store
      BY <2>1, <3>1 DEF RecoveredIsClean, Done, locals, services
    <3>2. CASE store' = "COMPENSATED" /\ ~lastErr
      BY <2>1, <3>2 DEF RecoveredIsClean, Done, ExecutorInv, TakenBack, locals,
                        services
    <3>3. CASE store' = "SUSPENDED"
      BY <3>3 DEF RecoveredIsClean
    <3>4. QED
      BY <2>2, <3>1, <3>2, <3>3
  <2>7. QED
    BY <2>3, <2>4, <2>5, <2>6
<1>8. CASE RejectBegin \/ Reexecute \/ Crash \/ Terminated
  <2>1. /\ UNCHANGED <<store, i, completed, status, attempt, lastErr, effect>>
        /\ inflight \subseteq inflight' /\ inflight' \subseteq Steps
        /\ state' \in {state, store}
        /\ pc' \in {pc, "begin", "returned", "crashed"}
        /\ pc' = "begin" /\ state' = "PENDING" => store = "PENDING"
        /\ pc' \notin {"returned", "crashed", "begin"} => UNCHANGED <<pc, state>>
        /\ result' \in Results /\ executions' \in 1..MaxExecutions
    <3>0. /\ result \in Results /\ executions \in 1..MaxExecutions
          /\ MaxExecutions \in Nat
      BY DEF RecoveryTypeOK, TypeOK
    <3>1. CASE RejectBegin
      BY <3>0, <3>1 DEF RejectBegin, Return, locals, services
    <3>2. CASE Reexecute
      BY <3>0, <3>2 DEF Reexecute, locals, services
    <3>3. CASE Crash
      <4>1. \/ inflight' = inflight
            \/ i \in Steps /\ inflight' = inflight \cup {i}
        BY <3>3 DEF Crash, RecoveryPcInv
      <4>2. QED
        BY <3>0, <3>3, <4>1 DEF Crash, locals
    <3>4. CASE Terminated
      BY <3>0, <3>4 DEF Terminated, vars, RecoveryPcInv
    <3>5. QED
      BY <1>8, <3>1, <3>2, <3>3, <3>4
  <2>2. RecoveryTypeOK'
    BY <2>1 DEF RecoveryTypeOK, TypeOK
  <2>3. (CompletedInv /\ RecoveryPcInv)'
    BY <2>1 DEF CompletedInv, RecoveryPcInv
  <2>4. (ExecutorInv /\ HandlerInv /\ RecoveredIsClean)'
    BY <2>1 DEF ExecutorInv, HandlerInv, RecoveredIsClean, TakenBack, Done
  <2>5. QED
    BY <2>1, <2>2, <2>3, <2>4
<1>9. CASE \E s \in Steps : Land(s)
  <2>1. /\ UNCHANGED <<state, store, pc, locals, result, executions, inflight>>
        /\ effect' \subseteq effect \cup inflight
    BY <1>9 DEF Land
  <2>2. RecoveryTypeOK'
    BY <2>1 DEF RecoveryTypeOK, TypeOK, locals
  <2>3. (CompletedInv /\ RecoveryPcInv)'
    BY <2>1 DEF CompletedInv, RecoveryPcInv, locals
  <2>4. (ExecutorInv /\ HandlerInv /\ RecoveredIsClean)'
    BY <2>1 DEF ExecutorInv, HandlerInv, RecoveredIsClean, TakenBack, Done,
                locals
  <2>5. QED
    BY <2>1, <2>2, <2>3, <2>4
<1>10. QED
  BY <1>1, <1>2, <1>3, <1>4, <1>5, <1>6, <1>7, <1>8, <1>9 DEF Next, Execute

\* What leaves the executor, the services and the index of the handler alone
\* leaves the invariant alone, as long as there is nothing to handle.
LEMMA ScanKeeps ==
    ASSUME RInv, UNCHANGED vars, h' \in 0..N,
           registered' \in BOOLEAN, expired' \in BOOLEAN,
           \/ rpc' = "scan"
           \/ rpc' = "loaded" /\ h' = N /\ IsRecoverable(store)
           \/ rpc' \in {rpc, "handle"} /\ rpc # "scan" /\ h' = h
    PROVE  RInv'
<1> USE SagaAssumption, RecoveryTypes DEF RInv
<1>1. RecoveryTypeOK'
  BY DEF RecoveryTypeOK, TypeOK, vars
<1>2. (CompletedInv /\ RecoveryPcInv /\ ExecutorInv /\ RecoveredIsClean)'
      /\ store' \in SagaStates
  BY DEF CompletedInv, RecoveryPcInv, ExecutorInv, RecoveredIsClean,
         TakenBack, Done, vars
<1>3. HandlerInv'
  <2>1. CASE rpc' = "scan"
    BY <2>1 DEF HandlerInv
  <2>2. CASE h' = N /\ IsRecoverable(store)
    <3>1. store \in {"COMPENSATING", "SUSPENDED"}
      BY <2>2, LoadedStates
    <3>2. QED
      BY <2>2, <3>1 DEF HandlerInv, TakenBack, CompletedInv, vars
  <2>3. CASE rpc # "scan" /\ h' = h
    BY <2>3 DEF HandlerInv, TakenBack, vars
  <2>4. QED
    BY <2>1, <2>2, <2>3
<1>4. QED
  BY <1>1, <1>2, <1>3

\* The steps of recovery.
LEMMA HandlerKeeps ==
    ASSUME RInv, RegisterHandler \/ Expire \/ Scan
    PROVE  RInv'
<1> USE SagaAssumption, RecoveryNames, RecoveryTypes DEF RInv
<1>1. CASE RegisterHandler \/ Expire \/ Load \/ Skip \/ Recover
  <2>1. rpc \in {"scan", "loaded", "handle"} /\ h \in 0..N
        /\ registered \in BOOLEAN /\ expired \in BOOLEAN
    BY DEF RecoveryTypeOK
  <2>2. CASE RegisterHandler \/ Expire
    BY <2>1, <2>2, ScanKeeps DEF RegisterHandler, Expire
  <2>3. CASE Load
    BY <2>1, <2>3, ScanKeeps DEF Load
  <2>4. CASE Skip \/ Recover
    BY <2>1, <2>4, ScanKeeps DEF Skip, Recover
  <2>5. QED
    BY <1>1, <2>2, <2>3, <2>4
<1>2. ASSUME NEW err \in BOOLEAN, HandlerCompensates(err)
      PROVE  RInv'
  <2> USE <1>2 DEF HandlerCompensates, locals
  <2>1. /\ effect' \subseteq effect /\ inflight' = inflight
        /\ ~err => h \notin effect'
    BY DEF Undo
  <2>2. RecoveryTypeOK'
    <3>1. rpc' \in {"scan", "loaded", "handle"} /\ h' \in 0..N
      BY DEF RecoveryTypeOK
    <3>2. QED
      BY <2>1, <3>1 DEF RecoveryTypeOK, TypeOK
  <2>3. (CompletedInv /\ RecoveryPcInv /\ ExecutorInv /\ RecoveredIsClean)'
    BY <2>1 DEF CompletedInv, RecoveryPcInv, ExecutorInv, RecoveredIsClean,
                TakenBack, Done
  <2>4. HandlerInv'
    BY <2>1 DEF HandlerInv, TakenBack
  <2>5. QED
    BY <2>2, <2>3, <2>4
<1>3. ASSUME NEW err \in BOOLEAN, HandlerStores(err)
      PROVE  RInv'
  <2> USE <1>3 DEF HandlerStores, locals, services
  <2>1. /\ rpc = "handle" /\ h = 0 /\ rpc' = "scan"
        /\ \/ store' = store
           \/ store = "COMPENSATING" /\ store' = "COMPENSATED"
    <3>1. store' # store => CanTransition("SAGA", store, "COMPENSATED")
      BY Updates
    <3>2. store' \in {store, "COMPENSATED"}
      BY Updates
    <3>3. QED
      BY <3>1, <3>2, SagaMoves
  <2>2. RecoveryTypeOK' /\ store' \in SagaStates
    BY <2>1 DEF RecoveryTypeOK, TypeOK, SagaStates
  <2>3. (CompletedInv /\ RecoveryPcInv /\ ExecutorInv /\ HandlerInv)'
    BY <2>1 DEF CompletedInv, RecoveryPcInv, ExecutorInv, HandlerInv, TakenBack
  <2>4. TakenBack(1)
    BY <2>1 DEF HandlerInv
  <2>5. RecoveredIsClean'
    BY <2>4 DEF RecoveredIsClean, TakenBack, Done
  <2>6. QED
    BY <2>2, <2>3, <2>5
<1>4. QED
  BY <1>1, <1>2, <1>3 DEF Scan

LEMMA NextRInv ==
    ASSUME RInv, [RecoveryNext]_allVars
    PROVE  RInv'
<1>1. CASE UNCHANGED allVars
  BY <1>1 DEF allVars, vars, recovery, RInv, RecoveryTypeOK, TypeOK,
         CompletedInv, RecoveryPcInv, ExecutorInv, HandlerInv, RecoveredIsClean,
         TakenBack, Done
<1>2. QED
  BY <1>1, DriveKeeps, HandlerKeeps DEF RecoveryNext

------------------------------------------------------------------------------
(***************************************************************************)
(* What follows.                                                           *)
(***************************************************************************)

\* The inductive invariant holds at every moment.
THEOREM RecoveryInvariance == RecoverySpec => []RInv
  BY InitRInv, NextRInv, PTL DEF RecoverySpec

\* Every variable of SagaRecovery keeps its type.
THEOREM RecoveryTypeCorrect == RecoverySpec => []RecoveryTypeOK
  BY RecoveryInvariance, PTL DEF RInv

\* Whoever stores COMPENSATED, every step that had succeeded is taken back.
THEOREM CleanWhoeverStores == RecoverySpec => []RecoveredIsClean
  BY RecoveryInvariance, PTL DEF RInv

\* A state without a move stays: every update is looked at against the copy in
\* the store, whatever its caller knows.
LEMMA FinalStays ==
    ASSUME [RecoveryNext]_allVars, IsFinal(store)
    PROVE  store' = store
<1>1. ASSUME NEW target, NEW err \in BOOLEAN,
             UpdateTransactionState("SAGA", target, err)
      PROVE  store' = store
  BY <1>1, Updates, SagaMoves DEF IsFinal, FinalStates
<1>2. ASSUME NEW target, NEW err \in BOOLEAN, Advance("SAGA", target, err)
      PROVE  store' = store
  BY <1>1, <1>2 DEF Advance
<1>3. CASE Drive
  <2>1. CASE Begin \/ Commit \/ BeginCompensate \/ Suspend \/ EndCompensate
    BY <1>2, <2>1 DEF Begin, Commit, BeginCompensate, Suspend, EndCompensate
  <2>2. CASE UNCHANGED store
    BY <2>2
  <2>3. QED
    BY <1>3, <2>1, <2>2
       DEF Drive, Next, Execute, RejectBegin, ActionSucceeds, RetryAction,
           ActionFails, StepContextDone, FailStep, CompensateSucceeds,
           RetryCompensate, CompensateFails, Crash, Reexecute, Land,
           Terminated, vars
<1>4. CASE RegisterHandler \/ Expire \/ Scan
  <2>1. CASE \E err \in BOOLEAN : HandlerStores(err)
    BY <1>1, <2>1 DEF HandlerStores
  <2>2. CASE UNCHANGED store
    BY <2>2
  <2>3. QED
    BY <1>4, <2>1, <2>2 DEF RegisterHandler, Expire, Scan, Load, Skip, Recover,
                            HandlerCompensates, vars
<1>5. QED
  BY <1>3, <1>4 DEF RecoveryNext, allVars, vars

\* The end that one of the two has stored is not overwritten by the other.
THEOREM EndStays == RecoverySpec => EndIsKept
<1>1. [RecoveryNext]_allVars => [IsFinal(store) => store' = store]_allVars
  BY FinalStays
<1>2. QED
  BY <1>1, PTL DEF RecoverySpec, EndIsKept

\* A step is taken back only after those behind it.
LEMMA LastFirst ==
    ASSUME RInv, [RecoveryNext]_allVars, NEW s \in effect \ effect'
    PROVE  lastErr \/ {t \in Done \cap effect : t > s} \subseteq inflight
<1> USE SagaAssumption, RecoveryTypes DEF RInv
<1>1. CASE pc = "compensate" /\ i > 0 /\ s = completed[i]
  <2>1. completed[i] = i
    BY <1>1 DEF RecoveryPcInv, CompletedInv
  <2>2. QED
    BY <1>1, <2>1 DEF ExecutorInv, TakenBack, Done
<1>2. CASE rpc = "handle" /\ s = h
  BY <1>2 DEF HandlerInv, TakenBack, Done
<1>3. CASE Drive
  <2>1. CASE Execute
    BY <1>1, <2>1
       DEF Execute, Begin, RejectBegin, ActionSucceeds, RetryAction,
           ActionFails, StepContextDone, Act, Commit, BeginCompensate,
           CompensateSucceeds, RetryCompensate, CompensateFails, Undo,
           Suspend, EndCompensate, services
  <2>2. QED
    BY <1>3, <2>1 DEF Drive, Next, Crash, Reexecute, Land, Terminated,
                      services, vars
<1>4. CASE RegisterHandler \/ Expire \/ Scan
  BY <1>2, <1>4 DEF RegisterHandler, Expire, Scan, Load, Skip, Recover,
                    HandlerCompensates, HandlerStores, Undo, services, vars
<1>5. QED
  BY <1>3, <1>4 DEF RecoveryNext, allVars, vars

\* The compensations come in reverse order, whichever of the two calls them.
THEOREM BackwardsWhoeverCalls == RecoverySpec => ReverseOrder
<1>1. RInv /\ [RecoveryNext]_allVars =>
         [\A s \in effect \ effect' :
             \/ lastErr
             \/ {t \in Done \cap effect : t > s} \subseteq inflight]_allVars
  BY LastFirst
<1>2. QED
  BY RecoveryInvariance, <1>1, PTL DEF RecoverySpec, ReverseOrder
==============================================================================
