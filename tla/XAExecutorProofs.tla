-------------------------- MODULE XAExecutorProofs --------------------------
(***************************************************************************)
(* Proofs about XAExecutor, for any number of branches, any retry count    *)
(* and any faults of branches and store.                                   *)
(***************************************************************************)
EXTENDS XAExecutor, TLAPS

(***************************************************************************)
(* The inductive invariant: at each control point the executor and the     *)
(* store agree on the phase, and each phase says how far the branches      *)
(* before and after the loop index are.                                    *)
(***************************************************************************)

\* preparedBranches lists the first branches, in order.
PreparedInv ==
    /\ Len(prepared) <= N
    /\ \A j \in 1..Len(prepared) : prepared[j] = j

PcInv ==
    /\ pc = "begin" => state = store
    /\ pc \in {"prepare", "prepared", "turn"} =>
           state = "PREPARING" /\ store = "PREPARING"
    /\ pc \in {"prepare", "turn"} => i \in Branches /\ i = Len(prepared) + 1
    /\ pc \in {"prepared", "decide", "commit", "suspend"} => Len(prepared) = N
    /\ pc = "decide" => state = "PREPARED" /\ store = "PREPARED"
    /\ pc \in {"commit", "suspend"} =>
           state = "COMMITTING" /\ store = "COMMITTING"
    /\ pc = "turn" => status[i] = "FAILED"
    /\ pc = "abort" =>
           state = "ABORTING" /\ store = "ABORTING" /\ i <= Len(prepared)
    /\ pc # "returned" => result = "none"

\* What the stored state says of preparedBranches, which decides the outcome.
OutcomeInv ==
    /\ store \in {"PREPARED", "COMMITTING", "COMMITTED"} => Len(prepared) = N
    /\ store \in {"ABORTING", "ROLLEDBACK"} => Len(prepared) < N

PendingInv ==
    store = "PENDING" => ~lastErr /\ \A b \in Branches : status[b] = "none"

PreparingInv ==
    store = "PREPARING" =>
        /\ ~lastErr
        /\ \A b \in Branches :
              /\ rm[b] \in {"working", "prepared"}
              /\ b <= Len(prepared) =>
                     rm[b] = "prepared" /\ status[b] = "PREPARED"
              /\ b > Len(prepared) => status[b] \in {"none", "FAILED"}
              /\ pc \in {"prepare", "turn"} /\ rm[b] = "prepared" =>
                     b \in inflight \/ b <= i
              /\ CallFaults = {} /\ rm[b] = "prepared" => b <= Len(prepared)

CommitInv ==
    pc = "commit" =>
        /\ i >= 1
        /\ \A b \in Branches : b < i => rm[b] = "committed"

AbortInv ==
    pc = "abort" =>
        \A b \in Branches :
           /\ b <= i => rm[b] \in {"prepared",
                                   "rolledback"} /\ status[b] = "PREPARED"
           /\ b > i => status[b] # "PREPARED"
           /\ ~lastErr /\ rm[b] = "prepared" =>
                  b \in inflight \/ b <= i \/ b = Len(prepared) + 1
           /\ CallFaults = {} /\ ~lastErr /\ rm[b] = "prepared" => b <= i

InflightInv == CallFaults = {} => inflight = {}

\* A branch that is told the end is told the outcome.
DecidedInv ==
    \A b \in Branches :
       /\ rm[b] = "committed" => Outcome = "commit"
       /\ rm[b] = "rolledback" => Outcome = "abort"

IInv ==
    /\ TypeOK
    /\ PreparedInv /\ PcInv /\ OutcomeInv
    /\ PendingInv /\ PreparingInv /\ CommitInv /\ AbortInv
    /\ InflightInv /\ DecidedInv
    /\ StoreTellsBranches /\ ResultTellsStore

------------------------------------------------------------------------------
(***************************************************************************)
(* The table and the two calls of an advance.                              *)
(***************************************************************************)

\* The moves of the table, one successor list to a line.
LEMMA Moves ==
    ASSUME NEW a, NEW b
    PROVE  CanTransition("XA", a, b) <=>
             \/ a = "PENDING" /\ b = "PREPARING"
             \/ a = "PREPARING" /\ b \in {"PREPARED", "ABORTING", "FAILED",
                                          "SUSPENDED"}
             \/ a = "PREPARED" /\ b \in {"COMMITTING", "ABORTING"}
             \/ a = "COMMITTING" /\ b \in {"COMMITTED", "FAILED", "SUSPENDED"}
             \/ a = "ABORTING" /\ b \in {"ROLLEDBACK", "FAILED", "SUSPENDED"}
  BY DEF CanTransition, getTransitions, xaTransitions

\* When memory and store agree, an advance moves memory; it moves the store too
\* unless an error is returned, and only a faulty store returns one.
LEMMA AdvanceTells ==
    ASSUME NEW target, NEW err \in BOOLEAN, state = store,
           Advance("XA", target, err)
    PROVE  /\ CanTransition("XA", state, target)
           /\ state' = target
           /\ store' \in {store, target}
           /\ ~err => store' = target
           /\ StoreFaults = {} => ~err
  BY DEF Advance, UpdateTransactionState

\* The states and results that the executor names are states and results.
LEMMA Names ==
    /\ {"PENDING", "PREPARING", "PREPARED", "COMMITTING", "ABORTING",
        "COMMITTED", "ROLLEDBACK", "SUSPENDED"} \subseteq TxStates
    /\ Results = {"none", "rejected", "adapter_error", "committed",
                  "commit_failed", "rolledback", "rollback_failed"}
  BY DEF TxStates, Results

\* What typing says, with the sets of names left folded where only membership
\* of a variable matters.
LEMMA Types ==
    ASSUME TypeOK
    PROVE  /\ i \in Nat /\ N \in Nat
           /\ prepared \in Seq(Branches) /\ Len(prepared) \in Nat
           /\ \A b \in Branches : b \in Nat /\ b >= 1 /\ b <= N
           /\ status \in [Branches -> {"none", "PREPARED", "FAILED",
                                       "COMMITTED",
                                       "ROLLEDBACK"}]
           /\ rm \in [Branches -> {"working", "prepared", "committed",
                                   "rolledback"}]
           /\ inflight \subseteq Branches
  BY ParticipantsAssumption DEF TypeOK, ParticipantsTypeOK, Branches

------------------------------------------------------------------------------
(***************************************************************************)
(* IInv is an invariant.                                                   *)
(***************************************************************************)

LEMMA InitIInv == Init => IInv
<1> SUFFICES ASSUME Init PROVE IInv
  OBVIOUS
<1> USE DEF Init, ParticipantsInit
<1>1. TypeOK
  <2>1. state \in TxStates /\ store \in TxStates
    BY DEF TxStates
  <2>2. i \in 0..(N + 1) /\ executions \in 1..MaxExecutions
    BY ParticipantsAssumption, XAAssumption
  <2>3. prepared \in Seq(Branches)
    OBVIOUS
  <2>4. /\ status \in [Branches -> {"none", "PREPARED", "FAILED", "COMMITTED",
                                    "ROLLEDBACK"}]
        /\ ParticipantsTypeOK
    BY DEF ParticipantsTypeOK
  <2>5. QED
    BY <2>1, <2>2, <2>3, <2>4 DEF TypeOK, Results
<1>2. PreparedInv /\ PcInv /\ OutcomeInv
  BY ParticipantsAssumption DEF PreparedInv, PcInv, OutcomeInv
<1>3. PendingInv /\ PreparingInv /\ CommitInv /\ AbortInv /\ InflightInv
  BY DEF PendingInv, PreparingInv, CommitInv, AbortInv, InflightInv
<1>4. DecidedInv /\ StoreTellsBranches /\ ResultTellsStore
  BY DEF DecidedInv, StoreTellsBranches, ResultTellsStore
<1>5. QED
  BY <1>1, <1>2, <1>3, <1>4 DEF IInv

\* Every step keeps the invariant.
LEMMA NextIInv ==
    ASSUME IInv, [Next]_vars
    PROVE  IInv'
<1> USE ParticipantsAssumption, XAAssumption, Names, Types DEF IInv
<1>1. CASE Begin
  <2> USE <1>1 DEF Begin, Loop, Goto, Return, participants
  <2>1. PICK err \in BOOLEAN :
              /\ Advance("XA", "PREPARING", err)
              /\ IF err THEN Return("adapter_error") ELSE Loop(1)
    OBVIOUS
  <2>2. /\ store = "PENDING" /\ state' = "PREPARING"
        /\ store' \in {store, "PREPARING"}
        /\ ~err => store' = "PREPARING"
        /\ StoreFaults = {} => ~err
    BY <2>1, AdvanceTells, Moves DEF PcInv
  <2>3. TypeOK'
    <3>1. pc' \in {"begin", "prepare", "prepared", "decide", "commit",
                   "suspend", "turn", "abort", "returned",
                   "crashed"} /\ result' \in Results
      BY <2>1, <2>2 DEF TypeOK
    <3>2. state' \in TxStates /\ store' \in TxStates
      BY <2>1, <2>2 DEF TypeOK
    <3>3. i' \in 0..(N + 1) /\ prepared' \in Seq(Branches)
      BY <2>1, <2>2 DEF TypeOK, PreparedInv
    <3>4. QED
      BY <2>1, <2>2, <3>1, <3>2, <3>3 DEF TypeOK, ParticipantsTypeOK
  <2>4. (PreparedInv /\ PcInv)'
    BY <2>1, <2>2 DEF PreparedInv, PcInv, Branches
  <2>5. (OutcomeInv /\ PendingInv /\ InflightInv)'
    BY <2>1, <2>2 DEF OutcomeInv, PendingInv, InflightInv
  <2>6. PreparingInv'
    BY <2>1, <2>2 DEF PreparingInv, PendingInv, StoreTellsBranches
  <2>7. (CommitInv /\ AbortInv)'
    BY <2>1, <2>2 DEF CommitInv, AbortInv
  <2>8. DecidedInv'
    BY <2>1, <2>2 DEF DecidedInv, Outcome, StoreTellsBranches
  <2>9. StoreTellsBranches'
    BY <2>1, <2>2 DEF StoreTellsBranches, PcInv
  <2>10. ResultTellsStore'
    BY <2>1, <2>2 DEF ResultTellsStore, PcInv
  <2>11. QED
    BY <2>3, <2>4, <2>5, <2>6, <2>7, <2>8, <2>9, <2>10
<1>2. CASE RecordPrepared
  <2> USE <1>2 DEF RecordPrepared, Goto, Return, locals, participants
  <2>1. PICK err \in BOOLEAN :
              /\ Advance("XA", "PREPARED", err)
              /\ IF err THEN Return("adapter_error") ELSE Goto("decide")
    OBVIOUS
  <2>2. /\ store = "PREPARING" /\ state' = "PREPARED"
        /\ store' \in {store, "PREPARED"}
        /\ ~err => store' = "PREPARED"
        /\ StoreFaults = {} => ~err
    BY <2>1, AdvanceTells, Moves DEF PcInv
  <2>3. TypeOK'
    <3>1. pc' \in {"begin", "prepare", "prepared", "decide", "commit",
                   "suspend", "turn", "abort", "returned",
                   "crashed"} /\ result' \in Results
      BY <2>1, <2>2 DEF TypeOK
    <3>2. state' \in TxStates /\ store' \in TxStates
      BY <2>1, <2>2 DEF TypeOK
    <3>3. i' \in 0..(N + 1) /\ prepared' \in Seq(Branches)
      BY <2>1, <2>2 DEF TypeOK, PreparedInv
    <3>4. QED
      BY <2>1, <2>2, <3>1, <3>2, <3>3 DEF TypeOK, ParticipantsTypeOK
  <2>4. (PreparedInv /\ PcInv)'
    BY <2>1, <2>2 DEF PreparedInv, PcInv
  <2>5. (OutcomeInv /\ PendingInv /\ InflightInv)'
    BY <2>1, <2>2 DEF OutcomeInv, PendingInv, InflightInv, PcInv
  <2>6. PreparingInv'
    BY <2>1, <2>2 DEF PreparingInv, PcInv
  <2>7. (CommitInv /\ AbortInv)'
    BY <2>1, <2>2 DEF CommitInv, AbortInv
  <2>8. DecidedInv'
    BY <2>1, <2>2 DEF DecidedInv, Outcome, PcInv
  <2>9. StoreTellsBranches'
    BY <2>1, <2>2 DEF StoreTellsBranches, PcInv, PreparingInv
  <2>10. ResultTellsStore'
    BY <2>1, <2>2 DEF ResultTellsStore, PcInv
  <2>11. QED
    BY <2>3, <2>4, <2>5, <2>6, <2>7, <2>8, <2>9, <2>10
<1>3. CASE BeginCommit
  <2> USE <1>3 DEF BeginCommit, Goto, Return, participants
  <2>1. PICK err \in BOOLEAN :
              /\ Advance("XA", "COMMITTING", err)
              /\ IF err THEN Return("adapter_error") ELSE Goto("commit")
    OBVIOUS
  <2>2. /\ store = "PREPARED" /\ state' = "COMMITTING"
        /\ store' \in {store, "COMMITTING"}
        /\ ~err => store' = "COMMITTING"
        /\ StoreFaults = {} => ~err
    BY <2>1, AdvanceTells, Moves DEF PcInv
  <2>3. TypeOK'
    <3>1. pc' \in {"begin", "prepare", "prepared", "decide", "commit",
                   "suspend", "turn", "abort", "returned",
                   "crashed"} /\ result' \in Results
      BY <2>1, <2>2 DEF TypeOK
    <3>2. state' \in TxStates /\ store' \in TxStates
      BY <2>1, <2>2 DEF TypeOK
    <3>3. i' \in 0..(N + 1) /\ prepared' \in Seq(Branches)
      BY <2>1, <2>2 DEF TypeOK, PreparedInv
    <3>4. QED
      BY <2>1, <2>2, <3>1, <3>2, <3>3 DEF TypeOK, ParticipantsTypeOK
  <2>4. (PreparedInv /\ PcInv)'
    BY <2>1, <2>2 DEF PreparedInv, PcInv
  <2>5. (OutcomeInv /\ PendingInv /\ InflightInv)'
    BY <2>1, <2>2 DEF OutcomeInv, PendingInv, InflightInv, PcInv
  <2>6. PreparingInv'
    BY <2>1, <2>2 DEF PreparingInv, PcInv
  <2>7. (CommitInv /\ AbortInv)'
    BY <2>1, <2>2 DEF CommitInv, AbortInv
  <2>8. DecidedInv'
    BY <2>1, <2>2 DEF DecidedInv, Outcome, PcInv
  <2>9. StoreTellsBranches'
    BY <2>1, <2>2 DEF StoreTellsBranches, PcInv, PreparingInv
  <2>10. ResultTellsStore'
    BY <2>1, <2>2 DEF ResultTellsStore, PcInv
  <2>11. QED
    BY <2>3, <2>4, <2>5, <2>6, <2>7, <2>8, <2>9, <2>10
<1>4. CASE EndCommit
  <2> USE <1>4 DEF EndCommit, Return, locals, participants
  <2>1. PICK err \in BOOLEAN :
              /\ Advance("XA", "COMMITTED", err)
              /\ Return(IF err THEN "adapter_error" ELSE "committed")
    OBVIOUS
  <2>2. /\ store = "COMMITTING" /\ state' = "COMMITTED"
        /\ store' \in {store, "COMMITTED"}
        /\ ~err => store' = "COMMITTED"
        /\ StoreFaults = {} => ~err
    BY <2>1, AdvanceTells, Moves DEF PcInv
  <2>3. TypeOK'
    BY <2>1, <2>2 DEF TypeOK, ParticipantsTypeOK
  <2>4. (PreparedInv /\ PcInv)'
    BY <2>1, <2>2 DEF PreparedInv, PcInv
  <2>5. (OutcomeInv /\ PendingInv /\ InflightInv)'
    BY <2>1, <2>2 DEF OutcomeInv, PendingInv, InflightInv, PcInv
  <2>6. PreparingInv'
    BY <2>1, <2>2 DEF PreparingInv, PcInv
  <2>7. (CommitInv /\ AbortInv)'
    BY <2>1, <2>2 DEF CommitInv, AbortInv
  <2>8. DecidedInv'
    BY <2>1, <2>2 DEF DecidedInv, Outcome, PcInv
  <2>9. StoreTellsBranches'
    BY <2>1, <2>2 DEF StoreTellsBranches, PcInv, CommitInv
  <2>10. ResultTellsStore'
    BY <2>1, <2>2 DEF ResultTellsStore, PcInv
  <2>11. QED
    BY <2>3, <2>4, <2>5, <2>6, <2>7, <2>8, <2>9, <2>10
<1>5. CASE BeginAbort
  <2> USE <1>5 DEF BeginAbort, Goto, Return, participants
  <2>1. PICK err \in BOOLEAN :
              /\ Advance("XA", "ABORTING", err)
              /\ IF err THEN Return("rollback_failed") ELSE Goto("abort")
    OBVIOUS
  <2>2. /\ store = "PREPARING" /\ state' = "ABORTING"
        /\ store' \in {store, "ABORTING"}
        /\ ~err => store' = "ABORTING"
        /\ StoreFaults = {} => ~err
    BY <2>1, AdvanceTells, Moves DEF PcInv
  <2>3. TypeOK'
    <3>1. pc' \in {"begin", "prepare", "prepared", "decide", "commit",
                   "suspend", "turn", "abort", "returned",
                   "crashed"} /\ result' \in Results
      BY <2>1, <2>2 DEF TypeOK
    <3>2. state' \in TxStates /\ store' \in TxStates
      BY <2>1, <2>2 DEF TypeOK
    <3>3. i' \in 0..(N + 1) /\ prepared' \in Seq(Branches)
      BY <2>1, <2>2 DEF TypeOK, PreparedInv
    <3>4. QED
      BY <2>1, <2>2, <3>1, <3>2, <3>3 DEF TypeOK, ParticipantsTypeOK
  <2>4. (PreparedInv /\ PcInv)'
    BY <2>1, <2>2 DEF PreparedInv, PcInv
  <2>5. (OutcomeInv /\ PendingInv /\ InflightInv)'
    BY <2>1, <2>2 DEF OutcomeInv, PendingInv, InflightInv, PcInv
  <2>6. PreparingInv'
    BY <2>1, <2>2 DEF PreparingInv, PcInv
  <2>7. (CommitInv /\ AbortInv)'
    BY <2>1, <2>2 DEF CommitInv, AbortInv, PcInv, PreparingInv
  <2>8. DecidedInv'
    BY <2>1, <2>2 DEF DecidedInv, Outcome, PcInv
  <2>9. StoreTellsBranches'
    BY <2>1, <2>2 DEF StoreTellsBranches, PcInv, PreparingInv
  <2>10. ResultTellsStore'
    BY <2>1, <2>2 DEF ResultTellsStore, PcInv
  <2>11. QED
    BY <2>3, <2>4, <2>5, <2>6, <2>7, <2>8, <2>9, <2>10
<1>6. CASE EndAbort
  <2> USE <1>6 DEF EndAbort, Return, locals, participants
  <2>1. PICK err \in BOOLEAN :
              /\ Advance("XA", "ROLLEDBACK", err)
              /\ Return(IF err THEN "rollback_failed" ELSE "rolledback")
    OBVIOUS
  <2>2. /\ store = "ABORTING" /\ state' = "ROLLEDBACK"
        /\ store' \in {store, "ROLLEDBACK"}
        /\ ~err => store' = "ROLLEDBACK"
        /\ StoreFaults = {} => ~err
    BY <2>1, AdvanceTells, Moves DEF PcInv
  <2>3. TypeOK'
    BY <2>1, <2>2 DEF TypeOK, ParticipantsTypeOK
  <2>4. (PreparedInv /\ PcInv)'
    BY <2>1, <2>2 DEF PreparedInv, PcInv
  <2>5. (OutcomeInv /\ PendingInv /\ InflightInv)'
    BY <2>1, <2>2 DEF OutcomeInv, PendingInv, InflightInv, PcInv
  <2>6. PreparingInv'
    BY <2>1, <2>2 DEF PreparingInv, PcInv
  <2>7. (CommitInv /\ AbortInv)'
    BY <2>1, <2>2 DEF CommitInv, AbortInv
  <2>8. DecidedInv'
    BY <2>1, <2>2 DEF DecidedInv, Outcome, PcInv
  <2>9. StoreTellsBranches'
    BY <2>1, <2>2 DEF StoreTellsBranches, PcInv, AbortInv
  <2>10. ResultTellsStore'
    BY <2>1, <2>2 DEF ResultTellsStore, PcInv
  <2>11. QED
    BY <2>3, <2>4, <2>5, <2>6, <2>7, <2>8, <2>9, <2>10
<1>7. CASE Suspend
  <2> USE <1>7 DEF Suspend, Return, locals, participants
  <2>1. PICK err \in BOOLEAN : Advance("XA", "SUSPENDED", err)
    OBVIOUS
  <2>2. /\ store \in {"COMMITTING", "ABORTING"} /\ state' = "SUSPENDED"
        /\ store' \in {store, "SUSPENDED"}
        /\ StoreFaults = {} => store' = "SUSPENDED"
    BY <2>1, AdvanceTells DEF PcInv
  <2>3. TypeOK'
    BY <2>1, <2>2 DEF TypeOK, ParticipantsTypeOK
  <2>4. (PreparedInv /\ PcInv)'
    BY <2>1, <2>2 DEF PreparedInv, PcInv
  <2>5. (OutcomeInv /\ PendingInv /\ InflightInv)'
    BY <2>1, <2>2 DEF OutcomeInv, PendingInv, InflightInv, PcInv
  <2>6. PreparingInv'
    BY <2>1, <2>2 DEF PreparingInv, PcInv
  <2>7. (CommitInv /\ AbortInv)'
    BY <2>1, <2>2 DEF CommitInv, AbortInv
  <2>8. DecidedInv'
    BY <2>1, <2>2 DEF DecidedInv, Outcome, PcInv, OutcomeInv
  <2>9. StoreTellsBranches'
    BY <2>1, <2>2 DEF StoreTellsBranches, PcInv
  <2>10. ResultTellsStore'
    BY <2>1, <2>2 DEF ResultTellsStore, PcInv
  <2>11. QED
    BY <2>3, <2>4, <2>5, <2>6, <2>7, <2>8, <2>9, <2>10
<1>8. CASE RejectBegin
  <2> USE <1>8 DEF RejectBegin, Return, locals, participants
  <2>1. TypeOK'
    BY DEF TypeOK, ParticipantsTypeOK
  <2>2. (PreparedInv /\ PcInv)'
    BY DEF PreparedInv, PcInv
  <2>3. (OutcomeInv /\ PendingInv /\ InflightInv)'
    BY DEF OutcomeInv, PendingInv, InflightInv, PcInv
  <2>4. PreparingInv'
    BY DEF PreparingInv, PcInv
  <2>5. (CommitInv /\ AbortInv)'
    BY DEF CommitInv, AbortInv
  <2>6. DecidedInv'
    BY DEF DecidedInv, Outcome, PcInv
  <2>7. StoreTellsBranches'
    BY DEF StoreTellsBranches, PcInv
  <2>8. ResultTellsStore'
    BY DEF ResultTellsStore, PcInv
  <2>9. QED
    BY <2>1, <2>2, <2>3, <2>4, <2>5, <2>6, <2>7, <2>8
<1>9. CASE PrepareSucceeds
  <2> USE <1>9 DEF PrepareSucceeds, FirstPhase, Loop, Goto, participants
  <2>1. TypeOK'
    <3>1. i \in Branches
      BY DEF PcInv
    <3>2. ParticipantsTypeOK'
      BY <3>1 DEF ParticipantsTypeOK
    <3>3. prepared' \in Seq(Branches) /\ i' \in 0..(N + 1)
      BY <3>1
    <3>4. status' \in [Branches -> {"none", "PREPARED", "FAILED", "COMMITTED",
                                    "ROLLEDBACK"}]
      BY <3>1
    <3>5. QED
      BY <3>2, <3>3, <3>4 DEF TypeOK
  <2>2. (PreparedInv /\ PcInv)'
    BY DEF PreparedInv, PcInv, Branches
  <2>3. (OutcomeInv /\ PendingInv /\ InflightInv)'
    BY DEF OutcomeInv, PendingInv, InflightInv, PcInv
  <2>4. PreparingInv'
    BY DEF PreparingInv, PcInv
  <2>5. (CommitInv /\ AbortInv)'
    BY DEF CommitInv, AbortInv
  <2>6. DecidedInv'
    BY DEF DecidedInv, Outcome, PcInv
  <2>7. StoreTellsBranches'
    BY DEF StoreTellsBranches, PcInv
  <2>8. ResultTellsStore'
    BY DEF ResultTellsStore, PcInv
  <2>9. QED
    BY <2>1, <2>2, <2>3, <2>4, <2>5, <2>6, <2>7, <2>8
<1>10. CASE RetryPrepare
  <2> USE <1>10 DEF RetryPrepare, FirstPhase, participants
  <2>1. TypeOK'
    <3>1. i \in Branches
      BY DEF PcInv
    <3>2. ParticipantsTypeOK'
      BY <3>1 DEF ParticipantsTypeOK
    <3>3. attempt' \in Nat
      BY DEF TypeOK
    <3>5. QED
      BY <3>2, <3>3 DEF TypeOK
  <2>2. (PreparedInv /\ PcInv)'
    BY DEF PreparedInv, PcInv
  <2>3. (OutcomeInv /\ PendingInv /\ InflightInv)'
    BY DEF OutcomeInv, PendingInv, InflightInv, PcInv
  <2>4. PreparingInv'
    BY DEF PreparingInv, PcInv
  <2>5. (CommitInv /\ AbortInv)'
    BY DEF CommitInv, AbortInv
  <2>6. DecidedInv'
    BY DEF DecidedInv, Outcome, PcInv
  <2>7. StoreTellsBranches'
    BY DEF StoreTellsBranches, PcInv
  <2>8. ResultTellsStore'
    BY DEF ResultTellsStore, PcInv
  <2>9. QED
    BY <2>1, <2>2, <2>3, <2>4, <2>5, <2>6, <2>7, <2>8
<1>11. CASE PrepareFails
  <2> USE <1>11 DEF PrepareFails, FailBranch, FirstPhase, Goto, participants
  <2>1. TypeOK'
    <3>1. i \in Branches
      BY DEF PcInv
    <3>2. ParticipantsTypeOK'
      BY <3>1 DEF ParticipantsTypeOK
    <3>3. status' \in [Branches -> {"none", "PREPARED", "FAILED", "COMMITTED",
                                    "ROLLEDBACK"}]
      BY <3>1
    <3>5. QED
      BY <3>2, <3>3 DEF TypeOK
  <2>2. (PreparedInv /\ PcInv)'
    BY DEF PreparedInv, PcInv
  <2>3. (OutcomeInv /\ PendingInv /\ InflightInv)'
    BY DEF OutcomeInv, PendingInv, InflightInv, PcInv
  <2>4. PreparingInv'
    BY DEF PreparingInv, PcInv
  <2>5. (CommitInv /\ AbortInv)'
    BY DEF CommitInv, AbortInv
  <2>6. DecidedInv'
    BY DEF DecidedInv, Outcome, PcInv
  <2>7. StoreTellsBranches'
    BY DEF StoreTellsBranches, PcInv
  <2>8. ResultTellsStore'
    BY DEF ResultTellsStore, PcInv
  <2>9. QED
    BY <2>1, <2>2, <2>3, <2>4, <2>5, <2>6, <2>7, <2>8
<1>12. CASE BranchContextDone
  <2> USE <1>12 DEF BranchContextDone, FailBranch, Goto, participants
  <2>1. TypeOK'
    BY DEF TypeOK, ParticipantsTypeOK, PcInv
  <2>2. (PreparedInv /\ PcInv)'
    BY DEF PreparedInv, PcInv
  <2>3. (OutcomeInv /\ PendingInv /\ InflightInv)'
    BY DEF OutcomeInv, PendingInv, InflightInv, PcInv
  <2>4. PreparingInv'
    BY DEF PreparingInv, PcInv
  <2>5. (CommitInv /\ AbortInv)'
    BY DEF CommitInv, AbortInv
  <2>6. DecidedInv'
    BY DEF DecidedInv, Outcome, PcInv
  <2>7. StoreTellsBranches'
    BY DEF StoreTellsBranches, PcInv
  <2>8. ResultTellsStore'
    BY DEF ResultTellsStore, PcInv
  <2>9. QED
    BY <2>1, <2>2, <2>3, <2>4, <2>5, <2>6, <2>7, <2>8
<1>13. CASE CommitSucceeds
  <2> USE <1>13 DEF CommitSucceeds, SecondPhase
  <2>1. prepared[i] = i /\ i \in Branches
    BY DEF PreparedInv, PcInv, CommitInv, Branches
  <2>2. TypeOK'
    <3>1. ParticipantsTypeOK'
      BY <2>1 DEF ParticipantsTypeOK
    <3>2. status' \in [Branches -> {"none", "PREPARED", "FAILED", "COMMITTED",
                                    "ROLLEDBACK"}]
      BY <2>1
    <3>3. i' \in 0..(N + 1)
      BY <2>1 DEF Branches
    <3>4. attempt' \in Nat /\ lastErr' \in BOOLEAN
      BY DEF TypeOK
    <3>5. QED
      BY <3>1, <3>2, <3>3, <3>4 DEF TypeOK
  <2>3. (PreparedInv /\ PcInv)'
    BY <2>1 DEF PreparedInv, PcInv
  <2>4. (OutcomeInv /\ PendingInv /\ InflightInv)'
    BY <2>1 DEF OutcomeInv, PendingInv, InflightInv, PcInv
  <2>5. PreparingInv'
    BY <2>1 DEF PreparingInv, PcInv
  <2>6. (CommitInv /\ AbortInv)'
    <3>1. i' = i + 1 /\ pc' = pc /\ rm'[i] = "committed"
      BY <2>1
    <3>2. \A b \in Branches : b < i + 1 => b = i \/ b < i
      BY <2>1
    <3>3. \A b \in Branches : b # i => rm'[b] = rm[b]
      BY <2>1
    <3>4. \A b \in Branches : b < i + 1 => rm'[b] = "committed"
      BY <3>1, <3>2, <3>3 DEF CommitInv
    <3>5. AbortInv'
      BY <3>1 DEF AbortInv
    <3>6. QED
      BY <3>1, <3>4, <3>5 DEF CommitInv
  <2>7. DecidedInv'
    BY <2>1 DEF DecidedInv, Outcome, PcInv
  <2>8. StoreTellsBranches'
    BY <2>1 DEF StoreTellsBranches, PcInv
  <2>9. ResultTellsStore'
    BY <2>1 DEF ResultTellsStore, PcInv
  <2>10. QED
    BY <2>2, <2>3, <2>4, <2>5, <2>6, <2>7, <2>8, <2>9
<1>14. CASE RetryCommit
  <2> USE <1>14 DEF RetryCommit, SecondPhase
  <2>1. prepared[i] = i /\ i \in Branches
    BY DEF PreparedInv, PcInv, CommitInv, Branches
  <2>2. TypeOK'
    <3>1. ParticipantsTypeOK'
      BY <2>1 DEF ParticipantsTypeOK
    <3>2. status' \in [Branches -> {"none", "PREPARED", "FAILED", "COMMITTED",
                                    "ROLLEDBACK"}]
      BY <2>1
    <3>3. i' \in 0..(N + 1)
      BY <2>1 DEF Branches
    <3>4. attempt' \in Nat /\ lastErr' \in BOOLEAN
      BY DEF TypeOK
    <3>5. QED
      BY <3>1, <3>2, <3>3, <3>4 DEF TypeOK
  <2>3. (PreparedInv /\ PcInv)'
    BY <2>1 DEF PreparedInv, PcInv
  <2>4. (OutcomeInv /\ PendingInv /\ InflightInv)'
    BY <2>1 DEF OutcomeInv, PendingInv, InflightInv, PcInv
  <2>5. PreparingInv'
    BY <2>1 DEF PreparingInv, PcInv
  <2>6. (CommitInv /\ AbortInv)'
    BY <2>1 DEF CommitInv, AbortInv
  <2>7. DecidedInv'
    BY <2>1 DEF DecidedInv, Outcome, PcInv
  <2>8. StoreTellsBranches'
    BY <2>1 DEF StoreTellsBranches, PcInv
  <2>9. ResultTellsStore'
    BY <2>1 DEF ResultTellsStore, PcInv
  <2>10. QED
    BY <2>2, <2>3, <2>4, <2>5, <2>6, <2>7, <2>8, <2>9
<1>15. CASE CommitFails
  <2> USE <1>15 DEF CommitFails, SecondPhase, Goto
  <2>1. prepared[i] = i /\ i \in Branches
    BY DEF PreparedInv, PcInv, CommitInv, Branches
  <2>2. TypeOK'
    <3>1. ParticipantsTypeOK'
      BY <2>1 DEF ParticipantsTypeOK
    <3>2. status' \in [Branches -> {"none", "PREPARED", "FAILED", "COMMITTED",
                                    "ROLLEDBACK"}]
      BY <2>1
    <3>3. i' \in 0..(N + 1)
      BY <2>1 DEF Branches
    <3>4. attempt' \in Nat /\ lastErr' \in BOOLEAN
      BY DEF TypeOK
    <3>5. QED
      BY <3>1, <3>2, <3>3, <3>4 DEF TypeOK
  <2>3. (PreparedInv /\ PcInv)'
    BY <2>1 DEF PreparedInv, PcInv
  <2>4. (OutcomeInv /\ PendingInv /\ InflightInv)'
    BY <2>1 DEF OutcomeInv, PendingInv, InflightInv, PcInv
  <2>5. PreparingInv'
    BY <2>1 DEF PreparingInv, PcInv
  <2>6. (CommitInv /\ AbortInv)'
    BY <2>1 DEF CommitInv, AbortInv
  <2>7. DecidedInv'
    BY <2>1 DEF DecidedInv, Outcome, PcInv
  <2>8. StoreTellsBranches'
    BY <2>1 DEF StoreTellsBranches, PcInv
  <2>9. ResultTellsStore'
    BY <2>1 DEF ResultTellsStore, PcInv
  <2>10. QED
    BY <2>2, <2>3, <2>4, <2>5, <2>6, <2>7, <2>8, <2>9
<1>16. CASE RollbackSucceeds
  <2> USE <1>16 DEF RollbackSucceeds, SecondPhase
  <2>1. prepared[i] = i /\ i \in Branches
    BY DEF PreparedInv, PcInv, Branches
  <2>2. TypeOK'
    <3>1. ParticipantsTypeOK'
      BY <2>1 DEF ParticipantsTypeOK
    <3>2. status' \in [Branches -> {"none", "PREPARED", "FAILED", "COMMITTED",
                                    "ROLLEDBACK"}]
      BY <2>1
    <3>3. i' \in 0..(N + 1)
      BY <2>1 DEF Branches
    <3>4. attempt' \in Nat /\ lastErr' \in BOOLEAN
      BY DEF TypeOK
    <3>5. QED
      BY <3>1, <3>2, <3>3, <3>4 DEF TypeOK
  <2>3. (PreparedInv /\ PcInv)'
    BY <2>1 DEF PreparedInv, PcInv
  <2>4. (OutcomeInv /\ PendingInv /\ InflightInv)'
    BY <2>1 DEF OutcomeInv, PendingInv, InflightInv, PcInv
  <2>5. PreparingInv'
    BY <2>1 DEF PreparingInv, PcInv
  <2>6. (CommitInv /\ AbortInv)'
    BY <2>1 DEF CommitInv, AbortInv
  <2>7. DecidedInv'
    BY <2>1 DEF DecidedInv, Outcome, PcInv
  <2>8. StoreTellsBranches'
    BY <2>1 DEF StoreTellsBranches, PcInv
  <2>9. ResultTellsStore'
    BY <2>1 DEF ResultTellsStore, PcInv
  <2>10. QED
    BY <2>2, <2>3, <2>4, <2>5, <2>6, <2>7, <2>8, <2>9
<1>17. CASE RetryRollback
  <2> USE <1>17 DEF RetryRollback, SecondPhase
  <2>1. prepared[i] = i /\ i \in Branches
    BY DEF PreparedInv, PcInv, Branches
  <2>2. TypeOK'
    <3>1. ParticipantsTypeOK'
      BY <2>1 DEF ParticipantsTypeOK
    <3>2. status' \in [Branches -> {"none", "PREPARED", "FAILED", "COMMITTED",
                                    "ROLLEDBACK"}]
      BY <2>1
    <3>3. i' \in 0..(N + 1)
      BY <2>1 DEF Branches
    <3>4. attempt' \in Nat /\ lastErr' \in BOOLEAN
      BY DEF TypeOK
    <3>5. QED
      BY <3>1, <3>2, <3>3, <3>4 DEF TypeOK
  <2>3. (PreparedInv /\ PcInv)'
    BY <2>1 DEF PreparedInv, PcInv
  <2>4. (OutcomeInv /\ PendingInv /\ InflightInv)'
    BY <2>1 DEF OutcomeInv, PendingInv, InflightInv, PcInv
  <2>5. PreparingInv'
    BY <2>1 DEF PreparingInv, PcInv
  <2>6. (CommitInv /\ AbortInv)'
    BY <2>1 DEF CommitInv, AbortInv
  <2>7. DecidedInv'
    BY <2>1 DEF DecidedInv, Outcome, PcInv
  <2>8. StoreTellsBranches'
    BY <2>1 DEF StoreTellsBranches, PcInv
  <2>9. ResultTellsStore'
    BY <2>1 DEF ResultTellsStore, PcInv
  <2>10. QED
    BY <2>2, <2>3, <2>4, <2>5, <2>6, <2>7, <2>8, <2>9
<1>18. CASE RollbackFails
  <2> USE <1>18 DEF RollbackFails, SecondPhase
  <2>1. prepared[i] = i /\ i \in Branches
    BY DEF PreparedInv, PcInv, Branches
  <2>2. TypeOK'
    <3>1. ParticipantsTypeOK'
      BY <2>1 DEF ParticipantsTypeOK
    <3>2. status' \in [Branches -> {"none", "PREPARED", "FAILED", "COMMITTED",
                                    "ROLLEDBACK"}]
      BY <2>1
    <3>3. i' \in 0..(N + 1)
      BY <2>1 DEF Branches
    <3>4. attempt' \in Nat /\ lastErr' \in BOOLEAN
      BY DEF TypeOK
    <3>5. QED
      BY <3>1, <3>2, <3>3, <3>4 DEF TypeOK
  <2>3. (PreparedInv /\ PcInv)'
    BY <2>1 DEF PreparedInv, PcInv
  <2>4. (OutcomeInv /\ PendingInv /\ InflightInv)'
    BY <2>1 DEF OutcomeInv, PendingInv, InflightInv, PcInv
  <2>5. PreparingInv'
    BY <2>1 DEF PreparingInv, PcInv
  <2>6. (CommitInv /\ AbortInv)'
    BY <2>1 DEF CommitInv, AbortInv
  <2>7. DecidedInv'
    BY <2>1 DEF DecidedInv, Outcome, PcInv
  <2>8. StoreTellsBranches'
    BY <2>1 DEF StoreTellsBranches, PcInv
  <2>9. ResultTellsStore'
    BY <2>1 DEF ResultTellsStore, PcInv
  <2>10. QED
    BY <2>2, <2>3, <2>4, <2>5, <2>6, <2>7, <2>8, <2>9
<1>19. CASE Crash
  <2> USE <1>19 DEF Crash, DieCalling, Over, locals, participants
  <2>1. TypeOK'
    BY DEF TypeOK, ParticipantsTypeOK, PcInv
  <2>2. (PreparedInv /\ PcInv)'
    BY DEF PreparedInv, PcInv
  <2>3. (OutcomeInv /\ PendingInv /\ InflightInv)'
    BY DEF OutcomeInv, PendingInv, InflightInv, PcInv
  <2>4. PreparingInv'
    BY DEF PreparingInv, PcInv
  <2>5. (CommitInv /\ AbortInv)'
    BY DEF CommitInv, AbortInv
  <2>6. DecidedInv'
    BY DEF DecidedInv, Outcome, PcInv
  <2>7. StoreTellsBranches'
    BY DEF StoreTellsBranches, PcInv
  <2>8. ResultTellsStore'
    BY DEF ResultTellsStore, PcInv
  <2>9. QED
    BY <2>1, <2>2, <2>3, <2>4, <2>5, <2>6, <2>7, <2>8
<1>20. CASE Reexecute
  <2> USE <1>20 DEF Reexecute, Over, locals, participants
  <2>1. TypeOK'
    BY DEF TypeOK, ParticipantsTypeOK
  <2>2. (PreparedInv /\ PcInv)'
    BY DEF PreparedInv, PcInv
  <2>3. (OutcomeInv /\ PendingInv /\ InflightInv)'
    BY DEF OutcomeInv, PendingInv, InflightInv, PcInv
  <2>4. PreparingInv'
    BY DEF PreparingInv, PcInv
  <2>5. (CommitInv /\ AbortInv)'
    BY DEF CommitInv, AbortInv
  <2>6. DecidedInv'
    BY DEF DecidedInv, Outcome, PcInv
  <2>7. StoreTellsBranches'
    BY DEF StoreTellsBranches, PcInv
  <2>8. ResultTellsStore'
    BY DEF ResultTellsStore, PcInv
  <2>9. QED
    BY <2>1, <2>2, <2>3, <2>4, <2>5, <2>6, <2>7, <2>8
<1>21. CASE Arrive
  <2> USE <1>21 DEF Arrive, locals
  <2>1. PICK c \in Branches : Land(c)
    OBVIOUS
  <2>2. /\ rm[c] = "working" /\ rm' = [rm EXCEPT ![c] = "prepared"]
        /\ c \in inflight /\ inflight' = inflight /\ CallFaults # {}
    BY <2>1 DEF Land, InflightInv
  <2>3. rm'[c] = "prepared" /\ \A b \in Branches : b # c => rm'[b] = rm[b]
    BY <2>2
  <2>4. TypeOK'
    BY <2>2, <2>3 DEF TypeOK, ParticipantsTypeOK
  <2>5. (PreparedInv /\ PcInv)'
    BY <2>2, <2>3 DEF PreparedInv, PcInv
  <2>6. (OutcomeInv /\ PendingInv /\ InflightInv)'
    BY <2>2, <2>3 DEF OutcomeInv, PendingInv, InflightInv, PcInv
  <2>7. PreparingInv'
    BY <2>2, <2>3 DEF PreparingInv, PcInv
  <2>8. (CommitInv /\ AbortInv)'
    BY <2>2, <2>3 DEF CommitInv, AbortInv
  <2>9. DecidedInv'
    BY <2>2, <2>3 DEF DecidedInv, Outcome, PcInv
  <2>10. StoreTellsBranches'
    BY <2>2, <2>3 DEF StoreTellsBranches, PcInv
  <2>11. ResultTellsStore'
    BY <2>2, <2>3 DEF ResultTellsStore
  <2>12. QED
    BY <2>4, <2>5, <2>6, <2>7, <2>8, <2>9, <2>10, <2>11
<1>22. CASE UNCHANGED vars
  BY <1>22
     DEF vars, TypeOK, ParticipantsTypeOK, PreparedInv, PcInv, OutcomeInv,
         PendingInv,
         PreparingInv, CommitInv, AbortInv, InflightInv, DecidedInv, Outcome,
         StoreTellsBranches, ResultTellsStore
<1>23. QED
  BY <1>1, <1>2, <1>3, <1>4, <1>5, <1>6, <1>7, <1>8, <1>9, <1>10, <1>11,
     <1>12, <1>13, <1>14, <1>15, <1>16, <1>17, <1>18, <1>19, <1>20, <1>21, <1>22
     DEF Next, Execute, Terminated

THEOREM Invariance == Spec => []IInv
<1>1. IInv /\ [Next]_vars => IInv'
  BY NextIInv
<1>2. QED
  BY InitIInv, <1>1, PTL DEF Spec

------------------------------------------------------------------------------
(***************************************************************************)
(* The theorems.                                                           *)
(***************************************************************************)

\* Every variable has its type: the executor never indexes the branches, or the
\* entries of the transaction, out of range.
THEOREM TypeCorrect == Spec => []TypeOK
  BY Invariance, PTL DEF IInv

\* The stored state alone tells how far the branches can be.
THEOREM StoreTells == Spec => []StoreTellsBranches
  BY Invariance, PTL DEF IInv

\* What Execute returns is true of the store.
THEOREM ResultIsTrue == Spec => []ResultTellsStore
  BY Invariance, PTL DEF IInv

\* No branch is committed in a transaction of which another is rolled back, not
\* even a suspended or a crashed one.
THEOREM BranchesAgree == Spec => []Atomic!Consistent
<1>1. IInv => Atomic!Consistent
  BY DEF IInv, DecidedInv, Atomic!Consistent
<1>2. QED
  BY Invariance, <1>1, PTL

------------------------------------------------------------------------------
(***************************************************************************)
(* The executor implements AtomicCommit.                                   *)
(***************************************************************************)

LEMMA AtomicInit == Init => Atomic!Init
  BY DEF Init, ParticipantsInit, Atomic!Init, Outcome

LEMMA AtomicStep ==
    ASSUME IInv, [Next]_vars
    PROVE  [Atomic!Next]_(Atomic!atomicVars)
<1> USE ParticipantsAssumption, Types DEF IInv
<1> USE DEF Atomic!atomicVars
<1>1. ASSUME UNCHANGED <<store, prepared, rm>>
      PROVE  UNCHANGED Atomic!atomicVars
  BY <1>1 DEF Outcome
<1>2. CASE Begin
  <2>1. PICK err \in BOOLEAN : Advance("XA", "PREPARING", err)
    BY <1>2 DEF Begin
  <2>2. store = "PENDING" /\ store' \in {"PENDING", "PREPARING"}
    <3>1. state = store
      BY <1>2 DEF Begin, PcInv
    <3>2. QED
      BY <2>1, <3>1, AdvanceTells, Moves
  <2>3. QED
    BY <1>2, <2>2 DEF Begin, participants, Outcome
<1>3. CASE PrepareSucceeds \/ RetryPrepare \/ PrepareFails
  <2>1. /\ store = "PREPARING" /\ store' = store
        /\ i \in Branches
        /\ rm' \in {rm, [rm EXCEPT ![i] = "prepared"]}
        /\ rm[i] \in {"working", "prepared"}
    BY <1>3 DEF PrepareSucceeds, RetryPrepare, PrepareFails, FailBranch,
       FirstPhase, participants, PcInv, PreparingInv
  <2>2. Outcome = "open" /\ Outcome' = "open"
    BY <2>1 DEF Outcome
  <2>3. CASE rm' = rm
    BY <2>2, <2>3
  <2>4. CASE rm[i] = "working" /\ rm' = [rm EXCEPT ![i] = "prepared"]
    BY <2>1, <2>2, <2>4 DEF Atomic!Next, Atomic!Prepare
  <2>5. CASE rm[i] = "prepared" /\ rm' = [rm EXCEPT ![i] = "prepared"]
    <3>1. rm' = rm
      BY <2>5
    <3>2. QED
      BY <2>2, <3>1
  <2>6. QED
    BY <2>1, <2>3, <2>4, <2>5
<1>4. CASE RecordPrepared
  <2>1. PICK err \in BOOLEAN : Advance("XA", "PREPARED", err)
    BY <1>4 DEF RecordPrepared
  <2>2. store = "PREPARING" /\ store' \in {"PREPARING", "PREPARED"}
    BY <1>4, <2>1, AdvanceTells DEF RecordPrepared, PcInv
  <2>3. QED
    BY <1>4, <2>2 DEF RecordPrepared, locals, participants, Outcome
<1>5. CASE BeginCommit
  <2>1. PICK err \in BOOLEAN : Advance("XA", "COMMITTING", err)
    BY <1>5 DEF BeginCommit
  <2>2. /\ store = "PREPARED" /\ store' \in {"PREPARED", "COMMITTING"}
        /\ prepared' = prepared /\ rm' = rm
    BY <1>5, <2>1, AdvanceTells DEF BeginCommit, participants, PcInv
  <2>3. \A b \in Branches : rm[b] = "prepared"
    BY <1>5, <2>2 DEF BeginCommit, PcInv, StoreTellsBranches
  <2>4. CASE store' = "COMMITTING"
    <3>1. Atomic!DecideCommit
      BY <2>2, <2>3, <2>4 DEF Atomic!DecideCommit, Outcome
    <3>2. QED
      BY <3>1 DEF Atomic!Next
  <2>5. QED
    BY <1>1, <2>2, <2>4
<1>6. CASE BeginAbort
  <2>1. PICK err \in BOOLEAN : Advance("XA", "ABORTING", err)
    BY <1>6 DEF BeginAbort
  <2>2. /\ store = "PREPARING" /\ store' \in {"PREPARING", "ABORTING"}
        /\ prepared' = prepared /\ rm' = rm
    BY <1>6, <2>1, AdvanceTells DEF BeginAbort, participants, PcInv
  <2>3. CASE store' = "ABORTING"
    <3>1. Atomic!DecideAbort
      BY <2>2, <2>3 DEF Atomic!DecideAbort, Outcome
    <3>2. QED
      BY <3>1 DEF Atomic!Next
  <2>4. QED
    BY <1>1, <2>2, <2>3
<1>7. ASSUME NEW end \in {"committed", "rolledback"}, NEW err \in BOOLEAN,
             prepared[i] \in Branches,
             SecondPhase(prepared[i], end, err),
             rm[prepared[i]] \in {"prepared", end},
             Outcome = (IF end = "committed" THEN "commit" ELSE "abort"),
             UNCHANGED <<store, prepared>>
      PROVE  [Atomic!Next]_(Atomic!atomicVars)
  <2>1. Outcome' = Outcome
    BY <1>7 DEF Outcome
  <2>2. CASE rm[prepared[i]] = "prepared" /\ rm' = [rm EXCEPT ![prepared[i]] = end]
    <3>1. Atomic!Finish(prepared[i])
      BY <1>7, <2>1, <2>2 DEF Atomic!Finish
    <3>2. QED
      BY <1>7, <3>1 DEF Atomic!Next
  <2>3. CASE rm' = rm
    BY <2>1, <2>3
  <2>4. CASE rm[prepared[i]] = end /\ rm' = [rm EXCEPT ![prepared[i]] = end]
    <3>1. rm' = rm
      BY <1>7, <2>4
    <3>2. QED
      BY <2>1, <3>1
  <2>5. QED
    BY <1>7, <2>2, <2>3, <2>4 DEF SecondPhase
<1>8. CASE CommitSucceeds \/ RetryCommit \/ CommitFails
  <2>1. PICK err \in BOOLEAN : SecondPhase(prepared[i], "committed", err)
    BY <1>8 DEF CommitSucceeds, RetryCommit, CommitFails
  <2>2. /\ store = "COMMITTING" /\ UNCHANGED <<store, prepared>>
        /\ pc = "commit" /\ i <= Len(prepared)
    BY <1>8 DEF CommitSucceeds, RetryCommit, CommitFails, PcInv
  <2>3. prepared[i] = i /\ i \in Branches
    BY <2>2 DEF PreparedInv, CommitInv, Branches
  <2>4. rm[i] \in {"prepared", "committed"}
    BY <2>2, <2>3 DEF StoreTellsBranches
  <2>5. QED
    BY <1>7, <2>1, <2>2, <2>3, <2>4 DEF Outcome
<1>9. CASE RollbackSucceeds \/ RetryRollback \/ RollbackFails
  <2>1. PICK err \in BOOLEAN : SecondPhase(prepared[i], "rolledback", err)
    BY <1>9 DEF RollbackSucceeds, RetryRollback, RollbackFails
  <2>2. /\ store = "ABORTING" /\ UNCHANGED <<store, prepared>>
        /\ pc = "abort" /\ i > 0 /\ i <= Len(prepared)
    BY <1>9 DEF RollbackSucceeds, RetryRollback, RollbackFails, PcInv
  <2>3. prepared[i] = i /\ i \in Branches
    BY <2>2 DEF PreparedInv, Branches
  <2>4. rm[i] \in {"prepared", "rolledback"}
    BY <2>2, <2>3 DEF AbortInv
  <2>5. QED
    BY <1>7, <2>1, <2>2, <2>3, <2>4 DEF Outcome
<1>10. CASE EndCommit \/ EndAbort \/ Suspend
  <2>1. prepared' = prepared /\ rm' = rm
    BY <1>10 DEF EndCommit, EndAbort, Suspend, locals, participants
  <2>2. Outcome' = Outcome
    <3>1. CASE EndCommit
      <4>1. store = "COMMITTING" /\ store' \in {"COMMITTING", "COMMITTED"}
        BY <3>1, AdvanceTells DEF EndCommit, PcInv
      <4>2. QED
        BY <4>1 DEF Outcome
    <3>2. CASE EndAbort
      <4>1. store = "ABORTING" /\ store' \in {"ABORTING", "ROLLEDBACK"}
        BY <3>2, AdvanceTells DEF EndAbort, PcInv
      <4>2. QED
        BY <4>1 DEF Outcome
    <3>3. CASE Suspend
      <4>1. /\ store \in {"COMMITTING", "ABORTING"}
            /\ store' \in {store, "SUSPENDED"}
        BY <3>3, AdvanceTells DEF Suspend, PcInv
      <4>2. QED
        BY <2>1, <4>1 DEF Outcome, OutcomeInv
    <3>4. QED
      BY <1>10, <3>1, <3>2, <3>3
  <2>3. QED
    BY <2>1, <2>2
<1>11. CASE Arrive
  <2>1. PICK b \in Branches : Land(b)
    BY <1>11 DEF Arrive
  <2>2. Outcome' = Outcome
    BY <1>11 DEF Arrive, locals, Outcome
  <2>3. Atomic!Prepare(b)
    BY <2>1, <2>2 DEF Land, Atomic!Prepare
  <2>4. QED
    BY <2>3 DEF Atomic!Next
<1>12. QED
  BY <1>1, <1>2, <1>3, <1>4, <1>5, <1>6, <1>8, <1>9, <1>10, <1>11
     DEF Next, Execute, RejectBegin, BranchContextDone, FailBranch, Crash,
         DieCalling,
         Reexecute, Terminated, locals, participants, vars

\* The executor, with its retries, its failing store and its crashes, does what
\* two-phase coordination promises.
THEOREM ImplementsAtomicCommit == Spec => AtomicSpec
<1>1. IInv /\ [Next]_vars => [Atomic!Next]_(Atomic!atomicVars)
  BY AtomicStep
<1>2. QED
  BY Invariance, AtomicInit, <1>1, PTL DEF Spec, AtomicSpec, Atomic!Spec
------------------------------------------------------------------------------
(***************************************************************************)
(* The contract of an executor, which modules that keep of it only its     *)
(* moves rely on.                                                          *)
(***************************************************************************)

Move ==
    \/ store' = store /\ state' \in {state, store}
    \/ /\ store = state
       /\ <<state, state'>> \in ExecutorMoves("XA")
       /\ store' \in {store, state'}

\* The moves of an executor among those of its table.
LEMMA Listed ==
    ASSUME NEW a, NEW b, CanTransition("XA", a, b), b # "FAILED",
           <<a, b>> # <<"PREPARED", "ABORTING">>,
           b = "SUSPENDED" => a \in {"COMMITTING", "ABORTING"}
    PROVE  <<a, b>> \in ExecutorMoves("XA")
<1>1. a \in {"COMMITTING", "ABORTING"} => IsRecoverable(a)
  <2>1. /\ Len(recoverableStates) = 6
        /\ recoverableStates[5] = "COMMITTING"
        /\ recoverableStates[6] = "ABORTING"
    BY DEF recoverableStates
  <2>2. QED
    BY <2>1 DEF IsRecoverable
<1>2. QED
  BY <1>1 DEF ExecutorMoves, CanTransition

LEMMA EveryMove ==
    ASSUME IInv, [Next]_vars
    PROVE  Move
<1>1. ASSUME NEW target, NEW err \in BOOLEAN, state = store,
             Advance("XA", target, err), target # "FAILED",
             <<state, target>> # <<"PREPARED", "ABORTING">>,
             target = "SUSPENDED" => state \in {"COMMITTING", "ABORTING"}
      PROVE  Move
  <2>1. /\ CanTransition("XA", state, target)
        /\ state' = target /\ store' \in {store, target}
    BY <1>1, AdvanceTells
  <2>2. QED
    BY <1>1, <2>1, Listed DEF Move
<1>2. CASE UNCHANGED <<state, store>> \/ Reexecute
  BY <1>2 DEF Move, Reexecute
<1>3. CASE Begin \/ RecordPrepared \/ BeginCommit \/ EndCommit
         \/ BeginAbort \/ EndAbort \/ Suspend
  <2>1. CASE Begin
    BY <2>1, <1>1 DEF Begin, PcInv, IInv
  <2>2. CASE RecordPrepared
    BY <2>2, <1>1 DEF RecordPrepared, PcInv, IInv
  <2>3. CASE BeginCommit
    BY <2>3, <1>1 DEF BeginCommit, PcInv, IInv
  <2>4. CASE EndCommit
    BY <2>4, <1>1 DEF EndCommit, PcInv, IInv
  <2>5. CASE BeginAbort
    BY <2>5, <1>1 DEF BeginAbort, PcInv, IInv
  <2>6. CASE EndAbort
    BY <2>6, <1>1 DEF EndAbort, PcInv, IInv
  <2>7. CASE Suspend
    BY <2>7, <1>1 DEF Suspend, PcInv, IInv
  <2>8. QED
    BY <1>3, <2>1, <2>2, <2>3, <2>4, <2>5, <2>6, <2>7
<1>4. QED
  BY <1>2, <1>3 DEF Next, Execute, Terminated,
         RejectBegin, PrepareSucceeds, RetryPrepare,
         PrepareFails, BranchContextDone, FailBranch,
         CommitSucceeds, RetryCommit, CommitFails,
         RollbackSucceeds, RetryRollback, RollbackFails, Crash,
         Arrive, Land, vars

\* The store moves only as listed in ExecutorMoves, and memory is at most one
\* legal move ahead of it, crashes and store failures included.
THEOREM ExecutorContract ==
    Spec => /\ []MemoryLeads("XA")
            /\ [][\/ store' = store
                  \/ <<store, store'>> \in ExecutorMoves("XA")]_vars
<1>1. Init => MemoryLeads("XA")
  BY DEF Init, MemoryLeads
<1>2. ASSUME IInv, [Next]_vars, MemoryLeads("XA")
      PROVE  MemoryLeads("XA")'
  BY <1>2, EveryMove DEF Move, MemoryLeads, ExecutorMoves, CanTransition
<1>3. ASSUME IInv, [Next]_vars
      PROVE  [\/ store' = store
              \/ <<store, store'>> \in ExecutorMoves("XA")]_vars
  BY <1>3, EveryMove DEF Move
<1>4. QED
  BY Invariance, <1>1, <1>2, <1>3, PTL DEF Spec

------------------------------------------------------------------------------
(***************************************************************************)
(* The executor implements TxExecution.  Its callers see the state of the  *)
(* transaction and of the store, whether Execute has returned and with or  *)
(* without an error, and whether this is the first call.                   *)
(***************************************************************************)
Returned ==
    IF result = "none" THEN "none"
    ELSE IF result = "committed" THEN "ok" ELSE "error"

Execution ==
    INSTANCE TxExecution WITH
        Mode <- "XA", outcome <- Returned, again <- executions > 1

\* The first call is given a new transaction.
FirstInv == pc = "begin" /\ executions = 1 => state = "PENDING"

\* There has been a call.
LEMMA ExecutionsCount ==
    ASSUME TypeOK
    PROVE  executions \in Nat /\ executions >= 1
<1>1. executions \in 1..MaxExecutions /\ MaxExecutions \in Nat
  BY XAAssumption DEF TypeOK
<1>2. QED
  BY <1>1

\* What a call finds that is not PENDING was loaded from the store.
LEMMA FirstCall ==
    Spec => []FirstInv
<1>1. Init => FirstInv
  BY DEF Init, FirstInv
<1>2. ASSUME IInv, FirstInv, [Next]_vars
      PROVE  FirstInv'
  <2>1. CASE Reexecute
    <3>1. executions \in Nat /\ executions >= 1
      BY <1>2, ExecutionsCount DEF IInv
    <3>2. executions' # 1
      BY <2>1, <3>1 DEF Reexecute
    <3>3. QED
      BY <3>2 DEF FirstInv
  <2>2. CASE /\ pc' # "begin" \/ (pc' = pc /\ state' = state)
             /\ executions' = executions
    BY <2>2, <1>2 DEF FirstInv
  <2>3. CASE Execute
    <3>1. CASE \/ Begin \/ RejectBegin \/ PrepareSucceeds \/ PrepareFails
               \/ BranchContextDone \/ RecordPrepared \/ BeginCommit
               \/ CommitFails \/ EndCommit \/ BeginAbort \/ EndAbort \/ Suspend
      <4>1. pc' # "begin"
        BY <3>1 DEF Begin, RejectBegin, PrepareSucceeds, PrepareFails,
                    BranchContextDone, RecordPrepared, BeginCommit,
                    CommitFails, EndCommit, BeginAbort, EndAbort, Suspend,
                    FailBranch, Loop, Goto, Return
      <4>2. QED
        BY <4>1 DEF FirstInv
    <3>2. CASE \/ RetryPrepare \/ CommitSucceeds \/ RetryCommit
               \/ RollbackSucceeds \/ RetryRollback \/ RollbackFails
      BY <3>2, <2>2 DEF RetryPrepare, CommitSucceeds, RetryCommit,
                        RollbackSucceeds, RetryRollback, RollbackFails
    <3>3. QED
      BY <2>3, <3>1, <3>2 DEF Execute
  <2>4. QED
    BY <1>2, <2>1, <2>2, <2>3
       DEF Next, Crash, Arrive, Terminated, vars
<1>3. QED
  BY Invariance, <1>1, <1>2, PTL DEF Spec

\* An advance whose error is returned is a Move of TxExecution.
LEMMA AdvanceIsMove ==
    ASSUME NEW target \in TxStates, NEW err \in BOOLEAN,
           target # "FAILED",
           <<state, target>> # <<"PREPARED", "ABORTING">>,
           target = "SUSPENDED" => state \in {"COMMITTING", "ABORTING"},
           Advance("XA", target, err), UNCHANGED executions,
           Returned = "none", Returned' = Execution!OutcomeOf(target, err)
    PROVE  Execution!Move
<1>1. <<state, target>> \in ExecutorMoves("XA")
  BY Listed DEF Advance
<1>2. <<state, target>> \in Execution!ExecutorMoves("XA")
  BY <1>1 DEF ExecutorMoves, Execution!ExecutorMoves, getTransitions,
         Execution!getTransitions, xaTransitions, Execution!xaTransitions,
         IsRecoverable, Execution!IsRecoverable, recoverableStates,
         Execution!recoverableStates
<1>3. Execution!Advance("XA", target, err)
  BY DEF Advance, Execution!Advance, UpdateTransactionState,
         Execution!UpdateTransactionState, CanTransition,
         Execution!CanTransition, getTransitions, Execution!getTransitions,
         xaTransitions, Execution!xaTransitions
<1>4. target \in Execution!TxStates
  BY DEF TxStates, Execution!TxStates
<1>5. QED
  BY <1>2, <1>3, <1>4 DEF Execution!Move

\* Each action is a Move, a GiveUp or a Reload, or a step that the callers do
\* not see.
LEMMA EveryStep ==
    ASSUME IInv, FirstInv, [Next]_vars
    PROVE  [Execution!Next]_(Execution!execution)
<1>1. executions \in Nat /\ executions >= 1
  BY ExecutionsCount DEF IInv
<1>2. pc # "returned" => Returned = "none"
  BY DEF IInv, PcInv, Returned
<1> DEFINE Out(target, err) == Execution!OutcomeOf(target, err)
<1>3. ASSUME NEW err \in BOOLEAN
      PROVE  /\ Out("PREPARING", err) = IF err THEN "error" ELSE "none"
             /\ Out("PREPARED", err) = IF err THEN "error" ELSE "none"
             /\ Out("COMMITTING", err) = IF err THEN "error" ELSE "none"
             /\ Out("COMMITTED", err) = IF err THEN "error" ELSE "ok"
             /\ Out("ABORTING", err) = IF err THEN "error" ELSE "none"
             /\ Out("ROLLEDBACK", err) = "error"
             /\ Out("SUSPENDED", err) = "error"
  BY DEF Execution!OutcomeOf, Execution!IsFinal, Execution!FinalStates
<1> HIDE DEF Out
<1>4. ASSUME NEW target \in {"PREPARING", "PREPARED", "COMMITTING",
                             "COMMITTED", "ABORTING", "ROLLEDBACK",
                             "SUSPENDED"},
             NEW err \in BOOLEAN, Advance("XA", target, err),
             target = "SUSPENDED" => state \in {"COMMITTING", "ABORTING"},
             target = "ABORTING" => state # "PREPARED",
             pc # "returned", UNCHANGED executions,
             Returned' = Out(target, err)
      PROVE  Execution!Next
  <2>1. /\ target \in TxStates /\ target # "FAILED"
        /\ <<state, target>> # <<"PREPARED", "ABORTING">>
    BY <1>4, Names
  <2>2. Returned' = Execution!OutcomeOf(target, err)
    BY <1>4 DEF Out
  <2>3. QED
    BY <1>2, <1>4, <2>1, <2>2, AdvanceIsMove DEF Execution!Next
<1>5. CASE Begin
  <2>1. PICK err \in BOOLEAN :
            /\ Advance("XA", "PREPARING", err)
            /\ IF err THEN Return("adapter_error") ELSE Loop(1)
    BY <1>5 DEF Begin
  <2>2. pc # "returned" /\ UNCHANGED executions
    BY <1>5 DEF Begin
  <2>3. Returned' = Out("PREPARING", err)
    BY <1>2, <1>3, <2>1, <2>2 DEF Return, Goto, Returned, Loop
  <2>4. QED
    BY <1>4, <2>1, <2>2, <2>3
<1>6. CASE RecordPrepared
  <2>1. PICK err \in BOOLEAN :
            /\ Advance("XA", "PREPARED", err)
            /\ IF err THEN Return("adapter_error") ELSE Goto("decide")
    BY <1>6 DEF RecordPrepared
  <2>2. pc # "returned" /\ UNCHANGED executions
    BY <1>6 DEF RecordPrepared
  <2>3. Returned' = Out("PREPARED", err)
    BY <1>2, <1>3, <2>1, <2>2 DEF Return, Goto, Returned
  <2>4. QED
    BY <1>4, <2>1, <2>2, <2>3
<1>7. CASE BeginCommit
  <2>1. PICK err \in BOOLEAN :
            /\ Advance("XA", "COMMITTING", err)
            /\ IF err THEN Return("adapter_error") ELSE Goto("commit")
    BY <1>7 DEF BeginCommit
  <2>2. pc # "returned" /\ UNCHANGED executions
    BY <1>7 DEF BeginCommit
  <2>3. Returned' = Out("COMMITTING", err)
    BY <1>2, <1>3, <2>1, <2>2 DEF Return, Goto, Returned
  <2>4. QED
    BY <1>4, <2>1, <2>2, <2>3
<1>8. CASE EndCommit
  <2>1. PICK err \in BOOLEAN :
            /\ Advance("XA", "COMMITTED", err)
            /\ Return(IF err THEN "adapter_error" ELSE "committed")
    BY <1>8 DEF EndCommit
  <2>2. pc # "returned" /\ UNCHANGED executions
    BY <1>8 DEF EndCommit
  <2>3. Returned' = Out("COMMITTED", err)
    BY <1>3, <2>1 DEF Return, Returned
  <2>4. QED
    BY <1>4, <2>1, <2>2, <2>3
<1>9. CASE BeginAbort
  <2>1. PICK err \in BOOLEAN :
            /\ Advance("XA", "ABORTING", err)
            /\ IF err THEN Return("rollback_failed") ELSE Goto("abort")
    BY <1>9 DEF BeginAbort
  <2>2. pc # "returned" /\ UNCHANGED executions
    BY <1>9 DEF BeginAbort
  <2>3. Returned' = Out("ABORTING", err)
    BY <1>2, <1>3, <2>1, <2>2 DEF Return, Goto, Returned
  <2>4. state # "PREPARED"
    BY <1>9 DEF BeginAbort, IInv, PcInv
  <2>5. QED
    BY <1>4, <2>1, <2>2, <2>3, <2>4
<1>10. CASE EndAbort
  <2>1. PICK err \in BOOLEAN :
            /\ Advance("XA", "ROLLEDBACK", err)
            /\ Return(IF err THEN "rollback_failed" ELSE "rolledback")
    BY <1>10 DEF EndAbort
  <2>2. pc # "returned" /\ UNCHANGED executions
    BY <1>10 DEF EndAbort
  <2>3. Returned' = Out("ROLLEDBACK", err)
    BY <1>3, <2>1 DEF Return, Returned
  <2>4. QED
    BY <1>4, <2>1, <2>2, <2>3
<1>11. CASE Suspend
  <2>1. PICK err \in BOOLEAN : Advance("XA", "SUSPENDED", err)
    BY <1>11 DEF Suspend
  <2>2. pc # "returned" /\ UNCHANGED executions
    BY <1>11 DEF Suspend
  <2>3. Returned' = Out("SUSPENDED", err)
    BY <1>3, <1>11, <2>1 DEF Suspend, Return, Returned
  <2>4. state \in {"COMMITTING", "ABORTING"}
    BY <1>11 DEF Suspend, IInv, PcInv
  <2>5. QED
    BY <1>4, <2>1, <2>2, <2>3, <2>4
<1>12. CASE RejectBegin
  <2>1. executions > 1 /\ state # "PENDING"
    BY <1>1, <1>12, Moves DEF RejectBegin, FirstInv
  <2>2. Returned = "none" /\ Returned' = "error"
    BY <1>2, <1>12 DEF RejectBegin, Return, Returned
  <2>3. QED
    BY <1>12, <2>1, <2>2 DEF RejectBegin, Execution!Next, Execution!GiveUp
<1>13. CASE Reexecute
  <2>1. executions' > 1
    BY <1>1, <1>13 DEF Reexecute
  <2>2. QED
    BY <1>13, <2>1
       DEF Reexecute, Returned, Execution!Next, Execution!Reload
<1>14. CASE UNCHANGED <<state, store, result, executions>>
  BY <1>14 DEF Returned, Execution!execution
<1>15. CASE Execute
  BY <1>15, <1>5, <1>6, <1>7, <1>8, <1>9, <1>10, <1>11, <1>12, <1>14
     DEF Execute, PrepareSucceeds, PrepareFails, BranchContextDone,
         CommitFails, RetryPrepare, CommitSucceeds, RetryCommit,
         RollbackSucceeds, RetryRollback, RollbackFails, FailBranch, Loop, Goto
<1>16. QED
  BY <1>13, <1>14, <1>15
     DEF Next, Crash, Arrive, Terminated, vars

\* The executor implements TxExecution: whatever its resources, its retries and its
\* store do, and wherever it crashes, a caller sees no other steps.
THEOREM ImplementsExecution ==
    Spec => Execution!Spec
<1>1. Init => Execution!Init
  BY DEF Init, Returned, Execution!Init
<1>2. ASSUME IInv, FirstInv, [Next]_vars
      PROVE  [Execution!Next]_(Execution!execution)
  BY <1>2, EveryStep
<1>3. QED
  BY Invariance, FirstCall, <1>1, <1>2, PTL DEF Spec, Execution!Spec
=============================================================================
