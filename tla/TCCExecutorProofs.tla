------------------------- MODULE TCCExecutorProofs -------------------------
(***************************************************************************)
(* Proofs about TCCExecutor, for any number of branches, any retry counts  *)
(* and any faults of branches and store.                                   *)
(***************************************************************************)
EXTENDS TCCExecutor, TLAPS

(***************************************************************************)
(* The inductive invariant: at each control point the executor and the     *)
(* store agree on the phase, and each phase says how far the branches      *)
(* before and after the loop index are.                                    *)
(***************************************************************************)

\* triedBranches lists the first branches, in order.
TriedInv ==
    /\ Len(tried) <= N
    /\ \A j \in 1..Len(tried) : tried[j] = j

PcInv ==
    /\ pc = "begin" => state = store
    /\ pc \in {"try", "tried", "turn"} =>
           state = "TRYING" /\ store = "TRYING"
    /\ pc \in {"try", "turn"} => i \in Branches /\ i = Len(tried) + 1
    /\ pc \in {"tried", "confirm", "suspend"} => Len(tried) = N
    /\ pc \in {"confirm", "suspend"} =>
           state = "CONFIRMING" /\ store = "CONFIRMING"
    /\ pc = "turn" => status[i] = "FAILED"
    /\ pc = "cancel" =>
           state = "CANCELING" /\ store = "CANCELING" /\ i <= Len(tried)
    /\ pc # "returned" => result = "none"

\* What the stored state says of triedBranches, which decides the outcome.
OutcomeInv ==
    /\ store \in {"CONFIRMING", "COMMITTED"} => Len(tried) = N
    /\ store \in {"CANCELING", "ROLLEDBACK"} => Len(tried) < N

PendingInv ==
    store = "PENDING" => ~lastErr /\ \A b \in Branches : status[b] = "none"

TryingInv ==
    store = "TRYING" =>
        /\ ~lastErr
        /\ \A b \in Branches :
              /\ rm[b] \in {"working", "prepared"}
              /\ b <= Len(tried) =>
                     rm[b] = "prepared" /\ status[b] = "PREPARED"
              /\ b > Len(tried) => status[b] \in {"none", "FAILED"}
              /\ pc \in {"try", "turn"} /\ rm[b] = "prepared" =>
                     b \in inflight \/ b <= i
              /\ CallFaults = {} /\ rm[b] = "prepared" => b <= Len(tried)

ConfirmInv ==
    pc = "confirm" =>
        /\ i >= 1
        /\ \A b \in Branches : b < i => rm[b] = "committed"

CancelInv ==
    pc = "cancel" =>
        \A b \in Branches :
           /\ b <= i => rm[b] \in {"prepared",
                                   "rolledback"} /\ status[b] = "PREPARED"
           /\ b > i => status[b] # "PREPARED"
           /\ ~lastErr /\ rm[b] = "prepared" =>
                  b \in inflight \/ b <= i \/ b = Len(tried) + 1
           /\ CallFaults = {} /\ ~lastErr /\ rm[b] = "prepared" => b <= i

InflightInv == CallFaults = {} => inflight = {}

\* A branch that is told the end is told the outcome.
DecidedInv ==
    \A b \in Branches :
       /\ rm[b] = "committed" => Outcome = "commit"
       /\ rm[b] = "rolledback" => Outcome = "abort"

IInv ==
    /\ TypeOK
    /\ TriedInv /\ PcInv /\ OutcomeInv
    /\ PendingInv /\ TryingInv /\ ConfirmInv /\ CancelInv
    /\ InflightInv /\ DecidedInv
    /\ StoreTellsBranches /\ ResultTellsStore

------------------------------------------------------------------------------
(***************************************************************************)
(* The table and the two calls of an advance.                              *)
(***************************************************************************)

\* The moves of the table, one successor list to a line.
LEMMA Moves ==
    ASSUME NEW a, NEW b
    PROVE  CanTransition("TCC", a, b) <=>
             \/ a = "PENDING" /\ b = "TRYING"
             \/ a = "TRYING" /\ b \in {"CONFIRMING", "CANCELING", "FAILED",
                                       "SUSPENDED"}
             \/ a = "CONFIRMING" /\ b \in {"COMMITTED", "FAILED", "SUSPENDED"}
             \/ a = "CANCELING" /\ b \in {"ROLLEDBACK", "FAILED", "SUSPENDED"}
  BY DEF CanTransition, getTransitions, tccTransitions

\* When memory and store agree, an advance moves memory; it moves the store too
\* unless an error is returned, and only a faulty store returns one.
LEMMA AdvanceTells ==
    ASSUME NEW target, NEW err \in BOOLEAN, state = store,
           Advance("TCC", target, err)
    PROVE  /\ CanTransition("TCC", state, target)
           /\ state' = target
           /\ store' \in {store, target}
           /\ ~err => store' = target
           /\ StoreFaults = {} => ~err
  BY DEF Advance, UpdateTransactionState

\* The states and results that the executor names are states and results.
LEMMA Names ==
    /\ {"PENDING", "TRYING", "CONFIRMING", "CANCELING",
        "COMMITTED", "ROLLEDBACK", "SUSPENDED"} \subseteq TxStates
    /\ Results = {"none", "rejected", "adapter_error", "committed",
                  "confirm_failed", "rolledback", "cancel_failed"}
  BY DEF TxStates, Results

\* What typing says, with the sets of names left folded where only membership
\* of a variable matters.
LEMMA Types ==
    ASSUME TypeOK
    PROVE  /\ i \in Nat /\ N \in Nat
           /\ tried \in Seq(Branches) /\ Len(tried) \in Nat
           /\ \A b \in Branches : b \in Nat /\ b >= 1 /\ b <= N
           /\ status \in [Branches -> {"none", "PREPARED", "FAILED",
                                       "COMMITTED",
                                       "ROLLEDBACK"}]
           /\ rm \in [Branches -> {"working", "prepared", "committed",
                                   "rolledback"}]
           /\ inflight \subseteq Branches
  BY ParticipantsAssumption DEF TypeOK, ParticipantsTypeOK, Branches

------------------------------------------------------------------------------
(***************************************************************************)
(* IInv is an invariant.                                                   *)
(***************************************************************************)

LEMMA InitIInv == Init => IInv
<1> SUFFICES ASSUME Init PROVE IInv
  OBVIOUS
<1> USE DEF Init, ParticipantsInit
<1>1. TypeOK
  <2>1. state \in TxStates /\ store \in TxStates
    BY DEF TxStates
  <2>2. i \in 0..(N + 1) /\ executions \in 1..MaxExecutions
    BY ParticipantsAssumption, TCCAssumption
  <2>3. tried \in Seq(Branches)
    OBVIOUS
  <2>4. /\ status \in [Branches -> {"none", "PREPARED", "FAILED", "COMMITTED",
                                    "ROLLEDBACK"}]
        /\ ParticipantsTypeOK
    BY DEF ParticipantsTypeOK
  <2>5. QED
    BY <2>1, <2>2, <2>3, <2>4 DEF TypeOK, Results
<1>2. TriedInv /\ PcInv /\ OutcomeInv
  BY ParticipantsAssumption DEF TriedInv, PcInv, OutcomeInv
<1>3. PendingInv /\ TryingInv /\ ConfirmInv /\ CancelInv /\ InflightInv
  BY DEF PendingInv, TryingInv, ConfirmInv, CancelInv, InflightInv
<1>4. DecidedInv /\ StoreTellsBranches /\ ResultTellsStore
  BY DEF DecidedInv, StoreTellsBranches, ResultTellsStore
<1>5. QED
  BY <1>1, <1>2, <1>3, <1>4 DEF IInv

\* Every step keeps the invariant.
LEMMA NextIInv ==
    ASSUME IInv, [Next]_vars
    PROVE  IInv'
<1> USE ParticipantsAssumption, TCCAssumption, Names, Types DEF IInv
<1>1. CASE Begin
  <2> USE <1>1 DEF Begin, Loop, Goto, Return, participants
  <2>1. PICK err \in BOOLEAN :
              /\ Advance("TCC", "TRYING", err)
              /\ IF err THEN Return("adapter_error") ELSE Loop(1)
    OBVIOUS
  <2>2. /\ store = "PENDING" /\ state' = "TRYING"
        /\ store' \in {store, "TRYING"}
        /\ ~err => store' = "TRYING"
        /\ StoreFaults = {} => ~err
    BY <2>1, AdvanceTells, Moves DEF PcInv
  <2>3. TypeOK'
    <3>1. pc' \in {"begin", "try", "tried", "confirm", "suspend", "turn",
                   "cancel", "returned", "crashed"} /\ result' \in Results
      BY <2>1, <2>2 DEF TypeOK
    <3>2. state' \in TxStates /\ store' \in TxStates
      BY <2>1, <2>2 DEF TypeOK
    <3>3. i' \in 0..(N + 1) /\ tried' \in Seq(Branches)
      BY <2>1, <2>2 DEF TypeOK, TriedInv
    <3>4. QED
      BY <2>1, <2>2, <3>1, <3>2, <3>3 DEF TypeOK, ParticipantsTypeOK
  <2>4. (TriedInv /\ PcInv)'
    BY <2>1, <2>2 DEF TriedInv, PcInv, Branches
  <2>5. (OutcomeInv /\ PendingInv /\ InflightInv)'
    BY <2>1, <2>2 DEF OutcomeInv, PendingInv, InflightInv
  <2>6. TryingInv'
    BY <2>1, <2>2 DEF TryingInv, PendingInv, StoreTellsBranches
  <2>7. (ConfirmInv /\ CancelInv)'
    BY <2>1, <2>2 DEF ConfirmInv, CancelInv
  <2>8. DecidedInv'
    BY <2>1, <2>2 DEF DecidedInv, Outcome, StoreTellsBranches
  <2>9. StoreTellsBranches'
    BY <2>1, <2>2 DEF StoreTellsBranches, PcInv
  <2>10. ResultTellsStore'
    BY <2>1, <2>2 DEF ResultTellsStore, PcInv
  <2>11. QED
    BY <2>3, <2>4, <2>5, <2>6, <2>7, <2>8, <2>9, <2>10
<1>2. CASE BeginConfirm
  <2> USE <1>2 DEF BeginConfirm, Goto, Return, participants
  <2>1. PICK err \in BOOLEAN :
              /\ Advance("TCC", "CONFIRMING", err)
              /\ IF err THEN Return("adapter_error") ELSE Goto("confirm")
    OBVIOUS
  <2>2. /\ store = "TRYING" /\ state' = "CONFIRMING"
        /\ store' \in {store, "CONFIRMING"}
        /\ ~err => store' = "CONFIRMING"
        /\ StoreFaults = {} => ~err
    BY <2>1, AdvanceTells, Moves DEF PcInv
  <2>3. TypeOK'
    <3>1. pc' \in {"begin", "try", "tried", "confirm", "suspend", "turn",
                   "cancel", "returned", "crashed"} /\ result' \in Results
      BY <2>1, <2>2 DEF TypeOK
    <3>2. state' \in TxStates /\ store' \in TxStates
      BY <2>1, <2>2 DEF TypeOK
    <3>3. i' \in 0..(N + 1) /\ tried' \in Seq(Branches)
      BY <2>1, <2>2 DEF TypeOK, TriedInv
    <3>4. QED
      BY <2>1, <2>2, <3>1, <3>2, <3>3 DEF TypeOK, ParticipantsTypeOK
  <2>4. (TriedInv /\ PcInv)'
    BY <2>1, <2>2 DEF TriedInv, PcInv
  <2>5. (OutcomeInv /\ PendingInv /\ InflightInv)'
    BY <2>1, <2>2 DEF OutcomeInv, PendingInv, InflightInv, PcInv
  <2>6. TryingInv'
    BY <2>1, <2>2 DEF TryingInv, PcInv
  <2>7. (ConfirmInv /\ CancelInv)'
    BY <2>1, <2>2 DEF ConfirmInv, CancelInv
  <2>8. DecidedInv'
    BY <2>1, <2>2 DEF DecidedInv, Outcome, PcInv
  <2>9. StoreTellsBranches'
    BY <2>1, <2>2 DEF StoreTellsBranches, PcInv, TryingInv
  <2>10. ResultTellsStore'
    BY <2>1, <2>2 DEF ResultTellsStore, PcInv
  <2>11. QED
    BY <2>3, <2>4, <2>5, <2>6, <2>7, <2>8, <2>9, <2>10
<1>3. CASE EndConfirm
  <2> USE <1>3 DEF EndConfirm, Return, locals, participants
  <2>1. PICK err \in BOOLEAN :
              /\ Advance("TCC", "COMMITTED", err)
              /\ Return(IF err THEN "adapter_error" ELSE "committed")
    OBVIOUS
  <2>2. /\ store = "CONFIRMING" /\ state' = "COMMITTED"
        /\ store' \in {store, "COMMITTED"}
        /\ ~err => store' = "COMMITTED"
        /\ StoreFaults = {} => ~err
    BY <2>1, AdvanceTells, Moves DEF PcInv
  <2>3. TypeOK'
    BY <2>1, <2>2 DEF TypeOK, ParticipantsTypeOK
  <2>4. (TriedInv /\ PcInv)'
    BY <2>1, <2>2 DEF TriedInv, PcInv
  <2>5. (OutcomeInv /\ PendingInv /\ InflightInv)'
    BY <2>1, <2>2 DEF OutcomeInv, PendingInv, InflightInv, PcInv
  <2>6. TryingInv'
    BY <2>1, <2>2 DEF TryingInv, PcInv
  <2>7. (ConfirmInv /\ CancelInv)'
    BY <2>1, <2>2 DEF ConfirmInv, CancelInv
  <2>8. DecidedInv'
    BY <2>1, <2>2 DEF DecidedInv, Outcome, PcInv
  <2>9. StoreTellsBranches'
    BY <2>1, <2>2 DEF StoreTellsBranches, PcInv, ConfirmInv
  <2>10. ResultTellsStore'
    BY <2>1, <2>2 DEF ResultTellsStore, PcInv
  <2>11. QED
    BY <2>3, <2>4, <2>5, <2>6, <2>7, <2>8, <2>9, <2>10
<1>4. CASE BeginCancel
  <2> USE <1>4 DEF BeginCancel, Goto, Return, participants
  <2>1. PICK err \in BOOLEAN :
              /\ Advance("TCC", "CANCELING", err)
              /\ IF err THEN Return("cancel_failed") ELSE Goto("cancel")
    OBVIOUS
  <2>2. /\ store = "TRYING" /\ state' = "CANCELING"
        /\ store' \in {store, "CANCELING"}
        /\ ~err => store' = "CANCELING"
        /\ StoreFaults = {} => ~err
    BY <2>1, AdvanceTells, Moves DEF PcInv
  <2>3. TypeOK'
    <3>1. pc' \in {"begin", "try", "tried", "confirm", "suspend", "turn",
                   "cancel", "returned", "crashed"} /\ result' \in Results
      BY <2>1, <2>2 DEF TypeOK
    <3>2. state' \in TxStates /\ store' \in TxStates
      BY <2>1, <2>2 DEF TypeOK
    <3>3. i' \in 0..(N + 1) /\ tried' \in Seq(Branches)
      BY <2>1, <2>2 DEF TypeOK, TriedInv
    <3>4. QED
      BY <2>1, <2>2, <3>1, <3>2, <3>3 DEF TypeOK, ParticipantsTypeOK
  <2>4. (TriedInv /\ PcInv)'
    BY <2>1, <2>2 DEF TriedInv, PcInv
  <2>5. (OutcomeInv /\ PendingInv /\ InflightInv)'
    BY <2>1, <2>2 DEF OutcomeInv, PendingInv, InflightInv, PcInv
  <2>6. TryingInv'
    BY <2>1, <2>2 DEF TryingInv, PcInv
  <2>7. (ConfirmInv /\ CancelInv)'
    BY <2>1, <2>2 DEF ConfirmInv, CancelInv, PcInv, TryingInv
  <2>8. DecidedInv'
    BY <2>1, <2>2 DEF DecidedInv, Outcome, PcInv
  <2>9. StoreTellsBranches'
    BY <2>1, <2>2 DEF StoreTellsBranches, PcInv, TryingInv
  <2>10. ResultTellsStore'
    BY <2>1, <2>2 DEF ResultTellsStore, PcInv
  <2>11. QED
    BY <2>3, <2>4, <2>5, <2>6, <2>7, <2>8, <2>9, <2>10
<1>5. CASE EndCancel
  <2> USE <1>5 DEF EndCancel, Return, locals, participants
  <2>1. PICK err \in BOOLEAN :
              /\ Advance("TCC", "ROLLEDBACK", err)
              /\ Return(IF err THEN "cancel_failed" ELSE "rolledback")
    OBVIOUS
  <2>2. /\ store = "CANCELING" /\ state' = "ROLLEDBACK"
        /\ store' \in {store, "ROLLEDBACK"}
        /\ ~err => store' = "ROLLEDBACK"
        /\ StoreFaults = {} => ~err
    BY <2>1, AdvanceTells, Moves DEF PcInv
  <2>3. TypeOK'
    BY <2>1, <2>2 DEF TypeOK, ParticipantsTypeOK
  <2>4. (TriedInv /\ PcInv)'
    BY <2>1, <2>2 DEF TriedInv, PcInv
  <2>5. (OutcomeInv /\ PendingInv /\ InflightInv)'
    BY <2>1, <2>2 DEF OutcomeInv, PendingInv, InflightInv, PcInv
  <2>6. TryingInv'
    BY <2>1, <2>2 DEF TryingInv, PcInv
  <2>7. (ConfirmInv /\ CancelInv)'
    BY <2>1, <2>2 DEF ConfirmInv, CancelInv
  <2>8. DecidedInv'
    BY <2>1, <2>2 DEF DecidedInv, Outcome, PcInv
  <2>9. StoreTellsBranches'
    BY <2>1, <2>2 DEF StoreTellsBranches, PcInv, CancelInv
  <2>10. ResultTellsStore'
    BY <2>1, <2>2 DEF ResultTellsStore, PcInv
  <2>11. QED
    BY <2>3, <2>4, <2>5, <2>6, <2>7, <2>8, <2>9, <2>10
<1>6. CASE Suspend
  <2> USE <1>6 DEF Suspend, Return, locals, participants
  <2>1. PICK err \in BOOLEAN : Advance("TCC", "SUSPENDED", err)
    OBVIOUS
  <2>2. /\ store \in {"CONFIRMING", "CANCELING"} /\ state' = "SUSPENDED"
        /\ store' \in {store, "SUSPENDED"}
        /\ StoreFaults = {} => store' = "SUSPENDED"
    BY <2>1, AdvanceTells DEF PcInv
  <2>3. TypeOK'
    BY <2>1, <2>2 DEF TypeOK, ParticipantsTypeOK
  <2>4. (TriedInv /\ PcInv)'
    BY <2>1, <2>2 DEF TriedInv, PcInv
  <2>5. (OutcomeInv /\ PendingInv /\ InflightInv)'
    BY <2>1, <2>2 DEF OutcomeInv, PendingInv, InflightInv, PcInv
  <2>6. TryingInv'
    BY <2>1, <2>2 DEF TryingInv, PcInv
  <2>7. (ConfirmInv /\ CancelInv)'
    BY <2>1, <2>2 DEF ConfirmInv, CancelInv
  <2>8. DecidedInv'
    BY <2>1, <2>2 DEF DecidedInv, Outcome, PcInv, OutcomeInv
  <2>9. StoreTellsBranches'
    BY <2>1, <2>2 DEF StoreTellsBranches, PcInv
  <2>10. ResultTellsStore'
    BY <2>1, <2>2 DEF ResultTellsStore, PcInv
  <2>11. QED
    BY <2>3, <2>4, <2>5, <2>6, <2>7, <2>8, <2>9, <2>10
<1>7. CASE RejectBegin
  <2> USE <1>7 DEF RejectBegin, Return, locals, participants
  <2>1. TypeOK'
    BY DEF TypeOK, ParticipantsTypeOK
  <2>2. (TriedInv /\ PcInv)'
    BY DEF TriedInv, PcInv
  <2>3. (OutcomeInv /\ PendingInv /\ InflightInv)'
    BY DEF OutcomeInv, PendingInv, InflightInv, PcInv
  <2>4. TryingInv'
    BY DEF TryingInv, PcInv
  <2>5. (ConfirmInv /\ CancelInv)'
    BY DEF ConfirmInv, CancelInv
  <2>6. DecidedInv'
    BY DEF DecidedInv, Outcome, PcInv
  <2>7. StoreTellsBranches'
    BY DEF StoreTellsBranches, PcInv
  <2>8. ResultTellsStore'
    BY DEF ResultTellsStore, PcInv
  <2>9. QED
    BY <2>1, <2>2, <2>3, <2>4, <2>5, <2>6, <2>7, <2>8
<1>8. CASE TrySucceeds
  <2> USE <1>8 DEF TrySucceeds, FirstPhase, Loop, Goto, participants
  <2>1. TypeOK'
    <3>1. i \in Branches
      BY DEF PcInv
    <3>2. ParticipantsTypeOK'
      BY <3>1 DEF ParticipantsTypeOK
    <3>3. tried' \in Seq(Branches) /\ i' \in 0..(N + 1)
      BY <3>1
    <3>4. status' \in [Branches -> {"none", "PREPARED", "FAILED", "COMMITTED",
                                    "ROLLEDBACK"}]
      BY <3>1
    <3>5. QED
      BY <3>2, <3>3, <3>4 DEF TypeOK
  <2>2. (TriedInv /\ PcInv)'
    BY DEF TriedInv, PcInv, Branches
  <2>3. (OutcomeInv /\ PendingInv /\ InflightInv)'
    BY DEF OutcomeInv, PendingInv, InflightInv, PcInv
  <2>4. TryingInv'
    BY DEF TryingInv, PcInv
  <2>5. (ConfirmInv /\ CancelInv)'
    BY DEF ConfirmInv, CancelInv
  <2>6. DecidedInv'
    BY DEF DecidedInv, Outcome, PcInv
  <2>7. StoreTellsBranches'
    BY DEF StoreTellsBranches, PcInv
  <2>8. ResultTellsStore'
    BY DEF ResultTellsStore, PcInv
  <2>9. QED
    BY <2>1, <2>2, <2>3, <2>4, <2>5, <2>6, <2>7, <2>8
<1>9. CASE RetryTry
  <2> USE <1>9 DEF RetryTry, FirstPhase, participants
  <2>1. TypeOK'
    <3>1. i \in Branches
      BY DEF PcInv
    <3>2. ParticipantsTypeOK'
      BY <3>1 DEF ParticipantsTypeOK
    <3>3. attempt' \in Nat
      BY DEF TypeOK
    <3>5. QED
      BY <3>2, <3>3 DEF TypeOK
  <2>2. (TriedInv /\ PcInv)'
    BY DEF TriedInv, PcInv
  <2>3. (OutcomeInv /\ PendingInv /\ InflightInv)'
    BY DEF OutcomeInv, PendingInv, InflightInv, PcInv
  <2>4. TryingInv'
    BY DEF TryingInv, PcInv
  <2>5. (ConfirmInv /\ CancelInv)'
    BY DEF ConfirmInv, CancelInv
  <2>6. DecidedInv'
    BY DEF DecidedInv, Outcome, PcInv
  <2>7. StoreTellsBranches'
    BY DEF StoreTellsBranches, PcInv
  <2>8. ResultTellsStore'
    BY DEF ResultTellsStore, PcInv
  <2>9. QED
    BY <2>1, <2>2, <2>3, <2>4, <2>5, <2>6, <2>7, <2>8
<1>10. CASE TryFails
  <2> USE <1>10 DEF TryFails, FailBranch, FirstPhase, Goto, participants
  <2>1. TypeOK'
    <3>1. i \in Branches
      BY DEF PcInv
    <3>2. ParticipantsTypeOK'
      BY <3>1 DEF ParticipantsTypeOK
    <3>3. status' \in [Branches -> {"none", "PREPARED", "FAILED", "COMMITTED",
                                    "ROLLEDBACK"}]
      BY <3>1
    <3>5. QED
      BY <3>2, <3>3 DEF TypeOK
  <2>2. (TriedInv /\ PcInv)'
    BY DEF TriedInv, PcInv
  <2>3. (OutcomeInv /\ PendingInv /\ InflightInv)'
    BY DEF OutcomeInv, PendingInv, InflightInv, PcInv
  <2>4. TryingInv'
    BY DEF TryingInv, PcInv
  <2>5. (ConfirmInv /\ CancelInv)'
    BY DEF ConfirmInv, CancelInv
  <2>6. DecidedInv'
    BY DEF DecidedInv, Outcome, PcInv
  <2>7. StoreTellsBranches'
    BY DEF StoreTellsBranches, PcInv
  <2>8. ResultTellsStore'
    BY DEF ResultTellsStore, PcInv
  <2>9. QED
    BY <2>1, <2>2, <2>3, <2>4, <2>5, <2>6, <2>7, <2>8
<1>11. CASE BranchContextDone
  <2> USE <1>11 DEF BranchContextDone, FailBranch, Goto, participants
  <2>1. TypeOK'
    BY DEF TypeOK, ParticipantsTypeOK, PcInv
  <2>2. (TriedInv /\ PcInv)'
    BY DEF TriedInv, PcInv
  <2>3. (OutcomeInv /\ PendingInv /\ InflightInv)'
    BY DEF OutcomeInv, PendingInv, InflightInv, PcInv
  <2>4. TryingInv'
    BY DEF TryingInv, PcInv
  <2>5. (ConfirmInv /\ CancelInv)'
    BY DEF ConfirmInv, CancelInv
  <2>6. DecidedInv'
    BY DEF DecidedInv, Outcome, PcInv
  <2>7. StoreTellsBranches'
    BY DEF StoreTellsBranches, PcInv
  <2>8. ResultTellsStore'
    BY DEF ResultTellsStore, PcInv
  <2>9. QED
    BY <2>1, <2>2, <2>3, <2>4, <2>5, <2>6, <2>7, <2>8
<1>12. CASE ConfirmSucceeds
  <2> USE <1>12 DEF ConfirmSucceeds, SecondPhase
  <2>1. tried[i] = i /\ i \in Branches
    BY DEF TriedInv, PcInv, ConfirmInv, Branches
  <2>2. TypeOK'
    <3>1. ParticipantsTypeOK'
      BY <2>1 DEF ParticipantsTypeOK
    <3>2. status' \in [Branches -> {"none", "PREPARED", "FAILED", "COMMITTED",
                                    "ROLLEDBACK"}]
      BY <2>1
    <3>3. i' \in 0..(N + 1)
      BY <2>1 DEF Branches
    <3>4. attempt' \in Nat /\ lastErr' \in BOOLEAN
      BY DEF TypeOK
    <3>5. QED
      BY <3>1, <3>2, <3>3, <3>4 DEF TypeOK
  <2>3. (TriedInv /\ PcInv)'
    BY <2>1 DEF TriedInv, PcInv
  <2>4. (OutcomeInv /\ PendingInv /\ InflightInv)'
    BY <2>1 DEF OutcomeInv, PendingInv, InflightInv, PcInv
  <2>5. TryingInv'
    BY <2>1 DEF TryingInv, PcInv
  <2>6. (ConfirmInv /\ CancelInv)'
    <3>1. i' = i + 1 /\ pc' = pc /\ rm'[i] = "committed"
      BY <2>1
    <3>2. \A b \in Branches : b < i + 1 => b = i \/ b < i
      BY <2>1
    <3>3. \A b \in Branches : b # i => rm'[b] = rm[b]
      BY <2>1
    <3>4. \A b \in Branches : b < i + 1 => rm'[b] = "committed"
      BY <3>1, <3>2, <3>3 DEF ConfirmInv
    <3>5. CancelInv'
      BY <3>1 DEF CancelInv
    <3>6. QED
      BY <3>1, <3>4, <3>5 DEF ConfirmInv
  <2>7. DecidedInv'
    BY <2>1 DEF DecidedInv, Outcome, PcInv
  <2>8. StoreTellsBranches'
    BY <2>1 DEF StoreTellsBranches, PcInv
  <2>9. ResultTellsStore'
    BY <2>1 DEF ResultTellsStore, PcInv
  <2>10. QED
    BY <2>2, <2>3, <2>4, <2>5, <2>6, <2>7, <2>8, <2>9
<1>13. CASE RetryConfirm
  <2> USE <1>13 DEF RetryConfirm, SecondPhase
  <2>1. tried[i] = i /\ i \in Branches
    BY DEF TriedInv, PcInv, ConfirmInv, Branches
  <2>2. TypeOK'
    <3>1. ParticipantsTypeOK'
      BY <2>1 DEF ParticipantsTypeOK
    <3>2. status' \in [Branches -> {"none", "PREPARED", "FAILED", "COMMITTED",
                                    "ROLLEDBACK"}]
      BY <2>1
    <3>3. i' \in 0..(N + 1)
      BY <2>1 DEF Branches
    <3>4. attempt' \in Nat /\ lastErr' \in BOOLEAN
      BY DEF TypeOK
    <3>5. QED
      BY <3>1, <3>2, <3>3, <3>4 DEF TypeOK
  <2>3. (TriedInv /\ PcInv)'
    BY <2>1 DEF TriedInv, PcInv
  <2>4. (OutcomeInv /\ PendingInv /\ InflightInv)'
    BY <2>1 DEF OutcomeInv, PendingInv, InflightInv, PcInv
  <2>5. TryingInv'
    BY <2>1 DEF TryingInv, PcInv
  <2>6. (ConfirmInv /\ CancelInv)'
    BY <2>1 DEF ConfirmInv, CancelInv
  <2>7. DecidedInv'
    BY <2>1 DEF DecidedInv, Outcome, PcInv
  <2>8. StoreTellsBranches'
    BY <2>1 DEF StoreTellsBranches, PcInv
  <2>9. ResultTellsStore'
    BY <2>1 DEF ResultTellsStore, PcInv
  <2>10. QED
    BY <2>2, <2>3, <2>4, <2>5, <2>6, <2>7, <2>8, <2>9
<1>14. CASE ConfirmFails
  <2> USE <1>14 DEF ConfirmFails, SecondPhase, Goto
  <2>1. tried[i] = i /\ i \in Branches
    BY DEF TriedInv, PcInv, ConfirmInv, Branches
  <2>2. TypeOK'
    <3>1. ParticipantsTypeOK'
      BY <2>1 DEF ParticipantsTypeOK
    <3>2. status' \in [Branches -> {"none", "PREPARED", "FAILED", "COMMITTED",
                                    "ROLLEDBACK"}]
      BY <2>1
    <3>3. i' \in 0..(N + 1)
      BY <2>1 DEF Branches
    <3>4. attempt' \in Nat /\ lastErr' \in BOOLEAN
      BY DEF TypeOK
    <3>5. QED
      BY <3>1, <3>2, <3>3, <3>4 DEF TypeOK
  <2>3. (TriedInv /\ PcInv)'
    BY <2>1 DEF TriedInv, PcInv
  <2>4. (OutcomeInv /\ PendingInv /\ InflightInv)'
    BY <2>1 DEF OutcomeInv, PendingInv, InflightInv, PcInv
  <2>5. TryingInv'
    BY <2>1 DEF TryingInv, PcInv
  <2>6. (ConfirmInv /\ CancelInv)'
    BY <2>1 DEF ConfirmInv, CancelInv
  <2>7. DecidedInv'
    BY <2>1 DEF DecidedInv, Outcome, PcInv
  <2>8. StoreTellsBranches'
    BY <2>1 DEF StoreTellsBranches, PcInv
  <2>9. ResultTellsStore'
    BY <2>1 DEF ResultTellsStore, PcInv
  <2>10. QED
    BY <2>2, <2>3, <2>4, <2>5, <2>6, <2>7, <2>8, <2>9
<1>15. CASE CancelSucceeds
  <2> USE <1>15 DEF CancelSucceeds, SecondPhase
  <2>1. tried[i] = i /\ i \in Branches
    BY DEF TriedInv, PcInv, Branches
  <2>2. TypeOK'
    <3>1. ParticipantsTypeOK'
      BY <2>1 DEF ParticipantsTypeOK
    <3>2. status' \in [Branches -> {"none", "PREPARED", "FAILED", "COMMITTED",
                                    "ROLLEDBACK"}]
      BY <2>1
    <3>3. i' \in 0..(N + 1)
      BY <2>1 DEF Branches
    <3>4. attempt' \in Nat /\ lastErr' \in BOOLEAN
      BY DEF TypeOK
    <3>5. QED
      BY <3>1, <3>2, <3>3, <3>4 DEF TypeOK
  <2>3. (TriedInv /\ PcInv)'
    BY <2>1 DEF TriedInv, PcInv
  <2>4. (OutcomeInv /\ PendingInv /\ InflightInv)'
    BY <2>1 DEF OutcomeInv, PendingInv, InflightInv, PcInv
  <2>5. TryingInv'
    BY <2>1 DEF TryingInv, PcInv
  <2>6. (ConfirmInv /\ CancelInv)'
    BY <2>1 DEF ConfirmInv, CancelInv
  <2>7. DecidedInv'
    BY <2>1 DEF DecidedInv, Outcome, PcInv
  <2>8. StoreTellsBranches'
    BY <2>1 DEF StoreTellsBranches, PcInv
  <2>9. ResultTellsStore'
    BY <2>1 DEF ResultTellsStore, PcInv
  <2>10. QED
    BY <2>2, <2>3, <2>4, <2>5, <2>6, <2>7, <2>8, <2>9
<1>16. CASE RetryCancel
  <2> USE <1>16 DEF RetryCancel, SecondPhase
  <2>1. tried[i] = i /\ i \in Branches
    BY DEF TriedInv, PcInv, Branches
  <2>2. TypeOK'
    <3>1. ParticipantsTypeOK'
      BY <2>1 DEF ParticipantsTypeOK
    <3>2. status' \in [Branches -> {"none", "PREPARED", "FAILED", "COMMITTED",
                                    "ROLLEDBACK"}]
      BY <2>1
    <3>3. i' \in 0..(N + 1)
      BY <2>1 DEF Branches
    <3>4. attempt' \in Nat /\ lastErr' \in BOOLEAN
      BY DEF TypeOK
    <3>5. QED
      BY <3>1, <3>2, <3>3, <3>4 DEF TypeOK
  <2>3. (TriedInv /\ PcInv)'
    BY <2>1 DEF TriedInv, PcInv
  <2>4. (OutcomeInv /\ PendingInv /\ InflightInv)'
    BY <2>1 DEF OutcomeInv, PendingInv, InflightInv, PcInv
  <2>5. TryingInv'
    BY <2>1 DEF TryingInv, PcInv
  <2>6. (ConfirmInv /\ CancelInv)'
    BY <2>1 DEF ConfirmInv, CancelInv
  <2>7. DecidedInv'
    BY <2>1 DEF DecidedInv, Outcome, PcInv
  <2>8. StoreTellsBranches'
    BY <2>1 DEF StoreTellsBranches, PcInv
  <2>9. ResultTellsStore'
    BY <2>1 DEF ResultTellsStore, PcInv
  <2>10. QED
    BY <2>2, <2>3, <2>4, <2>5, <2>6, <2>7, <2>8, <2>9
<1>17. CASE CancelFails
  <2> USE <1>17 DEF CancelFails, SecondPhase
  <2>1. tried[i] = i /\ i \in Branches
    BY DEF TriedInv, PcInv, Branches
  <2>2. TypeOK'
    <3>1. ParticipantsTypeOK'
      BY <2>1 DEF ParticipantsTypeOK
    <3>2. status' \in [Branches -> {"none", "PREPARED", "FAILED", "COMMITTED",
                                    "ROLLEDBACK"}]
      BY <2>1
    <3>3. i' \in 0..(N + 1)
      BY <2>1 DEF Branches
    <3>4. attempt' \in Nat /\ lastErr' \in BOOLEAN
      BY DEF TypeOK
    <3>5. QED
      BY <3>1, <3>2, <3>3, <3>4 DEF TypeOK
  <2>3. (TriedInv /\ PcInv)'
    BY <2>1 DEF TriedInv, PcInv
  <2>4. (OutcomeInv /\ PendingInv /\ InflightInv)'
    BY <2>1 DEF OutcomeInv, PendingInv, InflightInv, PcInv
  <2>5. TryingInv'
    BY <2>1 DEF TryingInv, PcInv
  <2>6. (ConfirmInv /\ CancelInv)'
    BY <2>1 DEF ConfirmInv, CancelInv
  <2>7. DecidedInv'
    BY <2>1 DEF DecidedInv, Outcome, PcInv
  <2>8. StoreTellsBranches'
    BY <2>1 DEF StoreTellsBranches, PcInv
  <2>9. ResultTellsStore'
    BY <2>1 DEF ResultTellsStore, PcInv
  <2>10. QED
    BY <2>2, <2>3, <2>4, <2>5, <2>6, <2>7, <2>8, <2>9
<1>18. CASE Crash
  <2> USE <1>18 DEF Crash, DieCalling, Over, locals, participants
  <2>1. TypeOK'
    BY DEF TypeOK, ParticipantsTypeOK, PcInv
  <2>2. (TriedInv /\ PcInv)'
    BY DEF TriedInv, PcInv
  <2>3. (OutcomeInv /\ PendingInv /\ InflightInv)'
    BY DEF OutcomeInv, PendingInv, InflightInv, PcInv
  <2>4. TryingInv'
    BY DEF TryingInv, PcInv
  <2>5. (ConfirmInv /\ CancelInv)'
    BY DEF ConfirmInv, CancelInv
  <2>6. DecidedInv'
    BY DEF DecidedInv, Outcome, PcInv
  <2>7. StoreTellsBranches'
    BY DEF StoreTellsBranches, PcInv
  <2>8. ResultTellsStore'
    BY DEF ResultTellsStore, PcInv
  <2>9. QED
    BY <2>1, <2>2, <2>3, <2>4, <2>5, <2>6, <2>7, <2>8
<1>19. CASE Reexecute
  <2> USE <1>19 DEF Reexecute, Over, locals, participants
  <2>1. TypeOK'
    BY DEF TypeOK, ParticipantsTypeOK
  <2>2. (TriedInv /\ PcInv)'
    BY DEF TriedInv, PcInv
  <2>3. (OutcomeInv /\ PendingInv /\ InflightInv)'
    BY DEF OutcomeInv, PendingInv, InflightInv, PcInv
  <2>4. TryingInv'
    BY DEF TryingInv, PcInv
  <2>5. (ConfirmInv /\ CancelInv)'
    BY DEF ConfirmInv, CancelInv
  <2>6. DecidedInv'
    BY DEF DecidedInv, Outcome, PcInv
  <2>7. StoreTellsBranches'
    BY DEF StoreTellsBranches, PcInv
  <2>8. ResultTellsStore'
    BY DEF ResultTellsStore, PcInv
  <2>9. QED
    BY <2>1, <2>2, <2>3, <2>4, <2>5, <2>6, <2>7, <2>8
<1>20. CASE Arrive
  <2> USE <1>20 DEF Arrive, locals
  <2>1. PICK c \in Branches : Land(c)
    OBVIOUS
  <2>2. /\ rm[c] = "working" /\ rm' = [rm EXCEPT ![c] = "prepared"]
        /\ c \in inflight /\ inflight' = inflight /\ CallFaults # {}
    BY <2>1 DEF Land, InflightInv
  <2>3. rm'[c] = "prepared" /\ \A b \in Branches : b # c => rm'[b] = rm[b]
    BY <2>2
  <2>4. TypeOK'
    BY <2>2, <2>3 DEF TypeOK, ParticipantsTypeOK
  <2>5. (TriedInv /\ PcInv)'
    BY <2>2, <2>3 DEF TriedInv, PcInv
  <2>6. (OutcomeInv /\ PendingInv /\ InflightInv)'
    BY <2>2, <2>3 DEF OutcomeInv, PendingInv, InflightInv, PcInv
  <2>7. TryingInv'
    BY <2>2, <2>3 DEF TryingInv, PcInv
  <2>8. (ConfirmInv /\ CancelInv)'
    BY <2>2, <2>3 DEF ConfirmInv, CancelInv
  <2>9. DecidedInv'
    BY <2>2, <2>3 DEF DecidedInv, Outcome, PcInv
  <2>10. StoreTellsBranches'
    BY <2>2, <2>3 DEF StoreTellsBranches, PcInv
  <2>11. ResultTellsStore'
    BY <2>2, <2>3 DEF ResultTellsStore
  <2>12. QED
    BY <2>4, <2>5, <2>6, <2>7, <2>8, <2>9, <2>10, <2>11
<1>21. CASE UNCHANGED vars
  BY <1>21
     DEF vars, TypeOK, ParticipantsTypeOK, TriedInv, PcInv, OutcomeInv,
         PendingInv,
         TryingInv, ConfirmInv, CancelInv, InflightInv, DecidedInv, Outcome,
         StoreTellsBranches, ResultTellsStore
<1>22. QED
  BY <1>1, <1>2, <1>3, <1>4, <1>5, <1>6, <1>7, <1>8, <1>9, <1>10, <1>11,
     <1>12, <1>13, <1>14, <1>15, <1>16, <1>17, <1>18, <1>19, <1>20, <1>21
     DEF Next, Execute, Terminated

THEOREM Invariance == Spec => []IInv
<1>1. IInv /\ [Next]_vars => IInv'
  BY NextIInv
<1>2. QED
  BY InitIInv, <1>1, PTL DEF Spec

------------------------------------------------------------------------------
(***************************************************************************)
(* The theorems.                                                           *)
(***************************************************************************)

\* Every variable has its type: the executor never indexes the branches, or the
\* entries of the transaction, out of range.
THEOREM TypeCorrect == Spec => []TypeOK
  BY Invariance, PTL DEF IInv

\* The stored state alone tells how far the branches can be.
THEOREM StoreTells == Spec => []StoreTellsBranches
  BY Invariance, PTL DEF IInv

\* What Execute returns is true of the store.
THEOREM ResultIsTrue == Spec => []ResultTellsStore
  BY Invariance, PTL DEF IInv

\* No branch is committed in a transaction of which another is rolled back, not
\* even a suspended or a crashed one.
THEOREM BranchesAgree == Spec => []Atomic!Consistent
<1>1. IInv => Atomic!Consistent
  BY DEF IInv, DecidedInv, Atomic!Consistent
<1>2. QED
  BY Invariance, <1>1, PTL

------------------------------------------------------------------------------
(***************************************************************************)
(* The executor implements AtomicCommit.                                   *)
(***************************************************************************)

LEMMA AtomicInit == Init => Atomic!Init
  BY DEF Init, ParticipantsInit, Atomic!Init, Outcome

LEMMA AtomicStep ==
    ASSUME IInv, [Next]_vars
    PROVE  [Atomic!Next]_(Atomic!atomicVars)
<1> USE ParticipantsAssumption, Types DEF IInv
<1> USE DEF Atomic!atomicVars
<1>1. ASSUME UNCHANGED <<store, tried, rm>>
      PROVE  UNCHANGED Atomic!atomicVars
  BY <1>1 DEF Outcome
<1>2. CASE Begin
  <2>1. PICK err \in BOOLEAN : Advance("TCC", "TRYING", err)
    BY <1>2 DEF Begin
  <2>2. store = "PENDING" /\ store' \in {"PENDING", "TRYING"}
    <3>1. state = store
      BY <1>2 DEF Begin, PcInv
    <3>2. QED
      BY <2>1, <3>1, AdvanceTells, Moves
  <2>3. QED
    BY <1>2, <2>2 DEF Begin, participants, Outcome
<1>3. CASE TrySucceeds \/ RetryTry \/ TryFails
  <2>1. /\ store = "TRYING" /\ store' = store
        /\ i \in Branches
        /\ rm' \in {rm, [rm EXCEPT ![i] = "prepared"]}
        /\ rm[i] \in {"working", "prepared"}
    BY <1>3 DEF TrySucceeds, RetryTry, TryFails, FailBranch, FirstPhase,
       participants, PcInv, TryingInv
  <2>2. Outcome = "open" /\ Outcome' = "open"
    BY <2>1 DEF Outcome
  <2>3. CASE rm' = rm
    BY <2>2, <2>3
  <2>4. CASE rm[i] = "working" /\ rm' = [rm EXCEPT ![i] = "prepared"]
    BY <2>1, <2>2, <2>4 DEF Atomic!Next, Atomic!Prepare
  <2>5. CASE rm[i] = "prepared" /\ rm' = [rm EXCEPT ![i] = "prepared"]
    <3>1. rm' = rm
      BY <2>5
    <3>2. QED
      BY <2>2, <3>1
  <2>6. QED
    BY <2>1, <2>3, <2>4, <2>5
<1>5. CASE BeginConfirm
  <2>1. PICK err \in BOOLEAN : Advance("TCC", "CONFIRMING", err)
    BY <1>5 DEF BeginConfirm
  <2>2. /\ store = "TRYING" /\ store' \in {"TRYING", "CONFIRMING"}
        /\ tried' = tried /\ rm' = rm
    BY <1>5, <2>1, AdvanceTells DEF BeginConfirm, participants, PcInv
  <2>3. \A b \in Branches : rm[b] = "prepared"
    BY <1>5, <2>2 DEF BeginConfirm, PcInv, TryingInv
  <2>4. CASE store' = "CONFIRMING"
    <3>1. Atomic!DecideCommit
      BY <2>2, <2>3, <2>4 DEF Atomic!DecideCommit, Outcome
    <3>2. QED
      BY <3>1 DEF Atomic!Next
  <2>5. QED
    BY <1>1, <2>2, <2>4
<1>6. CASE BeginCancel
  <2>1. PICK err \in BOOLEAN : Advance("TCC", "CANCELING", err)
    BY <1>6 DEF BeginCancel
  <2>2. /\ store = "TRYING" /\ store' \in {"TRYING", "CANCELING"}
        /\ tried' = tried /\ rm' = rm
    BY <1>6, <2>1, AdvanceTells DEF BeginCancel, participants, PcInv
  <2>3. CASE store' = "CANCELING"
    <3>1. Atomic!DecideAbort
      BY <2>2, <2>3 DEF Atomic!DecideAbort, Outcome
    <3>2. QED
      BY <3>1 DEF Atomic!Next
  <2>4. QED
    BY <1>1, <2>2, <2>3
<1>7. ASSUME NEW end \in {"committed", "rolledback"}, NEW err \in BOOLEAN,
             tried[i] \in Branches,
             SecondPhase(tried[i], end, err),
             rm[tried[i]] \in {"prepared", end},
             Outcome = (IF end = "committed" THEN "commit" ELSE "abort"),
             UNCHANGED <<store, tried>>
      PROVE  [Atomic!Next]_(Atomic!atomicVars)
  <2>1. Outcome' = Outcome
    BY <1>7 DEF Outcome
  <2>2. CASE rm[tried[i]] = "prepared" /\ rm' = [rm EXCEPT ![tried[i]] = end]
    <3>1. Atomic!Finish(tried[i])
      BY <1>7, <2>1, <2>2 DEF Atomic!Finish
    <3>2. QED
      BY <1>7, <3>1 DEF Atomic!Next
  <2>3. CASE rm' = rm
    BY <2>1, <2>3
  <2>4. CASE rm[tried[i]] = end /\ rm' = [rm EXCEPT ![tried[i]] = end]
    <3>1. rm' = rm
      BY <1>7, <2>4
    <3>2. QED
      BY <2>1, <3>1
  <2>5. QED
    BY <1>7, <2>2, <2>3, <2>4 DEF SecondPhase
<1>8. CASE ConfirmSucceeds \/ RetryConfirm \/ ConfirmFails
  <2>1. PICK err \in BOOLEAN : SecondPhase(tried[i], "committed", err)
    BY <1>8 DEF ConfirmSucceeds, RetryConfirm, ConfirmFails
  <2>2. /\ store = "CONFIRMING" /\ UNCHANGED <<store, tried>>
        /\ pc = "confirm" /\ i <= Len(tried)
    BY <1>8 DEF ConfirmSucceeds, RetryConfirm, ConfirmFails, PcInv
  <2>3. tried[i] = i /\ i \in Branches
    BY <2>2 DEF TriedInv, ConfirmInv, Branches
  <2>4. rm[i] \in {"prepared", "committed"}
    BY <2>2, <2>3 DEF StoreTellsBranches
  <2>5. QED
    BY <1>7, <2>1, <2>2, <2>3, <2>4 DEF Outcome
<1>9. CASE CancelSucceeds \/ RetryCancel \/ CancelFails
  <2>1. PICK err \in BOOLEAN : SecondPhase(tried[i], "rolledback", err)
    BY <1>9 DEF CancelSucceeds, RetryCancel, CancelFails
  <2>2. /\ store = "CANCELING" /\ UNCHANGED <<store, tried>>
        /\ pc = "cancel" /\ i > 0 /\ i <= Len(tried)
    BY <1>9 DEF CancelSucceeds, RetryCancel, CancelFails, PcInv
  <2>3. tried[i] = i /\ i \in Branches
    BY <2>2 DEF TriedInv, Branches
  <2>4. rm[i] \in {"prepared", "rolledback"}
    BY <2>2, <2>3 DEF CancelInv
  <2>5. QED
    BY <1>7, <2>1, <2>2, <2>3, <2>4 DEF Outcome
<1>10. CASE EndConfirm \/ EndCancel \/ Suspend
  <2>1. tried' = tried /\ rm' = rm
    BY <1>10 DEF EndConfirm, EndCancel, Suspend, locals, participants
  <2>2. Outcome' = Outcome
    <3>1. CASE EndConfirm
      <4>1. store = "CONFIRMING" /\ store' \in {"CONFIRMING", "COMMITTED"}
        BY <3>1, AdvanceTells DEF EndConfirm, PcInv
      <4>2. QED
        BY <4>1 DEF Outcome
    <3>2. CASE EndCancel
      <4>1. store = "CANCELING" /\ store' \in {"CANCELING", "ROLLEDBACK"}
        BY <3>2, AdvanceTells DEF EndCancel, PcInv
      <4>2. QED
        BY <4>1 DEF Outcome
    <3>3. CASE Suspend
      <4>1. /\ store \in {"CONFIRMING", "CANCELING"}
            /\ store' \in {store, "SUSPENDED"}
        BY <3>3, AdvanceTells DEF Suspend, PcInv
      <4>2. QED
        BY <2>1, <4>1 DEF Outcome, OutcomeInv
    <3>4. QED
      BY <1>10, <3>1, <3>2, <3>3
  <2>3. QED
    BY <2>1, <2>2
<1>11. CASE Arrive
  <2>1. PICK b \in Branches : Land(b)
    BY <1>11 DEF Arrive
  <2>2. Outcome' = Outcome
    BY <1>11 DEF Arrive, locals, Outcome
  <2>3. Atomic!Prepare(b)
    BY <2>1, <2>2 DEF Land, Atomic!Prepare
  <2>4. QED
    BY <2>3 DEF Atomic!Next
<1>12. QED
  BY <1>1, <1>2, <1>3, <1>5, <1>6, <1>8, <1>9, <1>10, <1>11
     DEF Next, Execute, RejectBegin, BranchContextDone, FailBranch, Crash,
         DieCalling,
         Reexecute, Terminated, locals, participants, vars

\* The executor, with its retries, its failing store and its crashes, does what
\* two-phase coordination promises.
THEOREM ImplementsAtomicCommit == Spec => AtomicSpec
<1>1. IInv /\ [Next]_vars => [Atomic!Next]_(Atomic!atomicVars)
  BY AtomicStep
<1>2. QED
  BY Invariance, AtomicInit, <1>1, PTL DEF Spec, AtomicSpec, Atomic!Spec
------------------------------------------------------------------------------
(***************************************************************************)
(* The contract of an executor, which modules that keep of it only its     *)
(* moves rely on.                                                          *)
(***************************************************************************)

Move ==
    \/ store' = store /\ state' \in {state, store}
    \/ /\ store = state
       /\ <<state, state'>> \in ExecutorMoves("TCC")
       /\ store' \in {store, state'}

\* The moves of an executor among those of its table.
LEMMA Listed ==
    ASSUME NEW a, NEW b, CanTransition("TCC", a, b), b # "FAILED",
           <<a, b>> # <<"PREPARED", "ABORTING">>,
           b = "SUSPENDED" => a \in {"CONFIRMING", "CANCELING"}
    PROVE  <<a, b>> \in ExecutorMoves("TCC")
<1>1. a \in {"CONFIRMING", "CANCELING"} => IsRecoverable(a)
  <2>1. /\ Len(recoverableStates) = 6
        /\ recoverableStates[3] = "CONFIRMING"
        /\ recoverableStates[4] = "CANCELING"
    BY DEF recoverableStates
  <2>2. QED
    BY <2>1 DEF IsRecoverable
<1>2. QED
  BY <1>1 DEF ExecutorMoves, CanTransition

LEMMA EveryMove ==
    ASSUME IInv, [Next]_vars
    PROVE  Move
<1>1. ASSUME NEW target, NEW err \in BOOLEAN, state = store,
             Advance("TCC", target, err), target # "FAILED",
             <<state, target>> # <<"PREPARED", "ABORTING">>,
             target = "SUSPENDED" => state \in {"CONFIRMING", "CANCELING"}
      PROVE  Move
  <2>1. /\ CanTransition("TCC", state, target)
        /\ state' = target /\ store' \in {store, target}
    BY <1>1, AdvanceTells
  <2>2. QED
    BY <1>1, <2>1, Listed DEF Move
<1>2. CASE UNCHANGED <<state, store>> \/ Reexecute
  BY <1>2 DEF Move, Reexecute
<1>3. CASE Begin \/ BeginConfirm \/ EndConfirm \/ BeginCancel
         \/ EndCancel \/ Suspend
  <2>1. CASE Begin
    BY <2>1, <1>1 DEF Begin, PcInv, IInv
  <2>2. CASE BeginConfirm
    BY <2>2, <1>1 DEF BeginConfirm, PcInv, IInv
  <2>3. CASE EndConfirm
    BY <2>3, <1>1 DEF EndConfirm, PcInv, IInv
  <2>4. CASE BeginCancel
    BY <2>4, <1>1 DEF BeginCancel, PcInv, IInv
  <2>5. CASE EndCancel
    BY <2>5, <1>1 DEF EndCancel, PcInv, IInv
  <2>6. CASE Suspend
    BY <2>6, <1>1 DEF Suspend, PcInv, IInv
  <2>7. QED
    BY <1>3, <2>1, <2>2, <2>3, <2>4, <2>5, <2>6
<1>4. QED
  BY <1>2, <1>3 DEF Next, Execute, Terminated,
         RejectBegin, TrySucceeds, RetryTry, TryFails,
         BranchContextDone, FailBranch, ConfirmSucceeds,
         RetryConfirm, ConfirmFails, CancelSucceeds, RetryCancel,
         CancelFails, Crash, Arrive, Land, vars

\* The store moves only as listed in ExecutorMoves, and memory is at most one
\* legal move ahead of it, crashes and store failures included.
THEOREM ExecutorContract ==
    Spec => /\ []MemoryLeads("TCC")
            /\ [][\/ store' = store
                  \/ <<store, store'>> \in ExecutorMoves("TCC")]_vars
<1>1. Init => MemoryLeads("TCC")
  BY DEF Init, MemoryLeads
<1>2. ASSUME IInv, [Next]_vars, MemoryLeads("TCC")
      PROVE  MemoryLeads("TCC")'
  BY <1>2, EveryMove DEF Move, MemoryLeads, ExecutorMoves, CanTransition
<1>3. ASSUME IInv, [Next]_vars
      PROVE  [\/ store' = store
              \/ <<store, store'>> \in ExecutorMoves("TCC")]_vars
  BY <1>3, EveryMove DEF Move
<1>4. QED
  BY Invariance, <1>1, <1>2, <1>3, PTL DEF Spec

------------------------------------------------------------------------------
(***************************************************************************)
(* The executor implements TxExecution.  Its callers see the state of the  *)
(* transaction and of the store, whether Execute has returned and with or  *)
(* without an error, and whether this is the first call.                   *)
(***************************************************************************)
Returned ==
    IF result = "none" THEN "none"
    ELSE IF result = "committed" THEN "ok" ELSE "error"

Execution ==
    INSTANCE TxExecution WITH
        Mode <- "TCC", outcome <- Returned, again <- executions > 1

\* The first call is given a new transaction.
FirstInv == pc = "begin" /\ executions = 1 => state = "PENDING"

\* There has been a call.
LEMMA ExecutionsCount ==
    ASSUME TypeOK
    PROVE  executions \in Nat /\ executions >= 1
<1>1. executions \in 1..MaxExecutions /\ MaxExecutions \in Nat
  BY TCCAssumption DEF TypeOK
<1>2. QED
  BY <1>1

\* What a call finds that is not PENDING was loaded from the store.
LEMMA FirstCall ==
    Spec => []FirstInv
<1>1. Init => FirstInv
  BY DEF Init, FirstInv
<1>2. ASSUME IInv, FirstInv, [Next]_vars
      PROVE  FirstInv'
  <2>1. CASE Reexecute
    <3>1. executions \in Nat /\ executions >= 1
      BY <1>2, ExecutionsCount DEF IInv
    <3>2. executions' # 1
      BY <2>1, <3>1 DEF Reexecute
    <3>3. QED
      BY <3>2 DEF FirstInv
  <2>2. CASE /\ pc' # "begin" \/ (pc' = pc /\ state' = state)
             /\ executions' = executions
    BY <2>2, <1>2 DEF FirstInv
  <2>3. CASE Execute
    <3>1. CASE \/ Begin \/ RejectBegin \/ TrySucceeds \/ TryFails
               \/ BranchContextDone \/ BeginConfirm \/ ConfirmFails
               \/ EndConfirm \/ BeginCancel \/ EndCancel \/ Suspend
      <4>1. pc' # "begin"
        BY <3>1 DEF Begin, RejectBegin, TrySucceeds, TryFails,
                    BranchContextDone, BeginConfirm, ConfirmFails, EndConfirm,
                    BeginCancel, EndCancel, Suspend, FailBranch, Loop, Goto,
                    Return
      <4>2. QED
        BY <4>1 DEF FirstInv
    <3>2. CASE \/ RetryTry \/ ConfirmSucceeds \/ RetryConfirm \/ CancelSucceeds
               \/ RetryCancel \/ CancelFails
      BY <3>2, <2>2 DEF RetryTry, ConfirmSucceeds, RetryConfirm,
                        CancelSucceeds, RetryCancel, CancelFails
    <3>3. QED
      BY <2>3, <3>1, <3>2 DEF Execute
  <2>4. QED
    BY <1>2, <2>1, <2>2, <2>3
       DEF Next, Crash, Arrive, Terminated, vars
<1>3. QED
  BY Invariance, <1>1, <1>2, PTL DEF Spec

\* An advance whose error is returned is a Move of TxExecution.
LEMMA AdvanceIsMove ==
    ASSUME NEW target \in TxStates, NEW err \in BOOLEAN,
           target # "FAILED",
           <<state, target>> # <<"PREPARED", "ABORTING">>,
           target = "SUSPENDED" => state \in {"CONFIRMING", "CANCELING"},
           Advance("TCC", target, err), UNCHANGED executions,
           Returned = "none", Returned' = Execution!OutcomeOf(target, err)
    PROVE  Execution!Move
<1>1. <<state, target>> \in ExecutorMoves("TCC")
  BY Listed DEF Advance
<1>2. <<state, target>> \in Execution!ExecutorMoves("TCC")
  BY <1>1 DEF ExecutorMoves, Execution!ExecutorMoves, getTransitions,
         Execution!getTransitions, tccTransitions, Execution!tccTransitions,
         IsRecoverable, Execution!IsRecoverable, recoverableStates,
         Execution!recoverableStates
<1>3. Execution!Advance("TCC", target, err)
  BY DEF Advance, Execution!Advance, UpdateTransactionState,
         Execution!UpdateTransactionState, CanTransition,
         Execution!CanTransition, getTransitions, Execution!getTransitions,
         tccTransitions, Execution!tccTransitions
<1>4. target \in Execution!TxStates
  BY DEF TxStates, Execution!TxStates
<1>5. QED
  BY <1>2, <1>3, <1>4 DEF Execution!Move

\* Each action is a Move, a GiveUp or a Reload, or a step that the callers do
\* not see.
LEMMA EveryStep ==
    ASSUME IInv, FirstInv, [Next]_vars
    PROVE  [Execution!Next]_(Execution!execution)
<1>1. executions \in Nat /\ executions >= 1
  BY ExecutionsCount DEF IInv
<1>2. pc # "returned" => Returned = "none"
  BY DEF IInv, PcInv, Returned
<1> DEFINE Out(target, err) == Execution!OutcomeOf(target, err)
<1>3. ASSUME NEW err \in BOOLEAN
      PROVE  /\ Out("TRYING", err) = IF err THEN "error" ELSE "none"
             /\ Out("CONFIRMING", err) = IF err THEN "error" ELSE "none"
             /\ Out("COMMITTED", err) = IF err THEN "error" ELSE "ok"
             /\ Out("CANCELING", err) = IF err THEN "error" ELSE "none"
             /\ Out("ROLLEDBACK", err) = "error"
             /\ Out("SUSPENDED", err) = "error"
  BY DEF Execution!OutcomeOf, Execution!IsFinal, Execution!FinalStates
<1> HIDE DEF Out
<1>4. ASSUME NEW target \in {"TRYING", "CONFIRMING", "COMMITTED", "CANCELING",
                             "ROLLEDBACK", "SUSPENDED"},
             NEW err \in BOOLEAN, Advance("TCC", target, err),
             target = "SUSPENDED" => state \in {"CONFIRMING", "CANCELING"},
             pc # "returned", UNCHANGED executions,
             Returned' = Out(target, err)
      PROVE  Execution!Next
  <2>1. /\ target \in TxStates /\ target # "FAILED"
        /\ <<state, target>> # <<"PREPARED", "ABORTING">>
    BY <1>4, Names
  <2>2. Returned' = Execution!OutcomeOf(target, err)
    BY <1>4 DEF Out
  <2>3. QED
    BY <1>2, <1>4, <2>1, <2>2, AdvanceIsMove DEF Execution!Next
<1>5. CASE Begin
  <2>1. PICK err \in BOOLEAN :
            /\ Advance("TCC", "TRYING", err)
            /\ IF err THEN Return("adapter_error") ELSE Loop(1)
    BY <1>5 DEF Begin
  <2>2. pc # "returned" /\ UNCHANGED executions
    BY <1>5 DEF Begin
  <2>3. Returned' = Out("TRYING", err)
    BY <1>2, <1>3, <2>1, <2>2 DEF Return, Goto, Returned, Loop
  <2>4. QED
    BY <1>4, <2>1, <2>2, <2>3
<1>6. CASE BeginConfirm
  <2>1. PICK err \in BOOLEAN :
            /\ Advance("TCC", "CONFIRMING", err)
            /\ IF err THEN Return("adapter_error") ELSE Goto("confirm")
    BY <1>6 DEF BeginConfirm
  <2>2. pc # "returned" /\ UNCHANGED executions
    BY <1>6 DEF BeginConfirm
  <2>3. Returned' = Out("CONFIRMING", err)
    BY <1>2, <1>3, <2>1, <2>2 DEF Return, Goto, Returned
  <2>4. QED
    BY <1>4, <2>1, <2>2, <2>3
<1>7. CASE EndConfirm
  <2>1. PICK err \in BOOLEAN :
            /\ Advance("TCC", "COMMITTED", err)
            /\ Return(IF err THEN "adapter_error" ELSE "committed")
    BY <1>7 DEF EndConfirm
  <2>2. pc # "returned" /\ UNCHANGED executions
    BY <1>7 DEF EndConfirm
  <2>3. Returned' = Out("COMMITTED", err)
    BY <1>3, <2>1 DEF Return, Returned
  <2>4. QED
    BY <1>4, <2>1, <2>2, <2>3
<1>8. CASE BeginCancel
  <2>1. PICK err \in BOOLEAN :
            /\ Advance("TCC", "CANCELING", err)
            /\ IF err THEN Return("cancel_failed") ELSE Goto("cancel")
    BY <1>8 DEF BeginCancel
  <2>2. pc # "returned" /\ UNCHANGED executions
    BY <1>8 DEF BeginCancel
  <2>3. Returned' = Out("CANCELING", err)
    BY <1>2, <1>3, <2>1, <2>2 DEF Return, Goto, Returned
  <2>4. QED
    BY <1>4, <2>1, <2>2, <2>3
<1>9. CASE EndCancel
  <2>1. PICK err \in BOOLEAN :
            /\ Advance("TCC", "ROLLEDBACK", err)
            /\ Return(IF err THEN "cancel_failed" ELSE "rolledback")
    BY <1>9 DEF EndCancel
  <2>2. pc # "returned" /\ UNCHANGED executions
    BY <1>9 DEF EndCancel
  <2>3. Returned' = Out("ROLLEDBACK", err)
    BY <1>3, <2>1 DEF Return, Returned
  <2>4. QED
    BY <1>4, <2>1, <2>2, <2>3
<1>10. CASE Suspend
  <2>1. PICK err \in BOOLEAN : Advance("TCC", "SUSPENDED", err)
    BY <1>10 DEF Suspend
  <2>2. pc # "returned" /\ UNCHANGED executions
    BY <1>10 DEF Suspend
  <2>3. Returned' = Out("SUSPENDED", err)
    BY <1>3, <1>10, <2>1 DEF Suspend, Return, Returned
  <2>4. state \in {"CONFIRMING", "CANCELING"}
    BY <1>10 DEF Suspend, IInv, PcInv
  <2>5. QED
    BY <1>4, <2>1, <2>2, <2>3, <2>4
<1>11. CASE RejectBegin
  <2>1. executions > 1 /\ state # "PENDING"
    BY <1>1, <1>11, Moves DEF RejectBegin, FirstInv
  <2>2. Returned = "none" /\ Returned' = "error"
    BY <1>2, <1>11 DEF RejectBegin, Return, Returned
  <2>3. QED
    BY <1>11, <2>1, <2>2 DEF RejectBegin, Execution!Next, Execution!GiveUp
<1>12. CASE Reexecute
  <2>1. executions' > 1
    BY <1>1, <1>12 DEF Reexecute
  <2>2. QED
    BY <1>12, <2>1
       DEF Reexecute, Returned, Execution!Next, Execution!Reload
<1>13. CASE UNCHANGED <<state, store, result, executions>>
  BY <1>13 DEF Returned, Execution!execution
<1>14. CASE Execute
  BY <1>14, <1>5, <1>6, <1>7, <1>8, <1>9, <1>10, <1>11, <1>13
     DEF Execute, TrySucceeds, TryFails, BranchContextDone, ConfirmFails,
         RetryTry, ConfirmSucceeds, RetryConfirm, CancelSucceeds, RetryCancel,
         CancelFails, FailBranch, Loop, Goto
<1>15. QED
  BY <1>12, <1>13, <1>14
     DEF Next, Crash, Arrive, Terminated, vars

\* The executor implements TxExecution: whatever its branches, its retries and its
\* store do, and wherever it crashes, a caller sees no other steps.
THEOREM ImplementsExecution ==
    Spec => Execution!Spec
<1>1. Init => Execution!Init
  BY DEF Init, Returned, Execution!Init
<1>2. ASSUME IInv, FirstInv, [Next]_vars
      PROVE  [Execution!Next]_(Execution!execution)
  BY <1>2, EveryStep
<1>3. QED
  BY Invariance, FirstCall, <1>1, <1>2, PTL DEF Spec, Execution!Spec
=============================================================================
