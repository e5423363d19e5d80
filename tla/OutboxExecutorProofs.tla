------------------------ MODULE OutboxExecutorProofs -------------------------
(***************************************************************************)
(* Proofs about OutboxExecutor, for any number of messages, any retry      *)
(* count, any faults of operation, sender and store, and any number of     *)
(* executions of the stored transaction.                                   *)
(***************************************************************************)
EXTENDS OutboxExecutor, TLAPS

(***************************************************************************)
(* The inductive invariant.  While Execute runs, memory and store agree on *)
(* the phase.  The messages that went out are the first ones, up to the    *)
(* loop index, which an attempt may have reached: the index stands still   *)
(* once Execute is left, and no later execution moves it.                  *)
(***************************************************************************)
PcInv ==
    /\ pc = "begin" => state = store
    /\ pc \in {"op", "fail", "submit"} =>
           state = "SUBMITTING" /\ store = "SUBMITTING"
    /\ pc = "submit" => opDone
    /\ pc \in {"send", "suspend"} => state = "SUBMITTED" /\ store = "SUBMITTED"
    /\ pc # "returned" => result = "none"

SentInv ==
    /\ sent \in {1..(i - 1), 1..i}
    /\ pc = "suspend" => i <= N
    /\ pc = "send" /\ i = N + 1 => sent = 1..N
    /\ store \in {"PENDING", "SUBMITTING", "FAILED"} => sent = {}
    /\ store = "COMMITTED" => sent = 1..N

StatusInv ==
    \A m \in Messages : status[m] = "FAILED" =>
        m = i /\ store = "SUBMITTED" /\ pc # "send"

\* The states that a transaction of an outbox is ever stored in.
StoredInv ==
    /\ store \in {"PENDING", "SUBMITTING", "SUBMITTED", "COMMITTED", "FAILED"}
    /\ store \in {"SUBMITTED", "COMMITTED"} => opDone

IInv ==
    /\ TypeOK
    /\ PcInv /\ SentInv /\ StatusInv /\ StoredInv
    /\ ResultTellsStore

------------------------------------------------------------------------------
\* The moves of the table, one successor list to a line.
LEMMA Moves ==
    ASSUME NEW a, NEW b
    PROVE  CanTransition("OUTBOX", a, b) <=>
             \/ a = "PENDING" /\ b = "SUBMITTING"
             \/ a = "SUBMITTING" /\ b \in {"SUBMITTED", "FAILED", "SUSPENDED"}
             \/ a = "SUBMITTED" /\ b = "COMMITTED"
  BY DEF CanTransition, getTransitions, outboxTransitions

\* When memory and store agree, an advance moves memory; it moves the store too
\* unless an error is returned.
LEMMA AdvanceTells ==
    ASSUME NEW target, NEW err \in BOOLEAN, state = store,
           Advance("OUTBOX", target, err)
    PROVE  /\ CanTransition("OUTBOX", state, target)
           /\ state' = target
           /\ store' \in {store, target}
           /\ ~err => store' = target
           /\ MemoryLeads("OUTBOX")'
  BY DEF Advance, UpdateTransactionState, MemoryLeads, CanTransition

\* The states and results that the executor names are states and results.
LEMMA Names ==
    /\ {"PENDING", "SUBMITTING", "SUBMITTED", "COMMITTED", "FAILED"}
          \subseteq TxStates
    /\ Results = {"none", "rejected", "adapter_error", "op_failed",
                  "commit_failed", "committed"}
  BY DEF TxStates, Results

\* One message more.
LEMMA UpTo ==
    ASSUME NEW m \in Nat \ {0}
    PROVE  /\ (1..(m - 1)) \cup {m} = 1..m
           /\ (1..m) \cup {m} = 1..m
  OBVIOUS

LEMMA InitIInv == Init => IInv
<1> SUFFICES ASSUME Init PROVE IInv
  OBVIOUS
<1> USE OutboxAssumption DEF Init
<1>1. TypeOK
  <2>1. /\ state \in TxStates /\ store \in TxStates /\ result \in Results
        /\ sent \subseteq Messages
    BY Names
  <2>2. i \in 1..(N + 1) /\ attempt \in Nat /\ executions \in 1..MaxExecutions
    OBVIOUS
  <2>3. status \in [Messages -> {"none", "PENDING", "COMMITTED", "FAILED"}]
    OBVIOUS
  <2>4. QED
    BY <2>1, <2>2, <2>3 DEF TypeOK
<1>2. PcInv /\ SentInv /\ StatusInv /\ StoredInv
  BY DEF PcInv, SentInv, StatusInv, StoredInv
<1>3. ResultTellsStore
  BY DEF ResultTellsStore, MemoryLeads
<1>4. QED
  BY <1>1, <1>2, <1>3 DEF IInv

\* Every step keeps the invariant.
LEMMA NextIInv ==
    ASSUME IInv, [Next]_vars
    PROVE  IInv'
<1> USE OutboxAssumption, Names DEF IInv, Messages
<1>1. CASE Begin
  <2> USE <1>1 DEF Begin, Goto, Return, locals, world
  <2>1. PICK err \in BOOLEAN :
              /\ Advance("OUTBOX", "SUBMITTING", err)
              /\ IF err THEN Return("adapter_error") ELSE Goto("op")
    OBVIOUS
  <2>2. /\ store = "PENDING" /\ state' = "SUBMITTING"
        /\ store' \in {"PENDING", "SUBMITTING"}
        /\ ~err => store' = "SUBMITTING"
        /\ MemoryLeads("OUTBOX")'
    BY <2>1, AdvanceTells, Moves DEF PcInv
  <2>3. TypeOK'
    BY <2>1, <2>2 DEF TypeOK
  <2>4. (PcInv /\ StoredInv)'
    BY <2>1, <2>2 DEF PcInv, StoredInv
  <2>5. (SentInv /\ StatusInv)'
    BY <2>1, <2>2 DEF SentInv, StatusInv, PcInv
  <2>6. ResultTellsStore'
    BY <2>1, <2>2 DEF ResultTellsStore, SentInv, PcInv
  <2>7. QED
    BY <2>3, <2>4, <2>5, <2>6
<1>2. CASE RecordFailure
  <2> USE <1>2 DEF RecordFailure, Return, locals, world
  <2>1. PICK err \in BOOLEAN : Advance("OUTBOX", "FAILED", err)
    OBVIOUS
  <2>2. /\ store = "SUBMITTING" /\ state' = "FAILED"
        /\ store' \in {"SUBMITTING", "FAILED"}
        /\ MemoryLeads("OUTBOX")'
    BY <2>1, AdvanceTells, Moves DEF PcInv
  <2>3. TypeOK'
    BY <2>2 DEF TypeOK
  <2>4. (PcInv /\ StoredInv)'
    BY <2>2 DEF PcInv, StoredInv
  <2>5. (SentInv /\ StatusInv)'
    BY <2>2 DEF SentInv, StatusInv, PcInv
  <2>6. ResultTellsStore'
    BY <2>2 DEF ResultTellsStore, SentInv, PcInv
  <2>7. QED
    BY <2>3, <2>4, <2>5, <2>6
<1>3. CASE Submit
  <2> USE <1>3 DEF Submit, Goto, Return, world
  <2>1. PICK err \in BOOLEAN :
              /\ Advance("OUTBOX", "SUBMITTED", err)
              /\ IF err THEN Return("adapter_error") /\ UNCHANGED status
                        ELSE /\ Goto("send")
                             /\ status' = [m \in Messages |-> "PENDING"]
    OBVIOUS
  <2>2. /\ store = "SUBMITTING" /\ state' = "SUBMITTED"
        /\ store' \in {"SUBMITTING", "SUBMITTED"}
        /\ ~err => store' = "SUBMITTED"
        /\ MemoryLeads("OUTBOX")'
    BY <2>1, AdvanceTells, Moves DEF PcInv
  <2>3. TypeOK'
    BY <2>1, <2>2 DEF TypeOK
  <2>4. (PcInv /\ StoredInv)'
    BY <2>1, <2>2 DEF PcInv, StoredInv
  <2>5. sent = {} /\ sent' = {} /\ i' = 1
    BY <2>2 DEF SentInv
  <2>6. (SentInv /\ StatusInv)'
    BY <2>1, <2>2, <2>5 DEF SentInv, StatusInv, PcInv
  <2>7. ResultTellsStore'
    BY <2>1, <2>2 DEF ResultTellsStore, SentInv, PcInv
  <2>8. QED
    BY <2>3, <2>4, <2>6, <2>7
<1>4. CASE Commit
  <2> USE <1>4 DEF Commit, Return, locals, world
  <2>1. PICK err \in BOOLEAN :
              /\ Advance("OUTBOX", "COMMITTED", err)
              /\ Return(IF err THEN "adapter_error" ELSE "committed")
    OBVIOUS
  <2>2. /\ store = "SUBMITTED" /\ state' = "COMMITTED"
        /\ store' \in {"SUBMITTED", "COMMITTED"}
        /\ ~err => store' = "COMMITTED"
        /\ MemoryLeads("OUTBOX")'
    BY <2>1, AdvanceTells, Moves DEF PcInv
  <2>3. i = N + 1 /\ sent = 1..N
    BY DEF TypeOK, SentInv
  <2>4. TypeOK'
    BY <2>1, <2>2 DEF TypeOK
  <2>5. (PcInv /\ StoredInv)'
    BY <2>1, <2>2 DEF PcInv, StoredInv
  <2>6. \A m \in Messages : status[m] # "FAILED"
    BY DEF StatusInv
  <2>7. (SentInv /\ StatusInv)'
    BY <2>1, <2>2, <2>3, <2>6 DEF SentInv, StatusInv
  <2>8. ResultTellsStore'
    BY <2>1, <2>2 DEF ResultTellsStore, PcInv
  <2>9. QED
    BY <2>4, <2>5, <2>7, <2>8
<1>5. CASE Suspend
  <2> USE <1>5 DEF Suspend, Return, locals, world
  <2>1. ~CanTransition("OUTBOX", state, "SUSPENDED")
    BY Moves DEF PcInv
  <2>2. /\ pc' = "returned" /\ result' = "rejected"
        /\ UNCHANGED <<state, store, locals, executions, world>>
    BY <2>1
  <2>3. TypeOK' /\ (PcInv /\ StoredInv)'
    BY <2>2 DEF TypeOK, PcInv, StoredInv
  <2>4. (SentInv /\ StatusInv)'
    BY <2>2 DEF SentInv, StatusInv
  <2>5. ResultTellsStore'
    BY <2>2 DEF ResultTellsStore, MemoryLeads, PcInv
  <2>6. QED
    BY <2>3, <2>4, <2>5
<1>6. CASE RejectBegin \/ Reexecute \/ Terminated \/ UNCHANGED vars
  <2>1. /\ UNCHANGED <<store, i, status, attempt, opDone, sent>>
        /\ \/ state' = state /\ pc' = "returned" /\ result' = "rejected"
              /\ executions' = executions
           \/ state' = store /\ pc' = "begin" /\ result' = "none"
              /\ executions' \in 1..MaxExecutions
           \/ UNCHANGED vars
    BY <1>6 DEF RejectBegin, Reexecute, Terminated, Return, locals, world, vars,
                TypeOK
  <2>2. CASE UNCHANGED vars
    BY <2>2 DEF vars, TypeOK, PcInv, SentInv, StatusInv, StoredInv,
                ResultTellsStore, MemoryLeads
  <2>3. CASE ~UNCHANGED vars
    <3>1. TypeOK' /\ PcInv' /\ StoredInv'
      BY <2>1, <2>3 DEF TypeOK, PcInv, StoredInv
    <3>2. SentInv' /\ StatusInv'
      BY <2>1, <2>3 DEF SentInv, StatusInv
    <3>3. ResultTellsStore'
      BY <2>1, <2>3 DEF ResultTellsStore, MemoryLeads
    <3>4. QED
      BY <3>1, <3>2, <3>3
  <2>4. QED
    BY <2>2, <2>3
<1>7. CASE OpSucceeds \/ OpFails
  <2>1. /\ pc = "op" /\ pc' \in {"submit", "fail"} /\ result' = result
        /\ pc' = "submit" => opDone'
        /\ opDone' \in BOOLEAN
        /\ UNCHANGED <<state, store, locals, executions, sent>>
    BY <1>7 DEF OpSucceeds, OpFails, Goto, TypeOK
  <2>2. TypeOK'
    BY <2>1 DEF TypeOK, locals
  <2>3. (PcInv /\ SentInv /\ StatusInv /\ StoredInv)'
    BY <2>1 DEF PcInv, SentInv, StatusInv, StoredInv, locals
  <2>4. ResultTellsStore'
    BY <2>1 DEF ResultTellsStore, MemoryLeads
  <2>5. QED
    BY <2>2, <2>3, <2>4
<1>8. CASE SendSucceeds
  <2> USE <1>8 DEF SendSucceeds
  <2>1. /\ store = "SUBMITTED" /\ state = "SUBMITTED" /\ i \in 1..N
        /\ i' = i + 1 /\ sent' = 1..i /\ pc' = "send"
    BY DEF PcInv, SentInv, TypeOK
  <2>2. TypeOK'
    BY <2>1 DEF TypeOK
  <2>3. \A m \in Messages : status[m] # "FAILED" /\ status'[m] # "FAILED"
    BY DEF StatusInv, TypeOK
  <2>4. (PcInv /\ StatusInv /\ StoredInv)'
    BY <2>1, <2>3 DEF PcInv, StatusInv, StoredInv
  <2>5. SentInv'
    BY <2>1 DEF SentInv
  <2>6. ResultTellsStore'
    BY <2>1 DEF ResultTellsStore, MemoryLeads, PcInv
  <2>7. QED
    BY <2>2, <2>4, <2>5, <2>6
<1>9. CASE RetrySend \/ MessageFails
  <2>1. /\ pc = "send" /\ i \in 1..N /\ i' = i
        /\ sent' \in {sent, sent \cup {i}}
        /\ pc' \in {"send", "suspend"}
        /\ attempt' \in Nat
        /\ UNCHANGED <<state, store, result, executions, opDone>>
    BY <1>9 DEF RetrySend, MessageFails, SendFailing, Goto, TypeOK
  <2>2. \/ status' = status
        \/ status' = [status EXCEPT ![i] = "FAILED"] /\ pc' = "suspend"
    BY <1>9 DEF RetrySend, MessageFails, Goto
  <2>3. store = "SUBMITTED" /\ \A m \in Messages : status[m] # "FAILED"
    BY <2>1 DEF PcInv, StatusInv
  <2>4. TypeOK'
    BY <2>1, <2>2 DEF TypeOK
  <2>5. (PcInv /\ StoredInv)'
    BY <2>1, <2>2 DEF PcInv, StoredInv
  <2>6. sent' \in {1..(i - 1), 1..i}
    <3>1. (1..(i - 1)) \cup {i} = 1..i /\ (1..i) \cup {i} = 1..i
      BY <2>1, UpTo
    <3>2. QED
      BY <2>1, <3>1 DEF SentInv
  <2>7. SentInv'
    BY <2>1, <2>3, <2>6 DEF SentInv
  <2>8. StatusInv'
    BY <2>1, <2>2, <2>3 DEF StatusInv, TypeOK
  <2>9. ResultTellsStore'
    BY <2>1 DEF ResultTellsStore, MemoryLeads, PcInv
  <2>10. QED
    BY <2>4, <2>5, <2>7, <2>8, <2>9
<1>10. CASE Crash
  <2> USE <1>10 DEF Crash, locals, world
  <2>1. /\ pc # "returned" /\ pc' = "crashed" /\ result' = "none"
        /\ UNCHANGED <<state, store, i, status, attempt, executions>>
        /\ opDone' \in {opDone, TRUE}
        /\ \/ sent' = sent
           \/ pc = "send" /\ i \in 1..N /\ sent' = sent \cup {i}
    <3>1. /\ pc # "returned" /\ pc' = "crashed" /\ result' = "none"
          /\ UNCHANGED <<state, store, i, status, attempt, executions>>
      BY DEF Over, PcInv
    <3>2. \/ sent' = sent
          \/ pc = "send" /\ i <= N /\ sent' = sent \cup {i}
      OBVIOUS
    <3>3. opDone' \in {opDone, TRUE}
      <4>1. CASE UNCHANGED world
        BY <4>1 DEF TypeOK
      <4>2. CASE opDone' = TRUE
        BY <4>2
      <4>3. CASE UNCHANGED opDone
        BY <4>3
      <4>4. QED
        BY <4>1, <4>2, <4>3
    <3>4. i \in 1..(N + 1)
      BY DEF TypeOK
    <3>5. i <= N => i \in 1..N
      BY <3>4
    <3>6. QED
      BY <3>1, <3>2, <3>3, <3>5
  <2>2. TypeOK'
    BY <2>1 DEF TypeOK
  <2>3. (PcInv /\ StatusInv /\ StoredInv)'
    BY <2>1 DEF PcInv, StatusInv, StoredInv
  <2>4. SentInv'
    <3>1. CASE sent' = sent
      BY <2>1, <3>1 DEF SentInv
    <3>2. CASE pc = "send" /\ i \in 1..N /\ sent' = sent \cup {i}
      <4>1. (1..(i - 1)) \cup {i} = 1..i /\ (1..i) \cup {i} = 1..i
        BY <3>2, UpTo
      <4>2. QED
        BY <2>1, <3>2, <4>1 DEF SentInv, PcInv
    <3>3. QED
      BY <2>1, <3>1, <3>2
  <2>5. ResultTellsStore'
    BY <2>1 DEF ResultTellsStore, MemoryLeads
  <2>6. QED
    BY <2>2, <2>3, <2>4, <2>5
<1>11. QED
  BY <1>1, <1>2, <1>3, <1>4, <1>5, <1>6, <1>7, <1>8, <1>9, <1>10
     DEF Next, Execute

------------------------------------------------------------------------------
(***************************************************************************)
(* What follows.                                                           *)
(***************************************************************************)

\* The inductive invariant holds at every moment.
THEOREM Invariance == Spec => []IInv
  BY InitIInv, NextIInv, PTL DEF Spec

\* Every variable of OutboxExecutor keeps its type.
THEOREM TypeCorrect == Spec => []TypeOK
  BY Invariance, PTL DEF IInv

\* No target hears of an operation that is not done and on record.
THEOREM NothingEarly == Spec => []NoEarlyMessage
<1>1. IInv => NoEarlyMessage
  BY DEF IInv, NoEarlyMessage, SentInv, StoredInv
<1>2. QED
  BY Invariance, <1>1, PTL

\* A stored COMMITTED means that every message was sent, in order.
THEOREM CommittedMeansSent == Spec => []CommittedIsSent
<1>1. IInv => CommittedIsSent
  <2> SUFFICES ASSUME IInv PROVE CommittedIsSent
    OBVIOUS
  <2> USE OutboxAssumption DEF IInv, Messages
  <2>1. store = "COMMITTED" => opDone /\ sent = Messages
    BY DEF SentInv, StoredInv
  <2>2. \A m \in Messages :
           status[m] = "FAILED" => store # "COMMITTED" /\ sent \subseteq 1..m
    BY DEF StatusInv, SentInv, TypeOK
  <2>3. \A m \in sent : 1..m \subseteq sent
    BY DEF SentInv, TypeOK
  <2>4. QED
    BY <2>1, <2>2, <2>3 DEF CommittedIsSent
<1>2. QED
  BY Invariance, <1>1, PTL

\* What Execute returns is true of the store.
THEOREM ResultIsTrue == Spec => []ResultTellsStore
  BY Invariance, PTL DEF IInv
------------------------------------------------------------------------------
(***************************************************************************)
(* The contract of an executor, which modules that keep of it only its     *)
(* moves rely on.                                                          *)
(***************************************************************************)

Move ==
    \/ store' = store /\ state' \in {state, store}
    \/ /\ store = state
       /\ <<state, state'>> \in ExecutorMoves("OUTBOX")
       /\ store' \in {store, state'}

\* The moves of an executor among those of its table.
LEMMA Listed ==
    ASSUME NEW a, NEW b, CanTransition("OUTBOX", a, b), b # "SUSPENDED"
    PROVE  <<a, b>> \in ExecutorMoves("OUTBOX")
  BY Moves DEF ExecutorMoves, CanTransition

LEMMA EveryMove ==
    ASSUME IInv, [Next]_vars
    PROVE  Move
<1>1. ASSUME NEW target, NEW err \in BOOLEAN, state = store,
             Advance("OUTBOX", target, err), target # "SUSPENDED"
      PROVE  Move
  <2>1. /\ CanTransition("OUTBOX", state, target)
        /\ state' = target /\ store' \in {store, target}
    BY <1>1, AdvanceTells
  <2>2. QED
    BY <1>1, <2>1, Listed DEF Move
<1>2. CASE UNCHANGED <<state, store>> \/ Reexecute
  BY <1>2 DEF Move, Reexecute
<1>3. CASE Suspend
  <2>1. ~CanTransition("OUTBOX", state, "SUSPENDED")
    BY <1>3, Moves DEF Suspend, PcInv, IInv
  <2>2. QED
    BY <1>3, <2>1 DEF Suspend, Move
<1>4. CASE Begin \/ RecordFailure \/ Submit \/ Commit
  <2>1. CASE Begin
    BY <2>1, <1>1 DEF Begin, PcInv, IInv
  <2>2. CASE RecordFailure
    BY <2>2, <1>1 DEF RecordFailure, PcInv, IInv
  <2>3. CASE Submit
    BY <2>3, <1>1 DEF Submit, PcInv, IInv
  <2>4. CASE Commit
    BY <2>4, <1>1 DEF Commit, PcInv, IInv
  <2>5. QED
    BY <1>4, <2>1, <2>2, <2>3, <2>4
<1>5. QED
  BY <1>2, <1>3, <1>4 DEF Next, Execute, Terminated,
         RejectBegin, OpSucceeds, OpFails, SendSucceeds,
         RetrySend, MessageFails, SendFailing, Crash,
         vars

\* The store moves only as listed in ExecutorMoves, and memory is at most one
\* legal move ahead of it, crashes and store failures included.
THEOREM ExecutorContract ==
    Spec => /\ []MemoryLeads("OUTBOX")
            /\ [][\/ store' = store
                  \/ <<store, store'>> \in ExecutorMoves("OUTBOX")]_vars
<1>1. Init => MemoryLeads("OUTBOX")
  BY DEF Init, MemoryLeads
<1>2. ASSUME IInv, [Next]_vars, MemoryLeads("OUTBOX")
      PROVE  MemoryLeads("OUTBOX")'
  BY <1>2, EveryMove DEF Move, MemoryLeads, ExecutorMoves, CanTransition
<1>3. ASSUME IInv, [Next]_vars
      PROVE  [\/ store' = store
              \/ <<store, store'>> \in ExecutorMoves("OUTBOX")]_vars
  BY <1>3, EveryMove DEF Move
<1>4. QED
  BY Invariance, <1>1, <1>2, <1>3, PTL DEF Spec

------------------------------------------------------------------------------
(***************************************************************************)
(* The executor implements TxExecution.  Its callers see the state of the  *)
(* transaction and of the store, whether Execute has returned and with or  *)
(* without an error, and whether this is the first call.                   *)
(***************************************************************************)
Returned ==
    IF result = "none" THEN "none"
    ELSE IF result = "committed" THEN "ok" ELSE "error"

Execution ==
    INSTANCE TxExecution WITH
        Mode <- "OUTBOX", outcome <- Returned, again <- executions > 1

\* The first call is given a new transaction.
FirstInv == pc = "begin" /\ executions = 1 => state = "PENDING"

\* There has been a call.
LEMMA ExecutionsCount ==
    ASSUME TypeOK
    PROVE  executions \in Nat /\ executions >= 1
<1>1. executions \in 1..MaxExecutions /\ MaxExecutions \in Nat
  BY OutboxAssumption DEF TypeOK
<1>2. QED
  BY <1>1

\* What a call finds that is not PENDING was loaded from the store.
LEMMA FirstCall ==
    Spec => []FirstInv
<1>1. Init => FirstInv
  BY DEF Init, FirstInv
<1>2. ASSUME IInv, FirstInv, [Next]_vars
      PROVE  FirstInv'
  <2>1. CASE Reexecute
    <3>1. executions \in Nat /\ executions >= 1
      BY <1>2, ExecutionsCount DEF IInv
    <3>2. executions' # 1
      BY <2>1, <3>1 DEF Reexecute
    <3>3. QED
      BY <3>2 DEF FirstInv
  <2>2. CASE /\ pc' # "begin" \/ (pc' = pc /\ state' = state)
             /\ executions' = executions
    BY <2>2, <1>2 DEF FirstInv
  <2>3. CASE Execute
    <3>1. CASE \/ Begin \/ RejectBegin \/ OpSucceeds \/ OpFails
               \/ RecordFailure \/ Submit \/ MessageFails \/ Suspend \/ Commit
      <4>1. pc' # "begin"
        BY <3>1 DEF Begin, RejectBegin, OpSucceeds, OpFails, RecordFailure,
                    Submit, MessageFails, Suspend, Commit, Goto, Return
      <4>2. QED
        BY <4>1 DEF FirstInv
    <3>2. CASE \/ SendSucceeds \/ RetrySend
      BY <3>2, <2>2 DEF SendSucceeds, RetrySend
    <3>3. QED
      BY <2>3, <3>1, <3>2 DEF Execute
  <2>4. QED
    BY <1>2, <2>1, <2>2, <2>3
       DEF Next, Crash, Terminated, vars
<1>3. QED
  BY Invariance, <1>1, <1>2, PTL DEF Spec

\* An advance whose error is returned is a Move of TxExecution.
LEMMA AdvanceIsMove ==
    ASSUME NEW target \in TxStates, NEW err \in BOOLEAN,
           target # "SUSPENDED",
           Advance("OUTBOX", target, err), UNCHANGED executions,
           Returned = "none", Returned' = Execution!OutcomeOf(target, err)
    PROVE  Execution!Move
<1>1. <<state, target>> \in ExecutorMoves("OUTBOX")
  BY Listed DEF Advance
<1>2. <<state, target>> \in Execution!ExecutorMoves("OUTBOX")
  BY <1>1 DEF ExecutorMoves, Execution!ExecutorMoves, getTransitions,
         Execution!getTransitions, outboxTransitions,
         Execution!outboxTransitions,
         IsRecoverable, Execution!IsRecoverable, recoverableStates,
         Execution!recoverableStates
<1>3. Execution!Advance("OUTBOX", target, err)
  BY DEF Advance, Execution!Advance, UpdateTransactionState,
         Execution!UpdateTransactionState, CanTransition,
         Execution!CanTransition, getTransitions, Execution!getTransitions,
         outboxTransitions, Execution!outboxTransitions
<1>4. target \in Execution!TxStates
  BY DEF TxStates, Execution!TxStates
<1>5. QED
  BY <1>2, <1>3, <1>4 DEF Execution!Move

\* Each action is a Move, a GiveUp or a Reload, or a step that the callers do
\* not see.
LEMMA EveryStep ==
    ASSUME IInv, FirstInv, [Next]_vars
    PROVE  [Execution!Next]_(Execution!execution)
<1>1. executions \in Nat /\ executions >= 1
  BY ExecutionsCount DEF IInv
<1>2. pc # "returned" => Returned = "none"
  BY DEF IInv, PcInv, Returned
<1> DEFINE Out(target, err) == Execution!OutcomeOf(target, err)
<1>3. ASSUME NEW err \in BOOLEAN
      PROVE  /\ Out("SUBMITTING", err) = IF err THEN "error" ELSE "none"
             /\ Out("FAILED", err) = "error"
             /\ Out("SUBMITTED", err) = IF err THEN "error" ELSE "none"
             /\ Out("COMMITTED", err) = IF err THEN "error" ELSE "ok"
  BY DEF Execution!OutcomeOf, Execution!IsFinal, Execution!FinalStates
<1> HIDE DEF Out
<1>4. ASSUME NEW target \in {"SUBMITTING", "FAILED", "SUBMITTED", "COMMITTED"},
             NEW err \in BOOLEAN, Advance("OUTBOX", target, err),
             pc # "returned", UNCHANGED executions,
             Returned' = Out(target, err)
      PROVE  Execution!Next
  <2>1. target \in TxStates /\ target # "SUSPENDED"
    BY <1>4, Names
  <2>2. Returned' = Execution!OutcomeOf(target, err)
    BY <1>4 DEF Out
  <2>3. QED
    BY <1>2, <1>4, <2>1, <2>2, AdvanceIsMove DEF Execution!Next
<1>5. CASE Begin
  <2>1. PICK err \in BOOLEAN :
            /\ Advance("OUTBOX", "SUBMITTING", err)
            /\ IF err THEN Return("adapter_error") ELSE Goto("op")
    BY <1>5 DEF Begin
  <2>2. pc # "returned" /\ UNCHANGED executions
    BY <1>5 DEF Begin
  <2>3. Returned' = Out("SUBMITTING", err)
    BY <1>2, <1>3, <2>1, <2>2 DEF Return, Goto, Returned
  <2>4. QED
    BY <1>4, <2>1, <2>2, <2>3
<1>6. CASE RecordFailure
  <2>1. PICK err \in BOOLEAN : Advance("OUTBOX", "FAILED", err)
    BY <1>6 DEF RecordFailure
  <2>2. pc # "returned" /\ UNCHANGED executions
    BY <1>6 DEF RecordFailure
  <2>3. Returned' = Out("FAILED", err)
    BY <1>3, <1>6, <2>1 DEF RecordFailure, Return, Returned
  <2>4. QED
    BY <1>4, <2>1, <2>2, <2>3
<1>7. CASE Submit
  <2>1. PICK err \in BOOLEAN :
            /\ Advance("OUTBOX", "SUBMITTED", err)
            /\ IF err THEN Return("adapter_error") ELSE Goto("send")
    BY <1>7 DEF Submit
  <2>2. pc # "returned" /\ UNCHANGED executions
    BY <1>7 DEF Submit
  <2>3. Returned' = Out("SUBMITTED", err)
    BY <1>2, <1>3, <2>1, <2>2 DEF Return, Goto, Returned
  <2>4. QED
    BY <1>4, <2>1, <2>2, <2>3
<1>8. CASE Commit
  <2>1. PICK err \in BOOLEAN :
            /\ Advance("OUTBOX", "COMMITTED", err)
            /\ Return(IF err THEN "adapter_error" ELSE "committed")
    BY <1>8 DEF Commit
  <2>2. pc # "returned" /\ UNCHANGED executions
    BY <1>8 DEF Commit
  <2>3. Returned' = Out("COMMITTED", err)
    BY <1>3, <2>1 DEF Return, Returned
  <2>4. QED
    BY <1>4, <2>1, <2>2, <2>3
<1>9. CASE RejectBegin
  <2>1. executions > 1 /\ state # "PENDING"
    BY <1>1, <1>9, Moves DEF RejectBegin, FirstInv
  <2>2. Returned = "none" /\ Returned' = "error"
    BY <1>2, <1>9 DEF RejectBegin, Return, Returned
  <2>3. QED
    BY <1>9, <2>1, <2>2 DEF RejectBegin, Execution!Next, Execution!GiveUp
<1>10. CASE Suspend
  <2>1. state = "SUBMITTED" /\ ~CanTransition("OUTBOX", state, "SUSPENDED")
    BY <1>10, Moves DEF Suspend, IInv, PcInv
  <2>2. UNCHANGED <<state, store, executions>>
    BY <1>10, <2>1 DEF Suspend
  <2>3. Returned = "none" /\ Returned' = "error"
    BY <1>2, <1>10, <2>1 DEF Suspend, Return, Returned
  <2>4. QED
    BY <2>1, <2>2, <2>3 DEF Execution!Next, Execution!GiveUp
<1>11. CASE Reexecute
  <2>1. executions' > 1
    BY <1>1, <1>11 DEF Reexecute
  <2>2. QED
    BY <1>11, <2>1
       DEF Reexecute, Returned, Execution!Next, Execution!Reload
<1>12. CASE UNCHANGED <<state, store, result, executions>>
  BY <1>12 DEF Returned, Execution!execution
<1>13. CASE Execute
  BY <1>13, <1>5, <1>6, <1>7, <1>8, <1>9, <1>10, <1>12
     DEF Execute, OpSucceeds, OpFails, MessageFails, SendSucceeds, RetrySend,
         Goto
<1>14. QED
  BY <1>11, <1>12, <1>13
     DEF Next, Crash, Terminated, vars

\* The executor implements TxExecution: whatever its operation, its sender and its
\* store do, and wherever it crashes, a caller sees no other steps.
THEOREM ImplementsExecution ==
    Spec => Execution!Spec
<1>1. Init => Execution!Init
  BY DEF Init, Returned, Execution!Init
<1>2. ASSUME IInv, FirstInv, [Next]_vars
      PROVE  [Execution!Next]_(Execution!execution)
  BY <1>2, EveryStep
<1>3. QED
  BY Invariance, FirstCall, <1>1, <1>2, PTL DEF Spec, Execution!Spec
=============================================================================
