----------------------- MODULE WorkflowExecutorProofs ------------------------
(***************************************************************************)
(* Proofs about WorkflowExecutor, for any branches, of any kind,           *)
(* registered by the handler or behind its back, any faults of callbacks   *)
(* and store, and any number of executions of the stored transaction.      *)
(***************************************************************************)
EXTENDS WorkflowExecutor, TLAPS

(***************************************************************************)
(* The inductive invariant.  While Execute runs, memory and store agree on *)
(* the phase, and the phase tells which effects there cannot be yet.  The  *)
(* loops go through a prefix of the branches that holds all of what the    *)
(* handler had registered, whatever is appended behind it meanwhile; what  *)
(* is on the far side of the index has had its callback.                   *)
(***************************************************************************)
PcInv ==
    /\ pc = "begin" => state = store
    /\ pc \in {"handler", "confirm", "confirming", "rollback", "suspend"} =>
           state = "RUNNING" /\ store = "RUNNING"
    /\ pc \in {"list", "rolling back"} =>
           state = "COMPENSATING" /\ store = "COMPENSATING"
    /\ pc # "returned" => result = "none"
    /\ store \in {"PENDING", "RUNNING", "COMMITTED", "COMPENSATING",
                  "COMPENSATED", "SUSPENDED"}

\* What has not happened yet.
UntouchedInv ==
    /\ store = "PENDING" => branches = <<>>
    /\ store = "PENDING" \/ pc = "handler" => registered = {}
    /\ store = "PENDING" \/ pc \in {"handler", "confirm", "rollback", "list"} =>
           confirmed = {} /\ undone = <<>>
    /\ pc = "confirming" => undone = <<>>
    /\ pc = "rolling back" => confirmed = {}

BranchesInv ==
    /\ \A j, l \in 1..Len(branches) : branches[j] = branches[l] => j = l
    /\ registered \subseteq Elements(branches) \ Loose
    /\ \A b \in registered : {b} \X Kind[b] \subseteq set

\* The copy is a prefix of the branches that holds what was registered.
Copied ==
    /\ Len(list) <= Len(branches)
    /\ \A j \in 1..Len(list) : list[j] = branches[j]
    /\ registered \subseteq Elements(list)

ConfirmingInv ==
    pc = "confirming" =>
        /\ Copied
        /\ 1 <= i /\ i <= Len(list) + 1
        /\ \A j \in 1..Len(list) :
              j < i /\ list[j] \in OfKind({"confirm"}) => list[j] \in confirmed

RollingBackInv ==
    pc = "rolling back" =>
        /\ Copied
        /\ i <= Len(list)
        /\ ~lastErr => \A j \in 1..Len(list) :
              i < j /\ list[j] \in OfKind({"rollback", "cancel"})
                  => list[j] \in Elements(undone)
        /\ \A k \in 1..Len(undone) :
              \E m \in 1..Len(branches) : i < m /\ branches[m] = undone[k]

IInv ==
    /\ TypeOK
    /\ PcInv /\ UntouchedInv /\ BranchesInv /\ ConfirmingInv /\ RollingBackInv
    /\ NothingRegisteredIsLost /\ OneWay /\ ReverseOrder /\ ResultTellsStore

------------------------------------------------------------------------------
\* The moves of the table, which is the saga's, one successor list to a line.
LEMMA Moves ==
    ASSUME NEW a, NEW b
    PROVE  CanTransition("WORKFLOW", a, b) <=>
             \/ a = "PENDING" /\ b = "RUNNING"
             \/ a = "RUNNING" /\ b \in {"COMMITTED", "COMPENSATING", "FAILED",
                                        "SUSPENDED"}
             \/ a = "COMPENSATING" /\ b \in {"COMPENSATED", "FAILED",
                                             "SUSPENDED"}
  BY DEF CanTransition, getTransitions, sagaTransitions

\* When memory and store agree, an advance moves memory; it moves the store too
\* unless an error is returned.
LEMMA AdvanceTells ==
    ASSUME NEW target, NEW err \in BOOLEAN, state = store,
           Advance("WORKFLOW", target, err)
    PROVE  /\ CanTransition("WORKFLOW", state, target)
           /\ state' = target
           /\ store' \in {store, target}
           /\ ~err => store' = target
           /\ MemoryLeads("WORKFLOW")'
  BY DEF Advance, UpdateTransactionState, MemoryLeads, CanTransition

\* The states and results that the executor names are states and results.
LEMMA Names ==
    /\ {"PENDING", "RUNNING", "COMMITTED", "COMPENSATING", "COMPENSATED",
        "SUSPENDED"} \subseteq TxStates
    /\ Results = {"none", "rejected", "adapter_error", "confirm_failed",
                  "committed", "rollback_failed", "compensated"}
  BY DEF TxStates, Results

\* The three sequences and their lengths.
LEMMA Lists ==
    ASSUME TypeOK
    PROVE  /\ branches \in Seq(Branches) /\ Len(branches) \in Nat
           /\ list \in Seq(Branches) /\ Len(list) \in Nat
           /\ undone \in Seq(Branches) /\ Len(undone) \in Nat
<1>1. /\ branches \in Seq(Branches) /\ list \in Seq(Branches)
      /\ undone \in Seq(Branches)
  BY DEF TypeOK
<1>2. \A s \in Seq(Branches) : Len(s) \in Nat
  OBVIOUS
<1>3. QED
  BY <1>1, <1>2

\* What one element more makes of a sequence.
LEMMA Appended ==
    ASSUME NEW S, NEW s \in Seq(S), NEW e \in S
    PROVE  /\ Append(s, e) \in Seq(S)
           /\ Len(Append(s, e)) = Len(s) + 1 /\ Len(s) \in Nat
           /\ \A j \in 1..Len(s) : Append(s, e)[j] = s[j]
           /\ Append(s, e)[Len(s) + 1] = e
           /\ Elements(Append(s, e)) = Elements(s) \cup {e}
<1>1. /\ Append(s, e) \in Seq(S)
      /\ Len(Append(s, e)) = Len(s) + 1 /\ Len(s) \in Nat
      /\ \A j \in 1..Len(s) : Append(s, e)[j] = s[j]
      /\ Append(s, e)[Len(s) + 1] = e
  OBVIOUS
<1>2. 1..(Len(s) + 1) = (1..Len(s)) \cup {Len(s) + 1}
  BY <1>1
<1>3. Elements(Append(s, e)) = Elements(s) \cup {e}
  BY <1>1, <1>2 DEF Elements
<1>4. QED
  BY <1>1, <1>3

\* A loop over the copy meets an element of the branches at its own place.
LEMMA AtIndex ==
    ASSUME TypeOK, Copied, NEW j \in 1..Len(list)
    PROVE  /\ list[j] \in Branches
           /\ j \in 1..Len(branches) /\ list[j] = branches[j]
<1>1. \A s \in Seq(Branches) : \A k \in 1..Len(s) : s[k] \in Branches
  OBVIOUS
<1>2. QED
  BY <1>1, Lists DEF Copied

\* The loops do not miss what the handler had registered.
LEMMA NotMissed ==
    ASSUME BranchesInv, NEW f, NEW b \in OfKind(f)
    PROVE  ~MayMiss(b, f)
<1>1. PICK c \in Kind[b] : c \in f
  BY DEF OfKind
<1>2. <<b, c>> \in set /\ b \notin Loose
  BY DEF BranchesInv, OfKind
<1>3. QED
  BY <1>1, <1>2 DEF MayMiss, MaySee

LEMMA InitIInv == Init => IInv
<1> SUFFICES ASSUME Init PROVE IInv
  OBVIOUS
<1> USE WorkflowAssumption DEF Init
<1>1. TypeOK
  <2>1. state \in TxStates /\ store \in TxStates /\ result \in Results
    BY Names
  <2>2. <<>> \in Seq(Branches) /\ executions \in 1..MaxExecutions
    OBVIOUS
  <2>3. QED
    BY <2>1, <2>2 DEF TypeOK
<1>2. PcInv /\ UntouchedInv /\ BranchesInv /\ ConfirmingInv /\ RollingBackInv
  BY DEF PcInv, UntouchedInv, BranchesInv, ConfirmingInv, RollingBackInv,
         Elements
<1>3. NothingRegisteredIsLost /\ OneWay /\ ReverseOrder /\ ResultTellsStore
  BY DEF NothingRegisteredIsLost, OneWay, ReverseOrder, ResultTellsStore,
         MemoryLeads
<1>4. QED
  BY <1>1, <1>2, <1>3 DEF IInv

\* A registration keeps the invariant, whoever makes it and whenever: it appends
\* behind what the loops go through.
LEMMA RegistrationsKeep ==
    ASSUME IInv, NEW b \in Branches,
           NewBranch(b) \/ \E c \in Callbacks : SetCallback(b, c)
    PROVE  IInv'
<1> USE DEF IInv, NewBranch, SetCallback, locals, effects
<1>1. /\ store # "PENDING"
      /\ UNCHANGED <<state, store, pc, registered, locals, result, executions,
                     effects>>
      /\ set \subseteq set' /\ set' \subseteq Branches \X Callbacks
  <2>1. CASE NewBranch(b)
    BY <2>1 DEF MayRegister, Over, PcInv, TypeOK
  <2>2. CASE \E c \in Callbacks : SetCallback(b, c)
    <3>1. PICK c \in Callbacks : SetCallback(b, c)
      BY <2>2
    <3>2. store # "PENDING"
      <4>1. MayRegister(b) /\ b \in Elements(branches)
        BY <3>1
      <4>2. store = "PENDING" => branches = <<>>
        BY DEF UntouchedInv
      <4>3. store = "PENDING" => Elements(branches) = {}
        BY <4>2 DEF Elements
      <4>4. QED
        BY <4>1, <4>3
    <3>3. set' = set \cup {<<b, c>>} /\ <<b, c>> \in Branches \X Callbacks
      BY <3>1
    <3>4. QED
      BY <3>1, <3>2, <3>3 DEF TypeOK
  <2>3. QED
    BY <2>1, <2>2
<1>2. \/ branches' = branches
      \/ branches' = Append(branches, b) /\ b \notin Elements(branches)
  OBVIOUS
<1>3. branches \in Seq(Branches) /\ Len(branches) \in Nat
  BY Lists
<1>4. /\ branches' \in Seq(Branches)
      /\ Len(branches') \in Nat /\ Len(branches) <= Len(branches')
      /\ Len(branches') <= Len(branches) + 1
      /\ \A j \in 1..Len(branches) : branches'[j] = branches[j]
      /\ \A j \in 1..Len(branches') :
            j \in 1..Len(branches) \/ branches'[j] \notin Elements(branches)
      /\ Elements(branches) \subseteq Elements(branches')
  <2>1. CASE branches' = branches
    BY <2>1, <1>3
  <2>2. CASE branches' = Append(branches, b) /\ b \notin Elements(branches)
    <3>1. /\ branches' \in Seq(Branches)
          /\ Len(branches') = Len(branches) + 1
          /\ \A j \in 1..Len(branches) : branches'[j] = branches[j]
          /\ branches'[Len(branches) + 1] = b
          /\ Elements(branches)' = Elements(branches) \cup {b}
      BY <2>2, <1>3, Appended
    <3>2. QED
      BY <3>1, <2>2, <1>3
  <2>3. QED
    BY <1>2, <2>1, <2>2
<1>5. TypeOK'
  BY <1>1, <1>4 DEF TypeOK
<1>6. (PcInv /\ UntouchedInv)'
  BY <1>1 DEF PcInv, UntouchedInv
<1>7. BranchesInv'
  <2>1. ASSUME NEW j \in 1..Len(branches'), NEW l \in 1..Len(branches'),
               branches'[j] = branches'[l]
        PROVE  j = l
    <3>1. CASE j \in 1..Len(branches) /\ l \in 1..Len(branches)
      BY <2>1, <3>1, <1>4 DEF BranchesInv
    <3>2. \A m \in 1..Len(branches) : branches'[m] \in Elements(branches)
      BY <1>4 DEF Elements
    <3>3. CASE j \notin 1..Len(branches) \/ l \notin 1..Len(branches)
      <4>1. j \notin 1..Len(branches) /\ l \notin 1..Len(branches)
        BY <2>1, <3>2, <3>3, <1>4
      <4>2. QED
        BY <4>1, <1>3, <1>4
    <3>4. QED
      BY <3>1, <3>3
  <2>2. QED
    BY <2>1, <1>1, <1>4 DEF BranchesInv
<1>8. Copied => Copied'
  <2>1. list \in Seq(Branches) /\ Len(list) \in Nat
    BY Lists
  <2>2. Elements(list)' = Elements(list)
    BY <1>1 DEF Elements
  <2>3. QED
    BY <2>1, <2>2, <1>1, <1>3, <1>4 DEF Copied
<1>9. OfKind({"confirm"})' = OfKind({"confirm"})
      /\ OfKind({"rollback", "cancel"})' = OfKind({"rollback", "cancel"})
      /\ Elements(undone)' = Elements(undone)
  BY <1>1 DEF OfKind, Elements
<1>10. ConfirmingInv'
  BY <1>1, <1>8, <1>9 DEF ConfirmingInv
<1>11. RollingBackInv'
  <2>1. SUFFICES ASSUME pc = "rolling back"
                 PROVE  RollingBackInv'
    BY <1>1 DEF RollingBackInv
  <2>2. \A k \in 1..Len(undone) :
           \E m \in 1..Len(branches) : i < m /\ branches[m] = undone[k]
    BY <2>1 DEF RollingBackInv
  <2>3. \A k \in 1..Len(undone) :
           \E m \in 1..Len(branches') : i < m /\ branches'[m] = undone[k]
    BY <2>2, <1>3, <1>4
  <2>4. QED
    BY <1>1, <1>8, <1>9, <2>1, <2>3 DEF RollingBackInv
<1>12. (NothingRegisteredIsLost /\ OneWay)'
  BY <1>1, <1>9 DEF NothingRegisteredIsLost, OneWay
<1>13. ReverseOrder'
  BY <1>1, <1>3, <1>4 DEF ReverseOrder
<1>14. ResultTellsStore'
  BY <1>1 DEF ResultTellsStore, MemoryLeads
<1>15. QED
  BY <1>5, <1>6, <1>7, <1>10, <1>11, <1>12, <1>13, <1>14

\* The updates of the store keep the invariant, whatever the store answers.
LEMMA AdvancesKeep ==
    ASSUME IInv, Begin \/ Commit \/ BeginRollback \/ EndRollback \/ Suspend
    PROVE  IInv'
<1> USE DEF IInv, workflow, locals, effects, Goto, Return
<1>1. /\ UNCHANGED <<workflow, locals, executions, effects>>
      /\ pc' \in {"handler", "list", "returned"}
  BY DEF Begin, Commit, BeginRollback, EndRollback, Suspend
<1>2. /\ pc = "begin" /\ store = "PENDING" /\ store' \in {"PENDING", "RUNNING"}
         /\ state' = "RUNNING" /\ MemoryLeads("WORKFLOW")'
         /\ \/ pc' = "returned" /\ result' = "adapter_error"
            \/ pc' = "handler" /\ result' = "none" /\ store' = "RUNNING"
      \/ /\ pc = "confirming" /\ i > Len(list) /\ store = "RUNNING"
         /\ store' \in {"RUNNING", "COMMITTED"}
         /\ state' = "COMMITTED" /\ MemoryLeads("WORKFLOW")'
         /\ pc' = "returned"
         /\ \/ result' = "adapter_error"
            \/ result' = "committed" /\ store' = "COMMITTED"
      \/ /\ pc = "rollback" /\ store = "RUNNING"
         /\ store' \in {"RUNNING", "COMPENSATING"}
         /\ state' = "COMPENSATING" /\ MemoryLeads("WORKFLOW")'
         /\ \/ pc' = "returned" /\ result' = "rollback_failed"
            \/ pc' = "list" /\ result' = "none" /\ store' = "COMPENSATING"
      \/ /\ pc = "rolling back" /\ i = 0 /\ ~lastErr /\ store = "COMPENSATING"
         /\ store' \in {"COMPENSATING", "COMPENSATED"}
         /\ state' = "COMPENSATED" /\ MemoryLeads("WORKFLOW")'
         /\ pc' = "returned"
         /\ \/ result' = "rollback_failed"
            \/ result' = "compensated" /\ store' = "COMPENSATED"
      \/ /\ \/ pc = "suspend" /\ store = "RUNNING" /\ result' = "confirm_failed"
            \/ /\ pc = "rolling back" /\ store = "COMPENSATING"
               /\ result' = "rollback_failed"
         /\ store' \in {store, "SUSPENDED"}
         /\ state' = "SUSPENDED" /\ MemoryLeads("WORKFLOW")'
         /\ pc' = "returned"
  <2>1. CASE Begin
    BY <2>1, AdvanceTells, Moves DEF Begin, PcInv
  <2>2. CASE Commit
    BY <2>2, AdvanceTells DEF Commit, PcInv
  <2>3. CASE BeginRollback
    BY <2>3, AdvanceTells DEF BeginRollback, PcInv
  <2>4. CASE EndRollback
    BY <2>4, AdvanceTells DEF EndRollback, PcInv
  <2>5. CASE Suspend
    BY <2>5, AdvanceTells DEF Suspend, PcInv
  <2>6. QED
    BY <2>1, <2>2, <2>3, <2>4, <2>5
<1>3. TypeOK'
  <2>1. state' \in TxStates /\ store' \in TxStates /\ result' \in Results
    BY <1>2, Names DEF TypeOK
  <2>2. QED
    BY <1>1, <2>1 DEF TypeOK
<1>4. PcInv'
  BY <1>1, <1>2 DEF PcInv
<1>5. UntouchedInv'
  BY <1>1, <1>2 DEF UntouchedInv
<1>6. (BranchesInv /\ ConfirmingInv /\ RollingBackInv /\ ReverseOrder)'
  <2>1. UNCHANGED <<branches, set, registered, undone>>
    BY <1>1
  <2>2. (BranchesInv /\ ReverseOrder)'
    <3>1. Elements(branches)' = Elements(branches)
      BY <2>1 DEF Elements
    <3>2. BranchesInv'
      BY <2>1, <3>1 DEF BranchesInv
    <3>3. ReverseOrder'
      BY <2>1 DEF ReverseOrder
    <3>4. QED
      BY <3>2, <3>3
  <2>3. (ConfirmingInv /\ RollingBackInv)'
    BY <1>1 DEF ConfirmingInv, RollingBackInv
  <2>4. QED
    BY <2>2, <2>3
<1>7. NothingRegisteredIsLost'
  <2>1. /\ UNCHANGED <<registered, confirmed>>
        /\ OfKind({"confirm"})' = OfKind({"confirm"})
        /\ OfKind({"rollback", "cancel"})' = OfKind({"rollback", "cancel"})
        /\ Elements(undone)' = Elements(undone)
    BY <1>1 DEF OfKind, Elements
  <2>2. ASSUME store' = "COMMITTED"
        PROVE  OfKind({"confirm"}) \subseteq confirmed
    <3>1. pc = "confirming" /\ i > Len(list)
      BY <1>2, <2>2
    <3>2. OfKind({"confirm"}) \subseteq Elements(list)
      BY <3>1 DEF ConfirmingInv, Copied, OfKind
    <3>3. i \in Nat /\ \A j \in 1..Len(list) : j < i
      BY <3>1, Lists DEF TypeOK
    <3>4. QED
      BY <3>1, <3>2, <3>3 DEF ConfirmingInv, Elements
  <2>3. ASSUME store' = "COMPENSATED"
        PROVE  OfKind({"rollback", "cancel"}) \subseteq Elements(undone)
    <3>1. pc = "rolling back" /\ i = 0 /\ ~lastErr
      BY <1>2, <2>3
    <3>2. /\ OfKind({"rollback", "cancel"}) \subseteq Elements(list)
          /\ \A j \in 1..Len(list) :
                i < j /\ list[j] \in OfKind({"rollback", "cancel"})
                    => list[j] \in Elements(undone)
      BY <3>1 DEF RollingBackInv, Copied, OfKind
    <3>3. Len(list) \in Nat /\ \A j \in 1..Len(list) : i < j
      <4>1. \A n \in Nat : \A j \in 1..n : 0 < j
        OBVIOUS
      <4>2. Len(list) \in Nat
        BY Lists
      <4>3. \A j \in 1..Len(list) : 0 < j
        BY <4>1, <4>2
      <4>4. QED
        BY <3>1, <4>2, <4>3
    <3>4. \A b \in Elements(list) : \E j \in 1..Len(list) : b = list[j]
      BY DEF Elements
    <3>5. QED
      BY <3>2, <3>3, <3>4
  <2>4. QED
    BY <2>1, <2>2, <2>3 DEF NothingRegisteredIsLost
<1>8. OneWay'
  BY <1>1, <1>2 DEF OneWay, UntouchedInv
<1>9. ResultTellsStore'
  BY <1>2 DEF ResultTellsStore
<1>10. QED
  BY <1>3, <1>4, <1>5, <1>6, <1>7, <1>8, <1>9

\* The steps of Execute that call nothing and store nothing keep the invariant,
\* and so do a crash and the next execution.
LEMMA QuietStepsKeep ==
    ASSUME IInv,
           \/ HandlerReturns \/ ListToConfirm \/ ListToRollBack \/ ConfirmFails
           \/ RejectBegin \/ Crash \/ Reexecute \/ Terminated \/ UNCHANGED vars
    PROVE  IInv'
<1> USE DEF IInv, workflow, locals, effects, Goto, Return
<1>1. /\ UNCHANGED <<store, branches, set, effects>>
      /\ state' \in {state, store}
      /\ executions' \in 1..MaxExecutions
      /\ \/ /\ pc = "handler" /\ pc' \in {"confirm", "rollback"}
            /\ registered' = Elements(branches) \ Loose
            /\ \A b \in registered' : {b} \X Kind[b] \subseteq set
            /\ UNCHANGED <<state, list, i, lastErr, result>>
         \/ /\ pc = "confirm" /\ pc' = "confirming"
            /\ list' = branches /\ i' = 1
            /\ UNCHANGED <<state, registered, lastErr, result>>
         \/ /\ pc = "list" /\ pc' = "rolling back"
            /\ list' = branches /\ i' = Len(branches) /\ lastErr' = FALSE
            /\ UNCHANGED <<state, registered, result>>
         \/ /\ \/ pc = "confirming" /\ pc' = "suspend"
               \/ pc' = "crashed"
            /\ pc # "returned" /\ result' = result
            /\ UNCHANGED <<state, registered, list, i, lastErr>>
         \/ /\ pc' = "returned" /\ result' = "rejected"
            /\ UNCHANGED <<state, registered, list, i, lastErr>>
         \/ /\ pc' = "begin" /\ result' = "none" /\ state' = store
            /\ UNCHANGED <<registered, list, i, lastErr>>
         \/ UNCHANGED <<state, pc, registered, list, i, lastErr, result>>
  <2>1. CASE HandlerReturns
    BY <2>1 DEF HandlerReturns, TypeOK
  <2>2. CASE ListToConfirm \/ ListToRollBack
    BY <2>2 DEF ListToConfirm, ListToRollBack, TypeOK
  <2>3. CASE ConfirmFails \/ Crash
    BY <2>3 DEF ConfirmFails, Crash, Over, TypeOK
  <2>4. CASE RejectBegin \/ Reexecute
    <3>1. executions \in 1..MaxExecutions /\ MaxExecutions \in Nat
      BY WorkflowAssumption DEF TypeOK
    <3>2. executions < MaxExecutions => executions + 1 \in 1..MaxExecutions
      BY <3>1
    <3>3. QED
      BY <2>4, <3>1, <3>2 DEF RejectBegin, Reexecute
  <2>5. CASE Terminated \/ UNCHANGED vars
    BY <2>5 DEF Terminated, vars, TypeOK
  <2>6. QED
    BY <2>1, <2>2, <2>3, <2>4, <2>5
<1>2. Elements(branches)' = Elements(branches)
      /\ Elements(undone)' = Elements(undone)
  BY <1>1 DEF Elements
<1>3. TypeOK'
  <2>1. list' \in Seq(Branches) /\ i' \in Nat /\ branches' \in Seq(Branches)
    <3>1. /\ branches \in Seq(Branches) /\ Len(branches) \in Nat
          /\ list \in Seq(Branches) /\ i \in Nat
      BY Lists DEF TypeOK
    <3>2. branches' = branches /\ list' \in {list, branches}
          /\ i' \in {i, 1, Len(branches)}
      BY <1>1
    <3>3. QED
      BY <3>1, <3>2
  <2>2. /\ state' \in TxStates /\ store' \in TxStates /\ result' \in Results
        /\ registered' \subseteq Branches
    <3>1. \A s \in Seq(Branches) : \A j \in 1..Len(s) : s[j] \in Branches
      OBVIOUS
    <3>2. Elements(branches) \subseteq Branches
      BY <3>1 DEF Elements, TypeOK
    <3>3. QED
      BY <1>1, <3>2, Names DEF TypeOK
  <2>3. QED
    BY <1>1, <2>1, <2>2 DEF TypeOK
<1>4. PcInv'
  BY <1>1 DEF PcInv
<1>5. UntouchedInv'
  BY <1>1 DEF UntouchedInv, PcInv
<1>6. /\ \/ registered' = registered
         \/ /\ registered' = Elements(branches) \ Loose
            /\ \A b \in registered' : {b} \X Kind[b] \subseteq set
      /\ UNCHANGED <<store, branches, set, confirmed, undone>>
  BY <1>1
<1>7. BranchesInv'
  BY <1>2, <1>6 DEF BranchesInv
<1>8. UNCHANGED <<registered, list>> => Copied' = Copied
  BY <1>1 DEF Copied, Elements
<1>9. list' = branches /\ registered' = registered => Copied'
  <2>1. Len(branches) \in Nat
    BY Lists
  <2>2. QED
    BY <2>1, <1>2, <1>6 DEF Copied, BranchesInv, Elements
<1>10. ConfirmingInv'
  <2>1. CASE pc = "confirm" /\ pc' = "confirming"
    BY <1>1, <1>9, <2>1, Lists DEF ConfirmingInv
  <2>2. CASE pc' # "confirming"
    BY <2>2 DEF ConfirmingInv
  <2>3. CASE UNCHANGED <<pc, registered, list, i>>
    BY <1>1, <1>8, <2>3 DEF ConfirmingInv, OfKind
  <2>4. QED
    BY <1>1, <2>1, <2>2, <2>3
<1>11. RollingBackInv'
  <2>1. CASE pc = "list" /\ pc' = "rolling back"
    <3>1. /\ list' = branches /\ i' = Len(list') /\ Len(list') \in Nat
          /\ undone' = <<>>
      BY <1>1, <2>1, Lists DEF UntouchedInv
    <3>2. \A j \in 1..Len(list') : ~(i' < j)
      BY <3>1
    <3>3. registered' = registered
      BY <1>1, <2>1
    <3>4. 1..Len(undone') = {} /\ i' <= Len(list')
      BY <3>1
    <3>5. QED
      BY <1>9, <3>1, <3>2, <3>3, <3>4 DEF RollingBackInv
  <2>2. CASE pc' # "rolling back"
    BY <2>2 DEF RollingBackInv
  <2>3. CASE UNCHANGED <<pc, registered, list, i, lastErr>>
    BY <1>1, <1>2, <1>8, <2>3 DEF RollingBackInv, OfKind
  <2>4. QED
    BY <1>1, <2>1, <2>2, <2>3
<1>12. NothingRegisteredIsLost'
  BY <1>1, <1>2 DEF NothingRegisteredIsLost, OfKind, PcInv
<1>13. (OneWay /\ ReverseOrder)'
  BY <1>6 DEF OneWay, ReverseOrder
<1>14. ResultTellsStore'
  BY <1>1 DEF ResultTellsStore, MemoryLeads
<1>15. QED
  BY <1>3, <1>4, <1>5, <1>7, <1>10, <1>11, <1>12, <1>13, <1>14

\* The loop of confirm keeps the invariant.
LEMMA ConfirmingKeeps ==
    ASSUME IInv, SkipConfirm \/ ConfirmSucceeds
    PROVE  IInv'
<1> USE DEF IInv, workflow, locals, effects
<1>1. /\ pc = "confirming" /\ i <= Len(list) /\ i' = i + 1
      /\ UNCHANGED <<state, store, pc, branches, set, registered, list, lastErr,
                     result, executions, undone>>
      /\ \/ MayMiss(list[i], {"confirm"}) /\ confirmed' = confirmed
         \/ confirmed' = confirmed \cup {list[i]}
  BY DEF SkipConfirm, ConfirmSucceeds
<1>2. /\ Copied /\ 1 <= i /\ i \in Nat /\ Len(list) \in Nat
      /\ store = "RUNNING" /\ undone = <<>>
  BY <1>1, Lists DEF ConfirmingInv, PcInv, UntouchedInv, TypeOK
<1>3. i \in 1..Len(list)
  BY <1>1, <1>2
<1>4. TypeOK'
  <2>1. list[i] \in Branches
    BY <1>2, <1>3, AtIndex
  <2>2. confirmed' \subseteq Branches /\ i' \in Nat
    BY <1>1, <1>2, <2>1 DEF TypeOK
  <2>3. QED
    BY <1>1, <2>2 DEF TypeOK
<1>5. (PcInv /\ UntouchedInv)'
  BY <1>1, <1>2 DEF PcInv, UntouchedInv
<1>6. (BranchesInv /\ ReverseOrder)'
  <2>1. UNCHANGED <<branches, set, registered, undone>>
        /\ Elements(branches)' = Elements(branches)
    BY <1>1 DEF Elements
  <2>2. BranchesInv'
    BY <2>1 DEF BranchesInv
  <2>3. ReverseOrder'
    BY <2>1 DEF ReverseOrder
  <2>4. QED
    BY <2>2, <2>3
<1>7. ConfirmingInv'
  <2>1. Copied' /\ 1 <= i' /\ i' <= Len(list') + 1
    BY <1>1, <1>2 DEF Copied, Elements
  <2>2. ASSUME NEW j \in 1..Len(list), j < i + 1,
               list[j] \in OfKind({"confirm"})
        PROVE  list[j] \in confirmed'
    <3>1. CASE j < i
      BY <1>1, <2>2, <3>1 DEF ConfirmingInv
    <3>2. CASE j = i
      BY <1>1, <2>2, <3>2, NotMissed
    <3>3. j < i \/ j = i
      BY <1>2, <2>2
    <3>4. QED
      BY <3>1, <3>2, <3>3
  <2>3. QED
    BY <1>1, <2>1, <2>2 DEF ConfirmingInv, OfKind
<1>8. RollingBackInv'
  BY <1>1 DEF RollingBackInv
<1>9. (NothingRegisteredIsLost /\ OneWay)'
  BY <1>1, <1>2 DEF NothingRegisteredIsLost, OneWay
<1>10. ResultTellsStore'
  BY <1>1 DEF ResultTellsStore, MemoryLeads
<1>11. QED
  BY <1>4, <1>5, <1>6, <1>7, <1>8, <1>9, <1>10

\* The loop of rollback keeps the invariant.
LEMMA RollingBackKeeps ==
    ASSUME IInv, SkipRollback \/ RollbackSucceeds \/ RollbackFails
    PROVE  IInv'
<1> USE DEF IInv, workflow, locals, effects
<1> DEFINE f == {"rollback", "cancel"}
<1>1. /\ pc = "rolling back" /\ i > 0 /\ i' = i - 1
      /\ UNCHANGED <<state, store, pc, branches, set, registered, list,
                     result, executions, confirmed>>
  BY DEF SkipRollback, RollbackSucceeds, RollbackFails
<1>2. \/ /\ MayMiss(list[i], f)
         /\ undone' = undone /\ lastErr' = lastErr
      \/ undone' = Append(undone, list[i]) /\ lastErr' = lastErr
      \/ undone' = undone /\ lastErr' = TRUE
  BY DEF SkipRollback, RollbackSucceeds, RollbackFails
<1>3. /\ i <= Len(list) /\ i \in Nat
      /\ Len(list) \in Nat /\ Len(branches) \in Nat
  BY <1>1, Lists DEF RollingBackInv, TypeOK
<1>0. Copied /\ store = "COMPENSATING" /\ confirmed = {}
  BY <1>1 DEF RollingBackInv, PcInv, UntouchedInv
<1>4. i \in 1..Len(list) /\ i - 1 \in Nat
  <2>1. \A k, n \in Nat : k > 0 /\ k <= n => k \in 1..n /\ k - 1 \in Nat
    OBVIOUS
  <2>2. i > 0
    BY <1>1
  <2>3. QED
    BY <1>3, <2>1, <2>2
<1>5. /\ list[i] \in Branches
      /\ i \in 1..Len(branches) /\ list[i] = branches[i]
  BY <1>0, <1>4, AtIndex
<1>6. undone \in Seq(Branches) /\ Len(undone) \in Nat
  BY Lists
<1>7. /\ undone' \in Seq(Branches) /\ Len(undone') \in Nat
      /\ Len(undone) <= Len(undone') /\ Len(undone') <= Len(undone) + 1
      /\ \A k \in 1..Len(undone) : undone'[k] = undone[k]
      /\ \A k \in 1..Len(undone') :
            k \in 1..Len(undone) \/ undone'[k] = branches[i]
      /\ Elements(undone) \subseteq Elements(undone')
  <2>1. CASE undone' = undone
    BY <2>1, <1>6
  <2>2. CASE undone' = Append(undone, list[i])
    <3>1. /\ undone' \in Seq(Branches)
          /\ Len(undone') = Len(undone) + 1
          /\ \A k \in 1..Len(undone) : undone'[k] = undone[k]
          /\ undone'[Len(undone) + 1] = list[i]
          /\ Elements(undone)' = Elements(undone) \cup {list[i]}
      BY <2>2, <1>5, <1>6, Appended
    <3>2. QED
      BY <3>1, <1>5, <1>6
  <2>3. QED
    BY <1>2, <2>1, <2>2
<1>8. /\ lastErr' \in BOOLEAN
      /\ ~lastErr' => /\ ~lastErr
                      /\ \/ MayMiss(list[i], f)
                         \/ list[i] \in Elements(undone')
  <2>1. CASE undone' = Append(undone, list[i]) /\ lastErr' = lastErr
    <3>1. list[i] \in Elements(undone)'
      BY <2>1, <1>5, <1>6, Appended
    <3>2. QED
      BY <2>1, <3>1 DEF TypeOK
  <2>2. CASE MayMiss(list[i], f) /\ lastErr' = lastErr
    BY <2>2 DEF TypeOK
  <2>3. CASE lastErr' = TRUE
    BY <2>3
  <2>4. QED
    BY <1>2, <2>1, <2>2, <2>3
<1>9. TypeOK'
  <2>1. i' \in Nat
    BY <1>1, <1>4
  <2>2. QED
    BY <1>1, <1>7, <1>8, <2>1 DEF TypeOK
<1>10. (PcInv /\ UntouchedInv)'
  BY <1>0, <1>1 DEF PcInv, UntouchedInv
<1>11. BranchesInv'
  <2>1. Elements(branches)' = Elements(branches)
    BY <1>1 DEF Elements
  <2>2. QED
    BY <1>1, <2>1 DEF BranchesInv
<1>12. ConfirmingInv'
  BY <1>1 DEF ConfirmingInv
<1>13. \A k \in 1..Len(undone) :
          \E m \in 1..Len(branches) : i < m /\ branches[m] = undone[k]
  BY <1>1 DEF RollingBackInv
<1>14. RollingBackInv'
  <2>1. Copied' /\ i' <= Len(list')
    <3>1. i - 1 <= Len(list)
      BY <1>3
    <3>2. QED
      BY <1>0, <1>1, <3>1 DEF Copied, Elements
  <2>2. ASSUME ~lastErr', NEW j \in 1..Len(list), i - 1 < j,
               list[j] \in OfKind(f)
        PROVE  list[j] \in Elements(undone')
    <3>1. CASE i < j
      <4>1. list[j] \in Elements(undone)
        BY <1>1, <1>8, <2>2, <3>1 DEF RollingBackInv
      <4>2. QED
        BY <4>1, <1>7
    <3>2. CASE i = j
      BY <1>8, <2>2, <3>2, NotMissed
    <3>3. i < j \/ i = j
      BY <1>3, <2>2
    <3>4. QED
      BY <3>1, <3>2, <3>3
  <2>3. ASSUME NEW k \in 1..Len(undone')
        PROVE  \E m \in 1..Len(branches) : i - 1 < m /\ branches[m] = undone'[k]
    <3>1. CASE k \in 1..Len(undone)
      <4>1. PICK m \in 1..Len(branches) : i < m /\ branches[m] = undone[k]
        BY <1>13, <3>1
      <4>2. i - 1 < m /\ branches[m] = undone'[k]
        BY <1>3, <1>7, <3>1, <4>1
      <4>3. QED
        BY <4>2
    <3>2. CASE undone'[k] = branches[i]
      BY <1>3, <1>5, <3>2
    <3>3. QED
      BY <1>7, <3>1, <3>2
  <2>4. QED
    BY <1>1, <2>1, <2>2, <2>3 DEF RollingBackInv, OfKind
<1>15. ReverseOrder'
  <2>1. SUFFICES ASSUME NEW j \in 1..Len(undone'), NEW l \in 1..Len(undone'),
                        j < l
                 PROVE  \E m, n \in 1..Len(branches) :
                           /\ m > n /\ branches[m] = undone'[j]
                           /\ branches[n] = undone'[l]
    BY <1>1 DEF ReverseOrder
  <2>2. j \in 1..Len(undone) /\ undone'[j] = undone[j]
    BY <1>6, <1>7, <2>1
  <2>3. CASE l \in 1..Len(undone)
    <3>1. undone'[l] = undone[l]
      BY <1>7, <2>3
    <3>2. QED
      BY <2>1, <2>2, <2>3, <3>1 DEF ReverseOrder
  <2>4. CASE undone'[l] = branches[i]
    <3>1. PICK m \in 1..Len(branches) : i < m /\ branches[m] = undone[j]
      BY <1>13, <2>2
    <3>2. m > i /\ branches[m] = undone'[j] /\ branches[i] = undone'[l]
      BY <1>3, <2>2, <2>4, <3>1
    <3>3. QED
      BY <1>5, <3>2
  <2>5. QED
    BY <1>7, <2>3, <2>4
<1>16. (NothingRegisteredIsLost /\ OneWay)'
  BY <1>0, <1>1 DEF NothingRegisteredIsLost, OneWay
<1>17. ResultTellsStore'
  BY <1>1 DEF ResultTellsStore, MemoryLeads
<1>18. QED
  BY <1>9, <1>10, <1>11, <1>12, <1>14, <1>15, <1>16, <1>17

\* Every step keeps the invariant.
LEMMA NextIInv ==
    ASSUME IInv, [Next]_vars
    PROVE  IInv'
<1>1. CASE \E b \in Branches :
            NewBranch(b) \/ \E c \in Callbacks : SetCallback(b, c)
  BY <1>1, RegistrationsKeep
<1>2. CASE Begin \/ Commit \/ BeginRollback \/ EndRollback \/ Suspend
  BY <1>2, AdvancesKeep
<1>3. CASE SkipConfirm \/ ConfirmSucceeds
  BY <1>3, ConfirmingKeeps
<1>4. CASE SkipRollback \/ RollbackSucceeds \/ RollbackFails
  BY <1>4, RollingBackKeeps
<1>5. CASE \/ HandlerReturns \/ ListToConfirm \/ ListToRollBack
           \/ ConfirmFails \/ RejectBegin \/ Crash \/ Reexecute \/ Terminated
           \/ UNCHANGED vars
  BY <1>5, QuietStepsKeep
<1>6. QED
  BY <1>1, <1>2, <1>3, <1>4, <1>5 DEF Next, Execute

------------------------------------------------------------------------------
(***************************************************************************)
(* What follows.                                                           *)
(***************************************************************************)

\* The inductive invariant holds at every moment.
THEOREM Invariance == Spec => []IInv
  BY InitIInv, NextIInv, PTL DEF Spec

\* Every variable of WorkflowExecutor keeps its type.
THEOREM TypeCorrect == Spec => []TypeOK
  BY Invariance, PTL DEF IInv

\* Whatever other goroutines register meanwhile, COMMITTED is stored when all
\* that the handler had registered for it was confirmed, and COMPENSATED when
\* all that it had registered for it was taken back.
THEOREM NothingIsLost == Spec => []NothingRegisteredIsLost
  BY Invariance, PTL DEF IInv

\* No workflow goes both ways, and none calls a callback before the store
\* tells which way it goes.
THEOREM GoesOneWay == Spec => []OneWay
  BY Invariance, PTL DEF IInv

\* Branches are rolled back in the reverse of the order of registration.
THEOREM RollsBackInReverse == Spec => []ReverseOrder
  BY Invariance, PTL DEF IInv

\* What Execute returns is true of the store.
THEOREM ResultIsTrue == Spec => []ResultTellsStore
  BY Invariance, PTL DEF IInv

------------------------------------------------------------------------------
(***************************************************************************)
(* The contract of an executor, which modules that keep of it only its     *)
(* moves rely on.                                                          *)
(***************************************************************************)
Move ==
    \/ store' = store /\ state' \in {state, store}
    \/ /\ store = state
       /\ <<state, state'>> \in ExecutorMoves("WORKFLOW")
       /\ store' \in {store, state'}

\* The moves of an executor among those of its table: all but the one to FAILED.
LEMMA Listed ==
    ASSUME NEW a, NEW b, CanTransition("WORKFLOW", a, b), b # "FAILED"
    PROVE  <<a, b>> \in ExecutorMoves("WORKFLOW")
  BY Moves DEF ExecutorMoves, CanTransition

LEMMA EveryMove ==
    ASSUME IInv, [Next]_vars
    PROVE  Move
<1>1. ASSUME NEW target, NEW err \in BOOLEAN, state = store,
             Advance("WORKFLOW", target, err), target # "FAILED"
      PROVE  Move
  <2>1. /\ CanTransition("WORKFLOW", state, target)
        /\ state' = target /\ store' \in {store, target}
    BY <1>1, AdvanceTells
  <2>2. QED
    BY <1>1, <2>1, Listed DEF Move
<1>2. CASE UNCHANGED <<state, store>> \/ Reexecute
  BY <1>2 DEF Move, Reexecute
<1>3. CASE Begin \/ Commit \/ BeginRollback \/ EndRollback \/ Suspend
  <2>1. CASE Begin
    BY <2>1, <1>1 DEF Begin, PcInv, IInv
  <2>2. CASE Commit
    BY <2>2, <1>1 DEF Commit, PcInv, IInv
  <2>3. CASE BeginRollback
    BY <2>3, <1>1 DEF BeginRollback, PcInv, IInv
  <2>4. CASE EndRollback
    BY <2>4, <1>1 DEF EndRollback, PcInv, IInv
  <2>5. CASE Suspend
    BY <2>5, <1>1 DEF Suspend, PcInv, IInv
  <2>6. QED
    BY <1>3, <2>1, <2>2, <2>3, <2>4, <2>5
<1>4. QED
  BY <1>2, <1>3 DEF Next, Execute, Terminated, NewBranch, SetCallback,
         RejectBegin, HandlerReturns, ListToConfirm, SkipConfirm,
         ConfirmSucceeds, ConfirmFails, ListToRollBack, SkipRollback,
         RollbackSucceeds, RollbackFails, Crash, vars

\* The store moves only as listed in ExecutorMoves, and memory is at most one
\* legal move ahead of it, crashes and store failures included.
THEOREM ExecutorContract ==
    Spec => /\ []MemoryLeads("WORKFLOW")
            /\ [][\/ store' = store
                  \/ <<store, store'>> \in ExecutorMoves("WORKFLOW")]_vars
<1>1. IInv => MemoryLeads("WORKFLOW")
  BY DEF IInv, ResultTellsStore
<1>2. ASSUME IInv, [Next]_vars
      PROVE  [\/ store' = store
              \/ <<store, store'>> \in ExecutorMoves("WORKFLOW")]_vars
  BY <1>2, EveryMove DEF Move
<1>3. QED
  BY Invariance, <1>1, <1>2, PTL DEF Spec

------------------------------------------------------------------------------
(***************************************************************************)
(* The executor implements TxExecution.  Its callers see the state of the  *)
(* transaction and of the store, whether Execute has returned and with or  *)
(* without an error, and whether this is the first call.                   *)
(***************************************************************************)
\* The first call is given a new transaction.
FirstInv == pc = "begin" /\ executions = 1 => state = "PENDING"

\* There has been a call.
LEMMA ExecutionsCount ==
    ASSUME TypeOK
    PROVE  executions \in Nat /\ executions >= 1
<1>1. executions \in 1..MaxExecutions /\ MaxExecutions \in Nat
  BY WorkflowAssumption DEF TypeOK
<1>2. QED
  BY <1>1

\* What a call finds that is not PENDING was loaded from the store.
LEMMA FirstCall ==
    Spec => []FirstInv
<1>1. Init => FirstInv
  BY DEF Init, FirstInv
<1>2. ASSUME IInv, FirstInv, [Next]_vars
      PROVE  FirstInv'
  <2>1. CASE Reexecute
    <3>1. executions \in Nat /\ executions >= 1
      BY <1>2, ExecutionsCount DEF IInv
    <3>2. executions' # 1
      BY <2>1, <3>1 DEF Reexecute
    <3>3. QED
      BY <3>2 DEF FirstInv
  <2>2. CASE /\ pc' # "begin" \/ (pc' = pc /\ state' = state)
             /\ executions' = executions
    BY <2>2, <1>2 DEF FirstInv
  <2>3. CASE Execute
    <3>1. CASE \/ Begin \/ RejectBegin \/ HandlerReturns \/ ListToConfirm
               \/ ConfirmFails \/ Commit \/ BeginRollback \/ ListToRollBack
               \/ EndRollback \/ Suspend
      <4>1. pc' # "begin"
        BY <3>1 DEF Begin, RejectBegin, HandlerReturns, ListToConfirm,
               ConfirmFails, Commit, BeginRollback, ListToRollBack,
               EndRollback, Suspend, Goto, Return
      <4>2. QED
        BY <4>1 DEF FirstInv
    <3>2. CASE \/ SkipConfirm \/ ConfirmSucceeds \/ SkipRollback
               \/ RollbackSucceeds \/ RollbackFails
      BY <3>2, <2>2 DEF SkipConfirm, ConfirmSucceeds, SkipRollback,
             RollbackSucceeds, RollbackFails
    <3>3. QED
      BY <2>3, <3>1, <3>2 DEF Execute
  <2>4. QED
    BY <1>2, <2>1, <2>2, <2>3
       DEF Next, NewBranch, SetCallback, Crash, Terminated, vars
<1>3. QED
  BY Invariance, <1>1, <1>2, PTL DEF Spec

\* An advance whose error is returned is a Move of TxExecution.
LEMMA AdvanceIsMove ==
    ASSUME NEW target \in TxStates, NEW err \in BOOLEAN, target # "FAILED",
           Advance("WORKFLOW", target, err), UNCHANGED executions,
           Returned = "none", Returned' = Execution!OutcomeOf(target, err)
    PROVE  Execution!Move
<1>1. <<state, target>> \in ExecutorMoves("WORKFLOW")
  BY Listed DEF Advance
<1>2. <<state, target>> \in Execution!ExecutorMoves("WORKFLOW")
  BY <1>1 DEF ExecutorMoves, Execution!ExecutorMoves, getTransitions,
         Execution!getTransitions, sagaTransitions, Execution!sagaTransitions,
         IsRecoverable, Execution!IsRecoverable, recoverableStates,
         Execution!recoverableStates
<1>3. Execution!Advance("WORKFLOW", target, err)
  BY DEF Advance, Execution!Advance, UpdateTransactionState,
         Execution!UpdateTransactionState, CanTransition,
         Execution!CanTransition, getTransitions, Execution!getTransitions,
         sagaTransitions, Execution!sagaTransitions
<1>4. target \in Execution!TxStates
  BY DEF TxStates, Execution!TxStates
<1>5. QED
  BY <1>2, <1>3, <1>4 DEF Execution!Move

\* Each action is a Move, a GiveUp or a Reload, or a step that the callers do
\* not see.
LEMMA EveryStep ==
    ASSUME IInv, FirstInv, [Next]_vars
    PROVE  [Execution!Next]_(Execution!execution)
<1>1. executions \in Nat /\ executions >= 1
  BY ExecutionsCount DEF IInv
<1>2. pc # "returned" => Returned = "none"
  BY DEF IInv, PcInv, Returned
<1> DEFINE Out(target, err) == Execution!OutcomeOf(target, err)
<1>3. ASSUME NEW err \in BOOLEAN
      PROVE  /\ Out("RUNNING", err) = IF err THEN "error" ELSE "none"
             /\ Out("COMPENSATING", err) = IF err THEN "error" ELSE "none"
             /\ Out("COMMITTED", err) = IF err THEN "error" ELSE "ok"
             /\ Out("COMPENSATED", err) = "error"
             /\ Out("SUSPENDED", err) = "error"
  BY DEF Execution!OutcomeOf, Execution!IsFinal, Execution!FinalStates
<1> HIDE DEF Out
<1>4. ASSUME NEW target \in {"RUNNING", "COMPENSATING", "COMMITTED",
                             "COMPENSATED", "SUSPENDED"},
             NEW err \in BOOLEAN, Advance("WORKFLOW", target, err),
             pc # "returned", UNCHANGED executions,
             Returned' = Out(target, err)
      PROVE  Execution!Next
  <2>1. target \in TxStates /\ target # "FAILED"
    BY <1>4, Names
  <2>2. Returned' = Execution!OutcomeOf(target, err)
    BY <1>4 DEF Out
  <2>3. QED
    BY <1>2, <1>4, <2>1, <2>2, AdvanceIsMove DEF Execution!Next
<1>5. CASE Begin
  <2>1. PICK err \in BOOLEAN :
            /\ Advance("WORKFLOW", "RUNNING", err)
            /\ IF err THEN Return("adapter_error") ELSE Goto("handler")
    BY <1>5 DEF Begin
  <2>2. pc # "returned" /\ UNCHANGED executions
    BY <1>5 DEF Begin
  <2>3. Returned' = Out("RUNNING", err)
    BY <1>2, <1>3, <2>1, <2>2 DEF Return, Goto, Returned
  <2>4. QED
    BY <1>4, <2>1, <2>2, <2>3
<1>6. CASE Commit
  <2>1. PICK err \in BOOLEAN :
            /\ Advance("WORKFLOW", "COMMITTED", err)
            /\ Return(IF err THEN "adapter_error" ELSE "committed")
    BY <1>6 DEF Commit
  <2>2. pc # "returned" /\ UNCHANGED executions
    BY <1>6 DEF Commit
  <2>3. Returned' = Out("COMMITTED", err)
    BY <1>3, <2>1 DEF Return, Returned
  <2>4. QED
    BY <1>4, <2>1, <2>2, <2>3
<1>7. CASE BeginRollback
  <2>1. PICK err \in BOOLEAN :
            /\ Advance("WORKFLOW", "COMPENSATING", err)
            /\ IF err THEN Return("rollback_failed") ELSE Goto("list")
    BY <1>7 DEF BeginRollback
  <2>2. pc # "returned" /\ UNCHANGED executions
    BY <1>7 DEF BeginRollback
  <2>3. Returned' = Out("COMPENSATING", err)
    BY <1>2, <1>3, <2>1, <2>2 DEF Return, Goto, Returned
  <2>4. QED
    BY <1>4, <2>1, <2>2, <2>3
<1>8. CASE EndRollback
  <2>1. PICK err \in BOOLEAN :
            /\ Advance("WORKFLOW", "COMPENSATED", err)
            /\ Return(IF err THEN "rollback_failed" ELSE "compensated")
    BY <1>8 DEF EndRollback
  <2>2. pc # "returned" /\ UNCHANGED executions
    BY <1>8 DEF EndRollback
  <2>3. Returned' = Out("COMPENSATED", err)
    BY <1>3, <2>1 DEF Return, Returned
  <2>4. QED
    BY <1>4, <2>1, <2>2, <2>3
<1>9. CASE Suspend
  <2>1. PICK err \in BOOLEAN : Advance("WORKFLOW", "SUSPENDED", err)
    BY <1>9 DEF Suspend
  <2>2. pc # "returned" /\ UNCHANGED executions
    BY <1>9 DEF Suspend
  <2>3. Returned' = Out("SUSPENDED", err)
    BY <1>3, <1>9, <2>1 DEF Suspend, Return, Returned
  <2>4. QED
    BY <1>4, <2>1, <2>2, <2>3
<1>10. CASE RejectBegin
  <2>1. executions > 1 /\ state # "PENDING"
    BY <1>1, <1>10, Moves DEF RejectBegin, FirstInv
  <2>2. Returned = "none" /\ Returned' = "error"
    BY <1>2, <1>10 DEF RejectBegin, Return, Returned
  <2>3. QED
    BY <1>10, <2>1, <2>2 DEF RejectBegin, Execution!Next, Execution!GiveUp
<1>11. CASE Reexecute
  <2>1. executions' > 1
    BY <1>1, <1>11 DEF Reexecute
  <2>2. QED
    BY <1>11, <2>1
       DEF Reexecute, Returned, Execution!Next, Execution!Reload
<1>12. CASE UNCHANGED <<state, store, result, executions>>
  BY <1>12 DEF Returned, Execution!execution
<1>13. CASE Execute
  BY <1>13, <1>5, <1>6, <1>7, <1>8, <1>9, <1>10, <1>12
     DEF Execute, HandlerReturns, ListToConfirm, SkipConfirm, ConfirmSucceeds,
         ConfirmFails, ListToRollBack, SkipRollback, RollbackSucceeds,
         RollbackFails, Goto
<1>14. QED
  BY <1>11, <1>12, <1>13
     DEF Next, NewBranch, SetCallback, Crash, Terminated, vars

\* The executor implements TxExecution: whatever its handler, its branches and
\* its callbacks do, and wherever it crashes, a caller sees no other steps.
THEOREM ImplementsExecution ==
    Spec => ExecutionSpec
<1>1. Init => Execution!Init
  BY DEF Init, Returned, Execution!Init
<1>2. ASSUME IInv, FirstInv, [Next]_vars
      PROVE  [Execution!Next]_(Execution!execution)
  BY <1>2, EveryStep
<1>3. QED
  BY Invariance, FirstCall, <1>1, <1>2, PTL
     DEF Spec, ExecutionSpec, Execution!Spec

=============================================================================
