------------------------- MODULE RecoveryScanProofs --------------------------
(***************************************************************************)
(* Proofs about RecoveryScan, for any transactions, of any modes, any      *)
(* recoverers, any limit to a load and any handlers that fail.             *)
(***************************************************************************)
EXTENDS RecoveryScan, TLAPS

(***************************************************************************)
(* The inductive invariant.  The stored state and the way that the         *)
(* executor took go together, each state that can be loaded is one of the  *)
(* transaction's mode, and what a scan has handled is in a state that the  *)
(* scan has passed, or in one that it never comes to.                      *)
(***************************************************************************)
\* The states in which no executor has taken a way.
FirstPhase == {"PENDING", "RUNNING", "TRYING", "PREPARING", "PREPARED",
               "SUBMITTING", "SUBMITTED"}

\* The modes with the table of the saga.
Sagas == {"SAGA", "WORKFLOW"}

WayInv ==
    \A t \in Txs :
       \/ /\ outcome[t] = "none"
          /\ store[t] \in FirstPhase \cup {"FAILED", "SUSPENDED"}
       \/ /\ outcome[t] = "finish"
          /\ store[t] \in {"CONFIRMING", "COMMITTING", "COMMITTED", "SUSPENDED"}
       \/ /\ outcome[t] = "undo"
          /\ \/ store[t] \in {"COMPENSATED", "ROLLEDBACK", "SUSPENDED"}
             \/ store[t] = "COMPENSATING" /\ Mode[t] \in Sagas
             \/ store[t] \in {"CANCELING", "ABORTING"} /\ Mode[t] \notin Sagas

LoadInv == \A r \in Scanners : pc[r] = "load" => batch[r] = {}

PassedInv ==
    \A r \in Scanners : \A t \in handled[r] : \E j \in 1..k[r] :
       /\ store[t] \in {recoverableStates[j], "SUSPENDED"} \cup FinalStates
       /\ pc[r] = "load" => j < k[r]

IInv ==
    /\ TypeOK
    /\ WayInv /\ LoadInv /\ PassedInv
    /\ StaleIsNotWrong /\ HandledOnce

------------------------------------------------------------------------------
Loaded == {"SUSPENDED", "COMPENSATING", "CONFIRMING", "CANCELING", "COMMITTING",
           "ABORTING"}

\* The scan's list of states, of which SUSPENDED comes first.
LEMMA List ==
    /\ Len(recoverableStates) = 6
    /\ \A j \in 1..6 :
          /\ recoverableStates[j] \in Loaded
          /\ recoverableStates[j] = "SUSPENDED" => j = 1
    /\ \A j, l \in 1..6 : recoverableStates[j] = recoverableStates[l] => j = l
    /\ \A s : IsRecoverable(s) => s \in Loaded
    /\ Loaded \cap FinalStates = {}
<1>1. Len(recoverableStates) = 6
  BY DEF recoverableStates
<1>2. /\ recoverableStates[1] = "SUSPENDED"
      /\ recoverableStates[2] = "COMPENSATING"
      /\ recoverableStates[3] = "CONFIRMING"
      /\ recoverableStates[4] = "CANCELING"
      /\ recoverableStates[5] = "COMMITTING"
      /\ recoverableStates[6] = "ABORTING"
  BY DEF recoverableStates
<1>3. \A j \in 1..6 : j = 1 \/ j = 2 \/ j = 3 \/ j = 4 \/ j = 5 \/ j = 6
  OBVIOUS
<1>4. \A j \in 1..6 :
          /\ recoverableStates[j] \in Loaded
          /\ recoverableStates[j] = "SUSPENDED" => j = 1
  BY <1>2, <1>3 DEF Loaded
<1>5. \A j, l \in 1..6 : recoverableStates[j] = recoverableStates[l] => j = l
  BY <1>2, <1>3
<1>6. \A s : IsRecoverable(s) => s \in Loaded
  BY <1>1, <1>4 DEF IsRecoverable
<1>7. Loaded \cap FinalStates = {}
  BY DEF Loaded, FinalStates
<1>8. QED
  BY <1>1, <1>4, <1>5, <1>6, <1>7

\* The tables of the modes, and the direction of a state.
LEMMA Tables ==
    ASSUME NEW mode \in TxModes, NEW a, NEW b, CanTransition(mode, a, b)
    PROVE  \/ /\ a = "PENDING"
              /\ b \in {"RUNNING", "TRYING", "PREPARING", "SUBMITTING"}
           \/ /\ a = "RUNNING" /\ mode \in Sagas
              /\ b \in {"COMMITTED", "COMPENSATING", "FAILED", "SUSPENDED"}
           \/ /\ a = "COMPENSATING" /\ mode \in Sagas
              /\ b \in {"COMPENSATED", "FAILED", "SUSPENDED"}
           \/ /\ a = "TRYING" /\ mode = "TCC"
              /\ b \in {"CONFIRMING", "CANCELING", "FAILED", "SUSPENDED"}
           \/ /\ a \in {"CONFIRMING", "COMMITTING"} /\ mode \in {"TCC", "XA"}
              /\ b \in {"COMMITTED", "FAILED", "SUSPENDED"}
           \/ /\ a \in {"CANCELING", "ABORTING"} /\ mode \in {"TCC", "XA"}
              /\ b \in {"ROLLEDBACK", "FAILED", "SUSPENDED"}
           \/ /\ a = "PREPARING" /\ mode = "XA"
              /\ b \in {"PREPARED", "ABORTING", "FAILED", "SUSPENDED"}
           \/ a = "PREPARED" /\ b \in {"COMMITTING", "ABORTING"} /\ mode = "XA"
           \/ /\ a = "SUBMITTING" /\ mode = "OUTBOX"
              /\ b \in {"SUBMITTED", "FAILED", "SUSPENDED"}
           \/ a = "SUBMITTED" /\ b = "COMMITTED" /\ mode = "OUTBOX"
<1>1. CASE mode \in Sagas
  BY <1>1 DEF CanTransition, getTransitions, sagaTransitions, Sagas
<1>2. CASE mode = "TCC"
  BY <1>2 DEF CanTransition, getTransitions, tccTransitions
<1>3. CASE mode = "XA"
  BY <1>3 DEF CanTransition, getTransitions, xaTransitions
<1>4. CASE mode = "OUTBOX"
  BY <1>4 DEF CanTransition, getTransitions, outboxTransitions
<1>5. QED
  BY <1>1, <1>2, <1>3, <1>4 DEF TxModes, Sagas

\* A move of an executor, and the direction that it takes.
LEMMA Moves ==
    ASSUME NEW mode \in TxModes, NEW a, NEW b,
           <<a, b>> \in ExecutorMoves(mode)
    PROVE  \/ /\ a \in FirstPhase
              /\ \/ /\ b \in FirstPhase \cup {"FAILED", "SUSPENDED"}
                    /\ Direction(b) = "none"
                 \/ /\ b \in {"CONFIRMING", "COMMITTING", "COMMITTED"}
                    /\ Direction(b) = "finish"
                 \/ /\ \/ b = "COMPENSATING" /\ mode \in Sagas
                       \/ b \in {"CANCELING", "ABORTING"} /\ mode \notin Sagas
                    /\ Direction(b) = "undo"
           \/ a = "COMPENSATING" /\ b \in {"COMPENSATED", "SUSPENDED"}
           \/ a \in {"CONFIRMING", "COMMITTING"} /\ b \in {"COMMITTED",
                                                           "SUSPENDED"}
           \/ a \in {"CANCELING", "ABORTING"} /\ b \in {"ROLLEDBACK",
                                                        "SUSPENDED"}
<1>1. CanTransition(mode, a, b) /\ (b = "FAILED" => mode = "OUTBOX")
  BY DEF ExecutorMoves, CanTransition
<1>2. QED
  BY <1>1, Tables DEF Direction, FirstPhase, Sagas

\* The state in which a handler leaves a transaction.
LEMMA Ends ==
    ASSUME NEW t \in Txs, NEW s
    PROVE  /\ EndState(t, s) \in {"COMMITTED", "COMPENSATED", "ROLLEDBACK"}
           /\ s \in {"CONFIRMING", "COMMITTING"} => EndState(t, s) = "COMMITTED"
           /\ s = "COMPENSATING" /\ Mode[t] \in Sagas =>
                  EndState(t, s) = "COMPENSATED"
           /\ s \in {"CANCELING", "ABORTING"} /\ Mode[t] \notin Sagas =>
                  EndState(t, s) = "ROLLEDBACK"
  BY DEF EndState, Direction, Sagas

LEMMA InitIInv == Init => IInv
<1> SUFFICES ASSUME Init PROVE IInv
  OBVIOUS
<1>1. TypeOK
  BY List DEF Init, TypeOK, TxStates
<1>2. QED
  BY <1>1 DEF Init, IInv, WayInv, FirstPhase, LoadInv, PassedInv,
              StaleIsNotWrong, HandledOnce

------------------------------------------------------------------------------
\* The stored state of one transaction moves on from a state that can be loaded
\* only to SUSPENDED or to the end of its way, which no copy contradicts.
LEMMA StoreMoves ==
    ASSUME IInv, TypeOK', WayInv',
           UNCHANGED <<pc, k>>,
           \A r \in Scanners :
              batch'[r] \subseteq batch[r] /\ handled'[r] = handled[r],
           NEW t \in Txs,
           \A u \in Txs \ {t} :
              store'[u] = store[u] /\ outcome'[u] = outcome[u],
           store[t] \in Loaded \cup FinalStates =>
              /\ store[t] \in Loaded
              /\ outcome'[t] = outcome[t]
              /\ store'[t] \in {"SUSPENDED", EndState(t, store[t])}
              /\ store[t] # "SUSPENDED"
    PROVE  (PassedInv /\ StaleIsNotWrong /\ HandledOnce)'
<1> USE List DEF IInv
<1>1. HandledOnce'
  BY DEF HandledOnce
<1>2. PassedInv'
  <2> SUFFICES ASSUME NEW r \in Scanners, NEW u \in handled[r]
               PROVE  \E j \in 1..k[r] :
                         /\ store'[u] \in {recoverableStates[j], "SUSPENDED"}
                                              \cup FinalStates
                         /\ pc[r] = "load" => j < k[r]
    BY DEF PassedInv, TypeOK
  <2>1. u \in Txs
    BY DEF TypeOK
  <2>2. PICK j \in 1..k[r] :
           /\ store[u] \in {recoverableStates[j], "SUSPENDED"} \cup FinalStates
           /\ pc[r] = "load" => j < k[r]
    BY DEF PassedInv
  <2>3. j \in 1..6
    BY DEF TypeOK
  <2>4. store[u] \in Loaded \cup FinalStates
    BY <2>2, <2>3 DEF Loaded
  <2>5. store'[u] \in {store[u], "SUSPENDED"} \cup FinalStates
    BY <2>1, <2>4, Ends DEF FinalStates
  <2>6. QED
    BY <2>2, <2>5
<1>3. StaleIsNotWrong'
  <2> SUFFICES ASSUME NEW r \in Scanners, NEW u \in batch[r]
               PROVE  LET copy == recoverableStates[k[r]]
                      IN  /\ copy # "SUSPENDED" => Direction(copy) = outcome'[u]
                          /\ store'[u] \in {copy, "SUSPENDED",
                                            EndState(u, copy)'}
    BY DEF StaleIsNotWrong
  <2>1. u \in Txs /\ k[r] \in 1..6
    BY DEF TypeOK
  <2> DEFINE copy == recoverableStates[k[r]]
  <2>2. /\ copy \in Loaded
        /\ copy # "SUSPENDED" => Direction(copy) = outcome[u]
        /\ store[u] \in {copy, "SUSPENDED", EndState(u, copy)}
    BY <2>1 DEF StaleIsNotWrong
  <2>3. store[u] \in Loaded \cup FinalStates
    BY <2>1, <2>2, Ends DEF Loaded, FinalStates
  <2>4. outcome'[u] = outcome[u] /\ EndState(u, copy)' = EndState(u, copy)
    BY <2>1, <2>3 DEF EndState
  <2>5. store'[u] \in {store[u], "SUSPENDED", EndState(u, copy)}
    <3>1. CASE u # t
      BY <2>1, <3>1
    <3>2. CASE u = t
      BY <2>2, <2>3, <3>2, Ends, List DEF Loaded, FinalStates
    <3>3. QED
      BY <3>1, <3>2
  <2>6. QED
    BY <2>2, <2>4, <2>5
<1>4. QED
  BY <1>1, <1>2, <1>3

LEMMA NextIInv ==
    ASSUME IInv, [Next]_vars
    PROVE  IInv'
<1> USE ScanAssumption, List DEF IInv
<1>1. CASE UNCHANGED vars
  BY <1>1 DEF vars, transactions, scanning, TypeOK, WayInv, LoadInv, PassedInv,
              StaleIsNotWrong, HandledOnce, EndState
<1>2. CASE \E t \in Txs : ExecutorMove(t)
  <2>1. PICK t \in Txs : ExecutorMove(t)
    BY <1>2
  <2>2. PICK s \in TxStates :
           /\ <<store[t], s>> \in ExecutorMoves(Mode[t])
           /\ store' = [store EXCEPT ![t] = s]
           /\ outcome' = IF outcome[t] = "none"
                         THEN [outcome EXCEPT ![t] = Direction(s)] ELSE outcome
           /\ owner' = IF IsFinal(s) \/ s = "SUSPENDED"
                       THEN [owner EXCEPT ![t] = "gone"] ELSE owner
    BY <2>1 DEF ExecutorMove
  <2>3. UNCHANGED <<expired, scanning, registered>>
    BY <2>1 DEF ExecutorMove
  <2>4. TypeOK'
    <3>1. Direction(s) \in {"none", "finish", "undo"}
      BY DEF Direction
    <3>2. QED
      BY <2>2, <2>3, <3>1 DEF TypeOK, scanning
  <2>5. Mode[t] \in TxModes
    OBVIOUS
  <2>6. WayInv'
    <3> SUFFICES ASSUME NEW u \in Txs
                 PROVE  WayInv!(u)'
      BY DEF WayInv
    <3>1. CASE u # t
      BY <2>2, <3>1 DEF WayInv, TypeOK
    <3>2. CASE u = t
      <4>1. store'[t] = s /\ outcome'[t] = IF outcome[t] = "none"
                                           THEN Direction(s) ELSE outcome[t]
        BY <2>2 DEF TypeOK
      <4>2. QED
        BY <2>2, <2>5, <3>2, <4>1, Moves DEF FirstPhase, WayInv, Direction
    <3>3. QED
      BY <3>1, <3>2
  <2>7. LoadInv'
    BY <2>3 DEF LoadInv, scanning
  <2>8. store[t] \in Loaded \cup FinalStates =>
           /\ store[t] \in Loaded
           /\ outcome'[t] = outcome[t]
           /\ store'[t] \in {"SUSPENDED", EndState(t, store[t])}
           /\ store[t] # "SUSPENDED"
    BY <2>2, <2>5, Moves, Ends
       DEF WayInv, FirstPhase, TypeOK, Loaded, FinalStates
  <2>9. \A u \in Txs \ {t} : store'[u] = store[u] /\ outcome'[u] = outcome[u]
    BY <2>2 DEF TypeOK
  <2>10. (PassedInv /\ StaleIsNotWrong /\ HandledOnce)'
    BY <2>3, <2>4, <2>6, <2>8, <2>9, StoreMoves DEF scanning
  <2>11. QED
    BY <2>4, <2>6, <2>7, <2>10
<1>3. CASE \E t \in Txs : ExecutorGone(t) \/ Expire(t)
  BY <1>3 DEF ExecutorGone, Expire, scanning, TypeOK, WayInv, LoadInv,
              PassedInv, StaleIsNotWrong, HandledOnce, EndState
<1>4. CASE \E r \in Scanners : RegisterHandler(r)
  BY <1>4 DEF RegisterHandler, transactions, scanning, TypeOK, WayInv, LoadInv,
              PassedInv, StaleIsNotWrong, HandledOnce, EndState
<1>5. ASSUME NEW r \in Scanners, NEW got \in SUBSET Txs, Load(r, got)
      PROVE  IInv'
  <2> USE <1>5 DEF Load, transactions
  <2>1. TypeOK'
    BY DEF TypeOK
  <2>2. WayInv' /\ LoadInv' /\ PassedInv'
    BY DEF WayInv, LoadInv, PassedInv, TypeOK
  <2> DEFINE copy == recoverableStates[k[r]]
  <2>3. k[r] \in 1..6 /\ copy \in Loaded
    BY DEF TypeOK
  <2>4. \A t \in got : t \in Txs /\ store[t] = copy
    BY DEF LoadByState
  <2>5. StaleIsNotWrong'
    <3> SUFFICES ASSUME NEW q \in Scanners, NEW t \in batch'[q]
                 PROVE  LET c == recoverableStates[k[q]]
                        IN  /\ c # "SUSPENDED" => Direction(c) = outcome[t]
                            /\ store[t] \in {c, "SUSPENDED", EndState(t, c)}
      BY DEF StaleIsNotWrong, EndState
    <3>1. CASE q # r
      BY <3>1 DEF StaleIsNotWrong, TypeOK
    <3>2. CASE q = r
      <4>1. t \in Txs /\ store[t] = copy
        BY <2>4, <3>2 DEF TypeOK
      <4>2. copy # "SUSPENDED" => Direction(copy) = outcome[t]
        BY <2>3, <4>1 DEF FirstPhase, WayInv, Direction, Loaded
      <4>3. QED
        BY <3>2, <4>1, <4>2
    <3>3. QED
      BY <3>1, <3>2
  <2>6. HandledOnce'
    <3>1. ASSUME NEW t \in got, t \in handled[r]
          PROVE  FALSE
      <4>1. PICK j \in 1..k[r] :
               /\ store[t] \in {recoverableStates[j], "SUSPENDED"}
                                  \cup FinalStates
               /\ j < k[r]
        BY <3>1 DEF PassedInv
      <4>2. j \in 1..6 /\ k[r] # 1
        BY <2>3, <4>1
      <4>3. copy # recoverableStates[j] /\ copy # "SUSPENDED"
        BY <2>3, <4>1, <4>2
      <4>4. QED
        BY <2>3, <2>4, <3>1, <4>1, <4>3
    <3>2. QED
      BY <3>1 DEF HandledOnce, TypeOK
  <2>7. QED
    BY <2>1, <2>2, <2>5, <2>6
<1>6. ASSUME NEW r \in Scanners, LoadFails(r) \/ BatchDone(r)
      PROVE  IInv'
  <2>1. /\ batch[r] = {} /\ NextState(r)
        /\ UNCHANGED <<store, owner, outcome, expired, batch, registered>>
    BY <1>6 DEF LoadFails, BatchDone, NextState, LoadInv, transactions
  <2>2. /\ k' = [k EXCEPT ![r] = k'[r]] /\ k'[r] \in 1..6
        /\ pc' = [pc EXCEPT ![r] = "load"]
        /\ \/ k'[r] = k[r] + 1 /\ handled' = handled
           \/ handled' = [handled EXCEPT ![r] = {}]
    BY <2>1 DEF NextState, TypeOK
  <2>3. TypeOK' /\ WayInv'
    BY <2>1, <2>2 DEF TypeOK, WayInv
  <2>4. LoadInv' /\ HandledOnce'
    BY <2>1, <2>2 DEF LoadInv, HandledOnce, TypeOK
  <2>5. StaleIsNotWrong'
    BY <2>1, <2>2 DEF StaleIsNotWrong, TypeOK, EndState
  <2>6. PassedInv'
    <3> SUFFICES ASSUME NEW q \in Scanners, NEW t \in handled'[q]
                 PROVE  \E j \in 1..k'[q] :
                           /\ store'[t] \in {recoverableStates[j], "SUSPENDED"}
                                               \cup FinalStates
                           /\ pc'[q] = "load" => j < k'[q]
      BY DEF PassedInv
    <3>1. CASE q # r
      BY <2>1, <2>2, <3>1 DEF PassedInv, TypeOK
    <3>2. CASE q = r
      <4>1. handled' = handled /\ k'[r] = k[r] + 1 /\ t \in handled[r]
        BY <2>2, <3>2 DEF TypeOK
      <4>2. PICK j \in 1..k[r] :
               store[t] \in {recoverableStates[j], "SUSPENDED"} \cup FinalStates
        BY <4>1 DEF PassedInv
      <4>3. j \in 1..k'[q] /\ j < k'[q]
        BY <3>2, <4>1, <4>2 DEF TypeOK
      <4>4. QED
        BY <2>1, <4>2, <4>3
    <3>3. QED
      BY <3>1, <3>2
  <2>7. QED
    BY <2>3, <2>4, <2>5, <2>6
<1>7. ASSUME NEW r \in Scanners, NEW t \in Txs, Skip(r, t)
      PROVE  IInv'
  <2> USE <1>7 DEF Skip, Take, transactions
  <2>1. TypeOK' /\ WayInv' /\ LoadInv'
    BY DEF TypeOK, WayInv, LoadInv
  <2>2. (PassedInv /\ HandledOnce)'
    BY DEF PassedInv, HandledOnce, TypeOK
  <2>3. StaleIsNotWrong'
    BY DEF StaleIsNotWrong, TypeOK, EndState
  <2>4. QED
    BY <2>1, <2>2, <2>3
<1>8. ASSUME NEW r \in Scanners, NEW t \in Txs,
             HandlerFails(r, t) \/ HandlerSucceeds(r, t)
      PROVE  IInv'
  <2>1. CallHandler(r, t) /\ UNCHANGED <<owner, outcome, expired, pc, k,
                                         registered>>
    BY <1>8 DEF HandlerFails, HandlerSucceeds, transactions
  <2> DEFINE copy == recoverableStates[k[r]]
  <2>2. /\ pc[r] = "handle" /\ t \in batch[r] /\ k[r] \in 1..6
        /\ batch' = [batch EXCEPT ![r] = @ \ {t}]
        /\ handled' = [handled EXCEPT ![r] = @ \cup {t}]
    BY <2>1 DEF CallHandler, Take, TypeOK
  <2>3. /\ copy \in Loaded
        /\ copy # "SUSPENDED" => Direction(copy) = outcome[t]
        /\ store[t] \in {copy, "SUSPENDED", EndState(t, copy)}
    BY <2>2 DEF StaleIsNotWrong
  <2>4. \/ store' = store
        \/ /\ store' = [store EXCEPT ![t] = EndState(t, copy)]
           /\ store[t] = copy /\ copy # "SUSPENDED"
    <3>1. CASE store' = store
      BY <3>1
    <3>2. CASE store' # store
      <4>1. /\ store' = [store EXCEPT ![t] = EndState(t, copy)]
            /\ CanTransition(Mode[t], store[t], EndState(t, copy))
        BY <1>8, <3>2 DEF HandlerFails, HandlerSucceeds, transactions
      <4>2. Mode[t] \in TxModes
        OBVIOUS
      <4>3. store[t] \notin FinalStates /\ store[t] # "SUSPENDED"
        BY <4>1, <4>2, Tables DEF FinalStates
      <4>4. store[t] = copy
        BY <2>3, <4>3, Ends DEF FinalStates
      <4>5. QED
        BY <4>1, <4>3, <4>4
    <3>3. QED
      BY <3>1, <3>2
  <2>5. TypeOK' /\ LoadInv'
    <3>1. EndState(t, copy) \in TxStates
      BY Ends DEF TxStates
    <3>2. QED
      BY <2>1, <2>2, <2>4, <3>1 DEF TypeOK, LoadInv
  <2>6. WayInv'
    BY <2>1, <2>3, <2>4, Ends DEF FirstPhase, WayInv, TypeOK, Loaded
  <2>7. \A u \in Txs : \/ store'[u] = store[u]
                       \/ /\ u = t /\ store[t] = copy
                          /\ store'[t] = EndState(t, copy)
    BY <2>4 DEF TypeOK
  <2>8. StaleIsNotWrong'
    <3> SUFFICES ASSUME NEW q \in Scanners, NEW u \in batch[q]
                 PROVE  LET c == recoverableStates[k[q]]
                        IN  /\ c # "SUSPENDED" => Direction(c) = outcome[u]
                            /\ store'[u] \in {c, "SUSPENDED", EndState(u, c)}
      BY <2>1, <2>2 DEF StaleIsNotWrong, TypeOK, EndState
    <3>1. u \in Txs
      BY DEF TypeOK
    <3> DEFINE c == recoverableStates[k[q]]
    <3>2. /\ c # "SUSPENDED" => Direction(c) = outcome[u]
          /\ store[u] \in {c, "SUSPENDED", EndState(u, c)}
          /\ c \in Loaded
      BY DEF StaleIsNotWrong, TypeOK
    <3>3. CASE store'[u] = store[u]
      BY <3>2, <3>3
    <3>4. CASE u = t /\ store[t] = copy /\ store'[t] = EndState(t, copy)
      <4>1. copy = c \/ copy = "SUSPENDED"
        BY <2>3, <3>2, <3>4, Ends DEF FinalStates
      <4>2. QED
        BY <2>4, <3>2, <3>3, <3>4, <4>1
    <3>5. QED
      BY <2>7, <3>1, <3>3, <3>4
  <2>9. HandledOnce'
    BY <2>2 DEF HandledOnce, TypeOK
  <2>10. PassedInv'
    <3> SUFFICES ASSUME NEW q \in Scanners, NEW u \in handled'[q]
                 PROVE  \E j \in 1..k[q] :
                           /\ store'[u] \in {recoverableStates[j], "SUSPENDED"}
                                               \cup FinalStates
                           /\ pc[q] = "load" => j < k[q]
      BY <2>1 DEF PassedInv
    <3>1. store'[u] = store[u] \/ store'[u] \in FinalStates
      BY <2>5, <2>7, Ends DEF TypeOK, FinalStates
    <3>2. CASE q = r /\ u = t
      <4>1. store[t] \in {copy, "SUSPENDED"} \cup FinalStates
        BY <2>3, Ends DEF FinalStates
      <4>2. k[q] \in 1..k[q] /\ pc[q] # "load"
        BY <2>2, <3>2
      <4>3. QED
        BY <3>1, <3>2, <4>1, <4>2
    <3>3. CASE ~(q = r /\ u = t)
      <4>1. u \in handled[q]
        BY <2>2, <3>3 DEF TypeOK
      <4>2. PICK j \in 1..k[q] :
               /\ store[u] \in {recoverableStates[j], "SUSPENDED"}
                                  \cup FinalStates
               /\ pc[q] = "load" => j < k[q]
        BY <4>1 DEF PassedInv
      <4>3. QED
        BY <3>1, <4>2
    <3>4. QED
      BY <3>2, <3>3
  <2>11. QED
    BY <2>5, <2>6, <2>8, <2>9, <2>10
<1>9. QED
  BY <1>1, <1>2, <1>3, <1>4, <1>5, <1>6, <1>7, <1>8 DEF Next, Scan

------------------------------------------------------------------------------
(***************************************************************************)
(* What follows.                                                           *)
(***************************************************************************)

\* The inductive invariant holds at every moment.
THEOREM Invariance == Spec => []IInv
  BY InitIInv, NextIInv, PTL DEF Spec

\* Every variable of RecoveryScan keeps its type.
THEOREM TypeCorrect == Spec => []TypeOK
  BY Invariance, PTL DEF IInv

\* The copies in a recoverer's hands grow stale, and never wrong.
THEOREM StaleNeverWrong == Spec => []StaleIsNotWrong
  BY Invariance, PTL DEF IInv

\* What is stored never contradicts the way that the executor took.
THEOREM WayIsKept == Spec => []OutcomeKept
<1>1. IInv => OutcomeKept
  BY DEF FirstPhase, IInv, WayInv, OutcomeKept, Direction
<1>2. QED
  BY Invariance, <1>1, PTL

\* No scan hands a transaction to the handler twice.
THEOREM NeverTwice == Spec => []HandledOnce
  BY Invariance, PTL DEF IInv
==============================================================================
