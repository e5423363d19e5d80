---------------------------- MODULE RuntimeProofs ----------------------------
(***************************************************************************)
(* Proofs about Runtime, for any number of calls, of Runtimes and of IDs,  *)
(* and any faults of the store.                                            *)
(***************************************************************************)
EXTENDS Runtime, FiniteSetTheorems, TLAPS

(***************************************************************************)
(* The inductive invariant.  A call that drives its executor has its entry *)
(* to itself, since SaveTransaction refused it otherwise; how it ended and *)
(* what the entry says go together from then on, and what the lists of     *)
(* events say is that.                                                     *)
(***************************************************************************)
DrivenInv ==
    \A c \in Driven :
       /\ id[c] \in Ids /\ mode[c] \in TxModes
       /\ pc[c] = "execute" => data[id[c]] = state[c]
       /\ pc[c] \in {"notify", "publish", "returned"} =>
              /\ ~failed[c] =>
                     state[c] = "COMMITTED" /\ data[id[c]] = "COMMITTED"
              /\ failed[c] /\ data[id[c]] = "COMMITTED" =>
                     "lost_reply" \in StoreFaults

PcInv ==
    \A c \in Calls :
       /\ pc[c] \in {"new", "save"} => state[c] = "PENDING"
       /\ pc[c] = "save" => id[c] \in Ids /\ mode[c] \in TxModes
       /\ pc[c] \in {"notify", "publish"} => state[c] # "PENDING"

\* What is announced of a call is how it ended.
Tells(e) ==
    /\ pc[e.call] = "returned" /\ state[e.call] # "PENDING"
    /\ e.state = state[e.call]
    /\ e.type = IF failed[e.call] THEN "failed" ELSE "committed"

EventsInv ==
    /\ \A r \in Runtimes : \A k \in 1..Len(events[r]) : Tells(events[r][k])
    /\ \A c \in Calls : \A k \in 1..Len(seen[c]) : Tells(seen[c][k])

IInv ==
    /\ TypeOK
    /\ PcInv /\ DrivenInv /\ EventsInv
    /\ OwnTransaction

------------------------------------------------------------------------------
\* A legal move is made from a state of the table, and changes it.
LEMMA Edges ==
    ASSUME NEW m, NEW a, NEW b, CanTransition(m, a, b)
    PROVE  /\ a \in TxStates /\ b \in TxStates \ {"PENDING"}
           /\ a # "COMMITTED"
<1>1. CASE m = "TCC"
  BY <1>1 DEF CanTransition, getTransitions, tccTransitions, TxStates
<1>2. CASE m = "XA"
  BY <1>2 DEF CanTransition, getTransitions, xaTransitions, TxStates
<1>3. CASE m = "OUTBOX"
  BY <1>3 DEF CanTransition, getTransitions, outboxTransitions, TxStates
<1>4. CASE m \notin {"TCC", "XA", "OUTBOX"}
  BY <1>4 DEF CanTransition, getTransitions, sagaTransitions, TxStates
<1>5. QED
  BY <1>1, <1>2, <1>3, <1>4

LEMMA Names == "PENDING" \in TxStates /\ "SUBMITTED" \in TxStates
               /\ "absent" \notin TxStates /\ "none" \notin TxModes
  BY DEF TxStates, TxModes

LEMMA InitIInv == Init => IInv
<1> SUFFICES ASSUME Init PROVE IInv
  OBVIOUS
<1>1. TypeOK
  BY Names DEF Init, TypeOK
<1>2. Driven = {}
  BY DEF Init, Driven
<1>3. PcInv /\ DrivenInv /\ OwnTransaction
  BY <1>2 DEF Init, PcInv, DrivenInv, OwnTransaction
<1>4. EventsInv
  BY DEF Init, EventsInv
<1>5. QED
  BY <1>1, <1>3, <1>4 DEF IInv

\* A step of one call that leaves the lists of events alone.  What it must keep
\* is about that call; the entries of the other calls are not its own.
LEMMA QuietStep ==
    ASSUME IInv, TypeOK', NEW c \in Calls, pc[c] # "returned",
           \A d \in Calls \ {c} :
              /\ pc'[d] = pc[d] /\ mode'[d] = mode[d] /\ id'[d] = id[d]
              /\ state'[d] = state[d] /\ failed'[d] = failed[d],
           UNCHANGED <<events, seen>>,
           \A t \in Ids :
              \/ data'[t] = data[t]
              \/ id'[c] = t /\ (c \in Driven' \/ data[t] = "absent"),
           c \in Driven' =>
              /\ id'[c] \in Ids /\ mode'[c] \in TxModes
              /\ pc'[c] = "execute" => data'[id'[c]] = state'[c]
              /\ pc'[c] \in {"notify", "publish", "returned"} =>
                     /\ ~failed'[c] => /\ state'[c] = "COMMITTED"
                                       /\ data'[id'[c]] = "COMMITTED"
                     /\ failed'[c] /\ data'[id'[c]] = "COMMITTED" =>
                            "lost_reply" \in StoreFaults
              /\ \/ data'[id'[c]] = state'[c]
                 \/ CanTransition(mode'[c], data'[id'[c]], state'[c])
              /\ \/ c \in Driven /\ id'[c] = id[c]
                 \/ data[id'[c]] = "absent",
           pc'[c] \in {"new", "save"} => state'[c] = "PENDING",
           pc'[c] = "save" => id'[c] \in Ids /\ mode'[c] \in TxModes,
           pc'[c] \in {"notify", "publish"} => state'[c] # "PENDING"
    PROVE  IInv'
<1> USE DEF IInv
<1>1. PcInv'
  BY DEF PcInv
<1>2. \A d \in Calls \ {c} : d \in Driven' <=> d \in Driven
  BY DEF Driven
<1>3. ASSUME NEW d \in Driven
      PROVE  data[id[d]] # "absent"
  <2>1. state[d] \in TxStates
    BY DEF Driven, TypeOK
  <2>2. \/ data[id[d]] = state[d]
        \/ CanTransition(mode[d], data[id[d]], state[d])
    BY DEF OwnTransaction
  <2>3. data[id[d]] \in TxStates
    BY <2>1, <2>2, Edges
  <2>4. QED
    BY <2>3, Names
<1>4. \A d \in Driven \ {c} : c \in Driven' => id[d] # id'[c]
  BY <1>3 DEF OwnTransaction
<1>5. \A d \in Driven \ {c} : data'[id[d]] = data[id[d]]
  BY <1>3, <1>4 DEF DrivenInv
<1>6. \A d \in Driven : d \in Calls
  BY DEF Driven
<1>7. \A d \in Driven' : d = c \/ d \in Driven \ {c}
  BY <1>2 DEF Driven
<1>8. DrivenInv'
  <2> SUFFICES ASSUME NEW d \in Driven'
               PROVE  DrivenInv!(d)'
    BY DEF DrivenInv
  <2>1. CASE d = c
    BY <2>1
  <2>2. CASE d \in Driven \ {c}
    BY <1>5, <1>6, <2>2 DEF DrivenInv
  <2>3. QED
    BY <1>7, <2>1, <2>2
<1>9. OwnTransaction'
  <2>1. \A d, e \in Driven' : id'[d] = id'[e] => d = e
    BY <1>4, <1>6, <1>7 DEF OwnTransaction
  <2>2. \A d \in Driven' :
           \/ data'[id'[d]] = state'[d]
           \/ CanTransition(mode'[d], data'[id'[d]], state'[d])
    BY <1>5, <1>6, <1>7 DEF OwnTransaction
  <2>3. QED
    BY <2>1, <2>2 DEF OwnTransaction, CanTransition
<1>10. EventsInv'
  <2>1. \A e \in Event : Tells(e) => Tells(e)'
    BY DEF Tells, Event
  <2>2. QED
    BY <2>1 DEF EventsInv, TypeOK
<1>11. QED
  BY <1>1, <1>8, <1>9, <1>10

\* The steps of a method up to the end of Execute.
LEMMA QuietSteps ==
    ASSUME IInv, NEW c \in Calls, NEW m \in TxModes,
           \/ RefuseOptions(c) \/ NewTransaction(c, m)
           \/ Save(c) \/ Execute(c) \/ StopSending(c)
    PROVE  IInv'
<1> USE Names DEF IInv
<1>1. CASE RefuseOptions(c)
  <2> USE <1>1 DEF RefuseOptions, Return, Goto, transaction, notifier
  <2>1. TypeOK'
    BY DEF TypeOK
  <2>2. state[c] = "PENDING" /\ pc'[c] = "returned"
    BY DEF PcInv, TypeOK
  <2>3. c \notin Driven'
    BY <2>2 DEF Driven
  <2>4. QED
    BY <2>1, <2>2, <2>3, QuietStep DEF TypeOK
<1>2. CASE NewTransaction(c, m)
  <2> USE <1>2 DEF NewTransaction, Goto, notifier
  <2>1. PICK t \in Ids : id' = [id EXCEPT ![c] = t]
    OBVIOUS
  <2>2. TypeOK'
    BY <2>1 DEF TypeOK
  <2>3. /\ state[c] = "PENDING" /\ pc'[c] = "save"
        /\ id'[c] \in Ids /\ mode'[c] \in TxModes
    BY <2>1 DEF PcInv, TypeOK
  <2>4. c \notin Driven'
    BY <2>3 DEF Driven
  <2>5. QED
    BY <2>1, <2>2, <2>3, <2>4, QuietStep DEF TypeOK
<1>3. CASE Save(c)
  <2> USE <1>3 DEF Save, Goto, Return, transaction, notifier
  <2>1. PICK err \in BOOLEAN :
           /\ SaveTransaction(id[c], err)
           /\ IF err THEN Return(c, TRUE)
                     ELSE Goto(c, "execute") /\ UNCHANGED failed
    OBVIOUS
  <2>2. /\ id[c] \in Ids /\ mode[c] \in TxModes /\ state[c] = "PENDING"
        /\ pc[c] = "save"
    BY DEF PcInv
  <2>3. /\ data' = data \/ data' = [data EXCEPT ![id[c]] = "PENDING"]
        /\ data' # data => data[id[c]] = "absent"
        /\ ~err => data[id[c]] = "absent"
                   /\ data' = [data EXCEPT ![id[c]] = "PENDING"]
    BY <2>1 DEF SaveTransaction
  <2>4. TypeOK'
    BY <2>1, <2>3 DEF TypeOK
  <2>5. /\ pc'[c] = IF err THEN "returned" ELSE "execute"
        /\ \A d \in Calls \ {c} : pc'[d] = pc[d] /\ failed'[d] = failed[d]
    BY <2>1 DEF TypeOK
  <2>6. \A t \in Ids : \/ data'[t] = data[t]
                       \/ id[c] = t /\ data[t] = "absent"
    BY <2>2, <2>3 DEF TypeOK
  <2>7. c \in Driven' => ~err /\ pc'[c] = "execute" /\ data'[id[c]] = "PENDING"
    BY <2>2, <2>3, <2>5 DEF Driven, TypeOK
  <2>8. QED
    BY <2>1, <2>2, <2>3, <2>4, <2>5, <2>6, <2>7, QuietStep
<1>4. CASE Execute(c)
  <2>1. PICK s \in TxStates, err \in BOOLEAN :
           /\ <<state[c], s>> \in ExecutorMoves(mode[c])
           /\ state' = [state EXCEPT ![c] = s]
           /\ UpdateTransactionState(c, s, err)
           /\ IF err \/ IsFinal(s) \/ s = "SUSPENDED"
              THEN /\ Goto(c, "notify")
                   /\ failed' = [failed EXCEPT ![c] = err \/ s # "COMMITTED"]
              ELSE UNCHANGED <<pc, failed>>
    BY <1>4 DEF Execute
  <2>2. pc[c] = "execute" /\ UNCHANGED <<mode, id, events, seen, overlap>>
    BY <1>4 DEF Execute, notifier
  <2>3. c \in Driven
    BY <2>2 DEF Driven
  <2>4. /\ id[c] \in Ids /\ mode[c] \in TxModes /\ data[id[c]] = state[c]
    BY <2>2, <2>3 DEF DrivenInv
  <2>5. CanTransition(mode[c], state[c], s)
    BY <2>1 DEF ExecutorMoves, CanTransition
  <2>6. s # "PENDING" /\ state[c] # "COMMITTED"
    BY <2>5, Edges
  <2>7. /\ data' = data \/ data' = [data EXCEPT ![id[c]] = s]
        /\ ~err => data' = [data EXCEPT ![id[c]] = s]
        /\ err /\ data' # data => "lost_reply" \in StoreFaults
    BY <2>1 DEF UpdateTransactionState
  <2>8. /\ pc'[c] \in {"execute", "notify"}
        /\ pc'[c] = "execute" => ~err
        /\ pc'[c] = "notify" => failed'[c] = (err \/ s # "COMMITTED")
        /\ \A d \in Calls \ {c} : /\ pc'[d] = pc[d] /\ failed'[d] = failed[d]
                                  /\ state'[d] = state[d]
        /\ state'[c] = s
    BY <2>1, <2>2 DEF TypeOK, Goto
  <2>9. TypeOK'
    BY <2>1, <2>2, <2>7 DEF TypeOK, Goto
  <2>10. data'[id[c]] \in {state[c], s} /\ (~err => data'[id[c]] = s)
    BY <2>4, <2>7 DEF TypeOK
  <2>11. err /\ data'[id[c]] = "COMMITTED" => "lost_reply" \in StoreFaults
    BY <2>4, <2>6, <2>7
  <2>12. \A t \in Ids : data'[t] = data[t] \/ id[c] = t
    BY <2>4, <2>7 DEF TypeOK
  <2>13. c \in Driven'
    BY <2>6, <2>8 DEF Driven
  <2>14. pc'[c] = "notify" =>
            /\ ~failed'[c] => s = "COMMITTED" /\ data'[id[c]] = "COMMITTED"
            /\ failed'[c] /\ data'[id[c]] = "COMMITTED" =>
                   "lost_reply" \in StoreFaults
    BY <2>6, <2>8, <2>10, <2>11
  <2>15. QED
    BY <2>2, <2>3, <2>4, <2>5, <2>6, <2>8, <2>9, <2>10, <2>12, <2>13, <2>14,
       QuietStep
<1>5. CASE StopSending(c)
  <2> USE <1>5 DEF StopSending, Goto, transaction, notifier
  <2>1. TypeOK'
    BY DEF TypeOK
  <2>2. c \in Driven /\ c \in Driven'
    BY DEF Driven
  <2>3. /\ id[c] \in Ids /\ mode[c] \in TxModes
        /\ data[id[c]] = "SUBMITTED" /\ state[c] = "SUBMITTED"
    BY <2>2 DEF DrivenInv
  <2>4. /\ pc'[c] = "notify" /\ failed'[c]
        /\ \A d \in Calls \ {c} : pc'[d] = pc[d] /\ failed'[d] = failed[d]
    BY DEF TypeOK
  <2>5. QED
    BY <2>1, <2>2, <2>3, <2>4, QuietStep
<1>6. QED
  BY <1>1, <1>2, <1>3, <1>4, <1>5

\* The steps that announce, which leave the transactions and the store alone.
LEMMA NotifySteps ==
    ASSUME IInv, NEW c \in Calls, NEW ends,
           Silent(c, ends) \/ PublishReads(c, ends) \/ PublishWrites(c, ends)
    PROVE  IInv'
<1> USE Names DEF IInv
<1>1. /\ pc[c] \in {"notify", "publish"}
      /\ pc' = [pc EXCEPT ![c] = pc'[c]] /\ pc'[c] \in {"publish", "returned"}
      /\ UNCHANGED <<mode, id, state, failed, data>>
  BY DEF Silent, PublishReads, PublishWrites, Goto, transaction, TypeOK
<1>2. c \in Driven /\ state[c] # "PENDING" /\ Driven' = Driven
  BY <1>1 DEF Driven, PcInv, TypeOK
<1>3. RuntimeOf[c] \in Runtimes
  BY RuntimeAssumption
<1> DEFINE Told == {e \in Event :
                      /\ pc'[e.call] = "returned"
                      /\ state'[e.call] # "PENDING"
                      /\ e.state = state'[e.call]
                      /\ e.type = IF failed'[e.call] THEN "failed"
                                                    ELSE "committed"}
<1>4. \A e \in Event : Tells(e) => e \in Told
  BY <1>1 DEF Tells, Event, TypeOK
<1>5. EventType(c, ends) \subseteq
         {IF failed[c] THEN "failed" ELSE "committed"}
  <2>1. ~failed[c] => state[c] = "COMMITTED"
    BY <1>1, <1>2 DEF DrivenInv
  <2>2. EventOf("COMMITTED") = "committed"
    BY DEF EventOf
  <2>3. QED
    BY <2>1, <2>2 DEF EventType
<1>6. ASSUME NEW e \in EventType(c, ends), pc'[c] = "returned"
      PROVE  [call |-> c, type |-> e, state |-> state[c]] \in Told
  BY <1>1, <1>2, <1>5, <1>6 DEF Tells, Event, TypeOK
<1>7. ASSUME \A r \in Runtimes : \A k \in 1..Len(events'[r]) :
                 events'[r][k] \in Told,
              \A d \in Calls : \A k \in 1..Len(seen'[d]) : seen'[d][k] \in Told
       PROVE  EventsInv'
  BY <1>7 DEF EventsInv, Tells
<1> HIDE DEF Told
<1>8. PcInv' /\ DrivenInv' /\ OwnTransaction'
  <2>1. PcInv'
    BY <1>1, <1>2 DEF PcInv, TypeOK
  <2>2. DrivenInv'
    <3> SUFFICES ASSUME NEW d \in Driven PROVE DrivenInv!(d)'
      BY <1>2 DEF DrivenInv
    <3>1. d \in Calls /\ DrivenInv!(d)
      BY DEF Driven, DrivenInv
    <3>2. CASE d = c
      BY <1>1, <3>1, <3>2 DEF TypeOK
    <3>3. CASE d # c
      <4>1. pc'[d] = pc[d]
        BY <1>1, <3>1, <3>3 DEF TypeOK
      <4>2. QED
        BY <1>1, <3>1, <4>1
    <3>4. QED
      BY <3>2, <3>3
  <2>3. OwnTransaction'
    BY <1>1, <1>2 DEF OwnTransaction, CanTransition
  <2>4. QED
    BY <2>1, <2>2, <2>3
<1>9. /\ \A r \in Runtimes : \A k \in 1..Len(events[r]) : events[r][k] \in Told
      /\ \A d \in Calls : \A k \in 1..Len(seen[d]) : seen[d][k] \in Told
  <2>1. \A r \in Runtimes : events[r] \in Seq(Event)
    BY DEF TypeOK
  <2>2. \A d \in Calls : seen[d] \in Seq(Event)
    BY DEF TypeOK
  <2>3. \A r \in Runtimes : \A k \in 1..Len(events[r]) : events[r][k] \in Event
    BY <2>1
  <2>4. \A d \in Calls : \A k \in 1..Len(seen[d]) : seen[d][k] \in Event
    BY <2>2
  <2>5. QED
    BY <1>4, <2>3, <2>4 DEF EventsInv
<1>10. CASE Silent(c, ends)
  <2>1. UNCHANGED <<events, seen, overlap>>
    BY <1>10 DEF Silent, notifier
  <2>2. TypeOK'
    BY <1>1, <2>1 DEF TypeOK
  <2>3. EventsInv'
    BY <1>9, <1>7, <2>1
  <2>4. QED
    BY <1>8, <2>2, <2>3
<1>11. CASE PublishReads(c, ends)
  <2>1. /\ UNCHANGED events
        /\ seen' = [seen EXCEPT ![c] = events[RuntimeOf[c]]]
        /\ overlap' \subseteq Calls
    BY <1>11 DEF PublishReads, Siblings, TypeOK
  <2>2. TypeOK'
    BY <1>1, <1>3, <2>1 DEF TypeOK
  <2>3. EventsInv'
    <3>1. \A d \in Calls : \A k \in 1..Len(seen'[d]) : seen'[d][k] \in Told
      BY <1>3, <1>9, <2>1 DEF TypeOK
    <3>2. QED
      BY <1>9, <1>7, <2>1, <3>1
  <2>4. QED
    BY <1>8, <2>2, <2>3
<1>12. CASE PublishWrites(c, ends)
  <2>1. PICK type \in EventType(c, ends) :
           events' = [events EXCEPT ![RuntimeOf[c]] =
                         Append(seen[c], [call |-> c, type |-> type,
                                          state |-> state[c]])]
    BY <1>12 DEF PublishWrites
  <2>2. /\ seen' = [seen EXCEPT ![c] = <<>>] /\ UNCHANGED overlap
        /\ pc'[c] = "returned"
    BY <1>12 DEF PublishWrites, Goto, TypeOK
  <2> DEFINE new == [call |-> c, type |-> type, state |-> state[c]]
  <2>3. new \in Told /\ Told \subseteq Event
    BY <1>6, <2>2 DEF Told
  <2>4. seen[c] \in Seq(Told)
    <3>1. \A k \in 1..Len(seen[c]) : seen[c][k] \in Told
      BY <1>9
    <3>2. seen[c] \in Seq(Event)
      BY DEF TypeOK
    <3>3. QED
      BY <3>1, <3>2
  <2> DEFINE list == Append(seen[c], new)
  <2>5. list \in Seq(Event) /\ \A k \in 1..Len(list) : list[k] \in Told
    <3> HIDE DEF new
    <3>1. list \in Seq(Told)
      BY <2>3, <2>4
    <3> HIDE DEF list
    <3>2. \A k \in 1..Len(list) : list[k] \in Told
      BY <3>1
    <3>3. QED
      BY <2>3, <3>1, <3>2
  <2>6. events' = [events EXCEPT ![RuntimeOf[c]] = list]
    BY <2>1
  <2> HIDE DEF list
  <2>7. TypeOK'
    <3>1. events' \in [Runtimes -> Seq(Event)]
      BY <1>3, <2>5, <2>6 DEF TypeOK
    <3>2. seen' \in [Calls -> Seq(Event)]
      BY <2>2 DEF TypeOK
    <3>3. QED
      BY <1>1, <2>2, <3>1, <3>2 DEF TypeOK
  <2>8. ASSUME NEW r \in Runtimes, NEW k \in 1..Len(events'[r])
        PROVE  events'[r][k] \in Told
    BY <1>3, <1>9, <2>5, <2>6 DEF TypeOK
  <2>9. ASSUME NEW d \in Calls, NEW k \in 1..Len(seen'[d])
        PROVE  seen'[d][k] \in Told
    BY <1>9, <2>2 DEF TypeOK
  <2>10. EventsInv'
    BY <1>7, <2>8, <2>9
  <2>11. QED
    BY <1>8, <2>7, <2>10
<1>13. QED
  BY <1>10, <1>11, <1>12

LEMMA NextIInv ==
    ASSUME IInv, [Next]_vars
    PROVE  IInv'
<1>1. ASSUME NEW c \in Calls, NEW m \in TxModes, NEW ends, Method(c, m, ends)
      PROVE  IInv'
  BY <1>1, QuietSteps, NotifySteps DEF Method
<1>2. CASE UNCHANGED vars
  <2>1. UNCHANGED <<pc, mode, id, state, failed, data, events, seen, overlap>>
    BY <1>2 DEF vars, transaction, notifier
  <2>2. TypeOK' /\ PcInv'
    BY <2>1 DEF IInv, TypeOK, PcInv
  <2>3. Driven' = Driven
    BY <2>1 DEF Driven
  <2>4. DrivenInv' /\ OwnTransaction'
    BY <2>1, <2>3 DEF IInv, DrivenInv, OwnTransaction, CanTransition
  <2>5. EventsInv'
    BY <2>1 DEF IInv, EventsInv, Tells
  <2>6. QED
    BY <2>2, <2>4, <2>5 DEF IInv
<1>3. QED
  BY <1>1, <1>2 DEF Next, Saga, TCC, XA, Workflow, Outbox, Terminated, TxModes

------------------------------------------------------------------------------
(***************************************************************************)
(* The invariant of the announcements.  An announcement that is made is in *)
(* the list and in every copy of it that a Publish is about to write back, *)
(* unless its own Publish met another one.                                 *)
(***************************************************************************)
Lists(s, c) == \E k \in 1..Len(s) : s[k].call = c

EachOnce(s) == \A j, k \in 1..Len(s) : s[j].call = s[k].call => j = k

Settled(c) == pc[c] = "returned" /\ state[c] # "PENDING" /\ c \notin overlap

AnnouncedInv ==
    /\ \A r \in Runtimes : EachOnce(events[r])
    /\ \A c \in Calls : EachOnce(seen[c])
    /\ \A c \in Calls : RuntimeOf[c] \in Notified /\ Settled(c) =>
          /\ Lists(events[RuntimeOf[c]], c)
          /\ \A d \in Siblings(c) : pc[d] = "publish" => Lists(seen[d], c)
    /\ \A c \in Calls : \A d \in Siblings(c) :
          pc[c] = "publish" /\ pc[d] = "publish" => c \in overlap

LEMMA InitAnnounced == Init => AnnouncedInv
<1> SUFFICES ASSUME Init PROVE AnnouncedInv
  OBVIOUS
<1>1. \A c \in Calls : pc[c] = "new"
  BY DEF Init
<1>2. EachOnce(<<>>)
  BY DEF EachOnce
<1>3. /\ \A r \in Runtimes : events[r] = <<>>
      /\ \A c \in Calls : seen[c] = <<>>
  BY DEF Init
<1>4. QED
  BY <1>1, <1>2, <1>3 DEF AnnouncedInv, Settled

\* A step of one call that announces nothing.
LEMMA QuietAnnounced ==
    ASSUME AnnouncedInv, NEW c \in Calls,
           pc[c] # "publish", pc'[c] # "publish",
           \A d \in Calls \ {c} : pc'[d] = pc[d] /\ state'[d] = state[d],
           pc'[c] = "returned" =>
              state'[c] = "PENDING" \/ RuntimeOf[c] \notin Notified,
           UNCHANGED <<events, seen, overlap>>
    PROVE  AnnouncedInv'
<1>1. \A d \in Calls : pc'[d] = "publish" => pc[d] = "publish"
  OBVIOUS
<1>2. \A d \in Calls : RuntimeOf[d] \in Notified /\ Settled(d)' => Settled(d)
  BY DEF Settled
<1>3. \A d \in Calls : Siblings(d) \subseteq Calls
  BY DEF Siblings
<1>4. /\ \A r \in Runtimes : EachOnce(events'[r])
      /\ \A d \in Calls : EachOnce(seen'[d])
  BY DEF AnnouncedInv
<1>5. ASSUME NEW d \in Calls, RuntimeOf[d] \in Notified, Settled(d)'
      PROVE  /\ Lists(events'[RuntimeOf[d]], d)
             /\ \A e \in Siblings(d) : pc'[e] = "publish" => Lists(seen'[e], d)
  BY <1>1, <1>2, <1>3, <1>5 DEF AnnouncedInv
<1>6. ASSUME NEW d \in Calls, NEW e \in Siblings(d),
             pc'[d] = "publish", pc'[e] = "publish"
      PROVE  d \in overlap'
  BY <1>1, <1>3, <1>6 DEF AnnouncedInv
<1>7. QED
  BY <1>4, <1>5, <1>6 DEF AnnouncedInv, Lists, EachOnce

\* A Publish copies the list as it is: all that is in it.
LEMMA ReadsAnnounced ==
    ASSUME TypeOK, AnnouncedInv, NEW c \in Calls, NEW ends,
           PublishReads(c, ends)
    PROVE  AnnouncedInv'
<1> DEFINE R == RuntimeOf[c]
           met == {d \in Siblings(c) : pc[d] = "publish"}
<1>1. /\ pc[c] = "notify" /\ pc'[c] = "publish"
      /\ \A d \in Calls \ {c} : pc'[d] = pc[d]
      /\ UNCHANGED <<state, events>>
      /\ seen'[c] = events[R]
      /\ \A d \in Calls \ {c} : seen'[d] = seen[d]
  BY DEF PublishReads, Goto, transaction, TypeOK
<1>2. overlap' = overlap \cup met \cup {d \in {c} : met # {}}
  BY DEF PublishReads
<1>3. R \in Runtimes
  BY RuntimeAssumption
<1>4. \A d \in Calls : Settled(d)' => Settled(d) /\ d # c
  BY <1>1, <1>2 DEF Settled
<1>5. \A d \in Calls : \A e \in Siblings(d) :
         /\ e \in Calls /\ e # d /\ d \in Siblings(e)
         /\ RuntimeOf[d] = RuntimeOf[e]
  BY DEF Siblings
<1>6. \A r \in Runtimes : EachOnce(events'[r])
  BY <1>1 DEF AnnouncedInv
<1>7. \A d \in Calls : EachOnce(seen'[d])
  BY <1>1, <1>3 DEF AnnouncedInv
<1>8. ASSUME NEW d \in Calls, RuntimeOf[d] \in Notified, Settled(d)'
      PROVE  /\ Lists(events'[RuntimeOf[d]], d)
             /\ \A e \in Siblings(d) : pc'[e] = "publish" => Lists(seen'[e], d)
  <2>1. /\ Lists(events[RuntimeOf[d]], d)
        /\ \A e \in Siblings(d) : pc[e] = "publish" => Lists(seen[e], d)
    BY <1>4, <1>8 DEF AnnouncedInv
  <2>2. ASSUME NEW e \in Siblings(d), pc'[e] = "publish"
        PROVE  Lists(seen'[e], d)
    <3>1. CASE e = c
      BY <1>1, <1>5, <2>1, <3>1
    <3>2. CASE e # c
      BY <1>1, <1>5, <2>1, <2>2, <3>2
    <3>3. QED
      BY <3>1, <3>2
  <2>3. QED
    BY <1>1, <2>1, <2>2
<1>9. ASSUME NEW d \in Calls, NEW e \in Siblings(d),
             pc'[d] = "publish", pc'[e] = "publish"
      PROVE  d \in overlap'
  <2>1. CASE d = c
    <3>1. e \in met
      BY <1>1, <1>5, <1>9, <2>1
    <3>2. QED
      BY <1>2, <2>1, <3>1
  <2>2. CASE e = c
    <3>1. d \in met
      BY <1>1, <1>5, <1>9, <2>2
    <3>2. QED
      BY <1>2, <3>1
  <2>3. CASE d # c /\ e # c
    <3>1. pc[d] = "publish" /\ pc[e] = "publish"
      BY <1>1, <1>5, <1>9, <2>3
    <3>2. QED
      BY <1>2, <3>1 DEF AnnouncedInv
  <2>4. QED
    BY <2>1, <2>2, <2>3
<1>10. QED
  BY <1>6, <1>7, <1>8, <1>9 DEF AnnouncedInv, Lists, EachOnce

\* A Publish writes back what it copied, and one announcement more.
LEMMA WritesAnnounced ==
    ASSUME IInv, AnnouncedInv, NEW c \in Calls, NEW ends,
           PublishWrites(c, ends)
    PROVE  AnnouncedInv'
<1> DEFINE R == RuntimeOf[c]
<1>1. PICK new \in [call : {c}, type : EventType(c, ends), state : {state[c]}] :
         events' = [events EXCEPT ![R] = Append(seen[c], new)]
  BY DEF PublishWrites
<1>2. /\ pc[c] = "publish" /\ pc'[c] = "returned"
      /\ \A d \in Calls \ {c} : pc'[d] = pc[d]
      /\ UNCHANGED <<state, overlap>>
      /\ seen'[c] = <<>>
      /\ \A d \in Calls \ {c} : seen'[d] = seen[d]
  BY DEF PublishWrites, Goto, transaction, IInv, TypeOK
<1>3. R \in Runtimes
  BY RuntimeAssumption
<1> DEFINE old == seen[c]
           list == Append(old, new)
<1>4. /\ Len(old) \in Nat /\ Len(list) = Len(old) + 1
      /\ \A k \in 1..Len(old) : list[k] = old[k]
      /\ list[Len(old) + 1] = new
      /\ new.call = c
  <2>1. old \in Seq(Event)
    BY DEF IInv, TypeOK
  <2>2. QED
    BY <2>1
<1>5. \A k \in 1..Len(old) : old[k].call # c
  <2>1. \A k \in 1..Len(old) : pc[old[k].call] = "returned"
    BY DEF IInv, EventsInv, Tells
  <2>2. QED
    BY <1>2, <2>1
<1>6. /\ events'[R] = list
      /\ \A r \in Runtimes \ {R} : events'[r] = events[r]
  BY <1>1, <1>3 DEF IInv, TypeOK
<1>7. EachOnce(list)
  <2>1. ASSUME NEW j \in 1..Len(list), NEW k \in 1..Len(list),
               list[j].call = list[k].call
        PROVE  j = k
    <3>1. /\ j \in 1..Len(old) \/ j = Len(old) + 1
          /\ k \in 1..Len(old) \/ k = Len(old) + 1
      BY <1>4
    <3>2. CASE j \in 1..Len(old) /\ k \in 1..Len(old)
      BY <1>4, <2>1, <3>2 DEF AnnouncedInv, EachOnce
    <3>3. CASE j = Len(old) + 1 \/ k = Len(old) + 1
      BY <1>4, <1>5, <2>1, <3>1, <3>3
    <3>4. QED
      BY <3>1, <3>2, <3>3
  <2>2. QED
    BY <2>1 DEF EachOnce
<1>8. Lists(list, c) /\ \A d \in Calls : Lists(old, d) => Lists(list, d)
  BY <1>4 DEF Lists
<1> HIDE DEF list, old
<1>9. \A d \in Calls : \A e \in Siblings(d) :
         /\ e \in Calls /\ e # d /\ d \in Siblings(e)
         /\ RuntimeOf[d] = RuntimeOf[e]
  BY DEF Siblings
<1>10. \A r \in Runtimes : EachOnce(events'[r])
  BY <1>6, <1>7 DEF AnnouncedInv
<1>11. \A d \in Calls : EachOnce(seen'[d])
  <2>1. EachOnce(<<>>)
    BY DEF EachOnce
  <2>2. QED
    BY <1>2, <2>1 DEF AnnouncedInv
<1>12. ASSUME NEW d \in Calls, RuntimeOf[d] \in Notified, Settled(d)'
       PROVE  /\ Lists(events'[RuntimeOf[d]], d)
              /\ \A e \in Siblings(d) : pc'[e] = "publish" => Lists(seen'[e], d)
  <2>1. d = c \/ Settled(d)
    BY <1>2, <1>12 DEF Settled
  <2>2. d \notin overlap
    BY <1>2, <1>12 DEF Settled
  <2>3. CASE d = c
    <3>1. \A e \in Siblings(c) : pc[e] # "publish"
      BY <1>2, <2>2, <2>3 DEF AnnouncedInv
    <3>2. \A e \in Siblings(c) : pc'[e] # "publish"
      BY <1>2, <1>9, <3>1
    <3>3. QED
      BY <1>6, <1>8, <2>3, <3>2
  <2>4. CASE d # c
    <3>1. /\ Lists(events[RuntimeOf[d]], d)
          /\ \A e \in Siblings(d) : pc[e] = "publish" => Lists(seen[e], d)
      BY <1>12, <2>1, <2>4 DEF AnnouncedInv
    <3>2. Lists(events'[RuntimeOf[d]], d)
      <4>1. CASE RuntimeOf[d] = R
        <5>1. c \in Siblings(d)
          BY <2>4, <4>1 DEF Siblings
        <5>2. Lists(old, d)
          BY <1>2, <3>1, <5>1 DEF old
        <5>3. QED
          BY <1>6, <1>8, <4>1, <5>2
      <4>2. CASE RuntimeOf[d] # R
        BY <1>6, <3>1, <4>2, RuntimeAssumption
      <4>3. QED
        BY <4>1, <4>2
    <3>3. ASSUME NEW e \in Siblings(d), pc'[e] = "publish"
          PROVE  Lists(seen'[e], d)
      BY <1>2, <1>9, <3>1, <3>3
    <3>4. QED
      BY <3>2, <3>3
  <2>5. QED
    BY <2>3, <2>4
<1>13. ASSUME NEW d \in Calls, NEW e \in Siblings(d),
              pc'[d] = "publish", pc'[e] = "publish"
       PROVE  d \in overlap'
  <2>1. pc[d] = "publish" /\ pc[e] = "publish"
    BY <1>2, <1>9, <1>13
  <2>2. QED
    BY <1>2, <2>1 DEF AnnouncedInv
<1>14. QED
  BY <1>10, <1>11, <1>12, <1>13 DEF AnnouncedInv, Lists, EachOnce

\* Every step of a method that announces a commit keeps the invariant.
LEMMA NextAnnounced ==
    ASSUME IInv, AnnouncedInv, [Next]_vars
    PROVE  AnnouncedInv'
<1>1. ASSUME NEW c \in Calls, NEW m \in TxModes, NEW ends,
             "COMMITTED" \in ends, Method(c, m, ends)
      PROVE  AnnouncedInv'
  <2>1. CASE \/ RefuseOptions(c) \/ NewTransaction(c, m)
             \/ Save(c) \/ Execute(c) \/ StopSending(c)
    <3>1. /\ pc[c] \in {"new", "save", "execute"}
          /\ pc'[c] \in {"save", "execute", "notify", "returned"}
          /\ pc'[c] = "returned" =>
                pc[c] \in {"new", "save"} /\ state'[c] = state[c]
          /\ \A d \in Calls \ {c} : pc'[d] = pc[d] /\ state'[d] = state[d]
          /\ UNCHANGED <<events, seen, overlap>>
      <4>1. CASE RefuseOptions(c) \/ NewTransaction(c, m)
        BY <4>1 DEF RefuseOptions, NewTransaction, Return, Goto, transaction,
                    notifier, IInv, TypeOK
      <4>2. CASE Save(c)
        BY <4>2 DEF Save, Return, Goto, transaction, notifier, IInv, TypeOK
      <4>3. CASE Execute(c)
        BY <4>3 DEF Execute, Goto, notifier, IInv, TypeOK
      <4>4. CASE StopSending(c)
        BY <4>4 DEF StopSending, Goto, transaction, notifier, IInv, TypeOK
      <4>5. QED
        BY <2>1, <4>1, <4>2, <4>3, <4>4
    <3>2. pc'[c] = "returned" => state'[c] = "PENDING"
      BY <3>1 DEF IInv, PcInv
    <3>3. QED
      BY <3>1, <3>2, QuietAnnounced
  <2>2. CASE Silent(c, ends)
    <3>1. /\ pc[c] = "notify" /\ pc'[c] = "returned"
          /\ \A d \in Calls \ {c} : pc'[d] = pc[d] /\ state'[d] = state[d]
          /\ UNCHANGED <<events, seen, overlap>>
      BY <2>2 DEF Silent, Goto, transaction, notifier, IInv, TypeOK
    <3>2. EventType(c, ends) # {}
      <4>1. c \in Driven
        BY <3>1 DEF Driven, IInv, PcInv
      <4>2. failed[c] \/ state[c] = "COMMITTED"
        BY <3>1, <4>1 DEF IInv, DrivenInv
      <4>3. QED
        BY <1>1, <4>2 DEF EventType
    <3>3. RuntimeOf[c] \notin Notified
      BY <2>2, <3>2 DEF Silent
    <3>4. QED
      BY <3>1, <3>3, QuietAnnounced
  <2>3. CASE PublishReads(c, ends)
    BY <2>3, ReadsAnnounced DEF IInv
  <2>4. CASE PublishWrites(c, ends)
    BY <2>4, WritesAnnounced
  <2>5. QED
    BY <1>1, <2>1, <2>2, <2>3, <2>4 DEF Method
<1>2. CASE UNCHANGED vars
  <2>1. UNCHANGED <<pc, state, events, seen, overlap>>
    BY <1>2 DEF vars, transaction, notifier
  <2>2. QED
    BY <2>1 DEF AnnouncedInv, Settled, Lists, EachOnce
<1>3. QED
  BY <1>1, <1>2 DEF Next, Saga, TCC, XA, Workflow, Outbox, Terminated, TxModes

------------------------------------------------------------------------------
(***************************************************************************)
(* What follows.                                                           *)
(***************************************************************************)

\* The inductive invariant holds at every moment.
THEOREM Invariance == Spec => []IInv
  BY InitIInv, NextIInv, PTL DEF Spec

\* Every variable of Runtime keeps its type.
THEOREM TypeCorrect == Spec => []TypeOK
  BY Invariance, PTL DEF IInv

\* No two calls drive the same entry of the store, whatever IDs they drew.
THEOREM EntryIsOwn == Spec => []OwnTransaction
  BY Invariance, PTL DEF IInv

\* What is announced is true of the store.
THEOREM EventIsTrue == Spec => []EventTellsStore
<1>1. IInv => EventTellsStore
  <2> SUFFICES ASSUME IInv, NEW r \in Runtimes, NEW k \in 1..Len(events[r])
               PROVE  LET e == events[r][k]
                          stored == data[id[e.call]]
                      IN  /\ e.type = "committed" => stored = "COMMITTED"
                          /\ \/ stored = e.state
                             \/ CanTransition(mode[e.call], stored, e.state)
    BY DEF EventTellsStore
  <2> DEFINE e == events[r][k]
  <2>1. e \in Event /\ Tells(e)
    BY DEF IInv, EventsInv, TypeOK
  <2>2. e.call \in Driven
    BY <2>1 DEF Driven, Tells, Event
  <2>3. QED
    BY <2>1, <2>2 DEF IInv, DrivenInv, OwnTransaction, Tells
<1>2. QED
  BY Invariance, <1>1, PTL

\* No transaction is announced as one that failed while the store has it as
\* COMMITTED, unless the store may lose its answer to an update that it made.
NoFalseAlarm ==
    "lost_reply" \notin StoreFaults =>
        \A r \in Runtimes : \A k \in 1..Len(events[r]) :
           LET e == events[r][k]
           IN  e.type = "failed" => data[id[e.call]] # "COMMITTED"

\* What a reader of the events may take from "failed", with a store that answers.
THEOREM FailedIsNotCommitted == Spec => []NoFalseAlarm
<1>1. IInv => NoFalseAlarm
  <2> SUFFICES ASSUME IInv, "lost_reply" \notin StoreFaults,
                      NEW r \in Runtimes, NEW k \in 1..Len(events[r]),
                      events[r][k].type = "failed"
               PROVE  data[id[events[r][k].call]] # "COMMITTED"
    BY DEF NoFalseAlarm
  <2> DEFINE e == events[r][k]
  <2>1. e \in Event /\ Tells(e)
    BY DEF IInv, EventsInv, TypeOK
  <2>2. e.call \in Driven /\ failed[e.call]
    BY <2>1 DEF Driven, Tells, Event
  <2>3. QED
    BY <2>1, <2>2 DEF IInv, DrivenInv, Tells
<1>2. QED
  BY Invariance, <1>1, PTL

\* A transaction that was driven is announced once before its method returns,
\* and stays announced, unless its Publish met another one.
THEOREM AnnouncedAndKept == Spec => []AnnouncedOnce
<1>1. ASSUME AnnouncedInv
      PROVE  AnnouncedOnce
  <2> SUFFICES ASSUME NEW c \in Calls, RuntimeOf[c] \in Notified
               PROVE  AnnouncedOnce!(c)!2
    BY DEF AnnouncedOnce
  <2> DEFINE list == events[RuntimeOf[c]]
             mine == {k \in 1..Len(list) : list[k].call = c}
  <2>1. EachOnce(list)
    BY <1>1, RuntimeAssumption DEF AnnouncedInv
  <2>2. \A k \in mine : mine = {k}
    BY <2>1 DEF EachOnce
  <2>3. CASE mine = {}
    <3>1. Cardinality(mine) = 0
      BY <2>3, FS_EmptySet
    <3>2. ~Lists(list, c)
      BY <2>3 DEF Lists
    <3>3. QED
      BY <1>1, <3>1, <3>2 DEF AnnouncedInv, Settled
  <2>4. CASE mine # {}
    <3>1. Cardinality(mine) = 1
      BY <2>2, <2>4, FS_Singleton
    <3>2. QED
      BY <3>1
  <2>5. QED
    BY <2>3, <2>4
<1>2. QED
  BY Invariance, InitAnnounced, NextAnnounced, <1>1, PTL DEF Spec

------------------------------------------------------------------------------
(***************************************************************************)
(* Each call drives a transaction as TxExecution says, which is what the   *)
(* executors implement: what a method does to its transaction is a Move or *)
(* a GiveUp, and the other calls, of this Runtime and of those that share  *)
(* its store, do nothing to it.                                            *)
(***************************************************************************)
Entry(c) == IF c \in Driven THEN data[id[c]] ELSE "PENDING"

Outcome(c) ==
    IF c \notin Driven \/ pc[c] = "execute" THEN "none"
    ELSE IF failed[c] THEN "error" ELSE "ok"

Execution(c, m) ==
    INSTANCE TxExecution WITH
        Mode <- m, state <- state[c], store <- Entry(c), outcome <- Outcome(c),
        again <- FALSE

\* One transaction's part in a step of a call.
Drives(c, m) ==
    mode[c] = m =>
        [Execution(c, m)!Move \/ Execution(c, m)!GiveUp]_(
            Execution(c, m)!execution)

\* The steps of call d.
StepOf(d) ==
    \/ RefuseOptions(d) \/ (\E m \in TxModes : NewTransaction(d, m))
    \/ Save(d) \/ Execute(d) \/ StopSending(d)
    \/ (\E ends \in SUBSET TxStates :
           Silent(d, ends) \/ PublishReads(d, ends) \/ PublishWrites(d, ends))

LEMMA StepsOfCalls ==
    ASSUME [Next]_vars
    PROVE  (\E d \in Calls : StepOf(d)) \/ UNCHANGED vars
<1> DEFINE Ends == {"COMMITTED", "COMPENSATED", "ROLLEDBACK"}
<1>1. ASSUME NEW d \in Calls, NEW m \in TxModes, NEW ends \in SUBSET TxStates,
             Method(d, m, ends)
      PROVE  StepOf(d)
  BY <1>1 DEF Method, StepOf
<1>2. {"SAGA", "TCC", "XA", "WORKFLOW", "OUTBOX"} \subseteq TxModes
  BY DEF TxModes
<1>3. Ends \subseteq TxStates
  BY DEF TxStates
<1>4. ASSUME NEW d \in Calls,
             Saga(d) \/ TCC(d) \/ XA(d) \/ Workflow(d) \/ Outbox(d)
      PROVE  StepOf(d)
  BY <1>1, <1>2, <1>3, <1>4 DEF Saga, TCC, XA, Workflow, Outbox
<1>5. QED
  BY <1>4 DEF Next, Terminated

\* The entry of a call that drives is in the store.
LEMMA EntryIsPresent ==
    ASSUME IInv, NEW c \in Driven
    PROVE  c \in Calls /\ id[c] \in Ids /\ data[id[c]] # "absent"
<1>1. c \in Calls /\ state[c] \in TxStates
  BY DEF Driven, IInv, TypeOK
<1>2. \/ data[id[c]] = state[c]
      \/ CanTransition(mode[c], data[id[c]], state[c])
  BY DEF IInv, OwnTransaction
<1>3. data[id[c]] \in TxStates
  BY <1>1, <1>2, Edges
<1>4. QED
  BY <1>1, <1>3, Names DEF IInv, DrivenInv

\* A step of a call changes no other call, and no entry but its own, or one
\* that is not there yet.
LEMMA OthersStay ==
    ASSUME IInv, NEW d \in Calls, StepOf(d)
    PROVE  /\ \A c \in Calls \ {d} :
                 /\ pc'[c] = pc[c] /\ mode'[c] = mode[c] /\ id'[c] = id[c]
                 /\ state'[c] = state[c] /\ failed'[c] = failed[c]
           /\ \A t \in Ids : \/ data'[t] = data[t]
                             \/ d \in Driven /\ id[d] = t
                             \/ data[t] = "absent"
<1> USE DEF IInv, TypeOK, Goto, Return, transaction, notifier
<1>1. CASE RefuseOptions(d)
  BY <1>1 DEF RefuseOptions
<1>2. CASE \E m \in TxModes : NewTransaction(d, m)
  BY <1>2 DEF NewTransaction
<1>3. CASE Save(d)
  BY <1>3 DEF Save, SaveTransaction
<1>4. CASE Execute(d)
  <2>1. d \in Driven
    BY <1>4 DEF Execute, Driven
  <2>2. \/ data' = data
        \/ \E s \in TxStates : data' = [data EXCEPT ![id[d]] = s]
    BY <1>4 DEF Execute, UpdateTransactionState
  <2>3. QED
    BY <1>4, <2>1, <2>2 DEF Execute
<1>5. CASE StopSending(d)
  BY <1>5 DEF StopSending
<1>6. CASE \E ends \in SUBSET TxStates :
              Silent(d, ends) \/ PublishReads(d, ends) \/ PublishWrites(d, ends)
  BY <1>6 DEF Silent, PublishReads, PublishWrites
<1>7. QED
  BY <1>1, <1>2, <1>3, <1>4, <1>5, <1>6 DEF StepOf

\* The other calls do nothing to a transaction.
LEMMA OthersDrive ==
    ASSUME IInv, NEW d \in Calls, StepOf(d), NEW c \in Calls \ {d}, NEW m
    PROVE  UNCHANGED Execution(c, m)!execution
<1>1. c \in Driven' <=> c \in Driven
  BY OthersStay DEF Driven
<1>2. ASSUME c \in Driven
      PROVE  data'[id[c]] = data[id[c]]
  <2>1. d \in Driven => id[d] # id[c]
    BY <1>2 DEF IInv, OwnTransaction
  <2>2. QED
    BY <1>2, <2>1, EntryIsPresent, OthersStay
<1>3. Entry(c)' = Entry(c)
  BY <1>1, <1>2, OthersStay DEF Entry
<1>4. Outcome(c)' = Outcome(c)
  BY <1>1, OthersStay DEF Outcome
<1>5. QED
  BY <1>3, <1>4, OthersStay DEF Execution!execution

\* A move of the executor is a Move.
LEMMA ExecuteMoves ==
    ASSUME IInv, NEW c \in Calls, NEW m \in TxModes, mode[c] = m, Execute(c)
    PROVE  Execution(c, m)!Move
<1>1. PICK s \in TxStates, err \in BOOLEAN :
         /\ <<state[c], s>> \in ExecutorMoves(m)
         /\ state' = [state EXCEPT ![c] = s]
         /\ UpdateTransactionState(c, s, err)
         /\ IF err \/ IsFinal(s) \/ s = "SUSPENDED"
            THEN /\ Goto(c, "notify")
                 /\ failed' = [failed EXCEPT ![c] = err \/ s # "COMMITTED"]
            ELSE UNCHANGED <<pc, failed>>
  BY DEF Execute
<1>2. pc[c] = "execute" /\ UNCHANGED id
  BY DEF Execute
<1>3. CanTransition(m, state[c], s) /\ s # "PENDING"
  <2>1. CanTransition(m, state[c], s)
    BY <1>1 DEF ExecutorMoves, CanTransition
  <2>2. QED
    BY <2>1, Edges
<1>4. /\ state'[c] = s
      /\ pc'[c] = IF err \/ IsFinal(s) \/ s = "SUSPENDED" THEN "notify"
                                                        ELSE "execute"
      /\ pc'[c] = "notify" => failed'[c] = (err \/ s # "COMMITTED")
  BY <1>1, <1>2 DEF IInv, TypeOK, Goto
<1>5. c \in Driven /\ c \in Driven' /\ id[c] \in Ids
  BY <1>2, <1>3, <1>4 DEF Driven, IInv, DrivenInv
<1>6. /\ Entry(c) = data[id[c]] /\ Entry(c)' = data'[id[c]]
      /\ Outcome(c) = "none"
  BY <1>2, <1>5 DEF Entry, Outcome
<1>7. Outcome(c)' = Execution(c, m)!OutcomeOf(s, err)
  <2>1. Execution(c, m)!IsFinal(s) <=> IsFinal(s)
    BY DEF IsFinal, FinalStates, Execution!IsFinal, Execution!FinalStates
  <2>2. IsFinal("COMMITTED")
    BY DEF IsFinal, FinalStates
  <2>3. QED
    BY <1>4, <1>5, <2>1, <2>2 DEF Outcome, Execution!OutcomeOf
<1>8. \A a, b :
         Execution(c, m)!CanTransition(m, a, b) <=> CanTransition(m, a, b)
  BY DEF CanTransition, Execution!CanTransition, getTransitions,
         Execution!getTransitions, sagaTransitions, Execution!sagaTransitions,
         tccTransitions, Execution!tccTransitions, xaTransitions,
         Execution!xaTransitions, outboxTransitions,
         Execution!outboxTransitions
<1>9. Execution(c, m)!UpdateTransactionState(m, s, err)
  <2>1. /\ data' = [data EXCEPT ![id[c]] = s] => data'[id[c]] = s
        /\ data' = data => data'[id[c]] = data[id[c]]
    BY <1>5 DEF IInv, TypeOK
  <2>2. QED
    BY <1>1, <1>6, <1>8, <2>1
       DEF UpdateTransactionState, Execution!UpdateTransactionState
<1>10. Execution(c, m)!Advance(m, s, err)
  BY <1>3, <1>4, <1>8, <1>9 DEF Execution!Advance
<1>11. <<state[c], s>> \in Execution(c, m)!ExecutorMoves(m)
  BY <1>1 DEF ExecutorMoves, Execution!ExecutorMoves, getTransitions,
         Execution!getTransitions, sagaTransitions, Execution!sagaTransitions,
         tccTransitions, Execution!tccTransitions, xaTransitions,
         Execution!xaTransitions, outboxTransitions,
         Execution!outboxTransitions, IsRecoverable, Execution!IsRecoverable,
         recoverableStates, Execution!recoverableStates
<1>12. s \in Execution(c, m)!TxStates
  BY DEF TxStates, Execution!TxStates
<1>13. QED
  BY <1>6, <1>7, <1>10, <1>11, <1>12 DEF Execution!Move

\* What a call does to its own transaction.
LEMMA CallDrives ==
    ASSUME IInv, NEW c \in Calls, StepOf(c), NEW m \in TxModes
    PROVE  Drives(c, m)
<1> SUFFICES ASSUME mode[c] = m
             PROVE  \/ Execution(c, m)!Move \/ Execution(c, m)!GiveUp
                    \/ UNCHANGED Execution(c, m)!execution
  BY DEF Drives
<1>1. ASSUME pc[c] \in {"new", "save"}, state'[c] = state[c],
             pc'[c] # "execute"
      PROVE  UNCHANGED Execution(c, m)!execution
  <2>1. state[c] = "PENDING"
    BY <1>1 DEF IInv, PcInv
  <2>2. c \notin Driven /\ c \notin Driven'
    BY <1>1, <2>1 DEF Driven
  <2>3. QED
    BY <1>1, <2>2 DEF Execution!execution, Entry, Outcome
<1> USE DEF IInv, TypeOK, transaction, notifier
<1>2. CASE RefuseOptions(c)
  <2>1. pc[c] = "new" /\ pc'[c] = "returned" /\ state' = state
    BY <1>2 DEF RefuseOptions, Return, Goto
  <2>2. QED
    BY <1>1, <2>1
<1>3. CASE \E n \in TxModes : NewTransaction(c, n)
  <2>1. pc[c] = "new" /\ pc'[c] = "save" /\ state' = state
    BY <1>3 DEF NewTransaction, Goto
  <2>2. QED
    BY <1>1, <2>1
<1>4. CASE Save(c)
  <2>1. PICK err \in BOOLEAN :
           /\ SaveTransaction(id[c], err)
           /\ IF err THEN Return(c, TRUE)
                     ELSE Goto(c, "execute") /\ UNCHANGED failed
    BY <1>4 DEF Save
  <2>2. pc[c] = "save" /\ UNCHANGED <<id, state>> /\ id[c] \in Ids
    BY <1>4 DEF Save, PcInv
  <2>3. CASE err
    <3>1. pc'[c] = "returned"
      BY <2>1, <2>3 DEF Return, Goto
    <3>2. QED
      BY <1>1, <2>2, <3>1
  <2>4. CASE ~err
    <3>1. pc'[c] = "execute" /\ data'[id[c]] = "PENDING"
      BY <2>1, <2>2, <2>4 DEF Goto, SaveTransaction
    <3>2. c \notin Driven /\ c \in Driven'
      BY <2>2, <3>1 DEF Driven, PcInv
    <3>3. QED
      BY <2>2, <3>1, <3>2 DEF Execution!execution, Entry, Outcome
  <2>5. QED
    BY <2>3, <2>4
<1>5. CASE Execute(c)
  BY <1>5, ExecuteMoves
<1>6. CASE StopSending(c)
  <2>1. /\ pc[c] = "execute" /\ m = "OUTBOX" /\ state[c] = "SUBMITTED"
        /\ pc'[c] = "notify" /\ failed'[c] = TRUE
        /\ UNCHANGED <<id, state, data>>
    BY <1>6 DEF StopSending, Goto
  <2>2. c \in Driven /\ c \in Driven'
    BY <2>1 DEF Driven
  <2>3. QED
    BY <2>1, <2>2 DEF Execution!GiveUp, Entry, Outcome
<1>7. CASE \E ends \in SUBSET TxStates :
              Silent(c, ends) \/ PublishReads(c, ends) \/ PublishWrites(c, ends)
  <2>1. /\ pc[c] \in {"notify", "publish"}
        /\ pc'[c] \in {"publish", "returned"}
        /\ UNCHANGED <<id, state, failed, data>>
    BY <1>7 DEF Silent, PublishReads, PublishWrites, Goto
  <2>2. c \in Driven /\ c \in Driven'
    BY <2>1 DEF Driven, PcInv
  <2>3. QED
    BY <2>1, <2>2 DEF Execution!execution, Entry, Outcome
<1>8. QED
  BY <1>2, <1>3, <1>4, <1>5, <1>6, <1>7 DEF StepOf

\* Every call, under all the others and on a store that it shares with them,
\* takes its transaction through a behaviour of TxExecution, for the mode that
\* it has from NewTransaction on.
THEOREM CallsAreExecutions ==
    Spec => /\ \A c \in Calls, m \in TxModes : Execution(c, m)!Init
            /\ [][\A c \in Calls, m \in TxModes : Drives(c, m)]_vars
<1>1. ASSUME Init
      PROVE  \A c \in Calls, m \in TxModes : Execution(c, m)!Init
  <2>1. Driven = {}
    BY <1>1 DEF Init, Driven
  <2>2. QED
    BY <1>1, <2>1 DEF Init, Execution!Init, Entry, Outcome
<1>2. ASSUME IInv, [Next]_vars
      PROVE  [\A c \in Calls, m \in TxModes : Drives(c, m)]_vars
  <2>1. ASSUME NEW d \in Calls, StepOf(d), NEW c \in Calls, NEW m \in TxModes
        PROVE  Drives(c, m)
    <3>1. CASE c = d
      BY <1>2, <2>1, <3>1, CallDrives
    <3>2. CASE c # d
      BY <1>2, <2>1, <3>2, OthersDrive DEF Drives
    <3>3. QED
      BY <3>1, <3>2
  <2>2. QED
    BY <1>2, <2>1, StepsOfCalls
<1>3. QED
  BY Invariance, <1>1, <1>2, PTL DEF Spec
==============================================================================
