------------------------------ MODULE Runtime --------------------------------
(***************************************************************************)
(* The methods Saga, TCC, XA, Workflow and Outbox of Runtime               *)
(* (runtime/coordinator.go) with the notifier that they publish to         *)
(* (notifier.go): make a transaction, save it, let the executor of the     *)
(* mode drive it, and announce how it ended.  The methods are called by    *)
(* any number of goroutines, in one process or in several that share a     *)
(* store.  A method is its steps; ends is the set of the states for which, *)
(* when Execute returns no error, it has an event.                         *)
(*                                                                         *)
(* An executor is kept as its moves, of memory and store together, as      *)
(* TxExecution has them, which the module of each executor implements.     *)
(***************************************************************************)
EXTENDS TxState, FiniteSets

CONSTANTS
    Calls,        \* the calls that are made of the methods
    Offered,      \* the modes of which each call may be
    Runtimes,     \* the Runtimes, one to a process, each with its notifier
    RuntimeOf,    \* the Runtime that each call is made of
    Notified,     \* the Runtimes with a notifier
    Ids,          \* what the generator of transaction IDs may return
    StoreFaults   \* as in TxRecord: how a call of the store may fail

ASSUME RuntimeAssumption ==
    /\ Offered \in [Calls -> SUBSET TxModes]
    /\ RuntimeOf \in [Calls -> Runtimes]
    /\ Notified \subseteq Runtimes
    /\ StoreFaults \subseteq {"rejected", "lost_reply"}

VARIABLES
    pc,        \* where each call is
    mode,      \* tx.Mode
    id,        \* tx.ID
    state,     \* tx.State
    failed,    \* the method returns an error
    data,      \* the store: the State of each ID, "absent" without an entry
    events,    \* MemoryNotifier.events of each Runtime
    seen,      \* events as the call's Publish has read it
    overlap    \* the calls whose Publish met another one (history)

transaction == <<mode, id, state>>
notifier == <<events, seen, overlap>>
vars == <<pc, transaction, failed, data, notifier>>

Init ==
    /\ pc = [c \in Calls |-> "new"]
    /\ mode = [c \in Calls |-> "none"]
    /\ id = [c \in Calls |-> "none"]
    /\ state = [c \in Calls |-> "PENDING"]
    /\ failed = [c \in Calls |-> FALSE]
    /\ data = [t \in Ids |-> "absent"]
    /\ events = [r \in Runtimes |-> <<>>]
    /\ seen = [c \in Calls |-> <<>>]
    /\ overlap = {}

Siblings(c) == {d \in Calls \ {c} : RuntimeOf[d] = RuntimeOf[c]}

Goto(c, label) == pc' = [pc EXCEPT ![c] = label]
Return(c, err) == Goto(c, "returned") /\ failed' = [failed EXCEPT ![c] = err]

(***************************************************************************)
(* The steps of a method.                                                  *)
(***************************************************************************)

\* Options without a step, a branch, a message or a handler are refused.
RefuseOptions(c) ==
    /\ pc[c] = "new"
    /\ Return(c, TRUE)
    /\ UNCHANGED <<transaction, data, notifier>>

\* The generator has fixed worker numbers (1, 1): the IDs of one process are
\* distinct, those of two processes need not be.
NewTransaction(c, m) ==
    /\ pc[c] = "new"
    /\ mode' = [mode EXCEPT ![c] = m]
    /\ \E t \in Ids \ {id[d] : d \in Siblings(c)} : id' = [id EXCEPT ![c] = t]
    /\ Goto(c, "save")
    /\ UNCHANGED <<state, failed, data, notifier>>

\* Mutant of SaveTransaction: an entry that exists is written over.
SaveAnyway(t, err) ==
    /\ ~err
    /\ data' = [data EXCEPT ![t] = "PENDING"]

\* SaveTransaction refuses an ID that it has.
SaveTransaction(t, err) ==
    \/ /\ data[t] = "absent"
       /\ err => "lost_reply" \in StoreFaults
       /\ data' = [data EXCEPT ![t] = "PENDING"]
    \/ /\ err
       /\ data[t] = "absent" => "rejected" \in StoreFaults
       /\ data' = data

Save(c) ==
    /\ pc[c] = "save"
    /\ \E err \in BOOLEAN :
          /\ SaveTransaction(id[c], err)
          /\ IF err THEN Return(c, TRUE)
                    ELSE Goto(c, "execute") /\ UNCHANGED failed
    /\ UNCHANGED <<transaction, notifier>>

\* UpdateTransactionState on the entry of the ID, as in TxRecord.
UpdateTransactionState(c, target, err) ==
    LET legal == CanTransition(mode[c], data[id[c]], target)
    IN  \/ /\ legal
           /\ err => "lost_reply" \in StoreFaults
           /\ data' = [data EXCEPT ![id[c]] = target]
        \/ /\ err
           /\ legal => "rejected" \in StoreFaults
           /\ data' = data

\* One move of the executor.  A failed update ends Execute, as do the states
\* without a move; only a stored COMMITTED is returned without an error.
Execute(c) ==
    /\ pc[c] = "execute"
    /\ \E s \in TxStates, err \in BOOLEAN :
          /\ <<state[c], s>> \in ExecutorMoves(mode[c])
          /\ state' = [state EXCEPT ![c] = s]
          /\ UpdateTransactionState(c, s, err)
          /\ IF err \/ IsFinal(s) \/ s = "SUSPENDED"
             THEN /\ Goto(c, "notify")
                  /\ failed' = [failed EXCEPT ![c] = err \/ s # "COMMITTED"]
             ELSE UNCHANGED <<pc, failed>>
    /\ UNCHANGED <<mode, id, notifier>>

\* A message that is not sent ends Execute where it is: SUBMITTED may not be
\* suspended.
StopSending(c) ==
    /\ pc[c] = "execute" /\ mode[c] = "OUTBOX" /\ state[c] = "SUBMITTED"
    /\ Goto(c, "notify")
    /\ failed' = [failed EXCEPT ![c] = TRUE]
    /\ UNCHANGED <<transaction, data, notifier>>

EventOf(s) ==
    CASE s = "COMMITTED"   -> "committed"
      [] s = "COMPENSATED" -> "compensated"
      [] s = "ROLLEDBACK"  -> "rolledback"

\* Mutant of EventType: the state decides, and not the error.
EventTypeOfState(c, ends) ==
    IF state[c] \in ends THEN {EventOf(state[c])} ELSE {"failed"}

\* The type of the event that the method gives to notifyEvent, if any.
EventType(c, ends) ==
    IF failed[c] THEN {"failed"} ELSE {EventOf(s) : s \in ends \cap {state[c]}}

\* There is nothing to announce, or nobody to announce it.
Silent(c, ends) ==
    /\ pc[c] = "notify"
    /\ RuntimeOf[c] \notin Notified \/ EventType(c, ends) = {}
    /\ Goto(c, "returned")
    /\ UNCHANGED <<transaction, failed, data, notifier>>

\* notifyEvent calls Publish, in which append reads the slice ...
PublishReads(c, ends) ==
    /\ pc[c] = "notify"
    /\ RuntimeOf[c] \in Notified /\ EventType(c, ends) # {}
    /\ seen' = [seen EXCEPT ![c] = events[RuntimeOf[c]]]
    /\ LET met == {d \in Siblings(c) : pc[d] = "publish"}
       IN  overlap' = overlap \cup met \cup {d \in {c} : met # {}}
    /\ Goto(c, "publish")
    /\ UNCHANGED <<transaction, failed, data, events>>

\* Mutant of PublishWrites: the slice starts over.
PublishWritesFirst(c, ends) ==
    /\ pc[c] = "publish"
    /\ \E type \in EventType(c, ends) :
          events' = [events EXCEPT ![RuntimeOf[c]] =
                        <<[call |-> c, type |-> type, state |-> state[c]]>>]
    /\ seen' = [seen EXCEPT ![c] = <<>>]
    /\ Goto(c, "returned")
    /\ UNCHANGED <<transaction, failed, data, overlap>>

\* ... and assigns it again, with no lock around the two.
PublishWrites(c, ends) ==
    /\ pc[c] = "publish"
    /\ \E type \in EventType(c, ends) :
          events' = [events EXCEPT ![RuntimeOf[c]] =
                        Append(seen[c],
                               [call |-> c, type |-> type, state |-> state[c]])]
    /\ seen' = [seen EXCEPT ![c] = <<>>]
    /\ Goto(c, "returned")
    /\ UNCHANGED <<transaction, failed, data, overlap>>

Method(c, m, ends) ==
    \/ m \in Offered[c] /\ (RefuseOptions(c) \/ NewTransaction(c, m))
    \/ /\ mode[c] = m
       /\ \/ Save(c) \/ Execute(c) \/ StopSending(c)
          \/ Silent(c, ends) \/ PublishReads(c, ends) \/ PublishWrites(c, ends)

Saga(c) == Method(c, "SAGA", {"COMMITTED", "COMPENSATED"})
TCC(c) == Method(c, "TCC", {"COMMITTED", "ROLLEDBACK"})
XA(c) == Method(c, "XA", {"COMMITTED", "ROLLEDBACK"})
Workflow(c) == Method(c, "WORKFLOW", {"COMMITTED", "COMPENSATED"})
Outbox(c) == Method(c, "OUTBOX", {"COMMITTED"})

Terminated == (\A c \in Calls : pc[c] = "returned") /\ UNCHANGED vars

Next ==
    \/ \E c \in Calls : Saga(c) \/ TCC(c) \/ XA(c) \/ Workflow(c) \/ Outbox(c)
    \/ Terminated

Spec == Init /\ [][Next]_vars

------------------------------------------------------------------------------
(***************************************************************************)
(* Properties.                                                             *)
(***************************************************************************)

Event == [call : Calls, type : {"committed", "compensated", "rolledback",
                                "failed"}, state : TxStates]

\* Every variable has its type.
TypeOK ==
    /\ pc \in [Calls -> {"new", "save", "execute", "notify", "publish",
                         "returned"}]
    /\ mode \in [Calls -> TxModes \cup {"none"}]
    /\ id \in [Calls -> Ids \cup {"none"}]
    /\ state \in [Calls -> TxStates]
    /\ failed \in [Calls -> BOOLEAN]
    /\ data \in [Ids -> TxStates \cup {"absent"}]
    /\ events \in [Runtimes -> Seq(Event)]
    /\ seen \in [Calls -> Seq(Event)]
    /\ overlap \subseteq Calls

\* The calls that have got as far as their executor.
Driven == {c \in Calls : pc[c] = "execute" \/ state[c] # "PENDING"}

\* The entry under a call's ID is the call's own, whatever IDs the processes
\* that share the store have drawn: no two calls drive the same one, and the
\* object in memory is at most one legal move ahead of it.
OwnTransaction ==
    \A c \in Driven :
       /\ \A d \in Driven : id[c] = id[d] => c = d
       /\ \/ data[id[c]] = state[c]
          \/ CanTransition(mode[c], data[id[c]], state[c])

\* What is announced is true of the store, and stays true: "committed" only for
\* a stored COMMITTED, and the State of the event is what the store has, or, when
\* the last update failed, one legal move ahead of it.
EventTellsStore ==
    \A r \in Runtimes : \A k \in 1..Len(events[r]) :
       LET e == events[r][k]
           stored == data[id[e.call]]
       IN  /\ e.type = "committed" => stored = "COMMITTED"
           /\ \/ stored = e.state
              \/ CanTransition(mode[e.call], stored, e.state)

\* Every transaction that was driven is announced once before its method
\* returns, and stays announced.  Only one whose Publish met another may be
\* lost.
AnnouncedOnce ==
    \A c \in Calls : RuntimeOf[c] \in Notified =>
       LET mine == {k \in 1..Len(events[RuntimeOf[c]]) :
                       events[RuntimeOf[c]][k].call = c}
       IN  /\ Cardinality(mine) <= 1
           /\ pc[c] = "returned" /\ state[c] # "PENDING" /\ c \notin overlap =>
                  Cardinality(mine) = 1
==============================================================================
