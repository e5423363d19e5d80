---------------------------- MODULE RecoveryScan -----------------------------
(***************************************************************************)
(* Recovery.scan and recover (recovery.go) on a store of transactions, by  *)
(* one recoverer or by several: the store is shared, nothing tells a       *)
(* recoverer which transactions have a live executor or are in another's   *)
(* hands, and what it hands to the handler is a copy taken earlier.        *)
(*                                                                         *)
(* An executor, of any mode, is kept as its moves of the stored state,     *)
(* which are those of the five executor modules.  A recoverer that dies in *)
(* a scan leaves what one does whose remaining loads fail, and is not a    *)
(* step of its own.                                                        *)
(***************************************************************************)
EXTENDS TxState, FiniteSets

CONSTANTS
    Txs,              \* the transactions of the store
    Mode,             \* the mode of each
    Scanners,         \* recoverers whose adapter is a FilteredStoreAdapter: the
                      \*   scan of any other returns at once, and is no step
    Lasting,          \* those of them whose process lives on
    Limit,            \* most transactions that one LoadByState returns
    Aging,            \* transactions that may grow older than maxAge (a bound)
    Failing,          \* transactions for which the handler never succeeds
    Updating          \* those whose handler, if it succeeds, updates the store

ASSUME ScanAssumption ==
    /\ Mode \in [Txs -> TxModes]
    /\ Lasting \subseteq Scanners
    /\ Limit \in Nat \ {0}
    /\ Aging \cup Failing \cup Updating \subseteq Txs

VARIABLES
    store,      \* the State of each transaction, as the adapter keeps it
    owner,      \* "live" while an executor drives the transaction
    outcome,    \* the direction its executor has taken, once it has
    expired,    \* the transactions older than maxAge
    pc,         \* where each recoverer is in its scan
    k,          \* the index into recoverableStates
    batch,      \* the transactions that were loaded and are still to handle
    registered, \* the recoverers that have a RecoveryHandler
    handled     \* the transactions that it has given to the handler in its scan

transactions == <<store, owner, outcome, expired>>
scanning == <<pc, k, batch, handled>>
vars == <<transactions, scanning, registered>>

Init ==
    /\ store = [t \in Txs |-> "PENDING"]
    /\ owner = [t \in Txs |-> "live"]
    /\ outcome = [t \in Txs |-> "none"]
    /\ expired = {}
    /\ pc = [r \in Scanners |-> "load"]
    /\ k = [r \in Scanners |-> 1]
    /\ batch = [r \in Scanners |-> {}]
    /\ handled = [r \in Scanners |-> {}]
    /\ registered = {}

(***************************************************************************)
(* The transactions, as far as the store sees them.                        *)
(***************************************************************************)

\* The direction that a stored state stands for.
Direction(s) ==
    CASE s \in {"CONFIRMING", "COMMITTING", "COMMITTED"} -> "finish"
      [] s \in {"COMPENSATING", "CANCELING", "ABORTING", "COMPENSATED",
                "ROLLEDBACK"} -> "undo"
      [] OTHER -> "none"

\* An update that the store takes; the last one ends Execute.
ExecutorMove(t) ==
    /\ owner[t] = "live"
    /\ \E s \in TxStates :
          /\ <<store[t], s>> \in ExecutorMoves(Mode[t])
          /\ store' = [store EXCEPT ![t] = s]
          /\ outcome' = IF outcome[t] = "none"
                        THEN [outcome EXCEPT ![t] = Direction(s)] ELSE outcome
          /\ owner' = IF IsFinal(s) \/ s = "SUSPENDED"
                      THEN [owner EXCEPT ![t] = "gone"] ELSE owner
    /\ UNCHANGED <<expired, scanning, registered>>

\* The executor's process dies, or the store refuses its update, upon which
\* Execute returns wherever it is.
ExecutorGone(t) ==
    /\ owner[t] = "live"
    /\ owner' = [owner EXCEPT ![t] = "gone"]
    /\ UNCHANGED <<store, outcome, expired, scanning, registered>>

Expire(t) ==
    /\ t \in Aging \ expired
    /\ expired' = expired \cup {t}
    /\ UNCHANGED <<store, owner, outcome, scanning, registered>>

\* Nothing keeps the handler from being set while a scan is under way.  The
\* recoverer that a Runtime makes never gets one.
RegisterHandler(r) ==
    /\ registered' = registered \cup {r}
    /\ UNCHANGED <<transactions, scanning>>

(***************************************************************************)
(* scan.                                                                   *)
(***************************************************************************)
\* What LoadByState may return: as many as there are, up to the limit, and in
\* the order of a Go map, which is any.
LoadByState(s) ==
    LET found == {t \in Txs : store[t] = s}
    IN  {got \in SUBSET found :
            IF Cardinality(found) <= Limit THEN got = found
                                           ELSE Cardinality(got) = Limit}

Load(r, got) ==
    /\ pc[r] = "load"
    /\ got \in LoadByState(recoverableStates[k[r]])
    /\ batch' = [batch EXCEPT ![r] = got]
    /\ pc' = [pc EXCEPT ![r] = "handle"]
    /\ UNCHANGED <<transactions, k, handled, registered>>

\* Mutant of NextState: the index runs past the last state.
NextStatePast(r) ==
    /\ k' = [k EXCEPT ![r] = @ + 1]
    /\ pc' = [pc EXCEPT ![r] = "load"]
    /\ UNCHANGED <<transactions, batch, handled, registered>>

\* The scan goes on with the next state; after the last one it ends, and the
\* recoverer stands before the first state again until the ticker fires.
NextState(r) ==
    /\ IF k[r] < Len(recoverableStates)
       THEN k' = [k EXCEPT ![r] = @ + 1] /\ UNCHANGED handled
       ELSE /\ k' = [k EXCEPT ![r] = 1]
            /\ handled' = [handled EXCEPT ![r] = {}]
    /\ pc' = [pc EXCEPT ![r] = "load"]
    /\ UNCHANGED <<transactions, batch, registered>>

\* Mutant of LoadFails: the error ends the scan.
LoadFailsReturns(r) ==
    /\ pc[r] = "load"
    /\ k' = [k EXCEPT ![r] = 1]
    /\ UNCHANGED <<transactions, pc, batch, handled, registered>>

LoadFails(r) ==
    /\ pc[r] = "load"
    /\ NextState(r)

BatchDone(r) ==
    /\ pc[r] = "handle" /\ batch[r] = {}
    /\ NextState(r)

(***************************************************************************)
(* The body of the loop over a batch: isExpired and recover.               *)
(***************************************************************************)
Take(r, t) ==
    /\ pc[r] = "handle" /\ t \in batch[r]
    /\ batch' = [batch EXCEPT ![r] = @ \ {t}]

Skip(r, t) ==
    /\ Take(r, t)
    /\ t \in expired \/ r \notin registered
    /\ UNCHANGED <<transactions, pc, k, handled, registered>>

CallHandler(r, t) ==
    /\ Take(r, t)
    /\ t \notin expired /\ r \in registered
    /\ handled' = [handled EXCEPT ![r] = @ \cup {t}]

\* The error is logged and the loop goes on with the next transaction.
HandlerFails(r, t) ==
    /\ CallHandler(r, t)
    /\ UNCHANGED <<transactions, pc, k, registered>>

\* The state in which the handler leaves a transaction that it was given in
\* state s, once it has called what was left to call.  For a SUSPENDED one it
\* must know from elsewhere which way its executor went: forward for a workflow
\* that was suspended before it had taken one, since it was confirming.
EndState(t, s) ==
    LET way == IF s = "SUSPENDED" THEN outcome[t] ELSE Direction(s)
    IN  IF way # "undo" THEN "COMMITTED"
        ELSE IF Mode[t] \in {"SAGA", "WORKFLOW"} THEN "COMPENSATED"
        ELSE "ROLLEDBACK"

\* The handler is through and returns nil.  Only if it calls
\* UpdateTransactionState itself, which refuses a move that is not in the table,
\* does the store change: scan and recover store nothing after a success.
HandlerSucceeds(r, t) ==
    /\ CallHandler(r, t)
    /\ t \notin Failing
    /\ LET end == EndState(t, recoverableStates[k[r]])
       IN  store' = IF t \in Updating /\ CanTransition(Mode[t], store[t], end)
                    THEN [store EXCEPT ![t] = end] ELSE store
    /\ UNCHANGED <<owner, outcome, expired, pc, k, registered>>

Scan(r) ==
    \/ \E got \in SUBSET Txs : Load(r, got)
    \/ LoadFails(r) \/ BatchDone(r)
    \/ \E t \in Txs : Skip(r, t) \/ HandlerFails(r, t) \/ HandlerSucceeds(r, t)

Next ==
    \/ \E t \in Txs : ExecutorMove(t) \/ ExecutorGone(t) \/ Expire(t)
    \/ \E r \in Scanners : RegisterHandler(r) \/ Scan(r)

Spec == Init /\ [][Next]_vars

(***************************************************************************)
(* The goroutine of a lasting recoverer keeps running.  A load that is     *)
(* made again and again succeeds in the end and, a Go map being iterated   *)
(* from a random place, returns every transaction in the end.  A handler   *)
(* that is called again and again for a transaction succeeds in the end,   *)
(* except for those in Failing.                                            *)
(***************************************************************************)
FairSpec ==
    /\ Spec
    /\ \A r \in Lasting :
          /\ WF_vars(Scan(r))
          /\ \A t \in Txs \ Failing :
                /\ SF_vars(\E got \in SUBSET Txs : t \in got /\ Load(r, got))
                /\ SF_vars(HandlerSucceeds(r, t))

------------------------------------------------------------------------------
(***************************************************************************)
(* Properties.                                                             *)
(***************************************************************************)

\* Every variable has its type.
TypeOK ==
    /\ store \in [Txs -> TxStates]
    /\ owner \in [Txs -> {"live", "gone"}]
    /\ outcome \in [Txs -> {"none", "finish", "undo"}]
    /\ expired \subseteq Txs
    /\ pc \in [Scanners -> {"load", "handle"}]
    /\ k \in [Scanners -> 1..Len(recoverableStates)]
    /\ batch \in [Scanners -> SUBSET Txs]
    /\ handled \in [Scanners -> SUBSET Txs]
    /\ registered \subseteq Scanners

\* The copies that a recoverer still has to handle grow stale while executors
\* and other recoverers go on, but never wrong: the way that the copy tells to
\* go is the one that was taken, and the stored state is still the copy's, or
\* SUSPENDED, or the end of that way.
StaleIsNotWrong ==
    \A r \in Scanners : \A t \in batch[r] :
       LET copy == recoverableStates[k[r]]
       IN  /\ copy # "SUSPENDED" => Direction(copy) = outcome[t]
           /\ store[t] \in {copy, "SUSPENDED", EndState(t, copy)}

\* What is stored never contradicts the way that the executor took, whoever
\* stored it.
OutcomeKept ==
    \A t \in Txs : Direction(store[t]) \in {"none", outcome[t]}

\* A scan hands a transaction to the handler once, although it loads state by
\* state while the transactions move from one state to another.
HandledOnce == \A r \in Scanners : batch[r] \cap handled[r] = {}

Stranded(t) ==
    owner[t] = "gone" /\ IsRecoverable(store[t]) /\ store[t] # "SUSPENDED"

\* A transaction whose executor died in the second phase is brought to its end,
\* unless it grows too old or its own handler never succeeds, or never updates
\* the store, whatever happens to the others.
StrandedIsFinished ==
    \A t \in Updating \ Failing :
       Stranded(t) /\ registered \cap Lasting # {} ~>
           IsFinal(store[t]) \/ t \in expired

\* The recoverer scans SUSPENDED transactions and retries them, so that they are
\* completed in the end (docs/08.RECOVERY.md).
SuspendedIsFinished ==
    \A t \in Txs \ Failing :
       store[t] = "SUSPENDED" /\ registered \cap Lasting # {} ~>
           store[t] # "SUSPENDED" \/ t \in expired
==============================================================================
