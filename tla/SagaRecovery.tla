---------------------------- MODULE SagaRecovery -----------------------------
(***************************************************************************)
(* One saga in two hands: SagaExecutor, alive or dead, and the recovery of *)
(* its stored transaction (recovery.go).  scan loads it when its state is  *)
(* one that recovery is for, skips it when it is too old, and otherwise    *)
(* recover gives it to the RecoveryHandler, if there is one.  Nothing      *)
(* tells the recovery that the executor is alive, so both may call the     *)
(* same compensations and both update the same stored copy.                *)
(*                                                                         *)
(* The handler is the user's.  The copy that it is given has no Steps,     *)
(* because UpdateTransactionState keeps the state only: a handler that can *)
(* do its work calls the compensation of every step of the saga, the last  *)
(* one first, stops at the first error, and stores COMPENSATED.            *)
(* RecoveryScan has the scan in full, with other transactions and other    *)
(* recoverers.                                                             *)
(***************************************************************************)
EXTENDS SagaExecutor

CONSTANT Ages   \* the saga may grow older than maxAge

ASSUME RecoveryAssumption == Ages \in BOOLEAN

VARIABLES
    rpc,          \* where the recoverer is: "scan", "loaded" or "handle"
    h,            \* the step that the handler compensates next
    registered,   \* there is a RecoveryHandler
    expired       \* the saga is older than maxAge

recovery == <<rpc, h, registered, expired>>
allVars == <<vars, recovery>>

RecoveryInit ==
    /\ Init
    /\ rpc = "scan" /\ h = 0
    /\ registered = FALSE /\ expired = FALSE

Drive == Next /\ UNCHANGED recovery

RegisterHandler ==
    /\ registered' = TRUE
    /\ UNCHANGED <<vars, rpc, h, expired>>

Expire ==
    /\ Ages
    /\ expired' = TRUE
    /\ UNCHANGED <<vars, rpc, h, registered>>

(***************************************************************************)
(* scan and recover.  Between the load and the call there are the other    *)
(* transactions of the batch.                                              *)
(***************************************************************************)
Load ==
    /\ rpc = "scan" /\ IsRecoverable(store)
    /\ rpc' = "loaded" /\ h' = N
    /\ UNCHANGED <<vars, registered, expired>>

\* An old transaction is left to the people who run the system; without a
\* handler there is nothing to call.
Skip ==
    /\ rpc = "loaded"
    /\ expired \/ ~registered
    /\ rpc' = "scan" /\ h' = 0
    /\ UNCHANGED <<vars, registered, expired>>

Recover ==
    /\ rpc = "loaded"
    /\ ~expired /\ registered
    /\ rpc' = "handle"
    /\ UNCHANGED <<vars, h, registered, expired>>

\* The handler calls Compensate of step h.  When that fails it returns the
\* error, which scan logs, and the next scan begins again.
HandlerCompensates(err) ==
    /\ rpc = "handle" /\ h > 0
    /\ Undo(h, err)
    /\ IF err THEN rpc' = "scan" /\ h' = 0 ELSE h' = h - 1 /\ UNCHANGED rpc
    /\ UNCHANGED <<state, store, pc, locals, result, executions, registered,
                   expired>>

\* Every compensation succeeded, and the handler stores the end.
HandlerStores(err) ==
    /\ rpc = "handle" /\ h = 0
    /\ UpdateTransactionState("SAGA", "COMPENSATED", err)
    /\ rpc' = "scan"
    /\ UNCHANGED <<state, pc, locals, result, executions, services, h,
                   registered, expired>>

Scan ==
    \/ Load \/ Skip \/ Recover
    \/ \E err \in BOOLEAN : HandlerCompensates(err) \/ HandlerStores(err)

RecoveryNext == Drive \/ RegisterHandler \/ Expire \/ Scan

RecoverySpec == RecoveryInit /\ [][RecoveryNext]_allVars

\* The executor may die and the recoverer goes on scanning.  A compensation that
\* the handler calls again and again succeeds in the end, and so does its update
\* of the store when that is a legal move.  Nothing makes anybody register a
\* handler.
FairRecoverySpec ==
    /\ RecoverySpec
    /\ WF_allVars(Execute /\ UNCHANGED recovery)
    /\ WF_allVars(Scan)
    /\ \A s \in Steps : SF_allVars(h = s /\ HandlerCompensates(FALSE))
    /\ SF_allVars(HandlerStores(FALSE))

------------------------------------------------------------------------------
(***************************************************************************)
(* Properties.                                                             *)
(***************************************************************************)

\* Every variable has its type.
RecoveryTypeOK ==
    /\ TypeOK
    /\ rpc \in {"scan", "loaded", "handle"}
    /\ h \in 0..N
    /\ registered \in BOOLEAN /\ expired \in BOOLEAN

Done == 1..Len(completed)

\* Whoever stores COMPENSATED, the executor or the handler, and however far the
\* other has come: every step that had succeeded is taken back.
RecoveredIsClean ==
    store = "COMPENSATED" => effect \cap Done \subseteq inflight

\* The end that one of the two has stored is not overwritten by the other, which
\* still works from what it knew before.
EndIsKept ==
    [][IsFinal(store) => store' = store]_allVars

\* A step is taken back only when those after it are, whichever of the two calls
\* the compensation, unless the executor has gone on past one that failed.
ReverseOrder ==
    [][\A s \in effect \ effect' :
          \/ lastErr
          \/ {t \in Done \cap effect : t > s} \subseteq inflight]_allVars

\* Wherever an executor leaves a saga that it had begun to compensate, and
\* although it may fail or die, the services are taken back in the end, once
\* there is a handler, and unless the saga grows too old first.  The store says
\* so unless it says SUSPENDED.
CleanedInTheEnd ==
    store \in {"COMPENSATING", "SUSPENDED"} /\ registered ~>
        \/ /\ effect \cap Done \subseteq inflight
           /\ store \in {"COMPENSATED", "SUSPENDED"}
        \/ expired
==============================================================================
