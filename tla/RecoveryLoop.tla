---------------------------- MODULE RecoveryLoop ----------------------------
(***************************************************************************)
(* The life of a Recovery (recovery.go): Start, Stop and the goroutine of  *)
(* run, called from several goroutines at once.                            *)
(*                                                                         *)
(* Start takes its decision under r.mu and launches the goroutine after    *)
(* the unlock; Stop, under r.once, closes stopCh first and clears running  *)
(* under r.mu next.  Each of these is a step, and so is each turn of the   *)
(* select of run.  What a scan does is in RecoveryScan.                    *)
(***************************************************************************)
EXTENDS Naturals, FiniteSets

CONSTANTS
    Callers,    \* goroutines that call Start and Stop
    Workers,    \* identities for the goroutines that Start launches
    MaxCalls    \* bound: calls of Start and Stop, taken together

ASSUME LoopAssumption == MaxCalls \in Nat

VARIABLES
    running,    \* r.running
    stopCh,     \* "open" or "closed"
    once,       \* r.once: "unused", "entered" or "done"
    panicked,   \* stopCh was closed when it was closed already
    caller,     \* where each caller is
    worker,     \* where the goroutine of each identity is
    ctxDone,    \* the workers whose ctx is cancelled
    calls       \* calls made so far

vars == <<running, stopCh, once, panicked, caller, worker, ctxDone, calls>>

Init ==
    /\ running = FALSE
    /\ stopCh = "open"
    /\ once = "unused"
    /\ panicked = FALSE
    /\ caller = [c \in Callers |-> "idle"]
    /\ worker = [w \in Workers |-> "unborn"]
    /\ ctxDone = {}
    /\ calls = 0

Enter(c) ==
    /\ caller[c] = "idle"
    /\ calls < MaxCalls
    /\ calls' = calls + 1

(***************************************************************************)
(* Start.                                                                  *)
(***************************************************************************)

\* Start is called while the flag is up, and returns.
StartIdle(c) ==
    /\ running
    /\ Enter(c)
    /\ UNCHANGED <<running, stopCh, once, panicked, caller, worker, ctxDone>>

\* Mutant of StartFlag: the flag is put up, but was looked at before the lock.
StartFlagUnchecked(c) ==
    /\ Enter(c)
    /\ running' = TRUE
    /\ caller' = [caller EXCEPT ![c] = "launching"]
    /\ UNCHANGED <<stopCh, once, panicked, worker, ctxDone>>

\* The flag was down and is put up.
StartFlag(c) ==
    /\ ~running
    /\ Enter(c)
    /\ running' = TRUE
    /\ caller' = [caller EXCEPT ![c] = "launching"]
    /\ UNCHANGED <<stopCh, once, panicked, worker, ctxDone>>

\* go r.run(ctx), with a ctx that may be done from the start.
StartLaunch(c) ==
    /\ caller[c] = "launching"
    /\ \E w \in Workers :
          /\ worker[w] = "unborn"
          /\ worker' = [worker EXCEPT ![w] = "select"]
    /\ caller' = [caller EXCEPT ![c] = "idle"]
    /\ UNCHANGED <<running, stopCh, once, panicked, ctxDone, calls>>

(***************************************************************************)
(* Stop.                                                                   *)
(***************************************************************************)

\* Mutant of StopClose: no once.
StopCloseUnguarded(c) ==
    /\ Enter(c)
    /\ once' = "entered"
    /\ stopCh' = "closed"
    /\ panicked' = (panicked \/ stopCh = "closed")
    /\ caller' = [caller EXCEPT ![c] = "stopping"]
    /\ UNCHANGED <<running, worker, ctxDone>>

\* The first Stop runs the body of once.Do; close panics on a closed channel.
StopClose(c) ==
    /\ once = "unused"
    /\ Enter(c)
    /\ once' = "entered"
    /\ stopCh' = "closed"
    /\ panicked' = (panicked \/ stopCh = "closed")
    /\ caller' = [caller EXCEPT ![c] = "stopping"]
    /\ UNCHANGED <<running, worker, ctxDone>>

\* Mutant of StopFlag: the body of once.Do never ends.
StopFlagStuck(c) ==
    /\ caller[c] = "stopping"
    /\ running' = FALSE
    /\ UNCHANGED <<stopCh, once, panicked, caller, worker, ctxDone, calls>>

StopFlag(c) ==
    /\ caller[c] = "stopping"
    /\ running' = FALSE
    /\ once' = "done"
    /\ caller' = [caller EXCEPT ![c] = "idle"]
    /\ UNCHANGED <<stopCh, panicked, worker, ctxDone, calls>>

\* A later Stop waits in once.Do for the first one, and does nothing.
StopAgain(c) ==
    /\ once # "unused"
    /\ Enter(c)
    /\ caller' = [caller EXCEPT ![c] = "waiting"]
    /\ UNCHANGED <<running, stopCh, once, panicked, worker, ctxDone>>

StopReturns(c) ==
    /\ caller[c] = "waiting"
    /\ once = "done"
    /\ caller' = [caller EXCEPT ![c] = "idle"]
    /\ UNCHANGED <<running, stopCh, once, panicked, worker, ctxDone, calls>>

(***************************************************************************)
(* run.                                                                    *)
(***************************************************************************)

\* The ticker has fired: select may take this branch whatever else is ready.
Tick(w) ==
    /\ worker[w] = "select"
    /\ worker' = [worker EXCEPT ![w] = "scan"]
    /\ UNCHANGED <<running, stopCh, once, panicked, caller, ctxDone, calls>>

ScanEnds(w) ==
    /\ worker[w] = "scan"
    /\ worker' = [worker EXCEPT ![w] = "select"]
    /\ UNCHANGED <<running, stopCh, once, panicked, caller, ctxDone, calls>>

\* Mutant of Exit: the select has no branch for stopCh.
ExitOnContext(w) ==
    /\ worker[w] = "select"
    /\ w \in ctxDone
    /\ worker' = [worker EXCEPT ![w] = "gone"]
    /\ UNCHANGED <<running, stopCh, once, panicked, caller, ctxDone, calls>>

\* ctx.Done() or stopCh is ready, and select takes it: run returns, and leaves
\* r.running as it is.
Exit(w) ==
    /\ worker[w] = "select"
    /\ w \in ctxDone \/ stopCh = "closed"
    /\ worker' = [worker EXCEPT ![w] = "gone"]
    /\ UNCHANGED <<running, stopCh, once, panicked, caller, ctxDone, calls>>

\* Whoever owns the ctx given to Start cancels it.
CancelCtx(w) ==
    /\ worker[w] \in {"select", "scan"}
    /\ w \notin ctxDone
    /\ ctxDone' = ctxDone \cup {w}
    /\ UNCHANGED <<running, stopCh, once, panicked, caller, worker, calls>>

Call(c) == \/ StartIdle(c) \/ StartFlag(c) \/ StartLaunch(c)
           \/ StopClose(c) \/ StopFlag(c) \/ StopAgain(c) \/ StopReturns(c)

Next ==
    \/ \E c \in Callers : Call(c)
    \/ \E w \in Workers : Tick(w) \/ ScanEnds(w) \/ Exit(w) \/ CancelCtx(w)

Spec == Init /\ [][Next]_vars

(***************************************************************************)
(* A call that was begun is finished, a scan ends, and select, which picks *)
(* at random among the branches that are ready, does not pick the ticker   *)
(* for ever: strong fairness, since Exit is disabled during a scan.        *)
(***************************************************************************)
FairSpec ==
    /\ Spec
    /\ \A c \in Callers :
          WF_vars(StartLaunch(c) \/ StopFlag(c) \/ StopReturns(c))
    /\ \A w \in Workers : WF_vars(ScanEnds(w)) /\ SF_vars(Exit(w))

------------------------------------------------------------------------------
(***************************************************************************)
(* Properties.                                                             *)
(***************************************************************************)

\* Every variable has its type.
TypeOK ==
    /\ running \in BOOLEAN
    /\ stopCh \in {"open", "closed"}
    /\ once \in {"unused", "entered", "done"}
    /\ panicked \in BOOLEAN
    /\ caller \in [Callers -> {"idle", "launching", "stopping", "waiting"}]
    /\ worker \in [Workers -> {"unborn", "select", "scan", "gone"}]
    /\ ctxDone \subseteq Workers
    /\ calls \in 0..MaxCalls

Live == {w \in Workers : worker[w] \in {"select", "scan"}}
Launching == {c \in Callers : caller[c] = "launching"}

\* However many goroutines call Start, until Stop is called there is at most one
\* goroutine that scans, the one about to be launched included.
OneScanner ==
    stopCh = "open" => /\ \A v, w \in Live : v = w
                       /\ \A c, d \in Launching : c = d
                       /\ Live = {} \/ Launching = {}

\* stopCh is closed once, by whichever Stop comes first, even when several are
\* called at the same time.
StopClosesOnce == ~panicked

\* Once Stop is called, the goroutines that scan come to an end, and so does one
\* that Start launches afterwards: a recoverer is not started again.
StopIsFinal == stopCh = "closed" ~> [](Live = {})

\* No Start is lost and no Stop waits for ever.
CallsReturn == \A c \in Callers : caller[c] # "idle" ~> caller[c] = "idle"

\* r.running tells whether the recoverer is running (recovery.go:36), which is
\* what Start relies on when it returns at once.
RunningMeansScanning == running => Live # {} \/ Launching # {}
==============================================================================
