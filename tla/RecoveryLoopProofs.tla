------------------------- MODULE RecoveryLoopProofs -------------------------
(***************************************************************************)
(* Proofs about RecoveryLoop, for any callers and any number of calls.     *)
(***************************************************************************)
EXTENDS RecoveryLoop, TLAPS

(***************************************************************************)
(* The inductive invariant.  OneScanner is kept by running: while stopCh   *)
(* is open the flag comes down nowhere, so when it is down no goroutine    *)
(* was ever launched.  StopClosesOnce is kept by once.                     *)
(***************************************************************************)
FlagInv == stopCh = "open" /\ ~running => Live = {} /\ Launching = {}

OnceInv ==
    /\ once = "unused" => stopCh = "open"
    /\ \A c \in Callers : caller[c] = "stopping" => stopCh = "closed"

IInv == TypeOK /\ FlagInv /\ OnceInv /\ OneScanner /\ StopClosesOnce

LEMMA InitIInv == Init => IInv
<1> SUFFICES ASSUME Init PROVE IInv
  OBVIOUS
<1>1. TypeOK
  <2>1. calls \in 0..MaxCalls
    BY LoopAssumption DEF Init
  <2>2. QED
    BY <2>1 DEF Init, TypeOK
<1>2. Live = {} /\ Launching = {}
  BY DEF Init, Live, Launching
<1>3. QED
  BY <1>1, <1>2 DEF Init, IInv, FlagInv, OnceInv, OneScanner, StopClosesOnce

\* A call that is begun is within the bound.
LEMMA EnterBounds ==
    ASSUME TypeOK, NEW c \in Callers, Enter(c)
    PROVE  calls' \in 0..MaxCalls
  BY LoopAssumption DEF TypeOK, Enter

\* Every step keeps the types.
LEMMA NextTypeOK == TypeOK /\ Next => TypeOK'
<1> SUFFICES ASSUME TypeOK, Next PROVE TypeOK'
  OBVIOUS
<1>1. ASSUME NEW c \in Callers, Call(c) PROVE TypeOK'
  <2>1. CASE StartIdle(c) \/ StartFlag(c)
    <3>1. calls' \in 0..MaxCalls
      BY <2>1, EnterBounds DEF StartIdle, StartFlag
    <3>2. QED
      BY <2>1, <3>1 DEF TypeOK, StartIdle, StartFlag
  <2>2. CASE StartLaunch(c)
    BY <2>2 DEF TypeOK, StartLaunch
  <2>3. CASE StopClose(c) \/ StopAgain(c)
    <3>1. calls' \in 0..MaxCalls
      BY <2>3, EnterBounds DEF StopClose, StopAgain
    <3>2. panicked' \in BOOLEAN
      BY <2>3 DEF TypeOK, StopClose, StopAgain
    <3>3. QED
      BY <2>3, <3>1, <3>2 DEF TypeOK, StopClose, StopAgain
  <2>4. CASE StopFlag(c) \/ StopReturns(c)
    BY <2>4 DEF TypeOK, StopFlag, StopReturns
  <2>5. QED
    BY <1>1, <2>1, <2>2, <2>3, <2>4 DEF Call
<1>2. ASSUME NEW w \in Workers,
             Tick(w) \/ ScanEnds(w) \/ Exit(w) \/ CancelCtx(w)
      PROVE  TypeOK'
  BY <1>2 DEF TypeOK, Tick, ScanEnds, Exit, CancelCtx
<1>3. QED
  BY <1>1, <1>2 DEF Next

LEMMA NextIInv == IInv /\ [Next]_vars => IInv'
<1> SUFFICES ASSUME IInv, [Next]_vars PROVE IInv'
  OBVIOUS
<1>1. CASE UNCHANGED vars
  BY <1>1 DEF vars, IInv, TypeOK, FlagInv, OnceInv, OneScanner, StopClosesOnce,
              Live, Launching
<1>2. ASSUME NEW c \in Callers, StartIdle(c) PROVE IInv'
  <2>1. TypeOK'
    BY <1>2, NextTypeOK DEF IInv, Next, Call
  <2>2. Live' = Live /\ Launching' = Launching
    BY <1>2 DEF StartIdle, Live, Launching
  <2>3. QED
    BY <1>2, <2>1, <2>2
       DEF StartIdle, IInv, FlagInv, OnceInv, OneScanner, StopClosesOnce
<1>3. ASSUME NEW c \in Callers, StartFlag(c) PROVE IInv'
  <2>1. TypeOK'
    BY <1>3, NextTypeOK DEF IInv, Next, Call
  <2>2. Live' = Live /\ Launching' = Launching \cup {c}
    BY <1>3 DEF StartFlag, Live, Launching, IInv, TypeOK
  <2>3. stopCh = "open" => Live = {} /\ Launching = {}
    BY <1>3 DEF StartFlag, IInv, FlagInv
  <2>4. OneScanner'
    BY <1>3, <2>2, <2>3 DEF StartFlag, OneScanner
  <2>5. QED
    BY <1>3, <2>1, <2>4 DEF StartFlag, IInv, FlagInv, OnceInv, StopClosesOnce
<1>4. ASSUME NEW c \in Callers, StartLaunch(c) PROVE IInv'
  <2>1. TypeOK'
    BY <1>4, NextTypeOK DEF IInv, Next, Call
  <2>2. PICK w \in Workers :
           worker[w] = "unborn" /\ worker' = [worker EXCEPT ![w] = "select"]
    BY <1>4 DEF StartLaunch
  <2>3. /\ Live' = Live \cup {w}
        /\ Launching' = Launching \ {c}
        /\ c \in Launching
    BY <1>4, <2>2 DEF StartLaunch, Live, Launching, IInv, TypeOK
  <2>4. stopCh = "open" => Live = {} /\ Launching = {c}
    BY <2>3 DEF IInv, OneScanner
  <2>5. OneScanner'
    BY <1>4, <2>3, <2>4 DEF StartLaunch, OneScanner
  <2>6. FlagInv'
    BY <1>4, <2>3 DEF StartLaunch, IInv, FlagInv
  <2>7. QED
    BY <1>4, <2>1, <2>5, <2>6 DEF StartLaunch, IInv, OnceInv, StopClosesOnce
<1>5. ASSUME NEW c \in Callers, StopClose(c) PROVE IInv'
  <2>1. TypeOK'
    BY <1>5, NextTypeOK DEF IInv, Next, Call
  <2>2. stopCh = "open" /\ ~panicked'
    BY <1>5 DEF StopClose, IInv, OnceInv, StopClosesOnce
  <2>3. QED
    BY <1>5, <2>1, <2>2
       DEF StopClose, IInv, FlagInv, OnceInv, OneScanner, StopClosesOnce
<1>6. ASSUME NEW c \in Callers, StopFlag(c) \/ StopAgain(c) \/ StopReturns(c)
      PROVE  IInv'
  <2>1. TypeOK'
    BY <1>6, NextTypeOK DEF IInv, Next, Call
  <2>2. Live' = Live /\ Launching' = Launching
    <3>1. /\ worker' = worker
          /\ caller[c] # "launching"
          /\ caller' \in {[caller EXCEPT ![c] = "idle"],
                         [caller EXCEPT ![c] = "waiting"]}
      BY <1>6 DEF StopFlag, StopAgain, StopReturns, Enter
    <3>2. QED
      BY <3>1 DEF Live, Launching, IInv, TypeOK
  <2>3. OnceInv'
    BY <1>6 DEF StopFlag, StopAgain, StopReturns, IInv, TypeOK, OnceInv
  <2>4. FlagInv'
    BY <1>6, <2>2 DEF StopFlag, StopAgain, StopReturns, IInv, FlagInv, OnceInv
  <2>5. QED
    BY <1>6, <2>1, <2>2, <2>3, <2>4
       DEF StopFlag, StopAgain, StopReturns, IInv, OneScanner, StopClosesOnce
<1>7. ASSUME NEW w \in Workers,
             Tick(w) \/ ScanEnds(w) \/ Exit(w) \/ CancelCtx(w)
      PROVE  IInv'
  <2>1. TypeOK'
    BY <1>7, NextTypeOK DEF IInv, Next
  <2>2. Live' \subseteq Live /\ Launching' = Launching
    BY <1>7 DEF Tick, ScanEnds, Exit, CancelCtx, Live, Launching, IInv, TypeOK
  <2>3. QED
    BY <1>7, <2>1, <2>2
       DEF Tick, ScanEnds, Exit, CancelCtx, IInv, FlagInv, OnceInv, OneScanner,
           StopClosesOnce
<1>8. QED
  BY <1>1, <1>2, <1>3, <1>4, <1>5, <1>6, <1>7 DEF Next, Call

LEMMA Invariance == Spec => []IInv
  BY InitIInv, NextIInv, PTL DEF Spec

\* However many goroutines call Start and Stop, every variable keeps its type.
THEOREM TypeCorrect == Spec => []TypeOK
<1>1. IInv => TypeOK
  BY DEF IInv
<1>2. QED
  BY Invariance, <1>1, PTL

\* However many goroutines call Start at the same time, at most one goroutine
\* scans until Stop is called.
THEOREM ScansAlone == Spec => []OneScanner
<1>1. IInv => OneScanner
  BY DEF IInv
<1>2. QED
  BY Invariance, <1>1, PTL

\* However many goroutines call Stop at the same time, stopCh is closed once.
THEOREM ClosesOnce == Spec => []StopClosesOnce
<1>1. IInv => StopClosesOnce
  BY DEF IInv
<1>2. QED
  BY Invariance, <1>1, PTL
=============================================================================
