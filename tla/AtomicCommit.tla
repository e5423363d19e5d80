---------------------------- MODULE AtomicCommit ----------------------------
(***************************************************************************)
(* What two-phase coordination promises, for XA resources and for TCC      *)
(* branches alike: one outcome is chosen, once, "commit" only after every  *)
(* branch is prepared, and a branch that is prepared ends, if it ends, the *)
(* way of the outcome and after it is chosen.                              *)
(***************************************************************************)
CONSTANT Branches

VARIABLES
    rm,       \* "working", "prepared", "committed" or "rolledback"
    outcome   \* "open", "commit" or "abort"

atomicVars == <<rm, outcome>>

Init == rm = [b \in Branches |-> "working"] /\ outcome = "open"

Prepare(b) ==
    /\ rm[b] = "working"
    /\ rm' = [rm EXCEPT ![b] = "prepared"]
    /\ UNCHANGED outcome

DecideCommit ==
    /\ outcome = "open"
    /\ \A b \in Branches : rm[b] = "prepared"
    /\ outcome' = "commit"
    /\ UNCHANGED rm

DecideAbort ==
    /\ outcome = "open"
    /\ outcome' = "abort"
    /\ UNCHANGED rm

Finish(b) ==
    /\ rm[b] = "prepared"
    /\ \/ outcome = "commit" /\ rm' = [rm EXCEPT ![b] = "committed"]
       \/ outcome = "abort" /\ rm' = [rm EXCEPT ![b] = "rolledback"]
    /\ UNCHANGED outcome

Next ==
    \/ \E b \in Branches : Prepare(b) \/ Finish(b)
    \/ DecideCommit
    \/ DecideAbort

Spec == Init /\ [][Next]_atomicVars

\* No branch is committed in a transaction of which another is rolled back.
Consistent ==
    \A a, b \in Branches : ~(rm[a] = "committed" /\ rm[b] = "rolledback")
==============================================================================
