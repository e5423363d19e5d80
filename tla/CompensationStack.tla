-------------------------- MODULE CompensationStack --------------------------
(***************************************************************************)
(* What the saga pattern promises, with nothing about retries, stores or   *)
(* lost replies: effects are stacked up in order, and either all N of them *)
(* stand and the transaction commits, or the stack is emptied from the top *)
(* and nothing is ever pushed again.  It is "undone" when every effect was *)
(* taken back, and "stuck", for somebody to look at, when one was not.     *)
(***************************************************************************)
EXTENDS Naturals

CONSTANT N   \* number of steps

VARIABLES
    phase,      \* "forward", "undo", "committed", "undone" or "stuck"
    standing,   \* the steps on the stack
    clean       \* every step popped so far was really taken back

stackVars == <<phase, standing, clean>>

Init == phase = "forward" /\ standing = {} /\ clean = TRUE

\* Step s is done: the steps before it stand, and it joins them.
Push(s) ==
    /\ phase = "forward"
    /\ standing = 1..(s - 1)
    /\ standing' = 1..s
    /\ UNCHANGED <<phase, clean>>

Commit ==
    /\ phase = "forward"
    /\ standing = 1..N
    /\ phase' = "committed"
    /\ UNCHANGED <<standing, clean>>

\* A transaction whose steps are all done is not turned back.
TurnBack ==
    /\ phase = "forward"
    /\ standing # 1..N
    /\ phase' = "undo"
    /\ UNCHANGED <<standing, clean>>

\* Step s, the last one standing, leaves the stack, taken back or given up.
Pop(s) ==
    /\ phase = "undo"
    /\ s \in standing
    /\ \A t \in standing : t <= s
    /\ standing' = standing \ {s}
    /\ clean' \in {clean, FALSE}
    /\ UNCHANGED phase

Finish ==
    /\ phase = "undo"
    /\ standing = {}
    /\ phase' = IF clean THEN "undone" ELSE "stuck"
    /\ UNCHANGED <<standing, clean>>

Next ==
    \/ \E s \in 1..N : Push(s) \/ Pop(s)
    \/ Commit
    \/ TurnBack
    \/ Finish

Spec == Init /\ [][Next]_stackVars
==============================================================================
