---------------------------- MODULE Participants ----------------------------
(***************************************************************************)
(* The branches of a two-phase transaction: the databases behind the       *)
(* xa.Resource callbacks, the services behind Try, Confirm and Cancel.     *)
(* They are the user's code; what is kept of them is how far each has      *)
(* come, and that a call made twice does what it does once.                *)
(*                                                                         *)
(* A call of the second phase that has no effect when it fails may still   *)
(* be repeated, and one that lands late does what it was asked: neither    *)
(* tells anything new, and only a first-phase call can be in flight.       *)
(***************************************************************************)
EXTENDS Naturals

CONSTANTS
    N,            \* number of branches
    CallFaults    \* what a failing call may do besides nothing:
                  \*   "late"     : it takes effect, and returns an error
                  \*   "inflight" : it returns an error, and may take effect
                  \*                at any later time (first phase)

Branches == 1..N

ASSUME ParticipantsAssumption ==
    /\ N \in Nat
    /\ CallFaults \subseteq {"late", "inflight"}

VARIABLES
    rm,         \* "working", "prepared", "committed" or "rolledback"
    inflight    \* branches with a first-phase call that may still land

participants == <<rm, inflight>>

ParticipantsInit == rm = [b \in Branches |-> "working"] /\ inflight = {}

ParticipantsTypeOK ==
    /\ rm \in [Branches -> {"working", "prepared", "committed", "rolledback"}]
    /\ inflight \subseteq Branches

\* Prepare, or Try: the branch locks or reserves what it needs.
FirstPhase(b, err) ==
    \/ /\ err => "late" \in CallFaults
       /\ rm[b] \in {"working", "prepared"}
       /\ rm' = [rm EXCEPT ![b] = "prepared"]
       /\ UNCHANGED inflight
    \/ /\ err
       /\ UNCHANGED participants
    \/ /\ err /\ "inflight" \in CallFaults
       /\ inflight' = inflight \cup {b}
       /\ UNCHANGED rm

\* Commit and Rollback, or Confirm and Cancel.
SecondPhase(b, end, err) ==
    /\ \/ /\ err => "late" \in CallFaults
          /\ rm' = [rm EXCEPT ![b] = end]
       \/ /\ err
          /\ UNCHANGED rm
    /\ UNCHANGED inflight

\* A first-phase call without an answer reaches its branch, which refuses it
\* when it has already been told how the transaction ends.
Land(b) ==
    /\ b \in inflight /\ rm[b] = "working"
    /\ rm' = [rm EXCEPT ![b] = "prepared"]
    /\ UNCHANGED inflight

\* The caller dies with a call to branch b under way.
DieCalling(b) ==
    /\ "inflight" \in CallFaults
    /\ inflight' = inflight \cup {b}
    /\ UNCHANGED rm
==============================================================================
