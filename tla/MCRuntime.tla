----------------------------- MODULE MCRuntime ------------------------------
(* Instances of Runtime for TLC. *)
EXTENDS Runtime, TLC

CONSTANTS c1, c2, c3, r1, r2

\* Two calls of one Runtime and one of another.
TwoAndOne == [c \in Calls |-> IF c = c3 THEN r2 ELSE r1]

EachMode ==
    (c1 :> {"SAGA", "OUTBOX"}) @@ (c2 :> {"TCC", "WORKFLOW"})
        @@ (c3 :> {"XA"})

AnyId == Permutations(Ids)
=============================================================================
