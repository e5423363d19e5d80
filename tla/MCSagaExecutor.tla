--------------------------- MODULE MCSagaExecutor ---------------------------
(* Instances of SagaExecutor for TLC. *)
EXTENDS SagaExecutor

\* The middle step is retried once, the others are called once.
MiddleRetried == [s \in Steps |-> IF s = 2 THEN 1 ELSE 0]
=============================================================================
