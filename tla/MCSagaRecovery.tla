--------------------------- MODULE MCSagaRecovery ---------------------------
(* Instances of SagaRecovery for TLC. *)
EXTENDS SagaRecovery

\* The middle step is retried once, the others are called once.
MiddleRetried == [s \in Steps |-> IF s = 2 THEN 1 ELSE 0]
=============================================================================
