--------------------------- MODULE MCTCCExecutor ----------------------------
(* Instances of TCCExecutor for TLC. *)
EXTENDS TCCExecutor

\* The second branch is retried once, the others are tried once.
SecondRetried == [b \in Branches |-> IF b = 2 THEN 1 ELSE 0]
=============================================================================
