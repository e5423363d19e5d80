-------------------------- MODULE MCOutboxExecutor --------------------------
(* Instances of OutboxExecutor for TLC. *)
EXTENDS OutboxExecutor
=============================================================================
