---------------------------- MODULE MCXAExecutor ----------------------------
(* Instances of XAExecutor for TLC. *)
EXTENDS XAExecutor
=============================================================================
