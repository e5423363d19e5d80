--------------------------- MODULE MCRecoveryScan ---------------------------
(* Instances of RecoveryScan for TLC. *)
EXTENDS RecoveryScan, TLC

CONSTANTS t1, t2

OneSaga == t1 :> "SAGA"
TccWorkflow == (t1 :> "TCC") @@ (t2 :> "WORKFLOW")
=============================================================================
