------------------------- MODULE MCWorkflowExecutor -------------------------
(* Instances of WorkflowExecutor for TLC. *)
EXTENDS WorkflowExecutor, TLC

CONSTANTS b1, b2, b3, b4

Kinds == (b1 :> {"confirm", "rollback", "cancel"}) @@ (b2 :> {"confirm"})
            @@ (b3 :> {"cancel"}) @@ (b4 :> {"confirm", "rollback"})
=============================================================================
