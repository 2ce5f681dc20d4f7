-------------------------- MODULE MCWorkflowEditor --------------------------
(* Model values and bounds for WorkflowEditor.                             *)
EXTENDS WorkflowEditor

CONSTANTS save1, save2, run1, none
=============================================================================
