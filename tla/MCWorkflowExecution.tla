------------------------ MODULE MCWorkflowExecution ------------------------
(* Model values and bounds for WorkflowExecution.                          *)
EXTENDS WorkflowExecution

CONSTANTS input, question, later, start, resume1, resume2, cancel1, none
=============================================================================
