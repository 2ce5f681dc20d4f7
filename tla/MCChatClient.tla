--------------------------- MODULE MCChatClient ---------------------------
(* Model values and bounds for ChatClient.                                 *)
EXTENDS ChatClient

CONSTANTS ask1, ask2, ask3, more1, q1, q2, q3, none, clearer

Question ==
  [r \in Requests |-> CASE r = ask2 -> q2 [] r = ask3 -> q3 [] OTHER -> q1]
============================================================================
