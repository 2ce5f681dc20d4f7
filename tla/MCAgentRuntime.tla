--------------------------- MODULE MCAgentRuntime --------------------------
(* Model values and a directory for AgentRuntime.                          *)
EXTENDS AgentRuntime

CONSTANTS research, tools, team, watcher, admin

\* A supervisor over one or both plain agents.
Team == [o \in Orchs |-> Leaves]
============================================================================
