------------------------------ MODULE SerialRun ------------------------------
(***************************************************************************)
(* What a run of a workflow graph promises, whatever waves and goroutines  *)
(* it takes (pkg/dag): as if its nodes were executed one after the other,  *)
(* each in a single step, once all its predecessors are settled, and with  *)
(* what those have returned.  A node is settled when it has returned or a  *)
(* predecessor has selected another port.                                  *)
(***************************************************************************)
CONSTANTS Nodes, Entry, Ports, Any, Graphs

VARIABLES graph,
          settled, \* nodes that have returned or are passed over
          output,  \* per node: "unset", "nil", a selected port, or Any with none
          given,   \* per node that has returned, whose outputs it was given
          failed,  \* nodes whose execution returned an error
          result   \* "none" yet, "ok" or "error"

vars == <<graph, settled, output, given, failed, result>>

Before(n) == {e[1] : e \in {x \in graph : x[3] = n}}

PassedOver(n, port) == {e[3] : e \in {x \in graph : x[1] = n /\ x[2] \notin {Any, port}}}

Init ==
  /\ graph \in Graphs
  /\ settled = {} /\ failed = {} /\ result = "none"
  /\ output = [n \in Nodes |-> "unset"] /\ given = [n \in Nodes |-> {}]

Due(n) == result = "none" /\ n \notin settled \cup failed /\ Before(n) \subseteq settled

Execute(n, o) ==
  /\ Due(n)
  /\ output' = [output EXCEPT ![n] = o]
  /\ given' = [given EXCEPT ![n] =
       IF n = Entry THEN {} ELSE {m \in Before(n) : output[m] \notin {"unset", "nil"}}]
  /\ settled' = settled \cup {n} \cup IF o \in Ports THEN PassedOver(n, o) ELSE {}
  /\ UNCHANGED <<graph, failed, result>>

\* The run may end at once.
Fail(n) ==
  /\ Due(n)
  /\ failed' = failed \cup {n}
  /\ result' \in {"none", "error"}
  /\ UNCHANGED <<graph, settled, output, given>>

Return ==
  /\ result = "none"
  /\ \/ failed = {} /\ settled = Nodes /\ result' = "ok"
     \/ failed # {} /\ result' = "error"
  /\ UNCHANGED <<graph, settled, output, given, failed>>

Next == \/ Return
        \/ \E n \in Nodes : Fail(n) \/ \E o \in {"nil", Any} \cup Ports : Execute(n, o)

Spec == Init /\ [][Next]_vars
=============================================================================
