--------------------------- MODULE MCDagExecutor ---------------------------
(* Graphs for DagExecutor.                                                 *)
EXTENDS DagExecutor

CONSTANTS a, b, c, d, p, q, any

Sorted == {<<a, b>>, <<a, c>>, <<a, d>>, <<b, c>>, <<b, d>>, <<c, d>>}

\* A selector with branches of one and of two nodes.
LongBranch == {{<<a, p, b>>, <<a, q, c>>, <<c, any, d>>}}

\* Every graph of four nodes with at most one edge from a node to another, up to
\* names.
AllGraphs ==
  {UNION {IF f[x] = "none" THEN {} ELSE {<<x[1], f[x], x[2]>>} : x \in Sorted}
     : f \in [Sorted -> {"none", any, p, q}]}

\* A selector with branches of one and of two nodes that join again, and one
\* whose ports both lead to the same node.
Branches == {{<<a, p, b>>, <<a, q, c>>, <<b, any, d>>, <<c, any, d>>},
             {<<a, p, d>>, <<a, q, b>>, <<b, any, c>>, <<c, any, d>>},
             {<<a, p, b>>, <<a, q, b>>, <<b, any, c>>, <<b, any, d>>}}

\* The graphs named above, and all those of AllGraphs in which a is the only
\* source and q does not occur.
SomeGraphs ==
  LongBranch \cup Branches \cup {g \in AllGraphs : /\ \A x \in g : x[2] # q
                                  /\ \A n \in {b, c, d} : \E x \in g : x[3] = n}
============================================================================
