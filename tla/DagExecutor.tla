---------------------------- MODULE DagExecutor ----------------------------
(***************************************************************************)
(* One run of a workflow graph: Executor.Execute and                       *)
(* ParallelExecutor.Execute of pkg/dag/executor.go, with readiness, port   *)
(* selection, input resolution and the bound on concurrent nodes.          *)
(*                                                                         *)
(* The sequential executor visits the nodes in topological order, one at a *)
(* time; the parallel one runs waves of all ready nodes, each on its own   *)
(* goroutine, and waits for a wave to end before it looks for the next.    *)
(* Both fail fast: no option of the package turns that off.                *)
(***************************************************************************)
EXTENDS Naturals, FiniteSets

CONSTANTS Nodes, Entry,    \* the entry gets the graph's input
          Ports, Any,      \* port labels; Any on an unconditional edge
          Graphs,          \* sets of edges <<from, port, to>>
          Executors,       \* which of "sequential", "parallel" are run
          MaxConcurrency   \* slots of the parallel executor, 0 for no bound

\* GraphBuilder.Build: edges join registered nodes, and there is no cycle, so
\* every set of nodes has one that no edge of the set leads to.
Edges == Nodes \X (Ports \cup {Any}) \X Nodes

ASSUME NodesAssumption == IsFiniteSet(Nodes) /\ Entry \in Nodes /\ Any \notin Ports
ASSUME GraphsAssumption ==
  \A g \in Graphs : /\ g \subseteq Edges
                    /\ \A S \in (SUBSET Nodes) \ {{}} : \E n \in S : \A e \in g : e[3] = n => e[1] \notin S
ASSUME OptionsAssumption == Executors \subseteq {"sequential", "parallel"} /\ MaxConcurrency \in Nat
ASSUME LabelsAssumption == {"unset", "nil"} \cap (Ports \cup {Any}) = {}

VARIABLES graph, executor,
          order,    \* sequential: the nodes that the loop has visited
          wave,     \* nodes to be run, not started
          busy,     \* nodes in execution
          executed, \* nodes that have run or that are skipped
          output,   \* per node: "unset", "nil", a selected port, or Any with none
          ran,      \* per node, how often it was started
          input,    \* per node, the nodes whose output it was given
          failed,   \* nodes whose execution returned an error
          result    \* what Execute returns: "none" yet, "ok" or "error"

vars == <<graph, executor, order, wave, busy, executed, output, ran, input, failed, result>>

Preds(n) == {e[1] : e \in {x \in graph : x[3] = n}}

\* Bug: the edges with the selected port are switched off.
Deselects_Inverted(n, o) == {e[3] : e \in {x \in graph : x[1] = n /\ o \in Ports /\ x[2] = o}}

\* Where the node that returned o does not lead: edges with another port, if o
\* has one.
Deselects(n, o) == {e[3] : e \in {x \in graph : /\ x[1] = n
                                               /\ o \in Ports
                                               /\ x[2] \notin {Any, o}}}

\* Bug: one predecessor is enough.
Ready_Any(n) == n \notin executed /\ (Preds(n) = {} \/ Preds(n) \cap executed # {})

Ready(n) == n \notin executed /\ Preds(n) \subseteq executed

\* Bug: slots of the semaphore are never given back.
SlotFree_NeverReleased ==
  executor = "parallel" /\ MaxConcurrency > 0 => Cardinality({n \in Nodes : ran[n] > 0}) < MaxConcurrency

SlotFree == executor = "parallel" /\ MaxConcurrency > 0 => Cardinality(busy) < MaxConcurrency

Given(n) == IF n = Entry THEN {} ELSE {m \in Preds(n) : output[m] \notin {"unset", "nil"}}

Init ==
  /\ graph \in Graphs
  /\ executor \in Executors
  /\ order = {} /\ wave = {} /\ busy = {} /\ executed = {} /\ failed = {}
  /\ output = [n \in Nodes |-> "unset"]
  /\ ran = [n \in Nodes |-> 0]
  /\ input = [n \in Nodes |-> {}]
  /\ result = "none"

Between == result = "none" /\ wave = {} /\ busy = {}

\* Sequential: the next node in topological order; skipped if it is marked, or
\* if a predecessor is not.
Visit(n) ==
  /\ executor = "sequential" /\ Between
  /\ n \notin order /\ Preds(n) \subseteq order
  /\ order' = order \cup {n}
  /\ wave' = IF Ready(n) THEN {n} ELSE {}
  /\ UNCHANGED <<graph, executor, busy, executed, output, ran, input, failed, result>>

\* Bug: a failed wave is followed by another.
BeginWave_AfterFailure ==
  /\ executor = "parallel" /\ Between
  /\ \E n \in Nodes : Ready(n) /\ n \notin failed
  /\ wave' = {n \in Nodes : Ready(n) /\ n \notin failed}
  /\ UNCHANGED <<graph, executor, order, busy, executed, output, ran, input, failed, result>>

\* Parallel: every ready node gets a goroutine.
BeginWave ==
  /\ executor = "parallel" /\ Between
  /\ failed = {}
  /\ \E n \in Nodes : Ready(n)
  /\ wave' = {n \in Nodes : Ready(n)}
  /\ UNCHANGED <<graph, executor, order, busy, executed, output, ran, input, failed, result>>

\* A node takes a slot, its input is put together and it is called.
Start(n) ==
  /\ n \in wave /\ SlotFree
  /\ wave' = wave \ {n}
  /\ busy' = busy \cup {n}
  /\ ran' = [ran EXCEPT ![n] = @ + 1]
  /\ input' = [input EXCEPT ![n] = Given(n)]
  /\ UNCHANGED <<graph, executor, order, executed, output, failed, result>>

\* Bug: the node is not marked.
Finish_Unmarked(n) ==
  /\ n \in busy
  /\ busy' = busy \ {n}
  /\ \E o \in {"nil", Any} \cup Ports :
       /\ output' = [output EXCEPT ![n] = o]
       /\ executed' = executed \cup IF o = "nil" THEN {} ELSE {n} \cup Deselects(n, o)
  /\ UNCHANGED <<graph, executor, order, wave, ran, input, failed, result>>

\* It returns an output, which may be nil or select a port; targets of the
\* other ports are marked as if they had run.
Finish(n) ==
  /\ n \in busy
  /\ busy' = busy \ {n}
  /\ \E o \in {"nil", Any} \cup Ports :
       /\ output' = [output EXCEPT ![n] = o]
       /\ executed' = executed \cup {n} \cup Deselects(n, o)
  /\ UNCHANGED <<graph, executor, order, wave, ran, input, failed, result>>

\* Bug: the node is marked before its error is looked at.
Fail_Marks(n) ==
  /\ n \in busy
  /\ busy' = busy \ {n}
  /\ failed' = failed \cup {n}
  /\ executed' = executed \cup {n}
  /\ result' = IF executor = "sequential" THEN "error" ELSE result
  /\ UNCHANGED <<graph, executor, order, wave, output, ran, input>>

\* It returns an error, at once the end of a sequential run.
Fail(n) ==
  /\ n \in busy
  /\ busy' = busy \ {n}
  /\ failed' = failed \cup {n}
  /\ result' = IF executor = "sequential" THEN "error" ELSE result
  /\ UNCHANGED <<graph, executor, order, wave, executed, output, ran, input>>

\* All nodes are visited, no node is ready, or the wave that just ended failed.
Return ==
  /\ Between
  /\ \/ executor = "sequential" /\ order = Nodes
     \/ executor = "parallel" /\ (failed # {} \/ ~\E n \in Nodes : Ready(n))
  /\ result' = IF failed = {} THEN "ok" ELSE "error"
  /\ UNCHANGED <<graph, executor, order, wave, busy, executed, output, ran, input, failed>>

Next == \/ BeginWave \/ Return
        \/ \E n \in Nodes : Visit(n) \/ Start(n) \/ Finish(n) \/ Fail(n)

Spec == Init /\ [][Next]_vars

\* Goroutines are scheduled, and nodes return.
FairSpec == Spec /\ WF_vars(Next)

----------------------------------------------------------------------------
(* Properties.                                                             *)

TypeOK ==
  /\ graph \subseteq Edges /\ executor \in Executors
  /\ order \subseteq Nodes /\ wave \subseteq Nodes /\ busy \subseteq Nodes
  /\ executed \subseteq Nodes /\ failed \subseteq Nodes
  /\ output \in [Nodes -> {"unset", "nil", Any} \cup Ports]
  /\ ran \in [Nodes -> 0..1]
  /\ input \in [Nodes -> SUBSET Nodes]
  /\ result \in {"none", "ok", "error"}

\* A node that was started was given the output of every predecessor that has
\* one, now or ever after: no output comes too late, in whatever order the
\* goroutines of a wave are scheduled.
InputsAreComplete == \A n \in Nodes : ran[n] > 0 => input[n] = Given(n)

Deselected(n) == \E e \in graph : /\ e[3] = n /\ ran[e[1]] > 0
                                 /\ output[e[1]] \in Ports /\ e[2] \notin {Any, output[e[1]]}

\* A marked node was run exactly if no node that ran has deselected it, and a
\* run that succeeds has marked all of them: what is run follows from the
\* outputs alone, not from the executor or the schedule.
RunsAllButDeselected ==
  /\ \A n \in executed : ran[n] > 0 <=> ~Deselected(n)
  /\ result = "ok" => executed = Nodes

\* When Execute returns no node is at work or will be, and it returns an error
\* exactly if a node failed.
NothingLeftBehind ==
  result # "none" => wave = {} /\ busy = {} /\ (result = "error" <=> failed # {})

\* A run ends in order: after a failure the nodes of the wave are still run, but
\* no other, and Execute waits for them.
EndsInOrder == []NothingLeftBehind /\ [][failed # {} => wave' \subseteq wave]_vars

\* What a node was given, once it has returned.
GivenWhenDone == [n \in Nodes |-> IF output[n] = "unset" THEN {} ELSE input[n]]

Serial == INSTANCE SerialRun WITH settled <- executed, given <- GivenWhenDone

\* A run is as good as one that executes its nodes one after the other: a node
\* that overlaps others of its wave is executed, as it were, when it returns.
SerialSpec == Serial!Spec

\* Every run returns: bounded slots are given back, and a skipped node does not
\* keep those behind it from becoming ready.
EveryRunReturns == <>(result # "none")

\* "An edge with a Port is only active when the source node selects that port":
\* a node is run exactly if it has no incoming edge or an active one.
Active(e) == ran[e[1]] > 0 /\ (e[2] = Any \/ e[2] = output[e[1]])

OnlyActiveEdgesLead ==
  result = "ok" =>
    \A n \in Nodes : ran[n] > 0 <=> Preds(n) = {} \/ \E e \in graph : e[3] = n /\ Active(e)
============================================================================
