------------------------- MODULE DagExecutor_proofs -------------------------
(***************************************************************************)
(* Proofs about DagExecutor, for every graph, both executors and every     *)
(* bound on concurrent nodes.                                              *)
(*                                                                         *)
(* What makes the executors right is that a node comes into a wave with    *)
(* all its predecessors marked, and that a node which may still return is  *)
(* not marked: so no node returns after one that it leads to has started,  *)
(* and outputs and ports are settled when they are read.                   *)
(***************************************************************************)
EXTENDS DagExecutor, FiniteSetTheorems, TLAPS

\* A node of the wave is fresh; a node at work is unmarked, its predecessors are marked.
WaveIsFresh ==
  /\ \A n \in wave : /\ n \notin executed /\ n \notin failed /\ n \notin busy
                     /\ ran[n] = 0 /\ Preds(n) \subseteq executed
  /\ \A n \in busy : n \notin executed /\ ran[n] = 1

\* What has been started has all its predecessors marked and is accounted for.
StartedIsSettled ==
  \A n \in Nodes : ran[n] > 0 => /\ Preds(n) \subseteq executed
                                 /\ n \in busy \cup failed \cup executed

OutputsAreMarked == \A n \in Nodes : output[n] # "unset" => n \in executed

\* Marks: a deselected node is marked and never run; a node marked without
\* having run is deselected.
MarksAreRight ==
  /\ \A n \in Nodes : Deselected(n) => n \in executed /\ ran[n] = 0
  /\ \A n \in executed : ran[n] = 0 => Deselected(n)

\* The sequential executor has one node in hand, stops at the first failure,
\* and leaves nothing that it has visited.
SequentialIsOneByOne ==
  executor = "sequential" =>
    /\ \A x, y \in wave \cup busy : x = y
    /\ failed # {} => result = "error"
    /\ order \subseteq executed \cup wave \cup busy \cup failed

DInv == /\ TypeOK /\ graph \in Graphs
        /\ WaveIsFresh /\ StartedIsSettled /\ OutputsAreMarked /\ MarksAreRight
        /\ SequentialIsOneByOne /\ NothingLeftBehind
        /\ result = "ok" => executed = Nodes
        /\ InputsAreComplete

USE DEF Edges

LEMMA PredsAreNodes ==
  ASSUME graph \subseteq Edges, NEW n \in Nodes
  PROVE  Preds(n) \subseteq Nodes
BY DEF Preds

LEMMA DeselectedAreNodes ==
  ASSUME graph \subseteq Edges, NEW n \in Nodes, NEW o
  PROVE  /\ Deselects(n, o) \subseteq Nodes
         /\ \A k \in Deselects(n, o) : n \in Preds(k)
BY DEF Deselects, Preds

\* What no step touches.
LEMMA GraphIsFixed ==
  ASSUME Next
  PROVE  graph' = graph /\ executor' = executor
BY DEF Next, BeginWave, Return, Visit, Start, Finish, Fail

LEMMA InitDInv == Init => DInv
<1> SUFFICES ASSUME Init PROVE DInv
  OBVIOUS
<1>1. TypeOK
  BY GraphsAssumption, NodesAssumption DEF Init, TypeOK
<1>2. \A n \in Nodes : ran[n] = 0 /\ output[n] = "unset" /\ input[n] = {}
  BY DEF Init
<1>3. \A n \in Nodes : ~Deselected(n)
  <2> SUFFICES ASSUME NEW n \in Nodes, Deselected(n) PROVE FALSE
    OBVIOUS
  <2>1. PICK e \in graph : ran[e[1]] > 0
    BY DEF Deselected
  <2>2. e[1] \in Nodes
    BY <1>1 DEF TypeOK
  <2> QED BY <2>1, <2>2, <1>2
<1>4. WaveIsFresh /\ StartedIsSettled /\ OutputsAreMarked /\ MarksAreRight
  BY <1>2, <1>3 DEF Init, WaveIsFresh, StartedIsSettled, OutputsAreMarked, MarksAreRight
<1>5. SequentialIsOneByOne /\ NothingLeftBehind /\ InputsAreComplete
  BY <1>2 DEF Init, SequentialIsOneByOne, NothingLeftBehind, InputsAreComplete
<1> QED BY <1>1, <1>4, <1>5 DEF DInv, Init

----------------------------------------------------------------------------
(* The steps that only choose nodes.                                       *)

\* Fresh nodes may come into the wave, as long as nothing else changes.
LEMMA ChoosingKeepsMarks ==
  ASSUME DInv, UNCHANGED <<graph, busy, executed, output, ran, input, failed>>
  PROVE  StartedIsSettled' /\ OutputsAreMarked' /\ MarksAreRight' /\ InputsAreComplete'
<1>1. \A n \in Nodes : /\ Preds(n)' = Preds(n) /\ Deselected(n)' = Deselected(n)
                       /\ Given(n)' = Given(n)
  BY DEF Preds, Deselected, Given
<1>2. StartedIsSettled' /\ OutputsAreMarked'
  BY <1>1 DEF DInv, StartedIsSettled, OutputsAreMarked
<1>3. MarksAreRight'
  <2>1. \A n \in executed : n \in Nodes
    BY DEF DInv, TypeOK
  <2> QED BY <1>1, <2>1 DEF DInv, MarksAreRight
<1>4. InputsAreComplete'
  BY <1>1 DEF DInv, InputsAreComplete
<1> QED BY <1>2, <1>3, <1>4

\* A ready node of an executor with nothing in hand has not been started.
LEMMA ReadyIsNew ==
  ASSUME DInv, Between, failed = {}, NEW n \in Nodes, Ready(n)
  PROVE  ran[n] = 0 /\ Preds(n) \subseteq executed /\ n \notin executed
<1>1. n \notin busy \cup failed \cup executed
  BY DEF Between, Ready
<1>2. ran[n] \in 0..1
  BY DEF DInv, TypeOK
<1>3. ~(ran[n] > 0)
  BY <1>1 DEF DInv, StartedIsSettled
<1> QED BY <1>1, <1>2, <1>3 DEF Ready

LEMMA VisitKeeps == ASSUME DInv, NEW n \in Nodes, Visit(n) PROVE DInv'
<1>1. /\ executor = "sequential" /\ Between /\ Preds(n) \subseteq order
      /\ order' = order \cup {n}
      /\ wave' = IF Ready(n) THEN {n} ELSE {}
      /\ UNCHANGED <<graph, executor, busy, executed, output, ran, input, failed, result>>
  BY DEF Visit
<1>2. failed = {}
  BY <1>1 DEF DInv, SequentialIsOneByOne, Between
<1>3. \A m \in Nodes : Preds(m)' = Preds(m)
  BY <1>1 DEF Preds
<1>4. TypeOK' /\ graph' \in Graphs
  BY <1>1 DEF DInv, TypeOK
<1>5. WaveIsFresh'
  BY <1>1, <1>2, <1>3, ReadyIsNew DEF WaveIsFresh, Between
<1>6. SequentialIsOneByOne'
  <2>1. n \in executed \cup wave'
    <3>1. order \subseteq executed
      BY <1>1, <1>2 DEF DInv, SequentialIsOneByOne, Between
    <3>2. Preds(n) \subseteq executed
      BY <3>1, <1>1
    <3> QED BY <3>2, <1>1 DEF Ready
  <2>2. order' \subseteq executed' \cup wave' \cup busy' \cup failed'
    BY <2>1, <1>1, <1>2 DEF DInv, SequentialIsOneByOne, Between
  <2>3. \A x, y \in wave' \cup busy' : x = y
    BY <1>1 DEF Between
  <2> QED BY <2>2, <2>3, <1>1, <1>2 DEF SequentialIsOneByOne
<1>7. NothingLeftBehind' /\ (result' = "ok" => executed' = Nodes)
  BY <1>1 DEF NothingLeftBehind, Between
<1>8. StartedIsSettled' /\ OutputsAreMarked' /\ MarksAreRight' /\ InputsAreComplete'
  BY <1>1, ChoosingKeepsMarks
<1> QED BY <1>4, <1>5, <1>6, <1>7, <1>8 DEF DInv

LEMMA BeginWaveKeeps == ASSUME DInv, BeginWave PROVE DInv'
<1>1. /\ executor = "parallel" /\ Between /\ failed = {}
      /\ wave' = {n \in Nodes : Ready(n)}
      /\ UNCHANGED <<graph, executor, order, busy, executed, output, ran, input, failed, result>>
  BY DEF BeginWave
<1>2. \A m \in Nodes : Preds(m)' = Preds(m)
  BY <1>1 DEF Preds
<1>3. TypeOK' /\ graph' \in Graphs
  BY <1>1 DEF DInv, TypeOK
<1>4. WaveIsFresh'
  BY <1>1, <1>2, ReadyIsNew DEF WaveIsFresh, Between
<1>5. SequentialIsOneByOne'
  BY <1>1 DEF SequentialIsOneByOne
<1>6. NothingLeftBehind' /\ (result' = "ok" => executed' = Nodes)
  BY <1>1 DEF NothingLeftBehind, Between
<1>7. StartedIsSettled' /\ OutputsAreMarked' /\ MarksAreRight' /\ InputsAreComplete'
  BY <1>1, ChoosingKeepsMarks
<1> QED BY <1>3, <1>4, <1>5, <1>6, <1>7 DEF DInv

\* In an acyclic graph with an unmarked node there is a ready one.
LEMMA SomeNodeIsReady ==
  ASSUME DInv, executed # Nodes
  PROVE  \E n \in Nodes : Ready(n)
<1> DEFINE S == Nodes \ executed
<1>1. S \in (SUBSET Nodes) \ {{}}
  BY DEF DInv, TypeOK
<1>2. graph \in Graphs
  BY DEF DInv
<1>3. PICK n \in S : \A e \in graph : e[3] = n => e[1] \notin S
  BY <1>1, <1>2, GraphsAssumption
<1>4. Preds(n) \subseteq Nodes
  BY PredsAreNodes DEF DInv, TypeOK
<1>5. Preds(n) \subseteq executed
  BY <1>3, <1>4 DEF Preds
<1> QED BY <1>3, <1>5 DEF Ready

LEMMA ReturnKeeps == ASSUME DInv, Return PROVE DInv'
<1>1. /\ Between
      /\ result' = IF failed = {} THEN "ok" ELSE "error"
      /\ UNCHANGED <<graph, executor, order, wave, busy, executed, output, ran, input, failed>>
  BY DEF Return
<1>2. \A m \in Nodes : Preds(m)' = Preds(m)
  BY <1>1 DEF Preds
<1>3. TypeOK' /\ graph' \in Graphs
  BY <1>1 DEF DInv, TypeOK
<1>4. WaveIsFresh'
  BY <1>1 DEF WaveIsFresh, Between
<1>5. SequentialIsOneByOne'
  BY <1>1 DEF DInv, SequentialIsOneByOne
<1>6. NothingLeftBehind'
  BY <1>1 DEF NothingLeftBehind, Between
<1>7. result' = "ok" => executed' = Nodes
  <2> SUFFICES ASSUME failed = {} PROVE executed = Nodes
    BY <1>1
  <2>1. CASE executor = "sequential"
    BY <1>1, <2>1 DEF Return, DInv, TypeOK, SequentialIsOneByOne, Between
  <2>2. CASE executor # "sequential"
    <3>1. ~\E n \in Nodes : Ready(n)
      BY <2>2 DEF Return
    <3> QED BY <3>1, SomeNodeIsReady
  <2> QED BY <2>1, <2>2
<1>8. StartedIsSettled' /\ OutputsAreMarked' /\ MarksAreRight' /\ InputsAreComplete'
  BY <1>1, ChoosingKeepsMarks
<1> QED BY <1>3, <1>4, <1>5, <1>6, <1>7, <1>8 DEF DInv

----------------------------------------------------------------------------
(* The steps that run a node.                                              *)

\* A node that is not marked deselects none.
LEMMA UnmarkedDeselectsNone ==
  ASSUME DInv, NEW e \in graph, output[e[1]] \in Ports
  PROVE  e[1] \in executed
<1>1. e[1] \in Nodes
  BY DEF DInv, TypeOK
<1>2. output[e[1]] # "unset"
  BY LabelsAssumption
<1> QED BY <1>1, <1>2 DEF DInv, OutputsAreMarked

LEMMA StartKeeps == ASSUME DInv, NEW n \in Nodes, Start(n) PROVE DInv'
<1>1. /\ n \in wave
      /\ wave' = wave \ {n} /\ busy' = busy \cup {n}
      /\ ran' = [ran EXCEPT ![n] = @ + 1]
      /\ input' = [input EXCEPT ![n] = Given(n)]
      /\ UNCHANGED <<graph, executor, order, executed, output, failed, result>>
  BY DEF Start
<1>2. /\ n \notin executed /\ n \notin failed /\ n \notin busy
      /\ ran[n] = 0 /\ Preds(n) \subseteq executed
  BY <1>1 DEF DInv, WaveIsFresh
<1>3. ran'[n] = 1 /\ \A m \in Nodes : m # n => ran'[m] = ran[m]
  BY <1>1, <1>2 DEF DInv, TypeOK
<1>4. \A m \in Nodes : Preds(m)' = Preds(m) /\ Given(m)' = Given(m)
  BY <1>1 DEF Preds, Given
<1>5. TypeOK' /\ graph' \in Graphs
  <2>1. Preds(n) \subseteq Nodes
    BY PredsAreNodes DEF DInv, TypeOK
  <2>2. Given(n) \subseteq Nodes
    BY <2>1 DEF Given
  <2>3. input' \in [Nodes -> SUBSET Nodes]
    BY <1>1, <2>2 DEF DInv, TypeOK
  <2>4. ran' \in [Nodes -> 0..1]
    BY <1>1, <1>2 DEF DInv, TypeOK
  <2> QED BY <1>1, <2>3, <2>4 DEF DInv, TypeOK
<1>6. WaveIsFresh'
  <2>1. wave \subseteq Nodes /\ busy \subseteq Nodes
    BY DEF DInv, TypeOK
  <2> QED BY <1>1, <1>2, <1>3, <1>4, <2>1 DEF DInv, WaveIsFresh
<1>7. StartedIsSettled'
  BY <1>1, <1>2, <1>3, <1>4 DEF DInv, StartedIsSettled
<1>8. OutputsAreMarked'
  BY <1>1 DEF DInv, OutputsAreMarked
<1>9. \A m \in Nodes : Deselected(m)' = Deselected(m)
  <2> SUFFICES ASSUME NEW m \in Nodes, NEW e \in graph, output[e[1]] \in Ports
               PROVE  ran'[e[1]] > 0 <=> ran[e[1]] > 0
    BY <1>1 DEF Deselected
  <2>1. e[1] \in executed
    BY UnmarkedDeselectsNone
  <2>2. e[1] \in Nodes /\ e[1] # n
    BY <2>1, <1>2 DEF DInv, TypeOK
  <2> QED BY <2>2, <1>3
<1>10. MarksAreRight'
  <2>1. \A m \in Nodes : Deselected(m) => m # n
    BY <1>2 DEF DInv, MarksAreRight
  <2>2. \A m \in executed : m \in Nodes /\ m # n
    BY <1>2 DEF DInv, TypeOK
  <2> QED BY <1>1, <1>3, <1>9, <2>1, <2>2 DEF DInv, MarksAreRight
<1>11. SequentialIsOneByOne'
  BY <1>1 DEF DInv, SequentialIsOneByOne
<1>12. NothingLeftBehind' /\ (result' = "ok" => executed' = Nodes)
  BY <1>1 DEF DInv, NothingLeftBehind
<1>13. InputsAreComplete'
  <2>1. input'[n] = Given(n) /\ \A m \in Nodes : m # n => input'[m] = input[m]
    BY <1>1 DEF DInv, TypeOK
  <2> QED BY <1>3, <1>4, <2>1 DEF DInv, InputsAreComplete
<1> QED BY <1>5, <1>6, <1>7, <1>8, <1>10, <1>11, <1>12, <1>13 DEF DInv

LEMMA FailKeeps == ASSUME DInv, NEW n \in Nodes, Fail(n) PROVE DInv'
<1>1. /\ n \in busy
      /\ busy' = busy \ {n} /\ failed' = failed \cup {n}
      /\ result' = IF executor = "sequential" THEN "error" ELSE result
      /\ UNCHANGED <<graph, executor, order, wave, executed, output, ran, input>>
  BY DEF Fail
<1>2. \A m \in Nodes : /\ Preds(m)' = Preds(m) /\ Given(m)' = Given(m)
                       /\ Deselected(m)' = Deselected(m)
  BY <1>1 DEF Preds, Given, Deselected
<1>3. TypeOK' /\ graph' \in Graphs
  BY <1>1 DEF DInv, TypeOK
<1>4. WaveIsFresh'
  <2>1. wave \subseteq Nodes
    BY DEF DInv, TypeOK
  <2> QED BY <1>1, <1>2, <2>1 DEF DInv, WaveIsFresh
<1>5. StartedIsSettled' /\ OutputsAreMarked'
  BY <1>1, <1>2 DEF DInv, StartedIsSettled, OutputsAreMarked
<1>6. MarksAreRight'
  <2>1. executed \subseteq Nodes
    BY DEF DInv, TypeOK
  <2> QED BY <1>1, <1>2, <2>1 DEF DInv, MarksAreRight
<1>7. SequentialIsOneByOne'
  BY <1>1 DEF DInv, SequentialIsOneByOne
<1>8. NothingLeftBehind' /\ (result' = "ok" => executed' = Nodes)
  BY <1>1 DEF DInv, NothingLeftBehind, SequentialIsOneByOne, WaveIsFresh
<1>9. InputsAreComplete'
  BY <1>1, <1>2 DEF DInv, InputsAreComplete
<1> QED BY <1>3, <1>4, <1>5, <1>6, <1>7, <1>8, <1>9 DEF DInv

\* A node at work is unmarked, so no node that it leads to has been started.
LEMMA NoSuccessorStarted ==
  ASSUME DInv, NEW n \in busy, NEW m \in Nodes, n \in Preds(m)
  PROVE  ran[m] = 0
<1>1. n \notin executed
  BY DEF DInv, WaveIsFresh
<1>2. ~(ran[m] > 0)
  BY <1>1 DEF DInv, StartedIsSettled
<1> QED BY <1>2 DEF DInv, TypeOK

LEMMA FinishKeeps == ASSUME DInv, NEW n \in Nodes, Finish(n) PROVE DInv'
<1>1. PICK o \in {"nil", Any} \cup Ports :
        /\ n \in busy /\ busy' = busy \ {n}
        /\ output' = [output EXCEPT ![n] = o]
        /\ executed' = executed \cup {n} \cup Deselects(n, o)
        /\ UNCHANGED <<graph, executor, order, wave, ran, input, failed, result>>
  BY DEF Finish
<1>2. n \notin executed /\ ran[n] = 1 /\ output[n] = "unset"
  BY <1>1 DEF DInv, WaveIsFresh, OutputsAreMarked
<1>3. /\ Deselects(n, o) \subseteq Nodes
      /\ \A m \in Deselects(n, o) : n \in Preds(m) /\ ran[m] = 0
  <2>1. /\ Deselects(n, o) \subseteq Nodes
        /\ \A m \in Deselects(n, o) : n \in Preds(m)
    BY DeselectedAreNodes DEF DInv, TypeOK
  <2> QED BY <2>1, <1>1, NoSuccessorStarted
<1>4. output'[n] = o /\ \A m \in Nodes : m # n => output'[m] = output[m]
  BY <1>1 DEF DInv, TypeOK
<1>5. \A m \in Nodes : Preds(m)' = Preds(m) /\ Preds(m) \subseteq Nodes
  <2>1. \A m \in Nodes : Preds(m) \subseteq Nodes
    BY PredsAreNodes DEF DInv, TypeOK
  <2> QED BY <1>1, <2>1 DEF Preds
<1>6. \A m \in Nodes : Deselected(m)' <=> Deselected(m) \/ m \in Deselects(n, o)
  <2> SUFFICES ASSUME NEW m \in Nodes
               PROVE  Deselected(m)' <=> Deselected(m) \/ m \in Deselects(n, o)
    OBVIOUS
  <2>0. \A e \in graph : e[1] \in Nodes
    BY DEF DInv, TypeOK
  <2>1. ASSUME Deselected(m)' PROVE Deselected(m) \/ m \in Deselects(n, o)
    <3>1. PICK e \in graph : /\ e[3] = m /\ ran[e[1]] > 0
                             /\ output'[e[1]] \in Ports /\ e[2] \notin {Any, output'[e[1]]}
      BY <1>1, <2>1 DEF Deselected
    <3>2. CASE e[1] = n
      BY <3>1, <3>2, <1>4 DEF Deselects
    <3>3. CASE e[1] # n
      BY <3>1, <3>3, <2>0, <1>4 DEF Deselected
    <3> QED BY <3>2, <3>3
  <2>2. ASSUME Deselected(m) PROVE Deselected(m)'
    <3>1. PICK e \in graph : /\ e[3] = m /\ ran[e[1]] > 0
                             /\ output[e[1]] \in Ports /\ e[2] \notin {Any, output[e[1]]}
      BY <2>2 DEF Deselected
    <3>2. e[1] # n
      BY <3>1, <1>2, UnmarkedDeselectsNone
    <3> QED BY <3>1, <3>2, <2>0, <1>1, <1>4 DEF Deselected
  <2>3. ASSUME m \in Deselects(n, o) PROVE Deselected(m)'
    <3>1. PICK e \in graph : e[3] = m /\ e[1] = n /\ o \in Ports /\ e[2] \notin {Any, o}
      BY <2>3 DEF Deselects
    <3> QED BY <3>1, <1>1, <1>2, <1>4 DEF Deselected
  <2> QED BY <2>1, <2>2, <2>3
<1>7. TypeOK' /\ graph' \in Graphs
  <2>1. output' \in [Nodes -> {"unset", "nil", Any} \cup Ports]
    BY <1>1 DEF DInv, TypeOK
  <2> QED BY <1>1, <1>3, <2>1 DEF DInv, TypeOK
<1>8. WaveIsFresh'
  <2>1. wave \subseteq Nodes /\ busy \subseteq Nodes
    BY DEF DInv, TypeOK
  <2>2. \A m \in wave : n \notin Preds(m) /\ m # n
    BY <1>1, <1>2 DEF DInv, WaveIsFresh
  <2>3. \A m \in busy : n \notin Preds(m)
    <3> SUFFICES ASSUME NEW m \in busy, n \in Preds(m) PROVE FALSE
      OBVIOUS
    <3>1. ran[m] = 0
      BY <2>1, <1>1, NoSuccessorStarted
    <3> QED BY <3>1 DEF DInv, WaveIsFresh
  <2>4. \A m \in wave \cup busy' : m \notin executed'
    BY <2>2, <2>3, <1>1, <1>3 DEF DInv, WaveIsFresh
  <2> QED BY <2>1, <2>4, <1>1, <1>5 DEF DInv, WaveIsFresh
<1>9. StartedIsSettled'
  BY <1>1, <1>5 DEF DInv, StartedIsSettled
<1>10. OutputsAreMarked'
  BY <1>1, <1>4 DEF DInv, OutputsAreMarked
<1>11. MarksAreRight'
  <2>1. ASSUME NEW m \in Nodes, Deselected(m)' PROVE m \in executed' /\ ran'[m] = 0
    BY <2>1, <1>1, <1>3, <1>6 DEF DInv, MarksAreRight
  <2>2. ASSUME NEW m \in executed', ran'[m] = 0 PROVE Deselected(m)'
    <3>1. m \in Nodes /\ m # n
      BY <2>2, <1>1, <1>2, <1>7 DEF TypeOK
    <3>2. m \in executed \cup Deselects(n, o)
      BY <3>1, <2>2, <1>1
    <3>3. m \in executed => Deselected(m)
      BY <2>2, <1>1 DEF DInv, MarksAreRight
    <3> QED BY <3>1, <3>2, <3>3, <1>6
  <2> QED BY <2>1, <2>2 DEF MarksAreRight
<1>12. SequentialIsOneByOne'
  BY <1>1 DEF DInv, SequentialIsOneByOne
<1>13. NothingLeftBehind' /\ (result' = "ok" => executed' = Nodes)
  BY <1>1 DEF DInv, NothingLeftBehind
<1>14. InputsAreComplete'
  <2> SUFFICES ASSUME NEW m \in Nodes, ran[m] > 0 PROVE Given(m)' = Given(m)
    BY <1>1 DEF DInv, InputsAreComplete
  <2>1. n \notin Preds(m)
    BY <1>1, NoSuccessorStarted
  <2>2. \A k \in Preds(m) : output'[k] = output[k]
    BY <2>1, <1>4, <1>5
  <2> QED BY <2>2, <1>5 DEF Given
<1> QED BY <1>7, <1>8, <1>9, <1>10, <1>11, <1>12, <1>13, <1>14 DEF DInv

----------------------------------------------------------------------------
(* The invariant and what follows from it.                                 *)

LEMMA IdlingKeeps == ASSUME DInv, UNCHANGED vars PROVE DInv'
<1>1. UNCHANGED <<graph, executor, order, wave, busy, executed, output, ran, input, failed, result>>
  BY DEF vars
<1>2. \A m \in Nodes : Preds(m)' = Preds(m)
  BY <1>1 DEF Preds
<1>3. TypeOK' /\ graph' \in Graphs
  BY <1>1 DEF DInv, TypeOK
<1>4. WaveIsFresh'
  <2>1. wave \subseteq Nodes
    BY DEF DInv, TypeOK
  <2> QED BY <1>1, <1>2, <2>1 DEF DInv, WaveIsFresh
<1>5. /\ SequentialIsOneByOne' /\ NothingLeftBehind'
      /\ result' = "ok" => executed' = Nodes
  BY <1>1 DEF DInv, SequentialIsOneByOne, NothingLeftBehind
<1>6. StartedIsSettled' /\ OutputsAreMarked' /\ MarksAreRight' /\ InputsAreComplete'
  BY <1>1, ChoosingKeepsMarks
<1> QED BY <1>3, <1>4, <1>5, <1>6 DEF DInv

LEMMA StepKeeps == ASSUME DInv, [Next]_vars PROVE DInv'
<1>1. CASE BeginWave
  BY <1>1, BeginWaveKeeps
<1>2. CASE Return
  BY <1>2, ReturnKeeps
<1>3. CASE \E n \in Nodes : Visit(n) \/ Start(n) \/ Finish(n) \/ Fail(n)
  BY <1>3, VisitKeeps, StartKeeps, FinishKeeps, FailKeeps
<1>4. CASE UNCHANGED vars
  BY <1>4, IdlingKeeps
<1> QED BY <1>1, <1>2, <1>3, <1>4 DEF Next

LEMMA DInvHolds == Spec => []DInv
<1>1. Init => DInv
  BY InitDInv
<1>2. DInv /\ [Next]_vars => DInv'
  BY StepKeeps
<1> QED BY <1>1, <1>2, PTL DEF Spec

\* Whatever the graph, a node is started at most once, and every port, output
\* and mark is of its kind.
THEOREM TypeCorrect == Spec => []TypeOK
<1>1. DInv => TypeOK
  BY DEF DInv
<1> QED BY <1>1, DInvHolds, PTL

\* resolveInputs reads the outputs while other nodes of the wave return; it
\* still gives a node the output of each predecessor that ever has one.
THEOREM InputsAreFinal == Spec => []InputsAreComplete
<1>1. DInv => InputsAreComplete
  BY DEF DInv
<1> QED BY <1>1, DInvHolds, PTL

\* Which nodes a successful Execute has run is decided by the ports they
\* selected: it is the same for both executors and for every schedule.
THEOREM OutputsDecide == Spec => []RunsAllButDeselected
<1>1. ASSUME DInv PROVE RunsAllButDeselected
  <2>1. ASSUME NEW n \in executed PROVE ran[n] > 0 <=> ~Deselected(n)
    <3>1. n \in Nodes /\ ran[n] \in 0..1
      BY <1>1 DEF DInv, TypeOK
    <3>2. ran[n] = 0 <=> Deselected(n)
      BY <1>1, <3>1 DEF DInv, MarksAreRight
    <3> QED BY <3>1, <3>2
  <2>2. result = "ok" => executed = Nodes
    BY <1>1 DEF DInv
  <2> QED BY <2>1, <2>2 DEF RunsAllButDeselected
<1> QED BY <1>1, DInvHolds, PTL

\* Execute never returns while a goroutine of its last wave is still to run or
\* at work, it reports an error exactly if a node failed, and after the first
\* failure no node comes into a wave.
THEOREM EndsOrderly == Spec => EndsInOrder
<1>1. ASSUME DInv, [Next]_vars PROVE failed # {} => wave' \subseteq wave
  <2> SUFFICES ASSUME failed # {} PROVE wave' \subseteq wave
    OBVIOUS
  <2>1. ~BeginWave
    BY DEF BeginWave
  <2>2. ASSUME NEW n \in Nodes, Visit(n) PROVE FALSE
    <3>1. result = "error"
      BY <1>1, <2>2 DEF DInv, SequentialIsOneByOne, Visit
    <3> QED BY <3>1, <2>2 DEF Visit, Between
  <2>3. CASE Return
    BY <2>3 DEF Return
  <2>4. ASSUME NEW n \in Nodes, Start(n) \/ Finish(n) \/ Fail(n) PROVE wave' \subseteq wave
    BY <2>4 DEF Start, Finish, Fail
  <2>5. CASE UNCHANGED vars
    BY <2>5 DEF vars
  <2> QED BY <1>1, <2>1, <2>2, <2>3, <2>4, <2>5 DEF Next
<1>2. DInv /\ [Next]_vars => [failed # {} => wave' \subseteq wave]_vars
  BY <1>1
<1>3. DInv => NothingLeftBehind
  BY DEF DInv
<1> QED BY <1>2, <1>3, DInvHolds, PTL DEF Spec, EndsInOrder

----------------------------------------------------------------------------
(* Executions of nodes may be taken for single steps.                      *)

LEMMA SerialPreds == \A n : Serial!Before(n) = Preds(n)
BY DEF Serial!Before, Preds

\* A node that has not returned is unmarked or passed over, and has no output.
LEMMA NotReturned ==
  ASSUME DInv, NEW n \in Nodes, n \notin executed
  PROVE  output[n] = "unset"
BY DEF DInv, OutputsAreMarked

\* A node at work is due: nothing that it waits for is open.
LEMMA AtWorkIsDue ==
  ASSUME DInv, NEW n \in busy, n \notin failed, result = "none"
  PROVE  n \in Nodes /\ n \notin executed /\ Serial!Due(n)
<1>1. n \in Nodes /\ ran[n] > 0 /\ n \notin executed
  BY DEF DInv, TypeOK, WaveIsFresh
<1>2. Preds(n) \subseteq executed
  BY <1>1 DEF DInv, StartedIsSettled
<1> QED BY <1>1, <1>2, SerialPreds DEF Serial!Due

\* A node that has failed is not at work.
FailedIsOver == \A n \in busy : n \notin failed

LEMMA FailedStaysOver == ASSUME DInv, FailedIsOver, [Next]_vars PROVE FailedIsOver'
<1>1. CASE BeginWave \/ Return \/ UNCHANGED vars
  BY <1>1 DEF BeginWave, Return, vars, FailedIsOver
<1>2. ASSUME NEW n \in Nodes, Visit(n) \/ Finish(n) \/ Fail(n) PROVE FailedIsOver'
  BY <1>2 DEF Visit, Finish, Fail, FailedIsOver
<1>3. ASSUME NEW n \in Nodes, Start(n) PROVE FailedIsOver'
  BY <1>3 DEF Start, FailedIsOver, DInv, WaveIsFresh
<1> QED BY <1>1, <1>2, <1>3 DEF Next

LEMMA FinishIsExecute ==
  ASSUME DInv, FailedIsOver, NEW n \in Nodes, Finish(n) PROVE Serial!Next
<1>1. PICK o \in {"nil", Any} \cup Ports :
        /\ n \in busy
        /\ output' = [output EXCEPT ![n] = o]
        /\ executed' = executed \cup {n} \cup Deselects(n, o)
        /\ UNCHANGED <<graph, input, failed, result>>
  BY DEF Finish
<1>2. n \notin failed /\ result = "none"
  BY <1>1 DEF FailedIsOver, DInv, NothingLeftBehind, TypeOK
<1>3. n \notin executed /\ Serial!Due(n)
  BY <1>1, <1>2, AtWorkIsDue
<1>4. Deselects(n, o) = IF o \in Ports THEN Serial!PassedOver(n, o) ELSE {}
  BY DEF Deselects, Serial!PassedOver
<1>5. input[n] = Given(n)
  BY <1>1 DEF DInv, InputsAreComplete, WaveIsFresh
<1>6. o # "unset" /\ output \in [Nodes -> {"unset", "nil", Any} \cup Ports]
  BY LabelsAssumption DEF DInv, TypeOK
<1>7. GivenWhenDone' = [GivenWhenDone EXCEPT ![n] = Given(n)]
  <2>1. output'[n] = o /\ \A m \in Nodes : m # n => output'[m] = output[m]
    BY <1>1, <1>6
  <2> QED BY <1>1, <1>5, <1>6, <2>1 DEF GivenWhenDone
<1>8. Given(n) = IF n = Entry THEN {} ELSE {m \in Serial!Before(n) : output[m] \notin {"unset", "nil"}}
  BY SerialPreds DEF Given
<1>9. Serial!Execute(n, o)
  BY <1>1, <1>3, <1>4, <1>7, <1>8 DEF Serial!Execute
<1> QED BY <1>9 DEF Serial!Next

LEMMA StepIsSerial ==
  ASSUME DInv, DInv', FailedIsOver, [Next]_vars PROVE [Serial!Next]_(Serial!vars)
<1>1. ASSUME UNCHANGED <<graph, executed, output, input, failed, result>>
      PROVE  UNCHANGED Serial!vars
  BY <1>1 DEF Serial!vars, GivenWhenDone
<1>2. CASE BeginWave \/ (\E n \in Nodes : Visit(n)) \/ UNCHANGED vars
  BY <1>1, <1>2 DEF BeginWave, Visit, vars
<1>3. ASSUME NEW n \in Nodes, Start(n) PROVE UNCHANGED Serial!vars
  <2>1. output[n] = "unset" /\ input' = [input EXCEPT ![n] = Given(n)]
    BY <1>3, NotReturned DEF Start, DInv, WaveIsFresh
  <2>2. \A m \in Nodes : m # n => input'[m] = input[m]
    BY <2>1 DEF DInv, TypeOK
  <2>3. UNCHANGED <<graph, executed, output, failed, result>>
    BY <1>3 DEF Start
  <2>4. GivenWhenDone' = GivenWhenDone
    BY <2>1, <2>2, <2>3 DEF GivenWhenDone
  <2> QED BY <2>3, <2>4 DEF Serial!vars
<1>4. ASSUME NEW n \in Nodes, Fail(n) PROVE Serial!Next
  <2>1. /\ n \in busy /\ failed' = failed \cup {n}
        /\ result' = IF executor = "sequential" THEN "error" ELSE result
        /\ UNCHANGED <<graph, executed, output, input>>
    BY <1>4 DEF Fail
  <2>2. n \notin failed /\ result = "none"
    BY <2>1 DEF FailedIsOver, DInv, NothingLeftBehind, TypeOK
  <2>3. Serial!Due(n)
    BY <2>1, <2>2, AtWorkIsDue
  <2>4. GivenWhenDone' = GivenWhenDone
    BY <2>1 DEF GivenWhenDone
  <2>5. Serial!Fail(n)
    BY <2>1, <2>2, <2>3, <2>4 DEF Serial!Fail
  <2> QED BY <2>5 DEF Serial!Next
<1>5. CASE Return
  <2>1. /\ result = "none" /\ result' = IF failed = {} THEN "ok" ELSE "error"
        /\ UNCHANGED <<graph, executed, output, input, failed>>
    BY <1>5 DEF Return, Between
  <2>2. result' = "ok" => executed = Nodes
    BY <2>1 DEF DInv
  <2>3. GivenWhenDone' = GivenWhenDone
    BY <2>1 DEF GivenWhenDone
  <2>4. Serial!Return
    BY <2>1, <2>2, <2>3 DEF Serial!Return
  <2> QED BY <2>4 DEF Serial!Next
<1> QED BY <1>2, <1>3, <1>4, <1>5, FinishIsExecute DEF Next

\* Both executors, with any number of slots and however the goroutines of a wave
\* overlap, run a graph as if its nodes were executed one after the other.
THEOREM RunsAsSerial == Spec => SerialSpec
<1>1. Init => Serial!Init /\ FailedIsOver
  BY DEF Init, Serial!Init, GivenWhenDone, FailedIsOver
<1>2. DInv /\ FailedIsOver /\ [Next]_vars => FailedIsOver'
  BY FailedStaysOver
<1>3. DInv /\ DInv' /\ FailedIsOver /\ [Next]_vars => [Serial!Next]_(Serial!vars)
  BY StepIsSerial
<1>4. Spec => []FailedIsOver
  BY <1>1, <1>2, DInvHolds, PTL DEF Spec
<1> QED BY <1>1, <1>3, <1>4, DInvHolds, PTL DEF Spec, SerialSpec, Serial!Spec

----------------------------------------------------------------------------
(* That a run returns: it can always take a step, and it has finitely many *)
(* to take.  (Fairness does the rest, and is not reasoned about here.)     *)

\* The guards of Visit, BeginWave, Start, Finish and Fail, and Return.
CanStep ==
  \/ executor = "sequential" /\ Between /\ \E n \in Nodes : n \notin order /\ Preds(n) \subseteq order
  \/ executor = "parallel" /\ Between /\ failed = {} /\ \E n \in Nodes : Ready(n)
  \/ wave # {} /\ SlotFree
  \/ busy # {}
  \/ Between /\ executor = "sequential" /\ order = Nodes
  \/ Between /\ executor = "parallel" /\ (failed # {} \/ ~\E n \in Nodes : Ready(n))

\* Nodes that wait for a slot wait for nodes at work, and as long as a node is
\* not visited one of those left comes after visited ones only.
LEMMA NotStuck == ASSUME DInv, result = "none" PROVE CanStep
<1>1. CASE busy = {} /\ wave # {}
  <2>1. Cardinality(busy) = 0
    BY <1>1, FS_EmptySet
  <2> QED BY <1>1, <2>1, OptionsAssumption DEF CanStep, SlotFree
<1>2. CASE Between /\ executor = "sequential" /\ order # Nodes
  <2> DEFINE S == Nodes \ order
  <2>1. S \in (SUBSET Nodes) \ {{}}
    BY <1>2 DEF DInv, TypeOK
  <2>2. PICK n \in S : \A e \in graph : e[3] = n => e[1] \notin S
    BY <2>1, GraphsAssumption DEF DInv
  <2>3. Preds(n) \subseteq order
    BY <2>2, PredsAreNodes DEF DInv, TypeOK, Preds
  <2> QED BY <1>2, <2>2, <2>3 DEF CanStep
<1>3. executor \in {"sequential", "parallel"}
  BY OptionsAssumption DEF DInv, TypeOK
<1> QED BY <1>1, <1>2, <1>3 DEF CanStep, Between

\* Neither executor ever waits for itself: a run that has not returned has a
\* node to choose, to start or to wait for, or returns.
THEOREM NeverStuck == Spec => [](result = "none" => CanStep)
<1>1. DInv => (result = "none" => CanStep)
  BY NotStuck
<1> QED BY DInvHolds, <1>1, PTL

\* What a run has left to do: nodes to visit, to choose for a wave, to start and
\* to wait for, and to return.
Todo ==
  ({"visit"} \X (Nodes \ order))
    \cup ({"choose"} \X {n \in Nodes \ wave : ran[n] = 0})
    \cup ({"start"} \X {n \in Nodes : ran[n] = 0})
    \cup ({"wait"} \X {n \in Nodes : ran[n] = 0 \/ n \in busy})
    \cup ({"return"} \X {n \in {Entry} : result = "none"})

Decreases == Todo' \subseteq Todo /\ Todo' # Todo

LEMMA TodoIsFinite == IsFiniteSet(Todo)
<1>1. \A t, S : S \subseteq Nodes => IsFiniteSet({t} \X S)
  BY NodesAssumption, FS_Singleton, FS_Subset, FS_Product
<1>2. /\ IsFiniteSet({"visit"} \X (Nodes \ order))
      /\ IsFiniteSet({"choose"} \X {n \in Nodes \ wave : ran[n] = 0})
      /\ IsFiniteSet({"start"} \X {n \in Nodes : ran[n] = 0})
      /\ IsFiniteSet({"wait"} \X {n \in Nodes : ran[n] = 0 \/ n \in busy})
      /\ IsFiniteSet({"return"} \X {n \in {Entry} : result = "none"})
  BY <1>1, NodesAssumption
<1>3. \A S, T : IsFiniteSet(S) /\ IsFiniteSet(T) => IsFiniteSet(S \cup T)
  BY FS_Union
<1> QED BY <1>2, <1>3 DEF Todo

\* What is left becomes less if each part of it shrinks, and one loses x.
LEMMA Shrinks ==
  ASSUME DInv,
         order \subseteq order',
         \A n \in Nodes : ran'[n] = 0 => ran[n] = 0,
         \A n \in Nodes : ran'[n] = 0 /\ n \notin wave' => n \notin wave,
         \A n \in Nodes : n \in busy' => n \in busy \/ ran[n] = 0,
         result # "none" => result' # "none",
         NEW x \in Todo, x \notin Todo'
  PROVE  Decreases
<1>1. Todo' \subseteq Todo
  BY DEF Todo
<1> QED BY <1>1 DEF Decreases

LEMMA StepDecreases == ASSUME DInv, Next PROVE Decreases
<1> USE DEF Todo
<1>1. \A n \in Nodes : ran[n] \in 0..1
  BY DEF DInv, TypeOK
<1>2. CASE BeginWave
  <2>1. PICK n \in Nodes : Ready(n)
    BY <1>2 DEF BeginWave
  <2>2. ran[n] = 0 /\ n \notin wave
    BY <1>2, <2>1, ReadyIsNew DEF BeginWave, Between
  <2>3. <<"choose", n>> \in Todo /\ <<"choose", n>> \notin Todo'
    BY <1>2, <2>1, <2>2 DEF BeginWave
  <2> QED BY <1>2, <2>3, Shrinks DEF BeginWave, Between
<1>3. CASE Return
  <2>1. <<"return", Entry>> \in Todo /\ <<"return", Entry>> \notin Todo'
    BY <1>3, NodesAssumption DEF Return, Between
  <2> QED BY <1>3, <2>1, Shrinks DEF Return, Between
<1>4. ASSUME NEW n \in Nodes, Visit(n) PROVE Decreases
  <2>1. <<"visit", n>> \in Todo /\ <<"visit", n>> \notin Todo'
    BY <1>4 DEF Visit
  <2> QED BY <1>4, <2>1, Shrinks DEF Visit, Between
<1>5. ASSUME NEW n \in Nodes, Start(n) PROVE Decreases
  <2>1. ran[n] = 0 /\ ran'[n] = 1 /\ \A m \in Nodes : m # n => ran'[m] = ran[m]
    BY <1>5 DEF Start, DInv, WaveIsFresh, TypeOK
  <2>2. <<"start", n>> \in Todo /\ <<"start", n>> \notin Todo'
    BY <2>1
  <2> QED BY <1>5, <2>1, <2>2, Shrinks DEF Start
<1>6. ASSUME NEW n \in Nodes, n \in busy, busy' = busy \ {n},
             result # "none" => result' # "none", UNCHANGED <<order, wave, ran>>
      PROVE  Decreases
  <2>1. ran[n] # 0
    BY <1>6 DEF DInv, WaveIsFresh
  <2>2. <<"wait", n>> \in Todo /\ <<"wait", n>> \notin Todo'
    BY <1>6, <2>1
  <2> QED BY <1>6, <2>2, Shrinks
<1>7. ASSUME NEW n \in Nodes, Finish(n) \/ Fail(n) PROVE Decreases
  BY <1>6, <1>7 DEF Finish, Fail
<1> QED BY <1>2, <1>3, <1>4, <1>5, <1>7 DEF Next

\* A run has finitely many steps: each one takes something from what is left to
\* do, which is finite.
THEOREM StepsRunOut == Spec => []IsFiniteSet(Todo) /\ [][Decreases]_vars
<1>1. DInv /\ [Next]_vars => [Decreases]_vars
  BY StepDecreases
<1> QED BY DInvHolds, TodoIsFinite, <1>1, PTL DEF Spec
=============================================================================
