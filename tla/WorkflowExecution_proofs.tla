---------------------- MODULE WorkflowExecution_proofs ----------------------
(***************************************************************************)
(* Proofs about WorkflowExecution, for any workflow and any number of      *)
(* requests to resume and to cancel.  First the row alone: what its        *)
(* conditional updates are worth, whatever becomes of the list.  Then the  *)
(* types, and last the list, as long as no request has taken an event that *)
(* was not open and no handler has lost its way.                           *)
(***************************************************************************)
EXTENDS WorkflowExecution, FiniteSetTheorems, FunctionTheorems, SequenceTheorems, TLAPS

RowType ==
  /\ status \in Status
  /\ run \in [Runs -> RunPC]
  /\ cancel \in [Cancels -> CancelPC] /\ seen \in [Cancels -> Status]

\* A cancel that has taken the row leaves it cancelled; one that has read it
\* has read it open.
CancelsKnow ==
  \A c \in Cancels :
    /\ cancel[c] = "claimed" => status = "cancel"
    /\ cancel[c] \notin {"idle", "done"} => seen[c] \in Open

IInv == RowType /\ OneRunAtATime /\ CancelsKnow

\* What every step does to the row: it stays in its end unless a late cancel
\* has it cancelled.
KeepsEnd == status \in Ended => status' = status \/ CancelledLate

----------------------------------------------------------------------------
LEMMA InitInv == Init => IInv
  <1> SUFFICES ASSUME Init PROVE IInv
    OBVIOUS
  <1>1. RowType
    BY DEF Init, RowType, Status, Open, RunPC, Handling, CancelPC
  <1>2. OneRunAtATime
    BY DEF Init, OneRunAtATime
  <1>3. CancelsKnow
    BY DEF Init, CancelsKnow
  <1> QED
    BY <1>1, <1>2, <1>3 DEF IInv

\* A run that ends or stops, and writes the row if it is still running.
LEMMA RunLeaves ==
  ASSUME IInv, NEW r \in Runs, run[r] = "running",
         NEW p \in RunPC \ {"running"}, To(r, p), UNCHANGED cancels,
         NEW new \in Status, UpdateWorkflowExecution(new, {"running"})
  PROVE  IInv' /\ KeepsEnd
  <1> USE DEF IInv, RowType, Status, Open, Ended
  <1>1. RowType'
    BY DEF To, UpdateWorkflowExecution, row, cancels
  <1>2. OneRunAtATime'
    <2>1. \A o \in Runs : run'[o] # "running"
      BY DEF To, OneRunAtATime
    <2> QED
      BY <2>1 DEF OneRunAtATime
  <1>3. CancelsKnow' /\ KeepsEnd
    BY DEF UpdateWorkflowExecution, row, cancels, CancelsKnow, KeepsEnd
  <1> QED
    BY <1>1, <1>2, <1>3

\* A step of a run or of a request that leaves the row alone and starts nothing.
LEMMA RowStays ==
  ASSUME IInv, UNCHANGED <<status, cancels>>, run' \in [Runs -> RunPC],
         \A r \in Runs : run'[r] = "running" => run[r] = "running"
  PROVE  IInv' /\ KeepsEnd
  BY DEF IInv, RowType, OneRunAtATime, CancelsKnow, KeepsEnd, cancels

LEMMA RunKeeps ==
  ASSUME IInv, NEW r \in Runs, RunStep(r) PROVE IInv' /\ KeepsEnd
  <1> USE DEF RunPC, Handling
  <1>0. run \in [Runs -> RunPC]
    BY DEF IInv, RowType
  <1>1. CASE NodeEnds(r) \/ NodeEndFails(r)
    BY <1>0, <1>1, RowStays DEF NodeEnds, NodeEndFails, row, runs
  <1>2. CASE PopOld(r) \/ SaveEvents(r) \/ StoreFails(r)
    BY <1>0, <1>2, RowStays DEF PopOld, SaveEvents, StoreFails, To, row
  <1>3. CASE Succeeds(r)
    BY <1>3, RunLeaves DEF Succeeds, Status, Ended
  <1>4. CASE Fails(r)
    BY <1>4, RunLeaves DEF Fails, Status, Ended
  <1>5. CASE NoticeCancel(r)
    BY <1>0, <1>5, RowStays DEF NoticeCancel, row
  <1>6. CASE Cancelled(r)
    <2>1. /\ status' = "cancel" /\ UNCHANGED cancels /\ run' = [run EXCEPT ![r] = "done"]
          /\ run[r] = "running"
      BY <1>6 DEF Cancelled, To
    <2>2. status \in {"running", "cancel"}
      BY <2>1 DEF IInv, OneRunAtATime
    <2> QED
      BY <2>1, <2>2
      DEF IInv, RowType, OneRunAtATime, CancelsKnow, KeepsEnd, Status, Ended, cancels
  <1>7. ASSUME NEW asking \in SUBSET Nodes, Interrupts(r, asking) PROVE IInv' /\ KeepsEnd
    <2>1. PICK p \in {"interrupted", "deaf"} : To(r, p)
      BY <1>7 DEF Interrupts
    <2> QED
      BY <1>7, <2>1, RunLeaves DEF Interrupts, Status, Open
  <1> QED
    BY <1>1, <1>2, <1>3, <1>4, <1>5, <1>6, <1>7 DEF RunStep

LEMMA ResumeKeeps ==
  ASSUME IInv, NEW r \in Runs, ResumeStep(r) PROVE IInv' /\ KeepsEnd
  <1> USE DEF RunPC, Handling
  <1>0. run \in [Runs -> RunPC]
    BY DEF IInv, RowType
  <1>1. ASSUME NEW e \in Events, ReadStatus(r, e) PROVE IInv' /\ KeepsEnd
    BY <1>0, <1>1, RowStays DEF ReadStatus, To, row
  <1>2. CASE GetFirst(r) \/ UpdateFirst(r)
    BY <1>0, <1>2, RowStays DEF GetFirst, UpdateFirst, To, row
  <1>3. CASE TryLock(r)
    <2>1. CASE Unlocked
      BY <1>3, <2>1
      DEF TryLock, Unlocked, To, IInv, RowType, OneRunAtATime, CancelsKnow, KeepsEnd,
          Status, Open, Ended, cancels
    <2>2. CASE ~Unlocked
      BY <1>0, <1>3, <2>2, RowStays DEF TryLock, To, row
    <2> QED
      BY <2>1, <2>2
  <1> QED
    BY <1>1, <1>2, <1>3 DEF ResumeStep

LEMMA CancelKeeps ==
  ASSUME IInv, NEW c \in Cancels, CancelStep(c) PROVE IInv' /\ KeepsEnd
  <1> USE DEF IInv, RowType, OneRunAtATime, CancelsKnow, KeepsEnd, Status, Open, Ended,
              CancelPC, CancelTo
  <1>1. CASE CancelRead(c)
    BY <1>1 DEF CancelRead, row, runs
  <1>2. CASE CancelTake(c)
    BY <1>2 DEF CancelTake, UpdateWorkflowExecution, row, runs
  <1>3. CASE CancelLook(c)
    BY <1>3 DEF CancelLook, row, runs
  <1>4. CASE CancelNodes(c)
    BY <1>4 DEF CancelNodes, CancelAllRunningNodes, CancelledLate, runs
  <1>5. CASE SetWorkflowCancelFlag(c)
    BY <1>5 DEF SetWorkflowCancelFlag, row, runs
  <1> QED
    BY <1>1, <1>2, <1>3, <1>4, <1>5 DEF CancelStep

LEMMA NextKeeps == IInv /\ [Next]_vars => IInv' /\ KeepsEnd
  <1> SUFFICES ASSUME IInv, [Next]_vars PROVE IInv' /\ KeepsEnd
    OBVIOUS
  <1>1. CASE UNCHANGED vars
    BY <1>1, RowStays DEF vars, row, runs, IInv, RowType
  <1> QED
    BY <1>1, RunKeeps, ResumeKeeps, CancelKeeps DEF Next

----------------------------------------------------------------------------
LEMMA Invariant == Spec => []IInv
  BY InitInv, NextKeeps, PTL DEF Spec

\* Whatever requests overlap, the lock lets one run at a time have the graph,
\* and while it runs the row is running, or a cancel has written it.
THEOREM RunsAlone == Spec => []OneRunAtATime
  <1>1. IInv => OneRunAtATime
    BY DEF IInv
  <1> QED
    BY Invariant, <1>1, PTL

\* An end is overwritten by nothing but a cancel that read the row open.
THEOREM EndsForGood == Spec => EndIsFinal
  <1>1. IInv /\ [Next]_vars => [(status \in Ended) => (status' = status \/ CancelledLate)]_vars
    BY NextKeeps DEF KeepsEnd
  <1> QED
    BY Invariant, <1>1, PTL DEF Spec, EndIsFinal

----------------------------------------------------------------------------
(* That a cancel takes effect: it leaves something that will end the run.  *)

\* A row that says running has a run behind it, and what a request to cancel has
\* done so far stands.
CancelInv ==
  /\ status = "running" => \E r \in Runs : run[r] = "running"
  /\ \A c \in Cancels : cancel[c] = "done" => status \in Ended \/ flag

LEMMA RunLeavesCancel ==
  ASSUME IInv, CancelInv, NEW r \in Runs, RunStep(r) PROVE CancelInv'
  <1> USE DEF CancelInv, Ended, To, UpdateWorkflowExecution, row, redis, runs, cancels
  <1>0. run \in [Runs -> RunPC]
    BY DEF IInv, RowType
  <1>1. CASE NodeEnds(r) \/ NodeEndFails(r) \/ NoticeCancel(r)
    BY <1>1 DEF NodeEnds, NodeEndFails, NoticeCancel
  <1>2. CASE PopOld(r) \/ SaveEvents(r) \/ StoreFails(r)
    BY <1>0, <1>2 DEF PopOld, SaveEvents, StoreFails, Handling
  <1>3. CASE Succeeds(r) \/ Fails(r) \/ Cancelled(r)
    BY <1>0, <1>3 DEF Succeeds, Fails, Cancelled
  <1>4. ASSUME NEW asking \in SUBSET Nodes, Interrupts(r, asking) PROVE CancelInv'
    BY <1>0, <1>4 DEF Interrupts
  <1> QED
    BY <1>1, <1>2, <1>3, <1>4 DEF RunStep

LEMMA RequestLeavesCancel ==
  ASSUME IInv, CancelInv, NEW r \in Runs, ResumeStep(r) PROVE CancelInv'
  <1> USE DEF CancelInv, To, row, redis, cancels
  <1>0. run \in [Runs -> RunPC]
    BY DEF IInv, RowType
  <1>1. ASSUME NEW e \in Events, ReadStatus(r, e) PROVE CancelInv'
    BY <1>0, <1>1 DEF ReadStatus
  <1>2. CASE GetFirst(r) \/ UpdateFirst(r)
    BY <1>0, <1>2 DEF GetFirst, UpdateFirst
  <1>3. CASE TryLock(r)
    BY <1>0, <1>3 DEF TryLock, Unlocked, Ended
  <1> QED
    BY <1>1, <1>2, <1>3 DEF ResumeStep

LEMMA CancelGoesOn ==
  ASSUME IInv, CancelInv, NEW c \in Cancels, CancelStep(c) PROVE CancelInv'
  <1> USE DEF CancelInv, IInv, RowType, CancelPC, CancelTo, Status, Open, Ended, row, redis, runs
  <1>1. CASE CancelRead(c)
    BY <1>1 DEF CancelRead
  <1>2. CASE CancelTake(c)
    BY <1>2 DEF CancelTake, UpdateWorkflowExecution
  <1>3. CASE CancelLook(c)
    BY <1>3 DEF CancelLook
  <1>4. CASE CancelNodes(c)
    BY <1>4 DEF CancelNodes, CancelAllRunningNodes
  <1>5. CASE SetWorkflowCancelFlag(c)
    BY <1>5 DEF SetWorkflowCancelFlag
  <1> QED
    BY <1>1, <1>2, <1>3, <1>4, <1>5 DEF CancelStep

\* No request to cancel is lost between row, flag and run: when it has returned,
\* the execution has ended, or the flag is set and either a run is under way that
\* will see it, or the next one will.
THEOREM NoCancelIsLost ==
  Spec => [](\A c \in Cancels : cancel[c] = "done" =>
               \/ status \in Ended
               \/ flag /\ (status = "interrupted" \/ \E r \in Runs : run[r] = "running"))
  <1>1. Init => CancelInv
    BY FirstAssumption DEF Init, CancelInv
  <1>2. IInv /\ CancelInv /\ [Next]_vars => CancelInv'
    <2> SUFFICES ASSUME IInv, CancelInv, [Next]_vars PROVE CancelInv'
      OBVIOUS
    <2>1. CASE UNCHANGED vars
      BY <2>1 DEF vars, row, redis, runs, cancels, CancelInv
    <2> QED
      BY <2>1, RunLeavesCancel, RequestLeavesCancel, CancelGoesOn DEF Next
  <1>3. IInv /\ CancelInv =>
          \A c \in Cancels : cancel[c] = "done" =>
            \/ status \in Ended
            \/ flag /\ (status = "interrupted" \/ \E r \in Runs : run[r] = "running")
    BY DEF IInv, RowType, CancelInv, Status, Open
  <1> QED
    BY Invariant, <1>1, <1>2, <1>3, PTL DEF Spec

----------------------------------------------------------------------------
(* Types.                                                                  *)

\* An event is known to a request from its first step on, a node that has asked
\* was reached, and one whose event could not be popped is through.
EventInv ==
  /\ \A r \in Runs : run[r] \in {"read", "found", "noted"} => event[r] # 0
  /\ \A e \in Events : stage[asked[e]] # "ahead"
  /\ \A e \in left : stage[asked[e]] = "through"

TInv == TypeOK /\ EventInv

LEMMA SeqGrows ==
  ASSUME NEW S, NEW T, S \subseteq T, NEW q \in Seq(S) PROVE q \in Seq(T)
  OBVIOUS

\* An enumeration of a finite set without repetition.
LEMMA Enumeration ==
  ASSUME NEW S, IsFiniteSet(S), NEW q \in SetToSeqs(S)
  PROVE  /\ q \in Seq(S) /\ Len(q) \in Nat
         /\ \A i \in 1 .. Len(q) : q[i] \in S
         /\ \A x \in S : \E i \in 1 .. Len(q) : q[i] = x
         /\ \A i, j \in 1 .. Len(q) : q[i] = q[j] => i = j
  <1> DEFINE D == 1 .. Cardinality(S)
  <1>1. Cardinality(S) \in Nat
    BY FS_CardinalityType
  <1>2. q \in [D -> S] /\ \A i, j \in D : i # j => q[i] # q[j]
    BY DEF SetToSeqs
  <1>3. q \in Injection(D, S)
    BY <1>2 DEF Injection, IsInjective
  <1>4. IsFiniteSet(D) /\ Cardinality(D) = Cardinality(S)
    BY <1>1, FS_Interval
  <1>5. q \in Surjection(D, S)
    BY <1>3, <1>4, FS_Injection
  <1>6. q \in Seq(S) /\ DOMAIN q = D /\ Len(q) = Cardinality(S)
    BY <1>1, <1>2
  <1> QED
    BY <1>2, <1>5, <1>6 DEF Surjection

LEMMA FiniteEvents ==
  ASSUME TypeOK, NEW S \in SUBSET Events PROVE IsFiniteSet(S)
  <1>1. IsFiniteSet(1 .. Len(asked))
    BY FS_Interval DEF TypeOK
  <1> QED
    BY <1>1, FS_Subset DEF Events

\* Who asks when a run stops.
Askers(r, asking) == asking \cup AsksAnew(r)

LEMMA AskersAreNodes ==
  ASSUME NEW r \in Runs, NEW asking \in SUBSET Nodes
  PROVE  Askers(r, asking) \subseteq Nodes /\ IsFiniteSet(Askers(r, asking))
  BY NodesAssumption, FS_Subset DEF Askers, AsksAnew

\* Each of them gets one new event, and no old event changes.
LEMMA Raised ==
  ASSUME TypeOK, NEW r \in Runs, NEW asking \in SUBSET Nodes, Interrupts(r, asking)
  PROVE  /\ asked' \in Seq(Nodes) /\ Len(asked') \in Nat /\ Len(asked) <= Len(asked')
         /\ \A e \in Events : asked'[e] = asked[e]
         /\ emit' = [emit EXCEPT ![r] = (Len(asked) + 1) .. Len(asked')]
         /\ \A e \in emit'[r] : asked'[e] \in Askers(r, asking)
         /\ \A n \in Askers(r, asking) : \E e \in emit'[r] : asked'[e] = n
         /\ \A d, e \in emit'[r] : asked'[d] = asked'[e] => d = e
  <1>1. PICK order \in SetToSeqs(Askers(r, asking)) :
          /\ asked' = asked \o order
          /\ emit' = [emit EXCEPT ![r] = (Len(asked) + 1) .. Len(asked')]
    BY DEF Interrupts, Askers
  <1> DEFINE A == Askers(r, asking)
             R == (Len(asked) + 1) .. Len(asked')
  <1>2. /\ order \in Seq(A) /\ A \subseteq Nodes
        /\ \A i \in 1 .. Len(order) : order[i] \in A
        /\ \A x \in A : \E i \in 1 .. Len(order) : order[i] = x
        /\ \A i, j \in 1 .. Len(order) : order[i] = order[j] => i = j
    BY AskersAreNodes, Enumeration
  <1>3. order \in Seq(Nodes)
    BY <1>2, SeqGrows
  <1>4. asked \in Seq(Nodes) /\ Len(asked) \in Nat /\ Len(order) \in Nat
    BY <1>3 DEF TypeOK
  <1>5. /\ asked' \in Seq(Nodes) /\ Len(asked') = Len(asked) + Len(order)
        /\ \A i \in 1 .. Len(asked) + Len(order) :
             asked'[i] = IF i <= Len(asked) THEN asked[i] ELSE order[i - Len(asked)]
    BY <1>1, <1>3, <1>4, ConcatProperties
  <1>6. emit'[r] = R
    BY <1>1 DEF TypeOK
  <1>7. \A e \in R : /\ e - Len(asked) \in 1 .. Len(order)
                     /\ asked'[e] = order[e - Len(asked)]
    BY <1>4, <1>5
  <1>8. \A e \in R : asked'[e] \in A
    BY <1>2, <1>4, <1>7
  <1>9. ASSUME NEW n \in A PROVE \E e \in R : asked'[e] = n
    <2>1. PICK i \in 1 .. Len(order) : order[i] = n
      BY <1>2
    <2>2. Len(asked) + i \in R /\ (Len(asked) + i) - Len(asked) = i
      BY <1>4, <1>5
    <2> QED
      BY <1>7, <2>1, <2>2
  <1>10. ASSUME NEW d \in R, NEW e \in R, asked'[d] = asked'[e] PROVE d = e
    <2>1. d - Len(asked) = e - Len(asked)
      BY <1>2, <1>7, <1>10
    <2> QED
      BY <1>4, <1>5, <2>1
  <1>11. \A e \in Events : asked'[e] = asked[e]
    BY <1>4, <1>5 DEF Events
  <1>12. Len(asked') \in Nat /\ Len(asked) <= Len(asked')
    BY <1>4, <1>5
  <1> QED
    BY <1>1, <1>5, <1>6, <1>8, <1>9, <1>10, <1>11, <1>12

LEMMA InitTyped == Init => TInv
  <1> SUFFICES ASSUME Init PROVE TInv
    OBVIOUS
  <1>0. <<>> \in Seq(Nodes) /\ <<>> \in Seq(Events) /\ Len(asked) = 0
    BY DEF Init
  <1>1. TypeOK
    <2>1. /\ status \in Status /\ run \in [Runs -> RunPC] /\ emit \in [Runs -> SUBSET Events]
          /\ cancel \in [Cancels -> CancelPC] /\ seen \in [Cancels -> Status]
      BY DEF Init, Status, Open, Ended, RunPC, Handling, CancelPC
    <2>2. resuming \in 0 .. Len(asked) /\ event \in [Runs -> 0 .. Len(asked)]
      BY <1>0 DEF Init
    <2>3. /\ list \in Seq(Events) /\ asked \in Seq(Nodes) /\ ctx \subseteq Runs
          /\ previous \in Nodes \cup {None} /\ flag \in BOOLEAN /\ stale \in BOOLEAN
          /\ left \subseteq Events
          /\ stage \in [Nodes -> {"ahead", "stopped", "through"}]
      BY <1>0 DEF Init
    <2> QED
      BY <2>1, <2>2, <2>3 DEF TypeOK
  <1>2. EventInv
    BY DEF Init, EventInv, Events
  <1> QED
    BY <1>1, <1>2 DEF TInv

\* Steps that raise no event.
LEMMA StayTyped ==
  ASSUME TInv, UNCHANGED asked,
         status' \in Status, resuming' \in 0 .. Len(asked),
         list' \in Seq(Events), previous' \in Nodes \cup {None}, flag' \in BOOLEAN,
         stage' \in [Nodes -> {"ahead", "stopped", "through"}],
         \A n \in Nodes : stage'[n] = "ahead" => stage[n] = "ahead",
         \A n \in Nodes : stage[n] = "through" => stage'[n] = "through",
         left' \subseteq Events, \A e \in left' \ left : stage'[asked[e]] = "through",
         run' \in [Runs -> RunPC], event' \in [Runs -> 0 .. Len(asked)],
         emit' \in [Runs -> SUBSET Events], ctx' \subseteq Runs,
         cancel' \in [Cancels -> CancelPC], seen' \in [Cancels -> Status],
         stale' \in BOOLEAN,
         \A r \in Runs : run'[r] \in {"read", "found", "noted"} => event'[r] # 0
  PROVE  TInv'
  <1>1. TypeOK'
    BY DEF TInv, TypeOK, Events
  <1>2. \A e \in Events : asked[e] \in Nodes
    BY DEF TInv, TypeOK, Events
  <1>3. EventInv'
    <2>1. \A e \in left' : asked[e] \in Nodes
      BY <1>2
    <2> QED
      BY <1>2, <2>1 DEF TInv, EventInv, Events
  <1> QED
    BY <1>1, <1>3 DEF TInv

\* A sequence that holds a list and the members of a set N, those only once.
Spliced(s, l, N) ==
  /\ \A k \in 1 .. Len(s) : s[k] \in N \/ \E i \in 1 .. Len(l) : s[k] = l[i]
  /\ \A i \in 1 .. Len(l) : \E k \in 1 .. Len(s) : s[k] = l[i]
  /\ \A x \in N : \E k \in 1 .. Len(s) : s[k] = x
  /\ \A j, k \in 1 .. Len(s) :
       \/ j = k
       \/ \E m, n \in 1 .. Len(l) : m # n /\ s[j] = l[m] /\ s[k] = l[n]
       \/ s[j] # s[k] /\ (s[j] \in N \/ s[k] \in N)

\* The elements of three sequences in a row.
LEMMA Joined ==
  ASSUME NEW E, NEW p \in Seq(E), NEW l \in Seq(E), NEW q \in Seq(E),
         NEW s, s = p \o l \o q
  PROVE  /\ s \in Seq(E) /\ Len(s) = Len(p) + Len(l) + Len(q)
         /\ \A k \in 1 .. Len(p) : s[k] = p[k]
         /\ \A k \in 1 .. Len(l) : s[Len(p) + k] = l[k]
         /\ \A k \in 1 .. Len(q) : s[Len(p) + Len(l) + k] = q[k]
  <1>1. Len(p) \in Nat /\ Len(l) \in Nat /\ Len(q) \in Nat
    OBVIOUS
  <1>2. /\ p \o l \in Seq(E) /\ Len(p \o l) = Len(p) + Len(l)
        /\ \A k \in 1 .. Len(p) + Len(l) :
             (p \o l)[k] = IF k <= Len(p) THEN p[k] ELSE l[k - Len(p)]
    BY ConcatProperties
  <1>3. /\ s \in Seq(E) /\ Len(s) = Len(p) + Len(l) + Len(q)
        /\ \A k \in 1 .. Len(p) + Len(l) + Len(q) :
             s[k] = IF k <= Len(p) + Len(l) THEN (p \o l)[k]
                                            ELSE q[k - (Len(p) + Len(l))]
    BY <1>2, ConcatProperties
  <1>4. ASSUME NEW k \in 1 .. Len(p) PROVE s[k] = p[k]
    <2>1. k \in 1 .. Len(p) + Len(l) /\ k \in 1 .. Len(p) + Len(l) + Len(q) /\ k <= Len(p)
      BY <1>1
    <2> QED
      BY <1>1, <1>2, <1>3, <2>1
  <1>5. ASSUME NEW k \in 1 .. Len(l) PROVE s[Len(p) + k] = l[k]
    <2>1. /\ Len(p) + k \in 1 .. Len(p) + Len(l)
          /\ Len(p) + k \in 1 .. Len(p) + Len(l) + Len(q)
          /\ ~(Len(p) + k <= Len(p)) /\ (Len(p) + k) - Len(p) = k
      BY <1>1
    <2>2. s[Len(p) + k] = (p \o l)[Len(p) + k]
      BY <1>1, <1>3, <2>1
    <2>3. (p \o l)[Len(p) + k] = l[(Len(p) + k) - Len(p)]
      BY <1>2, <2>1
    <2> QED
      BY <2>1, <2>2, <2>3
  <1>6. ASSUME NEW k \in 1 .. Len(q) PROVE s[Len(p) + Len(l) + k] = q[k]
    <2>1. /\ Len(p) + Len(l) + k \in 1 .. Len(p) + Len(l) + Len(q)
          /\ ~(Len(p) + Len(l) + k <= Len(p) + Len(l))
          /\ (Len(p) + Len(l) + k) - (Len(p) + Len(l)) = k
      BY <1>1
    <2>2. s[Len(p) + Len(l) + k] = q[(Len(p) + Len(l) + k) - (Len(p) + Len(l))]
      BY <1>3, <2>1
    <2> QED
      BY <2>1, <2>2
  <1> QED
    BY <1>3, <1>4, <1>5, <1>6

\* A list between two enumerations of what is not on it.
LEMMA Splice ==
  ASSUME NEW E, NEW l \in Seq(E), NEW T \in SUBSET E, NEW U \in SUBSET E,
         IsFiniteSet(T), IsFiniteSet(U), \A x \in T : x \notin U,
         \A i \in 1 .. Len(l) : l[i] \notin T /\ l[i] \notin U,
         NEW p \in SetToSeqs(T), NEW q \in SetToSeqs(U),
         NEW s, s = p \o l \o q
  PROVE  s \in Seq(E) /\ Spliced(s, l, T \cup U)
  <1> DEFINE a == Len(p)
             b == Len(l)
             c == Len(q)
  <1>2. /\ p \in Seq(T) /\ a \in Nat
        /\ \A i \in 1 .. a : p[i] \in T
        /\ \A x \in T : \E i \in 1 .. a : p[i] = x
        /\ \A i, j \in 1 .. a : p[i] = p[j] => i = j
    BY Enumeration
  <1>3. /\ q \in Seq(U) /\ c \in Nat
        /\ \A i \in 1 .. c : q[i] \in U
        /\ \A x \in U : \E i \in 1 .. c : q[i] = x
        /\ \A i, j \in 1 .. c : q[i] = q[j] => i = j
    BY Enumeration
  <1>4. p \in Seq(E) /\ q \in Seq(E) /\ b \in Nat
    BY <1>2, <1>3, SeqGrows
  <1>5. /\ s \in Seq(E) /\ Len(s) = a + b + c
        /\ \A k \in 1 .. a : s[k] = p[k]
        /\ \A k \in 1 .. b : s[a + k] = l[k]
        /\ \A k \in 1 .. c : s[a + b + k] = q[k]
    BY <1>4, Joined
  <1>1. \A i \in 1 .. b : l[i] \notin T /\ l[i] \notin U
    OBVIOUS
  <1> HIDE DEF a, b, c
  <1>7. ASSUME NEW k \in 1 .. Len(s)
        PROVE  \/ k \in 1 .. a /\ s[k] = p[k]
               \/ k - a \in 1 .. b /\ s[k] = l[k - a]
               \/ k - (a + b) \in 1 .. c /\ s[k] = q[k - (a + b)]
    <2>1. \/ k \in 1 .. a
          \/ k - a \in 1 .. b /\ a + (k - a) = k
          \/ k - (a + b) \in 1 .. c /\ a + b + (k - (a + b)) = k
      BY <1>2, <1>3, <1>4, <1>5
    <2> QED
      BY <1>5, <2>1
  <1>8. ASSUME NEW i \in 1 .. a PROVE i \in 1 .. Len(s) /\ s[i] = p[i]
    <2>1. i \in 1 .. Len(s)
      BY <1>2, <1>3, <1>4, <1>5
    <2> QED
      BY <1>5, <2>1
  <1>9. ASSUME NEW i \in 1 .. b PROVE a + i \in 1 .. Len(s) /\ s[a + i] = l[i]
    <2>1. a + i \in 1 .. Len(s)
      BY <1>2, <1>3, <1>4, <1>5
    <2> QED
      BY <1>5, <2>1
  <1>10. ASSUME NEW i \in 1 .. c PROVE a + b + i \in 1 .. Len(s) /\ s[a + b + i] = q[i]
    <2>1. a + b + i \in 1 .. Len(s)
      BY <1>2, <1>3, <1>4, <1>5
    <2> QED
      BY <1>5, <2>1
  <1>11. \A k \in 1 .. Len(s) : s[k] \in T \cup U \/ \E i \in 1 .. b : s[k] = l[i]
    BY <1>1, <1>2, <1>3, <1>7
  <1>12. \A i \in 1 .. b : \E k \in 1 .. Len(s) : s[k] = l[i]
    BY <1>1, <1>9
  <1>13. ASSUME NEW x \in T \cup U PROVE \E k \in 1 .. Len(s) : s[k] = x
    <2>1. CASE x \in T
      BY <1>2, <1>8, <2>1
    <2>2. CASE x \in U
      <3>1. PICK i \in 1 .. c : q[i] = x
        BY <1>3, <2>2
      <3> QED
        BY <1>10, <3>1
    <2> QED
      BY <2>1, <2>2
  <1>14. ASSUME NEW j \in 1 .. Len(s), NEW k \in 1 .. Len(s), j # k,
                j \in 1 .. a /\ s[j] = p[j]
         PROVE  s[j] # s[k] /\ s[j] \in T \cup U
    <2>1. s[j] \in T
      BY <1>2, <1>14
    <2>2. CASE k \in 1 .. a /\ s[k] = p[k]
      BY <1>2, <1>14, <2>1, <2>2
    <2>3. CASE k - a \in 1 .. b /\ s[k] = l[k - a]
      BY <1>1, <2>1, <2>3
    <2>4. CASE k - (a + b) \in 1 .. c /\ s[k] = q[k - (a + b)]
      BY <1>3, <2>1, <2>4
    <2> QED
      BY <1>7, <2>1, <2>2, <2>3, <2>4
  <1>15. ASSUME NEW j \in 1 .. Len(s), NEW k \in 1 .. Len(s), j # k,
                j - (a + b) \in 1 .. c /\ s[j] = q[j - (a + b)]
         PROVE  s[j] # s[k] /\ s[j] \in T \cup U
    <2>1. s[j] \in U
      BY <1>3, <1>15
    <2>2. CASE k \in 1 .. a /\ s[k] = p[k]
      BY <1>2, <2>1, <2>2
    <2>3. CASE k - a \in 1 .. b /\ s[k] = l[k - a]
      BY <1>1, <2>1, <2>3
    <2>4. CASE k - (a + b) \in 1 .. c /\ s[k] = q[k - (a + b)]
      <3>1. j - (a + b) # k - (a + b)
        BY <1>2, <1>4, <1>5, <1>15
      <3> QED
        BY <1>3, <1>15, <2>1, <2>4, <3>1
    <2> QED
      BY <1>7, <2>1, <2>2, <2>3, <2>4
  <1>16. ASSUME NEW j \in 1 .. Len(s), NEW k \in 1 .. Len(s), j # k
         PROVE  \/ \E m, n \in 1 .. b : m # n /\ s[j] = l[m] /\ s[k] = l[n]
                \/ s[j] # s[k] /\ (s[j] \in T \cup U \/ s[k] \in T \cup U)
    <2>1. CASE j - a \in 1 .. b /\ s[j] = l[j - a] /\ k - a \in 1 .. b /\ s[k] = l[k - a]
      <3>1. j - a # k - a
        BY <1>2, <1>5, <1>16
      <3> QED
        BY <1>1, <2>1, <3>1
    <2> QED
      BY <1>7, <1>14, <1>15, <1>16, <2>1
  <1> QED
    BY <1>5, <1>11, <1>12, <1>13, <1>16 DEF Spliced, b

\* What the list is when the events of a run have been stored.
LEMMA Stored ==
  ASSUME TypeOK, NEW r \in Runs, SaveEvents(r)
  PROVE  list' \in Seq(Events) /\ Spliced(list', list, emit[r] \ Range(list))
  <1> DEFINE new == emit[r] \ Range(list)
             top == {e \in new : asked[e] = previous}
  <1>1. PICK first \in SetToSeqs(top), rest \in SetToSeqs(new \ top) :
          list' = first \o list \o rest
    BY DEF SaveEvents
  <1>2. /\ list \in Seq(Events) /\ emit[r] \subseteq Events
        /\ \A i \in 1 .. Len(list) : list[i] \in Range(list)
    BY DEF TypeOK, Range
  <1>3. top \in SUBSET Events /\ new \ top \in SUBSET Events /\ top \cup (new \ top) = new
    BY <1>2
  <1>4. IsFiniteSet(top) /\ IsFiniteSet(new \ top)
    BY <1>3, FiniteEvents
  <1>5. /\ \A i \in 1 .. Len(list) : list[i] \notin top /\ list[i] \notin new \ top
        /\ \A x \in top : x \notin new \ top
    BY <1>2
  <1>6. PICK T, U : T = top /\ U = new \ top
    OBVIOUS
  <1> HIDE DEF top, new
  <1>7. list' \in Seq(Events) /\ Spliced(list', list, T \cup U)
    BY <1>1, <1>2, <1>3, <1>4, <1>5, <1>6, Splice
  <1> QED
    BY <1>1, <1>3, <1>6, <1>7 DEF new

LEMMA RunTyped ==
  ASSUME TInv, NEW r \in Runs, RunStep(r) PROVE TInv'
  <1> USE DEF RunPC, Handling, To, row, redis, graph, runs, cancels
  <1>0. /\ TypeOK /\ EventInv /\ asked \in Seq(Nodes) /\ run \in [Runs -> RunPC]
        /\ \A e \in Events : asked[e] \in Nodes
    BY DEF TInv, TypeOK, Events
  <1>1. CASE NodeEnds(r)
    <2>1. list' \in Seq(Events)
      BY <1>0, <1>1, HeadTailProperties DEF NodeEnds, AtHead, TypeOK
    <2>2. PICK n \in Resumed(r) \cap Stopped : stage' = [stage EXCEPT ![n] = "through"]
      BY <1>1 DEF NodeEnds
    <2>3. /\ stage' \in [Nodes -> {"ahead", "stopped", "through"}]
          /\ \A m \in Nodes : stage'[m] = "ahead" => stage[m] = "ahead"
          /\ \A m \in Nodes : stage[m] = "through" => stage'[m] = "through"
      BY <1>0, <2>2 DEF TypeOK
    <2> QED
      BY <1>0, <1>1, <2>1, <2>3, StayTyped DEF NodeEnds, TypeOK, EventInv
  <1>9. CASE NodeEndFails(r)
    <2>1. PICK n \in Resumed(r) \cap Stopped : stage' = [stage EXCEPT ![n] = "through"]
      BY <1>9 DEF NodeEndFails
    <2>2. n = asked[event[r]] /\ event[r] \in Events /\ n \in Nodes
      BY <1>0, <2>1 DEF Resumed, Stopped, TypeOK, Events
    <2>3. /\ stage' \in [Nodes -> {"ahead", "stopped", "through"}]
          /\ \A m \in Nodes : stage'[m] = "ahead" => stage[m] = "ahead"
          /\ \A m \in Nodes : stage[m] = "through" => stage'[m] = "through"
          /\ left' \subseteq Events /\ \A e \in left' \ left : stage'[asked[e]] = "through"
      BY <1>0, <1>9, <2>1, <2>2 DEF NodeEndFails, TypeOK
    <2> QED
      BY <1>0, <1>9, <2>3, StayTyped DEF NodeEndFails, TypeOK, EventInv
  <1>2. CASE PopOld(r)
    <2>1. list' = list \/ (list # <<>> /\ list' = Tail(list))
      BY <1>2 DEF PopOld
    <2>2. list' \in Seq(Events)
      <3>1. list \in Seq(Events) /\ (list # <<>> => Tail(list) \in Seq(Events))
        BY <1>0, HeadTailProperties DEF TypeOK
      <3> QED
        BY <2>1, <3>1
    <2> QED
      BY <1>0, <1>2, <2>2, StayTyped DEF PopOld, TypeOK, EventInv
  <1>3. CASE SaveEvents(r)
    <2>1. list' \in Seq(Events)
      BY <1>0, <1>3, Stored
    <2> QED
      BY <1>0, <1>3, <2>1, StayTyped DEF SaveEvents, TypeOK, EventInv
  <1>4. CASE StoreFails(r)
    BY <1>0, <1>4, StayTyped DEF StoreFails, TypeOK, EventInv
  <1>5. CASE Succeeds(r) \/ Fails(r)
    <2>1. status' \in Status /\ resuming' \in 0 .. Len(asked)
      BY <1>0, <1>5 DEF Succeeds, Fails, UpdateWorkflowExecution, TypeOK, Status, Ended
    <2> QED
      BY <1>0, <1>5, <2>1, StayTyped DEF Succeeds, Fails, TypeOK, EventInv
  <1>6. CASE NoticeCancel(r)
    BY <1>0, <1>6, StayTyped DEF NoticeCancel, TypeOK, EventInv
  <1>7. CASE Cancelled(r)
    BY <1>0, <1>7, StayTyped DEF Cancelled, TypeOK, EventInv, Status, Ended
  <1>8. ASSUME NEW asking \in SUBSET Nodes, Interrupts(r, asking) PROVE TInv'
    <2>1. /\ asked' \in Seq(Nodes) /\ Len(asked) \in Nat /\ Len(asked') \in Nat
          /\ Len(asked) <= Len(asked')
          /\ \A e \in Events : asked'[e] = asked[e]
          /\ emit' = [emit EXCEPT ![r] = (Len(asked) + 1) .. Len(asked')]
          /\ \A e \in emit'[r] : asked'[e] \in Askers(r, asking)
      BY <1>0, <1>8, Raised
    <2>2. Events \subseteq Events' /\ Events' = Events \cup ((Len(asked) + 1) .. Len(asked'))
      BY <2>1 DEF Events
    <2>3. emit' \in [Runs -> SUBSET Events'] /\ emit'[r] = (Len(asked) + 1) .. Len(asked')
      BY <1>0, <2>1, <2>2 DEF TypeOK
    <2>4. list' \in Seq(Events')
      BY <1>0, <1>8, <2>2, SeqGrows DEF Interrupts, TypeOK
    <2>5. /\ status' \in Status /\ resuming' \in 0 .. Len(asked')
          /\ event' \in [Runs -> 0 .. Len(asked')]
      BY <1>0, <1>8, <2>1
      DEF Interrupts, UpdateWorkflowExecution, TypeOK, Status, Open
    <2>6. /\ stage' \in [Nodes -> {"ahead", "stopped", "through"}]
          /\ \A n \in Nodes : stage'[n] = "ahead" => stage[n] = "ahead" /\ n \notin asking
      BY <1>0, <1>8 DEF Interrupts, TypeOK
    <2>7. run' \in [Runs -> RunPC] /\ \A o \in Runs : run'[o] = "read" \/ run'[o] = "found" \/
            run'[o] = "noted" => run'[o] = run[o]
      BY <1>0, <1>8 DEF Interrupts
    <2>8. TypeOK'
      <3>1. left' \subseteq Events'
        BY <1>0, <1>8, <2>2 DEF Interrupts, TypeOK
      <3> QED
        BY <1>0, <1>8, <2>1, <2>3, <2>4, <2>5, <2>6, <2>7, <3>1 DEF Interrupts, TypeOK
    <2>9. \A e \in Events' : stage'[asked'[e]] # "ahead"
      <3>1. \A e \in Events : stage'[asked'[e]] # "ahead"
        BY <1>0, <2>1, <2>6 DEF EventInv
      <3>2. \A n \in Askers(r, asking) : n \in Nodes /\ (n \in asking \/ stage[n] = "stopped")
        BY <1>8, AskersAreNodes DEF Askers, AsksAnew, Stopped
      <3>3. \A e \in emit'[r] : stage'[asked'[e]] # "ahead"
        BY <2>1, <2>6, <3>2
      <3> QED
        BY <2>2, <2>3, <3>1, <3>3
    <2>10. \A o \in Runs : run'[o] \in {"read", "found", "noted"} => event'[o] # 0
      BY <1>0, <1>8, <2>7 DEF Interrupts, EventInv
    <2>11. \A e \in left' : stage'[asked'[e]] = "through"
      <3>1. \A e \in left : e \in Events /\ asked[e] \in Nodes /\ stage[asked[e]] = "through"
        BY <1>0 DEF TypeOK, EventInv
      <3>2. \A n \in Nodes : stage[n] = "through" => stage'[n] = "through"
        BY <1>0, <1>8 DEF Interrupts, MayAsk, Stopped
      <3> QED
        BY <1>8, <2>1, <3>1, <3>2 DEF Interrupts
    <2> QED
      BY <2>8, <2>9, <2>10, <2>11 DEF TInv, EventInv
  <1> QED
    BY <1>1, <1>2, <1>3, <1>4, <1>5, <1>6, <1>7, <1>8, <1>9 DEF RunStep

LEMMA ResumeTyped ==
  ASSUME TInv, NEW r \in Runs, ResumeStep(r) PROVE TInv'
  <1> USE DEF RunPC, Handling, To, row, redis, graph, runs, cancels
  <1>0. /\ TypeOK /\ EventInv /\ asked \in Seq(Nodes) /\ run \in [Runs -> RunPC]
        /\ event \in [Runs -> 0 .. Len(asked)] /\ Len(asked) \in Nat
        /\ \A e \in Events : asked[e] \in Nodes
    BY DEF TInv, TypeOK, Events
  <1>1. ASSUME NEW e \in Events, ReadStatus(r, e) PROVE TInv'
    <2>1. e \in 0 .. Len(asked) /\ e # 0
      BY <1>0 DEF Events
    <2>2. /\ event' \in [Runs -> 0 .. Len(asked)] /\ run' \in [Runs -> RunPC]
          /\ event'[r] # 0 /\ \A o \in Runs \ {r} : run'[o] = run[o] /\ event'[o] = event[o]
      BY <1>0, <1>1, <2>1 DEF ReadStatus
    <2>3. \A o \in Runs : run'[o] \in {"read", "found", "noted"} => event'[o] # 0
      BY <1>0, <2>2 DEF EventInv
    <2> QED
      BY <1>0, <1>1, <2>2, <2>3, StayTyped DEF ReadStatus, TypeOK
  <1>2. CASE GetFirst(r)
    BY <1>0, <1>2, StayTyped DEF GetFirst, TypeOK, EventInv
  <1>3. CASE UpdateFirst(r)
    <2>0. /\ run[r] = "found"
          /\ \/ UNCHANGED <<list, previous>>
             \/ /\ list # <<>> /\ list' = [list EXCEPT ![1] = event[r]]
                /\ previous' = asked[event[r]]
      BY <1>3 DEF UpdateFirst
    <2>1. event[r] \in Events /\ asked[event[r]] \in Nodes
      <3>1. event[r] # 0 /\ event[r] \in 0 .. Len(asked)
        BY <1>0, <2>0 DEF EventInv
      <3>2. event[r] \in Events
        BY <1>0, <3>1 DEF Events
      <3> QED
        BY <1>0, <3>2
    <2>2. list' \in Seq(Events) /\ previous' \in Nodes \cup {None}
      <3>1. list \in Seq(Events) /\ previous \in Nodes \cup {None}
        BY <1>0 DEF TypeOK
      <3>2. list # <<>> => 1 \in 1 .. Len(list)
        BY <3>1
      <3>3. list # <<>> => [list EXCEPT ![1] = event[r]] \in Seq(Events)
        BY <2>1, <3>1, <3>2, ExceptSeq
      <3> QED
        BY <2>0, <2>1, <3>1, <3>3
    <2>3. /\ run' \in [Runs -> RunPC]
          /\ \A o \in Runs : run'[o] \in {"read", "found", "noted"} => event'[o] # 0
      BY <1>0, <1>3, <2>1 DEF UpdateFirst, EventInv, Events
    <2>4. stale' \in BOOLEAN
      BY <1>3, Zenon DEF UpdateFirst
    <2> QED
      BY <1>0, <1>3, <2>2, <2>3, <2>4, StayTyped DEF UpdateFirst, TypeOK
  <1>4. CASE TryLock(r)
    <2>1. status' \in Status /\ resuming' \in 0 .. Len(asked) /\ run' \in [Runs -> RunPC]
      <3>1. \/ status' = "running" /\ resuming' = event[r] /\ run' = [run EXCEPT ![r] = "running"]
            \/ UNCHANGED <<status, resuming>> /\ run' = [run EXCEPT ![r] = "refused"]
        BY <1>4 DEF TryLock
      <3>2. status \in Status /\ resuming \in 0 .. Len(asked) /\ "running" \in Status
        BY <1>0 DEF TypeOK, Status, Open
      <3>3. event[r] \in 0 .. Len(asked)
        BY <1>0
      <3>4. run' \in [Runs -> RunPC]
        BY <1>0, <3>1
      <3> QED
        BY <3>1, <3>2, <3>3, <3>4
    <2>2. stale' \in BOOLEAN
      <3>1. stale \in BOOLEAN
        BY <1>0 DEF TypeOK
      <3> QED
        BY <1>4, <3>1, Zenon DEF TryLock
    <2> QED
      BY <1>0, <1>4, <2>1, <2>2, StayTyped DEF TryLock, TypeOK, EventInv
  <1> QED
    BY <1>1, <1>2, <1>3, <1>4 DEF ResumeStep

LEMMA CancelTyped ==
  ASSUME TInv, NEW c \in Cancels, CancelStep(c) PROVE TInv'
  <1> USE DEF CancelPC, CancelTo, row, redis, graph, runs, Status, Open, Ended
  <1>0. TypeOK /\ EventInv
    BY DEF TInv
  <1>1. status' \in Status /\ resuming' \in 0 .. Len(asked)
    BY <1>0
    DEF CancelStep, CancelRead, CancelTake, CancelLook, CancelNodes,
        SetWorkflowCancelFlag, UpdateWorkflowExecution, CancelAllRunningNodes, TypeOK
  <1>2. /\ cancel' \in [Cancels -> CancelPC] /\ seen' \in [Cancels -> Status]
        /\ flag' \in BOOLEAN /\ UNCHANGED <<list, previous, graph, runs, stale, left>>
    <2>1. cancel \in [Cancels -> CancelPC] /\ seen \in [Cancels -> Status] /\ flag \in BOOLEAN
      BY <1>0 DEF TypeOK
    <2>2. CASE CancelRead(c)
      BY <1>0, <2>1, <2>2 DEF CancelRead, TypeOK
    <2>3. CASE CancelTake(c) \/ CancelLook(c) \/ CancelNodes(c)
      BY <2>1, <2>3 DEF CancelTake, CancelLook, CancelNodes
    <2>4. CASE SetWorkflowCancelFlag(c)
      BY <2>1, <2>4 DEF SetWorkflowCancelFlag
    <2> QED
      BY <2>2, <2>3, <2>4 DEF CancelStep
  <1> QED
    BY <1>0, <1>1, <1>2, StayTyped DEF TypeOK, EventInv

LEMMA StepTyped == TInv /\ [Next]_vars => TInv'
  <1> SUFFICES ASSUME TInv, [Next]_vars PROVE TInv'
    OBVIOUS
  <1>1. CASE UNCHANGED vars
    BY <1>1, StayTyped DEF vars, row, redis, graph, runs, cancels, TInv, TypeOK, EventInv
  <1> QED
    BY <1>1, RunTyped, ResumeTyped, CancelTyped DEF Next

LEMMA Typed == Spec => []TInv
  BY InitTyped, StepTyped, PTL DEF Spec

\* Every write of the row, of the lists in Redis and of the checkpoint keeps
\* their types: an event that is listed, resumed or raised has been asked.
THEOREM TypeCorrect == Spec => []TypeOK
  <1>1. TInv => TypeOK
    BY DEF TInv
  <1> QED
    BY Typed, <1>1, PTL

----------------------------------------------------------------------------
(* The list.                                                               *)

AtWork == {"running"} \cup Handling

\* The event that run r resumes is asked again.
Asking(r) == \E e \in emit[r] : asked[e] \in Resumed(r)

\* No request has taken an event that was not open, and every handler is in
\* step with the list.  What has gone wrong stays wrong.
Sound == ~stale /\ \A r \in Runs : run[r] # "deaf"

\* One run, or its handler, is at work, and none but a handler has events to store.
WorkInv ==
  /\ \A r, o \in Runs : run[r] \in AtWork /\ run[o] \in AtWork => r = o
  /\ \A r \in Runs : run[r] \notin Handling => emit[r] = {}

\* A stopped node has an event on the list, or one that is about to be stored.
AwaitedInv ==
  \A n \in Stopped : \/ \E i \in DOMAIN list : asked[list[i]] = n
                     \/ \E r \in Runs : \E e \in emit[r] : asked[e] = n

\* A question on the list has stopped, and is listed once, unless it could not
\* be popped.
ListInv ==
  \A i, j \in DOMAIN list :
    asked[list[i]] \notin Receivers /\ list[i] \notin left =>
      asked[list[i]] \in Stopped /\ (asked[list[j]] = asked[list[i]] => i = j)

\* So has one to be stored; it is on the list only until the old event is gone.
EmitInv ==
  \A r \in Runs : \A e \in emit[r] :
    asked[e] \notin Receivers =>
      /\ asked[e] \in Stopped
      /\ \A d \in emit[r] : asked[d] = asked[e] => d = e
      /\ \A i \in DOMAIN list :
           asked[list[i]] = asked[e] => run[r] = "interrupted" /\ asked[e] \in Resumed(r)

\* The event that a run resumes is the first of the list until it is popped.
Answering(r) ==
  \/ run[r] = "running" /\ Resumed(r) \cap Stopped # {}
  \/ run[r] = "interrupted" /\ Asking(r)

HeadInv == \A r \in Runs : Answering(r) => AtHead(event[r])

Offered == WorkInv /\ AwaitedInv /\ ListInv /\ EmitInv /\ HeadInv

\* An execution that is interrupted is unlocked, and something waits.
RowInv == status = "interrupted" => resuming = 0 /\ Stopped # {}

\* What SMT should know of the state.
LEMMA Typing ==
  ASSUME TInv
  PROVE  /\ list \in Seq(Events) /\ DOMAIN list = 1 .. Len(list) /\ Len(list) \in Nat
         /\ \A i \in DOMAIN list : list[i] \in Events
         /\ asked \in Seq(Nodes) /\ Len(asked) \in Nat
         /\ \A e \in Events : asked[e] \in Nodes
         /\ run \in [Runs -> RunPC] /\ event \in [Runs -> 0 .. Len(asked)]
         /\ emit \in [Runs -> SUBSET Events]
         /\ stage \in [Nodes -> {"ahead", "stopped", "through"}]
         /\ \A r \in Runs : event[r] # 0 => event[r] \in Events
         /\ \A e \in left : e \in Events /\ asked[e] \in Nodes /\ asked[e] \notin Stopped
  <1>1. asked \in Seq(Nodes) /\ Len(asked) \in Nat /\ list \in Seq(Events)
    BY DEF TInv, TypeOK
  <1>2. /\ DOMAIN list = 1 .. Len(list) /\ Len(list) \in Nat
        /\ \A i \in DOMAIN list : list[i] \in Events
    BY <1>1
  <1>3. \A e \in Events : asked[e] \in Nodes
    BY <1>1 DEF Events
  <1>4. \A r \in Runs : event[r] # 0 => event[r] \in Events
    BY <1>1 DEF TInv, TypeOK, Events
  <1>5. \A e \in left : e \in Events /\ asked[e] \in Nodes /\ asked[e] \notin Stopped
    BY <1>3 DEF TInv, TypeOK, EventInv, Stopped
  <1> QED
    BY <1>1, <1>2, <1>3, <1>4, <1>5 DEF TInv, TypeOK

\* The list without its first element.
LEMMA Popped ==
  ASSUME NEW S, NEW q \in Seq(S), q # <<>>
  PROVE  /\ 1 \in DOMAIN q /\ Head(q) = q[1]
         /\ \A i \in DOMAIN Tail(q) : /\ i + 1 \in DOMAIN q /\ i + 1 # 1
                                      /\ Tail(q)[i] = q[i + 1]
         /\ \A i, j \in DOMAIN Tail(q) : i + 1 = j + 1 => i = j
         /\ \A k \in DOMAIN q : k # 1 => \E i \in DOMAIN Tail(q) : Tail(q)[i] = q[k]
  <1>1. /\ Len(q) \in Nat /\ Len(q) # 0 /\ DOMAIN q = 1 .. Len(q) /\ Head(q) = q[1]
        /\ Tail(q) \in Seq(S) /\ Len(Tail(q)) = Len(q) - 1
        /\ DOMAIN Tail(q) = 1 .. Len(q) - 1
        /\ \A i \in 1 .. Len(q) - 1 : Tail(q)[i] = q[i + 1]
    BY HeadTailProperties
  <1>2. ASSUME NEW k \in DOMAIN q, k # 1 PROVE \E i \in DOMAIN Tail(q) : Tail(q)[i] = q[k]
    <2>1. k - 1 \in 1 .. Len(q) - 1 /\ (k - 1) + 1 = k
      BY <1>1, <1>2
    <2> QED
      BY <1>1, <2>1
  <1> QED
    BY <1>1, <1>2

\* Once something has gone wrong it stays so.
LEMMA SoundBefore ==
  ASSUME TInv, [Next]_vars, Sound' PROVE Sound
  <1> USE DEF To, row, redis, graph, runs, cancels
  <1>1. run \in [Runs -> RunPC]
    BY Typing
  <1>2. ASSUME NEW r \in Runs, RunStep(r) PROVE UNCHANGED stale /\ \A o \in Runs : run[o] = "deaf" => run'[o] = "deaf"
    BY <1>1, <1>2
    DEF RunStep, NodeEnds, NodeEndFails, PopOld, SaveEvents, StoreFails, Succeeds, Fails,
        NoticeCancel, Cancelled, Interrupts, Handling
  <1>3. ASSUME NEW r \in Runs, ResumeStep(r)
        PROVE  (stale => stale') /\ \A o \in Runs : run[o] = "deaf" => run'[o] = "deaf"
    <2>1. stale => stale'
      BY <1>3, Zenon DEF ResumeStep, ReadStatus, GetFirst, UpdateFirst, TryLock
    <2>2. /\ run[r] \in {"idle", "read", "found", "noted"}
          /\ \E p \in RunPC : run' = [run EXCEPT ![r] = p]
      BY <1>1, <1>3 DEF ResumeStep, ReadStatus, GetFirst, UpdateFirst, TryLock, RunPC
    <2> QED
      BY <1>1, <2>1, <2>2
  <1>4. ASSUME NEW c \in Cancels, CancelStep(c) PROVE UNCHANGED <<stale, run>>
    BY <1>4
    DEF CancelStep, CancelRead, CancelTake, CancelLook, CancelNodes, SetWorkflowCancelFlag
  <1>5. CASE UNCHANGED vars
    BY <1>5 DEF vars, Sound
  <1> QED
    BY <1>2, <1>3, <1>4, <1>5 DEF Next, Sound

\* A step that leaves the list, the graph and what is to be stored alone, and
\* sets nobody to work.
LEMMA Quiet ==
  ASSUME Offered, UNCHANGED <<list, stage, asked, emit, left>>,
         \A o \in Runs : run'[o] \in AtWork => run'[o] = run[o] /\ event'[o] = event[o],
         \A o \in Runs : run'[o] \notin Handling => emit[o] = {}
  PROVE  Offered'
  <1>1. WorkInv'
    BY DEF Offered, WorkInv
  <1>2. AwaitedInv' /\ ListInv'
    BY DEF Offered, AwaitedInv, ListInv, Stopped
  <1>3. \A o \in Runs : run'[o] \in AtWork => Resumed(o)' = Resumed(o)
    BY DEF Resumed
  <1>4. \A o \in Runs : emit[o] # {} => run'[o] = run[o] /\ Resumed(o)' = Resumed(o)
    BY <1>3 DEF AtWork
  <1>5. EmitInv'
    <2>1. Stopped' = Stopped
      BY DEF Stopped
    <2> QED
      BY <1>4, <2>1 DEF Offered, EmitInv
  <1>6. HeadInv'
    <2>1. ASSUME NEW o \in Runs,
                 \/ run'[o] = "running" /\ Resumed(o)' \cap Stopped' # {}
                 \/ run'[o] = "interrupted" /\ Asking(o)'
          PROVE  AtHead(event[o])'
      <3>1. run'[o] \in AtWork
        BY <2>1 DEF AtWork, Handling
      <3>2. /\ run'[o] = run[o] /\ event'[o] = event[o] /\ Resumed(o)' = Resumed(o)
            /\ Stopped' = Stopped
        BY <1>3, <3>1 DEF Stopped
      <3>3. Asking(o)' = Asking(o)
        BY <3>2 DEF Asking
      <3>4. AtHead(event[o])
        BY <2>1, <3>2, <3>3 DEF Offered, HeadInv, Answering
      <3> QED
        BY <3>2, <3>4 DEF AtHead
    <2> QED
      BY <2>1 DEF HeadInv, Answering
  <1> QED
    BY <1>1, <1>2, <1>5, <1>6 DEF Offered

\* While a run is at work, nobody else has events to store.
LEMMA OthersRest ==
  ASSUME WorkInv, NEW r \in Runs, run[r] \in AtWork, NEW o \in Runs \ {r}
  PROVE  run[o] \notin AtWork /\ emit[o] = {}
  BY DEF WorkInv, AtWork

LEMMA NodeEndsKeeps ==
  ASSUME TInv, Offered, NEW r \in Runs, NodeEnds(r) PROVE Offered'
  <1>1. PICK n \in Resumed(r) \cap Stopped : stage' = [stage EXCEPT ![n] = "through"]
    BY DEF NodeEnds
  <1>2. run[r] = "running" /\ UNCHANGED <<asked, run, event, emit, left>>
    BY DEF NodeEnds, runs
  <1>3. AtHead(event[r]) /\ Resumed(r) = {n} /\ asked[event[r]] = n
    BY <1>1, <1>2 DEF Offered, HeadInv, Answering, Resumed
  <1>4. list \in Seq(Events) /\ list # <<>> /\ list' = Tail(list)
    BY <1>3, Typing DEF NodeEnds, AtHead
  <1>5. list[1] = event[r] /\ 1 \in DOMAIN list
    BY <1>3, <1>4, Popped DEF AtHead
  <1>6. Stopped' = Stopped \ {n}
    BY <1>1, Typing DEF Stopped
  <1>7. \A o \in Runs : emit[o] = {} /\ (o # r => run[o] \notin AtWork)
    BY <1>2, OthersRest DEF Offered, WorkInv, AtWork, Handling
  <1>8. WorkInv'
    BY <1>2 DEF Offered, WorkInv
  <1>9. AwaitedInv'
    <2>1. ASSUME NEW m \in Stopped, m # n PROVE \E i \in DOMAIN list' : asked[list'[i]] = m
      <3>1. PICK k \in DOMAIN list : asked[list[k]] = m
        BY <1>7, <2>1 DEF Offered, AwaitedInv
      <3>2. k # 1
        BY <1>3, <1>5, <2>1, <3>1
      <3>3. PICK i \in DOMAIN Tail(list) : Tail(list)[i] = list[k]
        BY <1>4, <3>2, Popped
      <3> QED
        BY <1>4, <3>1, <3>3
    <2> QED
      BY <1>2, <1>6, <2>1 DEF AwaitedInv
  <1>10. ListInv'
    <2>1. ASSUME NEW i \in DOMAIN list', NEW j \in DOMAIN list', asked[list'[i]] \notin Receivers,
                 list'[i] \notin left
          PROVE  /\ asked[list'[i]] \in Stopped'
                 /\ asked[list'[j]] = asked[list'[i]] => i = j
      <3>1. /\ i + 1 \in DOMAIN list /\ j + 1 \in DOMAIN list /\ i + 1 # 1
            /\ list'[i] = list[i + 1] /\ list'[j] = list[j + 1] /\ (i + 1 = j + 1 => i = j)
        BY <1>4, Popped
      <3>2. asked[list[i + 1]] \in Stopped /\ (asked[list[j + 1]] = asked[list[i + 1]] => i = j)
        BY <2>1, <3>1 DEF Offered, ListInv
      <3>3. asked[list[i + 1]] # n
        BY <1>1, <1>3, <1>5, <2>1, <3>1, Typing DEF Offered, ListInv
      <3> QED
        BY <1>6, <3>1, <3>2, <3>3
    <2> QED
      BY <1>2, <2>1 DEF ListInv
  <1>11. EmitInv'
    BY <1>2, <1>7 DEF EmitInv
  <1>12. HeadInv'
    <2>1. Resumed(r)' \cap Stopped' = {}
      BY <1>2, <1>3, <1>6 DEF Resumed
    <2> QED
      BY <1>2, <1>7, <2>1 DEF HeadInv, Answering, AtWork, Handling, Asking
  <1> QED
    BY <1>8, <1>9, <1>10, <1>11, <1>12 DEF Offered

LEMMA NodeEndFailsKeeps ==
  ASSUME TInv, Offered, NEW r \in Runs, NodeEndFails(r) PROVE Offered'
  <1>1. PICK n \in Resumed(r) \cap Stopped : stage' = [stage EXCEPT ![n] = "through"]
    BY DEF NodeEndFails
  <1>2. /\ run[r] = "running" /\ UNCHANGED <<list, asked, run, event, emit>>
        /\ AtHead(event[r]) /\ left' = left \cup {event[r]}
    BY DEF NodeEndFails, redis, runs
  <1>3. Resumed(r) = {n} /\ asked[event[r]] = n
    BY <1>1 DEF Resumed
  <1>4. list[1] = event[r] /\ 1 \in DOMAIN list
    BY <1>2, Typing, Popped DEF AtHead
  <1>5. Stopped' = Stopped \ {n}
    BY <1>1, Typing DEF Stopped
  <1>6. \A o \in Runs : emit[o] = {} /\ (o # r => run[o] \notin AtWork)
    BY <1>2, OthersRest DEF Offered, WorkInv, AtWork, Handling
  <1>7. WorkInv' /\ AwaitedInv' /\ EmitInv'
    BY <1>2, <1>5, <1>6 DEF Offered, WorkInv, AwaitedInv, EmitInv
  <1>8. ListInv'
    <2>1. ASSUME NEW i \in DOMAIN list, asked[list[i]] \notin Receivers, list[i] \notin left'
          PROVE  asked[list[i]] # n
      <3>1. i # 1
        BY <1>2, <1>4, <2>1
      <3> QED
        BY <1>1, <1>3, <1>4, <2>1, <3>1, Typing DEF Offered, ListInv
    <2> QED
      BY <1>2, <1>5, <2>1 DEF Offered, ListInv
  <1>9. HeadInv'
    <2>1. Resumed(r)' \cap Stopped' = {}
      BY <1>2, <1>3, <1>5 DEF Resumed
    <2> QED
      BY <1>2, <1>6, <2>1 DEF HeadInv, Answering, AtWork, Handling, Asking
  <1> QED
    BY <1>7, <1>8, <1>9 DEF Offered

LEMMA PopOldKeeps ==
  ASSUME TInv, Offered, NEW r \in Runs, PopOld(r), run'[r] # "deaf" PROVE Offered'
  <1>1. /\ run[r] = "interrupted" /\ UNCHANGED <<asked, stage, event, emit, left>>
        /\ run' = [run EXCEPT ![r] = "saving"]
    BY Typing DEF PopOld, To, graph
  <1>2. /\ \A o \in Runs \ {r} : emit[o] = {} /\ run[o] \notin AtWork /\ run'[o] = run[o]
        /\ run'[r] = "saving" /\ run \in [Runs -> RunPC] /\ Stopped' = Stopped
    BY <1>1, OthersRest, Typing DEF Offered, AtWork, Handling, Stopped
  <1>3. WorkInv' /\ HeadInv'
    BY <1>1, <1>2 DEF Offered, WorkInv, HeadInv, Answering, AtWork, Handling
  <1>4. CASE ~Asking(r)
    <2>1. UNCHANGED list
      BY <1>4 DEF PopOld, Asking
    <2>2. AwaitedInv' /\ ListInv'
      BY <1>1, <1>2, <2>1 DEF Offered, AwaitedInv, ListInv
    <2>3. EmitInv'
      BY <1>1, <1>2, <1>4, <2>1 DEF Offered, EmitInv, Asking
    <2> QED
      BY <1>3, <2>2, <2>3 DEF Offered
  <1>5. CASE Asking(r)
    <2>1. AtHead(event[r])
      BY <1>1, <1>5 DEF Offered, HeadInv, Answering
    <2>2. PICK d \in emit[r] : asked[d] \in Resumed(r)
      BY <1>5 DEF Asking
    <2>3. Resumed(r) = {asked[event[r]]} /\ asked[d] = asked[event[r]]
      BY <2>2 DEF Resumed
    <2>4. list \in Seq(Events) /\ list # <<>> /\ list' = Tail(list)
      BY <1>5, <2>1, Typing DEF PopOld, Asking, AtHead
    <2>5. list[1] = event[r] /\ 1 \in DOMAIN list
      BY <2>1, <2>4, Popped DEF AtHead
    <2>6. AwaitedInv'
      <3>1. ASSUME NEW m \in Stopped, NEW k \in DOMAIN list, asked[list[k]] = m
            PROVE  \/ \E i \in DOMAIN list' : asked[list'[i]] = m
                   \/ \E e \in emit[r] : asked[e] = m
        <4>1. CASE k = 1
          BY <2>2, <2>3, <2>5, <3>1, <4>1
        <4>2. CASE k # 1
          <5>1. PICK i \in DOMAIN Tail(list) : Tail(list)[i] = list[k]
            BY <2>4, <4>2, Popped
          <5> QED
            BY <2>4, <3>1, <5>1
        <4> QED
          BY <4>1, <4>2
      <3> QED
        BY <1>1, <1>2, <3>1 DEF Offered, AwaitedInv
    <2>7. \A i \in DOMAIN list' : /\ i + 1 \in DOMAIN list /\ i + 1 # 1
                                  /\ list'[i] = list[i + 1]
                                  /\ \A j \in DOMAIN list' : i + 1 = j + 1 => i = j
      BY <2>4, Popped
    <2>8. ListInv'
      BY <1>1, <1>2, <2>7 DEF Offered, ListInv
    <2>9. EmitInv'
      <3>1. ASSUME NEW e \in emit[r], asked[e] \notin Receivers, NEW i \in DOMAIN list',
                   asked[list'[i]] = asked[e]
            PROVE  FALSE
        <4>1. asked[list[i + 1]] = asked[e] /\ i + 1 \in DOMAIN list /\ i + 1 # 1
          BY <2>7, <3>1
        <4>2. asked[e] \in Resumed(r) /\ asked[e] \in Stopped
          BY <3>1, <4>1 DEF Offered, EmitInv
        <4>3. list[1] \notin left /\ asked[list[1]] = asked[e]
          BY <2>3, <2>5, <4>2, Typing
        <4> QED
          BY <2>5, <3>1, <4>1, <4>3 DEF Offered, ListInv
      <3> QED
        BY <1>1, <1>2, <3>1 DEF Offered, EmitInv
    <2> QED
      BY <1>3, <2>6, <2>8, <2>9 DEF Offered
  <1> QED
    BY <1>4, <1>5

LEMMA SaveEventsKeeps ==
  ASSUME TInv, Offered, NEW r \in Runs, SaveEvents(r) PROVE Offered'
  <1> DEFINE new == emit[r] \ Range(list)
  <1>1. /\ run[r] = "saving" /\ UNCHANGED <<asked, stage, event, left>>
        /\ run' = [run EXCEPT ![r] = "done"] /\ emit' = [emit EXCEPT ![r] = {}]
    BY DEF SaveEvents, To, graph
  <1>2. /\ \A o \in Runs \ {r} : emit[o] = {} /\ run[o] \notin AtWork
        /\ \A o \in Runs : emit'[o] = {} /\ run'[o] \notin AtWork
        /\ Stopped' = Stopped
    BY <1>1, OthersRest, Typing DEF Offered, AtWork, Handling, Stopped
  <1>3. list \in Seq(Events) /\ list' \in Seq(Events) /\ Spliced(list', list, new)
    <2>1. TypeOK
      BY DEF TInv
    <2>2. list' \in Seq(Events) /\ Spliced(list', list, emit[r] \ Range(list))
      BY <2>1, Stored
    <2> QED
      BY <2>2, Typing
  <1>4. DOMAIN list = 1 .. Len(list) /\ DOMAIN list' = 1 .. Len(list')
    BY <1>3
  <1>5. Range(list) = {list[i] : i \in DOMAIN list}
    BY DEF Range
  <1>6. WorkInv' /\ EmitInv' /\ HeadInv'
    BY <1>2 DEF WorkInv, EmitInv, HeadInv, Answering, AtWork, Handling
  <1>7. AwaitedInv'
    <2>1. ASSUME NEW i \in DOMAIN list PROVE \E k \in DOMAIN list' : list'[k] = list[i]
      BY <1>3, <1>4 DEF Spliced
    <2>2. ASSUME NEW e \in emit[r] PROVE \E k \in DOMAIN list' : list'[k] = e
      <3>1. CASE e \in Range(list)
        BY <1>5, <2>1, <3>1
      <3>2. CASE e \in new
        BY <1>3, <1>4, <3>2 DEF Spliced
      <3> QED
        BY <3>1, <3>2
    <2>3. ASSUME NEW n \in Stopped PROVE \E k \in DOMAIN list' : asked[list'[k]] = n
      <3>1. \/ \E i \in DOMAIN list : asked[list[i]] = n
            \/ \E e \in emit[r] : asked[e] = n
        BY <1>2 DEF Offered, AwaitedInv
      <3> QED
        BY <2>1, <2>2, <3>1
    <2> QED
      BY <1>1, <1>2, <2>3 DEF AwaitedInv
  <1>8. \A e \in new : /\ e \in emit[r]
                       /\ asked[e] \notin Receivers =>
                            /\ asked[e] \in Stopped
                            /\ \A d \in new : asked[d] = asked[e] => d = e
                            /\ \A i \in DOMAIN list : asked[list[i]] # asked[e]
    BY <1>1 DEF Offered, EmitInv
  <1> HIDE DEF new
  <1>9. ListInv'
    <2>1. ASSUME NEW k \in DOMAIN list', asked[list'[k]] \notin Receivers, list'[k] \notin left
          PROVE  asked[list'[k]] \in Stopped
      <3>1. list'[k] \in new \/ \E i \in DOMAIN list : list'[k] = list[i]
        BY <1>3, <1>4 DEF Spliced
      <3> QED
        BY <1>8, <2>1, <3>1 DEF Offered, ListInv
    <2>2. ASSUME NEW j \in DOMAIN list', NEW k \in DOMAIN list',
                 asked[list'[j]] \notin Receivers, list'[j] \notin left,
                 asked[list'[k]] = asked[list'[j]], j # k
          PROVE  FALSE
      <3>1. /\ list'[j] \in new \/ \E i \in DOMAIN list : list'[j] = list[i]
            /\ list'[k] \in new \/ \E i \in DOMAIN list : list'[k] = list[i]
        BY <1>3, <1>4 DEF Spliced
      <3>2. \/ \E m, n \in DOMAIN list : m # n /\ list'[j] = list[m] /\ list'[k] = list[n]
            \/ list'[j] # list'[k] /\ (list'[j] \in new \/ list'[k] \in new)
        <4>1. j \in 1 .. Len(list') /\ k \in 1 .. Len(list')
          BY <1>4
        <4>2. \/ j = k
              \/ \E m, n \in 1 .. Len(list) :
                   m # n /\ list'[j] = list[m] /\ list'[k] = list[n]
              \/ list'[j] # list'[k] /\ (list'[j] \in new \/ list'[k] \in new)
          BY <1>3, <4>1, Zenon DEF Spliced
        <4> QED
          BY <1>4, <2>2, <4>2
      <3>3. CASE \E m, n \in DOMAIN list : m # n /\ list'[j] = list[m] /\ list'[k] = list[n]
        BY <2>2, <3>3 DEF Offered, ListInv
      <3>4. CASE list'[j] # list'[k] /\ (list'[j] \in new \/ list'[k] \in new)
        BY <1>8, <2>2, <3>1, <3>4
      <3> QED
        BY <3>2, <3>3, <3>4
    <2> QED
      BY <1>1, <1>2, <2>1, <2>2 DEF ListInv
  <1> QED
    BY <1>6, <1>7, <1>9 DEF Offered

LEMMA InterruptsKeeps ==
  ASSUME TInv, Offered, NEW r \in Runs, NEW asking \in SUBSET Nodes, Interrupts(r, asking),
         run'[r] # "deaf"
  PROVE  Offered'
  <1>1. /\ run[r] = "running" /\ UNCHANGED <<list, event, left>>
        /\ run' = [run EXCEPT ![r] = "interrupted"]
        /\ asking \subseteq MayAsk(r) /\ Resumed(r) \cap Stopped \subseteq asking
        /\ stage' = [n \in Nodes |-> IF n \in asking THEN "stopped" ELSE stage[n]]
    BY Typing DEF Interrupts, To, redis
  <1>2. /\ \A e \in Events : asked'[e] = asked[e]
        /\ \A o \in Runs \ {r} : emit'[o] = emit[o]
        /\ \A e \in emit'[r] : asked'[e] \in Askers(r, asking)
        /\ \A n \in Askers(r, asking) : \E e \in emit'[r] : asked'[e] = n
        /\ \A d, e \in emit'[r] : asked'[d] = asked'[e] => d = e
    BY Raised, Typing DEF TInv
  <1>3. /\ \A o \in Runs : emit[o] = {}
        /\ \A o \in Runs \ {r} : run[o] \notin AtWork /\ run'[o] = run[o] /\ emit'[o] = {}
        /\ run'[r] = "interrupted" /\ r \in Runs
    BY <1>1, <1>2, OthersRest, Typing DEF Offered, WorkInv, AtWork, Handling
  <1>4. Stopped' = Stopped \cup asking
    BY <1>1 DEF Stopped
  <1>5. \A i \in DOMAIN list : asked'[list[i]] = asked[list[i]]
    BY <1>2, Typing
  <1>6. Resumed(r)' = Resumed(r) /\ \A n \in Resumed(r) : stage[n] # "ahead"
    <2>1. \/ event[r] = 0 /\ Resumed(r) = {} /\ Resumed(r)' = {}
          \/ event[r] \in Events /\ Resumed(r) = {asked[event[r]]}
               /\ Resumed(r)' = {asked'[event[r]]}
      BY <1>1, Typing DEF Resumed
    <2>2. \A e \in Events : stage[asked[e]] # "ahead"
      BY DEF TInv, EventInv
    <2> QED
      BY <1>2, <2>1, <2>2
  <1>7. \A n \in asking : n \in Stopped => n \in Resumed(r)
    BY <1>1 DEF MayAsk, Stopped
  <1>8. \A n \in Askers(r, asking) : \/ n \in asking
                                     \/ n \in Receivers /\ n \notin Resumed(r)
    BY DEF Askers, AsksAnew
  <1>9. WorkInv'
    BY <1>3 DEF WorkInv, AtWork, Handling
  <1>10. AwaitedInv'
    <2>1. ASSUME NEW n \in Stopped PROVE \E i \in DOMAIN list' : asked'[list'[i]] = n
      BY <1>1, <1>3, <1>5 DEF Offered, AwaitedInv
    <2>2. ASSUME NEW n \in asking PROVE \E e \in emit'[r] : asked'[e] = n
      BY <1>2 DEF Askers
    <2> QED
      BY <1>3, <1>4, <2>1, <2>2 DEF AwaitedInv
  <1>11. ListInv'
    BY <1>1, <1>4, <1>5 DEF Offered, ListInv
  <1>12. EmitInv'
    <2>1. ASSUME NEW e \in emit'[r], asked'[e] \notin Receivers
          PROVE  /\ asked'[e] \in Stopped'
                 /\ \A d \in emit'[r] : asked'[d] = asked'[e] => d = e
                 /\ \A i \in DOMAIN list : asked'[list[i]] = asked'[e] => asked'[e] \in Resumed(r)
      <3>1. asked'[e] \in asking
        BY <1>2, <1>8, <2>1
      <3>2. ASSUME NEW i \in DOMAIN list, asked'[list[i]] = asked'[e]
            PROVE  asked'[e] \in Resumed(r)
        <4>1. CASE list[i] \notin left
          <5>1. asked'[e] \in Stopped
            BY <1>5, <2>1, <3>2, <4>1 DEF Offered, ListInv
          <5> QED
            BY <1>7, <3>1, <5>1
        <4>2. CASE list[i] \in left
          <5>1. stage[asked'[e]] = "through"
            BY <1>5, <3>2, <4>2 DEF TInv, EventInv
          <5> QED
            BY <1>1, <3>1, <5>1 DEF MayAsk, Stopped
        <4> QED
          BY <4>1, <4>2
      <3> QED
        BY <1>2, <1>4, <3>1, <3>2
    <2> QED
      BY <1>1, <1>3, <1>6, <2>1 DEF EmitInv
  <1>13. HeadInv'
    <2>1. ASSUME Asking(r)' PROVE AtHead(event[r])
      <3>1. PICK e \in emit'[r] : asked'[e] \in Resumed(r)
        BY <1>6, <2>1 DEF Asking
      <3>2. asked'[e] \in asking
        BY <1>2, <1>8, <3>1
      <3>3. asked'[e] \in Stopped
        BY <1>1, <1>6, <3>1, <3>2 DEF MayAsk
      <3> QED
        BY <1>1, <3>1, <3>3 DEF Offered, HeadInv, Answering
    <2> QED
      BY <1>1, <1>3, <2>1 DEF HeadInv, Answering, AtHead, AtWork, Handling
  <1> QED
    BY <1>9, <1>10, <1>11, <1>12, <1>13 DEF Offered

LEMMA RunOffers ==
  ASSUME TInv, Offered, Sound', NEW r \in Runs, RunStep(r) PROVE Offered'
  <1> USE DEF To, row, redis, graph, runs, AtWork, Handling
  <1>0. run \in [Runs -> RunPC] /\ run'[r] # "deaf" /\ r \in Runs
    BY Typing DEF Sound
  <1>1. CASE NodeEnds(r) \/ NodeEndFails(r)
    BY <1>1, NodeEndsKeeps, NodeEndFailsKeeps
  <1>2. CASE PopOld(r)
    BY <1>0, <1>2, PopOldKeeps
  <1>3. CASE SaveEvents(r)
    BY <1>3, SaveEventsKeeps
  <1>4. CASE StoreFails(r)
    BY <1>0, <1>4 DEF StoreFails
  <1>5. CASE Succeeds(r) \/ Fails(r) \/ Cancelled(r)
    <2>1. /\ run[r] = "running" /\ UNCHANGED <<list, stage, asked, emit, event, left>>
          /\ \E p \in {"done", "deaf"} : run' = [run EXCEPT ![r] = p]
      BY <1>5 DEF Succeeds, Fails, Cancelled
    <2>2. \A o \in Runs : run'[o] \notin Handling => emit[o] = {}
      BY <1>0, <2>1 DEF Offered, WorkInv
    <2> QED
      BY <1>0, <2>1, <2>2, Quiet
  <1>6. CASE NoticeCancel(r)
    BY <1>6, Quiet DEF NoticeCancel, Offered, WorkInv
  <1>7. ASSUME NEW asking \in SUBSET Nodes, Interrupts(r, asking) PROVE Offered'
    BY <1>0, <1>7, InterruptsKeeps
  <1> QED
    BY <1>1, <1>2, <1>3, <1>4, <1>5, <1>6, <1>7 DEF RunStep

\* The row is unlocked when nobody runs, and this event is the first.
LEMMA LockOffers ==
  ASSUME TInv, OneRunAtATime, Offered, NEW r \in Runs, TryLock(r), ~stale', Unlocked
  PROVE  Offered'
  <1>1. /\ UNCHANGED <<list, stage, asked, event, emit, left>> /\ AtHead(event[r])
        /\ \A o \in Runs : run[o] \notin Handling
        /\ run' = [run EXCEPT ![r] = "running"]
    BY DEF TryLock, To, redis, graph
  <1>2. \A o \in Runs : run[o] \notin AtWork /\ emit[o] = {}
    BY <1>1 DEF OneRunAtATime, Unlocked, AtWork, Offered, WorkInv
  <1>3. /\ \A o \in Runs : o # r => run'[o] \notin AtWork
        /\ run'[r] = "running" /\ emit' = emit /\ Stopped' = Stopped
    BY <1>1, <1>2, Typing DEF Stopped
  <1>4. WorkInv' /\ EmitInv'
    BY <1>2, <1>3 DEF WorkInv, EmitInv
  <1>5. AwaitedInv' /\ ListInv'
    BY <1>1, <1>3 DEF Offered, AwaitedInv, ListInv
  <1>6. HeadInv'
    BY <1>1, <1>3 DEF HeadInv, Answering, AtHead, AtWork, Handling
  <1> QED
    BY <1>4, <1>5, <1>6 DEF Offered

\* An event that is noted where it stands first changes nothing.
LEMMA UpdateKeepsList ==
  ASSUME TInv, NEW r \in Runs, UpdateFirst(r), ~stale' PROVE UNCHANGED list
  <1>1. UNCHANGED list \/ (list # <<>> /\ list' = [list EXCEPT ![1] = event[r]])
    BY DEF UpdateFirst
  <1>2. list # <<>> => Head(list) = event[r]
    BY DEF UpdateFirst
  <1>3. list \in Seq(Events) /\ (list # <<>> => Head(list) = list[1])
    BY Typing, HeadTailProperties
  <1>4. [list EXCEPT ![1] = list[1]] = list
    BY <1>3
  <1> QED
    BY <1>1, <1>2, <1>3, <1>4

LEMMA ResumeOffers ==
  ASSUME TInv, OneRunAtATime, Offered, Sound', NEW r \in Runs, ResumeStep(r)
  PROVE  Offered'
  <1> USE DEF To, row, redis, graph, runs, AtWork, Handling
  <1>0. run \in [Runs -> RunPC] /\ event \in [Runs -> 0 .. Len(asked)] /\ ~stale'
    BY Typing DEF Sound
  <1>1. ASSUME run[r] \notin AtWork, UNCHANGED <<list, stage, asked, emit, left>>,
               \E p \in {"read", "found", "noted", "refused"} : run' = [run EXCEPT ![r] = p],
               \A o \in Runs \ {r} : event'[o] = event[o]
        PROVE  Offered'
    <2>1. \A o \in Runs : run'[o] \notin Handling => emit[o] = {}
      BY <1>0, <1>1 DEF Offered, WorkInv
    <2>2. \A o \in Runs : run'[o] \in AtWork => run'[o] = run[o] /\ event'[o] = event[o]
      BY <1>0, <1>1
    <2> QED
      BY <1>1, <2>1, <2>2, Quiet
  <1>2. ASSUME NEW e \in Events, ReadStatus(r, e) PROVE Offered'
    BY <1>0, <1>1, <1>2 DEF ReadStatus
  <1>3. CASE GetFirst(r)
    BY <1>1, <1>3 DEF GetFirst
  <1>4. CASE UpdateFirst(r)
    <2>1. /\ run[r] = "found" /\ UNCHANGED <<stage, asked, emit, event, left>>
          /\ \E p \in {"noted", "refused"} : run' = [run EXCEPT ![r] = p]
      BY <1>4 DEF UpdateFirst
    <2>3. UNCHANGED list
      BY <1>0, <1>4, UpdateKeepsList
    <2> QED
      BY <1>1, <2>1, <2>3
  <1>5. CASE TryLock(r)
    <2>1. CASE Unlocked
      BY <1>0, <1>5, <2>1, LockOffers
    <2>2. CASE ~Unlocked
      BY <1>1, <1>5, <2>2 DEF TryLock
    <2> QED
      BY <2>1, <2>2
  <1> QED
    BY <1>2, <1>3, <1>4, <1>5 DEF ResumeStep

LEMMA StepOffers ==
  ASSUME TInv, OneRunAtATime, Offered, Sound', [Next]_vars PROVE Offered'
  <1>1. ASSUME UNCHANGED <<list, stage, asked, run, event, emit, left>> PROVE Offered'
    BY <1>1, Quiet DEF Offered, WorkInv
  <1>2. ASSUME NEW c \in Cancels, CancelStep(c) PROVE Offered'
    BY <1>1, <1>2
    DEF CancelStep, CancelRead, CancelTake, CancelLook, CancelNodes,
        SetWorkflowCancelFlag, redis, graph, runs
  <1>3. CASE UNCHANGED vars
    BY <1>1, <1>3 DEF vars, redis, graph, runs
  <1> QED
    BY <1>2, <1>3, RunOffers, ResumeOffers DEF Next

----------------------------------------------------------------------------
(* Answers.                                                                *)

Gone(e) == \A i \in DOMAIN list : list[i] # e

\* The event of a question that a run has taken is not stored again, and is off
\* the list unless the run is at it or the execution has ended, or the event could
\* not be popped.
SpentInv ==
  \A r \in Runs :
    Resumes(r) /\ asked[event[r]] \notin Receivers /\ event[r] \notin left =>
      /\ \A o \in Runs : event[r] \notin emit[o]
      /\ Gone(event[r]) \/ Answering(r) \/ status \in Ended

OnceInv ==
  \A r, o \in Runs :
    /\ Resumes(r) /\ Resumes(o)
    /\ event[r] = event[o] /\ asked[event[r]] \notin Receivers /\ event[r] \notin left
    => r = o

ListIInv ==
  TInv /\ IInv /\ RowInv /\ (Sound => Offered /\ SpentInv /\ OnceInv)

\* Who has taken an event keeps it; only who gets the lock takes another.
LEMMA Takes ==
  ASSUME TInv, [Next]_vars, NEW o \in Runs, Resumes(o)'
  PROVE  /\ event'[o] = event[o]
         /\ \A e \in Events : asked'[e] = asked[e]
         /\ Resumes(o) \/ (TryLock(o) /\ Unlocked)
         /\ left \subseteq left'
  <1> USE DEF To, row, redis, graph, runs, cancels, Handling, Resumes
  <1>0. run \in [Runs -> RunPC] /\ event \in [Runs -> 0 .. Len(asked)]
    BY Typing
  <1>1. ASSUME NEW r \in Runs, RunStep(r)
        PROVE  /\ UNCHANGED event /\ (run'[o] = run[o] \/ run[r] \in {"running"} \cup Handling)
               /\ (run'[o] = run[o] \/ r = o)
               /\ left \subseteq left'
    BY <1>0, <1>1
    DEF RunStep, NodeEnds, NodeEndFails, PopOld, SaveEvents, StoreFails, Succeeds, Fails,
        NoticeCancel, Cancelled, Interrupts
  <1>2. ASSUME NEW r \in Runs, RunStep(r) PROVE \A e \in Events : asked'[e] = asked[e]
    <2>1. ASSUME NEW asking \in SUBSET Nodes, Interrupts(r, asking)
          PROVE  \A e \in Events : asked'[e] = asked[e]
      BY <2>1, Raised DEF TInv
    <2> QED
      BY <1>2, <2>1
      DEF RunStep, NodeEnds, NodeEndFails, PopOld, SaveEvents, StoreFails, Succeeds, Fails,
          NoticeCancel, Cancelled
  <1>3. ASSUME NEW r \in Runs, ResumeStep(r)
        PROVE  /\ UNCHANGED <<asked, left>> /\ event'[o] = event[o]
               /\ run'[o] = run[o] \/ (o = r /\ TryLock(o) /\ Unlocked)
    <2>1. ASSUME NEW e \in Events, ReadStatus(r, e)
          PROVE  UNCHANGED <<asked, left>> /\ event'[o] = event[o] /\ run'[o] = run[o]
      BY <1>0, <2>1 DEF ReadStatus
    <2>2. CASE GetFirst(r) \/ UpdateFirst(r)
      BY <1>0, <2>2 DEF GetFirst, UpdateFirst
    <2>3. CASE TryLock(r)
      BY <1>0, <2>3 DEF TryLock
    <2> QED
      BY <1>3, <2>1, <2>2, <2>3 DEF ResumeStep
  <1>4. ASSUME NEW c \in Cancels, CancelStep(c) PROVE UNCHANGED <<asked, run, event, left>>
    BY <1>4
    DEF CancelStep, CancelRead, CancelTake, CancelLook, CancelNodes, SetWorkflowCancelFlag
  <1>5. CASE UNCHANGED vars
    BY <1>5 DEF vars
  <1> QED
    BY <1>1, <1>2, <1>3, <1>4, <1>5 DEF Next

\* An event that is first on the list when the row is locked is not taken by
\* anybody else.
LEMMA LockTakesNew ==
  ASSUME TInv, OneRunAtATime, Offered, SpentInv, NEW r \in Runs, TryLock(r), ~stale', Unlocked,
         NEW o \in Runs, Resumes(o), asked[event[o]] \notin Receivers, event[o] \notin left
  PROVE  Gone(event[o]) /\ event[o] # event[r]
  <1>1. AtHead(event[r]) /\ \A p \in Runs : run[p] \notin AtWork
    BY DEF TryLock, OneRunAtATime, Unlocked, AtWork
  <1>2. ~Answering(o) /\ status \notin Ended
    BY <1>1 DEF Answering, AtWork, Handling, Unlocked, Ended
  <1>3. Gone(event[o])
    BY <1>2 DEF SpentInv
  <1>4. 1 \in DOMAIN list /\ list[1] = event[r]
    BY <1>1, Typing, Popped DEF AtHead
  <1> QED
    BY <1>3, <1>4 DEF Gone

LEMMA OnceStep ==
  ASSUME TInv, OneRunAtATime, Offered, SpentInv, OnceInv, Sound', [Next]_vars
  PROVE  OnceInv'
  <1>1. ASSUME NEW r \in Runs, NEW o \in Runs, Resumes(r)', Resumes(o)', event'[r] = event'[o],
               asked'[event'[r]] \notin Receivers, event'[r] \notin left', r # o
        PROVE  FALSE
    <2>1. /\ event[r] = event[o] /\ event[r] \in Events /\ event[r] \notin left
          /\ asked[event[r]] \notin Receivers /\ asked[event[o]] \notin Receivers
      BY <1>1, Takes, Typing DEF Resumes
    <2>2. Resumes(r) \/ (TryLock(r) /\ Unlocked)
      BY <1>1, Takes
    <2>3. Resumes(o) \/ (TryLock(o) /\ Unlocked)
      BY <1>1, Takes
    <2>4. CASE TryLock(r) /\ Unlocked
      <3>1. ~Resumes(o)
        BY <2>1, <2>4, LockTakesNew DEF Sound
      <3>2. run'[o] = run[o]
        BY <1>1, <2>4, Typing DEF TryLock, To
      <3> QED
        BY <1>1, <3>1, <3>2, Takes DEF Resumes, Handling
    <2>5. CASE TryLock(o) /\ Unlocked
      <3>1. ~Resumes(r)
        BY <2>1, <2>5, LockTakesNew DEF Sound
      <3>2. run'[r] = run[r]
        BY <1>1, <2>5, Typing DEF TryLock, To
      <3> QED
        BY <1>1, <3>1, <3>2, Takes DEF Resumes, Handling
    <2>6. CASE Resumes(r) /\ Resumes(o)
      BY <1>1, <2>1, <2>6 DEF OnceInv
    <2> QED
      BY <2>2, <2>3, <2>4, <2>5, <2>6
  <1> QED
    BY <1>1 DEF OnceInv

\* A step that leaves the list, the graph and what is to be stored alone.
LEMMA SpentStays ==
  ASSUME SpentInv, UNCHANGED <<list, stage, asked, emit>>, status \in Ended => status' \in Ended,
         NEW o \in Runs, Resumes(o), event'[o] = event[o], asked[event[o]] \notin Receivers,
         event[o] \notin left,
         Answering(o) => run'[o] = run[o] \/ status' \in Ended
  PROVE  /\ \A p \in Runs : event'[o] \notin emit'[p]
         /\ Gone(event[o])' \/ Answering(o)' \/ status' \in Ended
  <1>1. (\A p \in Runs : event[o] \notin emit[p]) /\ (Gone(event[o]) \/ Answering(o) \/ status \in Ended)
    BY DEF SpentInv
  <1>2. Gone(event[o]) => Gone(event[o])'
    BY DEF Gone
  <1>3. Answering(o) => Answering(o)' \/ status' \in Ended
    <2>1. run'[o] = run[o] => Answering(o)' = Answering(o)
      BY DEF Answering, Asking, Resumed, Stopped
    <2> QED
      BY <2>1
  <1> QED
    BY <1>1, <1>2, <1>3

\* The event of the question that is answered is off the list when it is popped.
LEMMA PoppedIsGone ==
  ASSUME TInv, ListInv, NEW e \in Events, AtHead(e), asked[e] \notin Receivers, e \notin left,
         list' = Tail(list)
  PROVE  Gone(e)'
  <1>1. list \in Seq(Events) /\ list # <<>>
    BY Typing DEF AtHead
  <1>2. list[1] = e /\ 1 \in DOMAIN list
    BY <1>1, Popped DEF AtHead
  <1>3. ASSUME NEW i \in DOMAIN list' PROVE list'[i] # e
    <2>1. i + 1 \in DOMAIN list /\ i + 1 # 1 /\ list'[i] = list[i + 1]
      BY <1>1, Popped
    <2> QED
      BY <1>2, <2>1 DEF ListInv
  <1> QED
    BY <1>3 DEF Gone

LEMMA PoppedStaysGone ==
  ASSUME TInv, NEW e, Gone(e), list # <<>>, list' = Tail(list) PROVE Gone(e)'
  <1>1. list \in Seq(Events)
    BY Typing
  <1>2. \A i \in DOMAIN Tail(list) : i + 1 \in DOMAIN list /\ Tail(list)[i] = list[i + 1]
    BY <1>1, Popped
  <1> QED
    BY <1>2 DEF Gone

LEMMA NodeEndsSpends ==
  ASSUME TInv, Offered, SpentInv, NEW r \in Runs, NodeEnds(r),
         NEW o \in Runs, Resumes(o), asked[event[o]] \notin Receivers, event[o] \notin left
  PROVE  (\A p \in Runs : event[o] \notin emit[p]) /\ (Gone(event[o])' \/ status \in Ended)
  <1>1. run[r] = "running" /\ Answering(r) /\ AtHead(event[r])
    BY DEF NodeEnds, Answering, Offered, HeadInv
  <1>2. /\ list # <<>> /\ list' = Tail(list) /\ event[o] \in Events /\ UNCHANGED event
        /\ \A p \in Runs : event[o] \notin emit[p]
    BY <1>1, Typing DEF NodeEnds, AtHead, Resumes, runs, SpentInv
  <1>3. CASE o = r
    <2>1. \A i \in DOMAIN list' : list'[i] # event[o]
      BY <1>1, <1>2, <1>3, PoppedIsGone DEF Offered, Gone
    <2> QED
      BY <1>2, <2>1 DEF Gone
  <1>4. CASE o # r
    <2>1. ~Answering(o)
      BY <1>1, <1>4, OthersRest DEF Offered, Answering, AtWork, Handling
    <2>2. Gone(event[o]) \/ status \in Ended
      BY <2>1 DEF SpentInv
    <2> QED
      BY <1>2, <2>2, PoppedStaysGone DEF Gone
  <1> QED
    BY <1>3, <1>4

LEMMA PopOldSpends ==
  ASSUME TInv, Offered, SpentInv, NEW r \in Runs, PopOld(r),
         NEW o \in Runs, Resumes(o), asked[event[o]] \notin Receivers, event[o] \notin left
  PROVE  (\A p \in Runs : event[o] \notin emit[p]) /\ (Gone(event[o])' \/ status \in Ended)
  <1>1. run[r] = "interrupted" /\ (Asking(r) => Answering(r) /\ AtHead(event[r]))
    BY DEF PopOld, Answering, Offered, HeadInv
  <1>2. /\ event[o] \in Events /\ UNCHANGED event /\ \A p \in Runs : event[o] \notin emit[p]
        /\ Asking(r) => list # <<>> /\ list' = Tail(list)
        /\ ~Asking(r) => UNCHANGED list
    BY <1>1, Typing DEF PopOld, AtHead, Resumes, Asking, SpentInv
  <1>3. CASE o = r /\ Asking(r)
    <2>1. \A i \in DOMAIN list' : list'[i] # event[o]
      BY <1>1, <1>2, <1>3, PoppedIsGone DEF Offered, Gone
    <2> QED
      BY <1>2, <2>1 DEF Gone
  <1>4. CASE ~(o = r /\ Asking(r))
    <2>1. ~Answering(o)
      BY <1>1, <1>4, OthersRest DEF Offered, Answering, AtWork, Handling
    <2>2. Gone(event[o]) \/ status \in Ended
      BY <2>1 DEF SpentInv
    <2>3. Gone(event[o]) => Gone(event[o])'
      <3>1. CASE Asking(r)
        BY <1>2, <3>1, PoppedStaysGone DEF Gone
      <3>2. CASE ~Asking(r)
        BY <1>2, <3>2 DEF Gone
      <3> QED
        BY <3>1, <3>2
    <2> QED
      BY <1>2, <2>2, <2>3
  <1> QED
    BY <1>3, <1>4

LEMMA SaveEventsSpends ==
  ASSUME TInv, Offered, SpentInv, NEW r \in Runs, SaveEvents(r),
         NEW o \in Runs, Resumes(o), asked[event[o]] \notin Receivers, event[o] \notin left
  PROVE  (\A p \in Runs : event[o] \notin emit[p]) /\ (Gone(event[o])' \/ status \in Ended)
  <1>1. run[r] = "saving"
    BY DEF SaveEvents
  <1>2. ~Answering(o)
    BY <1>1, OthersRest DEF Offered, Answering, AtWork, Handling
  <1>3. (\A p \in Runs : event[o] \notin emit[p]) /\ (Gone(event[o]) \/ status \in Ended)
    BY <1>2 DEF SpentInv
  <1>4. Gone(event[o]) => Gone(event[o])'
    <2>1. list \in Seq(Events) /\ list' \in Seq(Events)
            /\ Spliced(list', list, emit[r] \ Range(list))
      BY Stored, Typing DEF TInv
    <2>2. DOMAIN list = 1 .. Len(list) /\ DOMAIN list' = 1 .. Len(list') /\ UNCHANGED event
      BY <2>1 DEF SaveEvents
    <2>3. ASSUME NEW k \in DOMAIN list'
          PROVE  list'[k] \in emit[r] \/ \E i \in DOMAIN list : list'[k] = list[i]
      BY <2>1, <2>2, <2>3 DEF Spliced
    <2> QED
      BY <1>3, <2>2, <2>3 DEF Gone
  <1> QED
    BY <1>3, <1>4

LEMMA InterruptsSpends ==
  ASSUME TInv, OneRunAtATime, Offered, SpentInv, NEW r \in Runs, NEW asking \in SUBSET Nodes,
         Interrupts(r, asking), run'[r] # "deaf",
         NEW o \in Runs, Resumes(o), asked[event[o]] \notin Receivers, event[o] \notin left
  PROVE  /\ \A p \in Runs : event[o] \notin emit'[p]
         /\ Gone(event[o]) \/ Answering(o)'
  <1>1. /\ run[r] = "running" /\ status = "running" /\ run' = [run EXCEPT ![r] = "interrupted"]
        /\ UNCHANGED event /\ Resumed(r) \cap Stopped \subseteq asking
    BY Typing DEF Interrupts, To
  <1>2. /\ emit' = [emit EXCEPT ![r] = (Len(asked) + 1) .. Len(asked')]
        /\ Len(asked') \in Nat
        /\ \A e \in Events : asked'[e] = asked[e]
        /\ \A n \in Askers(r, asking) : \E e \in emit'[r] : asked'[e] = n
    BY Raised DEF TInv
  <1>3. event[o] \in Events /\ event[o] \notin (Len(asked) + 1) .. Len(asked')
    BY <1>2, Typing DEF Resumes, Events
  <1>4. \A p \in Runs : event[o] \notin emit'[p]
    BY <1>2, <1>3, Typing DEF SpentInv
  <1>5. Gone(event[o]) \/ Answering(o)
    BY <1>1 DEF SpentInv, Ended
  <1>6. CASE o # r
    BY <1>1, <1>4, <1>5, <1>6, OthersRest DEF Offered, Answering, AtWork, Handling
  <1>7. CASE o = r /\ Answering(r)
    <2>1. asked[event[r]] \in asking /\ Resumed(r)' = {asked[event[r]]}
      BY <1>1, <1>2, <1>3, <1>7 DEF Answering, Resumed, Resumes
    <2>2. Asking(r)'
      BY <1>2, <2>1 DEF Asking, Askers
    <2> QED
      BY <1>1, <1>4, <1>7, <2>2, Typing DEF Answering
  <1> QED
    BY <1>4, <1>5, <1>6, <1>7

\* What is left: steps that leave list, graph and emissions alone, and the lock.
LEMMA SpentStep ==
  ASSUME TInv, OneRunAtATime, Offered, SpentInv, KeepsEnd, Sound', [Next]_vars
  PROVE  SpentInv'
  <1> USE DEF To, row, redis, graph, runs, cancels
  <1> SUFFICES ASSUME NEW o \in Runs, Resumes(o)', asked'[event'[o]] \notin Receivers,
                      event'[o] \notin left'
               PROVE  /\ \A p \in Runs : event'[o] \notin emit'[p]
                      /\ Gone(event[o])' \/ Answering(o)' \/ status' \in Ended
    BY DEF SpentInv
  <1>1. /\ event'[o] = event[o] /\ (Resumes(o) \/ (TryLock(o) /\ Unlocked))
        /\ event[o] \in Events /\ asked[event[o]] \notin Receivers /\ event[o] \notin left
    BY Takes, Typing DEF Resumes
  <1>2. status \in Ended => status' \in Ended
    BY DEF KeepsEnd, CancelledLate, Ended
  <1>3. /\ run \in [Runs -> RunPC] /\ emit \in [Runs -> SUBSET Events] /\ list \in Seq(Events)
        /\ ~stale' /\ \A r \in Runs : run'[r] # "deaf"
    BY Typing DEF Sound
  <1>4. CASE TryLock(o) /\ Unlocked
    <2>1. /\ AtHead(event[o]) /\ UNCHANGED <<list, stage, asked, event, emit>>
          /\ run'[o] = "running" /\ \A r \in Runs : run[r] \notin Handling
      BY <1>3, <1>4 DEF TryLock
    <2>2. \A p \in Runs : emit'[p] = {}
      BY <2>1 DEF Offered, WorkInv
    <2>3. list # <<>> /\ list[1] = event[o] /\ 1 \in DOMAIN list
      BY <1>3, <2>1, Popped DEF AtHead
    <2>4. asked[event[o]] \in Stopped
      BY <1>1, <2>3 DEF Offered, ListInv
    <2>5. Answering(o)'
      BY <1>1, <2>1, <2>4 DEF Answering, Resumed, Resumes, Stopped
    <2> QED
      BY <2>2, <2>5
  <1> SUFFICES ASSUME Resumes(o)
               PROVE  /\ \A p \in Runs : event'[o] \notin emit'[p]
                      /\ Gone(event[o])' \/ Answering(o)' \/ status' \in Ended
    BY <1>1, <1>4
  <1>5. ASSUME UNCHANGED <<list, stage, asked, emit>>,
               Answering(o) => run'[o] = run[o] \/ status' \in Ended
        PROVE  /\ \A p \in Runs : event'[o] \notin emit'[p]
               /\ Gone(event[o])' \/ Answering(o)' \/ status' \in Ended
    BY <1>1, <1>2, <1>5, SpentStays
  <1>6. ASSUME NEW r \in Runs, RunStep(r)
        PROVE  /\ \A p \in Runs : event'[o] \notin emit'[p]
               /\ Gone(event[o])' \/ Answering(o)' \/ status' \in Ended
    <2>1. CASE NodeEnds(r)
      BY <1>1, <1>2, <2>1, NodeEndsSpends DEF NodeEnds
    <2>9. CASE NodeEndFails(r)
      <3>1. /\ run[r] = "running" /\ UNCHANGED <<list, event, emit>> /\ event[r] \in left'
        BY <2>9 DEF NodeEndFails
      <3>2. ~Answering(o)
        BY <1>1, <3>1, OthersRest DEF Offered, Answering, AtWork, Handling
      <3> QED
        BY <1>1, <1>2, <3>1, <3>2 DEF SpentInv, Gone
    <2>2. CASE PopOld(r)
      BY <1>1, <1>2, <2>2, PopOldSpends DEF PopOld
    <2>3. CASE SaveEvents(r)
      <3>1. \A p \in Runs : emit'[p] \subseteq emit[p]
        BY <1>3, <2>3 DEF SaveEvents
      <3> QED
        BY <1>1, <1>2, <2>3, <3>1, SaveEventsSpends
    <2>4. CASE StoreFails(r)
      BY <1>3, <2>4 DEF StoreFails
    <2>5. CASE Succeeds(r)
      <3>1. run[r] = "running" /\ Stopped = {} /\ run' = [run EXCEPT ![r] = "done"]
              /\ UNCHANGED <<list, stage, asked, emit>>
        BY <2>5 DEF Succeeds
      <3>2. Answering(o) => run'[o] = run[o]
        BY <1>3, <3>1 DEF Answering
      <3> QED
        BY <1>5, <3>1, <3>2
    <2>6. CASE Fails(r) \/ Cancelled(r)
      <3>1. status' \in Ended /\ UNCHANGED <<list, stage, asked, emit>>
        BY <1>3, <2>6 DEF Fails, Cancelled, UpdateWorkflowExecution, Ended
      <3> QED
        BY <1>5, <3>1
    <2>7. CASE NoticeCancel(r)
      BY <1>5, <2>7 DEF NoticeCancel
    <2>8. ASSUME NEW asking \in SUBSET Nodes, Interrupts(r, asking)
          PROVE  /\ \A p \in Runs : event'[o] \notin emit'[p]
                 /\ Gone(event[o])' \/ Answering(o)' \/ status' \in Ended
      BY <1>1, <1>3, <2>8, InterruptsSpends DEF Interrupts, Gone
    <2> QED
      BY <1>6, <2>1, <2>2, <2>3, <2>4, <2>5, <2>6, <2>7, <2>8, <2>9 DEF RunStep
  <1>7. ASSUME NEW r \in Runs, ResumeStep(r)
        PROVE  /\ \A p \in Runs : event'[o] \notin emit'[p]
               /\ Gone(event[o])' \/ Answering(o)' \/ status' \in Ended
    <2>1. run[r] \in {"idle", "read", "found", "noted"} /\ UNCHANGED <<stage, asked, emit>>
      BY <1>7 DEF ResumeStep, ReadStatus, GetFirst, UpdateFirst, TryLock
    <2>2. \E p \in RunPC : run' = [run EXCEPT ![r] = p]
      BY <1>7 DEF ResumeStep, ReadStatus, GetFirst, UpdateFirst, TryLock, RunPC
    <2>3. Answering(o) => run'[o] = run[o]
      BY <1>3, <2>1, <2>2 DEF Answering
    <2>4. UNCHANGED list
      <3>1. CASE UpdateFirst(r)
        BY <1>3, <3>1, UpdateKeepsList
      <3>2. CASE ~UpdateFirst(r)
        BY <1>7, <3>2 DEF ResumeStep, ReadStatus, GetFirst, TryLock
      <3> QED
        BY <3>1, <3>2
    <2> QED
      BY <1>5, <2>1, <2>3, <2>4
  <1>8. ASSUME NEW c \in Cancels, CancelStep(c)
        PROVE  UNCHANGED <<list, stage, asked, emit, run>>
    BY <1>8
    DEF CancelStep, CancelRead, CancelTake, CancelLook, CancelNodes, SetWorkflowCancelFlag
  <1>9. CASE UNCHANGED vars
    BY <1>5, <1>9 DEF vars
  <1> QED
    BY <1>5, <1>6, <1>7, <1>8, <1>9 DEF Next

LEMMA RowStep ==
  ASSUME TInv, OneRunAtATime, RowInv, [Next]_vars PROVE RowInv'
  <1> USE DEF row, graph, runs
  <1>1. ASSUME UNCHANGED <<row, stage>> \/ status' # "interrupted" PROVE RowInv'
    BY <1>1 DEF RowInv, Stopped
  <1>2. ASSUME NEW r \in Runs, run[r] = "running", status' = status PROVE status' # "interrupted"
    BY <1>2 DEF OneRunAtATime
  <1>3. ASSUME NEW r \in Runs, RunStep(r) PROVE RowInv'
    <2>1. CASE NodeEnds(r) \/ NodeEndFails(r)
      BY <1>1, <1>2, <2>1 DEF NodeEnds, NodeEndFails
    <2>2. CASE PopOld(r) \/ SaveEvents(r) \/ StoreFails(r) \/ NoticeCancel(r)
      BY <1>1, <2>2 DEF PopOld, SaveEvents, StoreFails, NoticeCancel
    <2>3. CASE Succeeds(r) \/ Fails(r) \/ Cancelled(r)
      BY <1>1, <2>3 DEF Succeeds, Fails, Cancelled, UpdateWorkflowExecution
    <2>4. ASSUME NEW asking \in SUBSET Nodes, Interrupts(r, asking) PROVE RowInv'
      <3>1. CASE status = "running"
        <4>1. resuming' = 0 /\ asking \cup Stopped # {}
          BY <2>4, <3>1 DEF Interrupts, UpdateWorkflowExecution
        <4>2. Stopped' = Stopped \cup asking
          BY <2>4 DEF Interrupts, Stopped
        <4> QED
          BY <4>1, <4>2 DEF RowInv
      <3>2. CASE status # "running"
        BY <1>1, <1>2, <2>4, <3>2 DEF Interrupts, UpdateWorkflowExecution
      <3> QED
        BY <3>1, <3>2
    <2> QED
      BY <1>3, <2>1, <2>2, <2>3, <2>4 DEF RunStep
  <1>4. ASSUME NEW r \in Runs, ResumeStep(r) PROVE RowInv'
    BY <1>1, <1>4 DEF ResumeStep, ReadStatus, GetFirst, UpdateFirst, TryLock
  <1>5. ASSUME NEW c \in Cancels, CancelStep(c) PROVE RowInv'
    BY <1>1, <1>5
    DEF CancelStep, CancelRead, CancelTake, CancelLook, CancelNodes,
        SetWorkflowCancelFlag, UpdateWorkflowExecution, CancelAllRunningNodes
  <1>6. CASE UNCHANGED vars
    BY <1>1, <1>6 DEF vars
  <1> QED
    BY <1>3, <1>4, <1>5, <1>6 DEF Next

LEMMA InitListed == Init => ListIInv
  <1> SUFFICES ASSUME Init PROVE ListIInv
    OBVIOUS
  <1>1. TInv /\ IInv
    BY InitTyped, InitInv
  <1>2. RowInv
    BY DEF Init, RowInv
  <1>3. /\ \A r \in Runs : emit[r] = {} /\ Resumed(r) = {} /\ (r # First => run[r] = "idle")
        /\ run[First] = "running" /\ Stopped = {} /\ list = <<>>
    BY FirstAssumption DEF Init, Resumed, Stopped
  <1>4. WorkInv /\ AwaitedInv /\ ListInv /\ EmitInv
    BY <1>3 DEF WorkInv, AwaitedInv, ListInv, EmitInv, AtWork, Handling
  <1>5. HeadInv
    BY <1>3 DEF HeadInv, Answering, Asking
  <1>6. SpentInv /\ OnceInv
    BY <1>3 DEF Init, SpentInv, OnceInv, Resumes
  <1> QED
    BY <1>1, <1>2, <1>4, <1>5, <1>6 DEF ListIInv, Offered

LEMMA Listed == Spec => []ListIInv
  <1>1. ListIInv /\ [Next]_vars => ListIInv'
    <2> SUFFICES ASSUME ListIInv, [Next]_vars PROVE ListIInv'
      OBVIOUS
    <2>1. TInv' /\ IInv' /\ OneRunAtATime /\ KeepsEnd
      BY StepTyped, NextKeeps DEF ListIInv, IInv
    <2>2. RowInv'
      BY <2>1, RowStep DEF ListIInv
    <2>3. Sound' => Offered' /\ SpentInv' /\ OnceInv'
      BY <2>1, SoundBefore, StepOffers, SpentStep, OnceStep DEF ListIInv
    <2> QED
      BY <2>1, <2>2, <2>3 DEF ListIInv
  <1> QED
    BY InitListed, <1>1, PTL DEF Spec

\* The row, the list and the graph agree, whatever requests overlap: what is
\* offered to the user is what waits, once what was raised has been stored, and
\* a question is answered once.
THEOREM RecordFits == Spec => []RecordFitsGraph
  <1>1. ListIInv => RecordFitsGraph
    <2> SUFFICES ASSUME ListIInv PROVE RecordFitsGraph
      OBVIOUS
    <2>1. OneRunAtATime
      BY DEF ListIInv, IInv
    <2>2. ASSUME status = "interrupted", ~stale,
                 \A r \in Runs : run[r] \notin Handling \cup {"deaf"}
          PROVE  /\ resuming = 0 /\ Stopped # {}
                 /\ \A n \in Stopped : \E e \in Range(list) : asked[e] = n
                 /\ ListInv
      <3>1. RowInv /\ Offered /\ \A r \in Runs : emit[r] = {}
        BY <2>2 DEF ListIInv, Sound, Offered, WorkInv
      <3>2. \A i \in DOMAIN list : list[i] \in Range(list)
        BY DEF Range
      <3> QED
        BY <2>2, <3>1, <3>2 DEF RowInv, Offered, AwaitedInv
    <2>3. OffersWhatIsOpen
      BY <2>2 DEF OffersWhatIsOpen, ListInv
    <2>4. AnsweredOnce
      BY DEF ListIInv, Sound, OnceInv, AnsweredOnce
    <2> QED
      BY <2>1, <2>3, <2>4 DEF RecordFitsGraph
  <1> QED
    BY Listed, <1>1, PTL
=============================================================================
