------------------------ MODULE SessionLoop_proofs -------------------------
(***************************************************************************)
(* Proofs about SessionLoop, for any set of sessions and of requests.      *)
(***************************************************************************)
EXTENDS SessionLoop, TLAPS

\* Turns are numbered in the order StartTurn saw them, and a request that has
\* not reached StartTurn has no agent, and a context that nobody can cancel.
BirthOrder ==
  /\ \A t \in Turns : birth[t] <= clock
  /\ \A t, u \in Turns :
       t # u /\ pc[t] # "new" /\ pc[u] # "new" => birth[t] # birth[u]
  /\ \A t \in Turns : pc[t] = "new" => ctx[t] = "live" /\ agent[t] = "none"

IInv == TypeOK /\ BirthOrder /\ RegisteredTurnIsNewest
        /\ LostOnlyToAStaleEnd /\ PreemptedByYounger

\* What a step that neither starts nor ends a turn may do: contexts go from
\* live to something else, only Abort empties a slot.
Quiet ==
  /\ UNCHANGED <<sess, clock, birth>>
  /\ \A t \in Turns : /\ pc'[t] \in PC
                      /\ pc[t] = "new" <=> pc'[t] = "new"
                      /\ pc[t] = "new" => agent'[t] = agent[t]
                      /\ pc[t] = "ended" <=> pc'[t] = "ended"
                      /\ pc'[t] \in {"started", "streaming", "reply"} =>
                           pc[t] \in {"started", "streaming", "reply"}

----------------------------------------------------------------------------
LEMMA InitInv == Init => IInv
  <1> SUFFICES ASSUME Init PROVE IInv
    OBVIOUS
  <1>1. TypeOK
    BY DEF Init, TypeOK, PC, AgentState, CtxState
  <1>2. BirthOrder
    BY DEF Init, BirthOrder
  <1>3. RegisteredTurnIsNewest
    BY DEF Init, RegisteredTurnIsNewest
  <1>4. LostOnlyToAStaleEnd
    BY DEF Init, LostOnlyToAStaleEnd, Active
  <1>5. PreemptedByYounger
    BY DEF Init, PreemptedByYounger
  <1> QED
    BY <1>1, <1>2, <1>3, <1>4, <1>5 DEF IInv

LEMMA StepTypeOK == TypeOK /\ [Next]_vars => TypeOK'
  <1> SUFFICES ASSUME TypeOK, [Next]_vars PROVE TypeOK'
    OBVIOUS
  <1> USE DEF TypeOK, PC, AgentState, CtxState
  <1>1. ASSUME NEW t \in Turns, StartTurn(t) PROVE TypeOK'
    BY <1>1 DEF StartTurn, Cancelled
  <1>2. ASSUME NEW t \in Turns, HandlerStep(t) PROVE TypeOK'
    <2>1. CASE ChatStreams(t)
      BY <2>1 DEF ChatStreams
    <2>2. CASE ChatRefuses(t)
      BY <2>2 DEF ChatRefuses
    <2>3. CASE StreamEnds(t)
      BY <2>3 DEF StreamEnds
    <2>4. CASE WriteFails(t)
      BY <2>4 DEF WriteFails
    <2>5. CASE Reply(t)
      BY <2>5 DEF Reply, ClosingEvents
    <2>6. CASE EndTurn(t)
      BY <2>6 DEF EndTurn
    <2> QED
      BY <1>2, <2>1, <2>2, <2>3, <2>4, <2>5, <2>6 DEF HandlerStep
  <1>3. ASSUME NEW t \in Turns, AgentCompletes(t) \/ AgentFails(t) \/ AgentStops(t) \/ AgentLapses(t)
        PROVE TypeOK'
    BY <1>3 DEF AgentCompletes, AgentFails, AgentStops, AgentLapses, AgentMoves
  <1>4. ASSUME NEW t \in Turns, ClientLeaves(t) PROVE TypeOK'
    BY <1>4 DEF ClientLeaves, Cancelled
  <1>5. ASSUME NEW t \in Turns, Expire(t) PROVE TypeOK'
    BY <1>5 DEF Expire
  <1>6. ASSUME NEW s \in Sessions, Abort(s) PROVE TypeOK'
    BY <1>6 DEF Abort, Cancelled
  <1>7. CASE UNCHANGED vars
    BY <1>7 DEF vars
  <1> QED
    BY <1>1, <1>2, <1>3, <1>4, <1>5, <1>6, <1>7 DEF Next

\* A step that moves no slot and cancels nothing for the session loop's own
\* reasons keeps the invariant.
LEMMA QuietStep ==
  ASSUME IInv, TypeOK', Quiet, UNCHANGED cancel,
         \A t \in Turns : \/ ctx'[t] = ctx[t]
                          \/ pc[t] # "new" /\ ctx'[t] \notin {"live", "preempted", "aborted"}
  PROVE  IInv'
  <1> USE DEF IInv, TypeOK, PC
  <1>1. BirthOrder'
    BY DEF BirthOrder, Quiet
  <1>2. RegisteredTurnIsNewest'
    BY NoTurnAssumption DEF RegisteredTurnIsNewest, Open, Quiet
  <1>3. LostOnlyToAStaleEnd'
    BY DEF LostOnlyToAStaleEnd, Active, Quiet
  <1>4. PreemptedByYounger'
    BY DEF PreemptedByYounger, Quiet
  <1> QED
    BY <1>1, <1>2, <1>3, <1>4

LEMMA StartStep ==
  ASSUME IInv, TypeOK', NEW t \in Turns, StartTurn(t) PROVE IInv'
  <1> DEFINE s == sess[t]
  <1> USE DEF IInv, TypeOK, StartTurn, PC
  <1>1. /\ s \in Sessions /\ pc[t] = "new" /\ cancel' = [cancel EXCEPT ![s] = t]
        /\ \A u \in Turns : u # t => pc'[u] = pc[u] /\ birth'[u] = birth[u]
        /\ pc'[t] = "started" /\ birth'[t] = clock + 1 /\ clock' = clock + 1
        /\ sess' = sess
    OBVIOUS
  <1>2. cancel[s] # t
    BY <1>1, NoTurnAssumption DEF RegisteredTurnIsNewest, Open
  <1>3. ctx'[t] = "live"
    BY <1>1, <1>2 DEF BirthOrder
  <1>4. \A u \in Turns : \/ ctx'[u] = ctx[u]
                         \/ u = cancel[s] /\ ctx'[u] = "preempted"
    BY DEF Cancelled
  <1>5. BirthOrder'
    <2>1. \A u \in Turns : birth'[u] <= clock'
      BY <1>1 DEF BirthOrder
    <2>2. \A u, v \in Turns :
            u # v /\ pc'[u] # "new" /\ pc'[v] # "new" => birth'[u] # birth'[v]
      BY <1>1 DEF BirthOrder
    <2>3. \A u \in Turns : pc'[u] = "new" => ctx'[u] = "live" /\ agent'[u] = "none"
      BY <1>1, <1>4, NoTurnAssumption DEF BirthOrder, RegisteredTurnIsNewest, Open
    <2> QED
      BY <2>1, <2>2, <2>3 DEF BirthOrder
  <1>6. RegisteredTurnIsNewest'
    <2> SUFFICES ASSUME NEW r \in Sessions, NEW v \in Turns, cancel'[r] = v
                 PROVE  /\ sess[v] = r
                        /\ pc'[v] \in {"started", "streaming", "reply", "ending"}
                        /\ ctx'[v] \notin {"preempted", "aborted"}
                        /\ \A u \in Turns : sess[u] = r /\ pc'[u] # "new" => birth'[u] <= birth'[v]
      BY <1>1 DEF RegisteredTurnIsNewest, Open
    <2>1. CASE r = s
      BY <2>1, <1>1, <1>3 DEF BirthOrder
    <2>2. CASE r # s
      <3>1. cancel[r] = v /\ v # NoTurn
        BY <2>2, <1>1, NoTurnAssumption
      <3>2. /\ sess[v] = r /\ pc[v] \in {"started", "streaming", "reply", "ending"}
            /\ ctx[v] \notin {"preempted", "aborted"}
            /\ \A u \in Turns : sess[u] = r /\ pc[u] # "new" => birth[u] <= birth[v]
        BY <3>1 DEF RegisteredTurnIsNewest, Open
      <3>3. v # t /\ cancel[s] # v
        BY <3>2, <2>2, <1>1, NoTurnAssumption DEF RegisteredTurnIsNewest
      <3> QED
        BY <2>2, <3>2, <3>3, <1>1, <1>4
    <2> QED
      BY <2>1, <2>2
  <1>7. LostOnlyToAStaleEnd'
    <2> SUFFICES ASSUME NEW v \in Turns, Active(v)', cancel'[sess'[v]] # v
                 PROVE  \E u \in Turns : sess'[u] = sess'[v] /\ pc'[u] = "ended"
                                          /\ birth'[u] < birth'[v]
      BY DEF LostOnlyToAStaleEnd
    <2>1. v # t
      BY <1>1
    <2>2. Active(v) /\ cancel[sess[v]] # v
      BY <2>1, <1>1, <1>4 DEF Active, Cancelled
    <2>3. PICK u \in Turns : sess[u] = sess[v] /\ pc[u] = "ended" /\ birth[u] < birth[v]
      BY <2>2 DEF LostOnlyToAStaleEnd
    <2> QED
      BY <2>1, <2>3, <1>1
  <1>8. PreemptedByYounger'
    <2> SUFFICES ASSUME NEW v \in Turns, ctx'[v] = "preempted"
                 PROVE  \E u \in Turns : sess'[u] = sess'[v] /\ pc'[u] # "new"
                                          /\ birth'[v] < birth'[u]
      BY DEF PreemptedByYounger
    <2>1. v # t
      BY <1>3
    <2>2. CASE v = cancel[s]
      <3>1. sess[v] = s /\ birth[v] <= clock
        BY <2>2, <1>1, NoTurnAssumption DEF RegisteredTurnIsNewest, BirthOrder
      <3> QED
        BY <2>1, <3>1, <1>1
    <2>3. CASE ctx[v] = "preempted"
      <3>1. PICK u \in Turns : sess[u] = sess[v] /\ pc[u] # "new" /\ birth[v] < birth[u]
        BY <2>3 DEF PreemptedByYounger
      <3> QED
        BY <2>1, <3>1, <1>1
    <2> QED
      BY <2>2, <2>3, <1>4
  <1> QED
    BY <1>5, <1>6, <1>7, <1>8

LEMMA EndStep ==
  ASSUME IInv, TypeOK', NEW t \in Turns, EndTurn(t) PROVE IInv'
  <1> USE DEF IInv, TypeOK, EndTurn, PC
  <1>1. /\ pc[t] = "ending" /\ pc'[t] = "ended"
        /\ \A u \in Turns : u # t => pc'[u] = pc[u]
        /\ cancel'[sess[t]] = NoTurn
        /\ \A r \in Sessions : r # sess[t] => cancel'[r] = cancel[r]
        /\ sess' = sess /\ ctx' = ctx /\ birth' = birth /\ clock' = clock
    OBVIOUS
  <1>2. BirthOrder'
    BY <1>1 DEF BirthOrder
  <1>3. RegisteredTurnIsNewest'
    BY <1>1, NoTurnAssumption DEF RegisteredTurnIsNewest, Open
  <1>4. LostOnlyToAStaleEnd'
    <2> SUFFICES ASSUME NEW v \in Turns, Active(v)', cancel'[sess'[v]] # v
                 PROVE  \E u \in Turns : sess'[u] = sess'[v] /\ pc'[u] = "ended"
                                          /\ birth'[u] < birth'[v]
      BY DEF LostOnlyToAStaleEnd
    <2>1. v # t /\ Active(v)
      BY <1>1 DEF Active
    <2>2. CASE cancel[sess[v]] # v
      <3>1. PICK u \in Turns : sess[u] = sess[v] /\ pc[u] = "ended" /\ birth[u] < birth[v]
        BY <2>1, <2>2 DEF LostOnlyToAStaleEnd
      <3> QED
        BY <3>1, <1>1
    <2>3. CASE cancel[sess[v]] = v
      <3>1. sess[v] = sess[t]
        BY <2>3, <1>1
      <3>2. birth[t] <= birth[v]
        BY <2>3, <3>1, <1>1, NoTurnAssumption DEF RegisteredTurnIsNewest
      <3>3. birth[t] # birth[v]
        BY <2>1, <1>1 DEF BirthOrder, Active
      <3> QED
        BY <3>1, <3>2, <3>3, <1>1
    <2> QED
      BY <2>2, <2>3
  <1>5. PreemptedByYounger'
    BY <1>1 DEF PreemptedByYounger
  <1> QED
    BY <1>2, <1>3, <1>4, <1>5

LEMMA AbortStep ==
  ASSUME IInv, TypeOK', NEW s \in Sessions, Abort(s) PROVE IInv'
  <1> USE DEF IInv, TypeOK, Abort
  <1>1. \A t \in Turns : \/ ctx'[t] = ctx[t]
                         \/ t = cancel[s] /\ ctx'[t] = "aborted"
    BY DEF Cancelled
  <1>2. BirthOrder'
    BY <1>1, NoTurnAssumption DEF BirthOrder, RegisteredTurnIsNewest, Open
  <1>3. RegisteredTurnIsNewest'
    BY <1>1, NoTurnAssumption DEF RegisteredTurnIsNewest, Open
  <1>4. LostOnlyToAStaleEnd'
    BY <1>1, NoTurnAssumption DEF LostOnlyToAStaleEnd, Active, Cancelled
  <1>5. PreemptedByYounger'
    BY <1>1 DEF PreemptedByYounger
  <1> QED
    BY <1>2, <1>3, <1>4, <1>5

----------------------------------------------------------------------------
LEMMA StepInv == IInv /\ [Next]_vars => IInv'
  <1> SUFFICES ASSUME IInv, [Next]_vars PROVE IInv'
    OBVIOUS
  <1>0. TypeOK'
    BY StepTypeOK DEF IInv
  <1>1. ASSUME NEW t \in Turns, StartTurn(t) PROVE IInv'
    BY <1>0, <1>1, StartStep
  <1>2. ASSUME NEW t \in Turns, HandlerStep(t) PROVE IInv'
    <2>1. CASE EndTurn(t)
      BY <1>0, <2>1, EndStep
    <2>2. CASE ChatStreams(t) \/ ChatRefuses(t) \/ StreamEnds(t) \/ WriteFails(t) \/ Reply(t)
      <3>1. Quiet /\ UNCHANGED <<cancel, ctx>>
        BY <2>2, <1>0 DEF IInv, TypeOK, Quiet, PC, ChatStreams, ChatRefuses, StreamEnds,
                          WriteFails, Reply
      <3> QED
        BY <1>0, <3>1, QuietStep
    <2> QED
      BY <1>2, <2>1, <2>2 DEF HandlerStep
  <1>3. ASSUME NEW t \in Turns, AgentCompletes(t) \/ AgentFails(t) \/ AgentStops(t) \/ AgentLapses(t)
        PROVE IInv'
    <2>1. Quiet /\ UNCHANGED <<cancel, ctx>>
      BY <1>3, <1>0 DEF IInv, BirthOrder, TypeOK, Quiet, AgentCompletes, AgentFails, AgentStops, AgentLapses, AgentMoves
    <2> QED
      BY <1>0, <2>1, QuietStep
  <1>4. ASSUME NEW t \in Turns, ClientLeaves(t) PROVE IInv'
    <2>1. Quiet /\ UNCHANGED cancel
      BY <1>4, <1>0 DEF TypeOK, Quiet, ClientLeaves
    <2>2. \A u \in Turns : \/ ctx'[u] = ctx[u]
                           \/ pc[u] # "new" /\ ctx'[u] \notin {"live", "preempted", "aborted"}
      BY <1>4 DEF ClientLeaves, Cancelled, Open, IInv, TypeOK
    <2> QED
      BY <1>0, <2>1, <2>2, QuietStep
  <1>5. ASSUME NEW t \in Turns, Expire(t) PROVE IInv'
    <2>1. Quiet /\ UNCHANGED cancel
      BY <1>5, <1>0 DEF TypeOK, Quiet, Expire
    <2>2. \A u \in Turns : \/ ctx'[u] = ctx[u]
                           \/ pc[u] # "new" /\ ctx'[u] \notin {"live", "preempted", "aborted"}
      BY <1>5 DEF Expire, Open, IInv, BirthOrder, TypeOK
    <2> QED
      BY <1>0, <2>1, <2>2, QuietStep
  <1>6. ASSUME NEW s \in Sessions, Abort(s) PROVE IInv'
    BY <1>0, <1>6, AbortStep
  <1>7. CASE UNCHANGED vars
    BY <1>7 DEF vars, IInv, TypeOK, BirthOrder, RegisteredTurnIsNewest, LostOnlyToAStaleEnd,
                PreemptedByYounger, Open, Active
  <1> QED
    BY <1>1, <1>2, <1>3, <1>4, <1>5, <1>6, <1>7 DEF Next

LEMMA Inductive == Spec => []IInv
  BY InitInv, StepInv, PTL DEF Spec

\* Every variable keeps its type (TypeOK), whatever requests arrive.
THEOREM TypeCorrect == Spec => []TypeOK
  <1>1. IInv => TypeOK
    BY DEF IInv
  <1> QED
    BY <1>1, Inductive, PTL

\* Abort and preemption only ever reach the newest turn of their session, and
\* never one that has ended.
THEOREM RegistrationIsSafe == Spec => []RegisteredTurnIsNewest
  <1>1. IInv => RegisteredTurnIsNewest
    BY DEF IInv
  <1> QED
    BY <1>1, Inductive, PTL

\* The only way an active turn escapes Abort and preemption is that an older
\* turn of its session ended while it ran.
THEOREM OnlyStaleEndsLoseTurns == Spec => []LostOnlyToAStaleEnd
  <1>1. IInv => LostOnlyToAStaleEnd
    BY DEF IInv
  <1> QED
    BY <1>1, Inductive, PTL

\* A turn is preempted only by a younger turn of its own session.
THEOREM PreemptionIsByYounger == Spec => []PreemptedByYounger
  <1>1. IInv => PreemptedByYounger
    BY DEF IInv
  <1> QED
    BY <1>1, Inductive, PTL

----------------------------------------------------------------------------
(* What a plain client is told.                                            *)

\* The agent goroutine exists from the call on, a handler replies after it has
\* ended, and it is cut short only by the end of its context; a handler on its
\* way to EndTurn has told its client already.
AgentInv ==
  \A t \in Turns :
    /\ pc[t] \in {"new", "started"} => agent[t] = "none"
    /\ pc[t] = "streaming" => agent[t] # "none"
    /\ pc[t] = "reply" => agent[t] \notin {"none", "running"}
    /\ agent[t] = "cut" => ctx[t] # "live"
    /\ t \notin Structured /\ pc[t] = "ending" /\ ctx[t] = "live" /\ ~gone[t] =>
         sent[t] \cap {"done", "error"} # {}

DoneInv == TypeOK /\ AgentInv /\ PlainDoneUnlessStopped

LEMMA InitDone == Init => DoneInv
  BY InitInv DEF IInv, DoneInv, Init, AgentInv, PlainDoneUnlessStopped

\* Contexts do not come back to life, nor clients that have left.
LEMMA NoReturn ==
  ASSUME TypeOK, [Next]_vars, NEW t \in Turns
  PROVE  /\ ctx'[t] = "live" => ctx[t] = "live"
         /\ gone[t] => gone'[t]
  BY DEF TypeOK, Next, vars, StartTurn, HandlerStep, ChatStreams, ChatRefuses, StreamEnds,
         WriteFails, Reply, EndTurn, AgentCompletes, AgentFails, AgentStops, AgentLapses, AgentMoves,
         ClientLeaves, Expire, Abort, Cancelled

LEMMA DoneStep == DoneInv /\ [Next]_vars => DoneInv'
  <1> SUFFICES ASSUME DoneInv, [Next]_vars PROVE DoneInv'
    OBVIOUS
  <1> USE DEF DoneInv, AgentInv, PlainDoneUnlessStopped
  <1>0. /\ TypeOK /\ TypeOK'
        /\ \A t \in Turns : /\ ctx'[t] = "live" => ctx[t] = "live"
                            /\ gone[t] => gone'[t]
    BY StepTypeOK, NoReturn
  <1>1. ASSUME UNCHANGED <<agent, sent>>,
               \A t \in Turns : \/ pc'[t] = pc[t]
                                \/ pc[t] = "new" /\ pc'[t] = "started"
                                \/ pc[t] = "ending" /\ pc'[t] = "ended"
                                \/ gone[t] /\ pc'[t] = "ending"
        PROVE  DoneInv'
    BY <1>0, <1>1
  <1>2. CASE \/ UNCHANGED vars \/ \E s \in Sessions : Abort(s)
             \/ \E t \in Turns : \/ StartTurn(t) \/ WriteFails(t) \/ EndTurn(t)
                                 \/ ClientLeaves(t) \/ Expire(t)
    <2>1. UNCHANGED <<agent, sent>>
      BY <1>2 DEF vars, Abort, StartTurn, WriteFails, EndTurn, ClientLeaves, Expire
    <2>2. CASE \E t \in Turns : StartTurn(t) \/ EndTurn(t)
      BY <1>0, <1>1, <2>1, <2>2 DEF StartTurn, EndTurn, TypeOK
    <2>3. ASSUME NEW t \in Turns, WriteFails(t)
          PROVE  DoneInv'
      <3>1. gone[t] /\ pc' = [pc EXCEPT ![t] = "ending"]
        BY <2>3 DEF WriteFails
      <3>2. pc \in [Turns -> PC]
        BY <1>0 DEF TypeOK
      <3>3. \A u \in Turns : \/ pc'[u] = pc[u]
                             \/ gone[u] /\ pc'[u] = "ending"
        BY <3>1, <3>2
      <3> QED
        BY <1>1, <2>1, <3>3
    <2>4. CASE UNCHANGED pc
      BY <1>0, <1>1, <2>1, <2>4
    <2> QED
      BY <1>2, <2>2, <2>3, <2>4 DEF vars, Abort, ClientLeaves, Expire
  <1>3. ASSUME NEW t \in Turns, ChatStreams(t) \/ ChatRefuses(t)
        PROVE  DoneInv'
    <2>1. CASE ChatStreams(t)
      BY <1>0, <2>1 DEF ChatStreams, TypeOK
    <2>2. CASE ChatRefuses(t)
      <3>1. /\ \A u \in Turns \ {t} : sent'[u] = sent[u] /\ pc'[u] = pc[u] /\ agent'[u] = agent[u]
            /\ sent'[t] = {"error"} /\ pc'[t] \in {"reply", "ending"} /\ agent'[t] = "failed"
            /\ UNCHANGED <<ctx, gone>>
        BY <1>0, <2>2 DEF ChatRefuses, TypeOK
      <3> QED
        BY <1>0, <3>1
    <2> QED
      BY <1>3, <2>1, <2>2
  <1>4. ASSUME NEW t \in Turns, StreamEnds(t)
        PROVE  DoneInv'
    BY <1>0, <1>4 DEF StreamEnds, TypeOK
  <1>5. ASSUME NEW t \in Turns, Reply(t)
        PROVE  DoneInv'
    <2>1. t \notin Structured =>
            /\ "done" \in ClosingEvents(t) => agent[t] \in {"complete", "failed", "lapsed"}
            /\ ctx[t] = "live" => "done" \in ClosingEvents(t)
      BY <1>0, <1>5 DEF Reply, ClosingEvents, TypeOK, AgentState
    <2>2. /\ \A u \in Turns \ {t} : sent'[u] = sent[u] /\ pc'[u] = pc[u]
          /\ sent'[t] = sent[t] \cup ClosingEvents(t) /\ pc'[t] = "ending"
          /\ UNCHANGED <<agent, ctx, gone>>
      BY <1>0, <1>5 DEF Reply, TypeOK
    <2> QED
      BY <1>0, <2>1, <2>2
  <1>6. ASSUME NEW t \in Turns, AgentCompletes(t) \/ AgentFails(t) \/ AgentStops(t) \/ AgentLapses(t)
        PROVE  DoneInv'
    BY <1>0, <1>6 DEF AgentCompletes, AgentFails, AgentStops, AgentLapses, AgentMoves, TypeOK
  <1> QED
    BY <1>2, <1>3, <1>4, <1>5, <1>6 DEF Next, HandlerStep

\* [DONE] is read only by a plain client whose turn was not stopped, and by each
\* of those that stay and get no error.
THEOREM DoneUnlessStopped == Spec => []PlainDoneUnlessStopped
  <1>1. DoneInv => PlainDoneUnlessStopped
    BY DEF DoneInv
  <1> QED
    BY <1>1, InitDone, DoneStep, PTL DEF Spec
============================================================================
