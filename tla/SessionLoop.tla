---------------------------- MODULE SessionLoop ----------------------------
(***************************************************************************)
(* The turn lifecycle of a chat session: agentdef.SessionLoop              *)
(* (pkg/agentdef/session_loop.go) driven by the chat handlers of           *)
(* api/handler/coze/chat_sse.go.                                           *)
(*                                                                         *)
(* A turn is one POST /chat/stream request.  It runs in two goroutines:    *)
(* the handler (pc) and the agent that fills the token channel (agent).    *)
(* The handler registers the turn's cancel function for its session,       *)
(* relays the channel, writes a closing event and finally calls EndTurn.   *)
(* Any request may be overtaken at any point by a StartTurn or an Abort    *)
(* of the same session.                                                    *)
(***************************************************************************)
EXTENDS Naturals

CONSTANTS Sessions,         \* session identifiers
          Turns,            \* chat requests
          Structured,       \* those that ask for A2UI events, not plain text
          Leavers,          \* those whose client may disconnect
          Lapsing,          \* those whose agent may end a cut answer by itself
          NoTurn,           \* a nil cancel function
          TurnTimeout,      \* TRUE when TURN_TIMEOUT_SECONDS is set
          SenseDisconnect   \* TRUE when the server cancels the request context
                            \* of a client that has gone

ASSUME NoTurnAssumption == NoTurn \notin Turns
ASSUME RequestsAssumption == Structured \cup Leavers \cup Lapsing \subseteq Turns
ASSUME FlagsAssumption == TurnTimeout \in BOOLEAN /\ SenseDisconnect \in BOOLEAN

VARIABLES sess,       \* the session a request names
          pc,         \* where its handler is
          agent,      \* what its agent goroutine is doing
          ctx,        \* its turn context: live, or the first cause of its end
          sent,       \* the closing events written to its client
          gone,       \* whether its client has disconnected
          cancel,     \* per session, the turn whose cancel function is stored
          clock,      \* number of turns started so far
          birth       \* when a turn was started

vars == <<sess, pc, agent, ctx, sent, gone, cancel, clock, birth>>

PC == {"new", "started", "streaming", "reply", "ending", "ended"}
AgentState == {"none", "running", "complete", "failed", "lapsed", "cut"}
CtxState == {"live", "preempted", "aborted", "expired", "disconnected"}

Open(t) == pc[t] \in {"started", "streaming", "reply", "ending"}

\* A turn the user would call active: still answering, and not told to stop.
Active(t) == pc[t] \in {"started", "streaming", "reply"} /\ ctx[t] = "live"

\* Cancelling a context twice keeps the first cause.
Cancelled(c, why) == IF c = "live" THEN why ELSE c

\* ctx.Err() of the request context that the turn context derives from.
ParentDone(t) == SenseDisconnect /\ gone[t]

Init ==
  /\ sess \in [Turns -> Sessions]
  /\ pc = [t \in Turns |-> "new"]
  /\ agent = [t \in Turns |-> "none"]
  /\ ctx = [t \in Turns |-> "live"]
  /\ sent = [t \in Turns |-> {}]
  /\ gone = [t \in Turns |-> FALSE]
  /\ cancel = [s \in Sessions |-> NoTurn]
  /\ clock = 0
  /\ birth = [t \in Turns |-> 0]

----------------------------------------------------------------------------
(* The handler goroutine of HandleChatStream.                              *)

\* Bug: the entry keeps the context instead of its cancel function.
StartTurn_StoresContext(t) ==
  /\ pc[t] = "new"
  /\ pc' = [pc EXCEPT ![t] = "started"]
  /\ cancel' = [cancel EXCEPT ![sess[t]] = ctx[t]]
  /\ UNCHANGED <<sess, agent, ctx, sent, gone, clock, birth>>

\* Bug: the slot is overwritten first, so the turn cancels itself.
StartTurn_CancelsItself(t) ==
  /\ pc[t] = "new"
  /\ pc' = [pc EXCEPT ![t] = "started"]
  /\ ctx' = [ctx EXCEPT ![t] = "preempted"]
  /\ cancel' = [cancel EXCEPT ![sess[t]] = t]
  /\ clock' = clock + 1
  /\ birth' = [birth EXCEPT ![t] = clock + 1]
  /\ UNCHANGED <<sess, agent, sent, gone>>

\* SessionLoop.StartTurn: cancel the registered turn of the session, then
\* register this one in its place.
StartTurn(t) ==
  /\ pc[t] = "new"
  /\ pc' = [pc EXCEPT ![t] = "started"]
  /\ ctx' = [u \in Turns |->
               IF u = cancel[sess[t]] THEN Cancelled(ctx[u], "preempted") ELSE ctx[u]]
  /\ cancel' = [cancel EXCEPT ![sess[t]] = t]
  /\ clock' = clock + 1
  /\ birth' = [birth EXCEPT ![t] = clock + 1]
  /\ UNCHANGED <<sess, agent, sent, gone>>

\* agent.Chat returns a channel that the agent goroutine fills.
ChatStreams(t) ==
  /\ pc[t] = "started"
  /\ pc' = [pc EXCEPT ![t] = "streaming"]
  /\ agent' = [agent EXCEPT ![t] = "running"]
  /\ UNCHANGED <<sess, ctx, sent, gone, cancel, clock, birth>>

\* agent.Chat returns an error: a structured turn gets an error event and an
\* already closed stream, a plain one an HTTP 500 and no further check.
ChatRefuses(t) ==
  /\ pc[t] = "started"
  /\ pc' = [pc EXCEPT ![t] = IF t \in Structured THEN "reply" ELSE "ending"]
  /\ agent' = [agent EXCEPT ![t] = "failed"]
  /\ sent' = [sent EXCEPT ![t] = {"error"}]
  /\ UNCHANGED <<sess, ctx, gone, cancel, clock, birth>>

\* Bug: the relay waits for a completed answer.
StreamEnds_WaitsForAnswer(t) ==
  /\ pc[t] = "streaming"
  /\ agent[t] = "complete"
  /\ pc' = [pc EXCEPT ![t] = "reply"]
  /\ sent' = [sent EXCEPT ![t] = IF t \in Structured THEN @ \cup {"done"} ELSE @]
  /\ UNCHANGED <<sess, agent, ctx, gone, cancel, clock, birth>>

\* The relay loop sees the channel closed.  For a structured turn the relay
\* of EventAgent.ChatWithEvents has appended a done event to whatever came.
StreamEnds(t) ==
  /\ pc[t] = "streaming"
  /\ agent[t] # "running"
  /\ pc' = [pc EXCEPT ![t] = "reply"]
  /\ sent' = [sent EXCEPT ![t] = IF t \in Structured THEN @ \cup {"done"} ELSE @]
  /\ UNCHANGED <<sess, agent, ctx, gone, cancel, clock, birth>>

\* A write to a departed client fails: the handler leaves the channel to a
\* draining goroutine and returns.
WriteFails(t) ==
  /\ pc[t] = "streaming"
  /\ gone[t]
  /\ pc' = [pc EXCEPT ![t] = "ending"]
  /\ UNCHANGED <<sess, agent, ctx, sent, gone, cancel, clock, birth>>

\* Bug: [DONE] is written whenever the channel closes.
ClosingEvents_Unchecked(t) ==
  IF t \in Structured
  THEN IF ctx[t] # "live" /\ ~ParentDone(t) THEN {"preempted"} ELSE {}
  ELSE {"done"}

ClosingEvents(t) ==
  IF t \in Structured
  THEN IF ctx[t] # "live" /\ ~ParentDone(t) THEN {"preempted"} ELSE {}
  ELSE IF ctx[t] = "live" THEN {"done"} ELSE {}

\* The closing event, chosen by looking at the turn context once more.
Reply(t) ==
  /\ pc[t] = "reply"
  /\ pc' = [pc EXCEPT ![t] = "ending"]
  /\ sent' = [sent EXCEPT ![t] = @ \cup ClosingEvents(t)]
  /\ UNCHANGED <<sess, agent, ctx, gone, cancel, clock, birth>>

\* Bug: the finished turn's cancel function stays registered.
EndTurn_KeepsSlot(t) ==
  /\ pc[t] = "ending"
  /\ pc' = [pc EXCEPT ![t] = "ended"]
  /\ UNCHANGED <<sess, agent, ctx, sent, gone, cancel, clock, birth>>

\* The deferred SessionLoop.EndTurn: it clears the session's slot whichever
\* turn is registered there.
EndTurn(t) ==
  /\ pc[t] = "ending"
  /\ pc' = [pc EXCEPT ![t] = "ended"]
  /\ cancel' = [cancel EXCEPT ![sess[t]] = NoTurn]
  /\ UNCHANGED <<sess, agent, ctx, sent, gone, clock, birth>>

----------------------------------------------------------------------------
(* The agent goroutine, the client and the clock.                          *)

AgentMoves(t, outcome) ==
  /\ agent[t] = "running"
  /\ agent' = [agent EXCEPT ![t] = outcome]
  /\ UNCHANGED <<sess, pc, ctx, sent, gone, cancel, clock, birth>>

\* The agent delivers its last token.
AgentCompletes(t) == AgentMoves(t, "complete")

\* The agent emits an [error] token and closes the channel.
AgentFails(t) == AgentMoves(t, "failed")

\* The agent finds ctx.Done() at its next check and drops the rest.
AgentStops(t) == ctx[t] # "live" /\ AgentMoves(t, "cut")

\* The agent drops the rest and closes the channel without an error, for a
\* reason of its own that the turn context does not show: its middleware gives
\* it a time limit (the child context of timeoutAgent), or the model's stream
\* breaks under an agent with tools.
AgentLapses(t) == t \in Lapsing /\ AgentMoves(t, "lapsed")

\* The client closes its connection.
ClientLeaves(t) ==
  /\ t \in Leavers
  /\ Open(t)
  /\ ~gone[t]
  /\ gone' = [gone EXCEPT ![t] = TRUE]
  /\ ctx' = [ctx EXCEPT ![t] = IF SenseDisconnect THEN Cancelled(@, "disconnected") ELSE @]
  /\ UNCHANGED <<sess, pc, agent, sent, cancel, clock, birth>>

\* Bug: EndTurn stops the timer of a turn whose agent is still draining.
Expire_OnlyWhileOpen(t) ==
  /\ TurnTimeout
  /\ Open(t)
  /\ ctx[t] = "live"
  /\ ctx' = [ctx EXCEPT ![t] = "expired"]
  /\ UNCHANGED <<sess, pc, agent, sent, gone, cancel, clock, birth>>

\* The per-turn deadline passes.
Expire(t) ==
  /\ TurnTimeout
  /\ agent[t] = "running" \/ Open(t)
  /\ ctx[t] = "live"
  /\ ctx' = [ctx EXCEPT ![t] = "expired"]
  /\ UNCHANGED <<sess, pc, agent, sent, gone, cancel, clock, birth>>

\* What /chat/abort answers.
Aborted(s) == cancel[s] # NoTurn

\* Bug: the slot is emptied without calling the cancel function in it.
Abort_DoesNotCancel(s) ==
  /\ cancel' = [cancel EXCEPT ![s] = NoTurn]
  /\ UNCHANGED <<sess, pc, agent, ctx, sent, gone, clock, birth>>

\* SessionLoop.Abort, called by HandleChatAbort.
Abort(s) ==
  /\ ctx' = [t \in Turns |->
               IF t = cancel[s] THEN Cancelled(ctx[t], "aborted") ELSE ctx[t]]
  /\ cancel' = [cancel EXCEPT ![s] = NoTurn]
  /\ UNCHANGED <<sess, pc, agent, sent, gone, clock, birth>>

----------------------------------------------------------------------------
HandlerStep(t) == \/ ChatStreams(t) \/ ChatRefuses(t) \/ StreamEnds(t)
                  \/ WriteFails(t) \/ Reply(t) \/ EndTurn(t)

Next ==
  \/ \E t \in Turns : \/ StartTurn(t) \/ HandlerStep(t)
                      \/ AgentCompletes(t) \/ AgentFails(t) \/ AgentStops(t) \/ AgentLapses(t)
                      \/ ClientLeaves(t) \/ Expire(t)
  \/ \E s \in Sessions : Abort(s)

Spec == Init /\ [][Next]_vars

\* Goroutines are scheduled, agents look at ctx.Done() again and again, and
\* deadlines pass.  Nothing makes an agent finish of its own accord.
FairSpec ==
  /\ Spec
  /\ \A t \in Turns : WF_vars(HandlerStep(t)) /\ WF_vars(AgentStops(t)) /\ WF_vars(Expire(t))

----------------------------------------------------------------------------
(* Properties.                                                             *)

TypeOK ==
  /\ sess \in [Turns -> Sessions]
  /\ pc \in [Turns -> PC]
  /\ agent \in [Turns -> AgentState]
  /\ ctx \in [Turns -> CtxState]
  /\ sent \in [Turns -> SUBSET {"done", "preempted", "error"}]
  /\ gone \in [Turns -> BOOLEAN]
  /\ cancel \in [Sessions -> Turns \cup {NoTurn}]
  /\ clock \in Nat
  /\ birth \in [Turns -> Nat]

\* The cancel function stored for a session belongs to the newest turn of that
\* session, which has not ended and was neither preempted nor aborted: an abort
\* or a preemption never hits a finished turn, nor the turn of another session.
RegisteredTurnIsNewest ==
  \A s \in Sessions : LET t == cancel[s] IN
    t # NoTurn =>
      /\ sess[t] = s
      /\ Open(t)
      /\ ctx[t] \notin {"preempted", "aborted"}
      /\ \A u \in Turns : sess[u] = s /\ pc[u] # "new" => birth[u] <= birth[t]

\* An active turn can be out of reach of Abort and of preemption, but only once
\* an older turn of the same session has ended while it ran: nothing else loses
\* a registration.
LostOnlyToAStaleEnd ==
  \A t \in Turns :
    Active(t) /\ cancel[sess[t]] # t =>
      \E u \in Turns : sess[u] = sess[t] /\ pc[u] = "ended" /\ birth[u] < birth[t]

\* A turn whose context says preempted was overtaken by a younger turn of its
\* own session.
PreemptedByYounger ==
  \A t \in Turns :
    ctx[t] = "preempted" =>
      \E u \in Turns : sess[u] = sess[t] /\ pc[u] # "new" /\ birth[t] < birth[u]

\* [DONE] tells a plain-text client that its turn was not stopped, and no more:
\* one that receives it has all that the agent sent before closing the channel
\* by itself, be it the whole answer, an error or what came before a lapse; and
\* one that stays and is never stopped does receive it, or an error.
PlainDoneUnlessStopped ==
  \A t \in Turns \ Structured :
    /\ "done" \in sent[t] => agent[t] \in {"complete", "failed", "lapsed"}
    /\ pc[t] = "ended" /\ ctx[t] = "live" /\ ~gone[t] =>
         sent[t] \cap {"done", "error"} # {}

\* A turn told to stop does stop: its agent and its handler finish.
CancelledTurnEnds ==
  \A t \in Turns :
    Open(t) /\ ctx[t] # "live" ~> pc[t] = "ended" /\ agent[t] # "running"

\* With a turn timeout no agent runs for ever, not even one that lost its
\* registration or whose client has gone.
DeadlineBoundsEveryAgent ==
  \A t \in Turns : agent[t] = "running" ~> agent[t] # "running"

\* "Returns true if there was an active turn, false otherwise."
AbortReportsActiveTurn ==
  \A s \in Sessions : (\E t \in Turns : sess[t] = s /\ Active(t)) => Aborted(s)
============================================================================
