------------------------- MODULE WorkflowExecution -------------------------
(***************************************************************************)
(* One execution of a workflow that stops to ask the user                  *)
(* (backend/domain/workflow): its row in the database, the list of its     *)
(* interrupt events and its cancel flag in Redis, and the graph's          *)
(* checkpoint.  A run of the graph and the goroutine that handles its      *)
(* events (HandleExecuteEvent), the requests that resume the execution     *)
(* (StreamResume, Prepare) and those that cancel it (Cancel) share them;   *)
(* none of them holds a lock over more than one call.                      *)
(*                                                                         *)
(* An interrupt event is its number, in the order of GenID; asked says     *)
(* which node raised it.  The execution is a root one, with Cancellable    *)
(* set and a checkpoint, and all its nodes that ask are at the top level.  *)
(***************************************************************************)
EXTENDS Naturals, FiniteSets, Sequences, SequencesExt

CONSTANTS Nodes,      \* the nodes that may ask
          Receivers,  \* those that are input nodes; the others are questions
          Runs,       \* the first run and the requests to resume
          First,      \* the first run
          Cancels,    \* requests to cancel
          None,
          MaxEvents   \* bound: interrupt events raised

ASSUME NodesAssumption ==
  IsFiniteSet(Nodes) /\ Receivers \subseteq Nodes /\ None \notin Nodes
ASSUME FirstAssumption == First \in Runs
ASSUME EventsAssumption == MaxEvents \in Nat

VARIABLES status, resuming,  \* the row: status, resume_event_id
          list,      \* interrupt_event_list
          previous,  \* node of previous_resumed_event
          flag,      \* workflow:cancel:status
          stage,     \* of each node that may ask, in the checkpoint
          asked,     \* node of each interrupt event raised so far
          run,       \* where each run, or request to resume, is
          event,     \* the event it resumes; 0 for the first run
          emit,      \* the events it has raised and not stored
          ctx,       \* runs whose context has been cancelled
          cancel,    \* where each request to cancel is
          seen,      \* the status it has read first
          stale,     \* history: a request took an event that was not open
          left       \* history: events that could not be popped when answered

row == <<status, resuming>>
redis == <<list, previous, flag>>
graph == <<stage, asked>>
runs == <<run, event, emit, ctx>>
cancels == <<cancel, seen>>
vars == <<row, redis, graph, runs, cancels, stale, left>>

Open == {"running", "interrupted"}
Ended == {"success", "failed", "cancel"}
Status == Open \cup Ended
Handling == {"interrupted", "saving"}
RunPC == {"idle", "read", "found", "noted", "refused", "running", "done", "deaf"}
           \cup Handling
CancelPC == {"idle", "read", "claimed", "missed", "flagging", "finishing", "done"}
Events == 1 .. Len(asked)

Stopped == {n \in Nodes : stage[n] = "stopped"}
\* The node that a run resumes, in a set.
Resumed(r) == IF event[r] = 0 THEN {} ELSE {asked[event[r]]}
AtHead(e) == list # <<>> /\ Head(list) = e

Init ==
  /\ status = "running" /\ resuming = 0
  /\ list = <<>> /\ previous = None /\ flag = FALSE
  /\ stage = [n \in Nodes |-> "ahead"] /\ asked = <<>>
  /\ run = [r \in Runs |-> IF r = First THEN "running" ELSE "idle"]
  /\ event = [r \in Runs |-> 0] /\ emit = [r \in Runs |-> {}] /\ ctx = {}
  /\ cancel = [c \in Cancels |-> "idle"]
  /\ seen = [c \in Cancels |-> "running"]
  /\ stale = FALSE /\ left = {}

To(r, p) == run' = [run EXCEPT ![r] = p]
CancelTo(c, p) == cancel' = [cancel EXCEPT ![c] = p]

-----------------------------------------------------------------------------
(* The row.  UpdateWorkflowExecution also writes the resuming event, which *)
(* none of its callers gives.                                              *)

UpdateWorkflowExecution(new, allowed) ==
  IF status \in allowed THEN status' = new /\ resuming' = 0
                        ELSE UNCHANGED row

CancelAllRunningNodes == status' = "cancel" /\ UNCHANGED resuming

Unlocked == status = "interrupted" /\ resuming = 0

-----------------------------------------------------------------------------
(* A run: the graph, and the handler of its events.                        *)

\* The resumed node ends: its event goes if it is the first of the list.
\* (The look and the pop, two calls, are one step here.)
NodeEnds(r) ==
  /\ run[r] = "running"
  /\ \E n \in Resumed(r) \cap Stopped : stage' = [stage EXCEPT ![n] = "through"]
  /\ list' = IF AtHead(event[r]) THEN Tail(list) ELSE list
  /\ UNCHANGED <<row, previous, flag, asked, runs, cancels, stale, left>>

\* Redis fails at the look or the pop of what is first: the handler notes the
\* error and goes on, and the event of an answer that was taken stays there.
NodeEndFails(r) ==
  /\ run[r] = "running" /\ AtHead(event[r])
  /\ \E n \in Resumed(r) \cap Stopped : stage' = [stage EXCEPT ![n] = "through"]
  /\ left' = left \cup {event[r]}
  /\ UNCHANGED <<row, redis, asked, runs, cancels, stale>>

\* A question may ask when the graph reaches it, or again when it is answered;
\* one that is not answered stays stopped and raises nothing.
MayAsk(r) == {n \in Nodes : stage[n] = "ahead"} \cup ((Resumed(r) \cap Stopped) \ Receivers)

\* An input node that is not resumed raises a new event each time: it looks
\* for the mark of the time before, which it never sets.
AsksAnew(r) == (Receivers \cap Stopped) \ Resumed(r)

\* The graph stops, and its handler marks the row.
Interrupts(r, asking) ==
  /\ run[r] = "running" /\ asking \subseteq MayAsk(r)
  /\ Resumed(r) \cap Stopped \subseteq asking
  /\ asking \cup Stopped # {}
  /\ Len(asked) + Cardinality(asking \cup AsksAnew(r)) <= MaxEvents
  /\ \E order \in SetToSeqs(asking \cup AsksAnew(r)) :
       /\ asked' = asked \o order
       /\ emit' = [emit EXCEPT ![r] = (Len(asked) + 1) .. Len(asked')]
  /\ stage' = [n \in Nodes |-> IF n \in asking THEN "stopped" ELSE stage[n]]
  /\ UpdateWorkflowExecution("interrupted", {"running"})
  /\ To(r, IF status = "running" THEN "interrupted" ELSE "deaf")
  /\ UNCHANGED <<redis, event, ctx, cancels, stale, left>>

\* Mutant: the event of a question that asks again stays on the list.
PopOld_Keeps(r) ==
  /\ run[r] = "interrupted"
  /\ To(r, "saving")
  /\ UNCHANGED <<row, redis, graph, event, emit, ctx, cancels, stale, left>>

\* A question that asks again replaces its event, which no end has removed.
PopOld(r) ==
  /\ run[r] = "interrupted"
  /\ IF \E e \in emit[r] : asked[e] \in Resumed(r)
       THEN /\ list' = IF list = <<>> THEN list ELSE Tail(list)
            /\ To(r, IF AtHead(event[r]) THEN "saving" ELSE "deaf")
       ELSE To(r, "saving") /\ UNCHANGED list
  /\ UNCHANGED <<row, previous, flag, graph, event, emit, ctx, cancels, stale, left>>

\* SaveInterruptEvents, and the end of the run.  The new event of the node
\* that was answered last goes first, the others go last, in the order in which
\* the graph names the nodes it stopped at.
SaveEvents(r) ==
  LET new == emit[r] \ Range(list)
      top == {e \in new : asked[e] = previous} IN
  /\ run[r] = "saving"
  /\ \E first \in SetToSeqs(top), rest \in SetToSeqs(new \ top) :
       list' = first \o list \o rest
  /\ emit' = [emit EXCEPT ![r] = {}]
  /\ To(r, "done")
  /\ UNCHANGED <<row, previous, flag, graph, event, ctx, cancels, stale, left>>

\* Redis fails in between: the handler waits on for an event that ends it.
StoreFails(r) ==
  /\ run[r] \in Handling
  /\ To(r, "deaf")
  /\ UNCHANGED <<row, redis, graph, event, emit, ctx, cancels, stale, left>>

Succeeds(r) ==
  /\ run[r] = "running" /\ Stopped = {}
  /\ UpdateWorkflowExecution("success", {"running"})
  /\ To(r, "done")
  /\ UNCHANGED <<redis, graph, event, emit, ctx, cancels, stale, left>>

Fails(r) ==
  /\ run[r] = "running"
  /\ UpdateWorkflowExecution("failed", {"running"})
  /\ To(r, IF status = "running" THEN "done" ELSE "deaf")
  /\ UNCHANGED <<redis, graph, event, emit, ctx, cancels, stale, left>>

\* At the start of the run (OnStart), or at a tick of the handler.
NoticeCancel(r) ==
  /\ run[r] = "running" /\ flag /\ r \notin ctx
  /\ ctx' = ctx \cup {r}
  /\ UNCHANGED <<row, redis, graph, run, event, emit, cancels, stale, left>>

\* The graph ends with context.Canceled.  The nodes and the row are written
\* without a condition; the update that follows finds the row cancelled.
Cancelled(r) ==
  /\ run[r] = "running" /\ r \in ctx
  /\ status' = "cancel" /\ resuming' = 0
  /\ To(r, "done")
  /\ UNCHANGED <<redis, graph, event, emit, ctx, cancels, stale, left>>

-----------------------------------------------------------------------------
(* A request to resume.                                                    *)

\* StreamResume; e is the event the request names.
ReadStatus(r, e) ==
  /\ run[r] = "idle"
  /\ event' = [event EXCEPT ![r] = e]
  /\ To(r, IF status = "interrupted" THEN "read" ELSE "refused")
  /\ UNCHANGED <<row, redis, graph, emit, ctx, cancels, stale, left>>

GetFirst(r) ==
  /\ run[r] = "read"
  /\ To(r, IF AtHead(event[r]) THEN "found" ELSE "refused")
  /\ UNCHANGED <<row, redis, graph, event, emit, ctx, cancels, stale, left>>

\* Mutant: the previous event is kept by its number, not by its node.
UpdateFirst_ById(r) ==
  /\ run[r] = "found" /\ asked[event[r]] \notin Receivers /\ list # <<>>
  /\ list' = [list EXCEPT ![1] = event[r]]
  /\ previous' = event[r]
  /\ To(r, "noted")
  /\ UNCHANGED <<row, flag, graph, event, emit, ctx, cancels, stale, left>>

\* The answer is put into the event, which overwrites whatever is first now.
UpdateFirst(r) ==
  /\ run[r] = "found" /\ asked[event[r]] \notin Receivers
  /\ IF list = <<>>
       THEN To(r, "refused") /\ UNCHANGED <<list, previous>>
       ELSE /\ list' = [list EXCEPT ![1] = event[r]]
            /\ previous' = asked[event[r]]
            /\ To(r, "noted")
  /\ stale' = (stale \/ (list # <<>> /\ Head(list) # event[r]))
  /\ UNCHANGED <<row, flag, graph, event, emit, ctx, cancels, left>>

\* The row is locked and the graph starts again from its checkpoint.
TryLock(r) ==
  /\ \/ run[r] = "noted"
     \/ run[r] = "found" /\ asked[event[r]] \in Receivers
  /\ \/ /\ Unlocked
        /\ status' = "running" /\ resuming' = event[r]
        /\ To(r, "running")
        /\ stale' = (stale \/ ~AtHead(event[r]) \/ \E o \in Runs : run[o] \in Handling)
     \/ /\ ~Unlocked
        /\ To(r, "refused")
        /\ UNCHANGED <<row, stale>>
  /\ UNCHANGED <<redis, graph, event, emit, ctx, cancels, left>>

-----------------------------------------------------------------------------
(* A request to cancel (impl.Cancel).                                      *)

\* Mutant: no early return for an execution that has ended.
CancelRead_Always(c) ==
  /\ cancel[c] = "idle"
  /\ seen' = [seen EXCEPT ![c] = status]
  /\ CancelTo(c, "read")
  /\ UNCHANGED <<row, redis, graph, runs, stale, left>>

CancelRead(c) ==
  /\ cancel[c] = "idle"
  /\ seen' = [seen EXCEPT ![c] = status]
  /\ CancelTo(c, IF status \in Open THEN "read" ELSE "done")
  /\ UNCHANGED <<row, redis, graph, runs, stale, left>>

\* The update hits the row, or misses it and then reads what it is.
CancelTake(c) ==
  /\ cancel[c] = "read"
  /\ UpdateWorkflowExecution("cancel", {"interrupted"})
  /\ CancelTo(c, IF status = "interrupted" THEN "claimed" ELSE "missed")
  /\ UNCHANGED <<redis, graph, runs, seen, stale, left>>

\* Mutant: the request leaves a running execution to its handler, unflagged.
CancelLook_NoFlag(c) ==
  /\ cancel[c] = "missed"
  /\ CancelTo(c, IF status = "running" THEN "done" ELSE "finishing")
  /\ UNCHANGED <<row, redis, graph, runs, seen, stale, left>>

CancelLook(c) ==
  /\ cancel[c] = "missed"
  /\ CancelTo(c, IF status = "running" THEN "flagging" ELSE "finishing")
  /\ UNCHANGED <<row, redis, graph, runs, seen, stale, left>>

CancelNodes(c) ==
  /\ cancel[c] \in {"claimed", "finishing"}
  /\ CancelAllRunningNodes
  /\ CancelTo(c, IF cancel[c] = "claimed" THEN "flagging" ELSE "done")
  /\ UNCHANGED <<redis, graph, runs, seen, stale, left>>

SetWorkflowCancelFlag(c) ==
  /\ cancel[c] = "flagging"
  /\ flag' = TRUE
  /\ CancelTo(c, "done")
  /\ UNCHANGED <<row, list, previous, graph, runs, seen, stale, left>>

-----------------------------------------------------------------------------
RunStep(r) ==
  \/ NodeEnds(r) \/ NodeEndFails(r) \/ PopOld(r) \/ SaveEvents(r) \/ StoreFails(r)
  \/ Succeeds(r) \/ Fails(r) \/ NoticeCancel(r) \/ Cancelled(r)
  \/ \E asking \in SUBSET Nodes : Interrupts(r, asking)

ResumeStep(r) ==
  \/ \E e \in Events : ReadStatus(r, e)
  \/ GetFirst(r) \/ UpdateFirst(r) \/ TryLock(r)

CancelStep(c) ==
  \/ CancelRead(c) \/ CancelTake(c) \/ CancelLook(c) \/ CancelNodes(c)
  \/ SetWorkflowCancelFlag(c)

Next ==
  \/ \E r \in Runs : RunStep(r) \/ ResumeStep(r)
  \/ \E c \in Cancels : CancelStep(c)

Spec == Init /\ [][Next]_vars

\* The ticker of a handler ticks, and a graph whose context is cancelled
\* comes to its end.
FairSpec ==
  /\ Spec
  /\ \A r \in Runs : WF_vars(NoticeCancel(r)) /\ WF_vars(Cancelled(r))

-----------------------------------------------------------------------------
(* Properties.                                                             *)

TypeOK ==
  /\ status \in Status /\ resuming \in 0 .. Len(asked)
  /\ list \in Seq(Events) /\ previous \in Nodes \cup {None} /\ flag \in BOOLEAN
  /\ stage \in [Nodes -> {"ahead", "stopped", "through"}] /\ asked \in Seq(Nodes)
  /\ run \in [Runs -> RunPC] /\ event \in [Runs -> 0 .. Len(asked)]
  /\ emit \in [Runs -> SUBSET Events] /\ ctx \subseteq Runs
  /\ cancel \in [Cancels -> CancelPC] /\ seen \in [Cancels -> Status]
  /\ stale \in BOOLEAN /\ left \subseteq Events

\* The graph of an execution never runs twice at a time, and while it runs
\* the row says so, unless a cancel has reached it first.
OneRunAtATime ==
  /\ \A r, o \in Runs : run[r] = "running" /\ run[o] = "running" => r = o
  /\ \A r \in Runs : run[r] = "running" => status \in {"running", "cancel"}

\* What can be resumed is what waits: when the row says interrupted and the
\* events have been stored, nothing keeps the row from being locked, every
\* stopped node has an event on the list, a question only one, and nothing
\* else is listed but what input nodes have left behind, and the event of an
\* answer that Redis did not let go.
OffersWhatIsOpen ==
  (/\ status = "interrupted" /\ ~stale
   /\ \A r \in Runs : run[r] \notin Handling \cup {"deaf"}) =>
    /\ resuming = 0 /\ Stopped # {}
    /\ \A n \in Stopped : \E e \in Range(list) : asked[e] = n
    /\ \A i, j \in DOMAIN list :
         asked[list[i]] \notin Receivers /\ list[i] \notin left =>
           /\ asked[list[i]] \in Stopped
           /\ asked[list[j]] = asked[list[i]] => i = j

\* A question is answered once: however many requests name its event, one of
\* them at most has the graph resumed with it, unless it could not be popped.
Resumes(r) == event[r] # 0 /\ run[r] \in {"running", "done"} \cup Handling

AnsweredOnce ==
  (~stale /\ \A r \in Runs : run[r] # "deaf") =>
    \A r, o \in Runs :
      /\ Resumes(r) /\ Resumes(o)
      /\ event[r] = event[o] /\ asked[event[r]] \notin Receivers /\ event[r] \notin left
      => r = o

\* The row, the list and the graph agree.
RecordFitsGraph == OneRunAtATime /\ OffersWhatIsOpen /\ AnsweredOnce

\* An execution that has ended stays as it ended.  The exception is a
\* request to cancel that read the row while it was open.
CancelledLate ==
  /\ status' = "cancel"
  /\ \E c \in Cancels : cancel[c] = "finishing" /\ seen[c] \in Open

EndIsFinal == [][(status \in Ended) => (status' = status \/ CancelledLate)]_vars

\* Once a request to cancel has returned, the execution ends; if it stops to
\* ask first, it is left with the flag that ends it when it is resumed.
CancelTakesEffect ==
  \A c \in Cancels :
    cancel[c] = "done" ~> status \in Ended \/ (status = "interrupted" /\ flag)
=============================================================================
