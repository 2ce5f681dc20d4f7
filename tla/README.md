# superagent-base, specified and checked in TLA+

superagent-base is a Go server that runs AI agents described in YAML: it builds
agents from definitions, streams their answers over SSE, lets users pre-empt,
abort, confirm and resume them, orchestrates agents and workflows, routes calls
between models, and emits webhooks.  It was forked from Coze Studio, whose
workflow engine (`backend/domain/workflow`) and web front end (`frontend/`) it
keeps; its own logic is under `backend/pkg/`.  This project models four parts of
the last, the workflow execution of the first, and two clients that hold state
in the second.  Each module is translated from the Go or TypeScript source; the
line ranges are in `PROJECT.json` under `map`.

## 1. Inventory

Paths are relative to `src/backend/`, those of the front end to
`src/frontend/packages/`.

| component | state it keeps | operations | how it meets the others | what is hard | what makes it correct |
|---|---|---|---|---|---|
| **Session loop** `pkg/agentdef/session_loop.go`, `api/handler/coze/chat_sse.go`, `pkg/agentdef/event_agent.go` | per session, the cancel function of the running turn | StartTurn, EndTurn, Abort; the stream handler; the agent goroutine | wraps every chat request; cancels the agent through its context | handlers of one session interleave; a preempted handler finishes late; clients leave; deadlines | an abort or a newer message reaches exactly the turn that is answering; what the client is told matches what happened |
| **Interrupt / resume** `pkg/agentdef/interrupt.go`, `infra/checkpoint` | per pod a map of pending interrupts with expiry, a shared checkpoint store | Chat (detect, save), GetInterruptState, Resume, clear | resume handler of `chat_sse.go`; Redis or memory store; replaced whenever the runtime rebuilds the agent | two copies of every state, several pods, restarts, failed store calls, expiry, capacity | a confirmation is acted on once, on the question that is pending, and not after it expired |
| **Agent runtime and hot reload** `pkg/agentdef/{runtime,reload,loader,watcher}.go` | registry of built agents, registry of definitions | buildAll in two passes, ReloadDir, change events, watcher debounce, admin reload | builder resolves sub-agents in the registry; handlers look agents up | two reloads at once, events of an old reload after a new one, agents that hold other agents | the registry ends up equal to the directory; an agent that exists is not removed |
| **Model routing** `pkg/modelrouter` | per endpoint a circuit breaker, EMAs of latency and success, sample counts | RecordSuccess/Failure, IsOpen, Select, Route, Reload | chat agents and failover middleware report outcomes | late outcomes, probes shared by callers, state read and changed by a predicate | a failing endpoint is kept out for its cooldown and let back only by probes |
| **Webhooks** `pkg/webhook` | subscriptions, delivery logs, a bounded queue, workers | Emit, deliver with retries, Start, Stop, CRUD in memory, Redis or MySQL | every subsystem emits events | queue full, shutdown, deletion while a delivery runs, read-modify-write on Redis | every accepted task is delivered or logged; nothing is delivered twice after success |
| **DAG executor** `pkg/dag` | per run: outputs, executed marks, stream channel | sequential and parallel Execute, branch selection, snapshots | graph agents | branches that are not taken, joins, failures in a wave, cancellation | a node runs at most once, after its predecessors, and only on a taken branch |
| **Workflow agents** `pkg/agentdef/workflow_builder.go`, `workflow_state.go` | per run: node outputs and variables | level by level execution, fail-fast and best-effort | nodes call registered agents | siblings cancelled, panics, a cancelled parent | a node sees the outputs of the levels before it; a failure is reported |
| **Orchestration** `pkg/agentdef/{orchestration,orchestration_delegate,plan_execute,agentloop}.go` | per run: round, delegation results | supervisor rounds, parallel delegation, sequential and parallel agents | call sub-agents of the runtime | concurrent delegations, timeouts, abort of the rest | every delegation has one result, rounds are bounded |
| **Agent middleware** `pkg/agentdef/{mw_*,middleware_wrappers}.go`, `pkg/tool/middleware.go` | rate-limit buckets, caches | retry, timeout, fallback, rate limit, cache | wrap agents and tools | abandoned goroutines keep running, cache stampede | limits hold; a retry does not duplicate what a timeout abandoned |
| **MCP client** `pkg/mcp` | connected clients, configs, pending requests | Connect, Disconnect, reconnect, Send/response matching over stdio and SSE | tools of agents | the memory map and the table are written apart; a dead subprocess; late responses | what is persisted is what is connected; every request is answered or fails |
| **A2UI event stream** `pkg/a2ui` | buffered channel and closed flag | Send, SendDone, Close | agents and tools produce, the handler consumes | producers on several goroutines race with Close | no event after close, no panic |
| **Evolution** `pkg/evolution` | experience genes and capsules | collect asynchronously, aggregate: decay, prune, consolidate | agents record outcomes | bounded background work, drain at shutdown, read-modify-write | no use is lost or counted twice |
| **Logs and traces** `pkg/logs/broadcaster.go`, `pkg/observe/tracestore.go` | ring buffers, subscribers, active traces | Publish, Subscribe, Record | admin console | a history replay that races with publishing | a subscriber sees every entry once and in order, or knows it lost some |
| **Workflow lifecycle** `pkg/wflifecycle`, `pkg/taskgroup`, `pkg/execute` | stages, groups of goroutines | Prepare, Execute, Finalize; Go, Wait | workflow engine | panics, cancellation | Finalize always runs |
| **Skills, memory, tenants, RBAC** `pkg/{skill,memory,tenant,rbac,ctxcache,kvstore}` | caches, stores | CRUD | agents | mostly sequential | |
| **Coze workflow execution** `domain/workflow` | an execution's row in MySQL; in Redis its list of interrupt events, the last resumed event and a cancel flag | run, interrupt, resume, cancel | HTTP API, the event handler of the execution's pod | resumes, cancels and the event handler meet on the same row and list | one resume per interrupt event; a cancelled execution does not go on |
| **Coze platform** `api`, `application`, `domain/*`, `infra`, `bizpkg`, `crossdomain`, `types` | relational data | CRUD | | thin; generated models | |
| **Chat client** `common/chat-area/{chat-area,chat-core}`, `arch/fetch-stream` | the waiting store (waiting, responding, sending), the action lock, a map of abort handles, per send two listeners, per stream a timer | send, regenerate, resume, stop, clear; chunks, end, error and stall of a stream | POSTs to the chat API; streams reach the store through two emitters | sends, streams and their time-outs interleave at awaits; handles and local ids are shared | one reply streams at a time, whoever waits stops waiting, an ack reaches its sender |
| **Workflow editor** `workflow/playground` | the canvas, two debounce timers, saves under way, the state of a test run, read-only flags | edit, save, test run with polling, pause and continue, reload, template | saves and runs through the workflow API | overlapping saves, saves against runs, reloads that switch listening and read-only | no edit is lost in silence, the canvas is not left locked, whoever waits for a save goes on |
| **Other languages and clients** `../python`, `../java`, `../sdk`, `../sdks`, `../web`, the rest of `../frontend` | clients, UI, a smaller runtime | | HTTP | outside the Go server | |

### Hazards of the parts that are not modelled yet

`PROJECT.json` lists the hazards of the modelled parts with their lines.  In the
others, and in what a model leaves out:

- `Resume` clears the state before it calls the inner agent, so a failed call
  loses the question (`pkg/agentdef/interrupt.go:189`); the key of a state has
  no agent name, so two interruptable agents that share Redis and a session
  overwrite each other's (267).
- An edit between the first reading of the directory and the installation of the
  watcher goes unseen (`pkg/agentdef/runtime.go:112`); orchestration agents that
  hold orchestration agents are built in map order (260).
- `WithFailFast` can only set what is set already (`pkg/dag/executor.go:67`).
- `IsOpen` is a predicate that hands out the probe
  (`pkg/modelrouter/circuit_breaker.go:157`): a strategy that only compares
  candidates uses it up.
- `Stop` closes the webhook queue while `Emit` may still send on it
  (`pkg/webhook/dispatcher.go:99`); workers that see the context end leave tasks
  behind (89); `UpdateSubscription` reads and then writes, so a deletion in
  between is undone (`redis_store.go:115`).
- A parent that is cancelled while the nodes of a level wait for a slot leaves no
  error, and the next level starts (`pkg/agentdef/workflow_builder.go:487`).
- A delegation that sees the abort flag returns its zero value, which is
  aggregated (`pkg/agentdef/orchestration_delegate.go:225`).
- Connect and Disconnect change the map under the lock and the table after it
  (`pkg/mcp/registry.go:90`): the two can end in different orders.
- An A2UI `Send` tests the closed flag and sends later (`pkg/a2ui/stream.go:46`).
- Consolidation writes back the sum of a snapshot of the genes
  (`pkg/evolution/aggregator.go:161`): uses recorded in between are lost.
- A log subscriber is registered before its history is sent
  (`pkg/logs/broadcaster.go:79`): new entries may come before old ones.
- `RecordSuccess` closes an open breaker (`pkg/modelrouter/circuit_breaker.go:109`),
  so a late success of a call that began before the trip skips the cooldown.
- A full webhook queue drops the event and ignores the error of the log entry
  that records it (`pkg/webhook/dispatcher.go:131`); a delivery that ends after
  its subscription was deleted starts a new log list (`redis_store.go:161`).
- A tool call that timed out goes on in its goroutine, and a retry around it runs
  the tool a second time beside it (`pkg/tool/middleware.go:101`).
- When an MCP subprocess ends, the read loop returns and wakes nobody
  (`pkg/mcp/transport_stdio.go:129`): a `Send` without a deadline waits for ever.
- A full A2UI buffer drops any event, `done` included (`pkg/a2ui/stream.go:47`).

## 2. Plan

Each step is a module that can be checked alone and, where a theorem is planned,
contains no recursion.  The project keeps twelve runs and forty properties, so
that a full check stays affordable; both are used up, and a later module
replaces a run that has become less interesting than its own.

| step | modules | state |
|---|---|---|
| 1 | `SessionLoop`, `SessionLoop_proofs` | done |
| 2 | `InterruptLedger` (the promise), `Interrupt` (implements it), `Interrupt_proofs` | done |
| 3 | `AgentRuntime`, `AgentRuntime_proofs` | done |
| 4 | `SerialRun` (the promise), `DagExecutor` (implements it), `DagExecutor_proofs` | done, but for streaming |
| 5 | `WorkflowExecution`, `WorkflowExecution_proofs`: run, interrupt, resume and cancel over row, list, flag and checkpoint | done and proved for a root execution; sub-workflows and composite nodes planned |
| 5a | `ChatClient`, `ChatClient_proofs` | modelled, checked, proved |
| 5b | `WorkflowEditor`, `WorkflowEditor_proofs` | done |
| 6 | `Webhooks`: dispatcher and stores; the abstract store is an atomic map that the Redis store should implement | planned |
| 7 | `McpRegistry`: map and table with restarts; request matching of the two transports | planned |
| 8 | `EventStream` (A2UI), `LogBroadcaster`: producers beside Close, history beside Publish | planned |
| 9 | `WorkflowLevels`, `Delegation`: levels of a YAML workflow, batches of a supervisor | planned |
| 10 | `ModelBreaker`, `GeneConsolidation` | planned |
| 11 | a composition of `SessionLoop` and `Interrupt`: `/chat/resume` starts no turn, so a resumed answer is beyond abort and preemption; and of `AgentRuntime` with `Interrupt`, whose map is lost when an agent is rebuilt | planned |

Theorems planned: for `McpRegistry`, that table and
map agree when nothing is in flight and calls do not overlap; for
`WorkflowLevels`, the analogue of `InputsAreComplete`.

## 3. Modules and code

### SessionLoop

A *turn* is one `POST /chat/stream`.  `pc` is where its handler
(`HandleChatStream`) is: `started` after `StartTurn`, `streaming` while it
relays tokens, `reply` before the closing event, `ending` before the deferred
`EndTurn`.  `agent` is the goroutine that fills the channel, `ctx` the first
cause that ended the turn's context, `cancel` the map of `session_loop.go`.
`StartTurn`, `EndTurn` and `Abort` are one lock section each and one action
each.  `StreamEnds` is the relay's decision what to send, `ClosingEvents` the
handler's second look at the context.  An agent that stops early has seen its
context end (`AgentStops`), or has closed a cut answer's channel for a reason that
the turn context does not show (`AgentLapses`, for the turns in `Lapsing`): its
middleware's time limit, or a model stream that breaks under an agent with tools.
`Structured` turns are A2UI streams,
whose `done` is produced by `ChatWithEvents` before the handler looks.  `clock`
and `birth` only number the turns, for the properties.

### Interrupt and InterruptLedger

Every lock section and every store call of `interrupt.go` is an action:
`SaveInMemory` then `SaveInStore` for a chat; `LookInMemory`, `LookInStore`,
`CacheLocally` for a look-up; `DropEntry` then `WriteTombstone` for a clear;
`CallAgent`.  A resume looks up twice, once in the handler and once in `Resume`
(`phase`).  `mem` is the map of each pod with expiry and eviction, `store` the
checkpoint store, which pods share (Redis) or have to themselves.  `Restart`
loses a pod's map and its requests.  A tombstone and an absent key read the
same and are both `NoCk`.  `InterruptLedger` is the promise of the feature: one
pending question per session, the newest; answered at most once.

### AgentRuntime

`disk` is the directory; `defs` the reloader's registry; `agents` the runtime's,
each agent as the set of definitions that answer when it is called, its
sub-agents included, because it holds those objects.  A reload is `Load`, `Swap`,
then one `EmitChange` or `EmitDeletion` per event; each change event runs
`Collect`, `Merge` (pass 1) and `BuildOrch`/`RegisterOrch`/`OrchFails` (pass 2).
The watcher and requests to the admin API are reloaders.  An edit makes an event
pending, unless the file is in a subdirectory (`Nested`): a reload reads
subdirectories (`loader.go:53`), but the watcher has the top directory only
(`watcher.go:51`).  `missed` is history: what has changed so since it was last
read.  `Overlap` says whether
two of them may be at work at once; the code never prevents it.

### DagExecutor and SerialRun

One `Execute` of either executor.  `Visit` is the sequential loop's next node,
`BeginWave` the parallel one's next set of ready nodes; `Start` takes a slot and
resolves the input, `Finish` stores the output and marks the node and the
targets of the ports it did not select, `Fail` records an error, `Return` is
what `Execute` answers.  An output is reduced to whether it is there and which
port it selects.  `graph` is any acyclic graph of the constant `Graphs`.
`SerialRun` is the promise of both executors: a run in which one node after the
other is executed in a single step, with what its predecessors have returned.
`GivenWhenDone` is the part of the refinement mapping that is not a variable: what
a node was given counts from when it returns.

### WorkflowExecution

One execution of a workflow that stops to ask the user.  `status` and `resuming`
are its row, `list`, `previous` and `flag` its keys in Redis, `stage` what the
graph's checkpoint says of each node that may ask, `asked` the interrupt events
ever raised, an event being its number.  `run` is where each run is, and each
request to resume that may become one; `cancel` where each request to cancel is.
No lock covers more than one database or Redis call, so every call is an action:
`ReadStatus`, `GetFirst`, `UpdateFirst`, `TryLock` for a resume; `CancelRead`,
`CancelTake`, `CancelLook`, `CancelNodes`, `SetWorkflowCancelFlag` for a cancel;
`Interrupts`, `PopOld`, `SaveEvents` for the handler (`HandleExecuteEvent`) when
the graph stops.  `NodeEnds`, `Succeeds`, `Fails`, `NoticeCancel` and `Cancelled`
are its other events.  At the end of an answered node the handler looks at the first
event and pops it, two Redis calls that may fail: it then goes on with the run, and
the event stays (`NodeEndFails`, recorded in `left`).  A handler whose update misses the row, or whose Redis
call fails, returns `noTerminate` with an error: it waits for an event that never
comes (`deaf`).  A question (`qa` node) that asks again raises a new event, an
input node (`receiver`) raises one at every resume of another node (`AsksAnew`).
The events of a stop are made and stored in the order in which the graph names the
nodes, which is open: the model stores them in any.
`stale` is history: some request took an event that was not the open one.

### ChatClient

A *request* is one POST whose answer is a stream of chunks: a question, a
regeneration of its answer, a resumption of an interrupted one.  `pc` is where
the sender is among the awaits of `useSendNewMessage`, `net` what the stream
does, `stage` how far its answer has come, `timer` its between-chunk timer,
`helpers` the map of abort handles, `listeners` the `once` listeners of a send,
`acks` the acks in the stream buffer.  Everything is one JavaScript thread: an
action is the code between two awaits, and a read that was aborted rejects before
anything else happens (`Quiet`).  A request is known by its question, because a
regeneration and a resumption reuse its local id; most exceptions in the
properties come from that.  `overlapped` is history: the questions asked again
while an earlier stream of theirs was open.  The end of that stream ends the wait
for the later one, which the stop then no longer reaches (`BeyondStop`, with a
sender that gave up and a handle that was lost).

### WorkflowEditor

A content of the canvas is a number.  `doc` is the canvas, `draft` the server's
copy, `low` and `high` the two debounce timers, `save` and `json` the saves under
way, `saving` and `savingError` the header.  `command` is what the user has
started that waits for a save (`waitSaving`): a test run, a reload, a template.
`runner` is the polling of each test run, `isExecuting` and `locked` the two
read-only flags (the entity's and the canvas's), which different code writes.
A run is requested (`TestRun`), and polled if the reply names it (`Started`); if it
does not (`NotStarted`), nothing sets the view again, and `nameless` remembers it.
`ReplaceFails` is a reload that rejects after it has stopped listening.
`race` records the two ways in which canvas and draft may part without a trace.

## 4. Runs

| run | what it shows | bounds |
|---|---|---|
| `session` | every property of `SessionLoop` | 2 sessions, 2 turns: the race needs an older and a newer turn of one session, and a turn of another to be left alone; one turn of each kind, one client that may leave, one agent that may end a cut answer by itself; any number of aborts |
| `session_abort` | `AbortReportsActiveTurn` fails | the same two turns |
| `interrupt_sticky` | `Interrupt` implements `InterruptLedger`; states are resumed once and forgotten only after their timeout | 1 pod, 2 sessions, a map of 1 entry, so eviction happens; 2 questions, 2 resumes; 3 ticks with a timeout of 1; 1 restart |
| `interrupt_open` | states stay in their session, every request ends | 2 pods, one on Redis and one on its own memory, every routing; a chat, a resume and a query; failing calls, 1 restart |
| `interrupt_once` | `ResumedAtMostOnce` fails with two pods | 1 session, serial requests |
| `runtime_watch` | the registry follows the directory, apart from subdirectories, which follow at the next reload; no agent is removed that is defined | a plain agent in a subdirectory, a supervisor over it in the directory itself, so an edit of either kind comes before and after one of the other; 2 edits, builds failing at will, one admin reload, no overlap |
| `runtime_race` | `SettledMirrorsDirectory` fails with overlap | the same, no subdirectory, no failures |
| `dag_run` | `DagExecutor` implements `SerialRun`; every other property of `DagExecutor` but the next | four nodes and some 400 graphs, among them forks, joins, diamonds and branches of two lengths; 2 slots, so a wave of three has to wait |
| `dag_branch` | `OnlyActiveEdgesLead` fails | a selector with a branch of two nodes, sequential |
| `chat` | every property of `ChatClient` | 2 questions and a third request that regenerates or resumes the first; a map of 2 handles, so the third request finds it full; one clear at a time, any number of stops |
| `editor` | every property of `WorkflowEditor` | 2 saves under way together, so one can overtake the other; 1 polled run; 2 contents made after the first one |
| `execution` | every property of `WorkflowExecution` | an input node and two questions, the first run, 2 resumes, which may name the same event, 1 cancel; 5 events, enough for a question that asks again beside an input node that asks anew; Redis may fail the handler at any of its calls, any number of times |

Deadlock checking is off in all of them because all of them may end: requests are
finite in number, edits are bounded, and one run of a graph returns.  That they
do not stop earlier is what the liveness properties say.

**Bounds.** Bounds in guards are `MaxEdits`, `MaxTime`, `MaxRestarts`,
`MaxEvents`; `MaxHelpers` is a constant of the code (`MAX_DATA_HELPERS`), made
small; all other
finiteness comes from the constants.  Where a property is proved
(section 6) the bounds of its run do not matter.

**Fairness.** Weak fairness only, of steps of goroutines and timers.
`SessionLoop`: handlers are scheduled, an agent looks at `ctx.Done()` again and
again, deadlines pass; that an agent answers of its own accord is *not*
assumed.  `Interrupt`: a request takes its next step, that is, store calls
return, possibly with an error; restarts and the clock are free.
`AgentRuntime`: the debounce timer fires and a reload goes on; nobody has to edit
or to call the API.  `DagExecutor`: goroutines run, and a node that was called
returns (nodes get a context, but the executors do not enforce a deadline).
`WorkflowExecution`: the handler's ticker looks at the cancel flag, and a graph
whose context is cancelled comes to an end; that it ends otherwise, that a user
answers and that a request goes on is not assumed.  `ChatClient`: promises settle,
including the send time-out, timers fire and an aborted fetch rejects; servers
owe nothing.  `WorkflowEditor`: timers fire and requests of a save are answered
or fail; users and test runs are free.

## 5. Where code and text disagree

Shown by a run (`findings` in `PROJECT.json`):

1. **A late `EndTurn` clears another turn's slot.**  `EndTurn` takes a session,
   not a turn.  Turn 1 is preempted by turn 2, then ends: the cancel function of
   turn 2 is gone, `Abort` answers false while turn 2 is answering, and turn 3
   does not preempt it.  (`session_loop.go:94`)
2. **A confirmation can be consumed twice** when the requests of a session reach
   several pods: a pod's own map is served without asking the store.
   (`interrupt.go:286`)
3. **Overlapping reloads can leave the registry behind the directory** until the
   next edit.  (`runtime.go:248`, `reload.go:71`)
4. **Skipping is not transitive.**  Only the direct targets of a port that was
   not selected are skipped; what follows them runs.  (`dag/executor.go:157`)

Met while modelling, without a run of their own: `turnloop.md:88` has
`turnCtx.Err() == nil` mean that the turn completed, but the agent's own time limit
(`middleware_wrappers.go:108`) and a model stream that breaks (`chat_agents.go`, 244)
close a cut answer's channel while the turn context is live, and the client reads a
plain `[DONE]` after it; an A2UI client of a preempted turn gets `done` and then `preempted` (`event_agent.go:97`; the event table of
`docs/wiki/advanced/turnloop.md` has `done` for a turn that completed); a state
reloaded from the store gets a new timeout (`interrupt.go:300`); a look-up that
overlaps a clear can put the cleared state back into the map
(`interrupt.go:297`), and its insertion skips the capacity check at 231; the
state is cleared before the agent is called (`interrupt.go:189`), where the
document says after success; an edit between the first read of the directory and
the installation of the watcher goes unseen (`runtime.go:112`); so does one in a
subdirectory, which waits for a reload that something else starts
(`watcher.go:51`); orchestration agents that hold orchestration agents are built in map order (`runtime.go:260`);
`WithFailFast` sets what is already set, so the workflow option `InputFailFast`
(`dagcompose/workflow_runner.go`) has no effect.

In a workflow execution: an input node sets the mark of an earlier interrupt only
if it already has one (`receiver/input_receiver.go:120`), so it raises another
event each time another node is resumed, where a question does what its comment
says, "previously interrupted but not resumed this time, interrupt immediately"
(`qa/question_answer.go:421`), and what it leaves behind can stand at the head of
the list with no node to resume; without the exception for input nodes TLC
refutes `RecordFitsGraph`.  A resume that will lose the lock overwrites the first
event of the list (`workflow_run.go:231`); one that falls into the time gap
between row and list (`event_handle.go:317`) resumes or refuses on the old list.
A cancel that read the row while it was open overwrites a success or a failure
(`execute_history_store.go:374`).  A handler that returns `noTerminate` with an
error waits on for ever, but for one at the end of a node, where it goes on: if
Redis failed to pop the answered event (`event_handle.go:504`), this event stays
first on the list, is offered as if it were open, and a run resumed with it stops
again with the event still there, so that the question behind it can no longer be
answered.

In the chat client: a `once` listener is used up by anybody's ack
(`send-message-service.ts:286`); the wait for a reply begins after further awaits,
even when its stream has stopped meanwhile (`new-message.ts:155`), and then has
nothing to end it but the user; suggestion and token errors leave it on
(`listen-message-update.ts:165`); a resumed answer takes no lock and stops no
other (`resume-message.ts`).

In the editor: `saving` is documented as "Saving, including debouncing time"
(`workflow-global-state-entity.ts:115`), but a save that ends clears it while a
newer edit has its timer pending (`workflow-save-service.ts:473`); a save that is
refused leaves it set (437); two saves may be stored in the wrong order (468); a
reload that ends during a run (619), or is rejected half way (617), leaves the canvas
unheard; a reply without an `execute_id` is neither polled nor finished
(`workflow-run-service.ts:460`, 601, 693), so the view stays on executing, the canvas
read-only and every save refused until something else sets the view; and an info
reload
that is answered during the next run makes the canvas writable
(`workflow-global-state-entity.ts:284`).

## 6. Proofs

All theorems hold for every value of the constants that satisfies the module's
`ASSUME`s.

**SessionLoop_proofs.**  `IInv` joins type, `BirthOrder` (turns are numbered in
the order `StartTurn` saw them), and the three safety properties; it is
inductive.  The properties need each other: that the registered turn is the
newest one is kept by `StartTurn` only because numbers grow, and that a turn is
lost only to a stale `EndTurn` uses that the slot held the newest turn.
`PlainDoneUnlessStopped` has an invariant of its own, `DoneInv`: a handler replies
only after its agent ended, an agent is cut only when its context ended, and a
context that ended stays so; and a handler that ends without a `done` has found an
error, its context ended or its client gone.

**Interrupt_proofs.**  Type correctness and `StatesStayInTheirSession` are
unconditional.  The other four theorems `ASSUME ServedAlone`: one pod
per session, one request at a time, a store that answers; `interrupt_once`
shows that they fail otherwise.  Their invariant is `AInv`: `AloneInv` (a
session has one request in flight, at its pod), `CoherenceInv` (the map holds
the stored state or nothing, except between the two halves of a save or clear,
and what a request has in hand is what is stored) and `StoredInv` (what is
stored was announced and not yet resumed).  The refinement maps `SaveInStore` to
`Raise`, the last half of a successful clear to `Answer`, expiry and restarts to
`Forget`, all else to stuttering.  For `ForgottenOnlyWhenExpired`, `EInv` adds
dates: an entry of the map lives at least as long as the state it copies
(`EntriesInv`), so a request that clears with nothing in hand clears a state whose
timeout has passed (`DropInv`).

**AgentRuntime_proofs.**  Type correctness (with `PlanInv`, the shape of a
reload's plan) is unconditional.  The other two theorems `ASSUME ~Overlap`:
`runtime_race` shows that two reloads at once break them.  `RInv` says that what
the one reload has in hand (names listed, plan, deletions, a fresh reading) is
what the registry of definitions and the directory hold (`AloneInv`, `HandsOf`),
so a name it removes has no file.  `AInv` adds what is built and not yet
registered (`OrchsOf`, `BuiltOf`): agents are what the definitions call for, but
for those still to build; with no event pending, only names in `missed` have a file
that differs from what was read (`SeenOrMissed`).  It also needs `Flat`, orchestration agents that hold
plain ones only: the map order in which deeper ones are built is open, and a
child may be built after its parent has looked for it.

**DagExecutor_proofs.**  `DInv` says why reading outputs while a wave returns is
safe: a node enters a wave with all its predecessors marked, and a node that may
still return is unmarked (`WaveIsFresh`, `StartedIsSettled`), so no node returns
after one that it leads to has started; hence outputs (`OutputsAreMarked`) and
marks (`MarksAreRight`) are settled when they are read.  `SequentialIsOneByOne`
carries the sequential case.  That a successful run has marked every node uses
acyclicity: an unmarked set has a node that no edge of the set leads to
(`SomeNodeIsReady`).  `RunsAsSerial` is the refinement of `SerialRun`: a node is
executed when it returns, and what it was given when it started is still what
`SerialRun` gives it then, because no node it depends on can return in between
(`InputsAreComplete`); all that precedes the return is stuttering.  It also takes
that a node which failed is at work no more (`FailedIsOver`).

**WorkflowEditor_proofs.**  `IInv` is type correctness, `LockedForRun` (the canvas
is read-only only while the entity says executing, and `LockedOnlyWhileRunning`),
`Fresh` (every content was made, and one that waits to replace the canvas is
nowhere else) and `NothingLost`, which says that a canvas the server does not have
is *on its way*: in a pending timer, a save that has not serialised or has not
been stored, a replacement that is under way; or else nobody listens, an error is
shown or one of the known races has happened.  `UnsavedOnlyIfRaced` is what is left of it when nothing is under
way.  `LockIsReleased` excepts the lock of a reply that named no run (`nameless`),
which lasts until the view is set again.  All this holds for any number of saves and test runs; the run checks two and one.

**WorkflowExecution_proofs.**  `RunsAlone` is an invariant about the row alone: a
run that is under way has locked it, and only the end of that run or a cancel
opens it again, so `TryLock` finds it open only when nobody runs.  For
`EndsForGood` the missing half is `CancelsKnow`: a request that is between its
steps has read the row while it was open, and one that claimed the row finds it
cancelled for good.  `TypeCorrect` needs that a node which has asked was reached
(`EventInv`), or the number of events could not be typed with its nodes.

`RecordFits` is about row, list and checkpoint together, and its invariant
`ListIInv` holds while the state is `Sound`: no request has taken an event that was
not open, no handler waits for ever.  Both are histories, so a state that is sound
always was.  Three parts carry `OffersWhatIsOpen`: a stopped node has an event on
the list or about to be stored (`AwaitedInv`); a question on the list has stopped
and is listed once (`ListInv`); so does one about to be stored, and it is on the
list too only while its old event waits to be popped (`EmitInv`).  Popping takes
away the head, whatever that is, so the argument needs `HeadInv`: the event that a
run resumes stays at the head until it is popped.  A resume may overwrite the
head at any time, but soundly only by itself.  `AnsweredOnce` adds that an event
once taken is never stored again, and off the list unless its run is still at it
(`SpentInv`): a second request finds it at the head only before the first has
popped it, and then finds the row locked.  Both except the events in `left`, which
were answered and could not be popped.  The exceptions are in the property, not
in the proof: input nodes leave events behind (section 5), and with `stale` TLC
finds a question that two requests resume.  `Nodes` is assumed finite, since a stop
enumerates the nodes that ask; nothing else about it is.

**ChatClient_proofs.**  `IInv` says which streams exist: a stream belongs to a
post or a resumption, a handle to an opened request of its question (`HandleInv`),
what is awaited, known to a sender or being shown has been acked (`AckInv`,
`RespondingInv`).  That gives the three properties of waiting, showing and handles,
with or without the lock; `HandlesAreKept` counts: the entries of a full map inject
into the other open streams (`FullMap`).  The other three theorems `ASSUME
LockEnabled` and rest on `LInv`: one sender at work, none beside a clear
(`LockInv`); streams of one question overlap only if it is in `overlapped`
(`SingleInv`); a stream that the stop can reach is the awaited one, and after the
stop there is none but the sender's own (`StopInv`).  They hold for any finite set
of requests; the run checks three.

**Liveness, and its safety halves.**  Every invariant and every action property
that a passing run checks is stated by a theorem.  Only model-checked are the
liveness properties, whose proofs need `ENABLED` and fairness.  What each of them
needs besides, that something is always left to be scheduled and that it comes to
an end, is a safety property, and is proved where it is not plain from the actions:

| property | what is proved of it |
|---|---|
| `EveryRunReturns` | `NeverStuck`: a run that has not returned can take a step; it uses acyclicity, and that a slot is held only by a node at work.  `StepsRunOut`: each step takes something out of the finite set `Todo` |
| `EveryRequestIsAnswered` | `RequestsGoOn`: a request can take its next step; a full map has an entry that expires first.  `RequestsNear`: each step of its own leaves it fewer, none of others leaves it more |
| `CancelTakesEffect` | `NoCancelIsLost`: row and flag are never both without the cancel, and a row that says running has a run behind it that polls the flag |
| `WaiterWakes` | `WaiterIsOwed`: saving is shown only while a timer is pending or a save under way (`SavingInv`), unless one was refused |
| `EditsTakeEffect` | `RegistryFollows`: a registry that has come to rest is up to date, but for failed builds and missed files |
| `WaitingEnds` | `WaitEndsWithStream`: the step that stops the awaited stream ends the wait; the inductive invariant adds that an armed timer belongs to a stream being read, which is what its firing stops |
| `CancelledTurnEnds`, `DeadlineBoundsEveryAgent` | nothing more: an agent's look at its context and its deadline are actions that stay possible until taken |

`CanStep`, `CanGoOn` and `SavingCanStep` spell out the guards of the actions.  The
library's theorems on well-founded sets stand in for induction: `Smallest`, that
every set of natural numbers has a smallest one, comes from the finite sets being
well-founded under inclusion.

## 7. What the models leave out

Wording, logging, tracing, metrics and request validation everywhere.  In
`SessionLoop`, the capacity of the token and event buffers, and the cache of
middleware, which may keep a cut answer and give it again; in `Interrupt`, the
week-long TTL of the Redis keys and the capacity of the in-memory store (a
question is never that old or one of so many), and two agents that share a
session; in `AgentRuntime`, duplicate names, changes before the watcher is
installed, and agents that change between plain and orchestration; in
`DagExecutor`, token streams, field mappings, shared state and the checkpoints,
which nothing calls.

In `WorkflowExecution`, sub-workflows, composite nodes, language models and tools
that interrupt, `streamResumeDAG`, executions that are not cancellable, the time
limit of a run other than as a failure, failing database calls, the crash of a
pod (the row stays running), the rows of node executions, and the messages that
stream to the client; the look and the pop at the end of a node are one step.  In
`ChatClient`, uploads and voice input, destruction of the chat core, ignored
messages, the store of messages and the response list, suggestions, the phases of
waiting, the timer over a whole fetch, and the setting without the action lock,
which is a constant but not run.  In `WorkflowEditor`, the first load, previews and
the history view, `ignoreStatusTransfer`, version conflicts of saves, which
execution a poll or a cancel is about, a second command beside the first, and a
request that fails for the client but is applied by the server.

Of the components of section 1 that no module covers,
`PROJECT.json` gives the reason: planned, sequential wrappers, relational CRUD,
or another language.
