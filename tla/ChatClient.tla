----------------------------- MODULE ChatClient -----------------------------
(***************************************************************************)
(* The chat client of the web front end: the chat area (chat-area), the    *)
(* SDK under it (chat-core) and the streaming fetch (arch/fetch-stream).   *)
(*                                                                         *)
(* A request is one POST whose answer is a stream of chunks: a new         *)
(* question, a regeneration of its answer, or a resumption of an           *)
(* interrupted one.  The request runs as a sender (pc), which goes through *)
(* the awaits of useSendNewMessage, and as a stream (net), whose chunks    *)
(* reach the waiting store through two event emitters.  All of it is one   *)
(* JavaScript thread: an action is the code between two awaits.            *)
(*                                                                         *)
(* The local id of a request is its question: a regeneration and a         *)
(* resumption reuse the one of the question they belong to.  So does the   *)
(* reply_id of every chunk, once an ack has brought it.                    *)
(***************************************************************************)
EXTENDS Naturals, FiniteSets

CONSTANTS Requests,      \* POSTs
          FollowUps,     \* those for a question already asked: they ask for
                         \* another answer or resume an interrupted one
          questionOf,    \* the question of each request
          None,
          Clearer,       \* the user's clear-history or clear-context
          MaxHelpers,    \* MAX_DATA_HELPERS
          LockEnabled    \* enableChatActionLock

Questions == {questionOf[r] : r \in Requests}

ASSUME RequestsAssumption == IsFiniteSet(Requests) /\ FollowUps \subseteq Requests
ASSUME HelpersAssumption == MaxHelpers \in Nat \ {0}
ASSUME NoneAssumption == None \notin Requests \cup Questions \cup {Clearer}
ASSUME ClearerAssumption == Clearer \notin Requests
ASSUME LockAssumption == LockEnabled \in BOOLEAN

VARIABLES pc,         \* where the sender of a request is
          net,        \* what its stream is doing
          stage,      \* how far its answer has come
          timer,      \* whether its between-chunk timer is armed
          listeners,  \* which of its `once` listeners are registered
          helpers,    \* fetchDataHelperMap: local id -> request to abort
          acks,       \* questions whose ack is in the stream buffer
          waiting, responding, sending,  \* the waiting store
          lock,       \* holder of the global action lock
          clear,      \* where the clear operation is
          overlapped  \* history: questions asked again while an earlier stream
                      \* of theirs was open

client == <<pc, listeners, acks, lock, clear>>
streams == <<net, stage, timer, helpers, overlapped>>
store == <<waiting, responding, sending>>
vars == <<client, streams, store>>

Unsettled == {"locked", "stopping", "stopped", "posted", "acked", "rejected"}
PC == Unsettled \cup {"idle", "done", "failed"}
Net == {"idle", "fetching", "reading", "cutFetch", "cutRead", "muted", "closed"}

\* A resumption has a stream, but no sender.
IsResumption(r) == pc[r] = "idle" /\ net[r] # "idle"

Live(r) == net[r] \in {"fetching", "reading"}

\* The reply_id a stream knows: that of its last chunk.
Reply(r) == IF stage[r] = "new" THEN None ELSE questionOf[r]

Init ==
  /\ pc = [r \in Requests |-> "idle"]
  /\ net = [r \in Requests |-> "idle"]
  /\ stage = [r \in Requests |-> "new"]
  /\ timer = [r \in Requests |-> FALSE]
  /\ listeners = [r \in Requests |-> {}]
  /\ helpers = [q \in Questions |-> None]
  /\ acks = {}
  /\ waiting = None /\ responding = None /\ sending = None
  /\ lock = None
  /\ clear = "idle"
  /\ overlapped = {}

----------------------------------------------------------------------------
(* Shared effects.                                                         *)

\* MESSAGE_SEND_SUCCESS: every `once` listener of the event is used up, and
\* only then looks whether the ack is that of its own message.
EmitSuccess(q) ==
  /\ pc' = [r \in Requests |->
              IF pc[r] = "posted" /\ "success" \in listeners[r] /\ questionOf[r] = q
              THEN "acked" ELSE pc[r]]
  /\ listeners' = [r \in Requests |-> listeners[r] \ {"success"}]

EmitFail_DropsBoth(q) ==
  /\ pc' = [r \in Requests |->
              IF pc[r] = "posted" /\ "fail" \in listeners[r] /\ questionOf[r] = q
              THEN "rejected" ELSE pc[r]]
  /\ listeners' = [r \in Requests |-> {}]

\* MESSAGE_SEND_FAIL, likewise.
EmitFail(q) ==
  /\ pc' = [r \in Requests |->
              IF pc[r] = "posted" /\ "fail" \in listeners[r] /\ questionOf[r] = q
              THEN "rejected" ELSE pc[r]]
  /\ listeners' = [r \in Requests |-> listeners[r] \ {"fail"}]

ClearUnsettled_WaitingOnly(q) ==
  /\ waiting' = IF waiting = q THEN None ELSE waiting
  /\ UNCHANGED <<responding, sending>>

\* clearUnsettledByReplyId
ClearUnsettled(q) ==
  /\ waiting' = IF waiting = q THEN None ELSE waiting
  /\ responding' = IF responding = q THEN None ELSE responding
  /\ UNCHANGED sending

\* HttpChunk.abort: the stream whose handle is stored under the local id is
\* told to stop, and its timers are cleared.
Abort(q) ==
  /\ helpers' = [helpers EXCEPT ![q] = None]
  /\ net' = [r \in Requests |->
               IF r # helpers[q] THEN net[r]
               ELSE CASE net[r] = "fetching" -> "cutFetch"
                      [] net[r] = "reading"  -> "cutRead"
                      [] OTHER -> net[r]]

StopResponding_OnceResponding ==
  IF responding = None
  THEN UNCHANGED <<store, streams>>
  ELSE /\ waiting' = None /\ responding' = None /\ sending' = None
       /\ Abort(responding)
       /\ timer' = [r \in Requests |-> timer[r] /\ r # helpers[responding]]
       /\ UNCHANGED <<stage, overlapped>>

\* stopResponding: what is awaited is forgotten, with everything else that is
\* unsettled, and its stream aborted; nothing happens when nothing is awaited.
StopResponding ==
  IF waiting = None
  THEN UNCHANGED <<store, streams>>
  ELSE /\ waiting' = None /\ responding' = None /\ sending' = None
       /\ Abort(waiting)
       /\ timer' = [r \in Requests |-> timer[r] /\ r # helpers[waiting]]
       /\ UNCHANGED <<stage, overlapped>>

OpenStream_OffByOne(r) ==
  /\ helpers' = [q \in Questions |->
                   IF q = questionOf[r] THEN r
                   ELSE IF Cardinality({p \in Questions : helpers[p] # None}) >= MaxHelpers - 1
                        THEN None ELSE helpers[q]]
  /\ net' = [net EXCEPT ![r] = "fetching"]
  /\ overlapped' = overlapped \cup
       {q \in {questionOf[r]} : \E s \in Requests : questionOf[s] = q /\ Live(s)}
  /\ UNCHANGED <<stage, timer>>

\* HttpChunk.sendMessage: a full map is emptied before the new entry.
OpenStream(r) ==
  /\ helpers' = [q \in Questions |->
                   IF q = questionOf[r] THEN r
                   ELSE IF Cardinality({p \in Questions : helpers[p] # None}) >= MaxHelpers
                        THEN None ELSE helpers[q]]
  /\ net' = [net EXCEPT ![r] = "fetching"]
  /\ overlapped' = overlapped \cup
       {q \in {questionOf[r]} : \E s \in Requests : questionOf[s] = q /\ Live(s)}
  /\ UNCHANGED <<stage, timer>>

----------------------------------------------------------------------------
(* The sender.                                                             *)

\* useSendNewMessage and regenerateMessage: refused while another send or a
\* clear holds the lock.
Send(r) ==
  /\ pc[r] = "idle" /\ net[r] = "idle"
  /\ r \in FollowUps =>
       \E s \in Requests : questionOf[s] = questionOf[r] /\ pc[s] = "done"
  /\ lock = None
  /\ lock' = IF LockEnabled THEN r ELSE None
  /\ pc' = [pc EXCEPT ![r] = "locked"]
  /\ UNCHANGED <<listeners, acks, clear, streams, store>>

\* A plug-in, the history or the voice input fails before sendMessage.
GiveUp(r) ==
  /\ pc[r] = "locked"
  /\ pc' = [pc EXCEPT ![r] = "failed"]
  /\ lock' = None
  /\ UNCHANGED <<listeners, acks, clear, streams, store>>

\* sendMessage starts to stop the current reply and shows the new message.
StartSending(r) ==
  /\ pc[r] = "locked"
  /\ pc' = [pc EXCEPT ![r] = "stopping"]
  /\ sending' = r
  /\ UNCHANGED <<listeners, acks, lock, clear, streams, waiting, responding>>

\* The stop comes after an await, so it clears the sending mark set above.
StopFirst(r) ==
  /\ pc[r] = "stopping"
  /\ pc' = [pc EXCEPT ![r] = "stopped"]
  /\ StopResponding
  /\ UNCHANGED <<listeners, acks, lock, clear>>

\* sendChannelMessage: the request is opened, then the listeners registered.
Post(r) ==
  /\ pc[r] = "stopped"
  /\ pc' = [pc EXCEPT ![r] = "posted"]
  /\ listeners' = [listeners EXCEPT ![r] = {"success", "fail"}]
  /\ OpenStream(r)
  /\ UNCHANGED <<acks, lock, clear, store>>

\* SEND_MESSAGE_TIMEOUT: the promise is rejected, the stream goes on.
SendTimeout(r) ==
  /\ pc[r] = "posted"
  /\ pc' = [pc EXCEPT ![r] = "rejected"]
  /\ UNCHANGED <<listeners, acks, lock, clear, streams, store>>

\* A plug-in throws around the send: before it, or after the ack.
PluginFails(r) ==
  /\ pc[r] \in {"stopping", "stopped", "acked"}
  /\ pc' = [pc EXCEPT ![r] = "rejected"]
  /\ UNCHANGED <<listeners, acks, lock, clear, streams, store>>

\* The send is over, for better or worse: the two finally blocks.
Settle(r, result) ==
  /\ pc' = [pc EXCEPT ![r] = result]
  /\ sending' = None
  /\ lock' = None
  /\ UNCHANGED <<listeners, acks, clear, streams, responding>>

\* After the ack and the plug-ins that follow it, the reply is awaited,
\* whatever has become of its stream meanwhile.
StartWaiting(r) ==
  /\ pc[r] = "acked"
  /\ waiting' = questionOf[r]
  /\ Settle(r, "done")

\* The message is marked as failed.
MarkFailed(r) ==
  /\ pc[r] = "rejected"
  /\ UNCHANGED waiting
  /\ Settle(r, "failed")

----------------------------------------------------------------------------
(* The other operations of the user.                                       *)

Resume_AwaitsItself(r) ==
  /\ r \in FollowUps
  /\ pc[r] = "idle" /\ net[r] = "idle"
  /\ \E s \in Requests : questionOf[s] = questionOf[r] /\ stage[s] = "finished"
  /\ waiting' = r
  /\ OpenStream(r)
  /\ UNCHANGED <<client, responding, sending>>

\* createAndSendResumeMessage, offered for an answer that was interrupted.
Resume(r) ==
  /\ r \in FollowUps
  /\ pc[r] = "idle" /\ net[r] = "idle"
  /\ \E s \in Requests : questionOf[s] = questionOf[r] /\ stage[s] = "finished"
  /\ waiting' = questionOf[r]
  /\ OpenStream(r)
  /\ UNCHANGED <<client, responding, sending>>

UserStops ==
  /\ waiting # None
  /\ StopResponding
  /\ UNCHANGED client

\* useClearHistory and useClearContext: lock, stop the reply, then call.
StartClear ==
  /\ clear = "idle"
  /\ lock = None
  /\ lock' = IF LockEnabled THEN Clearer ELSE None
  /\ clear' = "stopping"
  /\ UNCHANGED <<pc, listeners, acks, streams, store>>

ClearStops_Forgets ==
  /\ clear = "stopping"
  /\ clear' = "stopped"
  /\ UNCHANGED <<pc, listeners, acks, lock, streams, store>>

ClearStops ==
  /\ clear = "stopping"
  /\ clear' = "stopped"
  /\ StopResponding
  /\ UNCHANGED <<pc, listeners, acks, lock>>

\* The clear request goes out; the lock is given back when it is answered.
CallClear ==
  /\ clear = "stopped"
  /\ clear' = "calling"
  /\ UNCHANGED <<pc, listeners, acks, lock, streams, store>>

ClearEnds ==
  /\ clear \in {"stopping", "calling"}
  /\ clear' = "idle"
  /\ lock' = None
  /\ UNCHANGED <<pc, listeners, acks, streams, store>>

----------------------------------------------------------------------------
(* The stream.                                                             *)

\* The response begins.  A resumption is sent without betweenChunkTimeout.
ResponseStarts(r) ==
  /\ net[r] = "fetching"
  /\ net' = [net EXCEPT ![r] = "reading"]
  /\ timer' = [timer EXCEPT ![r] = ~IsResumption(r)]
  /\ UNCHANGED <<stage, overlapped, helpers, client, store>>

\* The fetch throws.  The entry of the map stays.
FetchFails(r) ==
  /\ net[r] = "fetching"
  /\ net' = [net EXCEPT ![r] = "closed"]
  /\ EmitFail(questionOf[r])
  /\ UNCHANGED <<stage, overlapped, timer, helpers, acks, lock, clear, store>>

Ack(r) ==
  /\ net[r] = "reading"
  /\ stage[r] = "new"
  /\ stage' = [stage EXCEPT ![r] = "replying"]
  /\ timer' = [timer EXCEPT ![r] = ~IsResumption(r)]
  /\ acks' = acks \cup {questionOf[r]}
  /\ EmitSuccess(questionOf[r])
  /\ UNCHANGED <<net, helpers, overlapped, lock, clear, store>>

\* A chunk of an answer, a tool call, or a suggestion after the answer.
Chunk(r) ==
  /\ net[r] = "reading"
  /\ stage[r] # "new" \/ IsResumption(r)
  /\ stage' = [stage EXCEPT ![r] = IF @ = "new" THEN "replying" ELSE @]
  /\ timer' = [timer EXCEPT ![r] = ~IsResumption(r)]
  /\ responding' = IF responding = None THEN questionOf[r] ELSE responding
  /\ UNCHANGED <<net, helpers, overlapped, client, waiting, sending>>

\* The verbose chunk that closes an answer or interrupts it.
FinishChunk(r) ==
  /\ net[r] = "reading"
  /\ stage[r] = "replying"
  /\ stage' = [stage EXCEPT ![r] = "finished"]
  /\ timer' = [timer EXCEPT ![r] = ~IsResumption(r)]
  /\ responding' = IF responding = questionOf[r] THEN None ELSE responding
  /\ UNCHANGED <<net, helpers, overlapped, client, waiting, sending>>

\* The stream ends: ALL_SUCCESS, the map entry of its local id is deleted and
\* its messages leave the buffer.
StreamEnds(r) ==
  /\ net[r] = "reading"
  /\ net' = [net EXCEPT ![r] = "closed"]
  /\ timer' = [timer EXCEPT ![r] = FALSE]
  /\ helpers' = [helpers EXCEPT ![questionOf[r]] = None]
  /\ acks' = acks \ {Reply(r)}
  /\ ClearUnsettled(Reply(r))
  /\ UNCHANGED <<stage, overlapped, pc, listeners, lock, clear>>

ReadError_ReplyIgnored(r) ==
  IF questionOf[r] \in acks
  THEN UNCHANGED <<store, pc, listeners>>
  ELSE EmitFail(questionOf[r]) /\ UNCHANGED store

\* handleReadStreamError: a failed send if no ack is stashed for the local id,
\* otherwise an error of the reply.
ReadError(r) ==
  IF questionOf[r] \in acks
  THEN ClearUnsettled(Reply(r)) /\ UNCHANGED <<pc, listeners>>
  ELSE EmitFail(questionOf[r]) /\ UNCHANGED store

StreamFails(r) ==
  /\ net[r] = "reading"
  /\ net' = [net EXCEPT ![r] = "closed"]
  /\ timer' = [timer EXCEPT ![r] = FALSE]
  /\ ReadError(r)
  /\ UNCHANGED <<stage, overlapped, helpers, acks, lock, clear>>

\* A suggestion or token error: onMessageStatusChange returns before it settles
\* anything.
StreamFailsMutely(r) ==
  /\ net[r] = "reading"
  /\ questionOf[r] \in acks
  /\ net' = [net EXCEPT ![r] = "muted"]
  /\ timer' = [timer EXCEPT ![r] = FALSE]
  /\ UNCHANGED <<stage, overlapped, helpers, client, store>>

Stall_AbortsOnly(r) ==
  /\ timer[r]
  /\ Abort(questionOf[r])
  /\ timer' = [s \in Requests |-> timer[s] /\ s # r /\ s # helpers[questionOf[r]]]
  /\ UNCHANGED <<stage, overlapped, client, store>>

\* No chunk for betweenChunkTimeout: the reply is settled, and the stream whose
\* handle is stored under the local id aborted.
Stall(r) ==
  /\ timer[r]
  /\ Abort(questionOf[r])
  /\ timer' = [s \in Requests |-> timer[s] /\ s # r /\ s # helpers[questionOf[r]]]
  /\ ClearUnsettled(Reply(r))
  /\ UNCHANGED <<stage, overlapped, client>>

\* The abort reaches fetch or the reader.  With an AbortError it is swallowed.
AbortIsSwallowed(r) ==
  /\ net[r] \in {"cutFetch", "cutRead"}
  /\ net' = [net EXCEPT ![r] = "closed"]
  /\ UNCHANGED <<stage, overlapped, timer, helpers, client, store>>

\* A browser that rejects with the reason given to abort(), which is a string,
\* makes it an error like any other.
AbortIsReported(r) ==
  /\ net[r] \in {"cutFetch", "cutRead"}
  /\ net' = [net EXCEPT ![r] = "closed"]
  /\ IF net[r] = "cutRead" THEN ReadError(r)
     ELSE EmitFail(questionOf[r]) /\ UNCHANGED store
  /\ UNCHANGED <<stage, overlapped, timer, helpers, acks, lock, clear>>

----------------------------------------------------------------------------
SenderStep(r) == \/ GiveUp(r) \/ StartSending(r) \/ StopFirst(r) \/ Post(r)
                 \/ SendTimeout(r) \/ PluginFails(r) \/ StartWaiting(r) \/ MarkFailed(r)

StreamStep(r) == \/ ResponseStarts(r) \/ FetchFails(r) \/ Ack(r) \/ Chunk(r)
                 \/ FinishChunk(r) \/ StreamEnds(r) \/ StreamFails(r)
                 \/ StreamFailsMutely(r)

AbortSettles(r) == AbortIsSwallowed(r) \/ AbortIsReported(r)

ClearStep == ClearStops \/ CallClear \/ ClearEnds

\* An aborted read rejects in microtasks, before any other event is handled.
Quiet == \A r \in Requests : net[r] # "cutRead"

Next ==
  \/ \E r \in Requests : AbortSettles(r)
  \/ /\ Quiet
     /\ \/ \E r \in Requests : \/ Send(r) \/ SenderStep(r) \/ Resume(r)
                               \/ StreamStep(r) \/ Stall(r)
        \/ UserStops \/ StartClear \/ ClearStep

Spec == Init /\ [][Next]_vars

\* Promises settle, timers fire, and an aborted fetch rejects.  Servers owe
\* nothing: a response may never begin, a stream without timer never end.
FairSpec ==
  /\ Spec
  /\ \A r \in Requests : /\ WF_vars(SenderStep(r))
                         /\ WF_vars(Stall(r) \/ AbortSettles(r))

----------------------------------------------------------------------------
(* Properties.                                                             *)

\* Every variable has its type.
TypeOK ==
  /\ pc \in [Requests -> PC]
  /\ net \in [Requests -> Net]
  /\ stage \in [Requests -> {"new", "replying", "finished"}]
  /\ timer \in [Requests -> BOOLEAN]
  /\ listeners \in [Requests -> SUBSET {"success", "fail"}]
  /\ helpers \in [Questions -> Requests \cup {None}]
  /\ acks \subseteq Questions
  /\ waiting \in Questions \cup {None}
  /\ responding \in Questions \cup {None}
  /\ sending \in Requests \cup {None}
  /\ lock \in Requests \cup {Clearer, None}
  /\ clear \in {"idle", "stopping", "stopped", "calling"}
  /\ overlapped \subseteq Questions

\* A send whose promise was rejected; its stream may go on.
GivenUp(r) == pc[r] \in {"rejected", "failed"}

\* A question with more than one request: they share a local id.
AskedAgain(q) == Cardinality({r \in Requests : questionOf[r] = q /\ net[r] # "idle"}) > 1

Muted(q) == \E r \in Requests : questionOf[r] = q /\ net[r] = "muted"

\* The `once` listeners of a send are used up by the first ack of anyone, so a
\* send can be acked and never hear of it.  That takes an ack that belongs to
\* a send already given up, to a resumption, or to a question asked again: of
\* two sends that follow one another, neither takes the ack of the other.
AckLostOnlyToAnother ==
  \A r \in Requests :
    pc[r] = "posted" /\ "success" \notin listeners[r] =>
      \E s \in Requests \ {r} :
        stage[s] # "new" /\ (GivenUp(s) \/ IsResumption(s) \/ AskedAgain(questionOf[s]))

\* The stop before a post reaches r only through the reply that is awaited and
\* the handle of its local id.  It misses a stream whose sender has given up or
\* whose handle was lost, and one whose wait an older stream of the same
\* question has ended.
BeyondStop(r) ==
  GivenUp(r) \/ helpers[questionOf[r]] # r \/ questionOf[r] \in overlapped

\* The send lock and the stop before every post leave one reply streaming.
\* Two stream at once only if the stop could not reach one of them, or if an
\* interrupted answer was resumed, which takes no lock and stops nothing.
OneReplyAtATime ==
  \A r, s \in Requests :
    r # s /\ Live(r) /\ Live(s) =>
      BeyondStop(r) \/ BeyondStop(s) \/ \E t \in Requests : IsResumption(t)

\* The area shows a reply as being written only while its stream is open,
\* unless the question was asked again or its stream failed with an error
\* whose handling is muted.
RespondingHasStream ==
  responding # None =>
    \/ \E r \in Requests : questionOf[r] = responding /\ Live(r)
    \/ AskedAgain(responding) \/ Muted(responding)

\* When the stream that is awaited stops for any reason (its end, an error, an
\* abort), the same step ends the wait, except after a muted error or when the
\* question was asked again.
WaitingFollowsStream ==
  [][\A r \in Requests : LET q == questionOf[r] IN
       waiting = q /\ Live(r) /\ ~Live(r)' => waiting' # q \/ Muted(q)' \/ AskedAgain(q)]_vars

\* An open stream can be aborted through its local id: the entry is lost only
\* to a request for the same question, or when as many streams as the map
\* holds entries were opened besides.
HandleKept ==
  \A r \in Requests : LET q == questionOf[r] IN
    Live(r) /\ helpers[q] # r =>
      \/ AskedAgain(q)
      \/ Cardinality({s \in Requests \ {r} : net[s] # "idle"}) >= MaxHelpers

\* Whoever awaits a reply whose between-chunk timer is armed will not wait for
\* ever, whatever the server does, except as above.
WaitingEnds ==
  \A r \in Requests : LET q == questionOf[r] IN
    waiting = q /\ timer[r] ~> waiting # q \/ Muted(q) \/ AskedAgain(q)

\* The history or the context is cleared on the server only when no reply is
\* still streaming into it, with the same exceptions.
ClearAfterBreak ==
  [][\A r \in Requests : CallClear /\ Live(r) =>
       BeyondStop(r) \/ \E s \in Requests : IsResumption(s)]_vars
============================================================================
