------------------------- MODULE ChatClient_proofs -------------------------
(***************************************************************************)
(* The safety of ChatClient, for any finite set of requests and any size   *)
(* of the handle map.                                                      *)
(***************************************************************************)
EXTENDS ChatClient, FiniteSetTheorems, FunctionTheorems, TLAPS

Opened(r) == net[r] # "idle"

\* AskedAgain without counting.
OpenedTwice(q) ==
  \E r, s \in Requests : r # s /\ questionOf[r] = q /\ questionOf[s] = q
                           /\ Opened(r) /\ Opened(s)

\* A stream is opened by its sender's post or by a resumption; only an open
\* stream has a timer or an answer.
StreamInv ==
  \A r \in Requests :
    /\ pc[r] \in {"locked", "stopping", "stopped"} => ~Opened(r)
    /\ pc[r] \in {"posted", "acked", "done"} => Opened(r)
    /\ timer[r] => net[r] = "reading"
    /\ net[r] \in {"idle", "fetching"} => stage[r] = "new"
    /\ IsResumption(r) => OpenedTwice(questionOf[r])

\* The entry of a local id is a request that was opened for it.
HandleInv ==
  \A q \in Questions :
    helpers[q] # None => questionOf[helpers[q]] = q /\ Opened(helpers[q])

\* An ack is known from when it comes until its stream has ended, and what a
\* sender knows or the store awaits has been acked.
AckInv ==
  /\ \A r \in Requests :
       /\ Live(r) /\ stage[r] # "new" => questionOf[r] \in acks \/ OpenedTwice(questionOf[r])
       /\ pc[r] \in {"acked", "done"} => stage[r] # "new" \/ OpenedTwice(questionOf[r])
  /\ waiting # None =>
       \E r \in Requests : /\ questionOf[r] = waiting /\ Opened(r)
                           /\ stage[r] # "new" \/ OpenedTwice(waiting)

\* What is shown as being written has an open stream, one that was acked.
RespondingInv ==
  responding # None =>
    \/ \E r \in Requests : questionOf[r] = responding /\ Live(r) /\ stage[r] # "new"
    \/ OpenedTwice(responding) \/ Muted(responding)

\* The handle of an open stream is lost only as HandleKept says.
KeptInv ==
  \A r \in Requests :
    Live(r) /\ helpers[questionOf[r]] # r =>
      \/ OpenedTwice(questionOf[r])
      \/ Cardinality({s \in Requests \ {r} : Opened(s)}) >= MaxHelpers

IInv == TypeOK /\ StreamInv /\ HandleInv /\ AckInv /\ RespondingInv /\ KeptInv

----------------------------------------------------------------------------
(* With the lock.                                                          *)

\* One sender is at work at a time, and none beside a clear.
LockInv ==
  /\ \A r \in Requests : pc[r] \in Unsettled => lock = r
  /\ clear # "idle" => lock = Clearer

Resuming == \E r \in Requests : IsResumption(r)

\* Two streams of a question are not active together, unless it was asked
\* again over an open one.
Active(r) == net[r] \in {"fetching", "reading", "cutRead"}

SingleInv ==
  \A r, s \in Requests :
    r # s /\ questionOf[r] = questionOf[s] /\ questionOf[r] \notin overlapped =>
      ~Active(r) \/ ~Active(s)

\* The stop can reach a stream that is open.
Reachable(r) == Live(r) /\ ~BeyondStop(r)

\* A stream that the stop can reach is the awaited one; after the stop there
\* is none but that of the sender who called it.
StopInv ==
  ~Resuming =>
    /\ \A r \in Requests : pc[r] = "done" /\ Reachable(r) => waiting = questionOf[r]
    /\ \A r, s \in Requests :
         pc[r] \in {"stopped", "posted", "acked"} /\ r # s => ~Reachable(s)
    /\ clear = "stopped" => \A r \in Requests : ~Reachable(r)

\* A send that misses its ack has an excuse.
MissInv == AckLostOnlyToAnother

LInv == IInv /\ LockInv /\ SingleInv /\ StopInv /\ MissInv

----------------------------------------------------------------------------
(* Steps by what they touch.                                               *)

Talks(r) ==
  \/ Send(r) \/ GiveUp(r) \/ StartSending(r) \/ SendTimeout(r) \/ PluginFails(r)
  \/ StartWaiting(r) \/ MarkFailed(r)

Opens(r) == Quiet /\ (Post(r) \/ Resume(r))

Stops == UserStops \/ ClearStops \/ \E r \in Requests : StopFirst(r)

Clears == StartClear \/ CallClear \/ ClearEnds

Ends(r) ==
  \/ FetchFails(r) \/ StreamEnds(r) \/ StreamFails(r) \/ StreamFailsMutely(r)
  \/ AbortIsSwallowed(r) \/ AbortIsReported(r)

Reads(r) == ResponseStarts(r) \/ Ack(r) \/ Chunk(r) \/ FinishChunk(r)

LEMMA Kinds ==
  ASSUME [Next]_vars
  PROVE  \/ UNCHANGED vars
         \/ Stops \/ Clears
         \/ \E r \in Requests : Talks(r) \/ Opens(r) \/ Reads(r) \/ Ends(r) \/ Stall(r)
  BY DEF Next, SenderStep, StreamStep, AbortSettles, ClearStep, Stops, Clears,
         Talks, Opens, Reads, Ends

LEMMA QuestionOf == \A r \in Requests : questionOf[r] \in Questions /\ questionOf[r] # None
  BY NoneAssumption DEF Questions

LEMMA InitType == Init => TypeOK
  BY DEF Init, TypeOK, PC, Unsettled, Net

----------------------------------------------------------------------------
(* What the shared effects do, request by request.                         *)

LEMMA AbortEffect ==
  ASSUME TypeOK, NEW q \in Questions, Abort(q)
  PROVE  /\ helpers' \in [Questions -> Requests \cup {None}]
         /\ net' \in [Requests -> Net]
         /\ \A p \in Questions : helpers'[p] = IF p = q THEN None ELSE helpers[p]
         /\ \A r \in Requests :
              \/ net'[r] = net[r] /\ (r = helpers[q] => ~Live(r))
              \/ r = helpers[q] /\ net[r] = "fetching" /\ net'[r] = "cutFetch"
              \/ r = helpers[q] /\ net[r] = "reading" /\ net'[r] = "cutRead"
  <1>1. helpers' \in [Questions -> Requests \cup {None}]
    BY DEF Abort, TypeOK
  <1>2. \A p \in Questions : helpers'[p] = IF p = q THEN None ELSE helpers[p]
    BY DEF Abort, TypeOK
  <1>3. \A r \in Requests :
          net'[r] = IF r # helpers[q] THEN net[r]
                    ELSE CASE net[r] = "fetching" -> "cutFetch"
                           [] net[r] = "reading"  -> "cutRead"
                           [] OTHER -> net[r]
    BY DEF Abort
  <1>4. \A r \in Requests :
          \/ net'[r] = net[r] /\ (r = helpers[q] => ~Live(r))
          \/ r = helpers[q] /\ net[r] = "fetching" /\ net'[r] = "cutFetch"
          \/ r = helpers[q] /\ net[r] = "reading" /\ net'[r] = "cutRead"
    BY <1>3 DEF Live
  <1>5. \A r \in Requests : net'[r] \in Net
    BY <1>4 DEF TypeOK, Net
  <1>6. net' \in [Requests -> Net]
    BY <1>5 DEF Abort
  <1> QED
    BY <1>1, <1>2, <1>4, <1>6

LEMMA EmitSuccessEffect ==
  ASSUME TypeOK, NEW q, EmitSuccess(q)
  PROVE  /\ pc' \in [Requests -> PC]
         /\ listeners' \in [Requests -> SUBSET {"success", "fail"}]
         /\ \A r \in Requests :
              /\ pc'[r] = IF pc[r] = "posted" /\ "success" \in listeners[r] /\ questionOf[r] = q
                          THEN "acked" ELSE pc[r]
              /\ "success" \notin listeners'[r]
  BY DEF EmitSuccess, TypeOK, PC, Unsettled

LEMMA EmitFailEffect ==
  ASSUME TypeOK, NEW q, EmitFail(q)
  PROVE  /\ pc' \in [Requests -> PC]
         /\ listeners' \in [Requests -> SUBSET {"success", "fail"}]
         /\ \A r \in Requests :
              /\ pc'[r] = pc[r] \/ (pc[r] = "posted" /\ pc'[r] = "rejected")
              /\ "success" \in listeners[r] => "success" \in listeners'[r]
  BY DEF EmitFail, TypeOK, PC, Unsettled

LEMMA ReadErrorEffect ==
  ASSUME TypeOK, NEW q \in Requests, ReadError(q)
  PROVE  /\ pc' \in [Requests -> PC]
         /\ listeners' \in [Requests -> SUBSET {"success", "fail"}]
         /\ \A r \in Requests :
              /\ pc'[r] = pc[r] \/ (pc[r] = "posted" /\ pc'[r] = "rejected")
              /\ "success" \in listeners[r] => "success" \in listeners'[r]
         /\ sending' = sending
         /\ \/ waiting' = waiting /\ responding' = responding /\ questionOf[q] \notin acks
            \/ questionOf[q] \in acks /\ ClearUnsettled(Reply(q))
         /\ waiting' \in {waiting, None} /\ responding' \in {responding, None}
  <1>1. CASE questionOf[q] \in acks
    BY <1>1 DEF ReadError, ClearUnsettled, TypeOK
  <1>2. CASE questionOf[q] \notin acks
    BY <1>2, EmitFailEffect DEF ReadError, store
  <1> QED
    BY <1>1, <1>2

LEMMA StopEffect ==
  ASSUME TypeOK, StopResponding
  PROVE  \/ waiting = None /\ UNCHANGED <<store, streams>>
         \/ /\ waiting \in Questions
            /\ waiting' = None /\ responding' = None /\ sending' = None
            /\ Abort(waiting)
            /\ timer' \in [Requests -> BOOLEAN]
            /\ \A r \in Requests : timer'[r] <=> timer[r] /\ r # helpers[waiting]
            /\ UNCHANGED <<stage, overlapped>>
  BY DEF StopResponding, TypeOK

LEMMA OpenEffect ==
  ASSUME TypeOK, NEW r \in Requests, OpenStream(r)
  PROVE  /\ helpers' \in [Questions -> Requests \cup {None}]
         /\ helpers'[questionOf[r]] = r
         /\ \A p \in Questions : p # questionOf[r] => helpers'[p] \in {helpers[p], None}
         /\ net' \in [Requests -> Net]
         /\ net'[r] = "fetching"
         /\ \A s \in Requests : s # r => net'[s] = net[s]
         /\ overlapped' \subseteq Questions
         /\ overlapped \subseteq overlapped'
         /\ UNCHANGED <<stage, timer>>
  BY QuestionOf DEF OpenStream, TypeOK, Net

----------------------------------------------------------------------------
(* Types.                                                                  *)

LEMMA TypeStep == TypeOK /\ [Next]_vars => TypeOK'
  <1> SUFFICES ASSUME TypeOK, [Next]_vars
               PROVE  TypeOK'
    OBVIOUS
  <1> USE QuestionOf
  <1>1. CASE UNCHANGED vars
    BY <1>1 DEF vars, client, streams, store, TypeOK
  <1>2. CASE Stops
    <2>1. StopResponding
      BY <1>2 DEF Stops, UserStops, ClearStops, StopFirst
    <2>2. /\ net' \in [Requests -> Net] /\ stage' = stage /\ overlapped' = overlapped
          /\ timer' \in [Requests -> BOOLEAN]
          /\ helpers' \in [Questions -> Requests \cup {None}]
          /\ waiting' \in Questions \cup {None} /\ responding' \in Questions \cup {None}
          /\ sending' \in Requests \cup {None}
      BY <2>1, StopEffect, AbortEffect DEF TypeOK, store, streams
    <2>3. /\ pc' \in [Requests -> PC] /\ UNCHANGED <<listeners, acks, lock>>
          /\ clear' \in {"idle", "stopping", "stopped", "calling"}
      BY <1>2 DEF Stops, UserStops, ClearStops, StopFirst, TypeOK, PC, Unsettled, client
    <2> QED
      BY <2>2, <2>3 DEF TypeOK
  <1>3. CASE Clears
    BY <1>3 DEF Clears, StartClear, CallClear, ClearEnds, TypeOK, client, streams, store
  <1>4. ASSUME NEW r \in Requests, Talks(r)
        PROVE  TypeOK'
    BY <1>4 DEF Talks, Send, GiveUp, StartSending, SendTimeout, PluginFails, StartWaiting,
                MarkFailed, Settle, TypeOK, PC, Unsettled, client, streams, store
  <1>5. ASSUME NEW r \in Requests, Opens(r)
        PROVE  TypeOK'
    <2>1. OpenStream(r)
      BY <1>5 DEF Opens, Post, Resume
    <2>2. /\ pc' \in [Requests -> PC] /\ UNCHANGED <<acks, lock, clear, responding, sending>>
          /\ listeners' \in [Requests -> SUBSET {"success", "fail"}]
          /\ waiting' \in Questions \cup {None}
      BY <1>5 DEF Opens, Post, Resume, TypeOK, PC, Unsettled, client, store
    <2> QED
      BY <2>1, <2>2, OpenEffect DEF TypeOK
  <1>6. ASSUME NEW r \in Requests, Reads(r)
        PROVE  TypeOK'
    <2>1. CASE Ack(r)
      BY <1>6, <2>1, EmitSuccessEffect DEF Ack, TypeOK, store
    <2>2. CASE ResponseStarts(r) \/ Chunk(r) \/ FinishChunk(r)
      BY <2>2 DEF ResponseStarts, Chunk, FinishChunk, TypeOK, Net, client, store
    <2> QED
      BY <1>6, <2>1, <2>2 DEF Reads
  <1>7. ASSUME NEW r \in Requests, Ends(r)
        PROVE  TypeOK'
    <2>1. CASE FetchFails(r)
      BY <2>1, EmitFailEffect DEF FetchFails, TypeOK, Net, store
    <2>2. CASE StreamEnds(r)
      BY <2>2 DEF StreamEnds, ClearUnsettled, TypeOK, Net
    <2>3. CASE StreamFails(r)
      BY <2>3, ReadErrorEffect DEF StreamFails, TypeOK, Net
    <2>4. CASE StreamFailsMutely(r) \/ AbortIsSwallowed(r)
      BY <2>4 DEF StreamFailsMutely, AbortIsSwallowed, TypeOK, Net, client, store
    <2>5. CASE AbortIsReported(r)
      BY <2>5, EmitFailEffect, ReadErrorEffect DEF AbortIsReported, TypeOK, Net, store
    <2> QED
      BY <1>7, <2>1, <2>2, <2>3, <2>4, <2>5 DEF Ends
  <1>8. ASSUME NEW r \in Requests, Stall(r)
        PROVE  TypeOK'
    BY <1>8, AbortEffect DEF Stall, ClearUnsettled, TypeOK, client
  <1> QED
    BY <1>1, <1>2, <1>3, <1>4, <1>5, <1>6, <1>7, <1>8, Kinds

\* Every variable has its type.
THEOREM TypeCorrect == Spec => []TypeOK
  BY InitType, TypeStep, PTL DEF Spec

----------------------------------------------------------------------------
(* What lasts.                                                             *)

\* A stop leaves senders alone, but for the one that called it.
LEMMA StopsEffect ==
  ASSUME TypeOK, Stops
  PROVE  /\ StopResponding /\ UNCHANGED <<listeners, acks, lock>>
         /\ \/ pc' = pc /\ clear' = clear
            \/ pc' = pc /\ clear = "stopping" /\ clear' = "stopped"
            \/ /\ clear' = clear
               /\ \E r \in Requests : /\ pc[r] = "stopping"
                                      /\ pc' = [pc EXCEPT ![r] = "stopped"]
  BY DEF Stops, UserStops, ClearStops, StopFirst, client

LEMMA StopsNet ==
  ASSUME TypeOK, Stops
  PROVE  /\ \A r \in Requests :
              \/ net'[r] = net[r] /\ timer'[r] = timer[r]
              \/ net[r] = "fetching" /\ net'[r] = "cutFetch" /\ ~timer'[r]
              \/ net[r] = "reading" /\ net'[r] = "cutRead" /\ ~timer'[r]
              \/ net'[r] = net[r] /\ ~timer'[r] /\ net[r] # "reading"
         /\ \A q \in Questions : helpers'[q] \in {helpers[q], None}
         /\ waiting' = None /\ responding' \in {responding, None}
         /\ UNCHANGED <<stage, overlapped>>
  <1>1. CASE waiting = None /\ UNCHANGED <<store, streams>>
    BY <1>1 DEF store, streams
  <1>2. CASE /\ waiting \in Questions
             /\ waiting' = None /\ responding' = None /\ sending' = None
             /\ Abort(waiting)
             /\ timer' \in [Requests -> BOOLEAN]
             /\ \A r \in Requests : timer'[r] <=> timer[r] /\ r # helpers[waiting]
             /\ UNCHANGED <<stage, overlapped>>
    <2>1. \A r \in Requests : timer[r] \in BOOLEAN /\ timer'[r] \in BOOLEAN
      BY <1>2 DEF TypeOK
    <2> QED
      BY <1>2, <2>1, AbortEffect DEF Live
  <1> QED
    BY <1>1, <1>2, StopsEffect, StopEffect

\* The steps of a sender.
Moves(r) ==
  \/ pc'[r] = pc[r]
  \/ pc[r] = "idle" /\ pc'[r] = "locked" /\ Send(r)
  \/ pc[r] = "locked" /\ pc'[r] \in {"stopping", "failed"}
  \/ pc[r] = "stopping" /\ pc'[r] = "stopped" /\ StopFirst(r)
  \/ pc[r] = "stopped" /\ pc'[r] = "posted" /\ Post(r)
  \/ /\ pc[r] = "posted" /\ pc'[r] = "acked"
     /\ \E s \in Requests : Ack(s) /\ questionOf[s] = questionOf[r]
  \/ pc[r] = "acked" /\ pc'[r] = "done" /\ StartWaiting(r)
  \/ pc[r] \in {"stopping", "stopped", "posted", "acked"} /\ pc'[r] = "rejected"
  \/ pc[r] = "rejected" /\ pc'[r] = "failed"

LEMMA PcMoves ==
  ASSUME TypeOK, [Next]_vars, NEW r \in Requests
  PROVE  Moves(r)
  <1> USE DEF Moves
  <1>1. CASE UNCHANGED vars
    BY <1>1 DEF vars, client
  <1>2. CASE Stops
    BY <1>2 DEF Stops, UserStops, ClearStops, StopFirst, client, TypeOK
  <1>3. CASE Clears
    BY <1>3 DEF Clears, StartClear, CallClear, ClearEnds
  <1>4. ASSUME NEW s \in Requests, Talks(s)
        PROVE  Moves(r)
    BY <1>4 DEF Talks, Send, GiveUp, StartSending, SendTimeout, PluginFails, StartWaiting,
                MarkFailed, Settle, TypeOK
  <1>5. ASSUME NEW s \in Requests, Opens(s)
        PROVE  Moves(r)
    BY <1>5 DEF Opens, Post, Resume, client, TypeOK
  <1>6. ASSUME NEW s \in Requests, Reads(s)
        PROVE  Moves(r)
    BY <1>6, EmitSuccessEffect DEF Reads, ResponseStarts, Ack, Chunk, FinishChunk, client
  <1>7. ASSUME NEW s \in Requests, Ends(s)
        PROVE  Moves(r)
    BY <1>7, EmitFailEffect, ReadErrorEffect
    DEF Ends, FetchFails, StreamEnds, StreamFails, StreamFailsMutely, AbortIsSwallowed,
        AbortIsReported, client
  <1>8. ASSUME NEW s \in Requests, Stall(s)
        PROVE  Moves(r)
    BY <1>8 DEF Stall, client
  <1> QED
    BY <1>1, <1>2, <1>3, <1>4, <1>5, <1>6, <1>7, <1>8, Kinds

LEMMA ReadsNet ==
  ASSUME TypeOK, NEW r \in Requests, Reads(r)
  PROVE  /\ \A s \in Requests : s # r => /\ net'[s] = net[s] /\ stage'[s] = stage[s]
                                         /\ timer'[s] = timer[s]
         /\ net'[r] = "reading"
         /\ net[r] = "reading" \/ (net[r] = "fetching" /\ stage'[r] = stage[r])
         /\ stage[r] # "new" => stage'[r] # "new"
         /\ UNCHANGED <<helpers, overlapped, waiting>>
         /\ acks \subseteq acks'
  BY DEF Reads, ResponseStarts, Ack, Chunk, FinishChunk, client, store, TypeOK

LEMMA EndsNet ==
  ASSUME TypeOK, NEW r \in Requests, Ends(r)
  PROVE  /\ \A s \in Requests : s # r => /\ net'[s] = net[s] /\ timer'[s] = timer[s]
         /\ net[r] \notin {"idle", "muted", "closed"}
         /\ net'[r] \in {"closed", "muted"}
         /\ timer'[r] = FALSE \/ (timer'[r] = timer[r] /\ net[r] # "reading")
         /\ UNCHANGED <<stage, overlapped>>
         /\ \A q \in Questions : helpers'[q] \in {helpers[q], None}
         /\ waiting' \in {waiting, None} /\ responding' \in {responding, None}
  <1>1. CASE FetchFails(r)
    BY <1>1 DEF FetchFails, store, TypeOK
  <1>2. CASE StreamEnds(r)
    BY <1>2 DEF StreamEnds, ClearUnsettled, TypeOK
  <1>3. CASE StreamFails(r)
    BY <1>3, ReadErrorEffect DEF StreamFails, TypeOK
  <1>4. CASE StreamFailsMutely(r) \/ AbortIsSwallowed(r)
    BY <1>4 DEF StreamFailsMutely, AbortIsSwallowed, store, TypeOK
  <1>5. CASE AbortIsReported(r)
    BY <1>5, ReadErrorEffect DEF AbortIsReported, store, TypeOK
  <1> QED
    BY <1>1, <1>2, <1>3, <1>4, <1>5 DEF Ends

LEMMA StallNet ==
  ASSUME TypeOK, NEW r \in Requests, Stall(r)
  PROVE  /\ \A s \in Requests :
              /\ \/ net'[s] = net[s]
                 \/ net[s] = "fetching" /\ net'[s] = "cutFetch"
                 \/ net[s] = "reading" /\ net'[s] = "cutRead"
              /\ net'[s] # net[s] => ~timer'[s] /\ s = helpers[questionOf[r]]
              /\ timer'[s] => timer[s]
         /\ timer[r] /\ ~timer'[r]
         /\ \A q \in Questions : helpers'[q] \in {helpers[q], None}
         /\ UNCHANGED <<stage, overlapped, client>>
         /\ ClearUnsettled(Reply(r))
         /\ waiting' \in {waiting, None} /\ responding' \in {responding, None}
  BY AbortEffect, QuestionOf DEF Stall, ClearUnsettled, TypeOK

\* The streams of a step that opens one.
LEMMA OpensNet ==
  ASSUME TypeOK, NEW r \in Requests, Opens(r)
  PROVE  /\ net[r] = "idle" \/ pc[r] = "stopped"
         /\ OpenStream(r)
         /\ UNCHANGED <<acks, lock, clear, responding>>
  BY DEF Opens, Post, Resume, client, store

LEMMA NetUnchanged ==
  ASSUME UNCHANGED vars \/ Clears \/ \E r \in Requests : Talks(r)
  PROVE  UNCHANGED streams
  BY DEF vars, Clears, StartClear, CallClear, ClearEnds, Talks, Send, GiveUp, StartSending,
         SendTimeout, PluginFails, StartWaiting, MarkFailed, Settle

LEMMA OpenLasts ==
  ASSUME TypeOK, [Next]_vars, NEW r \in Requests
  PROVE  /\ Opened(r) => Opened(r)'
         /\ net[r] = "muted" => net'[r] = "muted" \/ Opens(r)
         /\ stage[r] # "new" => stage'[r] # "new"
         /\ ~Opened(r) /\ Opened(r)' => Opens(r)
         /\ questionOf[r] \in overlapped => questionOf[r] \in overlapped'
         /\ Live(r)' => Live(r) \/ Opens(r)
  <1> USE DEF Opened, Live
  <1>1. CASE UNCHANGED vars \/ Clears \/ \E s \in Requests : Talks(s)
    BY <1>1, NetUnchanged DEF streams
  <1>2. CASE Stops
    BY <1>2, StopsNet
  <1>3. ASSUME NEW s \in Requests, Opens(s)
        PROVE  /\ Opened(r) => Opened(r)'
               /\ net[r] = "muted" => net'[r] = "muted" \/ Opens(r)
               /\ stage[r] # "new" => stage'[r] # "new"
               /\ ~Opened(r) /\ Opened(r)' => Opens(r)
               /\ questionOf[r] \in overlapped => questionOf[r] \in overlapped'
               /\ Live(r)' => Live(r) \/ Opens(r)
    BY <1>3, OpensNet, OpenEffect
  <1>4. ASSUME NEW s \in Requests, Reads(s)
        PROVE  /\ Opened(r) => Opened(r)'
               /\ net[r] = "muted" => net'[r] = "muted" \/ Opens(r)
               /\ stage[r] # "new" => stage'[r] # "new"
               /\ ~Opened(r) /\ Opened(r)' => Opens(r)
               /\ questionOf[r] \in overlapped => questionOf[r] \in overlapped'
               /\ Live(r)' => Live(r) \/ Opens(r)
    BY <1>4, ReadsNet
  <1>5. ASSUME NEW s \in Requests, Ends(s) \/ Stall(s)
        PROVE  /\ Opened(r) => Opened(r)'
               /\ net[r] = "muted" => net'[r] = "muted" \/ Opens(r)
               /\ stage[r] # "new" => stage'[r] # "new"
               /\ ~Opened(r) /\ Opened(r)' => Opens(r)
               /\ questionOf[r] \in overlapped => questionOf[r] \in overlapped'
               /\ Live(r)' => Live(r) \/ Opens(r)
    BY <1>5, EndsNet, StallNet
  <1> QED
    BY <1>1, <1>2, <1>3, <1>4, <1>5, Kinds

\* A question asked again stays so, and a resumption is one for good.
LEMMA TwiceLasts ==
  ASSUME TypeOK, [Next]_vars
  PROVE  /\ \A q : OpenedTwice(q) => OpenedTwice(q)'
         /\ \A r \in Requests : GivenUp(r) => GivenUp(r)'
         /\ \A r \in Requests : IsResumption(r) => IsResumption(r)'
  <1>1. \A r \in Requests : Opened(r) => Opened(r)'
    BY OpenLasts
  <1>2. \A r \in Requests : Moves(r)
    BY PcMoves
  <1>3. \A q : OpenedTwice(q) => OpenedTwice(q)'
    BY <1>1 DEF OpenedTwice
  <1>4. \A r \in Requests : GivenUp(r) => GivenUp(r)'
    BY <1>2 DEF Moves, GivenUp
  <1>5. \A r \in Requests : IsResumption(r) => IsResumption(r)'
    BY <1>1, <1>2 DEF Moves, IsResumption, Opened, Send
  <1> QED
    BY <1>3, <1>4, <1>5

LEMMA TwoOf ==
  ASSUME NEW S, IsFiniteSet(S)
  PROVE  Cardinality(S) > 1 <=> \E x, y \in S : x # y
  <1>1. ASSUME NEW x \in S, NEW y \in S, x # y
        PROVE  Cardinality(S) > 1
    <2>1. IsFiniteSet(S \ {x}) /\ Cardinality(S \ {x}) = Cardinality(S) - 1
      BY FS_RemoveElement
    <2>2. Cardinality(S \ {x}) \in Nat /\ Cardinality(S \ {x}) # 0
      <3>1. S \ {x} # {}
        BY <1>1
      <3> QED
        BY <2>1, <3>1, FS_CardinalityType, FS_EmptySet
    <2>3. Cardinality(S) \in Nat
      BY FS_CardinalityType
    <2> QED
      BY <2>1, <2>2, <2>3
  <1>2. ASSUME ~ \E x, y \in S : x # y
        PROVE  ~(Cardinality(S) > 1)
    <2>1. CASE S = {}
      BY <2>1, FS_EmptySet
    <2>2. CASE S # {}
      <3>1. PICK x \in S : TRUE
        BY <2>2
      <3>2. S = {x}
        BY <1>2, <3>1
      <3> QED
        BY <3>2, FS_Singleton
    <2> QED
      BY <2>1, <2>2
  <1> QED
    BY <1>1, <1>2

LEMMA AgainIsTwice == \A q : AskedAgain(q) <=> OpenedTwice(q)
  <1> SUFFICES ASSUME NEW q PROVE AskedAgain(q) <=> OpenedTwice(q)
    OBVIOUS
  <1> DEFINE S == {r \in Requests : questionOf[r] = q /\ net[r] # "idle"}
  <1>1. IsFiniteSet(S)
    BY RequestsAssumption, FS_Subset
  <1>2. OpenedTwice(q) <=> \E x, y \in S : x # y
    BY DEF OpenedTwice, Opened
  <1>3. AskedAgain(q) <=> Cardinality(S) > 1
    BY DEF AskedAgain
  <1> HIDE DEF S
  <1> QED
    BY <1>1, <1>2, <1>3, TwoOf

----------------------------------------------------------------------------
(* The parts of IInv, one by one.                                          *)

LEMMA OpensFresh ==
  ASSUME TypeOK, StreamInv, NEW r \in Requests, Opens(r)
  PROVE  ~Opened(r)
  BY DEF Opens, Post, Resume, StreamInv, Opened

LEMMA ResumeTwice ==
  ASSUME TypeOK, StreamInv, [Next]_vars, NEW r \in Requests, Resume(r)
  PROVE  OpenedTwice(questionOf[r])'
  <1>1. PICK s \in Requests : questionOf[s] = questionOf[r] /\ stage[s] = "finished"
    BY DEF Resume
  <1>2. Opened(s) /\ s # r
    BY <1>1 DEF Resume, StreamInv, Opened
  <1>3. Opened(r)' /\ Opened(s)'
    BY <1>2, OpenLasts, OpenEffect DEF Resume, Opened
  <1> QED
    BY <1>1, <1>2, <1>3 DEF OpenedTwice

LEMMA StreamKept ==
  ASSUME TypeOK, StreamInv, [Next]_vars
  PROVE  StreamInv'
  <1> SUFFICES ASSUME NEW r \in Requests
               PROVE  /\ pc'[r] \in {"locked", "stopping", "stopped"} => ~Opened(r)'
                      /\ pc'[r] \in {"posted", "acked", "done"} => Opened(r)'
                      /\ timer'[r] => net'[r] = "reading"
                      /\ net'[r] \in {"idle", "fetching"} => stage'[r] = "new"
                      /\ IsResumption(r)' => OpenedTwice(questionOf[r])'
    BY DEF StreamInv
  <1>0. Moves(r) /\ (Opened(r) => Opened(r)') /\ (Opened(r)' => Opened(r) \/ Opens(r))
    BY PcMoves, OpenLasts
  <1>1. pc'[r] \in {"locked", "stopping", "stopped"} => ~Opened(r)'
    <2>1. CASE Opens(r)
      BY <2>1 DEF Opens, Post, Resume, client, TypeOK
    <2>2. CASE ~Opens(r)
      BY <1>0, <2>2 DEF Moves, StreamInv, Send, Opened
    <2> QED
      BY <2>1, <2>2
  <1>2. pc'[r] \in {"posted", "acked", "done"} => Opened(r)'
    <2>1. CASE Post(r)
      BY <2>1, OpenEffect DEF Post, Opened
    <2>2. CASE ~Post(r)
      BY <1>0, <2>2 DEF Moves, StreamInv
    <2> QED
      BY <2>1, <2>2
  <1>3. /\ timer'[r] => net'[r] = "reading"
        /\ net'[r] \in {"idle", "fetching"} => stage'[r] = "new"
    <2>1. CASE UNCHANGED vars \/ Clears \/ \E s \in Requests : Talks(s)
      BY <2>1, NetUnchanged DEF streams, StreamInv
    <2>2. CASE Stops
      BY <2>2, StopsNet DEF StreamInv
    <2>3. ASSUME NEW s \in Requests, Opens(s)
          PROVE  /\ timer'[r] => net'[r] = "reading"
                 /\ net'[r] \in {"idle", "fetching"} => stage'[r] = "new"
      BY <2>3, OpensNet, OpenEffect, OpensFresh DEF StreamInv, Opened
    <2>4. ASSUME NEW s \in Requests, Reads(s)
          PROVE  /\ timer'[r] => net'[r] = "reading"
                 /\ net'[r] \in {"idle", "fetching"} => stage'[r] = "new"
      BY <2>4, ReadsNet DEF StreamInv
    <2>5. ASSUME NEW s \in Requests, Ends(s) \/ Stall(s)
          PROVE  /\ timer'[r] => net'[r] = "reading"
                 /\ net'[r] \in {"idle", "fetching"} => stage'[r] = "new"
      BY <2>5, EndsNet, StallNet DEF StreamInv
    <2> QED
      BY <2>1, <2>2, <2>3, <2>4, <2>5, Kinds
  <1>4. IsResumption(r)' => OpenedTwice(questionOf[r])'
    <2>1. CASE IsResumption(r)
      BY <2>1, TwiceLasts DEF StreamInv
    <2>2. CASE ~IsResumption(r) /\ IsResumption(r)'
      <3>1. pc[r] = "idle" /\ ~Opened(r) /\ Opened(r)'
        BY <1>0, <2>2 DEF Moves, IsResumption, Opened
      <3>2. Resume(r)
        BY <1>0, <3>1 DEF Opens, Post
      <3> QED
        BY <3>2, ResumeTwice
    <2> QED
      BY <2>1, <2>2
  <1> QED
    BY <1>1, <1>2, <1>3, <1>4

LEMMA HandleKeptInv ==
  ASSUME TypeOK, HandleInv, [Next]_vars
  PROVE  HandleInv'
  <1> SUFFICES ASSUME NEW q \in Questions, helpers'[q] # None
               PROVE  questionOf[helpers'[q]] = q /\ net'[helpers'[q]] # "idle"
    BY DEF HandleInv, Opened
  <1>0. \A r \in Requests : Opened(r) => Opened(r)'
    BY OpenLasts
  <1>1. CASE helpers'[q] = helpers[q]
    BY <1>0, <1>1 DEF HandleInv, TypeOK, Opened
  <1>2. CASE helpers'[q] # helpers[q]
    <2>1. PICK r \in Requests : Opens(r)
      BY <1>2, NetUnchanged, StopsNet, ReadsNet, EndsNet, StallNet, Kinds DEF streams
    <2>2. q = questionOf[r] /\ helpers'[q] = r /\ Opened(r)'
      BY <1>2, <2>1, OpensNet, OpenEffect DEF Opened
    <2> QED
      BY <2>2 DEF Opened
  <1> QED
    BY <1>1, <1>2

LEMMA AcksMove ==
  ASSUME TypeOK, [Next]_vars, NEW q \in acks, q \notin acks'
  PROVE  \E r \in Requests : StreamEnds(r) /\ Reply(r) = q
  <1>1. CASE UNCHANGED vars \/ Stops \/ Clears
    BY <1>1, StopsEffect DEF vars, client, Clears, StartClear, CallClear, ClearEnds
  <1>2. ASSUME NEW r \in Requests, Talks(r)
        PROVE  acks' = acks
    BY <1>2 DEF Talks, Send, GiveUp, StartSending, SendTimeout, PluginFails, StartWaiting,
                MarkFailed, Settle
  <1>3. ASSUME NEW r \in Requests, Opens(r) \/ Reads(r) \/ Stall(r)
        PROVE  acks \subseteq acks'
    BY <1>3, OpensNet, ReadsNet, StallNet DEF client
  <1>4. ASSUME NEW r \in Requests, Ends(r)
        PROVE  acks' = acks \/ (StreamEnds(r) /\ Reply(r) = q)
    BY <1>4 DEF Ends, FetchFails, StreamEnds, StreamFails, StreamFailsMutely,
                AbortIsSwallowed, AbortIsReported, client
  <1> QED
    BY <1>1, <1>2, <1>3, <1>4, Kinds

LEMMA StageMoves ==
  ASSUME TypeOK, [Next]_vars, NEW r \in Requests, stage[r] = "new", stage'[r] # "new"
  PROVE  Ack(r) \/ (Chunk(r) /\ IsResumption(r))
  <1>1. CASE UNCHANGED vars \/ Clears \/ \E s \in Requests : Talks(s)
    BY <1>1, NetUnchanged DEF streams
  <1>2. CASE Stops
    BY <1>2, StopsNet
  <1>3. ASSUME NEW s \in Requests, Opens(s) \/ Ends(s) \/ Stall(s)
        PROVE  stage' = stage
    BY <1>3, OpensNet, OpenEffect, EndsNet, StallNet
  <1>4. ASSUME NEW s \in Requests, Reads(s)
        PROVE  s = r /\ (Ack(s) \/ (Chunk(s) /\ IsResumption(s)))
    BY <1>4, ReadsNet DEF Reads, ResponseStarts, Chunk, FinishChunk, TypeOK
  <1> QED
    BY <1>1, <1>2, <1>3, <1>4, Kinds

LEMMA WaitingMoves ==
  ASSUME TypeOK, [Next]_vars, waiting' # None, waiting' # waiting
  PROVE  \E r \in Requests : waiting' = questionOf[r] /\ (StartWaiting(r) \/ Resume(r))
  <1>1. CASE UNCHANGED vars \/ Stops \/ Clears
    BY <1>1, StopsNet DEF vars, store, Clears, StartClear, CallClear, ClearEnds
  <1>2. ASSUME NEW r \in Requests, Talks(r) \/ Opens(r)
        PROVE  waiting' = questionOf[r] /\ (StartWaiting(r) \/ Resume(r))
    BY <1>2 DEF Talks, Send, GiveUp, StartSending, SendTimeout, PluginFails, StartWaiting,
                MarkFailed, Opens, Post, Resume, store
  <1>3. ASSUME NEW r \in Requests, Reads(r) \/ Ends(r) \/ Stall(r)
        PROVE  FALSE
    BY <1>3, ReadsNet, EndsNet, StallNet
  <1> QED
    BY <1>1, <1>2, <1>3, Kinds

\* Two requests for one question, both opened.
LEMMA TwoOpened ==
  ASSUME NEW r \in Requests, NEW s \in Requests, r # s, questionOf[r] = questionOf[s],
         Opened(r), Opened(s)
  PROVE  OpenedTwice(questionOf[r])
  BY DEF OpenedTwice

LEMMA AckKept ==
  ASSUME TypeOK, StreamInv, AckInv, [Next]_vars
  PROVE  AckInv'
  <1>0. StreamInv' /\ (\A r \in Requests : Moves(r) /\ (Opened(r) => Opened(r)'))
        /\ \A q : OpenedTwice(q) => OpenedTwice(q)'
    BY StreamKept, PcMoves, OpenLasts, TwiceLasts
  <1>1. ASSUME NEW r \in Requests, Live(r)', stage'[r] # "new"
        PROVE  questionOf[r] \in acks' \/ OpenedTwice(questionOf[r])'
    <2>1. CASE stage[r] = "new"
      BY <1>0, <1>1, <2>1, StageMoves DEF Ack, StreamInv
    <2>2. CASE stage[r] # "new"
      <3>1. Live(r) /\ Opened(r)
        BY <1>1, <2>2, OpenLasts, OpensFresh DEF StreamInv, Opened, Live
      <3>2. CASE questionOf[r] \in acks /\ questionOf[r] \notin acks'
        <4>1. PICK s \in Requests : StreamEnds(s) /\ Reply(s) = questionOf[r]
          BY <3>2, AcksMove
        <4>2. questionOf[s] = questionOf[r] /\ Opened(s)
          BY <4>1, QuestionOf DEF StreamEnds, Reply, Opened
        <4>3. s # r
          BY <1>1, <4>1 DEF StreamEnds, Live, TypeOK
        <4> QED
          BY <1>0, <3>1, <4>2, <4>3, TwoOpened
      <3> QED
        BY <1>0, <2>2, <3>1, <3>2 DEF AckInv
    <2> QED
      BY <2>1, <2>2
  <1>2. ASSUME NEW r \in Requests, pc'[r] \in {"acked", "done"}
        PROVE  stage'[r] # "new" \/ OpenedTwice(questionOf[r])'
    <2>1. CASE pc[r] \in {"acked", "done"}
      BY <1>0, <2>1, OpenLasts DEF AckInv
    <2>2. CASE pc[r] \notin {"acked", "done"}
      <3>1. pc[r] = "posted" /\ \E s \in Requests : Ack(s) /\ questionOf[s] = questionOf[r]
        BY <1>0, <1>2, <2>2 DEF Moves
      <3>2. PICK s \in Requests : Ack(s) /\ questionOf[s] = questionOf[r]
        BY <3>1
      <3>3. CASE s = r
        BY <3>2, <3>3 DEF Ack, TypeOK
      <3>4. CASE s # r
        <4>1. Opened(r) /\ Opened(s)
          BY <3>1, <3>2 DEF StreamInv, Ack, Opened
        <4> QED
          BY <1>0, <3>2, <3>4, <4>1, TwoOpened
      <3> QED
        BY <3>3, <3>4
    <2> QED
      BY <2>1, <2>2
  <1>3. ASSUME waiting' # None
        PROVE  \E r \in Requests : /\ questionOf[r] = waiting' /\ Opened(r)'
                                   /\ stage'[r] # "new" \/ OpenedTwice(waiting)'
    <2>1. CASE waiting' = waiting
      <3>1. PICK r \in Requests : /\ questionOf[r] = waiting /\ Opened(r)
                                  /\ stage[r] # "new" \/ OpenedTwice(waiting)
        BY <1>3, <2>1 DEF AckInv
      <3> QED
        BY <1>0, <2>1, <3>1, OpenLasts DEF OpenedTwice, Opened
    <2>2. CASE waiting' # waiting
      <3>1. PICK r \in Requests : waiting' = questionOf[r] /\ (StartWaiting(r) \/ Resume(r))
        BY <1>3, <2>2, WaitingMoves
      <3>2. CASE StartWaiting(r)
        <4>1. pc'[r] = "done"
          BY <3>2 DEF StartWaiting, Settle, TypeOK
        <4> QED
          BY <1>0, <1>2, <3>1, <4>1 DEF StreamInv, OpenedTwice, Opened
      <3>3. CASE Resume(r)
        BY <3>1, <3>3, ResumeTwice, OpenEffect DEF Resume, OpenedTwice, Opened
      <3> QED
        BY <3>1, <3>2, <3>3
    <2> QED
      BY <2>1, <2>2
  <1> QED
    BY <1>1, <1>2, <1>3 DEF AckInv

\* How an open stream stops.
LEMMA LiveEnds ==
  ASSUME TypeOK, StreamInv, HandleInv, [Next]_vars, NEW r \in Requests, Live(r), ~Live(r)'
  PROVE  \/ StopResponding /\ waiting = questionOf[r] /\ waiting' = None /\ responding' = None
         \/ Ends(r)
         \/ \E s \in Requests : Stall(s) /\ questionOf[s] = questionOf[r] /\ Opened(s)
  <1> USE DEF Live
  <1>1. ~(UNCHANGED vars \/ Clears \/ \E s \in Requests : Talks(s))
    BY NetUnchanged DEF streams
  <1>2. ASSUME NEW s \in Requests, Opens(s) \/ Reads(s)
        PROVE  FALSE
    BY <1>2, OpensNet, OpenEffect, ReadsNet
  <1>3. CASE Stops
    <2>1. StopResponding
      BY <1>3, StopsEffect
    <2>2. /\ waiting \in Questions /\ waiting' = None /\ responding' = None
          /\ Abort(waiting)
      BY <2>1, StopEffect DEF streams
    <2>3. r = helpers[waiting]
      BY <2>2, AbortEffect
    <2>4. questionOf[r] = waiting
      BY <2>2, <2>3, NoneAssumption DEF HandleInv
    <2> QED
      BY <2>1, <2>2, <2>4
  <1>4. ASSUME NEW s \in Requests, Ends(s)
        PROVE  s = r
    BY <1>4, EndsNet
  <1>5. ASSUME NEW s \in Requests, Stall(s)
        PROVE  questionOf[s] = questionOf[r] /\ Opened(s)
    <2>1. r = helpers[questionOf[s]]
      BY <1>5, StallNet
    <2>2. questionOf[r] = questionOf[s]
      BY <2>1, QuestionOf, NoneAssumption DEF HandleInv
    <2> QED
      BY <1>5, <2>2, StallNet DEF StreamInv, Opened
  <1> QED
    BY <1>1, <1>2, <1>3, <1>4, <1>5, Kinds

\* When the stream of an acked request stops, what is awaited and shown of its
\* question is settled in the same step.
LEMMA EndSettles ==
  ASSUME TypeOK, StreamInv, HandleInv, AckInv, [Next]_vars,
         NEW r \in Requests, Live(r), ~Live(r)', stage[r] # "new",
         ~OpenedTwice(questionOf[r])
  PROVE  \/ waiting' # questionOf[r] /\ responding' # questionOf[r]
         \/ Muted(questionOf[r])'
  <1> DEFINE q == questionOf[r]
  <1>1. Opened(r) /\ q # None /\ Reply(r) = q
    BY QuestionOf DEF Live, Opened, Reply
  <1>2. ASSUME ClearUnsettled(q)
        PROVE  waiting' # q /\ responding' # q
    BY <1>1, <1>2 DEF ClearUnsettled
  <1>3. CASE StopResponding /\ waiting = q /\ waiting' = None /\ responding' = None
    BY <1>1, <1>3
  <1>4. CASE Ends(r)
    <2>1. ~FetchFails(r) /\ ~AbortIsSwallowed(r) /\ ~AbortIsReported(r)
      BY DEF FetchFails, AbortIsSwallowed, AbortIsReported, StreamInv, Live
    <2>2. CASE StreamEnds(r)
      BY <1>1, <1>2, <2>2 DEF StreamEnds
    <2>3. CASE StreamFails(r)
      BY <1>1, <1>2, <2>3 DEF StreamFails, ReadError, AckInv
    <2>4. CASE StreamFailsMutely(r)
      BY <2>4 DEF StreamFailsMutely, Muted, TypeOK
    <2> QED
      BY <1>4, <2>1, <2>2, <2>3, <2>4 DEF Ends
  <1>5. ASSUME NEW s \in Requests, Stall(s), questionOf[s] = q, Opened(s)
        PROVE  waiting' # q /\ responding' # q
    <2>1. s = r
      BY <1>1, <1>5, TwoOpened
    <2> QED
      BY <1>1, <1>2, <1>5, <2>1 DEF Stall
  <1> QED
    BY <1>3, <1>4, <1>5, LiveEnds

LEMMA RespondingMoves ==
  ASSUME TypeOK, [Next]_vars, responding' # None, responding' # responding
  PROVE  \E r \in Requests : responding' = questionOf[r] /\ Chunk(r)
  <1>1. CASE UNCHANGED vars \/ Stops \/ Clears
    BY <1>1, StopsNet DEF vars, store, Clears, StartClear, CallClear, ClearEnds
  <1>2. ASSUME NEW r \in Requests, Talks(r)
        PROVE  FALSE
    BY <1>2 DEF Talks, Send, GiveUp, StartSending, SendTimeout, PluginFails, StartWaiting,
                MarkFailed, Settle, store
  <1>3. ASSUME NEW r \in Requests, Opens(r) \/ Ends(r) \/ Stall(r)
        PROVE  FALSE
    BY <1>3, OpensNet, EndsNet, StallNet
  <1>4. ASSUME NEW r \in Requests, Reads(r)
        PROVE  responding' = questionOf[r] /\ Chunk(r)
    BY <1>4 DEF Reads, ResponseStarts, Ack, Chunk, FinishChunk, store
  <1> QED
    BY <1>1, <1>2, <1>3, <1>4, Kinds

LEMMA MutedLasts ==
  ASSUME TypeOK, StreamInv, [Next]_vars, NEW q, Muted(q)
  PROVE  Muted(q)'
  BY OpenLasts, OpensFresh DEF Muted, Opened

LEMMA RespondingKept ==
  ASSUME TypeOK, StreamInv, HandleInv, AckInv, RespondingInv, [Next]_vars
  PROVE  RespondingInv'
  <1> SUFFICES ASSUME responding' # None
               PROVE  \/ \E r \in Requests : /\ questionOf[r] = responding'
                                             /\ Live(r)' /\ stage'[r] # "new"
                      \/ OpenedTwice(responding)' \/ Muted(responding)'
    BY DEF RespondingInv
  <1>1. CASE responding' # responding
    <2>1. PICK r \in Requests : responding' = questionOf[r] /\ Chunk(r)
      BY <1>1, RespondingMoves
    <2>2. Live(r)' /\ stage'[r] # "new"
      BY <2>1 DEF Chunk, Live, TypeOK
    <2> QED
      BY <2>1, <2>2
  <1>2. CASE responding' = responding
    <2>1. CASE OpenedTwice(responding)
      BY <1>2, <2>1, TwiceLasts DEF OpenedTwice, Opened
    <2>2. CASE Muted(responding)
      BY <1>2, <2>2, MutedLasts DEF Muted
    <2>3. CASE ~OpenedTwice(responding) /\ ~Muted(responding)
      <3>1. PICK r \in Requests : questionOf[r] = responding /\ Live(r) /\ stage[r] # "new"
        BY <1>2, <2>3 DEF RespondingInv
      <3>2. CASE Live(r)'
        BY <1>2, <3>1, <3>2, OpenLasts
      <3>3. CASE ~Live(r)'
        BY <1>2, <2>3, <3>1, <3>3, EndSettles DEF Muted
      <3> QED
        BY <3>2, <3>3
    <2> QED
      BY <2>1, <2>2, <2>3
  <1> QED
    BY <1>1, <1>2

\* A full map has as many other open streams as it has entries.
LEMMA FullMap ==
  ASSUME TypeOK, StreamInv, HandleInv, [Next]_vars,
         NEW r \in Requests, NEW s \in Requests, r # s, Opens(s),
         helpers[questionOf[r]] = r,
         Cardinality({p \in Questions : helpers[p] # None}) >= MaxHelpers
  PROVE  Cardinality({t \in Requests \ {r} : Opened(t)'}) >= MaxHelpers
  <1> DEFINE H == {p \in Questions : helpers[p] # None}
             T == {t \in Requests \ {r} : Opened(t)'}
             g == [p \in H |-> IF p = questionOf[r] THEN s ELSE helpers[p]]
  <1>1. \A t \in Requests : Opened(t) => Opened(t)'
    BY OpenLasts
  <1>2. Opened(s)' /\ ~Opened(s)
    BY OpensFresh, OpensNet, OpenEffect DEF Opened
  <1>3. \A p \in H : helpers[p] \in Requests /\ questionOf[helpers[p]] = p /\ Opened(helpers[p])
    BY DEF HandleInv, TypeOK
  <1>4. \A p \in H : g[p] \in T
    BY <1>1, <1>2, <1>3
  <1>5. \A p, o \in H : g[p] = g[o] => p = o
    BY <1>2, <1>3
  <1>6. g \in Injection(H, T)
    <2>1. g \in [H -> T]
      BY <1>4
    <2> HIDE DEF g, H, T
    <2> QED
      BY <1>5, <2>1, Fun_IsInj
  <1>7. IsFiniteSet(T)
    BY RequestsAssumption, FS_Subset
  <1> HIDE DEF g, H, T
  <1>8. IsFiniteSet(H) /\ Cardinality(H) <= Cardinality(T)
    BY <1>6, <1>7, FS_Injection
  <1>9. Cardinality(H) \in Nat /\ Cardinality(T) \in Nat /\ Cardinality(H) >= MaxHelpers
    BY <1>7, <1>8, FS_CardinalityType DEF H
  <1>10. Cardinality(T) >= MaxHelpers
    BY <1>8, <1>9, HelpersAssumption
  <1> QED
    BY <1>10 DEF T

LEMMA KeptKept ==
  ASSUME TypeOK, StreamInv, HandleInv, KeptInv, [Next]_vars
  PROVE  KeptInv'
  <1> SUFFICES ASSUME NEW r \in Requests, Live(r)', helpers'[questionOf[r]] # r
               PROVE  \/ OpenedTwice(questionOf[r])'
                      \/ Cardinality({t \in Requests \ {r} : Opened(t)'}) >= MaxHelpers
    BY DEF KeptInv, Opened
  <1> DEFINE q == questionOf[r]
  <1>0. q \in Questions /\ q # None
    BY QuestionOf
  <1>1. Live(r) /\ Opened(r)
    <2>1. ~Opens(r)
      BY OpensNet, OpenEffect
    <2> QED
      BY <2>1, OpenLasts DEF Live, Opened
  <1>2. CASE helpers[q] # r
    <2>1. CASE OpenedTwice(q)
      BY <2>1, TwiceLasts
    <2>2. CASE Cardinality({t \in Requests \ {r} : Opened(t)}) >= MaxHelpers
      <3> DEFINE S == {t \in Requests \ {r} : Opened(t)}
                 T == {t \in Requests \ {r} : Opened(t)'}
      <3>1. S \subseteq T
        BY OpenLasts
      <3>2. IsFiniteSet(T)
        BY RequestsAssumption, FS_Subset
      <3> HIDE DEF S, T
      <3>3. /\ Cardinality(S) <= Cardinality(T)
            /\ Cardinality(S) \in Nat /\ Cardinality(T) \in Nat
        BY <3>1, <3>2, FS_Subset, FS_CardinalityType
      <3>4. Cardinality(T) >= MaxHelpers
        BY <2>2, <3>3, HelpersAssumption DEF S
      <3> QED
        BY <3>4 DEF T
    <2> QED
      BY <1>1, <1>2, <2>1, <2>2 DEF KeptInv
  <1>3. CASE helpers[q] = r
    <2>1. ~(UNCHANGED vars \/ Clears \/ \E s \in Requests : Talks(s))
      BY <1>3, NetUnchanged DEF streams
    <2>2. ASSUME NEW s \in Requests, Reads(s)
          PROVE  FALSE
      BY <1>3, <2>2, ReadsNet
    <2>3. ~Stops
      BY <1>0, <1>1, <1>3, StopsEffect, StopEffect, AbortEffect DEF streams, Live
    <2>4. ASSUME NEW s \in Requests, Stall(s)
          PROVE  FALSE
      BY <1>0, <1>1, <1>3, <2>4, QuestionOf, AbortEffect DEF Stall, Live
    <2>5. ASSUME NEW s \in Requests, Ends(s)
          PROVE  OpenedTwice(q)'
      <3>1. StreamEnds(s) /\ questionOf[s] = q
        BY <1>0, <1>3, <2>5
        DEF Ends, FetchFails, StreamEnds, StreamFails, StreamFailsMutely, AbortIsSwallowed,
            AbortIsReported, TypeOK
      <3>2. s # r /\ Opened(s)
        BY <3>1 DEF StreamEnds, Live, Opened, TypeOK
      <3> QED
        BY <1>1, <3>1, <3>2, TwoOpened, TwiceLasts
    <2>6. ASSUME NEW s \in Requests, Opens(s)
          PROVE  \/ OpenedTwice(q)'
                 \/ Cardinality({t \in Requests \ {r} : Opened(t)'}) >= MaxHelpers
      <3>1. r # s /\ OpenStream(s) /\ Opened(s)'
        BY <1>1, <2>6, OpensFresh, OpensNet, OpenEffect DEF Opened
      <3>2. CASE questionOf[s] = q
        BY <1>1, <3>1, <3>2, OpenLasts DEF OpenedTwice
      <3>3. CASE questionOf[s] # q
        <4>1. Cardinality({p \in Questions : helpers[p] # None}) >= MaxHelpers
          BY <1>0, <1>3, <3>1, <3>3 DEF OpenStream
        <4> QED
          BY <1>3, <2>6, <3>1, <4>1, FullMap
      <3> QED
        BY <3>2, <3>3
    <2> QED
      BY <2>1, <2>2, <2>3, <2>4, <2>5, <2>6, Kinds
  <1> QED
    BY <1>2, <1>3

LEMMA InitInv == Init => IInv
  <1> SUFFICES ASSUME Init PROVE IInv
    OBVIOUS
  <1>1. StreamInv /\ HandleInv /\ AckInv /\ RespondingInv /\ KeptInv
    BY DEF Init, StreamInv, HandleInv, AckInv, RespondingInv, KeptInv, IsResumption,
           Opened, Live
  <1> QED
    BY <1>1, InitType DEF IInv

LEMMA InvStep == IInv /\ [Next]_vars => IInv'
  BY TypeStep, StreamKept, HandleKeptInv, AckKept, RespondingKept, KeptKept DEF IInv

LEMMA AlwaysInv == Spec => []IInv
  BY InitInv, InvStep, PTL DEF Spec

\* An open stream can be aborted through its local id, unless its question was
\* asked again or the map overflowed.
THEOREM HandlesAreKept == Spec => []HandleKept
  <1>1. IInv => HandleKept
    BY AgainIsTwice DEF IInv, KeptInv, HandleKept, Opened
  <1> QED
    BY <1>1, AlwaysInv, PTL

\* What is shown as being written has an open stream.
THEOREM RespondingIsOpen == Spec => []RespondingHasStream
  <1>1. IInv => RespondingHasStream
    BY AgainIsTwice DEF IInv, RespondingInv, RespondingHasStream
  <1> QED
    BY <1>1, AlwaysInv, PTL

\* The step that stops the stream of an awaited reply ends the wait.
THEOREM WaitEndsWithStream == Spec => WaitingFollowsStream
  <1>1. ASSUME IInv, [Next]_vars, NEW r \in Requests, waiting = questionOf[r],
               Live(r), ~Live(r)', ~AskedAgain(questionOf[r])
        PROVE  waiting' # questionOf[r] \/ Muted(questionOf[r])'
    <2>1. ~OpenedTwice(questionOf[r]) /\ waiting # None
      BY <1>1, AgainIsTwice, QuestionOf
    <2>2. PICK s \in Requests : questionOf[s] = waiting /\ Opened(s) /\ stage[s] # "new"
      BY <1>1, <2>1 DEF IInv, AckInv
    <2>3. s = r
      BY <1>1, <2>1, <2>2, TwoOpened DEF Live, Opened
    <2> QED
      BY <1>1, <2>1, <2>2, <2>3, EndSettles DEF IInv
  <1>2. IInv /\ [Next]_vars =>
          [\A r \in Requests : LET q == questionOf[r] IN
             waiting = q /\ Live(r) /\ ~Live(r)' => waiting' # q \/ Muted(q)' \/ AskedAgain(q)]_vars
    BY <1>1
  <1> QED
    BY <1>2, AlwaysInv, PTL DEF Spec, WaitingFollowsStream

----------------------------------------------------------------------------
(* With the lock: the parts of LInv.                                       *)

LEMMA LockKept ==
  ASSUME TypeOK, LockInv, LockEnabled, [Next]_vars
  PROVE  LockInv'
  <1> USE NoneAssumption, ClearerAssumption
  <1>1. \A r \in Requests : Moves(r)
    BY PcMoves
  <1>2. CASE lock' = lock /\ (clear' # "idle" => clear # "idle")
             /\ ~ \E r \in Requests : Send(r)
    BY <1>1, <1>2 DEF LockInv, Moves, Unsettled
  <1>3. ASSUME NEW r \in Requests, Send(r)
        PROVE  LockInv'
    BY <1>3 DEF Send, LockInv, TypeOK
  <1>4. ASSUME NEW r \in Requests, GiveUp(r) \/ StartWaiting(r) \/ MarkFailed(r)
        PROVE  LockInv'
    BY <1>4 DEF GiveUp, StartWaiting, MarkFailed, Settle, LockInv, Unsettled, TypeOK
  <1>5. CASE StartClear \/ ClearEnds
    BY <1>5 DEF StartClear, ClearEnds, LockInv, TypeOK
  <1>6. ASSUME ~ \E r \in Requests : Send(r) \/ GiveUp(r) \/ StartWaiting(r) \/ MarkFailed(r),
               ~(StartClear \/ ClearEnds)
        PROVE  lock' = lock /\ (clear' # "idle" => clear # "idle")
    <2>1. CASE UNCHANGED vars
      BY <2>1 DEF vars, client
    <2>2. CASE Stops
      BY <2>2, StopsEffect
    <2>3. CASE Clears
      BY <1>6, <2>3 DEF Clears, CallClear
    <2>4. ASSUME NEW r \in Requests, Talks(r)
          PROVE  lock' = lock /\ clear' = clear
      BY <1>6, <2>4 DEF Talks, StartSending, SendTimeout, PluginFails
    <2>5. ASSUME NEW r \in Requests, Opens(r) \/ Reads(r) \/ Ends(r) \/ Stall(r)
          PROVE  lock' = lock /\ clear' = clear
      BY <2>5, OpensNet
      DEF Reads, ResponseStarts, Ack, Chunk, FinishChunk, Ends, FetchFails, StreamEnds,
          StreamFails, StreamFailsMutely, AbortIsSwallowed, AbortIsReported, Stall, client
    <2> QED
      BY <2>1, <2>2, <2>3, <2>4, <2>5, Kinds
  <1> QED
    BY <1>2, <1>3, <1>4, <1>5, <1>6

LEMMA ActiveMoves ==
  ASSUME TypeOK, [Next]_vars, NEW r \in Requests, Active(r)'
  PROVE  Active(r) \/ Opens(r)
  <1> USE DEF Active
  <1>1. CASE UNCHANGED vars \/ Clears \/ \E s \in Requests : Talks(s)
    BY <1>1, NetUnchanged DEF streams
  <1>2. CASE Stops
    BY <1>2, StopsNet
  <1>3. ASSUME NEW s \in Requests, Opens(s)
        PROVE  Active(r) \/ Opens(r)
    BY <1>3, OpensNet, OpenEffect
  <1>4. ASSUME NEW s \in Requests, Reads(s) \/ Ends(s) \/ Stall(s)
        PROVE  Active(r)
    BY <1>4, ReadsNet, EndsNet, StallNet
  <1> QED
    BY <1>1, <1>2, <1>3, <1>4, Kinds

LEMMA SingleKept ==
  ASSUME TypeOK, SingleInv, [Next]_vars
  PROVE  SingleInv'
  <1> SUFFICES ASSUME NEW r \in Requests, NEW s \in Requests, r # s,
                      questionOf[r] = questionOf[s], questionOf[r] \notin overlapped',
                      Active(r)', Active(s)'
               PROVE  FALSE
    BY DEF SingleInv
  <1>1. questionOf[r] \notin overlapped
    BY OpenLasts
  <1>2. ASSUME NEW t \in Requests, NEW u \in Requests, t # u,
               questionOf[t] = questionOf[u], questionOf[t] \notin overlapped',
               Active(u)', Opens(t)
        PROVE  FALSE
    <2>1. Active(u) /\ net[u] # "cutRead"
      BY <1>2, OpensNet, OpenEffect DEF Active, Opens, Quiet
    <2>2. questionOf[t] \in overlapped'
      BY <1>2, <2>1, OpensNet DEF OpenStream, Active, Live
    <2> QED
      BY <1>2, <2>2
  <1>3. Active(r) /\ Active(s)
    BY <1>2, ActiveMoves
  <1> QED
    BY <1>1, <1>3 DEF SingleInv

LEMMA HandleMoves ==
  ASSUME TypeOK, [Next]_vars, NEW q \in Questions, helpers'[q] # helpers[q]
  PROVE  helpers'[q] = None \/ \E r \in Requests : helpers'[q] = r /\ Opens(r)
  <1>1. CASE UNCHANGED vars \/ Clears \/ \E s \in Requests : Talks(s)
    BY <1>1, NetUnchanged DEF streams
  <1>2. ASSUME NEW r \in Requests, Opens(r)
        PROVE  helpers'[q] = None \/ helpers'[q] = r
    BY <1>2, OpensNet, OpenEffect
  <1>3. ASSUME Stops \/ \E s \in Requests : Reads(s) \/ Ends(s) \/ Stall(s)
        PROVE  helpers'[q] = None
    BY <1>3, StopsNet, ReadsNet, EndsNet, StallNet
  <1> QED
    BY <1>1, <1>2, <1>3, Kinds

\* A stream that can be reached could be before, unless it is just opened.
LEMMA ReachableMoves ==
  ASSUME TypeOK, [Next]_vars, NEW r \in Requests, Reachable(r)', ~Opens(r)
  PROVE  Reachable(r)
  <1>1. Live(r) /\ questionOf[r] \notin overlapped /\ ~GivenUp(r)
    BY OpenLasts, TwiceLasts DEF Reachable, BeyondStop
  <1>2. helpers'[questionOf[r]] = r
    BY DEF Reachable, BeyondStop
  <1>3. helpers[questionOf[r]] = r
    BY <1>2, HandleMoves, QuestionOf, NoneAssumption
  <1> QED
    BY <1>1, <1>3 DEF Reachable, BeyondStop

\* Without a resumption, only senders open streams.
LEMMA OpensIsPost ==
  ASSUME TypeOK, StreamInv, [Next]_vars, ~Resuming', NEW r \in Requests, Opens(r)
  PROVE  pc[r] = "stopped"
  <1>1. ~Resume(r)
    BY OpenEffect DEF Resume, Resuming, IsResumption, client
  <1> QED
    BY <1>1 DEF Opens, Post

\* A stream that can be reached, and belongs to no sender at work, is cut when
\* the reply is stopped.
LEMMA StopReaches ==
  ASSUME TypeOK, StreamInv, StopInv, [Next]_vars, ~Resuming, Stops,
         NEW r \in Requests, pc[r] \notin Unsettled, Reachable(r)'
  PROVE  FALSE
  <1>1. Live(r)' /\ Live(r)
    BY StopsNet DEF Reachable, Live
  <1>2. ~Opens(r)
    BY <1>1, OpensFresh DEF Live, Opened
  <1>3. Reachable(r)
    BY <1>2, ReachableMoves
  <1>4. pc[r] = "done"
    BY <1>1, <1>3
    DEF Reachable, BeyondStop, GivenUp, Resuming, IsResumption, Live, TypeOK, PC
  <1>5. waiting = questionOf[r] /\ helpers[questionOf[r]] = r
    BY <1>3, <1>4 DEF StopInv, Reachable, BeyondStop
  <1> QED
    BY <1>1, <1>5, StopsEffect, StopEffect, AbortEffect, QuestionOf DEF Live

LEMMA DoneIsAwaited ==
  ASSUME TypeOK, StreamInv, HandleInv, SingleInv, StopInv, [Next]_vars, ~Resuming', ~Resuming,
         NEW r \in Requests, pc'[r] = "done", Reachable(r)'
  PROVE  waiting' = questionOf[r]
  <1> DEFINE q == questionOf[r]
  <1>0. Moves(r) /\ q \in Questions /\ q # None
    BY PcMoves, QuestionOf
  <1>1. CASE pc[r] # "done"
    BY <1>0, <1>1 DEF Moves, StartWaiting
  <1>2. CASE pc[r] = "done"
    <2>1. Opened(r) /\ ~Opens(r)
      BY <1>2, OpensFresh DEF StreamInv
    <2>2. Reachable(r) /\ waiting = q
      BY <1>2, <2>1, ReachableMoves DEF StopInv
    <2>3. /\ Live(r) /\ Live(r)' /\ helpers[q] = r /\ helpers'[q] = r /\ q \notin overlapped
      BY <2>2 DEF Reachable, BeyondStop
    <2>4. ASSUME waiting' # waiting, waiting' # None
          PROVE  FALSE
      <3>1. PICK s \in Requests : StartWaiting(s) \/ Resume(s)
        BY <2>4, WaitingMoves
      <3>2. ~Resume(s)
        BY OpenEffect DEF Resume, Resuming, IsResumption, client
      <3>3. pc[s] = "acked" /\ s # r
        BY <1>2, <3>1, <3>2 DEF StartWaiting
      <3> QED
        BY <2>2, <3>3 DEF StopInv
    <2>5. ASSUME waiting' = None
          PROVE  FALSE
      <3>1. ~(UNCHANGED vars \/ Clears)
        BY <1>0, <2>2, <2>5 DEF vars, store, Clears, StartClear, CallClear, ClearEnds
      <3>2. ~Stops
        BY <1>0, <2>2, <2>3, StopsEffect, StopEffect, AbortEffect DEF Live
      <3>3. ASSUME NEW s \in Requests, Talks(s) \/ Opens(s) \/ Reads(s)
            PROVE  FALSE
        BY <1>0, <2>2, <2>5, <3>3, ReadsNet, QuestionOf
        DEF Talks, Send, GiveUp, StartSending, SendTimeout, PluginFails, StartWaiting,
            MarkFailed, Opens, Post, Resume, store
      <3>4. ASSUME NEW s \in Requests, ClearUnsettled(Reply(s)), Active(s), s # r
            PROVE  FALSE
        <4>1. Reply(s) = q
          BY <1>0, <2>2, <2>5, <3>4 DEF ClearUnsettled
        <4>2. questionOf[s] = q
          BY <1>0, <4>1 DEF Reply
        <4> QED
          BY <2>3, <3>4, <4>2 DEF SingleInv, Active, Live
      <3>5. ASSUME NEW s \in Requests, Stall(s)
            PROVE  FALSE
        <4>1. s # r
          BY <1>0, <2>3, <3>5, AbortEffect DEF Stall, Live
        <4>2. Active(s) /\ ClearUnsettled(Reply(s))
          BY <3>5, StallNet DEF StreamInv, Active
        <4> QED
          BY <3>4, <4>1, <4>2
      <3>6. ASSUME NEW s \in Requests, Ends(s)
            PROVE  FALSE
        <4>1. s # r
          BY <2>3, <3>6, EndsNet DEF Live
        <4>2. waiting' # waiting
          BY <1>0, <2>2, <2>5
        <4>3. ClearUnsettled(Reply(s)) /\ Active(s)
          BY <3>6, <4>2, ReadErrorEffect
          DEF Ends, FetchFails, StreamEnds, StreamFails, StreamFailsMutely,
              AbortIsSwallowed, AbortIsReported, store, Active
        <4> QED
          BY <3>4, <4>1, <4>3
      <3> QED
        BY <3>1, <3>2, <3>3, <3>5, <3>6, Kinds
    <2> QED
      BY <2>2, <2>4, <2>5
  <1> QED
    BY <1>1, <1>2

LEMMA ClearMoves ==
  ASSUME TypeOK, [Next]_vars, clear' = "stopped", clear # "stopped"
  PROVE  clear = "stopping" /\ Stops
  <1>1. CASE UNCHANGED vars \/ Stops \/ Clears
    BY <1>1, StopsEffect DEF vars, client, Clears, StartClear, CallClear, ClearEnds
  <1>2. ASSUME NEW r \in Requests, Talks(r)
        PROVE  clear' = clear
    BY <1>2 DEF Talks, Send, GiveUp, StartSending, SendTimeout, PluginFails, StartWaiting,
                MarkFailed, Settle
  <1>3. ASSUME NEW r \in Requests, Opens(r) \/ Reads(r) \/ Ends(r) \/ Stall(r)
        PROVE  clear' = clear
    BY <1>3, OpensNet
    DEF Reads, ResponseStarts, Ack, Chunk, FinishChunk, Ends, FetchFails, StreamEnds,
        StreamFails, StreamFailsMutely, AbortIsSwallowed, AbortIsReported, Stall, client
  <1> QED
    BY <1>1, <1>2, <1>3, Kinds

LEMMA StopKept ==
  ASSUME TypeOK, StreamInv, HandleInv, LockInv, SingleInv, StopInv, [Next]_vars
  PROVE  StopInv'
  <1> SUFFICES ASSUME ~Resuming'
               PROVE  /\ \A r \in Requests :
                           pc'[r] = "done" /\ Reachable(r)' => waiting' = questionOf[r]
                      /\ \A r, s \in Requests :
                           pc'[r] \in {"stopped", "posted", "acked"} /\ r # s => ~Reachable(s)'
                      /\ clear' = "stopped" => \A r \in Requests : ~Reachable(r)'
    BY DEF StopInv
  <1>0. ~Resuming
    BY TwiceLasts DEF Resuming
  <1>1. \A r \in Requests : pc'[r] = "done" /\ Reachable(r)' => waiting' = questionOf[r]
    BY <1>0, DoneIsAwaited
  <1>2. ASSUME NEW r \in Requests, NEW s \in Requests, r # s, Reachable(s)',
               pc'[r] \in {"stopped", "posted", "acked"}
        PROVE  FALSE
    <2>1. \/ pc[r] \in {"stopped", "posted", "acked"}
          \/ pc[r] = "stopping" /\ StopFirst(r)
      BY <1>2, PcMoves DEF Moves
    <2>2. pc[s] \notin Unsettled
      BY <1>2, <2>1 DEF LockInv, Unsettled
    <2>3. CASE pc[r] \in {"stopped", "posted", "acked"}
      <3>1. ~Opens(s)
        BY <2>2, OpensIsPost DEF Unsettled
      <3> QED
        BY <1>0, <1>2, <2>3, <3>1, ReachableMoves DEF StopInv
    <2>4. CASE StopFirst(r)
      BY <1>0, <1>2, <2>2, <2>4, StopReaches DEF Stops
    <2> QED
      BY <2>1, <2>3, <2>4
  <1>3. ASSUME clear' = "stopped", NEW r \in Requests, Reachable(r)'
        PROVE  FALSE
    <2>1. clear = "stopped" \/ (clear = "stopping" /\ Stops)
      BY <1>3, ClearMoves
    <2>2. pc[r] \notin Unsettled
      BY <2>1, ClearerAssumption DEF LockInv
    <2>3. CASE clear = "stopped"
      <3>1. ~Opens(r)
        BY <2>2, OpensIsPost DEF Unsettled
      <3> QED
        BY <1>0, <1>3, <2>3, <3>1, ReachableMoves DEF StopInv
    <2>4. CASE Stops
      BY <1>0, <1>3, <2>2, <2>4, StopReaches
    <2> QED
      BY <2>1, <2>3, <2>4
  <1> QED
    BY <1>1, <1>2, <1>3

\* Only an ack uses up the `once` listener of one.
LEMMA ListenersMove ==
  ASSUME TypeOK, [Next]_vars, NEW r \in Requests,
         "success" \in listeners[r], "success" \notin listeners'[r]
  PROVE  \E s \in Requests : Ack(s)
  <1>1. CASE UNCHANGED vars \/ Stops \/ Clears
    BY <1>1, StopsEffect DEF vars, client, Clears, StartClear, CallClear, ClearEnds
  <1>2. ASSUME NEW s \in Requests, Talks(s)
        PROVE  listeners' = listeners
    BY <1>2 DEF Talks, Send, GiveUp, StartSending, SendTimeout, PluginFails, StartWaiting,
                MarkFailed, Settle
  <1>3. ASSUME NEW s \in Requests, Opens(s)
        PROVE  "success" \in listeners'[r]
    BY <1>3 DEF Opens, Post, Resume, client, TypeOK
  <1>4. ASSUME NEW s \in Requests, Reads(s) \/ Stall(s)
        PROVE  Ack(s)
    BY <1>4 DEF Reads, ResponseStarts, Chunk, FinishChunk, Stall, client
  <1>5. ASSUME NEW s \in Requests, Ends(s)
        PROVE  "success" \in listeners'[r]
    BY <1>5, EmitFailEffect, ReadErrorEffect
    DEF Ends, FetchFails, StreamEnds, StreamFails, StreamFailsMutely, AbortIsSwallowed,
        AbortIsReported, client
  <1> QED
    BY <1>1, <1>2, <1>3, <1>4, <1>5, Kinds

LEMMA MissKept ==
  ASSUME TypeOK, StreamInv, AckInv, LockInv, MissInv, [Next]_vars
  PROVE  MissInv'
  <1> DEFINE Excuse(s) == /\ stage[s] # "new"
                          /\ GivenUp(s) \/ IsResumption(s) \/ AskedAgain(questionOf[s])
  <1> SUFFICES ASSUME NEW r \in Requests, pc'[r] = "posted", "success" \notin listeners'[r]
               PROVE  \E s \in Requests \ {r} : Excuse(s)'
    BY DEF MissInv, AckLostOnlyToAnother
  <1>1. \A q : OpenedTwice(q) => AskedAgain(q)'
    <2>1. \A q : OpenedTwice(q) => OpenedTwice(q)'
      BY TwiceLasts
    <2>2. (\A q : AskedAgain(q) <=> OpenedTwice(q))'
      BY AgainIsTwice, PTL
    <2> QED
      BY <2>1, <2>2
  <1>2. \A s \in Requests : /\ GivenUp(s) => GivenUp(s)'
                            /\ IsResumption(s) => IsResumption(s)'
                            /\ stage[s] # "new" => stage'[s] # "new"
    BY TwiceLasts, OpenLasts
  <1>3. pc[r] = "posted"
    <2>1. ~Post(r)
      BY DEF Post, TypeOK
    <2> QED
      BY <2>1, PcMoves DEF Moves
  <1>4. CASE "success" \notin listeners[r]
    <2>1. PICK s \in Requests \ {r} : Excuse(s)
      BY <1>3, <1>4 DEF MissInv, AckLostOnlyToAnother
    <2> QED
      BY <1>1, <1>2, <2>1, AgainIsTwice
  <1>5. CASE "success" \in listeners[r]
    <2>1. PICK s \in Requests : Ack(s)
      BY <1>5, ListenersMove
    <2>2. s # r
      BY <1>3, <1>5, <2>1, EmitSuccessEffect DEF Ack
    <2>3. stage'[s] # "new"
      BY <2>1 DEF Ack, TypeOK
    <2>4. pc[s] \notin Unsettled
      BY <1>3, <2>2 DEF LockInv, Unsettled
    <2>5. CASE pc[s] = "done"
      BY <1>1, <2>1, <2>2, <2>3, <2>5 DEF AckInv, Ack
    <2>6. CASE pc[s] # "done"
      <3>1. IsResumption(s) \/ GivenUp(s)
        BY <2>1, <2>4, <2>6 DEF TypeOK, PC, IsResumption, GivenUp, Ack
      <3> QED
        BY <1>2, <2>2, <2>3, <3>1
    <2> QED
      BY <2>5, <2>6
  <1> QED
    BY <1>4, <1>5

LEMMA InitLock == Init => LInv
  <1> SUFFICES ASSUME Init PROVE LInv
    OBVIOUS
  <1>1. \A r \in Requests : pc[r] = "idle" /\ net[r] = "idle"
    BY DEF Init
  <1>2. LockInv /\ SingleInv /\ StopInv /\ MissInv
    BY <1>1
    DEF Init, LockInv, SingleInv, StopInv, MissInv, AckLostOnlyToAnother, Unsettled, Active
  <1> QED
    BY <1>2, InitInv DEF LInv

LEMMA LockStep == LockEnabled /\ LInv /\ [Next]_vars => LInv'
  BY InvStep, LockKept, SingleKept, StopKept, MissKept DEF LInv, IInv

LEMMA AlwaysLock ==
  ASSUME LockEnabled
  PROVE  Spec => []LInv
  <1>1. LInv /\ [Next]_vars => LInv'
    BY LockStep
  <1> QED
    BY <1>1, InitLock, PTL DEF Spec

\* With the lock, a send that was acked and never hears of it has lost its
\* listener to a request that was given up, a resumption, or a question asked
\* again.
THEOREM AcksReach ==
  ASSUME LockEnabled
  PROVE  Spec => []AckLostOnlyToAnother
  <1>1. LInv => AckLostOnlyToAnother
    BY DEF LInv, MissInv
  <1> QED
    BY <1>1, AlwaysLock, PTL

\* With the lock, and unless an answer was resumed, one of two streams that are
\* open together is beyond the reach of the stop.
THEOREM OneStream ==
  ASSUME LockEnabled
  PROVE  Spec => []OneReplyAtATime
  <1>1. ASSUME LInv, ~Resuming, NEW r \in Requests, NEW s \in Requests, r # s,
               Reachable(r), Reachable(s)
        PROVE  FALSE
    <2>1. \A t \in Requests : pc[t] = "done" /\ Reachable(t) => waiting = questionOf[t]
      BY <1>1 DEF LInv, StopInv
    <2>2. pc[r] = "done" /\ pc[s] = "done"
      <3>1. ASSUME NEW t \in Requests, Reachable(t),
                   pc[t] \notin {"stopped", "posted", "acked"}
            PROVE  pc[t] = "done"
        BY <1>1, <3>1
        DEF LInv, IInv, StreamInv, Reachable, BeyondStop, GivenUp, Live, Opened, Resuming,
            IsResumption, TypeOK, PC, Unsettled
      <3> QED
        BY <1>1, <3>1 DEF LInv, StopInv
    <2>3. questionOf[r] = questionOf[s]
      BY <1>1, <2>1, <2>2
    <2> QED
      BY <1>1, <2>3 DEF Reachable, BeyondStop
  <1>2. LInv => OneReplyAtATime
    BY <1>1 DEF OneReplyAtATime, Resuming, Reachable
  <1> QED
    BY <1>2, AlwaysLock, PTL

\* With the lock, a clear goes out only when no stream that the stop can reach
\* is open, unless an answer was resumed.
THEOREM ClearsAfterBreak ==
  ASSUME LockEnabled
  PROVE  Spec => ClearAfterBreak
  <1>1. ASSUME LInv, CallClear, NEW r \in Requests, Live(r)
        PROVE  BeyondStop(r) \/ \E s \in Requests : IsResumption(s)
    BY <1>1 DEF LInv, StopInv, CallClear, Resuming, Reachable
  <1>2. LInv /\ [Next]_vars =>
          [\A r \in Requests : CallClear /\ Live(r) =>
             BeyondStop(r) \/ \E s \in Requests : IsResumption(s)]_vars
    BY <1>1
  <1> QED
    BY <1>2, AlwaysLock, PTL DEF Spec, ClearAfterBreak
============================================================================
