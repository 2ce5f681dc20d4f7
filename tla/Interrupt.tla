----------------------------- MODULE Interrupt -----------------------------
(***************************************************************************)
(* Interrupt and resume: agentdef.InterruptableAgent                       *)
(* (pkg/agentdef/interrupt.go) on several pods, its checkpoint stores      *)
(* (infra/checkpoint) and the handlers that use it (chat_sse.go).          *)
(*                                                                         *)
(* An agent whose answer asks for a confirmation leaves an interrupt state *)
(* for its session: in the memory of its pod and, under the same key, in   *)
(* the checkpoint store.  A resume request looks the state up twice (once  *)
(* in the handler, once in Resume), clears both copies and passes the      *)
(* user's input to the agent.  Every lock section and every store call is  *)
(* a step; requests interleave between them, pods restart, calls fail.     *)
(*                                                                         *)
(* A state is named by the chat request that raised it.  Reading a         *)
(* tombstone and reading nothing are the same to the code, and NoCk here.  *)
(***************************************************************************)
EXTENDS Naturals, FiniteSets

CONSTANTS Pods, Sessions, Stores,
          Chats,           \* chat requests whose answer asks to confirm
          Resumes,         \* requests to /chat/resume
          Queries,         \* requests to /chat/interrupt_state
          NoCk,            \* no interrupt state
          PodsOf,          \* the pods that a session's requests may reach
          StoreOf,         \* the store that a pod uses
          Durable,         \* the stores that outlive a pod: Redis
          SerialSessions,  \* clients wait for an answer before the next request
          StoreMayFail,    \* store calls may return errors
          Timeout,         \* how long a state is retained
          MaxEntries,      \* maxInterruptEntries
          MaxTime,         \* bound on the clock
          MaxRestarts      \* bound on pod restarts

Requests == Chats \cup Resumes \cup Queries
CkOrNone == Chats \cup {NoCk}

ASSUME RequestsAssumption ==
  /\ Chats \cap Resumes = {} /\ Chats \cap Queries = {} /\ Resumes \cap Queries = {}
  /\ NoCk \notin Chats
ASSUME RoutingAssumption ==
  /\ PodsOf \in [Sessions -> (SUBSET Pods) \ {{}}]
  /\ StoreOf \in [Pods -> Stores]
  /\ Durable \subseteq Stores
  /\ \A p, q \in Pods : StoreOf[p] = StoreOf[q] /\ StoreOf[p] \notin Durable => p = q
ASSUME BoundsAssumption ==
  /\ SerialSessions \in BOOLEAN /\ StoreMayFail \in BOOLEAN
  /\ Timeout \in Nat /\ MaxEntries \in Nat \ {0} /\ MaxTime \in Nat /\ MaxRestarts \in Nat

VARIABLES sess,      \* the session a request names
          pod,       \* the pod it was routed to
          pc,        \* where it is
          phase,     \* 1: the handler's look-up, 2: the one in Resume
          got,       \* the state it has in hand
          mem,       \* per pod and session, its entry in InterruptableAgent.interrupts
          store,     \* per store and session, the checkpoint
          now,
          savedAt,   \* when a state was raised
          claimed,   \* how often a resume cleared a state and went on with it
          restarts

vars == <<sess, pod, pc, phase, got, mem, store, now, savedAt, claimed, restarts>>

PC == {"new", "saving", "storing", "look", "fetch", "cache", "drop", "purge", "call",
       "done", "refused", "dead"}

InFlight(r) == pc[r] \notin {"new", "done", "refused", "dead"}

Goto(r, l) == pc' = [pc EXCEPT ![r] = l]

\* An entry of a pod's map; one without a state is an absent one.
Entry == [ck : CkOrNone, exp : Nat]
NoEntry == [ck |-> NoCk, exp |-> 0]
Fresh(ck) == [ck |-> ck, exp |-> now + Timeout]

\* Bug: an entry is dropped in its last tick.
Expired_Early(e) == now >= e.exp

Expired(e) == now > e.exp

StoreFor(r) == StoreOf[pod[r]]

Init ==
  /\ sess \in [Requests -> Sessions]
  /\ pod \in {f \in [Requests -> Pods] : \A r \in Requests : f[r] \in PodsOf[sess[r]]}
  /\ pc = [r \in Requests |-> "new"]
  /\ phase = [r \in Requests |-> 1]
  /\ got = [r \in Requests |-> NoCk]
  /\ mem = [p \in Pods |-> [s \in Sessions |-> NoEntry]]
  /\ store = [d \in Stores |-> [s \in Sessions |-> NoCk]]
  /\ now = 0
  /\ savedAt = [c \in Chats |-> 0]
  /\ claimed = [c \in Chats |-> 0]
  /\ restarts = 0

\* A request arrives at its pod.
Arrive(r) ==
  /\ pc[r] = "new"
  /\ SerialSessions => \A q \in Requests : sess[q] = sess[r] => ~InFlight(q)
  /\ Goto(r, IF r \in Chats THEN "saving" ELSE "look")
  /\ UNCHANGED <<sess, pod, phase, got, mem, store, now, savedAt, claimed, restarts>>

----------------------------------------------------------------------------
(* Chat: the answer holds a confirmation phrase.                           *)

\* The sessions whose entry has not expired, and those that expire first.
Retained(p) == {s \in Sessions : mem[p][s].ck # NoCk /\ ~Expired(mem[p][s])}
Oldest(p) == {s \in Retained(p) : \A u \in Retained(p) : mem[p][s].exp <= mem[p][u].exp}

\* The sets of sessions whose entries saveInterruptState may leave in the map.
Kept(p) == IF Cardinality(Retained(p)) < MaxEntries
           THEN {Retained(p)}
           ELSE {Retained(p) \ {s} : s \in Oldest(p)}

\* saveInterruptState, under the lock: evict, then insert.
SaveInMemory(r) ==
  LET p == pod[r] IN
  /\ pc[r] = "saving"
  /\ \E K \in Kept(p) :
       mem' = [mem EXCEPT ![p] = [s \in Sessions |-> IF s = sess[r] THEN Fresh(r)
                                                     ELSE IF s \in K THEN @[s] ELSE NoEntry]]
  /\ savedAt' = [savedAt EXCEPT ![r] = now]
  /\ Goto(r, "storing")
  /\ UNCHANGED <<sess, pod, phase, got, store, now, claimed, restarts>>

\* Bug: the store key leaves the session out.
SaveInStore_SharedKey(r) ==
  /\ pc[r] = "storing"
  /\ store' = [store EXCEPT ![StoreFor(r)] = [s \in Sessions |-> r]]
  /\ Goto(r, "done")
  /\ UNCHANGED <<sess, pod, phase, got, mem, now, savedAt, claimed, restarts>>

\* Bug: the store is set only if it holds nothing.
SaveInStore_KeepsOlder(r) ==
  /\ pc[r] = "storing"
  /\ store' = [store EXCEPT ![StoreFor(r)][sess[r]] = IF @ = NoCk THEN r ELSE @]
  /\ Goto(r, "done")
  /\ UNCHANGED <<sess, pod, phase, got, mem, now, savedAt, claimed, restarts>>

\* saveInterruptState, after the lock: store.Set; an error is ignored.  Then
\* the INTERRUPT token is sent.
SaveInStore(r) ==
  /\ pc[r] = "storing"
  /\ \/ store' = [store EXCEPT ![StoreFor(r)][sess[r]] = r]
     \/ StoreMayFail /\ UNCHANGED store
  /\ Goto(r, "done")
  /\ UNCHANGED <<sess, pod, phase, got, mem, now, savedAt, claimed, restarts>>

----------------------------------------------------------------------------
(* getInterruptState, run by HandleGetInterruptState and twice by          *)
(* HandleChatResume.                                                       *)

\* Where a look-up that found a state goes next.
AfterFound(r) == IF r \in Queries THEN "done" ELSE IF phase[r] = 1 THEN "look" ELSE "drop"

\* The end of a look-up: with a state in hand, or with NoCk for a 409 or 500.
\* The handler's own look-up only asks whether there is one.
Found(r, ck) ==
  /\ got' = [got EXCEPT ![r] = IF phase[r] = 2 THEN ck ELSE NoCk]
  /\ phase' = [phase EXCEPT ![r] = IF ck = NoCk THEN @ ELSE 2]
  /\ Goto(r, IF ck = NoCk THEN "done" ELSE AfterFound(r))

\* The fast path: read the pod's own map under the read lock.
LookInMemory(r) ==
  LET e == mem[pod[r]][sess[r]] IN
  /\ pc[r] = "look"
  /\ \/ e.ck = NoCk /\ Goto(r, "fetch") /\ UNCHANGED <<phase, got>>
     \/ e.ck # NoCk /\ Expired(e) /\ Goto(r, "drop") /\ UNCHANGED <<phase, got>>
     \/ e.ck # NoCk /\ ~Expired(e) /\ Found(r, e.ck)
  /\ UNCHANGED <<sess, pod, mem, store, now, savedAt, claimed, restarts>>

\* Bug: a tombstone is waited on instead of being read as nothing.
LookInStore_WaitsForState(r) ==
  LET ck == store[StoreFor(r)][sess[r]] IN
  /\ pc[r] = "fetch"
  /\ ck # NoCk
  /\ got' = [got EXCEPT ![r] = ck]
  /\ Goto(r, "cache")
  /\ UNCHANGED <<sess, pod, phase, mem, store, now, savedAt, claimed, restarts>>

\* The memory miss: store.Get.  An error is a miss too.
LookInStore(r) ==
  LET ck == store[StoreFor(r)][sess[r]] IN
  /\ pc[r] = "fetch"
  /\ \/ ck # NoCk /\ got' = [got EXCEPT ![r] = ck] /\ Goto(r, "cache") /\ UNCHANGED phase
     \/ (ck = NoCk \/ StoreMayFail) /\ Found(r, NoCk)
  /\ UNCHANGED <<sess, pod, mem, store, now, savedAt, claimed, restarts>>

\* The state read from the store enters the map, with a new expiry.
CacheLocally(r) ==
  /\ pc[r] = "cache"
  /\ mem' = [mem EXCEPT ![pod[r]][sess[r]] = Fresh(got[r])]
  /\ Found(r, got[r])
  /\ UNCHANGED <<sess, pod, store, now, savedAt, claimed, restarts>>

----------------------------------------------------------------------------
(* clearInterruptState, for a state that expired (nothing in hand) or one  *)
(* that is being resumed, and the rest of Resume.                          *)

\* Bug: nil is put in the map instead of deleting the key.
DropEntry_StoresNil(r) ==
  /\ pc[r] = "drop"
  /\ mem' = [mem EXCEPT ![pod[r]][sess[r]] = NoCk]
  /\ Goto(r, "purge")
  /\ UNCHANGED <<sess, pod, phase, got, store, now, savedAt, claimed, restarts>>

\* Bug: only the store is cleared.
DropEntry_KeepsEntry(r) ==
  /\ pc[r] = "drop"
  /\ Goto(r, "purge")
  /\ UNCHANGED <<sess, pod, phase, got, mem, store, now, savedAt, claimed, restarts>>

DropEntry(r) ==
  /\ pc[r] = "drop"
  /\ mem' = [mem EXCEPT ![pod[r]][sess[r]] = NoEntry]
  /\ Goto(r, "purge")
  /\ UNCHANGED <<sess, pod, phase, got, store, now, savedAt, claimed, restarts>>

\* Whether the state in hand, if any, is now the caller's.
Claim(r) ==
  IF got[r] = NoCk
  THEN Goto(r, "done") /\ UNCHANGED claimed
  ELSE Goto(r, "call") /\ claimed' = [claimed EXCEPT ![got[r]] = @ + 1]

\* Bug: no tombstone is written.
WriteTombstone_Omitted(r) ==
  /\ pc[r] = "purge"
  /\ Claim(r)
  /\ UNCHANGED <<sess, pod, phase, got, mem, store, now, savedAt, restarts>>

WriteTombstone(r) ==
  /\ pc[r] = "purge"
  /\ \/ store' = [store EXCEPT ![StoreFor(r)][sess[r]] = NoCk]
     \/ StoreMayFail /\ UNCHANGED store
  /\ Claim(r)
  /\ UNCHANGED <<sess, pod, phase, got, mem, now, savedAt, restarts>>

\* inner.Chat continues from the state with the user's input, or returns an
\* error, which the handler passes on as a 500.
CallAgent(r) ==
  /\ pc[r] = "call"
  /\ \/ Goto(r, "done")
     \/ Goto(r, "refused")
  /\ UNCHANGED <<sess, pod, phase, got, mem, store, now, savedAt, claimed, restarts>>

----------------------------------------------------------------------------
(* The environment.                                                        *)

\* A pod restarts: its map, its requests and a store of its own are gone.
Restart(p) ==
  /\ restarts < MaxRestarts
  /\ restarts' = restarts + 1
  /\ mem' = [mem EXCEPT ![p] = [s \in Sessions |-> NoEntry]]
  /\ store' = [d \in Stores |->
                 IF d = StoreOf[p] /\ d \notin Durable
                 THEN [s \in Sessions |-> NoCk] ELSE store[d]]
  /\ pc' = [r \in Requests |-> IF pod[r] = p /\ InFlight(r) THEN "dead" ELSE pc[r]]
  /\ UNCHANGED <<sess, pod, phase, got, now, savedAt, claimed>>

Tick ==
  /\ now < MaxTime
  /\ now' = now + 1
  /\ UNCHANGED <<sess, pod, pc, phase, got, mem, store, savedAt, claimed, restarts>>

RequestStep(r) == \/ SaveInMemory(r) \/ SaveInStore(r)
                  \/ LookInMemory(r) \/ LookInStore(r) \/ CacheLocally(r)
                  \/ DropEntry(r) \/ WriteTombstone(r) \/ CallAgent(r)

Next == \/ \E r \in Requests : Arrive(r) \/ RequestStep(r)
        \/ \E p \in Pods : Restart(p)
        \/ Tick

Spec == Init /\ [][Next]_vars

\* Goroutines are scheduled and store calls return.
FairSpec == Spec /\ \A r \in Requests : WF_vars(RequestStep(r))

----------------------------------------------------------------------------
(* Properties.                                                             *)

TypeOK ==
  /\ sess \in [Requests -> Sessions]
  /\ pod \in [Requests -> Pods]
  /\ pc \in [Requests -> PC]
  /\ phase \in [Requests -> {1, 2}]
  /\ got \in [Requests -> CkOrNone]
  /\ mem \in [Pods -> [Sessions -> Entry]]
  /\ store \in [Stores -> [Sessions -> CkOrNone]]
  /\ now \in Nat
  /\ savedAt \in [Chats -> Nat]
  /\ claimed \in [Chats -> Nat]
  /\ restarts \in Nat

\* A state is kept, found and resumed only under the session that raised it,
\* on whichever pod, through restarts, failures and eviction.
StatesStayInTheirSession ==
  LET Owned(ck, s) == ck # NoCk => sess[ck] = s IN
  /\ \A s \in Sessions : /\ \A p \in Pods : Owned(mem[p][s].ck, s)
                         /\ \A d \in Stores : Owned(store[d][s], s)
  /\ \A r \in Requests : Owned(got[r], sess[r])

\* Every request that arrives is answered, unless its pod restarts.
EveryRequestIsAnswered ==
  \A r \in Requests : InFlight(r) ~> ~InFlight(r)

\* A stored state disappears only because a resume claimed it, because its
\* timeout has passed, or with a store that was not durable.
ForgottenOnlyWhenExpired ==
  [][\A d \in Stores, s \in Sessions :
       LET ck == store[d][s] IN
       ck # NoCk /\ store'[d][s] = NoCk =>
         \/ claimed'[ck] > claimed[ck]
         \/ now > savedAt[ck] + Timeout
         \/ d \notin Durable]_vars

\* A state is consumed once and cannot be resumed again.
ResumedAtMostOnce == \A c \in Chats : claimed[c] <= 1

----------------------------------------------------------------------------
(* The promise.  When the requests of a session always reach the same pod  *)
(* and wait for each other, the checkpoint in that pod's store is the      *)
(* pending question; the pod's map is a cache of it.                       *)

Home(s) == CHOOSE p \in PodsOf[s] : TRUE

Pending(s) == store[StoreOf[Home(s)]][s]

Ledger == INSTANCE InterruptLedger WITH
            asked  <- [s \in Sessions |-> Pending(s)],
            raised <- {c \in Chats : pc[c] = "done"},
            spent  <- {c \in Chats : claimed[c] > 0}

LedgerSpec == Ledger!Spec

\* A question that was answered is never pending again.
NeverAskedAgain == Ledger!NeverAskedAgain
============================================================================
