------------------------- MODULE Interrupt_proofs --------------------------
(***************************************************************************)
(* Proofs about Interrupt, for any number of pods, sessions and requests.  *)
(*                                                                         *)
(* TypeOK and StatesStayInTheirSession hold without conditions.  The       *)
(* refinement of InterruptLedger is proved for deployments in which the    *)
(* requests of a session reach one pod, one after the other, and the       *)
(* store answers (ServedAlone); the runs show that it fails otherwise.     *)
(***************************************************************************)
EXTENDS Interrupt, FiniteSetTheorems, WellFoundedInduction, TLAPS

ServedAlone ==
  /\ SerialSessions
  /\ ~StoreMayFail
  /\ \A s \in Sessions : PodsOf[s] = {Home(s)}

Cached(s) == mem[Home(s)][s].ck

\* The kind of a request decides the steps it takes.
KindsInv ==
  \A r \in Requests :
    /\ r \in Chats => pc[r] \in {"new", "saving", "storing", "done", "dead"}
    /\ r \notin Chats => pc[r] \notin {"saving", "storing"}
    /\ pc[r] \in {"new", "saving", "storing", "look", "fetch"} => got[r] = NoCk
    /\ pc[r] \in {"cache", "call"} => got[r] # NoCk

\* One request of a session at a time, always at the session's pod.
AloneInv ==
  /\ \A r \in Requests : pod[r] = Home(sess[r])
  /\ \A r, q \in Requests : InFlight(r) /\ InFlight(q) /\ sess[r] = sess[q] => r = q

\* The map caches the store, but for the moment between the two halves of a
\* save and of a clear; what a request has in hand before it clears it is what
\* is stored.
CoherenceInv ==
  /\ \A s \in Sessions : Cached(s) \in {NoCk, Pending(s)}
                         \/ \E c \in Chats : Cached(s) = c /\ sess[c] = s /\ pc[c] = "storing"
  /\ \A c \in Chats : pc[c] = "storing" => Cached(sess[c]) \in {NoCk, c}
  /\ \A r \in Requests : pc[r] = "purge" => Cached(sess[r]) = NoCk
  /\ \A r \in Requests :
       pc[r] \in {"cache", "drop", "purge"} /\ got[r] # NoCk => got[r] = Pending(sess[r])

\* What is stored was announced and has not been resumed.
StoredInv ==
  /\ \A s \in Sessions :
       Pending(s) # NoCk => /\ pc[Pending(s)] = "done"
                            /\ claimed[Pending(s)] = 0
  /\ \A c \in Chats : /\ claimed[c] <= 1
                      /\ pc[c] # "done" => claimed[c] = 0

Typed == TypeOK /\ KindsInv

Served == CoherenceInv /\ StoredInv

AInv == Typed /\ StatesStayInTheirSession /\ AloneInv /\ Served

----------------------------------------------------------------------------
(* Facts that need no condition on the deployment.                         *)

LEMMA InitTyped == Init => Typed
  BY RequestsAssumption, BoundsAssumption
  DEF Init, Typed, TypeOK, KindsInv, PC, CkOrNone, Entry, NoEntry, Requests

LEMMA KeptEntries ==
  ASSUME NEW p \in Pods, NEW K \in Kept(p) PROVE K \subseteq Sessions
  BY DEF Kept, Retained, Oldest

\* The entry and the checkpoint that a request looks at.
LEMMA Looked ==
  ASSUME TypeOK, NEW r \in Requests
  PROVE  /\ mem[pod[r]][sess[r]] \in Entry
         /\ mem[pod[r]][sess[r]].ck \in CkOrNone
         /\ StoreFor(r) \in Stores
         /\ store[StoreFor(r)][sess[r]] \in CkOrNone
  BY RoutingAssumption DEF TypeOK, Entry, StoreFor

\* What store.Set leaves behind.
LEMMA StoreSet ==
  ASSUME TypeOK, NEW r \in Requests, NEW ck \in CkOrNone
  PROVE  [store EXCEPT ![StoreFor(r)][sess[r]] = ck] \in [Stores -> [Sessions -> CkOrNone]]
  <1>1. StoreFor(r) \in Stores /\ sess[r] \in Sessions
    BY Looked DEF TypeOK
  <1>2. [store[StoreFor(r)] EXCEPT ![sess[r]] = ck] \in [Sessions -> CkOrNone]
    BY <1>1 DEF TypeOK
  <1> QED
    BY <1>1, <1>2 DEF TypeOK

LEMMA SaveInMemoryTyped ==
  ASSUME Typed, NEW r \in Requests, SaveInMemory(r) PROVE Typed'
  <1> USE DEF Typed, TypeOK, PC, Goto, SaveInMemory
  <1>1. r \in Chats
    BY DEF KindsInv
  <1>2. Fresh(r) \in Entry /\ NoEntry \in Entry
    BY <1>1, BoundsAssumption DEF Fresh, Entry, NoEntry, CkOrNone
  <1>3. mem' \in [Pods -> [Sessions -> Entry]]
    <2>1. PICK K \in Kept(pod[r]) :
            mem' = [mem EXCEPT ![pod[r]] =
                      [s \in Sessions |-> IF s = sess[r] THEN Fresh(r)
                                          ELSE IF s \in K THEN @[s] ELSE NoEntry]]
      OBVIOUS
    <2>2. [s \in Sessions |-> IF s = sess[r] THEN Fresh(r)
                              ELSE IF s \in K THEN mem[pod[r]][s] ELSE NoEntry]
            \in [Sessions -> Entry]
      BY <1>2
    <2> QED
      BY <2>1, <2>2
  <1>4. TypeOK'
    BY <1>1, <1>3
  <1>5. KindsInv'
    BY <1>1 DEF KindsInv
  <1> QED
    BY <1>4, <1>5

LEMMA FoundTyped ==
  ASSUME Typed, NEW r \in Requests \ Chats, NEW ck \in CkOrNone, Found(r, ck),
         UNCHANGED <<sess, pod, store, now, savedAt, claimed, restarts>>,
         mem' \in [Pods -> [Sessions -> Entry]]
  PROVE  Typed'
  <1> USE DEF Typed, TypeOK, Found, AfterFound, Goto
  <1>1. TypeOK'
    BY DEF PC, CkOrNone
  <1>2. KindsInv'
    BY DEF KindsInv, PC
  <1> QED
    BY <1>1, <1>2

LEMMA LookInMemoryTyped ==
  ASSUME Typed, NEW r \in Requests, LookInMemory(r) PROVE Typed'
  <1> DEFINE e == mem[pod[r]][sess[r]]
  <1>1. e.ck \in CkOrNone /\ r \notin Chats
    BY Looked DEF Typed, KindsInv, LookInMemory
  <1>2. CASE Found(r, e.ck)
    BY <1>1, <1>2, FoundTyped DEF LookInMemory, Typed, TypeOK
  <1>3. CASE (Goto(r, "fetch") \/ Goto(r, "drop")) /\ UNCHANGED <<phase, got>>
    BY <1>1, <1>3 DEF LookInMemory, Typed, TypeOK, KindsInv, PC, Goto
  <1> QED
    BY <1>2, <1>3 DEF LookInMemory

LEMMA LookInStoreTyped ==
  ASSUME Typed, NEW r \in Requests, LookInStore(r) PROVE Typed'
  <1> DEFINE ck == store[StoreFor(r)][sess[r]]
  <1>1. ck \in CkOrNone /\ r \notin Chats
    BY Looked DEF Typed, KindsInv, LookInStore
  <1>2. CASE Found(r, NoCk)
    BY <1>1, <1>2, FoundTyped DEF LookInStore, Typed, TypeOK, CkOrNone
  <1>3. CASE ck # NoCk /\ got' = [got EXCEPT ![r] = ck] /\ Goto(r, "cache") /\ UNCHANGED phase
    BY <1>1, <1>3 DEF LookInStore, Typed, TypeOK, KindsInv, PC, Goto
  <1> QED
    BY <1>2, <1>3 DEF LookInStore

LEMMA CacheLocallyTyped ==
  ASSUME Typed, NEW r \in Requests, CacheLocally(r) PROVE Typed'
  <1>1. r \notin Chats /\ got[r] \in CkOrNone
    BY DEF Typed, TypeOK, KindsInv, CacheLocally
  <1>2. Fresh(got[r]) \in Entry
    BY <1>1, BoundsAssumption DEF Fresh, Entry, Typed, TypeOK
  <1>3. mem' \in [Pods -> [Sessions -> Entry]]
    BY <1>2 DEF CacheLocally, Typed, TypeOK
  <1> QED
    BY <1>1, <1>3, FoundTyped DEF CacheLocally

LEMMA StepTyped == Typed /\ [Next]_vars => Typed'
  <1> SUFFICES ASSUME Typed, [Next]_vars PROVE Typed'
    OBVIOUS
  <1>1. ASSUME NEW r \in Requests, Arrive(r) PROVE Typed'
    BY <1>1 DEF Arrive, Goto, Typed, TypeOK, KindsInv, PC
  <1>2. ASSUME NEW r \in Requests, RequestStep(r) PROVE Typed'
    <2>1. CASE SaveInMemory(r)
      BY <2>1, SaveInMemoryTyped
    <2>2. CASE SaveInStore(r)
      <3>1. r \in Chats /\ StoreFor(r) \in Stores
        BY <2>2, Looked DEF SaveInStore, Typed, KindsInv
      <3>2. store' \in [Stores -> [Sessions -> CkOrNone]]
        <4>1. r \in CkOrNone
          BY <3>1 DEF CkOrNone
        <4>2. [store EXCEPT ![StoreFor(r)][sess[r]] = r] \in [Stores -> [Sessions -> CkOrNone]]
          BY <4>1, StoreSet DEF Typed
        <4> QED
          BY <2>2, <4>2 DEF SaveInStore, Typed, TypeOK
      <3>3. TypeOK'
        BY <2>2, <3>1, <3>2 DEF SaveInStore, Goto, Typed, TypeOK, PC
      <3>4. KindsInv'
        BY <2>2, <3>1 DEF SaveInStore, Goto, Typed, TypeOK, KindsInv, PC
      <3> QED
        BY <3>3, <3>4 DEF Typed
    <2>3. CASE LookInMemory(r)
      BY <2>3, LookInMemoryTyped
    <2>4. CASE LookInStore(r)
      BY <2>4, LookInStoreTyped
    <2>5. CASE CacheLocally(r)
      BY <2>5, CacheLocallyTyped
    <2>6. CASE DropEntry(r)
      <3>1. NoEntry \in Entry
        BY DEF NoEntry, Entry, CkOrNone
      <3> QED
        BY <2>6, <3>1 DEF DropEntry, Goto, Typed, TypeOK, KindsInv, PC
    <2>7. CASE WriteTombstone(r)
      <3>1. r \notin Chats /\ StoreFor(r) \in Stores
        BY <2>7, Looked DEF WriteTombstone, Typed, KindsInv
      <3>4. store' \in [Stores -> [Sessions -> CkOrNone]]
        <4>1. NoCk \in CkOrNone
          BY DEF CkOrNone
        <4>2. [store EXCEPT ![StoreFor(r)][sess[r]] = NoCk] \in [Stores -> [Sessions -> CkOrNone]]
          BY <4>1, StoreSet DEF Typed
        <4> QED
          BY <2>7, <4>2 DEF WriteTombstone, Typed, TypeOK
      <3>5. got[r] # NoCk => got[r] \in Chats
        BY DEF Typed, TypeOK, CkOrNone
      <3>6. claimed' \in [Chats -> Nat]
        BY <2>7, <3>5 DEF WriteTombstone, Claim, Typed, TypeOK
      <3>2. TypeOK'
        BY <2>7, <3>4, <3>6 DEF WriteTombstone, Claim, Goto, Typed, TypeOK, PC
      <3>3. KindsInv'
        BY <2>7, <3>1 DEF WriteTombstone, Claim, Goto, Typed, TypeOK, KindsInv, PC
      <3> QED
        BY <3>2, <3>3 DEF Typed
    <2>8. CASE CallAgent(r)
      BY <2>8 DEF CallAgent, Goto, Typed, TypeOK, KindsInv, PC
    <2> QED
      BY <1>2, <2>1, <2>2, <2>3, <2>4, <2>5, <2>6, <2>7, <2>8 DEF RequestStep
  <1>3. ASSUME NEW p \in Pods, Restart(p) PROVE Typed'
    <2>1. NoEntry \in Entry
      BY DEF NoEntry, Entry, CkOrNone
    <2>2. TypeOK'
      BY <1>3, <2>1, RoutingAssumption DEF Restart, Typed, TypeOK, PC, CkOrNone
    <2>3. KindsInv'
      BY <1>3 DEF Restart, Typed, TypeOK, KindsInv, PC
    <2> QED
      BY <2>2, <2>3 DEF Typed
  <1>4. CASE Tick
    BY <1>4 DEF Tick, Typed, TypeOK, KindsInv
  <1>5. CASE UNCHANGED vars
    BY <1>5 DEF vars, Typed, TypeOK, KindsInv
  <1> QED
    BY <1>1, <1>2, <1>3, <1>4, <1>5 DEF Next

\* Every variable keeps its type (TypeOK), on any number of pods.
THEOREM TypeCorrect == Spec => []TypeOK
  <1>1. Typed => TypeOK
    BY DEF Typed
  <1> QED
    BY <1>1, InitTyped, StepTyped, PTL DEF Spec

----------------------------------------------------------------------------
(* A state stays in the session that raised it.                            *)

\* What a step of a request may put in its hand or in the map.
LEMMA FoundOwned ==
  ASSUME TypeOK, NEW r \in Requests, NEW ck, Found(r, ck)
  PROVE  \A q \in Requests : got'[q] \in {got[q], NoCk} \/ (q = r /\ got'[q] = ck)
  <1>1. got' = [got EXCEPT ![r] = IF phase[r] = 2 THEN ck ELSE NoCk]
    BY DEF Found
  <1>2. got \in [Requests -> CkOrNone]
    BY DEF TypeOK
  <1> QED
    BY <1>1, <1>2

\* What store.Set changes.
LEMMA StoreChanged ==
  ASSUME TypeOK, NEW e \in Stores, NEW s \in Sessions, NEW ck,
         store' = [store EXCEPT ![e][s] = ck]
  PROVE  \A d \in Stores, t \in Sessions :
           store'[d][t] = IF d = e /\ t = s THEN ck ELSE store[d][t]
  <1>1. store \in [Stores -> [Sessions -> CkOrNone]]
    BY DEF TypeOK
  <1> QED
    BY <1>1

LEMMA StepOwned ==
  Typed /\ StatesStayInTheirSession /\ [Next]_vars => StatesStayInTheirSession'
  <1> SUFFICES ASSUME TypeOK, KindsInv, StatesStayInTheirSession, [Next]_vars
               PROVE  StatesStayInTheirSession'
    BY DEF Typed
  <1>1. ASSUME NEW r \in Requests, Arrive(r) PROVE StatesStayInTheirSession'
    BY <1>1 DEF Arrive, StatesStayInTheirSession
  <1>2. ASSUME NEW r \in Requests, RequestStep(r) PROVE StatesStayInTheirSession'
    <2> USE DEF StatesStayInTheirSession
    <2>1. CASE SaveInMemory(r)
      <3>1. \A p \in Pods, s \in Sessions :
              mem'[p][s].ck \in {NoCk, mem[p][s].ck} \/ (s = sess[r] /\ mem'[p][s].ck = r)
        BY <2>1 DEF SaveInMemory, TypeOK, Fresh, NoEntry
      <3> QED
        BY <2>1, <3>1 DEF SaveInMemory
    <2>2. CASE SaveInStore(r)
      <3>1. \A d \in Stores, s \in Sessions :
              store'[d][s] = store[d][s] \/ (s = sess[r] /\ store'[d][s] = r)
        <4>1. StoreFor(r) \in Stores /\ sess[r] \in Sessions
          BY Looked DEF TypeOK
        <4>2. CASE store' = [store EXCEPT ![StoreFor(r)][sess[r]] = r]
          BY <4>1, <4>2, StoreChanged
        <4> QED
          BY <2>2, <4>2 DEF SaveInStore
      <3> QED
        BY <2>2, <3>1 DEF SaveInStore
    <2>3. CASE LookInMemory(r)
      <3>1. pod[r] \in Pods /\ sess[r] \in Sessions
        BY DEF TypeOK
      <3>2. CASE UNCHANGED got
        BY <2>3, <3>2 DEF LookInMemory
      <3>3. CASE Found(r, mem[pod[r]][sess[r]].ck)
        BY <2>3, <3>1, <3>3, FoundOwned DEF LookInMemory
      <3> QED
        BY <2>3, <3>2, <3>3 DEF LookInMemory
    <2>4. CASE LookInStore(r)
      <3>1. StoreFor(r) \in Stores /\ sess[r] \in Sessions
        BY Looked DEF TypeOK
      <3>2. CASE got' = [got EXCEPT ![r] = store[StoreFor(r)][sess[r]]]
        BY <2>4, <3>1, <3>2 DEF LookInStore, TypeOK
      <3>3. CASE Found(r, NoCk)
        BY <2>4, <3>3, FoundOwned DEF LookInStore
      <3> QED
        BY <2>4, <3>2, <3>3 DEF LookInStore
    <2>5. CASE CacheLocally(r)
      <3>1. \A p \in Pods, s \in Sessions :
              mem'[p][s].ck = mem[p][s].ck \/ (s = sess[r] /\ mem'[p][s].ck = got[r])
        BY <2>5 DEF CacheLocally, TypeOK, Fresh
      <3>2. \A q \in Requests : got'[q] \in {got[q], NoCk} \/ (q = r /\ got'[q] = got[r])
        BY <2>5, FoundOwned DEF CacheLocally
      <3> QED
        BY <2>5, <3>1, <3>2 DEF CacheLocally
    <2>6. CASE DropEntry(r)
      <3>1. \A p \in Pods, s \in Sessions : mem'[p][s].ck \in {NoCk, mem[p][s].ck}
        BY <2>6 DEF DropEntry, TypeOK, NoEntry
      <3> QED
        BY <2>6, <3>1 DEF DropEntry
    <2>7. CASE WriteTombstone(r)
      <3>1. \A d \in Stores, s \in Sessions : store'[d][s] \in {NoCk, store[d][s]}
        <4>1. StoreFor(r) \in Stores /\ sess[r] \in Sessions
          BY Looked DEF TypeOK
        <4>2. CASE store' = [store EXCEPT ![StoreFor(r)][sess[r]] = NoCk]
          BY <4>1, <4>2, StoreChanged
        <4> QED
          BY <2>7, <4>2 DEF WriteTombstone
      <3> QED
        BY <2>7, <3>1 DEF WriteTombstone
    <2>8. CASE CallAgent(r)
      BY <2>8 DEF CallAgent
    <2> QED
      BY <1>2, <2>1, <2>2, <2>3, <2>4, <2>5, <2>6, <2>7, <2>8 DEF RequestStep
  <1>3. ASSUME NEW p \in Pods, Restart(p) PROVE StatesStayInTheirSession'
    <2>1. \A q \in Pods, s \in Sessions : mem'[q][s].ck \in {NoCk, mem[q][s].ck}
      BY <1>3 DEF Restart, TypeOK, NoEntry
    <2>2. \A d \in Stores, s \in Sessions : store'[d][s] \in {NoCk, store[d][s]}
      BY <1>3 DEF Restart, TypeOK
    <2> QED
      BY <1>3, <2>1, <2>2 DEF Restart, StatesStayInTheirSession
  <1>4. CASE Tick
    BY <1>4 DEF Tick, StatesStayInTheirSession
  <1>5. CASE UNCHANGED vars
    BY <1>5 DEF vars, StatesStayInTheirSession
  <1> QED
    BY <1>1, <1>2, <1>3, <1>4, <1>5 DEF Next

\* However requests are routed, whatever restarts and fails, a state is kept,
\* found and resumed only under the session that raised it
\* (StatesStayInTheirSession).
THEOREM StatesAreNotMixedUp == Spec => []StatesStayInTheirSession
  <1>1. Init => StatesStayInTheirSession
    BY RoutingAssumption DEF Init, StatesStayInTheirSession, NoEntry
  <1> QED
    BY <1>1, InitTyped, StepTyped, StepOwned, PTL DEF Spec

----------------------------------------------------------------------------
(* Sessions served alone: what each step does to the cached and the        *)
(* pending state of every session.                                         *)

LEMMA Homes == ServedAlone => \A s \in Sessions : Home(s) \in Pods /\ StoreOf[Home(s)] \in Stores
  BY RoutingAssumption DEF ServedAlone

LEMMA AtHome ==
  ASSUME TypeOK, AloneInv, NEW r \in Requests
  PROVE  /\ sess[r] \in Sessions /\ pod[r] = Home(sess[r]) /\ pod[r] \in Pods
         /\ StoreFor(r) = StoreOf[Home(sess[r])] /\ StoreFor(r) \in Stores
         /\ mem[pod[r]][sess[r]].ck = Cached(sess[r])
         /\ store[StoreFor(r)][sess[r]] = Pending(sess[r])
  BY Looked DEF TypeOK, AloneInv, StoreFor, Cached, Pending

\* A step of a request moves that request only, and only one in flight.
LEMMA OnlyItself ==
  ASSUME TypeOK, NEW r \in Requests, RequestStep(r)
  PROVE  /\ InFlight(r) /\ UNCHANGED <<sess, pod>>
         /\ \A q \in Requests : q # r => pc'[q] = pc[q] /\ got'[q] = got[q]
  BY DEF TypeOK, RequestStep, InFlight, Goto, Found, SaveInMemory, SaveInStore, LookInMemory,
         LookInStore, CacheLocally, DropEntry, WriteTombstone, Claim, CallAgent

LEMMA AloneStep ==
  ASSUME ServedAlone, TypeOK, AloneInv, [Next]_vars PROVE AloneInv'
  <1>1. ASSUME NEW r \in Requests, Arrive(r) PROVE AloneInv'
    BY <1>1 DEF ServedAlone, TypeOK, AloneInv, Arrive, Goto, InFlight
  <1>2. ASSUME NEW r \in Requests, RequestStep(r) PROVE AloneInv'
    BY <1>2, OnlyItself DEF AloneInv, InFlight
  <1>3. ASSUME NEW p \in Pods, Restart(p) PROVE AloneInv'
    BY <1>3 DEF Restart, AloneInv, InFlight
  <1>4. CASE Tick
    BY <1>4 DEF Tick, AloneInv, InFlight
  <1>5. CASE UNCHANGED vars
    BY <1>5 DEF vars, AloneInv, InFlight
  <1> QED
    BY <1>1, <1>2, <1>3, <1>4, <1>5 DEF Next

LEMMA SaveInMemoryView ==
  ASSUME ServedAlone, TypeOK, AloneInv, NEW r \in Requests, SaveInMemory(r)
  PROVE  /\ Cached(sess[r])' = r
         /\ \A s \in Sessions : s # sess[r] => Cached(s)' \in {NoCk, Cached(s)}
         /\ \A s \in Sessions : Pending(s)' = Pending(s)
  <1>1. PICK K \in Kept(pod[r]) :
          mem' = [mem EXCEPT ![pod[r]] =
                    [s \in Sessions |-> IF s = sess[r] THEN Fresh(r)
                                        ELSE IF s \in K THEN @[s] ELSE NoEntry]]
    BY DEF SaveInMemory
  <1>2. \A p \in Pods, s \in Sessions :
          /\ p = pod[r] /\ s = sess[r] => mem'[p][s].ck = r
          /\ s # sess[r] => mem'[p][s].ck \in {NoCk, mem[p][s].ck}
    <2>1. mem \in [Pods -> [Sessions -> Entry]]
      BY DEF TypeOK
    <2> QED
      BY <1>1, <2>1 DEF Fresh, NoEntry
  <1>3. UNCHANGED <<store, sess, pod>>
    BY DEF SaveInMemory
  <1> QED
    BY <1>2, <1>3, Homes, AtHome DEF Cached, Pending

LEMMA SaveInStoreView ==
  ASSUME ServedAlone, TypeOK, AloneInv, NEW r \in Requests, SaveInStore(r)
  PROVE  \A s \in Sessions : /\ Pending(s)' = IF s = sess[r] THEN r ELSE Pending(s)
                             /\ Cached(s)' = Cached(s)
  <1>1. store' = [store EXCEPT ![StoreFor(r)][sess[r]] = r]
    BY DEF SaveInStore, ServedAlone
  <1>2. StoreFor(r) \in Stores /\ sess[r] \in Sessions /\ StoreFor(r) = StoreOf[Home(sess[r])]
    BY AtHome
  <1>3. \A d \in Stores, s \in Sessions :
          store'[d][s] = IF d = StoreFor(r) /\ s = sess[r] THEN r ELSE store[d][s]
    BY <1>1, <1>2 DEF TypeOK
  <1>4. \A s \in Sessions : StoreOf[Home(s)] \in Stores
    BY Homes
  <1> QED
    BY <1>2, <1>3, <1>4 DEF SaveInStore, Cached, Pending

LEMMA WriteTombstoneView ==
  ASSUME ServedAlone, TypeOK, AloneInv, NEW r \in Requests, WriteTombstone(r)
  PROVE  \A s \in Sessions : /\ Pending(s)' = IF s = sess[r] THEN NoCk ELSE Pending(s)
                             /\ Cached(s)' = Cached(s)
  <1>1. store' = [store EXCEPT ![StoreFor(r)][sess[r]] = NoCk]
    BY DEF WriteTombstone, ServedAlone
  <1>2. StoreFor(r) \in Stores /\ sess[r] \in Sessions /\ StoreFor(r) = StoreOf[Home(sess[r])]
    BY AtHome
  <1>3. \A d \in Stores, s \in Sessions :
          store'[d][s] = IF d = StoreFor(r) /\ s = sess[r] THEN NoCk ELSE store[d][s]
    BY <1>1, <1>2 DEF TypeOK
  <1>4. \A s \in Sessions : StoreOf[Home(s)] \in Stores
    BY Homes
  <1> QED
    BY <1>2, <1>3, <1>4 DEF WriteTombstone, Cached, Pending

LEMMA CacheLocallyView ==
  ASSUME ServedAlone, TypeOK, AloneInv, NEW r \in Requests, CacheLocally(r)
  PROVE  \A s \in Sessions : /\ Cached(s)' = IF s = sess[r] THEN got[r] ELSE Cached(s)
                             /\ Pending(s)' = Pending(s)
  <1>1. \A p \in Pods, s \in Sessions :
          mem'[p][s].ck = IF p = pod[r] /\ s = sess[r] THEN got[r] ELSE mem[p][s].ck
    BY DEF CacheLocally, TypeOK, Fresh
  <1> QED
    BY <1>1, AtHome, Homes DEF CacheLocally, Cached, Pending

LEMMA DropEntryView ==
  ASSUME ServedAlone, TypeOK, AloneInv, NEW r \in Requests, DropEntry(r)
  PROVE  \A s \in Sessions : /\ Cached(s)' = IF s = sess[r] THEN NoCk ELSE Cached(s)
                             /\ Pending(s)' = Pending(s)
  <1>1. \A p \in Pods, s \in Sessions :
          mem'[p][s].ck = IF p = pod[r] /\ s = sess[r] THEN NoCk ELSE mem[p][s].ck
    BY DEF DropEntry, TypeOK, NoEntry
  <1> QED
    BY <1>1, AtHome, Homes DEF DropEntry, Cached, Pending

\* A store that goes down with its pod serves the sessions of that pod only.
LEMMA RestartView ==
  ASSUME ServedAlone, TypeOK, NEW p \in Pods, Restart(p)
  PROVE  \A s \in Sessions :
           /\ Cached(s)' = IF Home(s) = p THEN NoCk ELSE Cached(s)
           /\ Pending(s)' \in {NoCk, Pending(s)}
           /\ Home(s) # p => Pending(s)' = Pending(s)
  <1>1. \A q \in Pods, s \in Sessions :
          mem'[q][s].ck = IF q = p THEN NoCk ELSE mem[q][s].ck
    BY DEF Restart, TypeOK, NoEntry
  <1>2. \A d \in Stores, s \in Sessions :
          store'[d][s] = IF d = StoreOf[p] /\ d \notin Durable THEN NoCk ELSE store[d][s]
    BY DEF Restart
  <1> QED
    BY <1>1, <1>2, Homes, RoutingAssumption DEF Cached, Pending

----------------------------------------------------------------------------
(* The invariant behind the refinement.                                    *)

LEMMA PendingState ==
  ASSUME ServedAlone, TypeOK, NEW s \in Sessions
  PROVE  Pending(s) # NoCk => Pending(s) \in Chats
  BY Homes DEF Pending, TypeOK, CkOrNone

\* Steps that leave map, store and claims alone.
LEMMA QuietStep ==
  ASSUME ServedAlone, TypeOK, Served, NEW r \in Requests \ Chats, RequestStep(r),
         UNCHANGED <<mem, store, claimed>>, pc'[r] # "purge",
         pc'[r] \in {"cache", "drop"} /\ got'[r] # NoCk => got'[r] = Pending(sess[r])
  PROVE  Served'
  <1>1. \A s : Cached(s)' = Cached(s) /\ Pending(s)' = Pending(s)
    BY DEF Cached, Pending
  <1>2. UNCHANGED sess /\ \A q \in Requests : q # r => pc'[q] = pc[q] /\ got'[q] = got[q]
    BY OnlyItself
  <1>3. \A c \in Chats : pc'[c] = pc[c]
    BY <1>2 DEF Requests
  <1>4. CoherenceInv'
    <2>1. \A s \in Sessions : Cached(s) \in {NoCk, Pending(s)}
                           \/ \E c \in Chats : Cached(s) = c /\ sess[c] = s /\ pc'[c] = "storing"
      BY <1>3 DEF Served, CoherenceInv
    <2>2. \A c \in Chats : pc'[c] = "storing" => Cached(sess[c]) \in {NoCk, c}
      BY <1>3 DEF Served, CoherenceInv
    <2>3. \A q \in Requests : pc'[q] = "purge" => Cached(sess[q]) = NoCk
      BY <1>2 DEF Served, CoherenceInv
    <2>4. \A q \in Requests :
            pc'[q] \in {"cache", "drop", "purge"} /\ got'[q] # NoCk => got'[q] = Pending(sess[q])
      BY <1>2 DEF Served, CoherenceInv
    <2> QED
      BY <1>1, <1>2, <2>1, <2>2, <2>3, <2>4 DEF CoherenceInv
  <1>5. StoredInv'
    <2>1. \A s \in Sessions : Pending(s) # NoCk => Pending(s) \in Chats
      BY PendingState
    <2> QED
      BY <1>1, <1>3, <2>1 DEF Served, StoredInv
  <1> QED
    BY <1>4, <1>5 DEF Served

LEMMA SaveInMemoryServed ==
  ASSUME ServedAlone, AInv, NEW r \in Requests, SaveInMemory(r) PROVE Served'
  <1>1. r \in Chats /\ sess \in [Requests -> Sessions] /\ Chats \subseteq Requests
    BY DEF AInv, Typed, SaveInMemory, KindsInv, TypeOK, Requests
  <1>2. /\ UNCHANGED <<sess, got, claimed>> /\ pc[r] = "saving" /\ pc'[r] = "storing"
        /\ \A q \in Requests : q # r => pc'[q] = pc[q]
    BY DEF AInv, Typed, TypeOK, SaveInMemory, Goto
  <1>3. \A q \in Requests : q # r /\ sess[q] = sess[r] => ~InFlight(q)
    BY <1>2 DEF AInv, AloneInv, InFlight
  <1>4. /\ Cached(sess[r])' = r
        /\ \A s \in Sessions : s # sess[r] => Cached(s)' \in {NoCk, Cached(s)}
        /\ \A s \in Sessions : Pending(s)' = Pending(s)
    BY SaveInMemoryView DEF AInv, Typed
  <1>5. CoherenceInv /\ StoredInv
    BY DEF AInv, Served
  <1>6. \A s \in Sessions : s = sess[r] => Cached(s)' = r
    BY <1>2, <1>4 DEF Cached
  <1>7. CoherenceInv'
    <2>1. \A s \in Sessions : Cached(s)' \in {NoCk, Pending(s)'}
                           \/ \E c \in Chats : Cached(s)' = c /\ sess[c] = s /\ pc'[c] = "storing"
      BY <1>1, <1>2, <1>4, <1>5, <1>6 DEF CoherenceInv
    <2>2. \A c \in Chats, s \in Sessions :
            pc'[c] = "storing" /\ sess[c] = s => Cached(s)' \in {NoCk, c}
      BY <1>1, <1>2, <1>3, <1>4, <1>5, <1>6 DEF CoherenceInv, InFlight
    <2>3. \A q \in Requests, s \in Sessions :
            pc'[q] = "purge" /\ sess[q] = s => Cached(s)' = NoCk
      BY <1>2, <1>3, <1>4, <1>5 DEF CoherenceInv, InFlight
    <2>4. \A q \in Requests, s \in Sessions :
            pc'[q] \in {"cache", "drop", "purge"} /\ got'[q] # NoCk /\ sess[q] = s =>
              got'[q] = Pending(s)'
      BY <1>2, <1>4, <1>5 DEF CoherenceInv
    <2> QED
      BY <1>1, <1>2, <2>1, <2>2, <2>3, <2>4 DEF CoherenceInv, Cached, Pending
  <1>8. StoredInv'
    <2>1. \A s \in Sessions : Pending(s) # NoCk => Pending(s) \in Chats
      BY PendingState DEF AInv, Typed
    <2> QED
      BY <1>1, <1>2, <1>4, <1>5, <2>1 DEF StoredInv
  <1> QED
    BY <1>7, <1>8 DEF Served

LEMMA SaveInStoreServed ==
  ASSUME ServedAlone, AInv, NEW r \in Requests, SaveInStore(r) PROVE Served'
  <1>1. r \in Chats /\ sess \in [Requests -> Sessions] /\ Chats \subseteq Requests
    BY DEF AInv, Typed, SaveInStore, KindsInv, TypeOK, Requests
  <1>2. /\ UNCHANGED <<sess, got, claimed>> /\ pc[r] = "storing" /\ pc'[r] = "done"
        /\ \A q \in Requests : q # r => pc'[q] = pc[q]
    BY DEF AInv, Typed, TypeOK, SaveInStore, Goto
  <1>3. \A q \in Requests : q # r /\ sess[q] = sess[r] => ~InFlight(q)
    BY <1>2 DEF AInv, AloneInv, InFlight
  <1>4. \A s \in Sessions : /\ Pending(s)' = IF s = sess[r] THEN r ELSE Pending(s)
                            /\ Cached(s)' = Cached(s)
    BY SaveInStoreView DEF AInv, Typed
  <1>5. CoherenceInv /\ StoredInv
    BY DEF AInv, Served
  <1>7. CoherenceInv'
    <2>1. \A s \in Sessions : Cached(s)' \in {NoCk, Pending(s)'}
                           \/ \E c \in Chats : Cached(s)' = c /\ sess[c] = s /\ pc'[c] = "storing"
      BY <1>1, <1>2, <1>3, <1>4, <1>5 DEF CoherenceInv, InFlight
    <2>2. \A c \in Chats, s \in Sessions :
            pc'[c] = "storing" /\ sess[c] = s => Cached(s)' \in {NoCk, c}
      BY <1>1, <1>2, <1>3, <1>4, <1>5 DEF CoherenceInv, InFlight
    <2>3. \A q \in Requests, s \in Sessions :
            pc'[q] = "purge" /\ sess[q] = s => Cached(s)' = NoCk
      BY <1>1, <1>2, <1>3, <1>4, <1>5 DEF CoherenceInv, InFlight
    <2>4. \A q \in Requests, s \in Sessions :
            pc'[q] \in {"cache", "drop", "purge"} /\ got'[q] # NoCk /\ sess[q] = s =>
              got'[q] = Pending(s)'
      BY <1>1, <1>2, <1>3, <1>4, <1>5 DEF CoherenceInv, InFlight
    <2> QED
      BY <1>1, <1>2, <2>1, <2>2, <2>3, <2>4 DEF CoherenceInv, Cached, Pending
  <1>8. StoredInv'
    <2>1. \A s \in Sessions : Pending(s) # NoCk => Pending(s) \in Chats
      BY PendingState DEF AInv, Typed
    <2> QED
      BY <1>1, <1>2, <1>4, <1>5, <2>1 DEF StoredInv
  <1> QED
    BY <1>7, <1>8 DEF Served

LEMMA CacheLocallyServed ==
  ASSUME ServedAlone, AInv, NEW r \in Requests, CacheLocally(r) PROVE Served'
  <1>1. r \notin Chats /\ sess \in [Requests -> Sessions] /\ Chats \subseteq Requests
    BY DEF AInv, Typed, CacheLocally, KindsInv, TypeOK, Requests
  <1>2. /\ UNCHANGED <<sess, claimed>> /\ pc[r] = "cache" /\ got[r] # NoCk
        /\ pc'[r] \in {"done", "look", "drop"} /\ got'[r] \in {got[r], NoCk}
        /\ \A q \in Requests : q # r => pc'[q] = pc[q] /\ got'[q] = got[q]
    BY DEF AInv, Typed, KindsInv, TypeOK, CacheLocally, Found, AfterFound, Goto
  <1>3. \A q \in Requests : q # r /\ sess[q] = sess[r] => ~InFlight(q)
    BY <1>2 DEF AInv, AloneInv, InFlight
  <1>4. \A s \in Sessions : /\ Cached(s)' = IF s = sess[r] THEN got[r] ELSE Cached(s)
                            /\ Pending(s)' = Pending(s)
    BY CacheLocallyView DEF AInv, Typed
  <1>5. CoherenceInv /\ StoredInv
    BY DEF AInv, Served
  <1>7. CoherenceInv'
    <2>1. \A s \in Sessions : Cached(s)' \in {NoCk, Pending(s)'}
                           \/ \E c \in Chats : Cached(s)' = c /\ sess[c] = s /\ pc'[c] = "storing"
      BY <1>1, <1>2, <1>3, <1>4, <1>5 DEF CoherenceInv, InFlight
    <2>2. \A c \in Chats, s \in Sessions :
            pc'[c] = "storing" /\ sess[c] = s => Cached(s)' \in {NoCk, c}
      BY <1>1, <1>2, <1>3, <1>4, <1>5 DEF CoherenceInv, InFlight
    <2>3. \A q \in Requests, s \in Sessions :
            pc'[q] = "purge" /\ sess[q] = s => Cached(s)' = NoCk
      BY <1>1, <1>2, <1>3, <1>4, <1>5 DEF CoherenceInv, InFlight
    <2>4. \A q \in Requests, s \in Sessions :
            pc'[q] \in {"cache", "drop", "purge"} /\ got'[q] # NoCk /\ sess[q] = s =>
              got'[q] = Pending(s)'
      BY <1>1, <1>2, <1>3, <1>4, <1>5 DEF CoherenceInv, InFlight
    <2> QED
      BY <1>1, <1>2, <2>1, <2>2, <2>3, <2>4 DEF CoherenceInv, Cached, Pending
  <1>8. StoredInv'
    <2>1. \A s \in Sessions : Pending(s) # NoCk => Pending(s) \in Chats
      BY PendingState DEF AInv, Typed
    <2> QED
      BY <1>1, <1>2, <1>4, <1>5, <2>1 DEF StoredInv
  <1> QED
    BY <1>7, <1>8 DEF Served

LEMMA DropEntryServed ==
  ASSUME ServedAlone, AInv, NEW r \in Requests, DropEntry(r) PROVE Served'
  <1>1. r \notin Chats /\ sess \in [Requests -> Sessions] /\ Chats \subseteq Requests
    BY DEF AInv, Typed, DropEntry, KindsInv, TypeOK, Requests
  <1>2. /\ UNCHANGED <<sess, got, claimed>> /\ pc[r] = "drop" /\ pc'[r] = "purge"
        /\ \A q \in Requests : q # r => pc'[q] = pc[q]
    BY DEF AInv, Typed, TypeOK, DropEntry, Goto
  <1>3. \A q \in Requests : q # r /\ sess[q] = sess[r] => ~InFlight(q)
    BY <1>2 DEF AInv, AloneInv, InFlight
  <1>4. \A s \in Sessions : /\ Cached(s)' = IF s = sess[r] THEN NoCk ELSE Cached(s)
                            /\ Pending(s)' = Pending(s)
    BY DropEntryView DEF AInv, Typed
  <1>5. CoherenceInv /\ StoredInv
    BY DEF AInv, Served
  <1>7. CoherenceInv'
    <2>1. \A s \in Sessions : Cached(s)' \in {NoCk, Pending(s)'}
                           \/ \E c \in Chats : Cached(s)' = c /\ sess[c] = s /\ pc'[c] = "storing"
      BY <1>1, <1>2, <1>3, <1>4, <1>5 DEF CoherenceInv, InFlight
    <2>2. \A c \in Chats, s \in Sessions :
            pc'[c] = "storing" /\ sess[c] = s => Cached(s)' \in {NoCk, c}
      BY <1>1, <1>2, <1>3, <1>4, <1>5 DEF CoherenceInv, InFlight
    <2>3. \A q \in Requests, s \in Sessions :
            pc'[q] = "purge" /\ sess[q] = s => Cached(s)' = NoCk
      BY <1>1, <1>2, <1>3, <1>4, <1>5 DEF CoherenceInv, InFlight
    <2>4. \A q \in Requests, s \in Sessions :
            pc'[q] \in {"cache", "drop", "purge"} /\ got'[q] # NoCk /\ sess[q] = s =>
              got'[q] = Pending(s)'
      BY <1>1, <1>2, <1>3, <1>4, <1>5 DEF CoherenceInv, InFlight
    <2> QED
      BY <1>1, <1>2, <2>1, <2>2, <2>3, <2>4 DEF CoherenceInv, Cached, Pending
  <1>8. StoredInv'
    <2>1. \A s \in Sessions : Pending(s) # NoCk => Pending(s) \in Chats
      BY PendingState DEF AInv, Typed
    <2> QED
      BY <1>1, <1>2, <1>4, <1>5, <2>1 DEF StoredInv
  <1> QED
    BY <1>7, <1>8 DEF Served

LEMMA WriteTombstoneServed ==
  ASSUME ServedAlone, AInv, NEW r \in Requests, WriteTombstone(r) PROVE Served'
  <1>1. r \notin Chats /\ sess \in [Requests -> Sessions] /\ Chats \subseteq Requests
    BY DEF AInv, Typed, WriteTombstone, KindsInv, TypeOK, Requests
  <1>2. /\ UNCHANGED <<sess, got>> /\ pc[r] = "purge" /\ pc'[r] \in {"done", "call"}
        /\ \A q \in Requests : q # r => pc'[q] = pc[q]
    BY DEF AInv, Typed, TypeOK, WriteTombstone, Claim, Goto
  <1>3. \A q \in Requests : q # r /\ sess[q] = sess[r] => ~InFlight(q)
    BY <1>2 DEF AInv, AloneInv, InFlight
  <1>4. \A s \in Sessions : /\ Pending(s)' = IF s = sess[r] THEN NoCk ELSE Pending(s)
                            /\ Cached(s)' = Cached(s)
    BY WriteTombstoneView DEF AInv, Typed
  <1>5. CoherenceInv /\ StoredInv
    BY DEF AInv, Served
  <1>7. CoherenceInv'
    <2>1. \A s \in Sessions : Cached(s)' \in {NoCk, Pending(s)'}
                           \/ \E c \in Chats : Cached(s)' = c /\ sess[c] = s /\ pc'[c] = "storing"
      BY <1>1, <1>2, <1>3, <1>4, <1>5 DEF CoherenceInv, InFlight
    <2>2. \A c \in Chats, s \in Sessions :
            pc'[c] = "storing" /\ sess[c] = s => Cached(s)' \in {NoCk, c}
      BY <1>1, <1>2, <1>3, <1>4, <1>5 DEF CoherenceInv, InFlight
    <2>3. \A q \in Requests, s \in Sessions :
            pc'[q] = "purge" /\ sess[q] = s => Cached(s)' = NoCk
      BY <1>1, <1>2, <1>3, <1>4, <1>5 DEF CoherenceInv, InFlight
    <2>4. \A q \in Requests, s \in Sessions :
            pc'[q] \in {"cache", "drop", "purge"} /\ got'[q] # NoCk /\ sess[q] = s =>
              got'[q] = Pending(s)'
      BY <1>1, <1>2, <1>3, <1>4, <1>5 DEF CoherenceInv, InFlight
    <2> QED
      BY <1>1, <1>2, <2>1, <2>2, <2>3, <2>4 DEF CoherenceInv, Cached, Pending
  <1>8. StoredInv'
    <2>1. \A s \in Sessions : Pending(s) # NoCk => Pending(s) \in Chats
      BY PendingState DEF AInv, Typed
    <2>2. \A s \in Sessions : Pending(s) # NoCk => sess[Pending(s)] = s
      BY Homes DEF AInv, StatesStayInTheirSession, Pending
    <2>3. got[r] # NoCk => got[r] = Pending(sess[r])
      BY <1>2, <1>5 DEF CoherenceInv
    <2>4. claimed \in [Chats -> Nat]
      BY DEF AInv, Typed, TypeOK
    <2>5. CASE got[r] = NoCk
      BY <1>1, <1>2, <1>4, <1>5, <2>1, <2>5 DEF StoredInv, WriteTombstone, Claim
    <2>6. CASE got[r] # NoCk
      <3>1. /\ got[r] \in Chats /\ pc[got[r]] = "done" /\ claimed[got[r]] = 0
            /\ claimed' = [claimed EXCEPT ![got[r]] = @ + 1]
        BY <1>1, <1>5, <2>1, <2>3, <2>6 DEF StoredInv, WriteTombstone, Claim
      <3>2. \A s \in Sessions : s # sess[r] => Pending(s) # got[r] \/ Pending(s) = NoCk
        BY <1>1, <2>2, <2>3, <2>6
      <3>3. \A c \in Chats : claimed'[c] = IF c = got[r] THEN 1 ELSE claimed[c]
        BY <2>4, <3>1
      <3> QED
        BY <1>1, <1>2, <1>4, <1>5, <2>1, <2>6, <3>1, <3>2, <3>3 DEF StoredInv
    <2> QED
      BY <2>5, <2>6
  <1> QED
    BY <1>7, <1>8 DEF Served

\* The requests of a pod that restarts, and the copies they work on, go together.
LEMMA RestartServed ==
  ASSUME ServedAlone, AInv, NEW p \in Pods, Restart(p) PROVE Served'
  <1>1. sess \in [Requests -> Sessions] /\ Chats \subseteq Requests
    BY DEF AInv, Typed, TypeOK, Requests
  <1>2. /\ UNCHANGED <<sess, got, claimed>>
        /\ \A q \in Requests : pc'[q] = IF pod[q] = p /\ InFlight(q) THEN "dead" ELSE pc[q]
    BY DEF Restart
  <1>3. \A q \in Requests : pod[q] = Home(sess[q])
    BY DEF AInv, AloneInv
  <1>4. \A s \in Sessions : /\ Cached(s)' = IF Home(s) = p THEN NoCk ELSE Cached(s)
                            /\ Pending(s)' \in {NoCk, Pending(s)}
                            /\ Home(s) # p => Pending(s)' = Pending(s)
    BY RestartView DEF AInv, Typed
  <1>5. CoherenceInv /\ StoredInv
    BY DEF AInv, Served
  <1>7. CoherenceInv'
    <2>1. \A s \in Sessions : Cached(s)' \in {NoCk, Pending(s)'}
                           \/ \E c \in Chats : Cached(s)' = c /\ sess[c] = s /\ pc'[c] = "storing"
      BY <1>1, <1>2, <1>3, <1>4, <1>5 DEF CoherenceInv, InFlight
    <2>2. \A c \in Chats, s \in Sessions :
            pc'[c] = "storing" /\ sess[c] = s => Cached(s)' \in {NoCk, c}
      BY <1>1, <1>2, <1>3, <1>4, <1>5 DEF CoherenceInv, InFlight
    <2>3. \A q \in Requests, s \in Sessions :
            pc'[q] = "purge" /\ sess[q] = s => Cached(s)' = NoCk
      BY <1>1, <1>2, <1>3, <1>4, <1>5 DEF CoherenceInv, InFlight
    <2>4. \A q \in Requests, s \in Sessions :
            pc'[q] \in {"cache", "drop", "purge"} /\ got'[q] # NoCk /\ sess[q] = s =>
              got'[q] = Pending(s)'
      BY <1>1, <1>2, <1>3, <1>4, <1>5 DEF CoherenceInv, InFlight
    <2> QED
      BY <1>1, <1>2, <2>1, <2>2, <2>3, <2>4 DEF CoherenceInv, Cached, Pending
  <1>8. StoredInv'
    <2>1. \A s \in Sessions : Pending(s) # NoCk => Pending(s) \in Chats
      BY PendingState DEF AInv, Typed
    <2> QED
      BY <1>1, <1>2, <1>4, <1>5, <2>1 DEF StoredInv, InFlight
  <1> QED
    BY <1>7, <1>8 DEF Served

\* A request that has arrived starts with nothing in hand.
LEMMA ArriveServed ==
  ASSUME ServedAlone, AInv, NEW r \in Requests, Arrive(r) PROVE Served'
  <1>1. sess \in [Requests -> Sessions] /\ Chats \subseteq Requests
    BY DEF AInv, Typed, TypeOK, Requests
  <1>2. /\ UNCHANGED <<sess, got, claimed>> /\ pc[r] = "new" /\ pc'[r] \in {"saving", "look"}
        /\ \A q \in Requests : q # r => pc'[q] = pc[q]
    BY DEF AInv, Typed, TypeOK, Arrive, Goto
  <1>4. \A s \in Sessions : Cached(s)' = Cached(s) /\ Pending(s)' = Pending(s)
    BY DEF Arrive, Cached, Pending
  <1>5. CoherenceInv /\ StoredInv
    BY DEF AInv, Served
  <1>7. CoherenceInv'
    <2>1. \A s \in Sessions : Cached(s)' \in {NoCk, Pending(s)'}
                           \/ \E c \in Chats : Cached(s)' = c /\ sess[c] = s /\ pc'[c] = "storing"
      BY <1>1, <1>2, <1>4, <1>5 DEF CoherenceInv
    <2>2. \A c \in Chats, s \in Sessions :
            pc'[c] = "storing" /\ sess[c] = s => Cached(s)' \in {NoCk, c}
      BY <1>1, <1>2, <1>4, <1>5 DEF CoherenceInv
    <2>3. \A q \in Requests, s \in Sessions :
            pc'[q] = "purge" /\ sess[q] = s => Cached(s)' = NoCk
      BY <1>1, <1>2, <1>4, <1>5 DEF CoherenceInv
    <2>4. \A q \in Requests, s \in Sessions :
            pc'[q] \in {"cache", "drop", "purge"} /\ got'[q] # NoCk /\ sess[q] = s =>
              got'[q] = Pending(s)'
      BY <1>1, <1>2, <1>4, <1>5 DEF CoherenceInv
    <2> QED
      BY <1>1, <1>2, <2>1, <2>2, <2>3, <2>4 DEF CoherenceInv, Cached, Pending
  <1>8. StoredInv'
    <2>1. \A s \in Sessions : Pending(s) # NoCk => Pending(s) \in Chats
      BY PendingState DEF AInv, Typed
    <2> QED
      BY <1>1, <1>2, <1>4, <1>5, <2>1 DEF StoredInv
  <1> QED
    BY <1>7, <1>8 DEF Served

\* A state found in the map or in the store is the pending one.
LEMMA LookServed ==
  ASSUME ServedAlone, AInv, NEW r \in Requests,
         LookInMemory(r) \/ LookInStore(r) \/ CallAgent(r)
  PROVE  Served'
  <1>1. r \notin Chats /\ sess \in [Requests -> Sessions] /\ Chats \subseteq Requests
    BY DEF AInv, Typed, LookInMemory, LookInStore, CallAgent, KindsInv, TypeOK, Requests
  <1>2. /\ UNCHANGED <<sess, mem, store, claimed>> /\ pc[r] \in {"look", "fetch", "call"}
        /\ pc'[r] # "purge"
    BY DEF AInv, Typed, TypeOK, LookInMemory, LookInStore, CallAgent, Found, AfterFound, Goto
  <1>3. \A q \in Requests : q # r /\ sess[q] = sess[r] => ~InFlight(q)
    BY <1>2 DEF AInv, AloneInv, InFlight
  <1>4. CoherenceInv
    BY DEF AInv, Served
  <1>5. Cached(sess[r]) \in {NoCk, Pending(sess[r])}
    BY <1>1, <1>2, <1>3, <1>4 DEF CoherenceInv, InFlight
  <1>6. mem[pod[r]][sess[r]].ck = Cached(sess[r]) /\ store[StoreFor(r)][sess[r]] = Pending(sess[r])
    BY AtHome DEF AInv, Typed
  <1>7. pc'[r] \in {"cache", "drop"} /\ got'[r] # NoCk => got'[r] = Pending(sess[r])
    <2>1. CASE LookInMemory(r)
      BY <1>5, <1>6, <2>1 DEF AInv, Typed, TypeOK, KindsInv, LookInMemory, Found, AfterFound, Goto
    <2>2. CASE LookInStore(r)
      BY <1>6, <2>2 DEF AInv, Typed, TypeOK, LookInStore, Found, Goto
    <2>3. CASE CallAgent(r)
      BY <2>3 DEF AInv, Typed, TypeOK, CallAgent, Goto
    <2> QED
      BY <2>1, <2>2, <2>3
  <1> QED
    BY <1>1, <1>2, <1>7, QuietStep DEF AInv, Typed, RequestStep

LEMMA InitAlone == ServedAlone /\ Init => AInv
  <1> SUFFICES ASSUME ServedAlone, Init PROVE AInv
    OBVIOUS
  <1>1. Typed
    BY InitTyped
  <1>2. StatesStayInTheirSession
    BY RoutingAssumption DEF Init, StatesStayInTheirSession, NoEntry
  <1>3. AloneInv
    BY DEF Init, AloneInv, InFlight, ServedAlone
  <1>4. \A s \in Sessions : Cached(s) = NoCk /\ Pending(s) = NoCk
    BY Homes DEF Init, Cached, Pending, NoEntry
  <1>5. Served
    BY <1>4 DEF Init, Served, CoherenceInv, StoredInv, Requests
  <1> QED
    BY <1>1, <1>2, <1>3, <1>5 DEF AInv

LEMMA StepServed == ServedAlone /\ AInv /\ [Next]_vars => Served'
  <1> SUFFICES ASSUME ServedAlone, AInv, [Next]_vars PROVE Served'
    OBVIOUS
  <1>1. ASSUME NEW r \in Requests, Arrive(r) PROVE Served'
    BY <1>1, ArriveServed
  <1>2. ASSUME NEW r \in Requests, RequestStep(r) PROVE Served'
    BY <1>2, SaveInMemoryServed, SaveInStoreServed, LookServed, CacheLocallyServed,
       DropEntryServed, WriteTombstoneServed DEF RequestStep
  <1>3. ASSUME NEW p \in Pods, Restart(p) PROVE Served'
    BY <1>3, RestartServed
  <1>4. CASE UNCHANGED <<sess, pc, got, mem, store, claimed>>
    BY <1>4 DEF AInv, Served, CoherenceInv, StoredInv, Cached, Pending
  <1> QED
    BY <1>1, <1>2, <1>3, <1>4 DEF Next, Tick, vars

LEMMA StepAlone == ServedAlone /\ AInv /\ [Next]_vars => AInv'
  <1> SUFFICES ASSUME ServedAlone, AInv, [Next]_vars PROVE AInv'
    OBVIOUS
  <1>1. Typed' /\ StatesStayInTheirSession'
    BY StepTyped, StepOwned DEF AInv
  <1>2. AloneInv'
    BY AloneStep DEF AInv, Typed
  <1> QED
    BY <1>1, <1>2, StepServed DEF AInv

\* Where the requests of a session come one after the other to one pod, and
\* the store answers, a confirmation is acted on at most once
\* (ResumedAtMostOnce).
THEOREM SingleUse == ASSUME ServedAlone PROVE Spec => []ResumedAtMostOnce
  <1>1. Init => AInv
    BY InitAlone
  <1>2. AInv /\ [Next]_vars => AInv'
    BY StepAlone
  <1>3. AInv => ResumedAtMostOnce
    BY DEF AInv, Served, StoredInv, ResumedAtMostOnce
  <1> QED
    BY <1>1, <1>2, <1>3, PTL DEF Spec

\* Under the same conditions a question that was answered is never pending
\* again (NeverAskedAgain): no store or map hands it to a later request.
THEOREM AnsweredForGood == ASSUME ServedAlone PROVE Spec => []NeverAskedAgain
  <1>1. Init => AInv
    BY InitAlone
  <1>2. AInv /\ [Next]_vars => AInv'
    BY StepAlone
  <1>3. AInv => NeverAskedAgain
    <2> SUFFICES ASSUME AInv, NEW s \in Sessions, Pending(s) \in {c \in Chats : claimed[c] > 0}
                 PROVE  FALSE
      BY DEF NeverAskedAgain, Ledger!NeverAskedAgain
    <2>1. Pending(s) # NoCk
      BY RequestsAssumption
    <2> QED
      BY <2>1 DEF AInv, Served, StoredInv
  <1> QED
    BY <1>1, <1>2, <1>3, PTL DEF Spec

----------------------------------------------------------------------------
(* The refinement: saving in the store asks a question, a claimed state    *)
(* answers it, an expired one or a lost store forgets some.                *)

LEMMA LedgerInit == ServedAlone /\ Init => Ledger!Init
  <1> SUFFICES ASSUME ServedAlone, Init PROVE Ledger!Init
    OBVIOUS
  <1>1. \A s \in Sessions : Pending(s) = NoCk
    BY Homes DEF Init, Pending
  <1>2. {c \in Chats : pc[c] = "done"} = {} /\ {c \in Chats : claimed[c] > 0} = {}
    BY DEF Init, Requests
  <1> QED
    BY <1>1, <1>2 DEF Ledger!Init

\* What the ledger sees of the system stays as it is.
LEMMA LedgerStutter ==
  ASSUME \A s \in Sessions : Pending(s)' = Pending(s),
         \A c \in Chats : pc'[c] = "done" <=> pc[c] = "done",
         UNCHANGED claimed
  PROVE  UNCHANGED Ledger!vars
  <1>1. [s \in Sessions |-> Pending(s)]' = [s \in Sessions |-> Pending(s)]
    OBVIOUS
  <1>2. {c \in Chats : pc[c] = "done"}' = {c \in Chats : pc[c] = "done"}
    OBVIOUS
  <1> QED
    BY <1>1, <1>2 DEF Ledger!vars

LEMMA LedgerForget ==
  ASSUME NEW S \in SUBSET Sessions,
         \A s \in Sessions : Pending(s)' = IF s \in S THEN NoCk ELSE Pending(s),
         \A c \in Chats : pc'[c] = "done" <=> pc[c] = "done",
         UNCHANGED claimed
  PROVE  Ledger!Next
  <1>1. [s \in Sessions |-> Pending(s)]' = [s \in Sessions |-> IF s \in S THEN NoCk ELSE Pending(s)]
    OBVIOUS
  <1>2. {c \in Chats : pc[c] = "done"}' = {c \in Chats : pc[c] = "done"}
    OBVIOUS
  <1>3. Ledger!Forget(S)
    BY <1>1, <1>2 DEF Ledger!Forget
  <1> QED
    BY <1>3 DEF Ledger!Next

LEMMA LedgerRaise ==
  ASSUME ServedAlone, AInv, NEW r \in Requests, SaveInStore(r) PROVE Ledger!Next
  <1>1. r \in Chats /\ sess[r] \in Sessions /\ pc[r] = "storing"
    BY DEF AInv, Typed, SaveInStore, KindsInv, TypeOK
  <1>2. UNCHANGED claimed /\ pc' = [pc EXCEPT ![r] = "done"]
    BY DEF SaveInStore, Goto
  <1>3. \A s \in Sessions : Pending(s)' = IF s = sess[r] THEN r ELSE Pending(s)
    BY SaveInStoreView DEF AInv, Typed
  <1>4. {c \in Chats : pc'[c] = "done"} = {c \in Chats : pc[c] = "done"} \cup {r}
    BY <1>1, <1>2 DEF AInv, Typed, TypeOK, Requests
  <1>5. r \notin {c \in Chats : pc[c] = "done"}
    BY <1>1
  <1>6. [s \in Sessions |-> Pending(s)]' = [[s \in Sessions |-> Pending(s)] EXCEPT ![sess[r]] = r]
    BY <1>1, <1>3
  <1>7. PICK s \in Sessions : s = sess[r]
    BY <1>1
  <1>8. Ledger!Raise(s, r)
    BY <1>2, <1>4, <1>5, <1>6, <1>7 DEF Ledger!Raise
  <1> QED
    BY <1>1, <1>8 DEF Ledger!Next

LEMMA LedgerAnswer ==
  ASSUME ServedAlone, AInv, NEW r \in Requests, WriteTombstone(r), got[r] # NoCk
  PROVE  Ledger!Next
  <1>1. sess[r] \in Sessions /\ r \notin Chats /\ pc[r] = "purge"
    BY DEF AInv, Typed, WriteTombstone, KindsInv, TypeOK
  <1>2. got[r] = Pending(sess[r]) /\ got[r] \in Chats
    BY <1>1, PendingState DEF AInv, Typed, Served, CoherenceInv
  <1>3. claimed' = [claimed EXCEPT ![got[r]] = @ + 1] /\ pc' = [pc EXCEPT ![r] = "call"]
    BY DEF WriteTombstone, Claim, Goto
  <1>4. \A s \in Sessions : Pending(s)' = IF s = sess[r] THEN NoCk ELSE Pending(s)
    BY WriteTombstoneView DEF AInv, Typed
  <1>5. {c \in Chats : claimed'[c] > 0} = {c \in Chats : claimed[c] > 0} \cup {Pending(sess[r])}
    <2>1. claimed \in [Chats -> Nat]
      BY DEF AInv, Typed, TypeOK
    <2> QED
      BY <1>2, <1>3, <2>1
  <1>6. {c \in Chats : pc'[c] = "done"} = {c \in Chats : pc[c] = "done"}
    BY <1>1, <1>3 DEF AInv, Typed, TypeOK, Requests
  <1>7. [s \in Sessions |-> Pending(s)]' = [[s \in Sessions |-> Pending(s)] EXCEPT ![sess[r]] = NoCk]
    BY <1>1, <1>4
  <1>8. PICK s \in Sessions : s = sess[r]
    BY <1>1
  <1>9. Ledger!Answer(s)
    BY <1>1, <1>2, <1>5, <1>6, <1>7, <1>8 DEF Ledger!Answer
  <1> QED
    BY <1>9 DEF Ledger!Next

LEMMA LedgerStep ==
  ServedAlone /\ AInv /\ [Next]_vars => [Ledger!Next]_(Ledger!vars)
  <1> SUFFICES ASSUME ServedAlone, AInv, [Next]_vars PROVE [Ledger!Next]_(Ledger!vars)
    OBVIOUS
  <1>1. TypeOK /\ KindsInv
    BY DEF AInv, Typed
  <1>2. ASSUME NEW r \in Requests, WriteTombstone(r), got[r] = NoCk PROVE Ledger!Next
    <2>1. {sess[r]} \in SUBSET Sessions /\ r \notin Chats
      BY <1>1, <1>2 DEF WriteTombstone, KindsInv, TypeOK
    <2>2. PICK S \in SUBSET Sessions : S = {sess[r]}
      BY <2>1
    <2>3. \A s \in Sessions : Pending(s)' = IF s \in S THEN NoCk ELSE Pending(s)
      BY <1>2, <2>2, WriteTombstoneView DEF AInv, Typed
    <2>4. \A c \in Chats : pc'[c] = "done" <=> pc[c] = "done"
      BY <1>1, <1>2, <2>1 DEF WriteTombstone, Claim, Goto, TypeOK, Requests
    <2>5. UNCHANGED claimed
      BY <1>2 DEF WriteTombstone, Claim
    <2> QED
      BY <2>3, <2>4, <2>5, LedgerForget
  <1>3. ASSUME NEW p \in Pods, Restart(p) PROVE Ledger!Next
    <2>1. PICK S \in SUBSET Sessions : S = {s \in Sessions : Pending(s)' = NoCk}
      OBVIOUS
    <2>2. \A s \in Sessions : Pending(s)' = IF s \in S THEN NoCk ELSE Pending(s)
      BY <1>1, <1>3, <2>1, RestartView
    <2>3. \A c \in Chats : pc'[c] = "done" <=> pc[c] = "done"
      BY <1>3 DEF Restart, InFlight, Requests
    <2> QED
      BY <1>3, <2>2, <2>3, LedgerForget DEF Restart
  <1>4. ASSUME NEW r \in Requests, Arrive(r) \/ SaveInMemory(r) PROVE UNCHANGED Ledger!vars
    <2>1. UNCHANGED <<store, claimed>> /\ \A c \in Chats : pc'[c] = "done" <=> pc[c] = "done"
      BY <1>1, <1>4 DEF Arrive, SaveInMemory, Goto, TypeOK, Requests
    <2> QED
      BY <2>1, LedgerStutter DEF Pending
  <1>5. ASSUME NEW r \in Requests,
               LookInMemory(r) \/ LookInStore(r) \/ CacheLocally(r) \/ DropEntry(r) \/ CallAgent(r)
        PROVE  UNCHANGED Ledger!vars
    <2>1. r \notin Chats /\ UNCHANGED <<store, claimed>>
      BY <1>1, <1>5 DEF LookInMemory, LookInStore, CacheLocally, DropEntry, CallAgent, KindsInv
    <2>2. \A q \in Requests : q # r => pc'[q] = pc[q]
      BY <1>5, <1>1, OnlyItself DEF RequestStep
    <2> QED
      BY <2>1, <2>2, LedgerStutter DEF Pending, Requests
  <1>6. CASE UNCHANGED <<pc, store, claimed>>
    BY <1>6, LedgerStutter DEF Pending
  <1> QED
    BY <1>2, <1>3, <1>4, <1>5, <1>6, LedgerRaise, LedgerAnswer DEF Next, RequestStep, Tick, vars

\* Where the requests of a session come one after the other to one pod, and
\* the store answers, maps, stores, restarts and expiry amount to one pending
\* question per session that is answered at most once (LedgerSpec).
THEOREM ImplementsLedger == ASSUME ServedAlone PROVE Spec => LedgerSpec
  <1>1. Init => AInv /\ Ledger!Init
    BY InitAlone, LedgerInit
  <1>2. AInv /\ [Next]_vars => AInv'
    BY StepAlone
  <1>3. AInv /\ [Next]_vars => [Ledger!Next]_(Ledger!vars)
    BY LedgerStep
  <1> QED
    BY <1>1, <1>2, <1>3, PTL DEF Spec, LedgerSpec, Ledger!Spec
----------------------------------------------------------------------------
(* Expiry: an entry of a map lives at least as long as the state it        *)
(* copies, so what a look-up takes for expired is expired.                 *)

Outlived(ck) == now > savedAt[ck] + Timeout

DatesInv == \A c \in Chats : savedAt[c] <= now

EntriesInv ==
  \A s \in Sessions :
    Cached(s) # NoCk => savedAt[Cached(s)] + Timeout <= mem[Home(s)][s].exp

\* A request that clears without a state in hand clears one that expired.
DropInv ==
  \A r \in Requests, s \in Sessions :
    /\ s = sess[r] /\ pc[r] \in {"drop", "purge"} /\ got[r] = NoCk /\ Pending(s) # NoCk
    => Outlived(Pending(s))

EInv == AInv /\ DatesInv /\ EntriesInv /\ DropInv

\* A pending or cached state was saved before, so no save dates it anew.
LEMMA Saved ==
  ASSUME ServedAlone, AInv, NEW s \in Sessions
  PROVE  /\ Pending(s) # NoCk => Pending(s) \in Chats /\ pc[Pending(s)] = "done"
         /\ Cached(s) # NoCk => Cached(s) \in Chats /\ pc[Cached(s)] \in {"storing", "done"}
  <1>1. Pending(s) # NoCk => Pending(s) \in Chats /\ pc[Pending(s)] = "done"
    BY PendingState DEF AInv, Typed, Served, StoredInv
  <1> QED
    BY <1>1 DEF AInv, Served, CoherenceInv

\* Only a save dates a state, and it dates its own.
LEMMA Dated ==
  ASSUME ServedAlone, EInv, NEW r \in Requests, SaveInMemory(r)
  PROVE  /\ \A c \in Chats : savedAt'[c] = IF c = r THEN now ELSE savedAt[c]
         /\ \A s \in Sessions : /\ Pending(s) # NoCk => savedAt'[Pending(s)] = savedAt[Pending(s)]
                                /\ Cached(s) # NoCk => savedAt'[Cached(s)] = savedAt[Cached(s)]
  <1>1. \A c \in Chats : savedAt'[c] = IF c = r THEN now ELSE savedAt[c]
    BY DEF EInv, AInv, Typed, TypeOK, SaveInMemory
  <1>2. pc[r] = "saving"
    BY DEF SaveInMemory
  <1> QED
    BY <1>1, <1>2, Saved DEF EInv

LEMMA DatesStep ==
  ASSUME ServedAlone, EInv, [Next]_vars PROVE DatesInv'
  <1>1. savedAt \in [Chats -> Nat] /\ now \in Nat
    BY DEF EInv, AInv, Typed, TypeOK
  <1>2. ASSUME NEW r \in Requests, SaveInMemory(r) PROVE DatesInv'
    BY <1>1, <1>2, Dated DEF EInv, DatesInv, SaveInMemory
  <1>3. ASSUME UNCHANGED savedAt, now' \in {now, now + 1} PROVE DatesInv'
    BY <1>1, <1>3 DEF EInv, DatesInv
  <1> QED
    BY <1>2, <1>3
    DEF Next, vars, Arrive, RequestStep, SaveInStore, LookInMemory, LookInStore, CacheLocally,
        DropEntry, WriteTombstone, CallAgent, Restart, Tick

LEMMA EntriesStep ==
  ASSUME ServedAlone, EInv, [Next]_vars PROVE EntriesInv'
  <1> DEFINE Exp(s) == mem[Home(s)][s].exp
  <1>1. /\ savedAt \in [Chats -> Nat] /\ now \in Nat /\ Timeout \in Nat
        /\ TypeOK /\ AloneInv /\ mem \in [Pods -> [Sessions -> Entry]]
    BY BoundsAssumption DEF EInv, AInv, Typed, TypeOK
  <1>2. ASSUME NEW r \in Requests, SaveInMemory(r) PROVE EntriesInv'
    <2>1. PICK K \in Kept(pod[r]) :
            mem' = [mem EXCEPT ![pod[r]] =
                      [s \in Sessions |-> IF s = sess[r] THEN Fresh(r)
                                          ELSE IF s \in K THEN @[s] ELSE NoEntry]]
      BY <1>2 DEF SaveInMemory
    <2>2. \A p \in Pods, s \in Sessions :
            /\ p = pod[r] /\ s = sess[r] => mem'[p][s] = Fresh(r)
            /\ s # sess[r] => mem'[p][s] \in {NoEntry, mem[p][s]}
      BY <1>1, <2>1
    <2>3. r \in Chats
      BY <1>2 DEF EInv, AInv, Typed, KindsInv, SaveInMemory
    <2>4. ASSUME NEW s \in Sessions, s = sess[r]
          PROVE  mem'[Home(s)][s] = Fresh(r)
      BY <1>1, <2>2, <2>4, AtHome
    <2>5. \A s \in Sessions : s # sess[r] => mem'[Home(s)][s] \in {NoEntry, mem[Home(s)][s]}
      BY <2>2, Homes
    <2>6. ASSUME NEW s \in Sessions, mem'[Home(s)][s].ck # NoCk
          PROVE  savedAt'[mem'[Home(s)][s].ck] + Timeout <= mem'[Home(s)][s].exp
      <3>1. CASE s = sess[r]
        BY <1>1, <1>2, <2>3, <2>4, <3>1, Dated DEF Fresh
      <3>2. CASE s # sess[r]
        <4>1. mem'[Home(s)][s] = mem[Home(s)][s]
          BY <2>5, <2>6, <3>2 DEF NoEntry
        <4> QED
          BY <1>2, <2>6, <4>1, Dated DEF EInv, EntriesInv, Cached
      <3> QED
        BY <3>1, <3>2
    <2> QED
      BY <2>6 DEF EntriesInv, Cached
  <1>3. ASSUME NEW r \in Requests, CacheLocally(r) PROVE EntriesInv'
    <2>1. /\ got[r] \in Chats /\ UNCHANGED savedAt
          /\ mem' = [mem EXCEPT ![pod[r]][sess[r]] = Fresh(got[r])]
      BY <1>3 DEF EInv, AInv, Typed, KindsInv, TypeOK, CacheLocally, CkOrNone
    <2>2. \A p \in Pods, s \in Sessions :
            mem'[p][s] = IF p = pod[r] /\ s = sess[r] THEN Fresh(got[r]) ELSE mem[p][s]
      BY <1>1, <2>1
    <2>3. \A s \in Sessions : mem'[Home(s)][s] \in {Fresh(got[r]), mem[Home(s)][s]}
      BY <2>2, Homes
    <2>4. savedAt[got[r]] + Timeout <= now + Timeout
      BY <1>1, <2>1 DEF EInv, DatesInv
    <2> QED
      BY <2>1, <2>3, <2>4 DEF EInv, EntriesInv, Cached, Fresh
  <1>4. ASSUME UNCHANGED savedAt,
               \A s \in Sessions : mem'[Home(s)][s] \in {NoEntry, mem[Home(s)][s]}
        PROVE  EntriesInv'
    BY <1>4 DEF EInv, EntriesInv, Cached, NoEntry
  <1>5. ASSUME NEW r \in Requests, DropEntry(r) PROVE EntriesInv'
    <2>1. \A p \in Pods, s \in Sessions : mem'[p][s] \in {NoEntry, mem[p][s]}
      BY <1>1, <1>5 DEF DropEntry
    <2> QED
      BY <1>4, <1>5, <2>1, Homes DEF DropEntry
  <1>6. ASSUME NEW p \in Pods, Restart(p) PROVE EntriesInv'
    <2>1. \A q \in Pods, s \in Sessions : mem'[q][s] \in {NoEntry, mem[q][s]}
      BY <1>1, <1>6 DEF Restart
    <2> QED
      BY <1>4, <1>6, <2>1, Homes DEF Restart
  <1>7. CASE UNCHANGED <<mem, savedAt>>
    BY <1>4, <1>7
  <1> QED
    BY <1>2, <1>3, <1>5, <1>6, <1>7
    DEF Next, vars, Arrive, RequestStep, SaveInStore, LookInMemory, LookInStore,
        WriteTombstone, CallAgent, Tick

\* Of the requests in a session, only the one that steps clears anything.
LEMMA DropStep ==
  ASSUME ServedAlone, EInv, [Next]_vars PROVE DropInv'
  <1>1. /\ savedAt \in [Chats -> Nat] /\ now \in Nat /\ TypeOK /\ KindsInv /\ AloneInv
        /\ DropInv /\ sess \in [Requests -> Sessions]
    BY DEF EInv, AInv, Typed, TypeOK
  <1>2. ASSUME NEW r \in Requests, Arrive(r) PROVE DropInv'
    BY <1>1, <1>2 DEF DropInv, Outlived, Pending, Arrive, Goto, TypeOK
  <1>3. ASSUME NEW r \in Requests, RequestStep(r),
               \A s \in Sessions : s # sess[r] => Pending(s)' = Pending(s),
               \A s \in Sessions : Pending(s) # NoCk => savedAt'[Pending(s)] = savedAt[Pending(s)],
               \A s \in Sessions :
                 /\ s = sess[r] /\ pc'[r] \in {"drop", "purge"} /\ got'[r] = NoCk
                 /\ Pending(s)' # NoCk
                 => now > savedAt'[Pending(s)'] + Timeout
        PROVE  DropInv'
    <2>1. /\ UNCHANGED sess /\ UNCHANGED now
          /\ \A q \in Requests : q # r => pc'[q] = pc[q] /\ got'[q] = got[q]
      BY <1>1, <1>3, OnlyItself
      DEF RequestStep, SaveInMemory, SaveInStore, LookInMemory, LookInStore, CacheLocally,
          DropEntry, WriteTombstone, CallAgent
    <2>2. \A q \in Requests : q # r /\ sess[q] = sess[r] => ~InFlight(q)
      BY <1>1, <1>3, OnlyItself DEF AloneInv
    <2>3. ASSUME NEW q \in Requests, NEW s \in Sessions, s = sess[q],
                 pc'[q] \in {"drop", "purge"}, got'[q] = NoCk, Pending(s)' # NoCk
          PROVE  now > savedAt'[Pending(s)'] + Timeout
      <3>1. CASE q = r
        BY <1>3, <2>3, <3>1
      <3>2. CASE q # r
        <4>1. s # sess[r] /\ pc[q] \in {"drop", "purge"} /\ got[q] = NoCk
          BY <2>1, <2>2, <2>3, <3>2 DEF InFlight
        <4>2. Pending(s)' = Pending(s) /\ savedAt'[Pending(s)] = savedAt[Pending(s)]
          BY <1>3, <2>3, <4>1
        <4>3. Outlived(Pending(s))
          BY <1>1, <2>3, <4>1, <4>2 DEF DropInv
        <4> QED
          BY <4>2, <4>3 DEF Outlived
      <3> QED
        BY <3>1, <3>2
    <2> QED
      BY <2>1, <2>3 DEF DropInv, Outlived
  <1>4. ASSUME NEW r \in Requests, SaveInMemory(r) PROVE DropInv'
    <2>1. pc'[r] = "storing" /\ RequestStep(r)
      BY <1>1, <1>4 DEF SaveInMemory, Goto, TypeOK, RequestStep
    <2> QED
      BY <1>1, <1>3, <1>4, <2>1, SaveInMemoryView, Dated
  <1>5. ASSUME NEW r \in Requests, SaveInStore(r) PROVE DropInv'
    <2>1. pc'[r] = "done" /\ RequestStep(r) /\ UNCHANGED savedAt
      BY <1>1, <1>5 DEF SaveInStore, Goto, TypeOK, RequestStep
    <2> QED
      BY <1>1, <1>3, <1>5, <2>1, SaveInStoreView
  <1>6. ASSUME NEW r \in Requests, LookInMemory(r) PROVE DropInv'
    <2> DEFINE e == mem[pod[r]][sess[r]]
    <2>1. RequestStep(r) /\ UNCHANGED <<savedAt, store, sess>> /\ pc[r] = "look"
      BY <1>6 DEF LookInMemory, RequestStep
    <2>2. \A s \in Sessions : Pending(s)' = Pending(s)
      BY <2>1 DEF Pending
    <2>3. pc'[r] \in {"drop", "purge"} /\ got'[r] = NoCk => e.ck # NoCk /\ now > e.exp
      BY <1>1, <1>6 DEF LookInMemory, Found, AfterFound, Goto, Expired, TypeOK
    <2>4. e.ck = Cached(sess[r]) /\ pod[r] = Home(sess[r]) /\ sess[r] \in Sessions
      BY <1>1, AtHome
    <2>5. Cached(sess[r]) \in {NoCk, Pending(sess[r])}
      <3>1. \A c \in Chats : sess[c] = sess[r] => pc[c] # "storing"
        BY <1>1, <2>1 DEF AloneInv, InFlight, Requests
      <3> QED
        BY <2>4, <3>1 DEF EInv, AInv, Served, CoherenceInv
    <2>6. Cached(sess[r]) # NoCk => savedAt[Cached(sess[r])] + Timeout <= e.exp
      BY <2>4 DEF EInv, EntriesInv
    <2>7. e.exp \in Nat /\ (Pending(sess[r]) # NoCk => savedAt[Pending(sess[r])] \in Nat)
      BY <1>1, <2>4, Looked, Saved DEF EInv, Entry
    <2>8. /\ pc'[r] \in {"drop", "purge"} /\ got'[r] = NoCk /\ Pending(sess[r]) # NoCk
          => now > savedAt[Pending(sess[r])] + Timeout
      BY <1>1, <2>3, <2>4, <2>5, <2>6, <2>7, BoundsAssumption
    <2> QED
      BY <1>3, <2>1, <2>2, <2>8
  <1>7. ASSUME NEW r \in Requests, LookInStore(r) \/ CacheLocally(r) \/ CallAgent(r)
        PROVE DropInv'
    <2>1. RequestStep(r) /\ UNCHANGED <<savedAt, store, sess>>
      BY <1>7 DEF LookInStore, CacheLocally, CallAgent, RequestStep
    <2>2. \A s \in Sessions : Pending(s)' = Pending(s)
      BY <2>1 DEF Pending
    <2>3. pc'[r] \in {"drop", "purge"} => got'[r] # NoCk
      BY <1>1, <1>7
      DEF LookInStore, CacheLocally, CallAgent, Found, AfterFound, Goto, TypeOK, KindsInv
    <2> QED
      BY <1>3, <2>1, <2>2, <2>3
  <1>8. ASSUME NEW r \in Requests, DropEntry(r) PROVE DropInv'
    <2>1. RequestStep(r) /\ UNCHANGED <<savedAt, store, sess, got>> /\ pc[r] = "drop"
      BY <1>8 DEF DropEntry, RequestStep
    <2>2. \A s \in Sessions : Pending(s)' = Pending(s)
      BY <2>1 DEF Pending
    <2> QED
      BY <1>1, <1>3, <2>1, <2>2 DEF DropInv, Outlived
  <1>9. ASSUME NEW r \in Requests, WriteTombstone(r) PROVE DropInv'
    <2>1. RequestStep(r) /\ UNCHANGED savedAt
      BY <1>9 DEF WriteTombstone, RequestStep
    <2> QED
      BY <1>1, <1>3, <1>9, <2>1, WriteTombstoneView
  <1>10. ASSUME NEW p \in Pods, Restart(p) PROVE DropInv'
    <2>1. \A s \in Sessions : Pending(s)' \in {NoCk, Pending(s)}
      BY <1>1, <1>10, RestartView
    <2>2. \A q \in Requests : pc'[q] \in {pc[q], "dead"}
      BY <1>10 DEF Restart
    <2> QED
      BY <1>1, <1>10, <2>1, <2>2 DEF Restart, DropInv, Outlived
  <1>11. CASE Tick
    <2>1. UNCHANGED <<sess, pc, got, savedAt, store>> /\ now' = now + 1
      BY <1>11 DEF Tick
    <2>2. \A s \in Sessions : /\ Pending(s)' = Pending(s)
                              /\ Pending(s) # NoCk => savedAt[Pending(s)] \in Nat
      BY <1>1, <2>1, Saved DEF EInv, Pending
    <2> QED
      BY <1>1, <2>1, <2>2, BoundsAssumption DEF DropInv, Outlived
  <1>12. CASE UNCHANGED vars
    BY <1>1, <1>12 DEF vars, DropInv, Outlived, Pending
  <1> QED
    BY <1>2, <1>4, <1>5, <1>6, <1>7, <1>8, <1>9, <1>10, <1>11, <1>12 DEF Next, RequestStep

LEMMA InitExpiry == ServedAlone /\ Init => EInv
  <1> SUFFICES ASSUME ServedAlone, Init PROVE EInv
    OBVIOUS
  <1>1. \A s \in Sessions : Cached(s) = NoCk
    BY Homes DEF Init, Cached, NoEntry
  <1> QED
    BY <1>1, InitAlone DEF Init, EInv, DatesInv, EntriesInv, DropInv

\* Where the requests of a session come one after the other to one pod, and
\* the store answers, a question that is still open is not dropped while its
\* timeout runs: neither eviction nor an older entry makes a look-up clear it
\* (ForgottenOnlyWhenExpired).
THEOREM ForgottenInTime == ASSUME ServedAlone PROVE Spec => ForgottenOnlyWhenExpired
  <1> DEFINE Explained(d, s) ==
        LET ck == store[d][s] IN
        ck # NoCk /\ store'[d][s] = NoCk =>
          \/ claimed'[ck] > claimed[ck]
          \/ now > savedAt[ck] + Timeout
          \/ d \notin Durable
  <1>1. Init => EInv
    BY InitExpiry
  <1>2. EInv /\ [Next]_vars => EInv'
    BY StepAlone, DatesStep, EntriesStep, DropStep DEF EInv
  <1>3. ASSUME EInv, [Next]_vars, NEW d \in Stores, NEW s \in Sessions,
               store[d][s] # NoCk, store'[d][s] = NoCk
        PROVE  \/ claimed'[store[d][s]] > claimed[store[d][s]]
               \/ now > savedAt[store[d][s]] + Timeout
               \/ d \notin Durable
    <2>1. TypeOK /\ KindsInv /\ AloneInv /\ claimed \in [Chats -> Nat]
      BY <1>3 DEF EInv, AInv, Typed, TypeOK
    <2>2. ASSUME NEW r \in Requests, SaveInStore(r) PROVE FALSE
      <3>1. r \in Chats /\ StoreFor(r) \in Stores /\ sess[r] \in Sessions
        BY <2>1, <2>2, AtHome DEF SaveInStore, KindsInv
      <3>2. store' = [store EXCEPT ![StoreFor(r)][sess[r]] = r]
        BY <2>2 DEF SaveInStore, ServedAlone
      <3> QED
        BY <1>3, <2>1, <3>1, <3>2, StoreChanged, RequestsAssumption
    <2>3. ASSUME NEW r \in Requests, WriteTombstone(r)
          PROVE  \/ claimed'[store[d][s]] > claimed[store[d][s]]
                 \/ now > savedAt[store[d][s]] + Timeout
      <3>1. StoreFor(r) \in Stores /\ sess[r] \in Sessions /\ pc[r] = "purge"
        BY <2>1, <2>3, AtHome DEF WriteTombstone
      <3>2. store' = [store EXCEPT ![StoreFor(r)][sess[r]] = NoCk]
        BY <2>3 DEF WriteTombstone, ServedAlone
      <3>3. d = StoreFor(r) /\ s = sess[r]
        BY <1>3, <2>1, <3>1, <3>2, StoreChanged
      <3>4. store[d][s] = Pending(s)
        BY <2>1, <3>3, AtHome
      <3>5. CASE got[r] = NoCk
        BY <1>3, <3>1, <3>3, <3>4, <3>5 DEF EInv, DropInv, Outlived
      <3>6. CASE got[r] # NoCk
        <4>1. got[r] = Pending(s) /\ Pending(s) \in Chats
          BY <1>3, <3>1, <3>3, <3>4, <3>6, Saved DEF EInv, AInv, Served, CoherenceInv
        <4>2. claimed' = [claimed EXCEPT ![got[r]] = @ + 1]
          BY <2>3, <3>6 DEF WriteTombstone, Claim
        <4> QED
          BY <2>1, <3>4, <4>1, <4>2
      <3> QED
        BY <3>5, <3>6
    <2>4. ASSUME NEW p \in Pods, Restart(p) PROVE d \notin Durable
      BY <1>3, <2>4 DEF Restart
    <2>5. store' # store
      BY <1>3
    <2> QED
      BY <1>3, <2>2, <2>3, <2>4, <2>5
      DEF Next, vars, Arrive, RequestStep, SaveInMemory, LookInMemory, LookInStore, CacheLocally,
          DropEntry, CallAgent, Tick
  <1>4. EInv /\ [Next]_vars => [\A d \in Stores, s \in Sessions : Explained(d, s)]_vars
    BY <1>3
  <1> QED
    BY <1>1, <1>2, <1>4, PTL DEF Spec, ForgottenOnlyWhenExpired

----------------------------------------------------------------------------
(* That a request is answered: it can always go on, and each of its steps  *)
(* brings it nearer to its end.                                            *)

\* Every set of natural numbers that is not empty has a smallest one.
LEMMA Smallest ==
  ASSUME NEW T \in SUBSET Nat, T # {} PROVE \E m \in T : \A k \in T : m <= k
  <1> DEFINE I == {1 .. k : k \in T}
             R == StrictSubsetOrdering(Nat)
  <1>1. I \subseteq FiniteSubsetsOf(Nat) /\ I # {}
    <2>1. ASSUME NEW k \in T PROVE 1 .. k \in FiniteSubsetsOf(Nat)
      <3>1. IsFiniteSet(1 .. k) /\ 1 .. k \subseteq Nat
        BY FS_Interval
      <3> QED
        BY <3>1 DEF FiniteSubsetsOf
    <2> QED
      BY <2>1
  <1>2. PICK x \in I : \A y \in I : ~(<<y, x>> \in R)
    BY <1>1, FS_StrictSubsetOrderingWellFounded, WFMin
  <1>3. PICK m \in T : x = 1 .. m
    OBVIOUS
  <1>4. ASSUME NEW k \in T, k < m PROVE FALSE
    <2>1. 1 .. k \in SUBSET Nat /\ 1 .. m \in SUBSET Nat
      OBVIOUS
    <2>2. 1 .. k \subseteq 1 .. m
      BY <1>4
    <2>3. m \in 1 .. m /\ m \notin 1 .. k
      BY <1>4
    <2>4. <<1 .. k, 1 .. m>> \in R
      BY <2>1, <2>2, <2>3 DEF StrictSubsetOrdering
    <2> QED
      BY <1>2, <1>3, <2>4
  <1> QED
    BY <1>4

\* saveInterruptState finds an entry to evict whenever the map is full.
LEMMA SomethingIsKept == ASSUME TypeOK, NEW p \in Pods PROVE Kept(p) # {}
  <1>1. CASE ~(Cardinality(Retained(p)) < MaxEntries)
    <2>1. Retained(p) # {}
      BY <1>1, FS_EmptySet, BoundsAssumption
    <2> DEFINE T == {mem[p][s].exp : s \in Retained(p)}
    <2>2. \A s \in Retained(p) : s \in Sessions /\ mem[p][s].exp \in Nat
      BY DEF TypeOK, Entry, Retained
    <2>3. T \in SUBSET Nat /\ T # {}
      BY <2>1, <2>2
    <2>4. PICK m \in T : \A k \in T : m <= k
      BY <2>3, Smallest
    <2>5. PICK s \in Retained(p) : m = mem[p][s].exp
      OBVIOUS
    <2>6. s \in Oldest(p)
      BY <2>4, <2>5 DEF Oldest
    <2> QED
      BY <1>1, <2>6 DEF Kept
  <1> QED
    BY <1>1 DEF Kept

\* The guards of RequestStep.
CanGoOn(r) ==
  \/ pc[r] = "saving" /\ Kept(pod[r]) # {}
  \/ pc[r] \in {"storing", "look", "fetch", "cache", "drop", "purge", "call"}

\* No request waits for another one, nor for room in the map.
THEOREM RequestsGoOn == Spec => [](\A r \in Requests : InFlight(r) => CanGoOn(r))
  <1>1. TypeOK => \A r \in Requests : InFlight(r) => CanGoOn(r)
    BY SomethingIsKept DEF TypeOK, PC, InFlight, CanGoOn
  <1> QED
    BY TypeCorrect, <1>1, PTL

\* The steps that a request may still have to take: it looks a state up twice.
Distance(l) ==
  CASE l = "look" -> 6 [] l = "fetch" -> 5 [] l = "cache" -> 4 [] l = "drop" -> 3
    [] l \in {"saving", "purge"} -> 2 [] l \in {"storing", "call"} -> 1
    [] OTHER -> 0

Ahead(r) == IF InFlight(r) THEN Distance(pc[r]) + (IF phase[r] = 1 THEN 6 ELSE 0) ELSE 0

Nears ==
  \A r \in Requests :
    /\ InFlight(r) => Ahead(r)' <= Ahead(r)
    /\ RequestStep(r) => Ahead(r)' < Ahead(r)

LEMMA FoundNears ==
  ASSUME Typed, NEW r \in Requests, NEW ck, Found(r, ck),
         pc[r] \in {"look", "fetch", "cache"}
  PROVE  Ahead(r)' < Ahead(r)
  <1>1. phase[r] \in {1, 2} /\ phase \in [Requests -> {1, 2}] /\ pc \in [Requests -> PC]
    BY DEF Typed, TypeOK
  <1>2. CASE ck = NoCk
    BY <1>1, <1>2 DEF Found, Goto, Ahead, InFlight, Distance
  <1>3. CASE ck # NoCk
    BY <1>1, <1>3 DEF Found, AfterFound, Goto, Ahead, InFlight, Distance
  <1> QED
    BY <1>2, <1>3

LEMMA OwnStepNears ==
  ASSUME Typed, NEW r \in Requests, RequestStep(r) PROVE Ahead(r)' < Ahead(r)
  <1>1. phase[r] \in {1, 2} /\ pc \in [Requests -> PC]
    BY DEF Typed, TypeOK
  <1> USE DEF Goto, Ahead, InFlight, Distance
  <1>2. CASE SaveInMemory(r)
    BY <1>1, <1>2 DEF SaveInMemory
  <1>3. CASE SaveInStore(r)
    BY <1>1, <1>3 DEF SaveInStore
  <1>4. CASE LookInMemory(r)
    BY <1>1, <1>4, FoundNears DEF LookInMemory
  <1>5. CASE LookInStore(r)
    BY <1>1, <1>5, FoundNears DEF LookInStore
  <1>6. CASE CacheLocally(r)
    BY <1>6, FoundNears DEF CacheLocally
  <1>7. CASE DropEntry(r)
    BY <1>1, <1>7 DEF DropEntry
  <1>8. CASE WriteTombstone(r) \/ CallAgent(r)
    BY <1>1, <1>8 DEF WriteTombstone, Claim, CallAgent
  <1> QED
    BY <1>2, <1>3, <1>4, <1>5, <1>6, <1>7, <1>8 DEF RequestStep

\* What is not a request's own step leaves it where it is, or ends it.
LEMMA OthersLeaveIt ==
  ASSUME Typed, [Next]_vars, NEW r \in Requests, InFlight(r), ~RequestStep(r)
  PROVE  pc'[r] = "dead" \/ UNCHANGED <<pc[r], phase[r]>>
  <1>1. pc \in [Requests -> PC] /\ phase \in [Requests -> {1, 2}]
    BY DEF Typed, TypeOK
  <1>2. ASSUME NEW q \in Requests, Arrive(q)
        PROVE  UNCHANGED <<pc[r], phase[r]>>
    BY <1>1, <1>2 DEF Arrive, Goto, InFlight
  <1>3. ASSUME NEW q \in Requests, RequestStep(q)
        PROVE  UNCHANGED <<pc[r], phase[r]>>
    <2>1. q # r
      BY <1>3
    <2> QED
      BY <1>1, <1>3, <2>1
      DEF RequestStep, SaveInMemory, SaveInStore, LookInMemory, LookInStore, CacheLocally,
          DropEntry, WriteTombstone, CallAgent, Claim, Found, Goto
  <1>4. ASSUME NEW p \in Pods, Restart(p) PROVE pc'[r] \in {"dead", pc[r]} /\ UNCHANGED phase
    BY <1>4 DEF Restart
  <1>5. CASE Tick \/ UNCHANGED vars
    BY <1>5 DEF Tick, vars
  <1> QED
    BY <1>2, <1>3, <1>4, <1>5 DEF Next

\* Requests end: with each step of its own a request has fewer ahead of it, at
\* most twelve to begin with, and what others do adds none.
THEOREM RequestsNear == Spec => [][Nears]_vars
  <1>1. Typed /\ [Next]_vars => Nears
    <2> SUFFICES ASSUME Typed, [Next]_vars, NEW r \in Requests
                 PROVE  /\ InFlight(r) => Ahead(r)' <= Ahead(r)
                        /\ RequestStep(r) => Ahead(r)' < Ahead(r)
      BY DEF Nears
    <2>1. /\ Ahead(r) \in 0 .. 12 /\ Ahead(r)' \in 0 .. 12
      BY StepTyped DEF Typed, TypeOK, Ahead, Distance
    <2>2. RequestStep(r) => Ahead(r)' < Ahead(r)
      BY OwnStepNears
    <2>3. InFlight(r) /\ ~RequestStep(r) => Ahead(r)' <= Ahead(r)
      BY <2>1, OthersLeaveIt DEF Ahead, InFlight
    <2> QED
      BY <2>1, <2>2, <2>3
  <1>2. Spec => []Typed
    BY InitTyped, StepTyped, PTL DEF Spec
  <1> QED
    BY <1>1, <1>2, PTL DEF Spec
============================================================================
