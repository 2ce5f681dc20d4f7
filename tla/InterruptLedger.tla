-------------------------- MODULE InterruptLedger --------------------------
(***************************************************************************)
(* What the interrupt/resume feature promises a user, whatever happens     *)
(* behind it (docs/wiki/advanced/interrupt-resume.md): every session has   *)
(* at most one pending question, the newest one; a question is answered    *)
(* while it is pending and at most once; it may be forgotten.              *)
(***************************************************************************)
CONSTANTS Sessions, Chats, NoCk

VARIABLES asked,   \* per session, the pending question or NoCk
          raised,  \* the questions ever asked
          spent    \* the questions that were answered

vars == <<asked, raised, spent>>

Init == asked = [s \in Sessions |-> NoCk] /\ raised = {} /\ spent = {}

\* An agent asks for a confirmation; an older question lapses.
Raise(s, ck) ==
  /\ ck \notin raised
  /\ raised' = raised \cup {ck}
  /\ asked' = [asked EXCEPT ![s] = ck]
  /\ UNCHANGED spent

\* The user answers the pending question.
Answer(s) ==
  /\ asked[s] # NoCk
  /\ spent' = spent \cup {asked[s]}
  /\ asked' = [asked EXCEPT ![s] = NoCk]
  /\ UNCHANGED raised

\* Questions expire, or are lost with the process that kept them.
Forget(S) ==
  /\ asked' = [s \in Sessions |-> IF s \in S THEN NoCk ELSE asked[s]]
  /\ UNCHANGED <<raised, spent>>

Next == \/ \E s \in Sessions : Answer(s) \/ \E ck \in Chats : Raise(s, ck)
        \/ \E S \in SUBSET Sessions : Forget(S)

Spec == Init /\ [][Next]_vars

\* A question that was answered is never pending again.
NeverAskedAgain == \A s \in Sessions : asked[s] \notin spent
============================================================================
