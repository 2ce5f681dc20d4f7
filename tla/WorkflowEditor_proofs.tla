----------------------- MODULE WorkflowEditor_proofs ------------------------
(***************************************************************************)
(* Proofs about WorkflowEditor, for any number of saves, of polled runs    *)
(* and of edits.                                                           *)
(***************************************************************************)
EXTENDS WorkflowEditor, TLAPS

\* The canvas is locked for a run only; the other half is the property.
LockedForRun == (locked => isExecuting) /\ LockedOnlyWhileRunning

\* Contents come out of made, so that one just made is nowhere yet.  While the
\* canvas is being replaced the save service does not listen, so that a template
\* that waits to replace it is still new.
Fresh ==
  /\ doc <= made /\ draft <= made /\ loaded <= made
  /\ \A s \in Saves : json[s] <= made
  /\ at = "loading" => command = "reload"
  /\ at = "replacing" => ~listening
  /\ at = "replacing" /\ command = "template" =>
       /\ doc # loaded /\ draft # loaded /\ loaded # 0
       /\ \A s \in Saves : json[s] # loaded

\* Something will bring the canvas to the server.
OnItsWay ==
  \/ low \/ high \/ at \in {"replacing", "placed"}
  \/ \E s \in Saves : save[s] = "serialising" \/ (save[s] = "sent" /\ json[s] = doc)

\* As long as the canvas is listened to, what the server does not have is on its
\* way, and a save that the server has answered for this canvas has not been
\* undone.
NothingLost ==
  /\ doc # draft /\ listening /\ race = {} /\ ~savingError => OnItsWay
  /\ listening => \A s \in Saves : save[s] = "stored" /\ json[s] = doc =>
                    draft = doc \/ race # {}

IInv == TypeOK /\ LockedForRun /\ Fresh /\ NothingLost

----------------------------------------------------------------------------
LEMMA InitInv == Init => IInv
  <1> SUFFICES ASSUME Init PROVE IInv
    OBVIOUS
  <1>1. TypeOK
    <2>1. 0 \in Contents
      BY EditsAssumption DEF Contents
    <2>2. own = None <=> at # "saving"
      BY NoneAssumption DEF Init
    <2> QED
      BY <2>1, <2>2 DEF Init, TypeOK, SavePC, Races, Commands, Steps, RunnerPC, TestRunState
  <1>2. LockedForRun
    BY DEF Init, LockedForRun, LockedOnlyWhileRunning
  <1>3. Fresh
    BY DEF Init, Fresh
  <1>4. NothingLost
    BY DEF Init, NothingLost
  <1> QED
    BY <1>1, <1>2, <1>3, <1>4 DEF IInv

\* The actions that belong to saves, and those of the user's commands.
SaveActions(s) ==
  \/ HighTimer(s) \/ Serialised(s) \/ Stored(s) \/ Saved(s) \/ SaveFails(s)
  \/ SaveFirst(s)

CommandActions ==
  \/ \E c \in Commands : Command(c)
  \/ ClearFirst \/ Invalid \/ Load \/ LoadFails \/ Loaded \/ TakeTemplate
  \/ Replaced \/ ReplaceFails \/ SaveTemplate

LEMMA Kinds ==
  ASSUME [Next]_vars
  PROVE  \/ \E moved \in BOOLEAN : Edit(moved)
         \/ LowTimer
         \/ \E s \in Saves : SaveActions(s)
         \/ PauseTestRun \/ ContinueTestRun
         \/ \E r \in Runs : RunStep(r)
         \/ CommandActions
         \/ UNCHANGED vars
  BY DEF Next, Saving, SaveStep, SaveActions, CommandActions

----------------------------------------------------------------------------
LEMMA EndSaveType ==
  ASSUME TypeOK, NEW s \in Saves, NEW next \in {"saved", "idle"}, EndSave(s, next)
  PROVE  /\ command' \in Commands \cup {"none"} /\ at' \in Steps
         /\ own' \in Saves \cup {None}
         /\ command' = "none" <=> at' = "idle"
         /\ own' = None <=> at' # "saving"
         /\ saving' \in BOOLEAN
  <1>1. CASE own = s
    BY <1>1, NoneAssumption DEF TypeOK, EndSave, Steps, Commands
  <1>2. CASE own # s
    BY <1>2, NoneAssumption DEF TypeOK, EndSave, OnSaved, Steps, Commands
  <1> QED
    BY <1>1, <1>2

LEMMA TypeSave ==
  ASSUME TypeOK, NEW s \in Saves, SaveActions(s) PROVE TypeOK'
  <1> USE DEF TypeOK
  <1>0. 0 \in Contents
    BY EditsAssumption DEF Contents
  <1>2. CASE HighTimer(s)
    BY <1>2 DEF HighTimer, Refused, BeginSave, OnSaved, Races, SavePC, Steps, testRuns
  <1>3. CASE Serialised(s)
    BY <1>3 DEF Serialised, SavePC, canvas, user, testRuns
  <1>4. CASE Stored(s)
    BY <1>4 DEF Stored, SavePC, Races, canvas, user, testRuns
  <1>5. CASE Saved(s)
    <2>1. save' \in [Saves -> SavePC] /\ json' \in [Saves -> Contents]
      BY <1>0, <1>5 DEF Saved, EndSave, SavePC
    <2>2. EndSave(s, "saved")
      BY <1>5 DEF Saved
    <2> QED
      BY <1>5, <2>1, <2>2, EndSaveType DEF Saved, Races, canvas
  <1>6. CASE SaveFails(s)
    <2>1. save' \in [Saves -> SavePC] /\ json' \in [Saves -> Contents]
      BY <1>0, <1>6 DEF SaveFails, EndSave, SavePC
    <2>2. PICK next \in {"saved", "idle"} : EndSave(s, next)
      BY <1>6 DEF SaveFails
    <2> QED
      BY <1>6, <2>1, <2>2, EndSaveType DEF SaveFails, canvas, testRuns
  <1>7. CASE SaveFirst(s)
    BY <1>7, NoneAssumption
    DEF SaveFirst, Refused, BeginSave, SavePC, Races, Steps, canvas, testRuns
  <1> QED
    BY <1>2, <1>3, <1>4, <1>5, <1>6, <1>7 DEF SaveActions

LEMMA SetStateType ==
  ASSUME NEW state \in TestRunState, NEW pcs \in [Runs -> RunnerPC], SetState(state, pcs)
  PROVE  testRunState' \in TestRunState /\ runner' \in [Runs -> RunnerPC]
  BY DEF SetState, RunnerPC, Polling

LEMMA TypeRun ==
  ASSUME TypeOK, NEW r \in Runs, RunStep(r) PROVE TypeOK'
  <1> USE DEF TypeOK, To
  <1>0. \A p \in RunnerPC : To(r, p) \in [Runs -> RunnerPC]
    OBVIOUS
  <1>s. {"executing", "paused", "other"} = TestRunState
        /\ {"idle", "starting", "polling", "sleeping", "held"} \subseteq RunnerPC
    BY DEF TestRunState, RunnerPC, Polling
  <1>1. CASE TestRun(r)
    BY <1>0, <1>s, <1>1, NoneAssumption
    DEF TestRun, SetView, Commands, Steps, canvas, saver
  <1>2. CASE Started(r)
    BY <1>0, <1>s, <1>2, SetStateType DEF Started, canvas, saver, user
  <1>3. CASE Observed(r)
    BY <1>0, <1>s, <1>3, SetStateType DEF Observed, SetView, canvas, saver, user
  <1>4. CASE StillRunning(r)
    BY <1>0, <1>s, <1>4 DEF StillRunning, canvas, saver, user
  <1>5. CASE PollAgain(r)
    BY <1>0, <1>s, <1>5 DEF PollAgain, canvas, saver, user
  <1>6. CASE Finished(r)
    BY <1>0, <1>s, <1>6, SetStateType DEF Finished, SetView, canvas, saver, user
  <1>7. CASE RunFails(r)
    BY <1>0, <1>s, <1>7, SetStateType DEF RunFails, SetView, canvas, saver, user
  <1>8. CASE Refreshed(r)
    BY <1>8 DEF Refreshed, canvas, saver, user
  <1>9. CASE NotStarted(r)
    BY <1>0, <1>s, <1>9, SetStateType DEF NotStarted, canvas, saver, user
  <1> QED
    BY <1>1, <1>2, <1>3, <1>4, <1>5, <1>6, <1>7, <1>8, <1>9 DEF RunStep

LEMMA TypeCommand ==
  ASSUME TypeOK, CommandActions PROVE TypeOK'
  <1> USE EditsAssumption, NoneAssumption DEF TypeOK, Commands, Steps, Contents
  <1>s. "other" \in TestRunState
    BY DEF TestRunState
  <1>1. CASE \E c \in Commands : Command(c)
    BY <1>1 DEF Command, canvas, saver, testRuns
  <1>2. CASE ClearFirst
    BY <1>s, <1>2, SetStateType DEF ClearFirst, ClearTestRun, SetView, canvas, saver
  <1>3. CASE Invalid
    BY <1>3 DEF Invalid, canvas, saver, testRuns
  <1>4. CASE Load
    BY <1>4 DEF Load, canvas, saver, testRuns
  <1>5. CASE LoadFails
    BY <1>5 DEF LoadFails, canvas, saver, testRuns
  <1>6. CASE Loaded
    BY <1>6 DEF Loaded, canvas, saver, testRuns
  <1>7. CASE TakeTemplate
    <2>1. made + 1 \in Contents
      BY <1>7 DEF TakeTemplate
    <2> QED
      BY <1>7, <2>1 DEF TakeTemplate, saver, testRuns
  <1>8. CASE Replaced
    <2>1. race' \subseteq Races
      BY <1>8 DEF Replaced, Races
    <2>2. listening' \in BOOLEAN
      BY <1>8, Zenon DEF Replaced, readonly
    <2>3. at' \in {"placed", "idle"} /\ own' = own /\ at = "replacing"
          /\ (at' = "placed" => command' = command)
          /\ (at' = "idle" => command' = "none")
      BY <1>8 DEF Replaced
    <2> QED
      BY <1>8, <2>1, <2>2, <2>3 DEF Replaced, testRuns
  <1>9. CASE SaveTemplate
    BY <1>s, <1>9, SetStateType DEF SaveTemplate, ClearTestRun, SetView, canvas, saver
  <1>10. CASE ReplaceFails
    BY <1>10 DEF ReplaceFails, saver, testRuns
  <1> QED
    BY <1>1, <1>2, <1>3, <1>4, <1>5, <1>6, <1>7, <1>8, <1>9, <1>10 DEF CommandActions

LEMMA StepTypeOK == TypeOK /\ [Next]_vars => TypeOK'
  <1> SUFFICES ASSUME TypeOK, [Next]_vars PROVE TypeOK'
    OBVIOUS
  <1>1. ASSUME NEW moved \in BOOLEAN, Edit(moved) PROVE TypeOK'
    <2>1. made + 1 \in Contents
      BY <1>1, EditsAssumption DEF TypeOK, Edit, Contents
    <2>2. low' \in BOOLEAN /\ high' \in BOOLEAN /\ saving' \in BOOLEAN
      BY <1>1, Zenon DEF TypeOK, Edit
    <2> QED
      BY <1>1, <2>1, <2>2 DEF TypeOK, Edit, user, testRuns
  <1>2. CASE LowTimer
    BY <1>2 DEF TypeOK, LowTimer, saver, user, testRuns
  <1>3. CASE PauseTestRun \/ ContinueTestRun
    BY <1>3, SetStateType
    DEF TypeOK, PauseTestRun, ContinueTestRun, TestRunState, canvas, saver, user
  <1>4. CASE UNCHANGED vars
    BY <1>4 DEF TypeOK, vars, canvas, saver, user, testRuns
  <1> QED
    BY <1>1, <1>2, <1>3, <1>4, Kinds, TypeSave, TypeRun, TypeCommand

----------------------------------------------------------------------------
\* A step that touches neither runs nor their display, but may unlock.
LEMMA SameRuns ==
  ASSUME LockedForRun, UNCHANGED <<runner, testRunState, isExecuting, nameless>>,
         locked' = locked \/ locked' = FALSE
  PROVE  LockedForRun'
  BY DEF LockedForRun, LockedOnlyWhileRunning

\* After SetState some run is being followed, if it was, and held ones are let go.
LEMMA SetStateRuns ==
  ASSUME NEW state \in TestRunState, NEW pcs \in [Runs -> RunnerPC], SetState(state, pcs)
  PROVE  /\ \A r \in Runs : pcs[r] \in Polling => runner'[r] \in Polling
         /\ state # "paused" => \A r \in Runs : runner'[r] # "held"
         /\ testRunState' = state
  BY DEF SetState, Polling

LEMMA RunsRun ==
  ASSUME TypeOK, LockedForRun, NEW r \in Runs, RunStep(r) PROVE LockedForRun'
  <1> USE DEF TypeOK, To, LockedForRun, LockedOnlyWhileRunning
  <1>s. {"executing", "paused", "other"} = TestRunState
        /\ {"idle", "starting", "polling", "sleeping", "held"} = RunnerPC
        /\ {"starting", "polling", "sleeping", "held"} = Polling
    BY DEF TestRunState, RunnerPC, Polling
  <1>0. \A p \in RunnerPC : To(r, p) \in [Runs -> RunnerPC] /\ To(r, p)[r] = p
    OBVIOUS
  <1>1. CASE TestRun(r)
    <2>1. CASE saving
      BY <1>1, <2>1, SameRuns DEF TestRun
    <2>2. CASE ~saving
      BY <1>1, <1>s, <2>2 DEF TestRun, SetView
    <2> QED
      BY <2>1, <2>2
  <1>2. CASE Started(r)
    BY <1>0, <1>s, <1>2, SetStateRuns DEF Started
  <1>3. CASE Observed(r)
    BY <1>0, <1>s, <1>3, SetStateRuns DEF Observed, SetView
  <1>4. CASE StillRunning(r)
    BY <1>s, <1>4 DEF StillRunning
  <1>5. CASE PollAgain(r)
    BY <1>s, <1>5 DEF PollAgain
  <1>6. CASE Finished(r)
    BY <1>0, <1>s, <1>6, SetStateRuns DEF Finished, SetView
  <1>7. CASE RunFails(r)
    BY <1>0, <1>s, <1>7, SetStateRuns DEF RunFails, SetView
  <1>8. CASE Refreshed(r)
    BY <1>8, SameRuns DEF Refreshed
  <1>9. CASE NotStarted(r)
    BY <1>0, <1>s, <1>9, SetStateRuns DEF NotStarted
  <1> QED
    BY <1>1, <1>2, <1>3, <1>4, <1>5, <1>6, <1>7, <1>8, <1>9 DEF RunStep

LEMMA StepLockedForRun == TypeOK /\ LockedForRun /\ [Next]_vars => LockedForRun'
  <1> SUFFICES ASSUME TypeOK, LockedForRun, [Next]_vars PROVE LockedForRun'
    OBVIOUS
  <1>s. {"executing", "paused", "other"} = TestRunState /\ runner \in [Runs -> RunnerPC]
    BY DEF TestRunState, TypeOK
  <1>1. CASE \E moved \in BOOLEAN : Edit(moved)
    BY <1>1, SameRuns DEF Edit, testRuns
  <1>2. CASE LowTimer
    BY <1>2, SameRuns DEF LowTimer, testRuns
  <1>3. ASSUME NEW s \in Saves, SaveActions(s) PROVE LockedForRun'
    BY <1>3, SameRuns
    DEF SaveActions, HighTimer, Serialised, Stored, Saved, SaveFails, SaveFirst, testRuns
  <1>4. CASE PauseTestRun
    BY <1>s, <1>4, SetStateRuns
    DEF PauseTestRun, LockedForRun, LockedOnlyWhileRunning, Polling
  <1>5. CASE ContinueTestRun
    BY <1>s, <1>5, SetStateRuns DEF ContinueTestRun, LockedForRun, LockedOnlyWhileRunning
  <1>6. ASSUME NEW r \in Runs, RunStep(r) PROVE LockedForRun'
    BY <1>6, RunsRun
  <1>7. CASE CommandActions
    <2>1. CASE ClearFirst \/ SaveTemplate
      BY <1>s, <2>1, SetStateRuns
      DEF ClearFirst, SaveTemplate, ClearTestRun, SetView, LockedForRun, LockedOnlyWhileRunning
    <2>2. CASE ~(ClearFirst \/ SaveTemplate)
      BY <1>7, <2>2, SameRuns
      DEF CommandActions, Command, Invalid, Load, LoadFails, Loaded, TakeTemplate,
          Replaced, ReplaceFails, testRuns
    <2> QED
      BY <2>1, <2>2
  <1>8. CASE UNCHANGED vars
    BY <1>8, SameRuns DEF vars, testRuns
  <1> QED
    BY <1>1, <1>2, <1>3, <1>4, <1>5, <1>6, <1>7, <1>8, Kinds

----------------------------------------------------------------------------
\* Neither a save nor a run nor a command has begun to replace the canvas.
LEMMA SaveKeepsSteps ==
  ASSUME TypeOK, NEW s \in Saves, SaveActions(s)
  PROVE  /\ \A p \in {"loading", "replacing", "placed"} : at' = p <=> at = p
         /\ at' \in {"loading", "replacing", "placed"} => command' = command
  <1>1. CASE HighTimer(s)
    BY <1>1 DEF HighTimer, OnSaved
  <1>2. CASE Serialised(s) \/ Stored(s)
    BY <1>2 DEF Serialised, Stored, user
  <1>3. ASSUME NEW next \in {"saved", "idle"}, EndSave(s, next)
        PROVE  /\ \A p \in {"loading", "replacing", "placed"} : at' = p <=> at = p
               /\ at' \in {"loading", "replacing", "placed"} => command' = command
    BY <1>3, NoneAssumption DEF TypeOK, EndSave, OnSaved
  <1>4. CASE SaveFirst(s)
    BY <1>4 DEF SaveFirst
  <1> QED
    BY <1>1, <1>2, <1>3, <1>4 DEF SaveActions, Saved, SaveFails

LEMMA SaveFresh ==
  ASSUME TypeOK, Fresh, NEW s \in Saves, SaveActions(s) PROVE Fresh'
  <1> USE DEF TypeOK, Fresh, Contents
  <1>1. doc' = doc /\ made' = made /\ loaded' = loaded /\ listening' = listening
    BY DEF SaveActions, HighTimer, Serialised, Stored, Saved, SaveFails, SaveFirst,
           canvas, user
  <1>2. draft' = draft \/ draft' = json[s]
    BY DEF SaveActions, HighTimer, Serialised, Stored, Saved, SaveFails, SaveFirst
  <1>3. \A t \in Saves : json'[t] \in {json[t], doc} \/ (t = s /\ json'[t] = 0)
    BY DEF SaveActions, HighTimer, Serialised, Stored, Saved, SaveFails, SaveFirst, EndSave
  <1> QED
    BY <1>1, <1>2, <1>3, SaveKeepsSteps

LEMMA StepFresh == TypeOK /\ Fresh /\ [Next]_vars => Fresh'
  <1> SUFFICES ASSUME TypeOK, Fresh, [Next]_vars PROVE Fresh'
    OBVIOUS
  <1>0. /\ doc \in Nat /\ draft \in Nat /\ made \in Nat /\ loaded \in Nat
        /\ \A s \in Saves : json[s] \in Nat
    BY EditsAssumption DEF TypeOK, Contents
  <1>1. ASSUME NEW moved \in BOOLEAN, Edit(moved) PROVE Fresh'
    BY <1>0, <1>1 DEF Edit, Fresh, user
  <1>2. CASE LowTimer
    BY <1>2 DEF LowTimer, Fresh, saver, user
  <1>3. ASSUME NEW s \in Saves, SaveActions(s) PROVE Fresh'
    BY <1>3, SaveFresh
  <1>4. CASE PauseTestRun \/ ContinueTestRun
    BY <1>4 DEF PauseTestRun, ContinueTestRun, Fresh, canvas, saver, user
  <1>5. ASSUME NEW r \in Runs, RunStep(r) PROVE Fresh'
    <2>1. CASE TestRun(r)
      BY <2>1 DEF TestRun, Fresh, canvas, saver
    <2> QED
      BY <1>5, <2>1
      DEF RunStep, Started, NotStarted, Observed, StillRunning, PollAgain, Finished,
          RunFails, Refreshed, Fresh, canvas, saver, user
  <1>6. CASE CommandActions
    <2>1. CASE \E c \in Commands : Command(c)
      BY <2>1 DEF Command, Fresh, canvas, saver
    <2>2. CASE ClearFirst \/ Invalid \/ Load \/ LoadFails
      BY <2>2 DEF ClearFirst, Invalid, Load, LoadFails, Fresh, canvas, saver
    <2>3. CASE Loaded
      BY <2>3 DEF Loaded, Fresh, saver
    <2>4. CASE TakeTemplate
      BY <1>0, <2>4 DEF TakeTemplate, Fresh, saver
    <2>5. CASE Replaced
      BY <1>0, <2>5 DEF Replaced, Fresh
    <2>6. CASE SaveTemplate
      BY <2>6 DEF SaveTemplate, Fresh, saver
    <2>7. CASE ReplaceFails
      BY <1>0, <2>7 DEF ReplaceFails, Fresh, saver
    <2> QED
      BY <1>6, <2>1, <2>2, <2>3, <2>4, <2>5, <2>6, <2>7 DEF CommandActions
  <1>7. CASE UNCHANGED vars
    BY <1>7 DEF vars, canvas, saver, user, Fresh
  <1> QED
    BY <1>1, <1>2, <1>3, <1>4, <1>5, <1>6, <1>7, Kinds

----------------------------------------------------------------------------
\* A step that leaves the canvas, the timers and the saves alone.
LEMMA SameSaves ==
  ASSUME NothingLost, UNCHANGED <<doc, draft, save, json, race, savingError, listening>>,
         low => low' \/ high', high => high',
         at \in {"replacing", "placed"} => at' = at
  PROVE  NothingLost'
  BY DEF NothingLost, OnItsWay

LEMMA SaveNothingLost ==
  ASSUME TypeOK, NothingLost, NEW s \in Saves, SaveActions(s) PROVE NothingLost'
  <1> USE DEF NothingLost, OnItsWay, TypeOK
  <1>0. \A p \in {"loading", "replacing", "placed"} : at' = p <=> at = p
    BY SaveKeepsSteps
  <1>1. CASE HighTimer(s)
    <2>1. CASE readonly
      BY <1>1, <2>1 DEF HighTimer, Refused
    <2>2. CASE ~readonly
      BY <1>1, <2>2 DEF HighTimer, BeginSave
    <2> QED
      BY <2>1, <2>2
  <1>2. CASE Serialised(s)
    BY <1>2 DEF Serialised, canvas
  <1>3. CASE Stored(s)
    <2>1. CASE json[s] = doc
      BY <1>3, <2>1 DEF Stored, canvas
    <2>2. CASE json[s] # doc
      BY <1>3, <2>2 DEF Stored, canvas, user
    <2> QED
      BY <2>1, <2>2
  <1>4. CASE Saved(s)
    <2>1. /\ save[s] = "stored" /\ json'[s] = 0 /\ save'[s] = "idle"
          /\ \A t \in Saves \ {s} : save'[t] = save[t] /\ json'[t] = json[t]
          /\ UNCHANGED <<doc, low, high, listening, draft>>
      BY <1>4 DEF Saved, EndSave, canvas
    <2>2. CASE savingError /\ json[s] # doc
      BY <1>4, <2>1, <2>2 DEF Saved
    <2>3. CASE ~(savingError /\ json[s] # doc)
      <3>1. race' = race
        BY <1>4, <2>3 DEF Saved
      <3>2. CASE savingError
        BY <2>1, <2>3, <3>1, <3>2
      <3>3. CASE ~savingError
        BY <1>0, <2>1, <3>1, <3>3
      <3> QED
        BY <3>2, <3>3
    <2> QED
      BY <2>2, <2>3
  <1>5. CASE SaveFails(s)
    BY <1>5 DEF SaveFails, EndSave, Idle, canvas
  <1>6. CASE SaveFirst(s)
    <2>1. CASE readonly
      BY <1>6, <2>1 DEF SaveFirst, Refused, canvas
    <2>2. CASE ~readonly
      BY <1>6, <2>2 DEF SaveFirst, BeginSave, canvas
    <2> QED
      BY <2>1, <2>2
  <1> QED
    BY <1>1, <1>2, <1>3, <1>4, <1>5, <1>6 DEF SaveActions

LEMMA CommandNothingLost ==
  ASSUME TypeOK, Fresh, NothingLost, CommandActions PROVE NothingLost'
  <1>1. CASE \E c \in Commands : Command(c)
    BY <1>1, SameSaves DEF Command, TypeOK, canvas, saver
  <1>2. CASE ClearFirst \/ Invalid \/ Load \/ LoadFails
    BY <1>2, SameSaves DEF ClearFirst, Invalid, Load, LoadFails, canvas, saver
  <1>3. CASE Loaded
    BY <1>3 DEF Loaded, NothingLost, saver
  <1>4. CASE TakeTemplate
    BY <1>4 DEF TakeTemplate, NothingLost, saver
  <1>5. CASE Replaced
    <2>1. CASE command = "template"
      BY <1>5, <2>1 DEF Replaced, NothingLost, OnItsWay, Fresh
    <2>2. CASE command # "template"
      BY <1>5, <2>2 DEF Replaced, NothingLost
    <2> QED
      BY <2>1, <2>2
  <1>6. CASE SaveTemplate
    BY <1>6 DEF SaveTemplate, NothingLost, OnItsWay, saver
  <1>7. CASE ReplaceFails
    BY <1>7 DEF ReplaceFails, NothingLost, Fresh, saver
  <1> QED
    BY <1>1, <1>2, <1>3, <1>4, <1>5, <1>6, <1>7 DEF CommandActions

LEMMA StepNothingLost == TypeOK /\ Fresh /\ NothingLost /\ [Next]_vars => NothingLost'
  <1> SUFFICES ASSUME TypeOK, Fresh, NothingLost, [Next]_vars PROVE NothingLost'
    OBVIOUS
  <1>1. ASSUME NEW moved \in BOOLEAN, Edit(moved) PROVE NothingLost'
    <2>1. \A s \in Saves : json'[s] # doc'
      BY <1>1, EditsAssumption DEF Edit, Fresh, TypeOK, Contents
    <2>2. listening' => low' \/ high'
      BY <1>1, Zenon DEF Edit
    <2> QED
      BY <2>1, <2>2 DEF NothingLost, OnItsWay
  <1>2. CASE LowTimer
    BY <1>2, SameSaves DEF LowTimer, saver, user
  <1>3. ASSUME NEW s \in Saves, SaveActions(s) PROVE NothingLost'
    BY <1>3, SaveNothingLost
  <1>4. CASE PauseTestRun \/ ContinueTestRun
    BY <1>4, SameSaves DEF PauseTestRun, ContinueTestRun, canvas, saver, user
  <1>5. ASSUME NEW r \in Runs, RunStep(r) PROVE NothingLost'
    <2>1. CASE TestRun(r)
      BY <2>1, SameSaves DEF TestRun, canvas, saver
    <2> QED
      BY <1>5, <2>1, SameSaves
      DEF RunStep, Started, NotStarted, Observed, StillRunning, PollAgain, Finished,
          RunFails, Refreshed, canvas, saver, user
  <1>6. CASE CommandActions
    BY <1>6, CommandNothingLost
  <1>7. CASE UNCHANGED vars
    BY <1>7, SameSaves DEF vars, canvas, saver, user
  <1> QED
    BY <1>1, <1>2, <1>3, <1>4, <1>5, <1>6, <1>7, Kinds

----------------------------------------------------------------------------
LEMMA Invariant == Spec => []IInv
  <1>1. IInv /\ [Next]_vars => IInv'
    BY StepTypeOK, StepLockedForRun, StepFresh, StepNothingLost DEF IInv
  <1> QED
    BY InitInv, <1>1, PTL DEF Spec

\* Every variable keeps its type, however many saves and runs there are.
THEOREM TypeCorrect == Spec => []TypeOK
  <1>1. IInv => TypeOK
    BY DEF IInv
  <1> QED
    BY Invariant, <1>1, PTL

\* The canvas is locked only while some run is followed, or after a reply that
\* named none, and a run is shown only while one is followed.
THEOREM LockIsReleased == Spec => []LockedOnlyWhileRunning
  <1>1. IInv => LockedOnlyWhileRunning
    BY DEF IInv, LockedForRun
  <1> QED
    BY Invariant, <1>1, PTL

\* When all has come to rest, the server has what is on the canvas, but for
\* the ways in which the code loses it.
THEOREM SavedUnlessRaced == Spec => []UnsavedOnlyIfRaced
  <1>1. IInv => UnsavedOnlyIfRaced
    BY DEF IInv, NothingLost, OnItsWay, UnsavedOnlyIfRaced, Quiet, Idle
  <1> QED
    BY Invariant, <1>1, PTL

----------------------------------------------------------------------------
(* That whoever waits is woken: something under way will do it.            *)

\* Saving is shown while a timer is pending or a save under way, or since a save
\* was refused; and who waits for a save waits as long as it is shown.
SavingInv ==
  /\ saving => low \/ high \/ (\E s \in Saves : ~Idle(s)) \/ "refused" \in race
  /\ at = "waiting" => saving

LEMMA SavingStep == ASSUME TypeOK, SavingInv, [Next]_vars PROVE SavingInv'
  <1> USE DEF SavingInv, Idle
  <1>1. ASSUME NEW moved \in BOOLEAN, Edit(moved) PROVE SavingInv'
    <2>1. listening => low' \/ high'
      BY <1>1, Zenon DEF Edit
    <2> QED
      BY <1>1, <2>1 DEF Edit, user
  <1>2. CASE LowTimer
    BY <1>2 DEF LowTimer, saver, user
  <1>3. ASSUME NEW s \in Saves, SaveActions(s) PROVE SavingInv'
    <2> USE DEF TypeOK, SavePC
    <2>1. CASE HighTimer(s)
      BY <2>1 DEF HighTimer, Refused, BeginSave, OnSaved
    <2>2. CASE Serialised(s)
      BY <2>2 DEF Serialised, canvas, user
    <2>3. CASE Stored(s)
      BY <2>3 DEF Stored, canvas, user
    <2>4. ASSUME NEW next \in {"saved", "idle"}, EndSave(s, next) PROVE SavingInv'
      BY <2>4 DEF EndSave, OnSaved
    <2>5. CASE Saved(s) \/ SaveFails(s)
      BY <2>4, <2>5 DEF Saved, SaveFails
    <2>6. CASE SaveFirst(s)
      BY <2>6 DEF SaveFirst, Refused, BeginSave, canvas
    <2> QED
      BY <1>3, <2>1, <2>2, <2>3, <2>5, <2>6 DEF SaveActions
  <1>4. CASE PauseTestRun \/ ContinueTestRun
    BY <1>4 DEF PauseTestRun, ContinueTestRun, canvas, saver, user
  <1>5. ASSUME NEW r \in Runs, RunStep(r) PROVE SavingInv'
    BY <1>5
    DEF RunStep, TestRun, Started, NotStarted, Observed, StillRunning, PollAgain,
        Finished, RunFails, Refreshed, canvas, saver, user
  <1>6. CASE CommandActions
    BY <1>6
    DEF CommandActions, Command, ClearFirst, Invalid, Load, LoadFails, Loaded,
        TakeTemplate, Replaced, ReplaceFails, SaveTemplate, canvas, saver
  <1>7. CASE UNCHANGED vars
    BY <1>7 DEF vars, canvas, saver, user
  <1> QED
    BY <1>1, <1>2, <1>3, <1>4, <1>5, <1>6, <1>7, Kinds

\* The guards of Saving.
SavingCanStep ==
  \/ low
  \/ \E s \in Saves : high /\ Free(s)
  \/ \E s \in Saves : save[s] \in {"serialising", "sent", "stored"}

\* Who waits for a save to end never waits for nothing: a timer can fire or a
\* save go on, unless a save was refused and left saving on.
THEOREM WaiterIsOwed ==
  ASSUME Saves # {}
  PROVE  Spec => [](at = "waiting" => SavingCanStep \/ "refused" \in race)
  <1>1. Init => SavingInv
    BY DEF Init, SavingInv
  <1>2. IInv /\ SavingInv /\ [Next]_vars => SavingInv'
    BY SavingStep DEF IInv
  <1>3. IInv /\ SavingInv => (at = "waiting" => SavingCanStep \/ "refused" \in race)
    <2> SUFFICES ASSUME IInv, SavingInv, at = "waiting", "refused" \notin race
                 PROVE  SavingCanStep
      OBVIOUS
    <2>1. low \/ high \/ \E s \in Saves : ~Idle(s)
      BY DEF SavingInv
    <2>2. ASSUME NEW s \in Saves, ~Idle(s) PROVE SavingCanStep
      BY <2>2 DEF IInv, TypeOK, SavePC, Idle, SavingCanStep
    <2>3. CASE high /\ \A s \in Saves : Idle(s)
      <3>1. \E s \in Saves : s = CHOOSE t \in Saves : Idle(t)
        BY <2>3
      <3> QED
        BY <2>3, <3>1 DEF SavingCanStep, Free
    <2> QED
      BY <2>1, <2>2, <2>3 DEF SavingCanStep
  <1> QED
    BY Invariant, <1>1, <1>2, <1>3, PTL DEF Spec
=============================================================================
