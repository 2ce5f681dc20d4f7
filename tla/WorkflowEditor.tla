--------------------------- MODULE WorkflowEditor ---------------------------
(***************************************************************************)
(* The workflow editor of the web front end (packages/workflow/playground):*)
(* the auto-save of the canvas (WorkflowSaveService), the test runs        *)
(* started from it (WorkflowRunService) and the state they share           *)
(* (WorkflowGlobalStateEntity).                                            *)
(*                                                                         *)
(* A content of the canvas is a number: every edit makes a new one.  The   *)
(* server keeps one of them, the draft.  Everything runs on one JavaScript *)
(* thread: an action is the code between two awaits or timer callbacks,    *)
(* and the requests that are under way are served in any order.            *)
(***************************************************************************)
EXTENDS Naturals

CONSTANTS Saves,     \* slots for saves that may be under way together
          Runs,      \* slots for test runs that are polled together
          None,
          MaxEdits   \* bound: contents made after the one first loaded

ASSUME EditsAssumption == MaxEdits \in Nat
ASSUME NoneAssumption == None \notin Saves

VARIABLES doc,          \* content of the canvas
          draft,        \* content the server has
          made,         \* contents made so far
          low, high,    \* pending debounce timers
          listening,    \* the canvas tells the save service of its changes
          save,         \* where each save is
          json,         \* content each save has serialised
          saving, savingError,  \* what the header shows
          race,         \* history: what has come between canvas and draft
          command,      \* the user's command that is under way
          at,           \* how far it has come
          own,          \* the save it waits for
          loaded,       \* the content it has loaded
          runner,       \* where the polling of each test run is
          testRunState,
          isExecuting,
          locked,       \* canvas readonly (PlaygroundConfigEntity)
          nameless,     \* history: executing for a run the reply did not name
          refreshing    \* runs whose final info reload is under way

canvas == <<doc, made, low, high, listening>>
saver == <<draft, save, json, saving, savingError, race>>
user == <<command, at, own, loaded>>
testRuns == <<runner, testRunState, isExecuting, locked, nameless, refreshing>>
vars == <<canvas, saver, user, testRuns>>

Contents == 0 .. MaxEdits
SavePC == {"idle", "serialising", "sent", "stored"}
Races == {"refused", "overtaken"}
Commands == {"testRun", "reload", "template"}
Steps == {"idle", "waiting", "woken", "saving", "saved", "validating",
          "loading", "replacing", "placed"}
Polling == {"starting", "polling", "sleeping", "held"}
RunnerPC == {"idle"} \cup Polling
\* Idle, Canceled, Failed, Succeed and undefined are one here.
TestRunState == {"executing", "paused", "other"}

\* WorkflowGlobalStateEntity.readonly, without the preview of somebody
\* else's workflow, which stays what it is.
readonly == isExecuting

Idle(s) == save[s] = "idle"

\* The slot the next save takes.
Free(s) == Idle(s) /\ s = CHOOSE t \in Saves : Idle(t)

Init ==
  /\ doc = 0 /\ draft = 0 /\ made = 0
  /\ low = FALSE /\ high = FALSE /\ listening = TRUE
  /\ save = [s \in Saves |-> "idle"]
  /\ json = [s \in Saves |-> 0]
  /\ saving = FALSE /\ savingError = FALSE
  /\ race = {}
  /\ command = "none" /\ at = "idle" /\ own = None /\ loaded = 0
  /\ runner = [r \in Runs |-> "idle"]
  /\ testRunState = "other" /\ isExecuting = FALSE
  /\ locked = FALSE /\ nameless = FALSE /\ refreshing = {}

----------------------------------------------------------------------------
(* Edits and timers.                                                       *)

\* The user changes the canvas, and listenContentChange hears of it: moving a
\* node is saved with low priority, the rest with high priority.
Edit(moved) ==
  /\ ~locked /\ made < MaxEdits
  /\ made' = made + 1 /\ doc' = made + 1
  /\ IF listening
     THEN /\ saving' = TRUE
          /\ low' = (low \/ moved) /\ high' = (high \/ ~moved)
     ELSE UNCHANGED <<saving, low, high>>
  /\ UNCHANGED <<listening, draft, save, json, savingError, race, user, testRuns>>

LowTimer_Drops ==
  /\ low
  /\ low' = FALSE
  /\ UNCHANGED <<doc, made, high, listening, saver, user, testRuns>>

\* lowPrioritySave only arms the timer of highPrioritySave.
LowTimer ==
  /\ low
  /\ low' = FALSE /\ high' = TRUE
  /\ UNCHANGED <<doc, made, listening, saver, user, testRuns>>

----------------------------------------------------------------------------
(* save                                                                    *)

\* onSavedEmitter.fire: everybody in waitSaving goes on, whichever save it
\* was and however it ended.
OnSaved == at' = IF at = "waiting" THEN "woken" ELSE at

\* The synchronous beginning of save: refused while a test run is executing.
Refused == race' = race \cup {"refused"} /\ UNCHANGED <<save, saving, savingError>>

BeginSave(s) ==
  /\ save' = [save EXCEPT ![s] = "serialising"]
  /\ saving' = TRUE /\ savingError' = FALSE
  /\ UNCHANGED race

HighTimer(s) ==
  /\ high /\ Free(s)
  /\ high' = FALSE
  /\ IF readonly
     THEN Refused /\ OnSaved
     ELSE BeginSave(s) /\ UNCHANGED at
  /\ UNCHANGED <<doc, made, low, listening, draft, json, command, own, loaded,
                 testRuns>>

\* toJSON has answered, and SaveWorkflow is posted.
Serialised(s) ==
  /\ save[s] = "serialising"
  /\ save' = [save EXCEPT ![s] = "sent"]
  /\ json' = [json EXCEPT ![s] = doc]
  /\ UNCHANGED <<canvas, draft, saving, savingError, race, user, testRuns>>

\* The server stores the content.  The reply, and then the info of the
\* workflow that is loaded again, are under way.
Stored(s) ==
  /\ save[s] = "sent"
  /\ save' = [save EXCEPT ![s] = "stored"]
  /\ draft' = json[s]
  /\ race' = IF json[s] = doc THEN {}
             ELSE IF draft = doc THEN race \cup {"overtaken"} ELSE race
  /\ UNCHANGED <<canvas, json, saving, savingError, user, testRuns>>

EndSave_KeepsOwn(s, next) ==
  /\ save' = [save EXCEPT ![s] = "idle"]
  /\ json' = [json EXCEPT ![s] = 0]
  /\ saving' = FALSE
  /\ IF own = s THEN at' = next ELSE OnSaved
  /\ UNCHANGED own
  /\ command' = IF at' = "idle" THEN "none" ELSE command

\* The end of save, for a command in waitSaving, which waits for any save,
\* and for the test-run command that waits for this one.
EndSave(s, next) ==
  /\ save' = [save EXCEPT ![s] = "idle"]
  /\ json' = [json EXCEPT ![s] = 0]
  /\ saving' = FALSE
  /\ IF own = s
     THEN at' = next /\ own' = None
     ELSE OnSaved /\ UNCHANGED own
  /\ command' = IF at' = "idle" THEN "none" ELSE command

\* The info is loaded, which also makes the canvas writable, and the save is
\* over.
Saved(s) ==
  /\ save[s] = "stored"
  /\ EndSave(s, "saved")
  /\ locked' = FALSE
  /\ savingError' = FALSE
  /\ race' = IF savingError /\ json[s] # doc THEN race \cup {"overtaken"} ELSE race
  /\ UNCHANGED <<canvas, draft, loaded, runner, testRunState, isExecuting,
                 nameless, refreshing>>

SaveFails_Silent(s) ==
  /\ ~Idle(s)
  /\ save' = [save EXCEPT ![s] = "idle"]
  /\ json' = [json EXCEPT ![s] = 0]
  /\ saving' = FALSE /\ savingError' = TRUE
  /\ own' = IF own = s THEN None ELSE own
  /\ at' = IF own = s THEN "idle" ELSE at
  /\ command' = IF own = s THEN "none" ELSE command
  /\ UNCHANGED <<canvas, draft, race, loaded, testRuns>>

\* Any await of it fails.  Some errors are only logged, the others thrown to
\* the caller.
SaveFails(s) ==
  /\ ~Idle(s)
  /\ \E next \in {"saved", "idle"} : EndSave(s, next)
  /\ savingError' = TRUE
  /\ UNCHANGED <<canvas, draft, race, loaded, testRuns>>

----------------------------------------------------------------------------
(* Test runs.                                                              *)

\* setTestRunState: leaving "paused" releases the loops in waitContinue.
SetState(state, pcs) ==
  /\ testRunState' = state
  /\ runner' = [r \in Runs |-> IF state # "paused" /\ pcs[r] = "held"
                               THEN "sleeping" ELSE pcs[r]]

To(r, where) == [runner EXCEPT ![r] = where]

\* The setter of viewStatus, of which only "executing" matters.
SetView(status) ==
  /\ isExecuting' = (status = "executing")
  /\ locked' = isExecuting'
  /\ nameless' = FALSE

\* testRun, testRunOneNode, testRunTrigger: nothing while saving, otherwise
\* the canvas is locked and the run requested.
TestRun(r) ==
  /\ at \in {"idle", "validating"} /\ runner[r] = "idle"
  /\ command' = "none" /\ at' = "idle"
  /\ IF saving
     THEN UNCHANGED <<runner, isExecuting, locked, nameless>>
     ELSE runner' = To(r, "starting") /\ SetView("executing")
  /\ UNCHANGED <<canvas, saver, own, loaded, testRunState, refreshing>>

Started(r) ==
  /\ runner[r] = "starting"
  /\ SetState("executing", To(r, "polling"))
  /\ UNCHANGED <<canvas, saver, user, isExecuting, locked, nameless, refreshing>>

\* The reply names no run, so none is polled and finishProcess is skipped:
\* the view is left as it is.
NotStarted(r) ==
  /\ runner[r] = "starting"
  /\ SetState("other", To(r, "idle"))
  /\ nameless' = isExecuting
  /\ UNCHANGED <<canvas, saver, user, isExecuting, locked, refreshing>>

\* getRTProcessResult: an execution started elsewhere is looked up, and
\* followed if it is running.
Observed(r) ==
  /\ runner[r] = "idle"
  /\ SetView("executing")
  /\ SetState("executing", To(r, "sleeping"))
  /\ UNCHANGED <<canvas, saver, user, refreshing>>

\* loop: still running, so it sleeps, and waits while the run is paused.
StillRunning(r) ==
  /\ runner[r] = "polling"
  /\ runner' = To(r, IF testRunState = "paused" THEN "held" ELSE "sleeping")
  /\ UNCHANGED <<canvas, saver, user, testRunState, isExecuting, locked, nameless,
                 refreshing>>

PollAgain(r) ==
  /\ runner[r] = "sleeping"
  /\ runner' = To(r, "polling")
  /\ UNCHANGED <<canvas, saver, user, testRunState, isExecuting, locked, nameless,
                 refreshing>>

\* Any other status ends the loop; finishProcess unlocks the canvas and
\* reloads the info.  So does getRTProcessResult at its first look.
Finished(r) ==
  /\ runner[r] \in {"idle", "polling"}
  /\ SetView("done")
  /\ SetState("other", To(r, "idle"))
  /\ refreshing' = refreshing \cup {r}
  /\ UNCHANGED <<canvas, saver, user>>

RunFails_StaysLocked(r) ==
  /\ runner[r] \in {"idle", "starting", "polling"}
  /\ SetState("other", To(r, "idle"))
  /\ UNCHANGED <<canvas, saver, user, isExecuting, locked, nameless, refreshing>>

\* Starting, looking up or polling fails: clearTestRunResult.
RunFails(r) ==
  /\ runner[r] \in {"idle", "starting", "polling"}
  /\ SetView("default")
  /\ SetState("other", To(r, "idle"))
  /\ UNCHANGED <<canvas, saver, user, refreshing>>

\* The info reload of finishProcess has answered: it sets the canvas to
\* writable, whatever is executing by now.
Refreshed(r) ==
  /\ r \in refreshing
  /\ refreshing' = refreshing \ {r}
  /\ locked' = FALSE
  /\ UNCHANGED <<canvas, saver, user, runner, testRunState, isExecuting, nameless>>

\* The last poll has brought a question to the user: the side sheet pauses.
PauseTestRun ==
  /\ \E r \in Runs : runner[r] = "sleeping"
  /\ SetState("paused", runner)
  /\ UNCHANGED <<canvas, saver, user, isExecuting, locked, nameless, refreshing>>

\* continueTestRun: the user has answered, or has cancelled the run.
ContinueTestRun ==
  /\ testRunState = "paused"
  /\ SetState("executing", runner)
  /\ UNCHANGED <<canvas, saver, user, isExecuting, locked, nameless, refreshing>>

\* clearTestRun does not stop a loop that polls.
ClearTestRun == SetView("default") /\ SetState("other", runner)

----------------------------------------------------------------------------
(* The user's commands: the test run of useTestRunFlowV2, and reloadDocument *)
(* with the server's content or with a template.                            *)

\* All begin with waitSaving.
Command(c) ==
  /\ command = "none"
  /\ c = "template" => made < MaxEdits
  /\ command' = c
  /\ at' = IF saving THEN "waiting" ELSE "woken"
  /\ UNCHANGED <<canvas, saver, own, loaded, testRuns>>

\* The test run saves once more; a refused save returns at once.
SaveFirst(s) ==
  /\ command = "testRun" /\ at = "woken" /\ Free(s)
  /\ IF readonly
     THEN Refused /\ at' = "saved" /\ UNCHANGED own
     ELSE BeginSave(s) /\ at' = "saving" /\ own' = s
  /\ UNCHANGED <<canvas, draft, json, command, loaded, testRuns>>

ClearFirst ==
  /\ at = "saved"
  /\ at' = "validating"
  /\ ClearTestRun
  /\ UNCHANGED <<canvas, saver, command, own, loaded, refreshing>>

\* Errors are found; without any, TestRun is next.
Invalid ==
  /\ at = "validating"
  /\ at' = "idle" /\ command' = "none"
  /\ UNCHANGED <<canvas, saver, own, loaded, testRuns>>

\* The server's content is requested ...
Load ==
  /\ command = "reload" /\ at = "woken"
  /\ at' = "loading"
  /\ UNCHANGED <<canvas, saver, command, own, loaded, testRuns>>

LoadFails ==
  /\ at = "loading"
  /\ at' = "idle" /\ command' = "none"
  /\ UNCHANGED <<canvas, saver, own, loaded, testRuns>>

\* ... and its load makes the canvas writable, as every load does.  From here
\* to the end of the reload nobody listens to the canvas.
Loaded ==
  /\ at = "loading"
  /\ at' = "replacing"
  /\ loaded' = draft
  /\ listening' = FALSE /\ locked' = FALSE
  /\ UNCHANGED <<doc, made, low, high, saver, command, own, runner, testRunState,
                 isExecuting, nameless, refreshing>>

\* A template is at hand.
TakeTemplate ==
  /\ command = "template" /\ at = "woken" /\ made < MaxEdits
  /\ at' = "replacing"
  /\ made' = made + 1 /\ loaded' = made + 1
  /\ listening' = FALSE
  /\ UNCHANGED <<doc, low, high, saver, command, own, testRuns>>

\* The canvas is replaced; it is listened to again unless it is read-only
\* just then.
Replaced ==
  /\ at = "replacing"
  /\ doc' = loaded /\ loaded' = 0
  /\ listening' = ~readonly
  /\ IF command = "template"
     THEN at' = "placed" /\ UNCHANGED <<command, race>>
     ELSE /\ at' = "idle" /\ command' = "none"
          /\ race' = IF loaded # draft THEN race \cup {"overtaken"} ELSE race
  /\ UNCHANGED <<made, low, high, draft, save, json, saving, savingError, own,
                 testRuns>>

\* The node data or the nodes cannot be loaded: nothing makes the canvas
\* listened to again, until a later reload does.
ReplaceFails ==
  /\ at = "replacing"
  /\ at' = "idle" /\ command' = "none"
  /\ doc' \in {doc, loaded} /\ loaded' = 0
  /\ UNCHANGED <<made, low, high, listening, saver, own, testRuns>>

\* After the view has been fitted, a template is saved, and the results of a
\* run are cleared.
SaveTemplate ==
  /\ at = "placed"
  /\ at' = "idle" /\ command' = "none"
  /\ high' = TRUE
  /\ ClearTestRun
  /\ UNCHANGED <<doc, made, low, listening, saver, own, loaded, refreshing>>

----------------------------------------------------------------------------
SaveStep(s) ==
  \/ Serialised(s) \/ Stored(s) \/ Saved(s) \/ SaveFails(s)

RunStep(r) ==
  \/ TestRun(r) \/ Started(r) \/ NotStarted(r) \/ Observed(r)
  \/ StillRunning(r) \/ PollAgain(r) \/ Finished(r) \/ RunFails(r) \/ Refreshed(r)

\* While timers are pending or saves under way, one of them fires or goes on.
Saving == LowTimer \/ \E s \in Saves : HighTimer(s) \/ SaveStep(s)

Next ==
  \/ \E moved \in BOOLEAN : Edit(moved)
  \/ Saving
  \/ \E s \in Saves : SaveFirst(s)
  \/ \E r \in Runs : RunStep(r)
  \/ PauseTestRun \/ ContinueTestRun
  \/ \E c \in Commands : Command(c)
  \/ ClearFirst \/ Invalid \/ Load \/ LoadFails \/ Loaded \/ TakeTemplate
  \/ Replaced \/ ReplaceFails \/ SaveTemplate

Spec == Init /\ [][Next]_vars

FairSpec == Spec /\ WF_vars(Saving)

----------------------------------------------------------------------------
(* Properties.                                                             *)

\* Every variable has its type; a command is under way exactly when it is
\* somewhere, and waits for a save of its own exactly in its first save.
TypeOK ==
  /\ doc \in Contents /\ draft \in Contents /\ made \in Contents
  /\ low \in BOOLEAN /\ high \in BOOLEAN /\ listening \in BOOLEAN
  /\ save \in [Saves -> SavePC]
  /\ json \in [Saves -> Contents]
  /\ saving \in BOOLEAN /\ savingError \in BOOLEAN
  /\ race \subseteq Races
  /\ command \in Commands \cup {"none"} /\ at \in Steps
  /\ own \in Saves \cup {None}
  /\ loaded \in Contents
  /\ runner \in [Runs -> RunnerPC]
  /\ testRunState \in TestRunState
  /\ isExecuting \in BOOLEAN
  /\ locked \in BOOLEAN /\ nameless \in BOOLEAN /\ refreshing \subseteq Runs
  /\ command = "none" <=> at = "idle"
  /\ own = None <=> at # "saving"

Quiet ==
  /\ ~low /\ ~high
  /\ \A s \in Saves : Idle(s)
  /\ at \notin {"replacing", "placed"}

\* No edit is lost in silence: once no timer is pending and no save or reload
\* under way, the server has what is on the canvas, unless the header shows an
\* error, nobody listens to the canvas since a reload that ended while it was
\* read-only or that failed half way, a save was refused because a run was
\* executing when its timer fired, or two requests overtook each other.  Each
\* of these does happen.
UnsavedOnlyIfRaced ==
  Quiet /\ doc # draft => savingError \/ ~listening \/ race # {}

\* Neither the canvas is left read-only, refusing every save, nor the header on
\* "running": as long as either is so, some test run is started or polled.  The
\* canvas alone may be left so by a reply that named no run, until the view is
\* set again.  And a loop waits for the user only while the run is shown as
\* paused.
LockedOnlyWhileRunning ==
  /\ locked \/ isExecuting => nameless \/ \E r \in Runs : runner[r] \in Polling
  /\ testRunState \in {"executing", "paused"} =>
       \E r \in Runs : runner[r] \in Polling
  /\ \A r \in Runs : runner[r] = "held" => testRunState = "paused"

\* A test run or a reload that waits for the save to end (waitSaving) gets its
\* turn: saving is never shown without something that will end it, unless a
\* save was refused and left it on.
WaiterWakes == at = "waiting" ~> at # "waiting" \/ "refused" \in race
=============================================================================
