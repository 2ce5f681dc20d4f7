--------------------------- MODULE AgentRuntime ----------------------------
(***************************************************************************)
(* Hot reload of agent definitions: AgentRuntime.buildAll and its change   *)
(* handler (pkg/agentdef/runtime.go), Reloader.ReloadDir (reload.go), the  *)
(* Loader and the file watcher.                                            *)
(*                                                                         *)
(* A reload reads the directory, swaps the registry of definitions and     *)
(* then emits one change event per agent; every event that is not a        *)
(* deletion rebuilds all agents of the registry as it is by then, leaves   *)
(* first.  The watcher reloads after every burst of file events; requests  *)
(* to the admin API reload at any time, beside it.                         *)
(*                                                                         *)
(* An agent object is the set of <<name, version>> pairs that answer when  *)
(* it is called: its own definition and those of the agents it holds.      *)
(***************************************************************************)
EXTENDS Naturals, FiniteSets

CONSTANTS Leaves, Orchs,   \* names of plain and of orchestration agents
          Subs,            \* the sub-agents an orchestration agent refers to
          Nested,          \* names whose file lies in a subdirectory
          MaxVersion,      \* contents a file may have: versions 1..MaxVersion
          Watcher, Admins, \* who reloads
          BuildMayFail,    \* a build may fail: an MCP server is down, a key is missing
          Overlap,         \* two reloads may be at work at once
          MaxEdits         \* bound on changes to the directory

Names == Leaves \cup Orchs
Reloaders == {Watcher} \cup Admins

ASSUME NamesAssumption ==
  /\ Leaves \cap Orchs = {} /\ IsFiniteSet(Names) /\ Names # {}
  /\ Subs \in [Orchs -> SUBSET Names]
  /\ Nested \subseteq Names
ASSUME ReloadersAssumption == Watcher \notin Admins
ASSUME BoundsAssumption == BuildMayFail \in BOOLEAN /\ Overlap \in BOOLEAN /\ MaxVersion \in Nat /\ MaxEdits \in Nat

\* A definition is named by its version; None where there is no (valid) file.
None == 0
Definition == 0..MaxVersion
Broken == MaxVersion + 1

VARIABLES disk,     \* per name, the file: a version, None or Broken
          pending,  \* file events that the watcher has not acted on
          defs,     \* Reloader.registry
          agents,   \* AgentRuntime.agents; {} for a name that is absent
          failed,   \* names whose last build failed (AgentReloadFailures)
          run,      \* per reloader, the reload it is in
          up,       \* Start has returned: the watcher is installed, the server listens
          edits,
          missed    \* names whose file changed unseen, and not read since (history)

vars == <<disk, pending, defs, agents, failed, run, up, edits, missed>>

PC == {"new", "idle", "load", "swap", "emit", "collect", "merge", "build", "register", "done"}

Versions == [Names -> Definition]
Agent == SUBSET (Names \X (1..MaxVersion))

\* The locals of ReloadDir and, below it, of buildAll.
Reload == [pc     : PC,
           fresh  : Versions,              \* what LoadAll returned
           events : 0..Cardinality(Names), \* rebuilding change events still to emit
           doomed : SUBSET Names,          \* deletion events still to emit
           listed : SUBSET Names,          \* the names that buildAll was called with
           plan   : Versions,              \* defs
           orchs  : SUBSET Orchs,          \* pass 2: agents still to build
           hand   : [Orchs -> Agent]]      \* pass 2: built, not yet registered

Present(d) == {n \in Names : d[n] # None}

\* LoadAll: a file that does not parse is skipped.
Parsed(d) == [n \in Names |-> IF d[n] = Broken THEN None ELSE d[n]]

At(r, l) == run[r].pc = l

Busy(r) == run[r].pc \notin {"new", "idle", "done"}

\* Nothing in the code keeps two reloads apart; without Overlap, builds are so
\* short that no other reload starts meanwhile.
MayStart == Overlap \/ \A r \in Reloaders : ~Busy(r)

\* Start has loaded the directory and goes on to build everything once, as for
\* one change event.
Init ==
  /\ disk \in [Names -> Definition \cup {Broken}]
  /\ pending = FALSE
  /\ defs = Parsed(disk)
  /\ agents = [n \in Names |-> {}]
  /\ failed = {}
  /\ run = [r \in Reloaders |->
              [pc |-> IF r = Watcher THEN "emit" ELSE "new",
               fresh |-> defs, events |-> IF r = Watcher THEN 1 ELSE 0,
               doomed |-> {}, listed |-> {}, plan |-> [n \in Names |-> None],
               orchs |-> {}, hand |-> [o \in Orchs |-> {}]]]
  /\ up = FALSE
  /\ edits = 0
  /\ missed = {}

\* Somebody writes, breaks, mends or removes a file.  The watcher has the
\* directory itself only: a file in a subdirectory, which a reload does read,
\* raises no event.  (What changes before the watcher is installed goes unseen
\* too; the module leaves such changes out.)
Edit(n) ==
  /\ up /\ edits < MaxEdits
  /\ edits' = edits + 1
  /\ \E d \in (Definition \cup {Broken}) \ {disk[n]} : disk' = [disk EXCEPT ![n] = d]
  /\ pending' = (pending \/ n \notin Nested)
  /\ missed' = missed \cup ({n} \cap Nested)
  /\ UNCHANGED <<defs, agents, failed, run, up>>

\* The debounce timer fires.
WatcherFires ==
  /\ At(Watcher, "idle") /\ pending /\ MayStart
  /\ pending' = FALSE
  /\ run' = [run EXCEPT ![Watcher].pc = "load"]
  /\ UNCHANGED <<disk, defs, agents, failed, up, edits, missed>>

\* A request to the admin API reloads.
AdminReload(a) ==
  /\ up /\ At(a, "new") /\ MayStart
  /\ run' = [run EXCEPT ![a].pc = "load"]
  /\ UNCHANGED <<disk, pending, defs, agents, failed, up, edits, missed>>

----------------------------------------------------------------------------
(* ReloadDir.                                                              *)

\* All files are read, those in subdirectories too.
Load(r) ==
  /\ At(r, "load")
  /\ run' = [run EXCEPT ![r].pc = "swap", ![r].fresh = Parsed(disk)]
  /\ missed' = {}
  /\ UNCHANGED <<disk, pending, defs, agents, failed, up, edits>>

\* Bug: events are counted over the old and the fresh names.
Swap_CountsBoth(r) ==
  /\ At(r, "swap")
  /\ defs' = run[r].fresh
  /\ run' = [run EXCEPT ![r].pc = "emit",
                        ![r].events = Cardinality(Present(defs)) + Cardinality(Present(run[r].fresh)),
                        ![r].doomed = Present(defs) \ Present(run[r].fresh)]
  /\ UNCHANGED <<disk, pending, agents, failed, up, edits, missed>>

\* The registry is swapped under the lock; what differs from the old one is
\* worked out and emitted outside.
Swap(r) ==
  /\ At(r, "swap")
  /\ defs' = run[r].fresh
  /\ run' = [run EXCEPT ![r].pc = "emit",
                        ![r].events = Cardinality(Present(run[r].fresh)),
                        ![r].doomed = Present(defs) \ Present(run[r].fresh)]
  /\ UNCHANGED <<disk, pending, agents, failed, up, edits, missed>>

\* An added or updated agent: buildAll is called with the names in the registry.
EmitChange(r) ==
  /\ At(r, "emit") /\ run[r].events > 0
  /\ run' = [run EXCEPT ![r].pc = "collect", ![r].events = @ - 1, ![r].listed = Present(defs)]
  /\ UNCHANGED <<disk, pending, defs, agents, failed, up, edits, missed>>

\* Bug: a deletion event is not handled.
EmitDeletion_Ignored(r) ==
  /\ At(r, "emit") /\ run[r].events = 0
  /\ \E n \in run[r].doomed : run' = [run EXCEPT ![r].doomed = @ \ {n}]
  /\ UNCHANGED <<disk, pending, defs, agents, failed, up, edits, missed>>

\* A deleted agent, after all the others: it leaves the registry.
EmitDeletion(r) ==
  /\ At(r, "emit") /\ run[r].events = 0
  /\ \E n \in run[r].doomed : /\ run' = [run EXCEPT ![r].doomed = @ \ {n}]
                              /\ agents' = [agents EXCEPT ![n] = {}]
  /\ UNCHANGED <<disk, pending, defs, failed, up, edits, missed>>

\* Bug: the watcher reloads, and then drops the events of the meantime.
ReloadEnds_DrainsEvents(r) ==
  /\ At(r, "emit") /\ run[r].events = 0 /\ run[r].doomed = {}
  /\ run' = [run EXCEPT ![r].pc = IF r = Watcher THEN "idle" ELSE "done"]
  /\ up' = TRUE
  /\ pending' = FALSE
  /\ UNCHANGED <<disk, defs, agents, failed, edits, missed>>

\* The first to end is Start's own build.
ReloadEnds(r) ==
  /\ At(r, "emit") /\ run[r].events = 0 /\ run[r].doomed = {}
  /\ run' = [run EXCEPT ![r].pc = IF r = Watcher THEN "idle" ELSE "done"]
  /\ up' = TRUE
  /\ UNCHANGED <<disk, pending, defs, agents, failed, edits, missed>>

----------------------------------------------------------------------------
(* buildAll.                                                               *)

\* The definitions of the listed names; a name that is gone by now is skipped.
Collect(r) ==
  /\ At(r, "collect")
  /\ run' = [run EXCEPT ![r].pc = "merge",
               ![r].plan = [n \in Names |-> IF n \in run[r].listed THEN defs[n] ELSE None]]
  /\ UNCHANGED <<disk, pending, defs, agents, failed, up, edits, missed>>

\* The names whose build fails in pass 1.
Failures(r) == IF BuildMayFail THEN SUBSET (Leaves \cap Present(run[r].plan)) ELSE {{}}

\* Bug: the registry is replaced by what was built.
Merge_DropsFailed(r) ==
  LET plan == run[r].plan IN
  /\ At(r, "merge")
  /\ \E bad \in Failures(r) :
       /\ failed' = bad \cup (failed \cap Orchs \cap Present(plan))
       /\ agents' = [n \in Names |->
                       IF n \in bad \/ plan[n] = None THEN {}
                       ELSE IF n \in Leaves THEN {<<n, plan[n]>>} ELSE agents[n]]
  /\ run' = [run EXCEPT ![r].pc = "build", ![r].orchs = Orchs \cap Present(plan)]
  /\ UNCHANGED <<disk, pending, defs, up, edits, missed>>

\* Pass 1 builds the leaves; then, under the lock, those that were built are
\* registered and every name that is not in the plan is removed.
Merge(r) ==
  LET plan == run[r].plan IN
  /\ At(r, "merge")
  /\ \E bad \in Failures(r) :
       /\ failed' = bad \cup (failed \cap Orchs \cap Present(plan))
       /\ agents' = [n \in Names |->
                       IF plan[n] = None THEN {}
                       ELSE IF n \in Leaves \ bad THEN {<<n, plan[n]>>} ELSE agents[n]]
  /\ run' = [run EXCEPT ![r].pc = "build", ![r].orchs = Orchs \cap Present(plan)]
  /\ UNCHANGED <<disk, pending, defs, up, edits, missed>>

\* Pass 2, in any order: the sub-agents are looked up in the registry, and held
\* from then on.
BuildOrch(r, o) ==
  /\ At(r, "build") /\ o \in run[r].orchs
  /\ \A s \in Subs[o] : agents[s] # {}
  /\ run' = [run EXCEPT ![r].pc = "register",
               ![r].hand[o] = {<<o, run[r].plan[o]>>} \cup UNION {agents[s] : s \in Subs[o]}]
  /\ UNCHANGED <<disk, pending, defs, agents, failed, up, edits, missed>>

\* A sub-agent is missing, or the build fails: the old agent is kept.
OrchFails(r, o) ==
  /\ At(r, "build") /\ o \in run[r].orchs
  /\ BuildMayFail \/ \E s \in Subs[o] : agents[s] = {}
  /\ failed' = failed \cup {o}
  /\ run' = [run EXCEPT ![r].orchs = @ \ {o}]
  /\ UNCHANGED <<disk, pending, defs, agents, up, edits, missed>>

\* The agent in hand is registered, under the lock.
RegisterOrch(r, o) ==
  /\ At(r, "register") /\ run[r].hand[o] # {}
  /\ agents' = [agents EXCEPT ![o] = run[r].hand[o]]
  /\ failed' = failed \ {o}
  /\ run' = [run EXCEPT ![r].pc = "build", ![r].orchs = @ \ {o}, ![r].hand[o] = {}]
  /\ UNCHANGED <<disk, pending, defs, up, edits, missed>>

BuildEnds(r) ==
  /\ At(r, "build") /\ run[r].orchs = {}
  /\ run' = [run EXCEPT ![r].pc = "emit"]
  /\ UNCHANGED <<disk, pending, defs, agents, failed, up, edits, missed>>

----------------------------------------------------------------------------
ReloadStep(r) == \/ Load(r) \/ Swap(r) \/ EmitChange(r) \/ EmitDeletion(r) \/ ReloadEnds(r)
                 \/ Collect(r) \/ Merge(r) \/ BuildEnds(r)
                 \/ \E o \in Orchs : BuildOrch(r, o) \/ OrchFails(r, o) \/ RegisterOrch(r, o)

Next == \/ \E n \in Names : Edit(n)
        \/ WatcherFires
        \/ \E a \in Admins : AdminReload(a)
        \/ \E r \in Reloaders : ReloadStep(r)

Spec == Init /\ [][Next]_vars

\* The timer fires and reloads go on; nobody has to edit or to call the API.
FairSpec == Spec /\ WF_vars(WatcherFires) /\ \A r \in Reloaders : WF_vars(ReloadStep(r))

----------------------------------------------------------------------------
(* Properties.                                                             *)

TypeOK ==
  /\ disk \in [Names -> Definition \cup {Broken}]
  /\ pending \in BOOLEAN
  /\ defs \in Versions
  /\ agents \in [Names -> Agent]
  /\ failed \in SUBSET Names
  /\ run \in [Reloaders -> Reload]
  /\ up \in BOOLEAN
  /\ edits \in 0..MaxEdits
  /\ missed \in SUBSET Nested

\* The agent that a directory as it is now calls for, given its sub-agents.
Wanted(n) ==
  LET v == Parsed(disk)[n] IN
  IF v = None THEN {}
  ELSE {<<n, v>>} \cup IF n \in Orchs THEN UNION {agents[s] : s \in Subs[n]} ELSE {}

Mirrors == \A n \in Names : n \notin failed \cup missed => agents[n] = Wanted(n)

\* When no reload runs and no file event is waiting, the registry is what the
\* directory says: every agent has the version of its file and holds the
\* sub-agents that are registered; only a failed build leaves an older one, or
\* a change in a subdirectory that no reload has read since.
SettledMirrorsDirectory == ~pending /\ (\A r \in Reloaders : ~Busy(r)) => Mirrors

\* Edits reach the registry without a restart: it ends up as the directory is,
\* but for those in subdirectories, which wait for a reload that another edit
\* or a request to the admin API starts.
EditsTakeEffect == <>[]Mirrors

\* An agent is taken out of service only when it has no definition any more; a
\* failed build, a rebuild in progress or a missing sub-agent never does it.
RemovedOnlyIfUndefined ==
  [][\A n \in Names : agents[n] # {} /\ agents'[n] = {} => defs[n] = None]_vars
============================================================================
