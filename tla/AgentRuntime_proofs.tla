------------------------ MODULE AgentRuntime_proofs ------------------------
(***************************************************************************)
(* Proofs about AgentRuntime, for any directory and any number of          *)
(* reloaders: types; and, where no two reloads overlap and orchestration   *)
(* agents hold plain ones only, that the registry follows the directory.   *)
(***************************************************************************)
EXTENDS AgentRuntime, FiniteSetTheorems, TLAPS

Building(r) == run[r].pc \in {"build", "register"}

\* Pass 2 builds what the plan has.
PlanInv ==
  \A r \in Reloaders :
    /\ run[r].orchs \subseteq Present(run[r].plan)
    /\ ~Building(r) => run[r].orchs = {}

TInv == TypeOK /\ PlanInv

LEMMA ParsedType ==
  ASSUME NEW d \in [Names -> Definition \cup {Broken}]
  PROVE  Parsed(d) \in Versions
  BY BoundsAssumption DEF Parsed, Versions, Definition, Broken, None

LEMMA PresentCount ==
  ASSUME NEW d \in Versions
  PROVE  /\ Cardinality(Present(d)) \in 0..Cardinality(Names)
         /\ Cardinality(Present(d)) = 0 <=> Present(d) = {}
  <1>1. Present(d) \subseteq Names
    BY DEF Present
  <1> QED
    BY <1>1, NamesAssumption, FS_Subset, FS_CardinalityType, FS_EmptySet

LEMMA InitType == Init => TInv
  <1> SUFFICES ASSUME Init PROVE TInv
    OBVIOUS
  <1>1. defs \in Versions
    BY ParsedType DEF Init
  <1>2. 0 \in 0..Cardinality(Names) /\ 1 \in 0..Cardinality(Names)
    BY NamesAssumption, FS_CardinalityType, FS_EmptySet
  <1>3. [n \in Names |-> None] \in Versions /\ [o \in Orchs |-> {}] \in [Orchs -> Agent]
    BY BoundsAssumption DEF Versions, None, Definition, Agent
  <1>4. run \in [Reloaders -> Reload]
    <2>1. \A r \in Reloaders :
            [pc |-> IF r = Watcher THEN "emit" ELSE "new",
             fresh |-> defs, events |-> IF r = Watcher THEN 1 ELSE 0,
             doomed |-> {}, listed |-> {}, plan |-> [n \in Names |-> None],
             orchs |-> {}, hand |-> [o \in Orchs |-> {}]] \in Reload
      <3>1. "emit" \in PC /\ "new" \in PC
        BY DEF PC
      <3> QED
        BY <1>1, <1>2, <1>3, <3>1 DEF Reload
    <2> QED
      BY <2>1 DEF Init
  <1>5. TypeOK
    <2>1. agents \in [Names -> Agent] /\ failed \in SUBSET Names
      <3>1. {} \in Agent
        BY DEF Agent
      <3> QED
        BY <3>1 DEF Init
    <2>2. edits \in 0..MaxEdits /\ missed \in SUBSET Nested
      <3>1. edits = 0 /\ missed = {}
        BY DEF Init
      <3> QED
        BY <3>1, BoundsAssumption
    <2>3. up \in BOOLEAN /\ pending \in BOOLEAN
      BY DEF Init
    <2>4. disk \in [Names -> Definition \cup {Broken}]
      BY DEF Init
    <2> QED
      BY <1>1, <1>4, <2>1, <2>2, <2>3, <2>4 DEF TypeOK
  <1>6. PlanInv
    BY DEF Init, PlanInv, Building
  <1> QED
    BY <1>5, <1>6 DEF TInv

\* The reload of r goes on, from its locals to the locals c.
LEMMA Goes ==
  ASSUME TInv, NEW r \in Reloaders, NEW c \in Reload, run' = [run EXCEPT ![r] = c],
         c.orchs \subseteq Present(c.plan), c.pc \notin {"build", "register"} => c.orchs = {}
  PROVE  run' \in [Reloaders -> Reload] /\ PlanInv'
  <1>1. run \in [Reloaders -> Reload]
    BY DEF TInv, TypeOK
  <1>2. run' \in [Reloaders -> Reload] /\ run'[r] = c
    BY <1>1
  <1>3. \A s \in Reloaders \ {r} : run'[s] = run[s]
    BY <1>1
  <1> QED
    BY <1>2, <1>3 DEF TInv, PlanInv, Building

\* A reload that only moves on has its types.
LEMMA GoesOn ==
  ASSUME TInv, NEW r \in Reloaders, ~Building(r),
         NEW c \in Reload, run' = [run EXCEPT ![r] = c],
         c.orchs = run[r].orchs
  PROVE  run' \in [Reloaders -> Reload] /\ PlanInv'
  <1>1. c.orchs = {}
    BY DEF TInv, PlanInv
  <1> QED
    BY <1>1, Goes

LEMMA LocalType ==
  ASSUME TInv, NEW r \in Reloaders, ReloadStep(r)
  PROVE  TInv'
  <1>0. run \in [Reloaders -> Reload] /\ run[r] \in Reload /\ defs \in Versions
    BY DEF TInv, TypeOK
  <1>1. CASE Load(r)
    <2> DEFINE c == [run[r] EXCEPT !.pc = "swap", !.fresh = Parsed(disk)]
    <2>1. Parsed(disk) \in Versions
      BY ParsedType DEF TInv, TypeOK
    <2>2. run' = [run EXCEPT ![r] = c]
      BY <1>0, <1>1 DEF Load
    <2>3. c \in Reload /\ c.orchs = run[r].orchs /\ ~Building(r)
      BY <1>0, <1>1, <2>1 DEF Reload, PC, Load, At, Building
    <2> HIDE DEF c
    <2>4. run' \in [Reloaders -> Reload] /\ PlanInv'
      BY <2>2, <2>3, GoesOn
    <2> QED
      BY <1>1, <2>4 DEF Load, TInv, TypeOK
  <1>2. CASE Swap(r)
    <2> DEFINE c == [run[r] EXCEPT !.pc = "emit",
                        !.events = Cardinality(Present(run[r].fresh)),
                        !.doomed = Present(defs) \ Present(run[r].fresh)]
    <2>1. run[r].fresh \in Versions
      BY <1>0 DEF Reload
    <2>2. run' = [run EXCEPT ![r] = c]
      BY <1>0, <1>2 DEF Swap
    <2>3. /\ Cardinality(Present(run[r].fresh)) \in 0..Cardinality(Names)
          /\ Present(defs) \ Present(run[r].fresh) \in SUBSET Names
      BY <2>1, PresentCount DEF Present
    <2>4. c \in Reload /\ c.orchs = run[r].orchs /\ ~Building(r)
      BY <1>0, <1>2, <2>3 DEF Reload, PC, Swap, At, Building
    <2> HIDE DEF c
    <2>5. run' \in [Reloaders -> Reload] /\ PlanInv'
      BY <2>2, <2>4, GoesOn
    <2> QED
      BY <1>2, <2>1, <2>5 DEF Swap, TInv, TypeOK
  <1>3. CASE EmitChange(r)
    <2> DEFINE c == [run[r] EXCEPT !.pc = "collect", !.events = @ - 1, !.listed = Present(defs)]
    <2>1. run' = [run EXCEPT ![r] = c]
      BY <1>0, <1>3 DEF EmitChange
    <2>2. run[r].events - 1 \in 0..Cardinality(Names) /\ Present(defs) \in SUBSET Names
      BY <1>0, <1>3, NamesAssumption, FS_CardinalityType DEF EmitChange, Reload, Present
    <2>3. c \in Reload /\ c.orchs = run[r].orchs /\ ~Building(r)
      BY <1>0, <1>3, <2>2 DEF Reload, PC, EmitChange, At, Building
    <2> HIDE DEF c
    <2>4. run' \in [Reloaders -> Reload] /\ PlanInv'
      BY <2>1, <2>3, GoesOn
    <2> QED
      BY <1>3, <2>4 DEF EmitChange, TInv, TypeOK
  <1>4. CASE EmitDeletion(r)
    <2>1. PICK n \in run[r].doomed : /\ run' = [run EXCEPT ![r].doomed = @ \ {n}]
                                     /\ agents' = [agents EXCEPT ![n] = {}]
      BY <1>4 DEF EmitDeletion
    <2> DEFINE c == [run[r] EXCEPT !.doomed = @ \ {n}]
    <2>2. run' = [run EXCEPT ![r] = c]
      BY <1>0, <2>1
    <2>3. c \in Reload /\ c.orchs = run[r].orchs /\ ~Building(r)
      BY <1>0, <1>4 DEF Reload, EmitDeletion, At, Building
    <2> HIDE DEF c
    <2>4. run' \in [Reloaders -> Reload] /\ PlanInv'
      BY <2>2, <2>3, GoesOn
    <2>5. agents' \in [Names -> Agent]
      BY <2>1 DEF TInv, TypeOK, Agent
    <2> QED
      BY <1>4, <2>4, <2>5 DEF EmitDeletion, TInv, TypeOK
  <1>5. CASE ReloadEnds(r)
    <2> DEFINE c == [run[r] EXCEPT !.pc = IF r = Watcher THEN "idle" ELSE "done"]
    <2>1. run' = [run EXCEPT ![r] = c]
      BY <1>0, <1>5 DEF ReloadEnds
    <2>2. c \in Reload /\ c.orchs = run[r].orchs /\ ~Building(r)
      BY <1>0, <1>5 DEF Reload, PC, ReloadEnds, At, Building
    <2> HIDE DEF c
    <2>3. run' \in [Reloaders -> Reload] /\ PlanInv'
      BY <2>1, <2>2, GoesOn
    <2>4. up' \in BOOLEAN
      BY <1>5 DEF ReloadEnds
    <2> QED
      BY <1>5, <2>3, <2>4 DEF ReloadEnds, TInv, TypeOK
  <1>6. CASE Collect(r)
    <2> DEFINE p == [n \in Names |-> IF n \in run[r].listed THEN defs[n] ELSE None]
               c == [run[r] EXCEPT !.pc = "merge", !.plan = p]
    <2>1. run' = [run EXCEPT ![r] = c]
      BY <1>0, <1>6 DEF Collect
    <2>2. p \in Versions
      BY <1>0, BoundsAssumption DEF Versions, Definition, None
    <2> HIDE DEF p
    <2>3. c \in Reload /\ c.orchs = run[r].orchs /\ ~Building(r)
      BY <1>0, <1>6, <2>2 DEF Reload, PC, Collect, At, Building
    <2> HIDE DEF c
    <2>4. run' \in [Reloaders -> Reload] /\ PlanInv'
      BY <2>1, <2>3, GoesOn
    <2> QED
      BY <1>6, <2>4 DEF Collect, TInv, TypeOK
  <1>7. CASE Merge(r)
    <2> DEFINE plan == run[r].plan
               c == [run[r] EXCEPT !.pc = "build", !.orchs = Orchs \cap Present(plan)]
    <2>0. plan \in Versions
      BY <1>0 DEF Reload
    <2>1. run' = [run EXCEPT ![r] = c]
      BY <1>0, <1>7 DEF Merge
    <2>2. c \in Reload /\ c.orchs = Orchs \cap Present(plan) /\ c.plan = plan /\ c.pc = "build"
      BY <1>0 DEF Reload, PC
    <2>3. run' \in [Reloaders -> Reload] /\ PlanInv'
      <3> HIDE DEF c, plan
      <3> QED
        BY <2>1, <2>2, Goes
    <2>4. PICK bad \in Failures(r) :
            /\ failed' = bad \cup (failed \cap Orchs \cap Present(plan))
            /\ agents' = [n \in Names |->
                            IF plan[n] = None THEN {}
                            ELSE IF n \in Leaves \ bad THEN {<<n, plan[n]>>} ELSE agents[n]]
      BY <1>7 DEF Merge
    <2>5. failed' \in SUBSET Names
      BY <2>4 DEF Failures, Names, TInv, TypeOK
    <2>6. \A n \in Names : plan[n] # None => plan[n] \in 1..MaxVersion
      BY <2>0, BoundsAssumption DEF Versions, Definition, None
    <2>7. agents' \in [Names -> Agent]
      BY <2>4, <2>6 DEF TInv, TypeOK, Agent
    <2> QED
      BY <1>7, <2>3, <2>5, <2>7 DEF Merge, TInv, TypeOK
  <1>8. CASE BuildEnds(r)
    <2> DEFINE c == [run[r] EXCEPT !.pc = "emit"]
    <2>1. run' = [run EXCEPT ![r] = c]
      BY <1>0, <1>8 DEF BuildEnds
    <2>2. c \in Reload /\ c.orchs = {}
      BY <1>0, <1>8 DEF Reload, PC, BuildEnds
    <2> HIDE DEF c
    <2>3. run' \in [Reloaders -> Reload] /\ PlanInv'
      BY <2>1, <2>2, Goes
    <2> QED
      BY <1>8, <2>3 DEF BuildEnds, TInv, TypeOK
  <1>9. ASSUME NEW o \in Orchs, BuildOrch(r, o)
        PROVE  TInv'
    <2> DEFINE a == {<<o, run[r].plan[o]>>} \cup UNION {agents[s] : s \in Subs[o]}
               c == [run[r] EXCEPT !.pc = "register", !.hand = [@ EXCEPT ![o] = a]]
    <2>1. run' = [run EXCEPT ![r] = c]
      BY <1>0, <1>9 DEF BuildOrch
    <2>2. run[r].plan[o] \in 1..MaxVersion
      <3>1. o \in Present(run[r].plan) /\ run[r].plan \in Versions
        BY <1>0, <1>9 DEF BuildOrch, TInv, PlanInv, Reload
      <3> QED
        BY <3>1, BoundsAssumption DEF Present, Versions, Definition, None
    <2>3. a \in Agent
      <3>1. \A s \in Subs[o] : agents[s] \in Agent
        BY NamesAssumption DEF TInv, TypeOK
      <3> QED
        BY <2>2, <3>1 DEF Agent, Names
    <2> HIDE DEF a
    <2>4. c \in Reload /\ c.orchs = run[r].orchs /\ c.plan = run[r].plan /\ c.pc = "register"
      BY <1>0, <2>3 DEF Reload, PC
    <2> HIDE DEF c
    <2>5. run' \in [Reloaders -> Reload] /\ PlanInv'
      BY <2>1, <2>4, Goes DEF TInv, PlanInv
    <2> QED
      BY <1>9, <2>5 DEF BuildOrch, TInv, TypeOK
  <1>10. ASSUME NEW o \in Orchs, OrchFails(r, o)
         PROVE  TInv'
    <2> DEFINE c == [run[r] EXCEPT !.orchs = @ \ {o}]
    <2>1. run' = [run EXCEPT ![r] = c]
      BY <1>0, <1>10 DEF OrchFails
    <2>2. c \in Reload /\ c.orchs = run[r].orchs \ {o} /\ c.plan = run[r].plan /\ c.pc = "build"
      BY <1>0, <1>10 DEF Reload, OrchFails, At
    <2> HIDE DEF c
    <2>3. run' \in [Reloaders -> Reload] /\ PlanInv'
      BY <2>1, <2>2, Goes DEF TInv, PlanInv
    <2> QED
      BY <1>10, <2>3 DEF OrchFails, TInv, TypeOK, Names
  <1>11. ASSUME NEW o \in Orchs, RegisterOrch(r, o)
         PROVE  TInv'
    <2> DEFINE c == [run[r] EXCEPT !.pc = "build", !.orchs = @ \ {o}, !.hand = [@ EXCEPT ![o] = {}]]
    <2>1. run' = [run EXCEPT ![r] = c]
      BY <1>0, <1>11 DEF RegisterOrch
    <2>2. {} \in Agent /\ run[r].hand[o] \in Agent
      BY <1>0 DEF Reload, Agent
    <2>3. c \in Reload /\ c.orchs = run[r].orchs \ {o} /\ c.plan = run[r].plan /\ c.pc = "build"
      BY <1>0, <2>2 DEF Reload, PC
    <2> HIDE DEF c
    <2>4. run' \in [Reloaders -> Reload] /\ PlanInv'
      BY <2>1, <2>3, Goes DEF TInv, PlanInv
    <2> QED
      BY <1>11, <2>2, <2>4 DEF RegisterOrch, TInv, TypeOK, Names
  <1> QED
    BY <1>1, <1>2, <1>3, <1>4, <1>5, <1>6, <1>7, <1>8, <1>9, <1>10, <1>11 DEF ReloadStep

LEMMA TypeStep == TInv /\ [Next]_vars => TInv'
  <1> SUFFICES ASSUME TInv, [Next]_vars PROVE TInv'
    OBVIOUS
  <1>0. run \in [Reloaders -> Reload]
    BY DEF TInv, TypeOK
  <1>1. CASE UNCHANGED vars
    BY <1>1 DEF vars, TInv, TypeOK, PlanInv, Building
  <1>2. ASSUME NEW n \in Names, Edit(n)
        PROVE  TInv'
    BY <1>2, BoundsAssumption DEF Edit, TInv, TypeOK, PlanInv, Building
  <1>3. ASSUME NEW r \in Reloaders, run[r].pc \in {"idle", "new"},
               run' = [run EXCEPT ![r].pc = "load"]
        PROVE  run' \in [Reloaders -> Reload] /\ PlanInv'
    <2> DEFINE c == [run[r] EXCEPT !.pc = "load"]
    <2>1. run' = [run EXCEPT ![r] = c]
      BY <1>0, <1>3
    <2>2. c \in Reload /\ c.orchs = run[r].orchs /\ ~Building(r)
      BY <1>0, <1>3 DEF Reload, PC, Building
    <2> HIDE DEF c
    <2> QED
      BY <2>1, <2>2, GoesOn
  <1>4. CASE WatcherFires
    BY <1>3, <1>4 DEF WatcherFires, At, Reloaders, TInv, TypeOK
  <1>5. ASSUME NEW a \in Admins, AdminReload(a)
        PROVE  TInv'
    BY <1>3, <1>5 DEF AdminReload, At, Reloaders, TInv, TypeOK
  <1> QED
    BY <1>1, <1>2, <1>4, <1>5, LocalType DEF Next

\* Every variable has its type.
THEOREM TypeCorrect == Spec => []TypeOK
  <1>1. TInv => TypeOK
    BY DEF TInv
  <1> QED
    BY <1>1, InitType, TypeStep, PTL DEF Spec

----------------------------------------------------------------------------
(* Reloads one at a time, and no orchestration agent inside another, whose *)
(* order of building is that of a map.                                     *)

Flat == \A o \in Orchs : Subs[o] \subseteq Leaves

\* The agent that the registry of definitions calls for.
Called(n) ==
  IF defs[n] = None THEN {}
  ELSE {<<n, defs[n]>>} \cup IF n \in Orchs THEN UNION {agents[s] : s \in Subs[n]} ELSE {}

\* The agents are what the definitions call for, but for those still to build.
Built(O) ==
  \A n \in Names : /\ defs[n] = None => agents[n] = {}
                   /\ n \notin failed \cup O => agents[n] = Called(n)

\* No definition is left, and what is left of the agents will be deleted.
Emptied(r) == \A n \in Names : defs[n] = None /\ (agents[n] # {} => n \in run[r].doomed)

Reading(r) == run[r].pc \in {"load", "swap"}

AloneInv == \A r, s \in Reloaders : Busy(r) /\ Busy(s) => r = s

\* Definitions are those of the directory, but for changes that nobody saw.
Agrees(d) == \A n \in Names \ missed : d[n] = Parsed(disk)[n]

\* What a reload has in hand is what the registry has.
HandsOf(r) ==
  /\ At(r, "swap") => pending \/ Agrees(run[r].fresh)
  /\ At(r, "collect") => run[r].listed = Present(defs)
  /\ At(r, "merge") \/ Building(r) => run[r].plan = defs
  /\ ~Busy(r) \/ Reading(r) => run[r].doomed = {}
  /\ \A n \in run[r].doomed : defs[n] = None

RInv == TInv /\ AloneInv /\ \A r \in Reloaders : HandsOf(r)

\* What is built and not yet registered.
OrchsOf(r) ==
  \A o \in Orchs :
    run[r].hand[o] # {} =>
      /\ At(r, "register") /\ o \in run[r].orchs
      /\ run[r].hand[o] = Called(o)
      /\ \A p \in Orchs : run[r].hand[p] # {} => p = o

\* The registry of agents while pass 2 builds, and after.
BuiltOf(r) ==
  /\ Building(r) => Built(run[r].orchs)
  /\ At(r, "emit") /\ run[r].events = 0 => Built({}) \/ Emptied(r)

\* When nobody builds, the agents are what the definitions call for; and the
\* definitions are those of the directory, where changes are seen, unless a
\* reload is to come.
AInv ==
  /\ RInv
  /\ \A r \in Reloaders : OrchsOf(r) /\ BuiltOf(r)
  /\ (\A r \in Reloaders : ~Busy(r) \/ Reading(r)) => Built({})
  /\ pending \/ (\E r \in Reloaders : Reading(r)) \/ Agrees(defs)

LEMMA InitAlone == Init => AInv
  <1> SUFFICES ASSUME Init PROVE AInv
    OBVIOUS
  <1>1. \A r \in Reloaders :
          /\ run[r].pc = IF r = Watcher THEN "emit" ELSE "new"
          /\ run[r].events = IF r = Watcher THEN 1 ELSE 0
          /\ run[r].doomed = {} /\ \A o \in Orchs : run[r].hand[o] = {}
    BY DEF Init
  <1>2. RInv
    BY <1>1, InitType DEF RInv, AloneInv, Busy, HandsOf, At, Building, Reading
  <1>3. \A r \in Reloaders : OrchsOf(r) /\ BuiltOf(r)
    BY <1>1 DEF OrchsOf, BuiltOf, Building, At
  <1>4. Watcher \in Reloaders /\ Busy(Watcher) /\ ~Reading(Watcher)
    BY <1>1 DEF Reloaders, Busy, Reading
  <1>5. Agrees(defs)
    BY DEF Init, Agrees
  <1> QED
    BY <1>2, <1>3, <1>4, <1>5 DEF AInv

\* The steps of a reload touch nobody else, and nobody else is at work.
LEMMA OneAtATime ==
  ASSUME RInv, NEW r \in Reloaders, ReloadStep(r)
  PROVE  /\ Busy(r)
         /\ \A s \in Reloaders \ {r} : ~Busy(s) /\ run'[s] = run[s]
         /\ UNCHANGED <<disk, pending>>
         /\ Load(r) \/ missed' = missed
  <1>1. Busy(r)
    BY DEF ReloadStep, Load, Swap, EmitChange, EmitDeletion, ReloadEnds, Collect, Merge,
           BuildEnds, BuildOrch, OrchFails, RegisterOrch, At, Busy
  <1>2. run \in [Reloaders -> Reload]
    BY DEF RInv, TInv, TypeOK
  <1>3. \A s \in Reloaders \ {r} : run'[s] = run[s]
    BY <1>2
    DEF ReloadStep, Load, Swap, EmitChange, EmitDeletion, ReloadEnds, Collect, Merge,
        BuildEnds, BuildOrch, OrchFails, RegisterOrch
  <1>4. UNCHANGED <<disk, pending>> /\ (Load(r) \/ missed' = missed)
    BY DEF ReloadStep, Load, Swap, EmitChange, EmitDeletion, ReloadEnds, Collect, Merge,
           BuildEnds, BuildOrch, OrchFails, RegisterOrch
  <1> QED
    BY <1>1, <1>3, <1>4 DEF RInv, AloneInv

\* An edit that nobody sees is one that is known to be missed.
LEMMA SeenOrMissed ==
  ASSUME TInv, NEW n \in Names, Edit(n)
  PROVE  pending' \/ \A m \in Names \ missed' : m \notin missed /\ Parsed(disk)'[m] = Parsed(disk)[m]
  <1>1. \A m \in Names \ {n} : Parsed(disk)'[m] = Parsed(disk)[m]
    BY DEF Edit, Parsed, TInv, TypeOK
  <1> QED
    BY <1>1 DEF Edit

\* Who is not busy has nothing in hand.
LEMMA RestsInHand ==
  ASSUME NEW r \in Reloaders, HandsOf(r), ~Busy(r), run'[r] = run[r]
  PROVE  ~Busy(r)' /\ ~Reading(r)' /\ HandsOf(r)'
  BY DEF HandsOf, Busy, Building, Reading, At

LEMMA HandsKept ==
  ASSUME RInv, NEW r \in Reloaders, ReloadStep(r)
  PROVE  HandsOf(r)'
  <1> USE DEF At, Building, Reading, Busy
  <1>0. run \in [Reloaders -> Reload] /\ run[r] \in Reload /\ defs \in Versions
    BY DEF RInv, TInv, TypeOK
  <1>1. HandsOf(r)
    BY DEF RInv
  <1>2. CASE Load(r)
    <2>1. Agrees(run[r].fresh)'
      BY <1>0, <1>2 DEF Load, Agrees, Parsed
    <2> QED
      BY <1>0, <1>1, <1>2, <2>1 DEF Load, HandsOf, Reload
  <1>3. CASE Swap(r)
    <2>1. /\ run'[r].pc = "emit" /\ run'[r].doomed = Present(defs) \ Present(run[r].fresh)
          /\ defs' = run[r].fresh
      BY <1>0, <1>3 DEF Swap, Reload
    <2> QED
      BY <2>1 DEF HandsOf, Present
  <1>4. CASE EmitChange(r)
    <2>1. /\ run'[r].pc = "collect" /\ run'[r].doomed = run[r].doomed
          /\ run'[r].listed = Present(defs) /\ defs' = defs
      BY <1>0, <1>4 DEF EmitChange, Reload
    <2> QED
      BY <1>1, <2>1 DEF HandsOf, Present
  <1>5. CASE EmitDeletion(r)
    <2>1. run'[r].pc = "emit" /\ run'[r].doomed \subseteq run[r].doomed /\ defs' = defs
      BY <1>0, <1>5 DEF EmitDeletion, Reload
    <2> QED
      BY <1>1, <2>1 DEF HandsOf
  <1>6. CASE ReloadEnds(r)
    <2>1. run'[r].pc \in {"idle", "done"} /\ run'[r].doomed = {}
      BY <1>0, <1>6 DEF ReloadEnds, Reload
    <2> QED
      BY <2>1 DEF HandsOf
  <1>7. CASE Collect(r)
    <2>1. /\ run'[r].pc = "merge" /\ run'[r].doomed = run[r].doomed /\ defs' = defs
          /\ run'[r].plan = [n \in Names |-> IF n \in Present(defs) THEN defs[n] ELSE None]
      BY <1>0, <1>1, <1>7 DEF Collect, Reload, HandsOf
    <2>2. run'[r].plan = defs
      BY <1>0, <2>1 DEF Present, Versions
    <2> QED
      BY <1>1, <2>1, <2>2 DEF HandsOf
  <1>8. CASE Merge(r)
    <2>1. /\ run'[r].pc = "build" /\ run'[r].doomed = run[r].doomed /\ defs' = defs
          /\ run'[r].plan = run[r].plan
      BY <1>0, <1>8 DEF Merge, Reload
    <2> QED
      BY <1>1, <1>8, <2>1 DEF HandsOf, Merge
  <1>9. CASE BuildEnds(r)
    <2>1. run'[r].pc = "emit" /\ run'[r].doomed = run[r].doomed /\ defs' = defs
      BY <1>0, <1>9 DEF BuildEnds, Reload
    <2> QED
      BY <1>1, <2>1 DEF HandsOf
  <1>10. ASSUME NEW o \in Orchs, BuildOrch(r, o) \/ OrchFails(r, o) \/ RegisterOrch(r, o)
         PROVE  HandsOf(r)'
    <2>1. /\ run[r].pc \in {"build", "register"} /\ run'[r].pc \in {"build", "register"}
          /\ run'[r].doomed = run[r].doomed /\ defs' = defs /\ run'[r].plan = run[r].plan
      BY <1>0, <1>10 DEF BuildOrch, OrchFails, RegisterOrch, Reload
    <2> QED
      BY <1>1, <2>1 DEF HandsOf
  <1> QED
    BY <1>2, <1>3, <1>4, <1>5, <1>6, <1>7, <1>8, <1>9, <1>10 DEF ReloadStep

\* A reload starts when no other is at work.
LEMMA Starts ==
  ASSUME RInv, ~Overlap, WatcherFires \/ \E a \in Admins : AdminReload(a)
  PROVE  /\ \A s \in Reloaders : ~Busy(s)
         /\ \E r \in Reloaders : /\ run'[r] = [run[r] EXCEPT !.pc = "load"]
                                 /\ \A s \in Reloaders \ {r} : run'[s] = run[s]
         /\ UNCHANGED <<disk, defs, agents, failed, missed>>
  <1>1. run \in [Reloaders -> Reload]
    BY DEF RInv, TInv, TypeOK
  <1>2. CASE WatcherFires
    BY <1>1, <1>2 DEF WatcherFires, MayStart, Reloaders
  <1>3. ASSUME NEW a \in Admins, AdminReload(a)
        PROVE  /\ \A s \in Reloaders : ~Busy(s)
               /\ \E r \in Reloaders : /\ run'[r] = [run[r] EXCEPT !.pc = "load"]
                                       /\ \A s \in Reloaders \ {r} : run'[s] = run[s]
               /\ UNCHANGED <<disk, defs, agents, failed, missed>>
    BY <1>1, <1>3 DEF AdminReload, MayStart, Reloaders
  <1> QED
    BY <1>2, <1>3

LEMMA RStep == ~Overlap /\ RInv /\ [Next]_vars => RInv'
  <1> SUFFICES ASSUME ~Overlap, RInv, [Next]_vars PROVE RInv'
    OBVIOUS
  <1>0. TInv' /\ (\A r \in Reloaders : HandsOf(r))
    BY TypeStep DEF RInv
  <1>1. CASE UNCHANGED vars
    BY <1>0, <1>1 DEF vars, RInv, AloneInv, HandsOf, Agrees, Busy, At, Building, Reading
  <1>2. ASSUME NEW n \in Names, Edit(n)
        PROVE  RInv'
    <2>1. \A r \in Reloaders : pending \/ Agrees(run[r].fresh) => (pending \/ Agrees(run[r].fresh))'
      BY <1>2, SeenOrMissed DEF Edit, Agrees, RInv
    <2> QED
      BY <1>0, <1>2, <2>1 DEF Edit, RInv, AloneInv, HandsOf, Busy, At, Building, Reading
  <1>3. CASE WatcherFires \/ \E a \in Admins : AdminReload(a)
    <2>1. PICK r \in Reloaders : /\ run'[r] = [run[r] EXCEPT !.pc = "load"]
                                 /\ \A s \in Reloaders \ {r} : run'[s] = run[s]
      BY <1>3, Starts
    <2>2. \A s \in Reloaders \ {r} : ~Busy(s)' /\ HandsOf(s)'
      BY <1>0, <1>3, <2>1, Starts, RestsInHand
    <2>3. run'[r].pc = "load" /\ run'[r].doomed = {}
      BY <1>0, <1>3, <2>1, Starts DEF HandsOf, RInv, TInv, TypeOK, Reload
    <2>4. HandsOf(r)'
      BY <2>3 DEF HandsOf, At, Building
    <2> QED
      BY <1>0, <2>2, <2>4 DEF RInv, AloneInv
  <1>4. ASSUME NEW r \in Reloaders, ReloadStep(r)
        PROVE  RInv'
    <2>1. \A s \in Reloaders \ {r} : ~Busy(s)' /\ HandsOf(s)'
      BY <1>0, <1>4, OneAtATime, RestsInHand
    <2> QED
      BY <1>0, <1>4, <2>1, HandsKept DEF RInv, AloneInv
  <1> QED
    BY <1>1, <1>2, <1>3, <1>4 DEF Next

LEMMA AlwaysR ==
  ASSUME ~Overlap
  PROVE  Spec => []RInv
  <1>1. Init => RInv
    BY InitAlone DEF AInv
  <1>2. RInv /\ [Next]_vars => RInv'
    BY RStep
  <1> QED
    BY <1>1, <1>2, PTL DEF Spec

\* Without overlap, an agent is taken out of service only when it has no
\* definition any more.
THEOREM RemovedWhenUndefined ==
  ASSUME ~Overlap
  PROVE  Spec => RemovedOnlyIfUndefined
  <1>1. ASSUME RInv, [Next]_vars, NEW n \in Names, agents[n] # {}, agents'[n] = {}
        PROVE  defs[n] = None
    <2>0. agents \in [Names -> Agent]
      BY <1>1 DEF RInv, TInv, TypeOK
    <2>1. PICK r \in Reloaders : EmitDeletion(r) \/ Merge(r) \/ \E o \in Orchs : RegisterOrch(r, o)
      BY <1>1
      DEF Next, vars, Edit, WatcherFires, AdminReload, ReloadStep, Load, Swap, EmitChange,
          ReloadEnds, Collect, BuildEnds, BuildOrch, OrchFails
    <2>2. HandsOf(r)
      BY <1>1 DEF RInv
    <2>3. CASE EmitDeletion(r)
      <3>1. n \in run[r].doomed
        BY <1>1, <2>0, <2>3 DEF EmitDeletion
      <3> QED
        BY <2>2, <3>1 DEF HandsOf
    <2>4. CASE Merge(r)
      <3>1. run[r].plan[n] = None
        BY <1>1, <2>4 DEF Merge
      <3> QED
        BY <2>2, <2>4, <3>1 DEF HandsOf, Merge
    <2>5. ASSUME NEW o \in Orchs, RegisterOrch(r, o)
          PROVE  FALSE
      BY <1>1, <2>0, <2>5 DEF RegisterOrch
    <2> QED
      BY <2>1, <2>3, <2>4, <2>5
  <1>2. RInv /\ [Next]_vars =>
          [\A n \in Names : agents[n] # {} /\ agents'[n] = {} => defs[n] = None]_vars
    BY <1>1
  <1> QED
    BY <1>2, AlwaysR, PTL DEF Spec, RemovedOnlyIfUndefined

----------------------------------------------------------------------------
(* The agents, step by step.                                               *)

\* What a reload has to show for its agents.
AgentsOf(r) ==
  /\ OrchsOf(r) /\ BuiltOf(r)
  /\ ~Busy(r) \/ Reading(r) => Built({})
  /\ pending \/ Reading(r) \/ Agrees(defs)

LEMMA HasAgents ==
  ASSUME AInv, NEW r \in Reloaders, Busy(r)
  PROVE  HandsOf(r) /\ AgentsOf(r)
  <1>1. \A s \in Reloaders \ {r} : ~Busy(s) /\ ~Reading(s)
    BY DEF AInv, RInv, AloneInv, Busy, Reading
  <1> QED
    BY <1>1 DEF AInv, RInv, AgentsOf

LEMMA RestsWithAgents ==
  ASSUME AInv, NEW r \in Reloaders, ~Busy(r), run'[r] = run[r]
  PROVE  ~Busy(r)' /\ ~Reading(r)' /\ OrchsOf(r)' /\ BuiltOf(r)'
  BY DEF AInv, OrchsOf, BuiltOf, Busy, Building, Reading, At

\* The agents called for are the same while definitions and plain agents are.
LEMMA CalledStays ==
  ASSUME Flat, defs' = defs, \A n \in Leaves : agents'[n] = agents[n]
  PROVE  \A n \in Names : Called(n)' = Called(n)
  <1>1. ASSUME NEW o \in Orchs
        PROVE  {agents'[s] : s \in Subs[o]} = {agents[s] : s \in Subs[o]}
    BY DEF Flat
  <1> QED
    BY <1>1 DEF Called

LEMMA BuiltStays ==
  ASSUME Flat, UNCHANGED <<defs, agents>>, NEW O, NEW P, failed \cup O \subseteq failed' \cup P,
         Built(O)
  PROVE  Built(P)'
  <1>1. \A n \in Names : Called(n)' = Called(n)
    BY CalledStays
  <1> QED
    BY <1>1 DEF Built

\* What a reload shows depends on definitions, agents and reloads only.
LEMMA AgentsStay ==
  ASSUME UNCHANGED <<defs, agents, failed, run>>
  PROVE  /\ \A r \in Reloaders : (Busy(r)' <=> Busy(r)) /\ (Reading(r)' <=> Reading(r))
         /\ \A r \in Reloaders : OrchsOf(r) => OrchsOf(r)'
         /\ \A r \in Reloaders : BuiltOf(r) => BuiltOf(r)'
         /\ Built({}) => Built({})'
  <1>1. \A n \in Names : Called(n)' = Called(n)
    BY DEF Called
  <1>2. \A O : Built(O) => Built(O)'
    BY <1>1 DEF Built
  <1>3. ASSUME NEW r \in Reloaders, OrchsOf(r)
        PROVE  OrchsOf(r)'
    BY <1>1, <1>3 DEF OrchsOf, At, Names
  <1>4. ASSUME NEW r \in Reloaders, BuiltOf(r)
        PROVE  BuiltOf(r)'
    BY <1>2, <1>4 DEF BuiltOf, Building, At, Emptied
  <1> QED
    BY <1>2, <1>3, <1>4 DEF Busy, Reading

LEMMA MergeBuilds ==
  ASSUME RInv, Flat, NEW r \in Reloaders, Merge(r)
  PROVE  Built(run[r].orchs)'
  <1>1. run[r].plan = defs /\ defs \in Versions
    BY DEF RInv, TInv, TypeOK, HandsOf, Merge, At
  <1>2. PICK bad \in Failures(r) :
          /\ failed' = bad \cup (failed \cap Orchs \cap Present(defs))
          /\ agents' = [n \in Names |->
                          IF defs[n] = None THEN {}
                          ELSE IF n \in Leaves \ bad THEN {<<n, defs[n]>>} ELSE agents[n]]
    BY <1>1 DEF Merge
  <1>3. defs' = defs /\ run'[r].orchs = Orchs \cap Present(defs)
    BY <1>1 DEF Merge, RInv, TInv, TypeOK, Reload
  <1>4. ASSUME NEW n \in Names, n \notin failed', n \notin run'[r].orchs
        PROVE  agents'[n] = Called(n)'
    <2>1. CASE defs[n] = None
      BY <1>2, <1>3, <2>1 DEF Called
    <2>2. CASE defs[n] # None
      <3>1. n \in Leaves \ bad /\ n \notin Orchs
        BY <1>2, <1>3, <1>4, <2>2, NamesAssumption DEF Present, Names
      <3> QED
        BY <1>2, <1>3, <2>2, <3>1 DEF Called
    <2> QED
      BY <2>1, <2>2
  <1>5. \A n \in Names : defs'[n] = None => agents'[n] = {}
    BY <1>2, <1>3
  <1> QED
    BY <1>4, <1>5 DEF Built

LEMMA RegisterBuilds ==
  ASSUME AInv, Flat, NEW r \in Reloaders, NEW o \in Orchs, RegisterOrch(r, o)
  PROVE  Built(run[r].orchs)'
  <1>0. agents \in [Names -> Agent]
    BY DEF AInv, RInv, TInv, TypeOK
  <1>1. /\ o \in run[r].orchs /\ run[r].hand[o] = Called(o) /\ Built(run[r].orchs)
    BY DEF AInv, OrchsOf, BuiltOf, RegisterOrch, Building, At
  <1>2. o \in Names /\ defs[o] # None
    BY <1>1 DEF RegisterOrch, Called, Names
  <1>3. /\ agents'[o] = Called(o) /\ \A n \in Names \ {o} : agents'[n] = agents[n]
        /\ failed' = failed \ {o} /\ defs' = defs
    BY <1>0, <1>1, <1>2 DEF RegisterOrch
  <1>4. \A n \in Names : Called(n)' = Called(n)
    BY <1>3, CalledStays, NamesAssumption DEF Names
  <1>5. ASSUME NEW n \in Names
        PROVE  /\ defs'[n] = None => agents'[n] = {}
               /\ n \notin failed' \cup run'[r].orchs => agents'[n] = Called(n)'
    <2>1. CASE n = o
      BY <1>2, <1>3, <1>4, <2>1
    <2>2. CASE n # o
      <3>1. run'[r].orchs = run[r].orchs \ {o}
        BY DEF RegisterOrch, AInv, RInv, TInv, TypeOK, Reload
      <3> QED
        BY <1>1, <1>3, <1>4, <2>2, <3>1 DEF Built
    <2> QED
      BY <2>1, <2>2
  <1> QED
    BY <1>5 DEF Built

LEMMA AgentsKept ==
  ASSUME AInv, Flat, NEW r \in Reloaders, ReloadStep(r)
  PROVE  AgentsOf(r)'
  <1> USE DEF At, Building, Reading, Busy
  <1>0. run \in [Reloaders -> Reload] /\ run[r] \in Reload /\ defs \in Versions
        /\ agents \in [Names -> Agent]
    BY DEF AInv, RInv, TInv, TypeOK
  <1>1. /\ HandsOf(r) /\ AgentsOf(r) /\ UNCHANGED <<disk, pending>> /\ RInv
        /\ run[r].pc # "load" => missed' = missed
    BY OneAtATime, HasAgents DEF AInv, Load
  <1>2. ASSUME ~Building(r), run'[r].hand = run[r].hand
        PROVE  OrchsOf(r)'
    BY <1>1, <1>2 DEF AgentsOf, OrchsOf
  <1>agrees. ASSUME ~Reading(r), defs' = defs
             PROVE  pending' \/ Agrees(defs)'
    BY <1>1, <1>agrees DEF AgentsOf, Agrees
  <1>3. CASE Load(r)
    <2>1. /\ run'[r].pc = "swap" /\ run'[r].hand = run[r].hand
          /\ UNCHANGED <<defs, agents, failed>>
      BY <1>0, <1>3 DEF Load, Reload
    <2>2. Built({})'
      BY <1>1, <1>3, <2>1, BuiltStays DEF Load, AgentsOf
    <2> QED
      BY <1>2, <1>3, <2>1, <2>2 DEF Load, AgentsOf, BuiltOf
  <1>4. CASE Swap(r)
    <2>1. /\ run'[r].pc = "emit" /\ run'[r].doomed = Present(defs) \ Present(run[r].fresh)
          /\ run'[r].events = Cardinality(Present(run[r].fresh))
          /\ run'[r].hand = run[r].hand /\ defs' = run[r].fresh /\ UNCHANGED <<agents, failed>>
      BY <1>0, <1>4 DEF Swap, Reload
    <2>2. Built({}) /\ (pending \/ Agrees(run[r].fresh)) /\ missed' = missed
      BY <1>1, <1>4 DEF Swap, AgentsOf, HandsOf
    <2>3. ASSUME run'[r].events = 0
          PROVE  Emptied(r)'
      <3>1. run[r].fresh \in Versions
        BY <1>0 DEF Reload
      <3>2. Present(run[r].fresh) = {}
        BY <2>1, <2>3, <3>1, PresentCount
      <3> QED
        BY <2>1, <2>2, <3>2 DEF Built, Emptied, Present
    <2>4. OrchsOf(r)'
      BY <1>2, <1>4, <2>1 DEF Swap
    <2>5. BuiltOf(r)'
      BY <2>1, <2>3 DEF BuiltOf
    <2>6. pending' \/ Agrees(defs)'
      BY <1>1, <2>1, <2>2 DEF Agrees
    <2> QED
      BY <2>1, <2>4, <2>5, <2>6 DEF AgentsOf
  <1>5. CASE EmitChange(r) \/ Collect(r)
    <2>1. /\ run'[r].pc \in {"collect", "merge"} /\ run'[r].hand = run[r].hand
          /\ run[r].pc \in {"emit", "collect"} /\ UNCHANGED <<defs, agents, failed>>
      BY <1>0, <1>5 DEF EmitChange, Collect, Reload
    <2> QED
      BY <1>1, <1>agrees, <1>2, <2>1 DEF AgentsOf, BuiltOf
  <1>6. CASE EmitDeletion(r)
    <2>1. PICK n \in run[r].doomed : /\ run' = [run EXCEPT ![r].doomed = @ \ {n}]
                                     /\ agents' = [agents EXCEPT ![n] = {}]
      BY <1>6 DEF EmitDeletion
    <2>2. /\ run'[r].pc = "emit" /\ run'[r].doomed = run[r].doomed \ {n}
          /\ run'[r].hand = run[r].hand /\ run[r].pc = "emit" /\ run[r].events = 0
          /\ UNCHANGED <<defs, failed>>
      BY <1>0, <1>6, <2>1 DEF EmitDeletion, Reload
    <2>3. n \in Names /\ defs[n] = None
      BY <1>0, <1>1 DEF HandsOf, Reload
    <2>4. CASE Built({})
      <3>1. agents' = agents
        BY <1>0, <2>1, <2>3, <2>4 DEF Built
      <3>2. Built({})'
        BY <2>2, <2>4, <3>1, BuiltStays
      <3> QED
        BY <1>1, <1>agrees, <1>2, <2>2, <3>2 DEF AgentsOf, BuiltOf
    <2>5. CASE Emptied(r)
      <3>1. Emptied(r)'
        BY <1>0, <2>1, <2>2, <2>5 DEF Emptied
      <3> QED
        BY <1>1, <1>agrees, <1>2, <2>2, <3>1 DEF AgentsOf, BuiltOf
    <2> QED
      BY <1>1, <2>2, <2>4, <2>5 DEF AgentsOf, BuiltOf
  <1>7. CASE ReloadEnds(r)
    <2>1. /\ run'[r].pc \in {"idle", "done"} /\ run'[r].hand = run[r].hand
          /\ UNCHANGED <<defs, agents, failed>>
      BY <1>0, <1>7 DEF ReloadEnds, Reload
    <2>2. Built({})
      <3>1. Built({}) \/ Emptied(r)
        BY <1>1, <1>7 DEF ReloadEnds, AgentsOf, BuiltOf
      <3>2. Emptied(r) => Built({})
        BY <1>7 DEF ReloadEnds, Emptied, Built, Called
      <3> QED
        BY <3>1, <3>2
    <2>3. Built({})'
      BY <2>1, <2>2, BuiltStays
    <2> QED
      BY <1>1, <1>agrees, <1>2, <1>7, <2>1, <2>3 DEF ReloadEnds, AgentsOf, BuiltOf
  <1>8. CASE Merge(r)
    <2>1. run'[r].pc = "build" /\ run'[r].hand = run[r].hand /\ defs' = defs
      BY <1>0, <1>8 DEF Merge, Reload
    <2>2. OrchsOf(r)'
      BY <1>2, <1>8, <2>1 DEF Merge
    <2>3. BuiltOf(r)'
      BY <1>1, <1>8, <2>1, MergeBuilds DEF BuiltOf
    <2>4. pending' \/ Agrees(defs)'
      BY <1>1, <1>8, <2>1 DEF Merge, AgentsOf, Agrees
    <2> QED
      BY <2>1, <2>2, <2>3, <2>4 DEF AgentsOf
  <1>9. CASE BuildEnds(r)
    <2>1. /\ run'[r].pc = "emit" /\ run'[r].hand = run[r].hand
          /\ UNCHANGED <<defs, agents, failed>>
      BY <1>0, <1>9 DEF BuildEnds, Reload
    <2>2. Built({}) /\ \A o \in Orchs : run[r].hand[o] = {}
      BY <1>1, <1>9 DEF BuildEnds, AgentsOf, BuiltOf, OrchsOf
    <2>3. Built({})'
      BY <2>1, <2>2, BuiltStays
    <2> QED
      BY <1>1, <1>agrees, <1>9, <2>1, <2>2, <2>3 DEF BuildEnds, AgentsOf, BuiltOf, OrchsOf
  <1>10. ASSUME NEW o \in Orchs, BuildOrch(r, o)
         PROVE  AgentsOf(r)'
    <2> DEFINE a == {<<o, run[r].plan[o]>>} \cup UNION {agents[s] : s \in Subs[o]}
    <2>1. /\ run'[r].pc = "register" /\ run'[r].hand = [run[r].hand EXCEPT ![o] = a]
          /\ run'[r].orchs = run[r].orchs /\ run[r].pc = "build" /\ o \in run[r].orchs
          /\ UNCHANGED <<defs, agents, failed>>
      BY <1>0, <1>10 DEF BuildOrch, Reload
    <2>2. /\ \A p \in Orchs : run[r].hand[p] = {}
          /\ Built(run[r].orchs) /\ run[r].plan = defs
          /\ run[r].hand \in [Orchs -> Agent]
      BY <1>0, <1>1, <2>1 DEF AgentsOf, BuiltOf, OrchsOf, HandsOf, Reload
    <2>3. o \in Present(defs)
      BY <1>1, <2>1, <2>2 DEF RInv, TInv, PlanInv
    <2>4. a = Called(o)
      BY <2>2, <2>3 DEF Called, Present
    <2> HIDE DEF a
    <2>5. Called(o)' = Called(o)
      BY <2>1, CalledStays DEF Names
    <2>6. /\ run'[r].hand[o] = Called(o)'
          /\ \A p \in Orchs \ {o} : run'[r].hand[p] = {}
      BY <2>1, <2>2, <2>4, <2>5
    <2>7. OrchsOf(r)'
      BY <2>1, <2>6 DEF OrchsOf
    <2>8. Built(run[r].orchs)'
      BY <2>1, <2>2, BuiltStays
    <2> QED
      BY <1>1, <1>agrees, <2>1, <2>7, <2>8 DEF AgentsOf, BuiltOf
  <1>11. ASSUME NEW o \in Orchs, OrchFails(r, o)
         PROVE  AgentsOf(r)'
    <2>1. /\ run'[r].pc = "build" /\ run'[r].hand = run[r].hand
          /\ run'[r].orchs = run[r].orchs \ {o} /\ run[r].pc = "build"
          /\ UNCHANGED <<defs, agents>> /\ failed' = failed \cup {o}
      BY <1>0, <1>11 DEF OrchFails, Reload
    <2>2. (\A p \in Orchs : run[r].hand[p] = {}) /\ Built(run[r].orchs)
      BY <1>1, <2>1 DEF AgentsOf, BuiltOf, OrchsOf
    <2>3. Built(run[r].orchs)'
      BY <2>1, <2>2, BuiltStays
    <2> QED
      BY <1>1, <1>agrees, <2>1, <2>2, <2>3 DEF AgentsOf, BuiltOf, OrchsOf
  <1>12. ASSUME NEW o \in Orchs, RegisterOrch(r, o)
         PROVE  AgentsOf(r)'
    <2>1. /\ run'[r].pc = "build" /\ run'[r].hand = [run[r].hand EXCEPT ![o] = {}]
          /\ run'[r].orchs = run[r].orchs \ {o} /\ run[r].pc = "register"
          /\ defs' = defs /\ run[r].hand[o] # {} /\ run[r].hand \in [Orchs -> Agent]
      BY <1>0, <1>12 DEF RegisterOrch, Reload
    <2>2. \A p \in Orchs : run'[r].hand[p] = {}
      BY <1>1, <2>1 DEF AgentsOf, OrchsOf
    <2> QED
      BY <1>1, <1>agrees, <1>12, <2>1, <2>2, RegisterBuilds DEF AgentsOf, BuiltOf, OrchsOf
  <1> QED
    BY <1>3, <1>4, <1>5, <1>6, <1>7, <1>8, <1>9, <1>10, <1>11, <1>12 DEF ReloadStep

LEMMA AStep == ~Overlap /\ Flat /\ AInv /\ [Next]_vars => AInv'
  <1> SUFFICES ASSUME ~Overlap, Flat, AInv, [Next]_vars PROVE AInv'
    OBVIOUS
  <1>0. RInv /\ RInv'
    BY RStep DEF AInv
  <1>1. CASE UNCHANGED vars
    <2>1. UNCHANGED <<defs, agents, failed, run>> /\ UNCHANGED <<disk, pending, missed>>
      BY <1>1 DEF vars
    <2>2. Agrees(defs) => Agrees(defs)'
      BY <2>1 DEF Agrees
    <2> QED
      BY <1>0, <2>1, <2>2, AgentsStay DEF AInv
  <1>2. ASSUME NEW n \in Names, Edit(n)
        PROVE  AInv'
    <2>1. UNCHANGED <<defs, agents, failed, run>> /\ (pending => pending')
      BY <1>2 DEF Edit
    <2>2. Agrees(defs) => (pending \/ Agrees(defs))'
      BY <1>0, <1>2, <2>1, SeenOrMissed DEF Agrees, RInv
    <2> QED
      BY <1>0, <2>1, <2>2, AgentsStay DEF AInv
  <1>3. CASE WatcherFires \/ \E a \in Admins : AdminReload(a)
    <2>1. /\ \A s \in Reloaders : ~Busy(s)
          /\ UNCHANGED <<disk, defs, agents, failed, missed>>
      BY <1>0, <1>3, Starts
    <2>2. PICK r \in Reloaders : /\ run'[r] = [run[r] EXCEPT !.pc = "load"]
                                 /\ \A s \in Reloaders \ {r} : run'[s] = run[s]
      BY <1>0, <1>3, Starts
    <2>3. run'[r].pc = "load" /\ run'[r].hand = run[r].hand
      BY <1>0, <2>2 DEF RInv, TInv, TypeOK, Reload
    <2>4. OrchsOf(r)' /\ BuiltOf(r)' /\ Reading(r)'
      BY <2>1, <2>3 DEF AInv, OrchsOf, BuiltOf, At, Building, Reading, Busy
    <2>5. Built({})'
      BY <2>1, BuiltStays DEF AInv
    <2>6. \A s \in Reloaders \ {r} : OrchsOf(s)' /\ BuiltOf(s)'
      BY <2>1, <2>2, RestsWithAgents
    <2> QED
      BY <1>0, <2>4, <2>5, <2>6 DEF AInv
  <1>4. ASSUME NEW r \in Reloaders, ReloadStep(r)
        PROVE  AInv'
    <2>1. \A s \in Reloaders \ {r} : OrchsOf(s)' /\ BuiltOf(s)' /\ ~Busy(s)'
      BY <1>0, <1>4, OneAtATime, RestsWithAgents
    <2>2. AgentsOf(r)'
      BY <1>4, AgentsKept
    <2> QED
      BY <1>0, <2>1, <2>2 DEF AInv, AgentsOf
  <1> QED
    BY <1>1, <1>2, <1>3, <1>4 DEF Next

\* Without overlap, and if orchestration agents hold plain ones only, a registry
\* at rest is what the directory says, wherever its files lie; but for failed
\* builds, and changes in subdirectories that no reload has read.
THEOREM RegistryFollows ==
  ASSUME ~Overlap, Flat
  PROVE  Spec => []SettledMirrorsDirectory
  <1>1. AInv /\ [Next]_vars => AInv'
    BY AStep
  <1>2. AInv => SettledMirrorsDirectory
    <2> SUFFICES ASSUME AInv, ~pending, \A r \in Reloaders : ~Busy(r),
                        NEW n \in Names, n \notin failed \cup missed
                 PROVE  agents[n] = Wanted(n)
      BY DEF SettledMirrorsDirectory, Mirrors
    <2>1. Built({}) /\ defs[n] = Parsed(disk)[n]
      BY DEF AInv, Reading, Busy, Agrees
    <2>2. Called(n) = Wanted(n)
      BY <2>1 DEF Called, Wanted
    <2> QED
      BY <2>1, <2>2 DEF Built
  <1> QED
    BY <1>1, <1>2, InitAlone, PTL DEF Spec
============================================================================
