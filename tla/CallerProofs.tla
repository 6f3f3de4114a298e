---------------------------- MODULE CallerProofs -----------------------------
(* Theorems about the callers of the Runtime: about Sidecar, for any intents  *)
(* and any number of Runtime processes, launches, saves, submissions and      *)
(* crashes, and about McpAdapter, for any tools, any script of the host, any   *)
(* rate and window and any number of lines and restarts.                      *)
EXTENDS Sidecar, McpAdapter, FiniteSetTheorems, TLAPS

-----------------------------------------------------------------------------
(* The inductive invariant.                                                 *)

States == {"none", "booting", "owner", "serving", "dead"}
Settings == [key : 0 .. MaxSaves, file : 0 .. MaxSaves]
Loops == [pc : {"off", "sleep", "polling", "healthy", "unhealthy"},
          port : Procs \cup {NoProc}, late : BOOLEAN]
Flows == [pc : {"idle", "posting", "posted", "saved", "declined", "killing",
                "spawning", "storing", "done", "failed"},
          to : Procs \cup {NoProc}, wrote : BOOLEAN,
          victim : Procs \cup {NoProc}, fresh : Procs \cup {NoProc}]
Posts == [intent : Intents, try : 1 .. MaxTries, to : Procs, answered : BOOLEAN]

AppTyped ==
  /\ app \in {"up", "quit1", "between", "quit2", "exiting", "down"}
  /\ launches \in 0 .. MaxLaunches /\ crashes \in 0 .. MaxCrashes
  /\ dying \in Procs \cup {NoProc}

\* A phase that is not failed has a port to speak of.
InnerTyped ==
  /\ phase \in {"starting", "ready", "failed"}
  /\ {child, port} \subseteq Procs \cup {NoProc}
  /\ phase # "failed" => port \in Procs

ProcTyped ==
  /\ proc \in [Procs -> States]
  /\ conf \in [Procs -> Settings]
  /\ stored \in Settings

\* A restart that has spawned knows its process.
ThreadsTyped ==
  /\ loop \in [Procs -> Loops]
  /\ flow \in [Saves -> Flows]
  /\ \A s \in Saves : flow[s].pc = "storing" => flow[s].fresh \in Procs

TaskTyped ==
  /\ ui \in [Intents -> {"new", "pending", "failed", "accepted", "gone"}]
  /\ tries \in [Intents -> 0 .. MaxTries]
  /\ reqs \subseteq Posts
  /\ row \in [Intents -> {"none", "live", "ended", "interrupted"}]
  /\ owner \in [Intents -> Procs \cup {NoProc}]
  /\ made \in [Intents -> 0 .. MaxTries]

HistTyped == overlapped \in BOOLEAN /\ crossed \in BOOLEAN

Typed ==
  AppTyped /\ InnerTyped /\ ProcTyped /\ ThreadsTyped /\ TaskTyped /\ HistTyped

\* The lock of the data directory has one holder.
OneHolder == \A p, q \in Holders : p = q

\* A persisted execution ran in a process that served.
OwnerServed ==
  \A i \in Intents : row[i] # "none" =>
    owner[i] \in Procs /\ proc[owner[i]] \in {"serving", "dead"}

\* The first row of a key is the only one.
MadeOnce == \A i \in Intents : made[i] = IF row[i] = "none" THEN 0 ELSE 1

\* An answer carries a row that is persisted.
AnswersPersisted == \A r \in reqs : r.answered => row[r.intent] # "none"

Inv ==
  /\ Typed /\ OneHolder /\ OwnerServed /\ MadeOnce /\ AnswersPersisted
  /\ InterruptedOnlyDead /\ AcceptedIsPersisted

-----------------------------------------------------------------------------
(* Types.                                                                   *)

LEMMA ProcsNat == Procs \subseteq Nat /\ Saves \subseteq Nat /\ NoProc \notin Procs
BY BoundsAssumption DEF Procs, Saves, NoProc

\* The steps of Next, those of one thread taken apart.
LEMMA Steps ==
  ASSUME Next
  PROVE  \/ Launch \/ ShutdownTake \/ ShutdownKill \/ Exit \/ ApplicationCrashes
         \/ ClearSecret
         \/ \E p \in Procs : \/ AcquireLock(p) \/ CreateServer(p) \/ ProcessDies(p)
                             \/ LoopChecks(p) \/ LoopPolls(p) \/ LoopReports(p) \/ Deadline(p)
         \/ \E s \in Saves : \/ StoreSecret(s) \/ PostConfig(s) \/ WriteConfig(s)
                             \/ ConfigAnswer(s) \/ DeclineRestart(s) \/ RestartTake(s)
                             \/ RestartKill(s) \/ RestartSpawn(s) \/ RestartStore(s)
         \/ \E i \in Intents : Submit(i) \/ SubmitFails(i) \/ CloseDialog(i) \/ TaskEnds(i)
         \/ \E r \in reqs : HandleSubmit(r) \/ SubmitSucceeds(r)
BY DEF Next, RuntimeStep, LoopStep, RestartStep

LEMMA AppNext == ASSUME Typed, Next PROVE AppTyped'
<1> USE DEF Typed, AppTyped
<1>1. CASE Launch
  BY <1>1, BoundsAssumption DEF Launch
<1>2. CASE ShutdownTake
  BY <1>2 DEF ShutdownTake, InnerTyped
<1>3. CASE ShutdownKill
  BY <1>3 DEF ShutdownKill
<1>4. CASE Exit
  BY <1>4 DEF Exit
<1>5. CASE ApplicationCrashes
  BY <1>5, BoundsAssumption DEF ApplicationCrashes
<1>6. ASSUME NEW p \in Procs, ProcessDies(p) PROVE AppTyped'
  BY <1>6, BoundsAssumption DEF ProcessDies
<1>7. ASSUME NEW p \in Procs, \/ AcquireLock(p) \/ CreateServer(p) \/ LoopChecks(p)
                              \/ LoopPolls(p) \/ LoopReports(p) \/ Deadline(p)
      PROVE  AppTyped'
  BY <1>7
  DEF AcquireLock, CreateServer, LoopChecks, LoopPolls, LoopReports, Deadline, appVars
<1>8. ASSUME NEW s \in Saves, \/ StoreSecret(s) \/ PostConfig(s) \/ WriteConfig(s)
                              \/ ConfigAnswer(s) \/ DeclineRestart(s) \/ RestartTake(s)
                              \/ RestartKill(s) \/ RestartSpawn(s) \/ RestartStore(s)
      PROVE  AppTyped'
  BY <1>8 DEF StoreSecret, PostConfig, WriteConfig, ConfigAnswer, DeclineRestart,
              RestartTake, RestartKill, RestartSpawn, RestartStore, appVars
<1>9. ASSUME NEW i \in Intents, Submit(i) \/ SubmitFails(i) \/ CloseDialog(i) \/ TaskEnds(i)
      PROVE  AppTyped'
  BY <1>9 DEF Submit, SubmitFails, CloseDialog, TaskEnds, appVars
<1>10. ASSUME NEW r \in reqs, HandleSubmit(r) \/ SubmitSucceeds(r) PROVE AppTyped'
  BY <1>10 DEF HandleSubmit, SubmitSucceeds, appVars
<1>11. CASE ClearSecret
  BY <1>11 DEF ClearSecret, appVars
<1> HIDE DEF Typed, AppTyped
<1> QED
  BY <1>1, <1>2, <1>3, <1>4, <1>5, <1>6, <1>7, <1>8, <1>9, <1>10, <1>11, Steps

LEMMA InnerNext == ASSUME Typed, Next PROVE InnerTyped'
<1> USE DEF Typed, InnerTyped
<1>1. CASE Launch
  BY <1>1 DEF Launch
<1>2. CASE ShutdownTake \/ ShutdownKill \/ Exit \/ ApplicationCrashes
  BY <1>2 DEF ShutdownTake, ShutdownKill, Exit, ApplicationCrashes, innerVars
<1>3. ASSUME NEW p \in Procs, LoopChecks(p) PROVE InnerTyped'
  BY <1>3 DEF LoopChecks
<1>4. ASSUME NEW p \in Procs, LoopReports(p) PROVE InnerTyped'
  BY <1>4 DEF LoopReports
<1>5. ASSUME NEW p \in Procs, \/ AcquireLock(p) \/ CreateServer(p) \/ ProcessDies(p)
                              \/ LoopPolls(p) \/ Deadline(p)
      PROVE  InnerTyped'
  BY <1>5 DEF AcquireLock, CreateServer, ProcessDies, LoopPolls, Deadline, innerVars
<1>6. ASSUME NEW s \in Saves, RestartTake(s) PROVE InnerTyped'
  BY <1>6 DEF RestartTake
<1>7. ASSUME NEW s \in Saves, RestartSpawn(s) PROVE InnerTyped'
  BY <1>7 DEF RestartSpawn
<1>8. ASSUME NEW s \in Saves, RestartStore(s) PROVE InnerTyped'
  BY <1>8 DEF RestartStore, Step, ThreadsTyped
<1>9. ASSUME NEW s \in Saves, \/ StoreSecret(s) \/ PostConfig(s) \/ WriteConfig(s)
                              \/ ConfigAnswer(s) \/ DeclineRestart(s) \/ RestartKill(s)
      PROVE  InnerTyped'
  BY <1>9 DEF StoreSecret, PostConfig, WriteConfig, ConfigAnswer, DeclineRestart,
              RestartKill, innerVars
<1>10. ASSUME NEW i \in Intents, Submit(i) \/ SubmitFails(i) \/ CloseDialog(i) \/ TaskEnds(i)
      PROVE  InnerTyped'
  BY <1>10 DEF Submit, SubmitFails, CloseDialog, TaskEnds, innerVars
<1>11. ASSUME NEW r \in reqs, HandleSubmit(r) \/ SubmitSucceeds(r) PROVE InnerTyped'
  BY <1>11 DEF HandleSubmit, SubmitSucceeds, innerVars
<1>12. CASE ClearSecret
  BY <1>12 DEF ClearSecret, innerVars
<1> HIDE DEF Typed, InnerTyped
<1> QED
  BY <1>1, <1>2, <1>3, <1>4, <1>5, <1>6, <1>7, <1>8, <1>9, <1>10, <1>11, <1>12, Steps

LEMMA HistNext == ASSUME Typed, Next PROVE HistTyped'
<1>1. overlapped \in BOOLEAN /\ crossed \in BOOLEAN
  BY DEF Typed, HistTyped
<1>2. UNCHANGED overlapped \/ \E s \in Saves : StoreSecret(s)
  BY Steps DEF histVars, Launch, ShutdownTake, ShutdownKill, Exit, ApplicationCrashes,
     ClearSecret, AcquireLock, CreateServer, ProcessDies, LoopChecks, LoopPolls, LoopReports,
     Deadline, PostConfig, WriteConfig, ConfigAnswer, DeclineRestart, RestartTake,
     RestartKill, RestartSpawn, RestartStore, Submit, SubmitFails, CloseDialog, TaskEnds,
     HandleSubmit, SubmitSucceeds
<1>3. UNCHANGED crossed \/ \E s \in Saves : RestartStore(s)
  BY Steps DEF histVars, Launch, ShutdownTake, ShutdownKill, Exit, ApplicationCrashes,
     ClearSecret, AcquireLock, CreateServer, ProcessDies, LoopChecks, LoopPolls, LoopReports,
     Deadline, StoreSecret, PostConfig, WriteConfig, ConfigAnswer, DeclineRestart,
     RestartTake, RestartKill, RestartSpawn, Submit, SubmitFails, CloseDialog, TaskEnds,
     HandleSubmit, SubmitSucceeds
<1>4. overlapped' \in BOOLEAN
  BY <1>1, <1>2, Zenon DEF StoreSecret
<1>5. crossed' \in BOOLEAN
  BY <1>1, <1>3, Zenon DEF RestartStore
<1> QED
  BY <1>4, <1>5 DEF HistTyped

\* How a step moves the processes: one is spawned, boots, serves or dies.
LEMMA KilledTyped ==
  ASSUME ProcTyped, NEW S, proc' = Killed(S)
  PROVE  /\ proc' \in [Procs -> States]
         /\ \A p \in Procs :
              proc'[p] = proc[p] \/ (proc'[p] = "dead" /\ Alive(p))
         /\ \A p \in S \cap Procs : ~Alive(p)'
<1>1. proc' = [p \in Procs |-> IF p \in S /\ Alive(p) THEN "dead" ELSE proc[p]]
  BY DEF Killed
<1>2. \A p \in Procs : proc[p] \in States /\ "dead" \in States
  BY DEF ProcTyped, States
<1>3. \A p \in S \cap Procs : ~Alive(p)'
  BY <1>1 DEF Alive
<1> QED
  BY <1>1, <1>2, <1>3

LEMMA SpawnedTyped ==
  ASSUME ProcTyped, NEW p \in Procs, Spawned(p)
  PROVE  /\ proc' \in [Procs -> States] /\ conf' \in [Procs -> Settings]
         /\ proc[p] = "none" /\ proc'[p] = "booting"
         /\ \A q \in Procs : q # p => proc'[q] = proc[q] /\ conf'[q] = conf[q]
         /\ conf'[p].key \in {stored.key, 0} /\ conf'[p].file = conf[p].file
<1>1. /\ proc \in [Procs -> States] /\ conf \in [Procs -> Settings]
      /\ conf[p] \in Settings /\ stored \in Settings
  BY DEF ProcTyped
<1>a. PICK key \in {stored.key, 0} : conf' = [conf EXCEPT ![p].key = key]
  BY DEF Spawned
<1>2. key \in 0 .. MaxSaves
  BY <1>1, BoundsAssumption DEF Settings
<1> DEFINE new == [conf[p] EXCEPT !.key = key]
<1>3. new \in Settings /\ new.key = key /\ new.file = conf[p].file
  BY <1>1, <1>2 DEF Settings
<1>4. conf' = [conf EXCEPT ![p] = new]
  BY <1>a
<1> HIDE DEF new
<1> QED
  BY <1>1, <1>a, <1>3, <1>4 DEF Spawned, Spawnable, States

LEMMA SavesTyped == ASSUME NEW s \in Saves PROVE s \in 0 .. MaxSaves
BY BoundsAssumption DEF Saves

\* A step that spawns nothing leaves no process more alive than it was.
Moves(p) ==
  \/ proc'[p] = proc[p]
  \/ /\ proc'[p] = "dead"
     /\ proc[p] \in {"booting", "owner", "serving"}
  \/ /\ proc[p] = "none"
     /\ proc'[p] = "booting"
  \/ /\ proc[p] = "booting" /\ AcquireLock(p)
     /\ proc'[p] = "owner"
  \/ /\ proc[p] = "owner"
     /\ proc'[p] = "serving" /\ row' = Recovered

LEMMA ProcNext ==
  ASSUME Typed, Next PROVE ProcTyped' /\ \A p \in Procs : Moves(p)
<1> DEFINE Goal == ProcTyped' /\ \A p \in Procs : Moves(p)
<1>0. ProcTyped
  BY DEF Typed
<1>1. CASE Launch
  <2>1. CASE \E p \in Procs : Spawned(p)
    BY <1>0, <1>1, <2>1, SpawnedTyped DEF Launch, ProcTyped, Moves
  <2>2. CASE UNCHANGED <<proc, conf>>
    BY <1>0, <1>1, <2>2 DEF Launch, ProcTyped, Moves
  <2> QED
    BY <1>1, <2>1, <2>2 DEF Launch
<1>2. CASE ShutdownTake \/ Exit \/ ApplicationCrashes
  BY <1>0, <1>2 DEF ShutdownTake, Exit, ApplicationCrashes, ProcTyped, Moves
<1>3. CASE ShutdownKill
  BY <1>0, <1>3, KilledTyped DEF ShutdownKill, ProcTyped, Moves, Alive
<1>4. ASSUME NEW p \in Procs, AcquireLock(p) PROVE Goal
  BY <1>0, <1>4 DEF AcquireLock, ProcTyped, Moves, States
<1>5. ASSUME NEW p \in Procs, CreateServer(p) PROVE Goal
  <2>1. conf[p] \in Settings /\ stored \in Settings
    BY <1>0 DEF ProcTyped
  <2> DEFINE new == [conf[p] EXCEPT !.file = stored.file]
  <2>2. new \in Settings
    BY <2>1 DEF Settings
  <2>3. conf' = [conf EXCEPT ![p] = new]
    BY <1>5 DEF CreateServer
  <2> HIDE DEF new
  <2> QED
    BY <1>0, <1>5, <2>2, <2>3 DEF CreateServer, ProcTyped, Moves, States
<1>6. ASSUME NEW p \in Procs, ProcessDies(p) PROVE Goal
  BY <1>0, <1>6, KilledTyped DEF ProcessDies, ProcTyped, Moves, Alive
<1>7. ASSUME NEW p \in Procs, LoopChecks(p) \/ LoopPolls(p) \/ LoopReports(p) \/ Deadline(p)
      PROVE  Goal
  BY <1>0, <1>7 DEF LoopChecks, LoopPolls, LoopReports, Deadline, ProcTyped, Moves
<1>8. ASSUME NEW s \in Saves, StoreSecret(s) PROVE Goal
  <2>1. stored' \in Settings
    BY <1>0, <1>8, SavesTyped DEF StoreSecret, ProcTyped, Settings
  <2> QED
    BY <1>0, <1>8, <2>1 DEF StoreSecret, ProcTyped, Moves
<1>9. ASSUME NEW s \in Saves, WriteConfig(s) PROVE Goal
  <2>1. stored' \in Settings
    BY <1>0, <1>9, SavesTyped DEF WriteConfig, ProcTyped, Settings
  <2> QED
    BY <1>0, <1>9, <2>1 DEF WriteConfig, ProcTyped, Moves
<1>10. ASSUME NEW s \in Saves, RestartKill(s) PROVE Goal
  BY <1>0, <1>10, KilledTyped DEF RestartKill, ProcTyped, Moves, Alive
<1>11. ASSUME NEW s \in Saves, RestartSpawn(s) PROVE Goal
  <2>1. CASE \E p \in Procs : Spawned(p)
    BY <1>0, <1>11, <2>1, SpawnedTyped DEF RestartSpawn, ProcTyped, Moves
  <2>2. CASE UNCHANGED <<proc, conf>>
    BY <1>0, <1>11, <2>2 DEF RestartSpawn, ProcTyped, Moves
  <2> QED
    BY <1>11, <2>1, <2>2 DEF RestartSpawn
<1>12. ASSUME NEW s \in Saves, \/ PostConfig(s) \/ ConfigAnswer(s) \/ DeclineRestart(s)
                               \/ RestartTake(s) \/ RestartStore(s)
      PROVE  Goal
  BY <1>0, <1>12 DEF PostConfig, ConfigAnswer, DeclineRestart, RestartTake, RestartStore,
                     ProcTyped, Moves
<1>13. ASSUME NEW i \in Intents, Submit(i) \/ SubmitFails(i) \/ CloseDialog(i) \/ TaskEnds(i)
      PROVE  Goal
  BY <1>0, <1>13 DEF Submit, SubmitFails, CloseDialog, TaskEnds, ProcTyped, Moves
<1>14. ASSUME NEW r \in reqs, HandleSubmit(r) \/ SubmitSucceeds(r) PROVE Goal
  BY <1>0, <1>14 DEF HandleSubmit, SubmitSucceeds, ProcTyped, Moves
<1>15. CASE ClearSecret
  <2>1. stored' \in Settings
    BY <1>0, <1>15, BoundsAssumption DEF ClearSecret, ProcTyped, Settings
  <2> QED
    BY <1>0, <1>15, <2>1 DEF ClearSecret, ProcTyped, Moves
<1> HIDE DEF Goal
<1>16. Goal
  BY <1>1, <1>2, <1>3, <1>4, <1>5, <1>6, <1>7, <1>8, <1>9, <1>10, <1>11, <1>12,
     <1>13, <1>14, <1>15, Steps DEF Goal
<1> QED
  BY <1>16 DEF Goal

\* The health loop of one process, or the save of one number, changes.
LEMMA OneLoop ==
  ASSUME ThreadsTyped, NEW l \in Procs, NEW new \in Loops, loop' = [loop EXCEPT ![l] = new],
         UNCHANGED flow
  PROVE  ThreadsTyped'
BY DEF ThreadsTyped

LEMMA OneFlow ==
  ASSUME ThreadsTyped, NEW s \in Saves, NEW new \in Flows, flow' = [flow EXCEPT ![s] = new],
         UNCHANGED loop, new.pc = "storing" => new.fresh \in Procs
  PROVE  ThreadsTyped'
BY DEF ThreadsTyped

LEMMA Idle == AsleepLoop \in Loops /\ NoLoop \in Loops /\ NoFlow \in Flows
BY DEF AsleepLoop, NoLoop, NoFlow, Loops, Flows

LEMMA ForgetTyped ==
  ASSUME ThreadsTyped, ForgetThreads
  PROVE  /\ ThreadsTyped'
         /\ \A s \in Saves :
              /\ flow'[s].pc \in {"idle", "done", "failed"}
              /\ flow'[s].pc \in {"idle", "done"} => flow'[s] = flow[s]
              /\ flow'[s].to = flow[s].to /\ flow'[s].fresh = flow[s].fresh
<1> DEFINE new(s) == IF flow[s].pc \in {"idle", "done"} THEN flow[s]
                     ELSE [flow[s] EXCEPT !.pc = "failed"]
<1>1. ASSUME NEW s \in Saves
      PROVE  /\ new(s) \in Flows /\ new(s).pc \in {"idle", "done", "failed"}
             /\ new(s).pc \in {"idle", "done"} => new(s) = flow[s]
             /\ new(s).to = flow[s].to /\ new(s).fresh = flow[s].fresh
  <2>1. flow[s] \in Flows
    BY DEF ThreadsTyped
  <2>2. /\ [flow[s] EXCEPT !.pc = "failed"] \in Flows
        /\ [flow[s] EXCEPT !.pc = "failed"].pc = "failed"
        /\ [flow[s] EXCEPT !.pc = "failed"].to = flow[s].to
        /\ [flow[s] EXCEPT !.pc = "failed"].fresh = flow[s].fresh
    BY <2>1 DEF Flows
  <2> QED
    BY <2>1, <2>2
<1>2. flow' = [s \in Saves |-> new(s)]
  BY DEF ForgetThreads
<1> HIDE DEF new
<1>3. loop' \in [Procs -> Loops]
  BY Idle DEF ForgetThreads
<1> QED
  BY <1>1, <1>2, <1>3 DEF ThreadsTyped

\* A save goes from one place to another, not to the end of a restart.
LEMMA StepTyped ==
  ASSUME ThreadsTyped, NEW s \in Saves, NEW from,
         NEW to \in {"posting", "posted", "saved", "declined", "killing", "spawning",
                     "done", "failed"},
         Step(s, from, to), UNCHANGED loop
  PROVE  ThreadsTyped'
<1> DEFINE new == [flow[s] EXCEPT !.pc = to]
<1>1. flow[s] \in Flows
  BY DEF ThreadsTyped
<1>2. new \in Flows /\ new.pc = to /\ flow' = [flow EXCEPT ![s] = new]
  BY <1>1 DEF Flows, Step
<1> HIDE DEF new
<1> QED
  BY <1>2, OneFlow

LEMMA ThreadsNext == ASSUME Typed, Next PROVE ThreadsTyped'
<1>0. ThreadsTyped /\ InnerTyped
  BY DEF Typed
<1>1. CASE Launch
  <2>1. CASE \E p \in Procs : loop' = [loop EXCEPT ![p] = AsleepLoop]
    BY <1>0, <1>1, <2>1, Idle, OneLoop DEF Launch
  <2>2. CASE UNCHANGED loop
    BY <1>0, <1>1, <2>2 DEF Launch, ThreadsTyped
  <2> QED
    BY <1>1, <2>1, <2>2 DEF Launch
<1>2. CASE ShutdownTake \/ ShutdownKill
  BY <1>0, <1>2 DEF ShutdownTake, ShutdownKill, ThreadsTyped
<1>3. CASE Exit \/ ApplicationCrashes
  BY <1>0, <1>3, ForgetTyped DEF Exit, ApplicationCrashes
<1>4. ASSUME NEW p \in Procs, AcquireLock(p) \/ CreateServer(p) \/ ProcessDies(p)
      PROVE  ThreadsTyped'
  BY <1>0, <1>4 DEF AcquireLock, CreateServer, ProcessDies, ThreadsTyped
<1>5. ASSUME NEW l \in Procs,
             LoopChecks(l) \/ LoopPolls(l) \/ LoopReports(l) \/ Deadline(l)
      PROVE  ThreadsTyped'
  <2>1. loop[l] \in Loops /\ port \in Procs \cup {NoProc}
    BY <1>0 DEF ThreadsTyped, InnerTyped
  <2>2. ASSUME NEW pc \in {"sleep", "healthy", "unhealthy"},
               loop' = [loop EXCEPT ![l].pc = pc], UNCHANGED flow
        PROVE  ThreadsTyped'
    <3>1. [loop[l] EXCEPT !.pc = pc] \in Loops
      BY <2>1 DEF Loops
    <3> DEFINE new == [loop[l] EXCEPT !.pc = pc]
    <3>2. loop' = [loop EXCEPT ![l] = new]
      BY <2>2
    <3> HIDE DEF new
    <3> QED
      BY <1>0, <2>2, <3>1, <3>2, OneLoop DEF new
  <2>3. ASSUME loop' = [loop EXCEPT ![l].pc = "polling", ![l].port = port], UNCHANGED flow
        PROVE  ThreadsTyped'
    <3> DEFINE new == [loop[l] EXCEPT !.pc = "polling", !.port = port]
    <3>1. new \in Loops /\ loop' = [loop EXCEPT ![l] = new]
      BY <1>0, <2>1, <2>3 DEF Loops, ThreadsTyped
    <3> HIDE DEF new
    <3> QED
      BY <1>0, <2>3, <3>1, OneLoop
  <2>4. ASSUME loop' = [loop EXCEPT ![l].late = TRUE], UNCHANGED flow
        PROVE  ThreadsTyped'
    <3> DEFINE new == [loop[l] EXCEPT !.late = TRUE]
    <3>1. new \in Loops /\ loop' = [loop EXCEPT ![l] = new]
      BY <2>1, <2>4 DEF Loops
    <3> HIDE DEF new
    <3> QED
      BY <1>0, <2>4, <3>1, OneLoop
  <2>5. ASSUME LoopEnds(l), UNCHANGED flow PROVE ThreadsTyped'
    BY <1>0, <2>5, Idle, OneLoop DEF LoopEnds
  <2>6. UNCHANGED flow
    BY <1>5 DEF LoopChecks, LoopPolls, LoopReports, Deadline
  <2> QED
    BY <1>5, <2>2, <2>3, <2>4, <2>5, <2>6 DEF LoopChecks, LoopPolls, LoopReports, Deadline
<1>6. ASSUME NEW s \in Saves, StoreSecret(s) \/ ConfigAnswer(s) \/ DeclineRestart(s)
      PROVE  ThreadsTyped'
  BY <1>0, <1>6, StepTyped DEF StoreSecret, ConfigAnswer, DeclineRestart
<1>7. ASSUME NEW s \in Saves, PostConfig(s) PROVE ThreadsTyped'
  <2>1. flow[s] \in Flows /\ port \in Procs \cup {NoProc} /\ UNCHANGED loop
    BY <1>0, <1>7 DEF ThreadsTyped, InnerTyped, PostConfig
  <2> DEFINE posted == [flow[s] EXCEPT !.pc = "posted", !.to = port]
             failed == [flow[s] EXCEPT !.pc = "failed"]
  <2>2. /\ posted \in Flows /\ failed \in Flows
        /\ posted.pc = "posted" /\ failed.pc = "failed"
    BY <2>1 DEF Flows
  <2>3. flow' = [flow EXCEPT ![s] = posted] \/ flow' = [flow EXCEPT ![s] = failed]
    BY <1>7 DEF PostConfig
  <2> HIDE DEF posted, failed
  <2> QED
    BY <1>0, <2>1, <2>2, <2>3, OneFlow
<1>8. ASSUME NEW s \in Saves, WriteConfig(s) PROVE ThreadsTyped'
  <2> DEFINE new == [flow[s] EXCEPT !.wrote = TRUE]
  <2>1. flow[s] \in Flows
    BY <1>0 DEF ThreadsTyped
  <2>2. new \in Flows /\ new.pc = flow[s].pc
    BY <2>1 DEF Flows
  <2>3. flow' = [flow EXCEPT ![s] = new] /\ UNCHANGED loop /\ flow[s].pc # "storing"
    BY <1>8 DEF WriteConfig
  <2> HIDE DEF new
  <2> QED
    BY <1>0, <2>2, <2>3, OneFlow
<1>9. ASSUME NEW s \in Saves, RestartTake(s) PROVE ThreadsTyped'
  <2> DEFINE new == [flow[s] EXCEPT !.pc = "killing", !.victim = child]
  <2>1. flow[s] \in Flows /\ child \in Procs \cup {NoProc}
    BY <1>0 DEF ThreadsTyped, InnerTyped
  <2>2. new \in Flows /\ new.pc = "killing"
    BY <2>1 DEF Flows
  <2>3. flow' = [flow EXCEPT ![s] = new] /\ UNCHANGED loop
    BY <1>9 DEF RestartTake
  <2> HIDE DEF new
  <2> QED
    BY <1>0, <2>2, <2>3, OneFlow
<1>10. ASSUME NEW s \in Saves, RestartKill(s) PROVE ThreadsTyped'
  <2> DEFINE new == [flow[s] EXCEPT !.pc = "spawning", !.victim = NoProc]
  <2>1. flow[s] \in Flows
    BY <1>0 DEF ThreadsTyped
  <2>2. new \in Flows /\ new.pc = "spawning"
    BY <2>1 DEF Flows
  <2>3. flow' = [flow EXCEPT ![s] = new] /\ UNCHANGED loop
    BY <1>10 DEF RestartKill
  <2> HIDE DEF new
  <2> QED
    BY <1>0, <2>2, <2>3, OneFlow
<1>11. ASSUME NEW s \in Saves, RestartSpawn(s) PROVE ThreadsTyped'
  <2>1. flow[s] \in Flows /\ UNCHANGED loop
    BY <1>0, <1>11 DEF ThreadsTyped, RestartSpawn
  <2>2. ASSUME NEW p \in Procs,
               flow' = [flow EXCEPT ![s].pc = "storing", ![s].fresh = p]
        PROVE  ThreadsTyped'
    <3> DEFINE new == [flow[s] EXCEPT !.pc = "storing", !.fresh = p]
    <3>1. new \in Flows /\ new.fresh = p /\ flow' = [flow EXCEPT ![s] = new]
      BY <1>0, <2>1, <2>2 DEF Flows, ThreadsTyped
    <3> HIDE DEF new
    <3> QED
      BY <1>0, <2>1, <3>1, OneFlow
  <2>3. CASE Step(s, "spawning", "failed")
    BY <1>0, <2>1, <2>3, StepTyped
  <2> QED
    BY <1>11, <2>2, <2>3 DEF RestartSpawn
<1>12. ASSUME NEW s \in Saves, RestartStore(s) PROVE ThreadsTyped'
  <2> DEFINE new == [flow[s] EXCEPT !.pc = "done"]
  <2>1. flow[s] \in Flows /\ flow[s].fresh \in Procs
    BY <1>0, <1>12 DEF ThreadsTyped, RestartStore, Step
  <2>2. new \in Flows /\ new.pc = "done"
    BY <2>1 DEF Flows
  <2>3. flow' = [flow EXCEPT ![s] = new]
        /\ loop' = [loop EXCEPT ![flow[s].fresh] = AsleepLoop]
    BY <1>12 DEF RestartStore, Step
  <2> HIDE DEF new
  <2> QED
    BY <1>0, <2>1, <2>2, <2>3, Idle DEF ThreadsTyped
<1>13. ASSUME NEW i \in Intents, Submit(i) \/ SubmitFails(i) \/ CloseDialog(i) \/ TaskEnds(i)
      PROVE  ThreadsTyped'
  BY <1>0, <1>13 DEF Submit, SubmitFails, CloseDialog, TaskEnds, ThreadsTyped
<1>14. ASSUME NEW r \in reqs, HandleSubmit(r) \/ SubmitSucceeds(r) PROVE ThreadsTyped'
  BY <1>0, <1>14 DEF HandleSubmit, SubmitSucceeds, ThreadsTyped
<1>15. CASE ClearSecret
  BY <1>0, <1>15 DEF ClearSecret, ThreadsTyped
<1> QED
  BY <1>1, <1>2, <1>3, <1>4, <1>5, <1>6, <1>7, <1>8, <1>9, <1>10, <1>11, <1>12, <1>13,
     <1>14, <1>15, Steps
-----------------------------------------------------------------------------
(* Intents, submissions and executions.                                     *)

\* What the tasks need of the other state: the lock, and who served.
TaskInv ==
  /\ TaskTyped /\ OwnerServed /\ MadeOnce /\ AnswersPersisted
  /\ InterruptedOnlyDead /\ AcceptedIsPersisted

\* A step that moves processes and leaves the tasks alone.
LEMMA TasksSame ==
  ASSUME Typed, TaskInv, \A p \in Procs : Moves(p), UNCHANGED taskVars
  PROVE  TaskInv'
<1> USE DEF TaskInv, taskVars
<1>1. TaskTyped' /\ MadeOnce' /\ AnswersPersisted' /\ AcceptedIsPersisted'
  BY DEF TaskTyped, MadeOnce, AnswersPersisted, AcceptedIsPersisted
<1>2. OwnerServed'
  BY DEF OwnerServed, Moves
<1>3. InterruptedOnlyDead'
  BY DEF OwnerServed, InterruptedOnlyDead, Moves
<1> QED
  BY <1>1, <1>2, <1>3

LEMMA TasksForget ==
  ASSUME TaskInv, ForgetThreads, UNCHANGED <<tries, reqs, row, owner, made, proc>>
  PROVE  TaskInv'
BY DEF TaskInv, ForgetThreads, TaskTyped, OwnerServed, MadeOnce, AnswersPersisted,
       InterruptedOnlyDead, AcceptedIsPersisted

\* Only the view of an intent changes.
LEMMA ViewChanges ==
  ASSUME TaskInv, NEW i \in Intents, NEW to \in {"pending", "failed", "gone"},
         ui' = [ui EXCEPT ![i] = to], UNCHANGED <<tries, reqs, row, owner, made, proc>>
  PROVE  TaskInv'
BY DEF TaskInv, TaskTyped, OwnerServed, MadeOnce, AnswersPersisted,
       InterruptedOnlyDead, AcceptedIsPersisted

\* A Runtime that starts holds the lock alone, so the executions that it
\* recovers ran in processes that are dead.
LEMMA TasksRecovered ==
  ASSUME Typed, OneHolder, TaskInv, NEW p \in Procs, CreateServer(p) PROVE TaskInv'
<1> USE DEF TaskInv
<1>1. /\ proc[p] = "owner" /\ proc' = [proc EXCEPT ![p] = "serving"]
      /\ row' = [i \in Intents |-> IF row[i] = "live" THEN "interrupted" ELSE row[i]]
      /\ UNCHANGED <<ui, tries, reqs, owner, made>>
  BY DEF CreateServer, Recovered
<1>2. proc \in [Procs -> States]
  BY DEF Typed, ProcTyped
<1>3. \A q \in Procs : proc[q] \in {"owner", "serving"} => q = p
  BY <1>1 DEF OneHolder, Holders
<1>4. ASSUME NEW i \in Intents, row[i] # "none"
      PROVE  owner[i] \in Procs /\ proc[owner[i]] = "dead" /\ proc'[owner[i]] = "dead"
  <2>1. owner[i] \in Procs /\ proc[owner[i]] \in {"serving", "dead"}
    BY <1>4 DEF OwnerServed
  <2>2. proc[owner[i]] = "dead" /\ owner[i] # p
    BY <1>1, <1>3, <2>1
  <2> QED
    BY <1>1, <1>2, <2>1, <2>2
<1>5. \A i \in Intents : row'[i] = "none" <=> row[i] = "none"
  BY <1>1
<1>6. TaskTyped'
  BY <1>1 DEF TaskTyped
<1>7. OwnerServed' /\ InterruptedOnlyDead'
  BY <1>1, <1>4, <1>5 DEF OwnerServed, InterruptedOnlyDead
<1>8. MadeOnce' /\ AcceptedIsPersisted'
  BY <1>1, <1>5 DEF MadeOnce, AcceptedIsPersisted
<1>9. AnswersPersisted'
  BY <1>1, <1>5 DEF AnswersPersisted, TaskTyped, Posts
<1> QED
  BY <1>6, <1>7, <1>8, <1>9

LEMMA TasksSubmit ==
  ASSUME Typed, TaskInv, NEW i \in Intents, Submit(i) PROVE TaskInv'
<1> USE DEF TaskInv
<1>1. /\ tries[i] < MaxTries /\ tries' = [tries EXCEPT ![i] = tries[i] + 1]
      /\ UNCHANGED <<row, owner, made, proc>>
  BY DEF Submit
<1>2. tries'[i] \in 1 .. MaxTries /\ tries' \in [Intents -> 0 .. MaxTries]
  BY <1>1, BoundsAssumption DEF TaskTyped
<1>3. CASE phase = "ready"
  <2> DEFINE r == [intent |-> i, try |-> tries'[i], to |-> port, answered |-> FALSE]
  <2>1. reqs' = reqs \cup {r} /\ ui' = [ui EXCEPT ![i] = "pending"]
    BY <1>3 DEF Submit
  <2>2. port \in Procs
    BY <1>3 DEF Typed, InnerTyped
  <2>3. r \in Posts /\ r.answered = FALSE
    BY <1>2, <2>2 DEF Posts
  <2> HIDE DEF r
  <2>4. TaskTyped'
    BY <1>1, <1>2, <2>1, <2>3 DEF TaskTyped
  <2>5. AnswersPersisted'
    BY <1>1, <2>1, <2>3 DEF AnswersPersisted
  <2>6. OwnerServed' /\ MadeOnce' /\ InterruptedOnlyDead'
    BY <1>1 DEF OwnerServed, MadeOnce, InterruptedOnlyDead
  <2>7. AcceptedIsPersisted'
    BY <1>1, <2>1 DEF AcceptedIsPersisted, TaskTyped
  <2> QED
    BY <2>4, <2>5, <2>6, <2>7
<1>4. CASE phase # "ready"
  <2>1. UNCHANGED reqs /\ ui' = [ui EXCEPT ![i] = "failed"]
    BY <1>4 DEF Submit
  <2> QED
    BY <1>1, <1>2, <2>1 DEF TaskTyped, OwnerServed, MadeOnce, AnswersPersisted,
                            InterruptedOnlyDead, AcceptedIsPersisted
<1> QED
  BY <1>3, <1>4

LEMMA TasksHandled ==
  ASSUME Typed, TaskInv, NEW r \in reqs, HandleSubmit(r) PROVE TaskInv'
<1> USE DEF TaskInv
<1> DEFINE i == r.intent
           new == [r EXCEPT !.answered = TRUE]
<1>1. r \in Posts
  BY DEF TaskTyped
<1>2. i \in Intents /\ r.to \in Procs /\ r.try \in 1 .. MaxTries
  BY <1>1 DEF Posts
<1>3. new \in Posts /\ new.intent = i
  BY <1>1 DEF Posts
<1>4. reqs' = (reqs \ {r}) \cup {new} /\ UNCHANGED <<proc, ui, tries>>
      /\ proc[r.to] = "serving"
  BY DEF HandleSubmit, Answered
<1>5. CASE KnownKey(r)
  <2>1. UNCHANGED <<row, owner, made>> /\ row[i] # "none"
    BY <1>5 DEF HandleSubmit, KnownKey
  <2> HIDE DEF i, new
  <2>2. TaskTyped'
    BY <1>3, <1>4, <2>1 DEF TaskTyped
  <2>3. AnswersPersisted'
    BY <1>3, <1>4, <2>1 DEF AnswersPersisted
  <2> QED
    BY <1>4, <2>1, <2>2, <2>3 DEF OwnerServed, MadeOnce, InterruptedOnlyDead,
                                  AcceptedIsPersisted
<1>6. CASE ~KnownKey(r)
  <2>1. /\ row[i] = "none"
        /\ row' = [row EXCEPT ![i] = "live"]
        /\ owner' = [owner EXCEPT ![i] = r.to]
        /\ made' = [made EXCEPT ![i] = made[i] + 1]
    BY <1>6 DEF HandleSubmit, KnownKey
  <2> HIDE DEF i, new
  <2>2. made[i] = 0
    BY <1>2, <2>1 DEF MadeOnce
  <2>3. made'[i] = 1 /\ 1 \in 0 .. MaxTries
    BY <1>2, <2>1, <2>2, BoundsAssumption DEF TaskTyped
  <2>4. TaskTyped'
    BY <1>2, <1>3, <1>4, <2>1, <2>2, <2>3 DEF TaskTyped
  <2>5. AnswersPersisted'
    BY <1>2, <1>3, <1>4, <2>1 DEF AnswersPersisted, TaskTyped
  <2>6. OwnerServed' /\ InterruptedOnlyDead' /\ AcceptedIsPersisted'
    BY <1>2, <1>4, <2>1 DEF OwnerServed, InterruptedOnlyDead, AcceptedIsPersisted, TaskTyped
  <2>7. MadeOnce'
    BY <1>2, <2>1, <2>3 DEF MadeOnce, TaskTyped
  <2> QED
    BY <2>4, <2>5, <2>6, <2>7
<1> QED
  BY <1>5, <1>6

LEMMA TasksAnswered ==
  ASSUME TaskInv, NEW r \in reqs, SubmitSucceeds(r) PROVE TaskInv'
<1> USE DEF TaskInv
<1>1. /\ r.answered /\ ui' = [ui EXCEPT ![r.intent] = "accepted"] /\ reqs' = reqs \ {r}
      /\ UNCHANGED <<proc, tries, row, owner, made>>
  BY DEF SubmitSucceeds
<1>2. r.intent \in Intents /\ row[r.intent] # "none"
  BY <1>1 DEF TaskTyped, Posts, AnswersPersisted
<1>3. TaskTyped' /\ AcceptedIsPersisted'
  BY <1>1, <1>2 DEF TaskTyped, AcceptedIsPersisted
<1> QED
  BY <1>1, <1>3 DEF OwnerServed, MadeOnce, AnswersPersisted, InterruptedOnlyDead

LEMMA TasksEnd ==
  ASSUME TaskInv, NEW i \in Intents, TaskEnds(i) PROVE TaskInv'
<1> USE DEF TaskInv
<1>1. /\ row[i] = "live" /\ row' = [row EXCEPT ![i] = "ended"]
      /\ UNCHANGED <<proc, ui, tries, reqs, owner, made>>
  BY DEF TaskEnds
<1>2. /\ \A j \in Intents : row'[j] = "none" <=> row[j] = "none"
      /\ \A j \in Intents : row'[j] = "interrupted" => row[j] = "interrupted"
  BY <1>1 DEF TaskTyped
<1>3. TaskTyped' /\ AnswersPersisted'
  BY <1>1, <1>2 DEF TaskTyped, AnswersPersisted, Posts
<1> QED
  BY <1>1, <1>2, <1>3 DEF OwnerServed, MadeOnce, InterruptedOnlyDead, AcceptedIsPersisted

LEMMA TasksNext ==
  ASSUME Typed, OneHolder, TaskInv, Next PROVE TaskInv'
<1>0. \A p \in Procs : Moves(p)
  BY ProcNext
<1>1. CASE Launch \/ ShutdownTake \/ ShutdownKill \/ ClearSecret
  BY <1>0, <1>1, TasksSame DEF Launch, ShutdownTake, ShutdownKill, ClearSecret
<1>2. CASE Exit \/ ApplicationCrashes
  BY <1>2, TasksForget DEF Exit, ApplicationCrashes
<1>3. ASSUME NEW p \in Procs, \/ AcquireLock(p) \/ ProcessDies(p) \/ LoopChecks(p)
                              \/ LoopPolls(p) \/ LoopReports(p) \/ Deadline(p)
      PROVE  TaskInv'
  <2>1. UNCHANGED taskVars
    BY <1>3 DEF AcquireLock, ProcessDies, LoopChecks, LoopPolls, LoopReports, Deadline
  <2> QED
    BY <1>0, <2>1, TasksSame
<1>4. ASSUME NEW s \in Saves, \/ StoreSecret(s) \/ PostConfig(s) \/ WriteConfig(s)
                              \/ ConfigAnswer(s) \/ DeclineRestart(s) \/ RestartTake(s)
                              \/ RestartKill(s) \/ RestartSpawn(s) \/ RestartStore(s)
      PROVE  TaskInv'
  <2>1. UNCHANGED taskVars
    BY <1>4 DEF StoreSecret, PostConfig, WriteConfig, ConfigAnswer, DeclineRestart,
                RestartTake, RestartKill, RestartSpawn, RestartStore
  <2> QED
    BY <1>0, <2>1, TasksSame
<1>5. ASSUME NEW i \in Intents, SubmitFails(i) \/ CloseDialog(i) PROVE TaskInv'
  BY <1>5, ViewChanges DEF SubmitFails, CloseDialog
<1> QED
  BY <1>1, <1>2, <1>3, <1>4, <1>5, TasksRecovered, TasksSubmit, TasksHandled,
     TasksAnswered, TasksEnd, Steps
-----------------------------------------------------------------------------
(* The lock of the data directory.                                          *)

LEMMA HolderNext == ASSUME Typed, OneHolder, Next PROVE OneHolder'
<1>1. \A p \in Procs : Moves(p)
  BY ProcNext
<1>2. proc \in [Procs -> States]
  BY DEF Typed, ProcTyped
<1>3. CASE \E p \in Procs : AcquireLock(p)
  <2>1. PICK p \in Procs : AcquireLock(p)
    BY <1>3
  <2>2. \A q \in Procs : q # p => proc'[q] = proc[q]
    BY <1>2, <2>1 DEF AcquireLock
  <2>3. proc'[p] = "owner" => Holders = {}
    BY <1>2, <2>1 DEF AcquireLock, LockFree
  <2>4. proc'[p] # "owner" => proc'[p] = "dead"
    BY <1>2, <2>1 DEF AcquireLock
  <2> QED
    BY <2>2, <2>3, <2>4 DEF OneHolder, Holders
<1>4. CASE ~ \E p \in Procs : AcquireLock(p)
  <2>1. \A p \in Procs : proc'[p] \in {"owner", "serving"} => proc[p] \in {"owner", "serving"}
    BY <1>1, <1>4 DEF Moves
  <2> QED
    BY <2>1 DEF OneHolder, Holders
<1> QED
  BY <1>3, <1>4

LEMMA InvParts == Inv <=> Typed /\ OneHolder /\ TaskInv
BY DEF Inv, TaskInv, Typed

LEMMA InvPartsNext == Typed' /\ OneHolder' /\ TaskInv' => Inv'
BY DEF Inv, TaskInv, Typed

LEMMA InvInit == Init => Inv
<1> SUFFICES ASSUME Init PROVE Inv
  OBVIOUS
<1> USE DEF Init
<1>1. AppTyped /\ InnerTyped
  BY BoundsAssumption DEF AppTyped, InnerTyped
<1>2. [key |-> 0, file |-> 0] \in Settings
  BY BoundsAssumption DEF Settings
<1>3. ProcTyped /\ HistTyped
  BY <1>2 DEF ProcTyped, States, HistTyped
<1>4. ThreadsTyped
  BY Idle DEF ThreadsTyped, NoFlow
<1>5. TaskTyped
  BY BoundsAssumption DEF TaskTyped
<1>6. OneHolder
  BY DEF OneHolder, Holders
<1>7. TaskInv
  BY <1>5 DEF TaskInv, OwnerServed, MadeOnce, AnswersPersisted, InterruptedOnlyDead,
              AcceptedIsPersisted
<1> HIDE DEF Init
<1> QED
  BY <1>1, <1>3, <1>4, <1>5, <1>6, <1>7, InvParts DEF Typed

LEMMA InvNext == Inv /\ Next => Inv'
<1> SUFFICES ASSUME Inv, Next PROVE Inv'
  OBVIOUS
<1>1. Typed /\ OneHolder /\ TaskInv
  BY InvParts
<1>2. TaskInv'
  BY <1>1, TasksNext
<1>3. Typed'
  BY <1>1, <1>2, AppNext, InnerNext, ProcNext, ThreadsNext, HistNext DEF Typed, TaskInv
<1> QED
  BY <1>1, <1>2, <1>3, HolderNext, InvPartsNext

LEMMA InvStutter == Inv /\ UNCHANGED vars => Inv'
<1> SUFFICES ASSUME Inv, UNCHANGED vars PROVE Inv'
  OBVIOUS
<1>1. UNCHANGED <<app, dying, launches, crashes, phase, child, port, proc, conf, stored,
                  loop, flow, ui, tries, reqs, row, owner, made, overlapped, crossed>>
  BY DEF vars, appVars, innerVars, taskVars, histVars
<1>2. Typed'
  BY <1>1 DEF Inv, Typed, AppTyped, InnerTyped, ProcTyped, ThreadsTyped, TaskTyped, HistTyped
<1>3. OneHolder'
  BY <1>1 DEF Inv, OneHolder, Holders
<1>4. TaskInv'
  BY <1>1 DEF Inv, Typed, TaskInv, TaskTyped, OwnerServed, MadeOnce, AnswersPersisted,
              InterruptedOnlyDead, AcceptedIsPersisted
<1> QED
  BY <1>2, <1>3, <1>4, InvPartsNext

LEMMA InvInductive == Spec => []Inv
<1>1. Inv /\ [Next]_vars => Inv'
  BY InvNext, InvStutter
<1> QED
  BY InvInit, <1>1, PTL DEF Spec

-----------------------------------------------------------------------------
(* The theorems.                                                            *)

(* The application, its Runtimes and the executions are of their types; a     *)
(* submission is only sent to the port of a process that was spawned.         *)
THEOREM TypeCorrect == Spec => []TypeOK
<1>1. Inv => TypeOK
  <2> SUFFICES ASSUME Inv PROVE TypeOK
    OBVIOUS
  <2>1. \A r \in reqs : r.intent \in Intents /\ r.try \in 1 .. MaxTries /\ r.to \in Procs
    BY DEF Inv, Typed, TaskTyped, Posts
  <2>2. {overlapped, crossed} \subseteq BOOLEAN
    BY Zenon DEF Inv, Typed, HistTyped
  <2> QED
    BY <2>1, <2>2 DEF Inv, Typed, AppTyped, InnerTyped, ProcTyped, ThreadsTyped, TaskTyped,
                      TypeOK, States, Settings, Loops, Flows
<1> QED
  BY InvInductive, <1>1, PTL

(* A Runtime that starts and recovers the data directory never declares the   *)
(* execution of a living Runtime interrupted.                               *)
THEOREM OnlyDeadInterrupted == Spec => []InterruptedOnlyDead
<1>1. Inv => InterruptedOnlyDead
  BY DEF Inv
<1> QED
  BY InvInductive, <1>1, PTL

(* What the web view shows as accepted has a persisted execution.            *)
THEOREM AcceptedPersisted == Spec => []AcceptedIsPersisted
<1>1. Inv => AcceptedIsPersisted
  BY DEF Inv
<1> QED
  BY InvInductive, <1>1, PTL

(* A confirmed intent becomes at most one execution, whatever is retried, by  *)
(* whichever Runtime it is handled.                                         *)
THEOREM OneExecutionPerIntent == Spec => []OneTaskPerIntent
<1>1. Inv => OneTaskPerIntent
  BY DEF Inv, MadeOnce, OneTaskPerIntent
<1> QED
  BY InvInductive, <1>1, PTL

-----------------------------------------------------------------------------
(* Saves and restarts, any number of them at once.                          *)

Quiet == {"idle", "failed", "done"}
Replacing == {"killing", "spawning", "storing", "done"}

\* No thread of an application that is down is at work.
DownIsQuiet == app = "down" => \A s \in Saves : flow[s].pc \in Quiet

\* Who is in inner, was posted to, or was spawned by a restart, was spawned.
Spawns ==
  /\ port \in Procs => proc[port] # "none"
  /\ child \in Procs => proc[child] # "none"
  /\ \A s \in Saves : /\ flow[s].to \in Procs => proc[flow[s].to] # "none"
                      /\ flow[s].fresh \in Procs => proc[flow[s].fresh] # "none"

\* Nobody has posted to a process that a restart has not stored yet.
Unstored ==
  \A s \in Saves : flow[s].pc = "storing" =>
    /\ flow[s].fresh \in Procs
    /\ port # flow[s].fresh
    /\ \A t \in Saves : /\ flow[t].to # flow[s].fresh
                        /\ t # s /\ flow[t].pc = "storing" => flow[t].fresh # flow[s].fresh

\* From its take on, a save's restart has replaced the process it posted to.
Replaced ==
  \A s \in Saves : flow[s].pc \in Replacing /\ child \in Procs => child # flow[s].to

\* A process that serves has read the file that is stored, or it is the one that
\* the save that wrote it posted to.
FileRead ==
  IF stored.file = 0 THEN \A p \in Procs : conf[p].file = 0
  ELSE /\ flow[stored.file].pc \notin {"idle", "posting"}
       /\ \A p \in Procs : proc[p] = "serving" =>
            conf[p].file = stored.file \/ p = flow[stored.file].to

\* While no two saves have overlapped, one is at work, and what it spawned and
\* what a finished one stored were given the key that is stored, or none.
KeyGiven ==
  ~overlapped =>
    /\ \A s, t \in Saves : InProgress(s) /\ InProgress(t) => s = t
    /\ stored.key # 0 =>
         /\ \A s \in Saves : flow[s].pc = "storing" =>
              conf[flow[s].fresh].key \in {0, stored.key}
         /\ flow[stored.key].pc = "done" /\ child \in Procs =>
              conf[child].key \in {0, stored.key}

SaveInv == DownIsQuiet /\ Spawns /\ Unstored /\ Replaced /\ FileRead /\ KeyGiven

\* What the saves rest on when other state moves.
LEMMA SavesSame ==
  ASSUME Typed, SaveInv, UNCHANGED <<stored, conf, flow, port, overlapped>>,
         child' \in {child, NoProc}, app' = "down" => app = "down",
         \A p \in Procs : proc[p] # "none" => proc'[p] # "none",
         \A p \in Procs : proc'[p] = "serving" => proc[p] = "serving"
  PROVE  SaveInv'
<1>1. stored.file \in Saves \/ stored.file = 0
  BY BoundsAssumption DEF Typed, ProcTyped, Settings, Saves
<1>2. NoProc \notin Procs
  BY ProcsNat
<1>3. DownIsQuiet' /\ Spawns' /\ Unstored' /\ Replaced'
  BY <1>2 DEF SaveInv, DownIsQuiet, Spawns, Unstored, Replaced
<1>4. FileRead'
  BY DEF SaveInv, FileRead
<1>5. KeyGiven'
  BY <1>2 DEF SaveInv, KeyGiven, InProgress
<1> QED
  BY <1>3, <1>4, <1>5 DEF SaveInv

\* Save s goes to pc and is the only one that moves.
Moved(s, pc) ==
  /\ flow'[s].pc = pc /\ flow'[s].to = flow[s].to /\ flow'[s].fresh = flow[s].fresh
  /\ \A t \in Saves : t # s => flow'[t] = flow[t]

LEMMA FlowTyped ==
  ASSUME Typed
  PROVE  /\ flow \in [Saves -> Flows]
         /\ \A s \in Saves : flow[s] \in Flows /\ flow[s].to \in Procs \cup {NoProc}
         /\ stored.file = 0 \/ stored.file \in Saves
         /\ stored.key = 0 \/ stored.key \in Saves
         /\ NoProc \notin Procs
BY ProcsNat, BoundsAssumption DEF Typed, ThreadsTyped, ProcTyped, Settings, Saves, Flows

LEMMA StepMoves ==
  ASSUME Typed, NEW s \in Saves, NEW from, NEW to, Step(s, from, to)
  PROVE  Moved(s, to) /\ flow[s].pc = from
<1>1. flow \in [Saves -> Flows] /\ flow[s] \in Flows
  BY FlowTyped
<1> QED
  BY <1>1 DEF Step, Moved, Flows

\* A save that neither begins nor stores: it goes on while it is at work, gives
\* up, is declined, or its restart takes the child.
LEMMA SaveGoes ==
  ASSUME Typed, SaveInv, NEW s \in Saves,
         NEW pc \in {"posted", "saved", "declined", "killing", "spawning", "failed"},
         Moved(s, pc), InProgress(s) \/ pc = "failed",
         UNCHANGED <<stored, conf, port, overlapped, app>>,
         app = "down" => pc = "failed",
         child' = child \/ child' = NoProc,
         pc = "killing" => child' = NoProc,
         pc = "spawning" => flow[s].pc = "killing",
         \A p \in Procs : proc[p] # "none" => proc'[p] # "none",
         \A p \in Procs : proc'[p] = "serving" => proc[p] = "serving"
  PROVE  SaveInv'
<1>1. /\ flow \in [Saves -> Flows]
      /\ \A t \in Saves : flow[t] \in Flows /\ flow[t].to \in Procs \cup {NoProc}
      /\ stored.file = 0 \/ stored.file \in Saves
      /\ stored.key = 0 \/ stored.key \in Saves
      /\ NoProc \notin Procs
  BY FlowTyped
<1>2. DownIsQuiet'
  BY DEF SaveInv, DownIsQuiet, Quiet, Moved
<1>3. \A t \in Saves : flow'[t].to = flow[t].to /\ flow'[t].fresh = flow[t].fresh
  BY DEF Moved
<1>4. \A t \in Saves : flow'[t].pc = flow[t].pc \/ (t = s /\ flow'[t].pc = pc)
  BY DEF Moved
<1>5. Spawns'
  BY <1>1, <1>3 DEF SaveInv, Spawns
<1>6. Unstored'
  BY <1>3, <1>4 DEF SaveInv, Unstored
<1>7. Replaced'
  BY <1>1, <1>3, <1>4 DEF SaveInv, Replaced, Replacing
<1>8. FileRead'
  BY <1>1, <1>3, <1>4 DEF SaveInv, FileRead
<1>9. KeyGiven'
  BY <1>1, <1>3, <1>4 DEF SaveInv, KeyGiven, InProgress
<1> QED
  BY <1>2, <1>5, <1>6, <1>7, <1>8, <1>9 DEF SaveInv

\* Begins: at most a new key is stored, and the save is the one at work unless it
\* overlaps another.
LEMMA SaveBegins ==
  ASSUME Typed, SaveInv, NEW s \in Saves, Step(s, "idle", "posting"), app # "down",
         overlapped' = (overlapped \/ \E t \in Saves : InProgress(t)),
         stored'.file = stored.file, stored'.key \in {stored.key, s},
         UNCHANGED <<app, child, port, proc, conf>>
  PROVE  SaveInv'
<1>1. /\ flow \in [Saves -> Flows]
      /\ \A t \in Saves : flow[t] \in Flows /\ flow[t].to \in Procs \cup {NoProc}
      /\ stored.file = 0 \/ stored.file \in Saves
      /\ stored.key = 0 \/ stored.key \in Saves
      /\ NoProc \notin Procs
  BY FlowTyped
<1>2. Moved(s, "posting") /\ flow[s].pc = "idle"
  BY StepMoves
<1>3. \A t \in Saves : /\ flow'[t].to = flow[t].to /\ flow'[t].fresh = flow[t].fresh
                       /\ flow'[t].pc = IF t = s THEN "posting" ELSE flow[t].pc
  BY <1>2 DEF Moved
<1>4. DownIsQuiet' /\ Spawns' /\ Unstored' /\ Replaced'
  BY <1>1, <1>2, <1>3 DEF SaveInv, DownIsQuiet, Spawns, Unstored, Replaced, Replacing
<1>5. FileRead'
  BY <1>1, <1>2, <1>3 DEF SaveInv, FileRead
<1>6. ~overlapped' => ~overlapped /\ \A t \in Saves : ~InProgress(t)
  OBVIOUS
<1>7. ~overlapped' => \A t \in Saves : t # s => ~InProgress(t)'
  BY <1>3, <1>6 DEF InProgress
<1>8. ~overlapped' => \A t \in Saves : flow'[t].pc # "storing"
  BY <1>3, <1>6 DEF InProgress
<1>9. stored'.key # 0 /\ flow'[stored'.key].pc = "done" =>
        stored'.key = stored.key /\ flow[stored.key].pc = "done"
  BY <1>1, <1>3
<1>10. KeyGiven'
  BY <1>6, <1>7, <1>8, <1>9 DEF SaveInv, KeyGiven
<1> QED
  BY <1>4, <1>5, <1>10 DEF SaveInv

LEMMA SavePosts ==
  ASSUME Typed, SaveInv, NEW s \in Saves, PostConfig(s), phase = "ready" PROVE SaveInv'
<1>1. /\ flow \in [Saves -> Flows]
      /\ \A t \in Saves : flow[t] \in Flows /\ flow[t].to \in Procs \cup {NoProc}
      /\ stored.file = 0 \/ stored.file \in Saves
      /\ stored.key = 0 \/ stored.key \in Saves
      /\ NoProc \notin Procs
  BY FlowTyped
<1>2. /\ flow[s].pc = "posting" /\ port \in Procs
      /\ flow' = [flow EXCEPT ![s].pc = "posted", ![s].to = port]
      /\ UNCHANGED <<app, child, port, proc, conf, stored, overlapped>>
  BY DEF PostConfig, appVars, innerVars, histVars, WebViewUp, Typed, InnerTyped
<1>3. \A t \in Saves : /\ flow'[t].fresh = flow[t].fresh
                       /\ flow'[t].to = IF t = s THEN port ELSE flow[t].to
                       /\ flow'[t].pc = IF t = s THEN "posted" ELSE flow[t].pc
  BY <1>1, <1>2 DEF Flows
<1>4. app # "down"
  BY DEF PostConfig, WebViewUp
<1>5. DownIsQuiet' /\ Spawns'
  BY <1>1, <1>2, <1>3, <1>4 DEF SaveInv, DownIsQuiet, Spawns
<1>6. Unstored' /\ Replaced'
  BY <1>1, <1>2, <1>3 DEF SaveInv, Unstored, Replaced, Replacing
<1>7. FileRead'
  BY <1>1, <1>2, <1>3 DEF SaveInv, FileRead
<1>8. KeyGiven'
  BY <1>1, <1>2, <1>3 DEF SaveInv, KeyGiven, InProgress
<1> QED
  BY <1>5, <1>6, <1>7, <1>8 DEF SaveInv

\* The process that is posted to is the only one that serves, so all that serve have
\* the file of this save to read or are that process.
LEMMA SaveWrites ==
  ASSUME Typed, OneHolder, SaveInv, NEW s \in Saves, WriteConfig(s) PROVE SaveInv'
<1>1. /\ flow \in [Saves -> Flows]
      /\ \A t \in Saves : flow[t] \in Flows /\ flow[t].to \in Procs \cup {NoProc}
      /\ stored.file = 0 \/ stored.file \in Saves
      /\ stored.key = 0 \/ stored.key \in Saves
      /\ NoProc \notin Procs
  BY FlowTyped
<1>2. /\ flow[s].pc \in {"posted", "failed"} /\ flow[s].to \in Procs
      /\ proc[flow[s].to] = "serving"
      /\ flow' = [flow EXCEPT ![s].wrote = TRUE]
      /\ stored' = [stored EXCEPT !.file = s]
      /\ UNCHANGED <<app, child, port, proc, conf, overlapped>>
  BY <1>1 DEF WriteConfig, appVars, innerVars, histVars
<1>3. \A t \in Saves : /\ flow'[t].fresh = flow[t].fresh
                       /\ flow'[t].to = flow[t].to /\ flow'[t].pc = flow[t].pc
  BY <1>1, <1>2 DEF Flows
<1>4. stored'.file = s /\ stored'.key = stored.key
  BY <1>2 DEF Typed, ProcTyped, Settings
<1>5. DownIsQuiet' /\ Spawns' /\ Unstored' /\ Replaced'
  BY <1>1, <1>2, <1>3 DEF SaveInv, DownIsQuiet, Spawns, Unstored, Replaced
<1>6. FileRead'
  <2>1. \A p \in Procs : proc'[p] = "serving" => p = flow[s].to
    <3>1. \A p \in Procs : proc[p] = "serving" => p \in Holders
      BY DEF Holders
    <3> QED
      BY <1>2, <3>1 DEF OneHolder
  <2>2. s # 0
    BY BoundsAssumption DEF Saves
  <2> QED
    BY <1>2, <1>3, <1>4, <2>1, <2>2 DEF FileRead
<1>7. KeyGiven'
  BY <1>1, <1>2, <1>3, <1>4 DEF SaveInv, KeyGiven, InProgress
<1> QED
  BY <1>5, <1>6, <1>7 DEF SaveInv

\* What a spawn changes: a process that nobody knew of, with the stored key or none.
LEMMA SpawnFacts ==
  ASSUME Typed, SaveInv, NEW p \in Procs, Spawned(p)
  PROVE  /\ proc[p] = "none" /\ proc'[p] = "booting"
         /\ \A q \in Procs : q # p => proc'[q] = proc[q] /\ conf'[q] = conf[q]
         /\ conf'[p].key \in {stored.key, 0}
         /\ \A q \in Procs : conf'[q].file = conf[q].file
         /\ p # port /\ p # child
         /\ \A s \in Saves : p # flow[s].to /\ p # flow[s].fresh
<1>1. /\ proc[p] = "none" /\ proc'[p] = "booting"
      /\ \A q \in Procs : q # p => proc'[q] = proc[q] /\ conf'[q] = conf[q]
      /\ conf'[p].key \in {stored.key, 0} /\ conf'[p].file = conf[p].file
  BY SpawnedTyped DEF Typed
<1> QED
  BY <1>1 DEF SaveInv, Spawns

LEMMA SaveSpawns ==
  ASSUME Typed, SaveInv, NEW s \in Saves, NEW p \in Procs, Spawned(p),
         flow[s].pc = "spawning",
         flow' = [flow EXCEPT ![s].pc = "storing", ![s].fresh = p],
         UNCHANGED <<app, child, port, stored, overlapped>>
  PROVE  SaveInv'
<1>1. /\ flow \in [Saves -> Flows]
      /\ \A t \in Saves : flow[t] \in Flows /\ flow[t].to \in Procs \cup {NoProc}
      /\ stored.file = 0 \/ stored.file \in Saves
      /\ stored.key = 0 \/ stored.key \in Saves
      /\ NoProc \notin Procs
  BY FlowTyped
<1>2. /\ proc[p] = "none" /\ proc'[p] = "booting"
      /\ \A q \in Procs : q # p => proc'[q] = proc[q] /\ conf'[q] = conf[q]
      /\ conf'[p].key \in {stored.key, 0}
      /\ \A q \in Procs : conf'[q].file = conf[q].file
      /\ p # port /\ p # child
      /\ \A t \in Saves : p # flow[t].to /\ p # flow[t].fresh
  BY SpawnFacts
<1>3. \A t \in Saves : /\ flow'[t].fresh = IF t = s THEN p ELSE flow[t].fresh
                       /\ flow'[t].to = flow[t].to
                       /\ flow'[t].pc = IF t = s THEN "storing" ELSE flow[t].pc
  BY <1>1 DEF Flows
<1>4. app # "down"
  BY DEF SaveInv, DownIsQuiet, Quiet
<1>5. DownIsQuiet' /\ Spawns'
  BY <1>1, <1>2, <1>3, <1>4 DEF SaveInv, DownIsQuiet, Spawns
<1>6. Unstored' /\ Replaced'
  BY <1>1, <1>2, <1>3 DEF SaveInv, Unstored, Replaced, Replacing
<1>7. FileRead'
  BY <1>1, <1>2, <1>3 DEF SaveInv, FileRead
<1>8. \A t \in Saves : flow[t].pc = "storing" =>
        flow[t].fresh \in Procs /\ conf'[flow[t].fresh] = conf[flow[t].fresh]
  BY <1>2 DEF SaveInv, Unstored
<1>9. KeyGiven'
  BY <1>1, <1>2, <1>3, <1>8 DEF SaveInv, KeyGiven, InProgress
<1> QED
  BY <1>5, <1>6, <1>7, <1>9 DEF SaveInv

LEMMA SaveStores ==
  ASSUME Typed, SaveInv, NEW s \in Saves, RestartStore(s) PROVE SaveInv'
<1>1. /\ flow \in [Saves -> Flows]
      /\ \A t \in Saves : flow[t] \in Flows /\ flow[t].to \in Procs \cup {NoProc}
      /\ stored.file = 0 \/ stored.file \in Saves
      /\ stored.key = 0 \/ stored.key \in Saves
      /\ NoProc \notin Procs
  BY FlowTyped
<1>2. Moved(s, "done") /\ flow[s].pc = "storing"
  BY StepMoves DEF RestartStore
<1>3. \A t \in Saves : /\ flow'[t].to = flow[t].to /\ flow'[t].fresh = flow[t].fresh
                       /\ flow'[t].pc = IF t = s THEN "done" ELSE flow[t].pc
  BY <1>2 DEF Moved
<1>4. /\ child' = flow[s].fresh /\ port' = flow[s].fresh /\ flow[s].fresh \in Procs
      /\ UNCHANGED <<app, proc, conf, stored, overlapped>>
  BY <1>2 DEF RestartStore, appVars, SaveInv, Unstored
<1>5. DownIsQuiet' /\ Spawns'
  BY <1>1, <1>2, <1>3, <1>4 DEF SaveInv, DownIsQuiet, Spawns, Quiet
<1>6. Unstored'
  <2>1. ASSUME NEW t \in Saves, t # s, flow[t].pc = "storing"
        PROVE  flow[t].fresh # flow[s].fresh
    BY <1>2, <2>1 DEF SaveInv, Unstored
  <2> QED
    BY <1>3, <1>4, <2>1 DEF SaveInv, Unstored
<1>7. Replaced'
  BY <1>2, <1>3, <1>4 DEF SaveInv, Replaced, Replacing, Unstored
<1>8. FileRead'
  BY <1>1, <1>2, <1>3, <1>4 DEF SaveInv, FileRead
<1>9. KeyGiven'
  BY <1>1, <1>2, <1>3, <1>4 DEF SaveInv, KeyGiven, InProgress
<1> QED
  BY <1>5, <1>6, <1>7, <1>8, <1>9 DEF SaveInv

LEMMA SavesLaunch == ASSUME Typed, SaveInv, Launch PROVE SaveInv'
<1>1. /\ flow \in [Saves -> Flows]
      /\ \A t \in Saves : flow[t] \in Flows /\ flow[t].to \in Procs \cup {NoProc}
      /\ stored.file = 0 \/ stored.file \in Saves
      /\ stored.key = 0 \/ stored.key \in Saves
      /\ NoProc \notin Procs
  BY FlowTyped
<1>2. /\ app = "down" /\ app' = "up" /\ UNCHANGED <<stored, flow, overlapped>>
      /\ \A s \in Saves : flow[s].pc \in Quiet
  BY DEF Launch, histVars, SaveInv, DownIsQuiet
<1>3. ASSUME NEW p \in Procs, Spawned(p), child' = p, port' = p PROVE SaveInv'
  <2>1. /\ proc[p] = "none" /\ proc'[p] = "booting"
        /\ \A q \in Procs : q # p => proc'[q] = proc[q] /\ conf'[q] = conf[q]
        /\ conf'[p].key \in {stored.key, 0}
        /\ \A q \in Procs : conf'[q].file = conf[q].file
        /\ p # port /\ p # child
        /\ \A t \in Saves : p # flow[t].to /\ p # flow[t].fresh
    BY <1>3, SpawnFacts
  <2>2. DownIsQuiet' /\ Spawns' /\ Unstored' /\ Replaced'
    BY <1>1, <1>2, <1>3, <2>1
    DEF SaveInv, DownIsQuiet, Spawns, Unstored, Replaced, Replacing, Quiet
  <2>3. FileRead'
    BY <1>1, <1>2, <1>3, <2>1 DEF SaveInv, FileRead
  <2>4. KeyGiven'
    BY <1>1, <1>2, <1>3, <2>1 DEF SaveInv, KeyGiven, InProgress, Quiet
  <2> QED
    BY <2>2, <2>3, <2>4 DEF SaveInv
<1>4. ASSUME child' = NoProc, port' = NoProc, UNCHANGED <<proc, conf>> PROVE SaveInv'
  <2>1. DownIsQuiet' /\ Spawns' /\ Unstored' /\ Replaced'
    BY <1>1, <1>2, <1>4
    DEF SaveInv, DownIsQuiet, Spawns, Unstored, Replaced, Replacing, Quiet
  <2>2. FileRead' /\ KeyGiven'
    BY <1>1, <1>2, <1>4 DEF SaveInv, FileRead, KeyGiven, InProgress, Quiet
  <2> QED
    BY <2>1, <2>2 DEF SaveInv
<1> QED
  BY <1>3, <1>4 DEF Launch

LEMMA SavesForget ==
  ASSUME Typed, SaveInv, ForgetThreads,
         UNCHANGED <<child, port, proc, conf, stored, overlapped>>
  PROVE  SaveInv'
<1>1. /\ flow \in [Saves -> Flows]
      /\ \A t \in Saves : flow[t] \in Flows /\ flow[t].to \in Procs \cup {NoProc}
      /\ stored.file = 0 \/ stored.file \in Saves
      /\ stored.key = 0 \/ stored.key \in Saves
      /\ NoProc \notin Procs
  BY FlowTyped
<1>2. \A s \in Saves :
        /\ flow'[s].pc \in {"idle", "done", "failed"}
        /\ flow'[s].pc \in {"idle", "done"} => flow'[s] = flow[s]
        /\ flow'[s].to = flow[s].to /\ flow'[s].fresh = flow[s].fresh
  BY ForgetTyped DEF Typed
<1>3. DownIsQuiet' /\ Spawns' /\ Unstored' /\ Replaced'
  BY <1>1, <1>2 DEF SaveInv, DownIsQuiet, Spawns, Unstored, Replaced, Replacing, Quiet
<1>4. FileRead'
  BY <1>1, <1>2 DEF SaveInv, FileRead
<1>5. KeyGiven'
  BY <1>1, <1>2 DEF SaveInv, KeyGiven, InProgress
<1> QED
  BY <1>3, <1>4, <1>5 DEF SaveInv

LEMMA SavesServer ==
  ASSUME Typed, SaveInv, NEW p \in Procs, CreateServer(p) PROVE SaveInv'
<1>1. /\ flow \in [Saves -> Flows]
      /\ \A t \in Saves : flow[t] \in Flows /\ flow[t].to \in Procs \cup {NoProc}
      /\ stored.file = 0 \/ stored.file \in Saves
      /\ stored.key = 0 \/ stored.key \in Saves
      /\ NoProc \notin Procs
  BY FlowTyped
<1>2. /\ conf' = [conf EXCEPT ![p].file = stored.file]
      /\ proc' = [proc EXCEPT ![p] = "serving"] /\ proc[p] = "owner"
      /\ UNCHANGED <<app, child, port, stored, flow, overlapped>>
  BY DEF CreateServer, appVars, innerVars, histVars
<1>3. /\ conf \in [Procs -> Settings] /\ conf[p] \in Settings
      /\ proc \in [Procs -> States]
  BY DEF Typed, ProcTyped
<1>4. \A q \in Procs : /\ conf'[q].key = conf[q].key
                       /\ conf'[q].file = IF q = p THEN stored.file ELSE conf[q].file
  BY <1>2, <1>3 DEF Settings
<1>5. \A q \in Procs : proc'[q] = IF q = p THEN "serving" ELSE proc[q]
  BY <1>2, <1>3
<1>6. DownIsQuiet' /\ Spawns' /\ Unstored' /\ Replaced'
  BY <1>1, <1>2, <1>5 DEF SaveInv, DownIsQuiet, Spawns, Unstored, Replaced
<1>7. FileRead'
  BY <1>1, <1>2, <1>4, <1>5 DEF SaveInv, FileRead
<1>8. KeyGiven'
  BY <1>1, <1>2, <1>4 DEF SaveInv, KeyGiven, InProgress, Unstored
<1> QED
  BY <1>6, <1>7, <1>8 DEF SaveInv

LEMMA SavesClear == ASSUME Typed, SaveInv, ClearSecret PROVE SaveInv'
<1>1. /\ stored' = [stored EXCEPT !.key = 0] /\ stored \in Settings
      /\ UNCHANGED <<app, child, port, proc, conf, flow, overlapped>>
  BY DEF ClearSecret, appVars, innerVars, histVars, Typed, ProcTyped
<1>2. stored'.key = 0 /\ stored'.file = stored.file
  BY <1>1 DEF Settings
<1>3. DownIsQuiet' /\ Spawns' /\ Unstored' /\ Replaced'
  BY <1>1 DEF SaveInv, DownIsQuiet, Spawns, Unstored, Replaced
<1>4. FileRead' /\ KeyGiven'
  BY <1>1, <1>2 DEF SaveInv, FileRead, KeyGiven, InProgress
<1> QED
  BY <1>3, <1>4 DEF SaveInv

LEMMA SaveStep ==
  ASSUME Typed, OneHolder, SaveInv, NEW s \in Saves,
         \/ StoreSecret(s) \/ PostConfig(s) \/ WriteConfig(s) \/ ConfigAnswer(s)
         \/ DeclineRestart(s) \/ RestartTake(s) \/ RestartKill(s) \/ RestartSpawn(s)
         \/ RestartStore(s)
  PROVE  SaveInv'
<1>0. /\ flow \in [Saves -> Flows]
      /\ \A t \in Saves : flow[t] \in Flows /\ flow[t].to \in Procs \cup {NoProc}
      /\ stored.file = 0 \/ stored.file \in Saves
      /\ stored.key = 0 \/ stored.key \in Saves
      /\ NoProc \notin Procs
  BY FlowTyped
<1>a. flow[s] \in Flows /\ ProcTyped
  BY <1>0 DEF Typed
<1>1. CASE StoreSecret(s)
  <2>1. UNCHANGED <<app, child, port, proc, conf>> /\ app # "down"
    BY <1>1 DEF StoreSecret, appVars, innerVars, WebViewUp
  <2>2. CASE Step(s, "idle", "failed") /\ UNCHANGED <<stored, overlapped>>
    BY <2>1, <2>2, StepMoves, SaveGoes
  <2>3. CASE /\ Step(s, "idle", "posting")
             /\ overlapped' = (overlapped \/ \E t \in Saves : InProgress(t))
             /\ UNCHANGED stored \/ stored' = [stored EXCEPT !.key = s]
    <3>1. stored'.file = stored.file /\ stored'.key \in {stored.key, s}
      BY <2>3 DEF Typed, ProcTyped, Settings
    <3> QED
      BY <2>1, <2>3, <3>1, SaveBegins
  <2> QED
    BY <1>1, <2>2, <2>3 DEF StoreSecret
<1>2. CASE PostConfig(s)
  <2>1. CASE phase = "ready"
    BY <1>2, <2>1, SavePosts
  <2>2. CASE phase # "ready"
    <3>1. Step(s, "posting", "failed")
      BY <1>2, <2>2 DEF PostConfig, Step
    <3>2. UNCHANGED <<app, child, port, proc, conf, stored, overlapped>>
      BY <1>2 DEF PostConfig, appVars, innerVars, histVars
    <3> QED
      BY <3>1, <3>2, StepMoves, SaveGoes
  <2> QED
    BY <2>1, <2>2
<1>3. CASE WriteConfig(s)
  BY <1>3, SaveWrites
<1>4. CASE ConfigAnswer(s) \/ DeclineRestart(s)
  <2>1. /\ UNCHANGED <<app, child, port, proc, conf, stored, overlapped>>
        /\ \/ Step(s, "posted", "saved") \/ Step(s, "posted", "failed")
           \/ Step(s, "saved", "declined")
    BY <1>4 DEF ConfigAnswer, DeclineRestart, appVars, innerVars, histVars
  <2>2. app = "down" => flow[s].pc \in Quiet
    BY DEF SaveInv, DownIsQuiet
  <2>3. CASE Step(s, "posted", "saved")
    BY <2>1, <2>2, <2>3, StepMoves, SaveGoes DEF InProgress, Quiet
  <2>4. CASE Step(s, "posted", "failed")
    BY <2>1, <2>2, <2>4, StepMoves, SaveGoes DEF InProgress, Quiet
  <2>5. CASE Step(s, "saved", "declined")
    BY <2>1, <2>2, <2>5, StepMoves, SaveGoes DEF InProgress, Quiet
  <2> QED
    BY <2>1, <2>3, <2>4, <2>5
<1>5. CASE RestartTake(s)
  <2>1. /\ flow[s].pc = "saved" /\ app # "down" /\ child' = NoProc
        /\ flow' = [flow EXCEPT ![s].pc = "killing", ![s].victim = child]
        /\ UNCHANGED <<app, port, proc, conf, stored, overlapped>>
    BY <1>5 DEF RestartTake, WebViewUp, appVars, histVars
  <2>2. Moved(s, "killing")
    BY <1>0, <1>a, <2>1 DEF Moved, Flows
  <2> QED
    BY <2>1, <2>2, SaveGoes DEF InProgress
<1>6. CASE RestartKill(s)
  <2>1. /\ flow[s].pc = "killing" /\ proc' = Killed({flow[s].victim})
        /\ flow' = [flow EXCEPT ![s].pc = "spawning", ![s].victim = NoProc]
        /\ UNCHANGED <<app, child, port, conf, stored, overlapped>>
    BY <1>6 DEF RestartKill, appVars, innerVars, histVars
  <2>2. Moved(s, "spawning")
    BY <1>0, <1>a, <2>1 DEF Moved, Flows
  <2>3. \A p \in Procs : proc'[p] = proc[p] \/ (proc'[p] = "dead" /\ Alive(p))
    BY <1>a, <2>1, KilledTyped
  <2>4. app # "down"
    BY <2>1 DEF SaveInv, DownIsQuiet, Quiet
  <2> QED
    BY <2>1, <2>2, <2>3, <2>4, SaveGoes DEF InProgress
<1>7. CASE RestartSpawn(s)
  <2>1. flow[s].pc = "spawning" /\ UNCHANGED <<app, port, stored, overlapped>>
    BY <1>7 DEF RestartSpawn, appVars, histVars
  <2>2. CASE Step(s, "spawning", "failed") /\ child' = NoProc /\ UNCHANGED <<proc, conf>>
    BY <2>1, <2>2, StepMoves, SaveGoes
  <2>3. CASE \E p \in Procs :
               /\ Spawned(p) /\ UNCHANGED child
               /\ flow' = [flow EXCEPT ![s].pc = "storing", ![s].fresh = p]
    BY <2>1, <2>3, SaveSpawns
  <2> QED
    BY <1>7, <2>2, <2>3 DEF RestartSpawn
<1>8. CASE RestartStore(s)
  BY <1>8, SaveStores
<1> QED
  BY <1>1, <1>2, <1>3, <1>4, <1>5, <1>6, <1>7, <1>8

LEMMA SaveNext == ASSUME Inv, SaveInv, Next PROVE SaveInv'
<1>0. Typed /\ OneHolder /\ ProcTyped /\ proc \in [Procs -> States]
  BY DEF Inv, Typed, ProcTyped
<1>1. CASE Exit \/ ApplicationCrashes
  BY <1>0, <1>1, SavesForget DEF Exit, ApplicationCrashes, innerVars, histVars
<1>2. CASE ShutdownTake
  BY <1>0, <1>2, SavesSame DEF ShutdownTake, histVars
<1>3. ASSUME NEW S, proc' = Killed(S), UNCHANGED <<innerVars, conf, stored, flow, histVars>>,
             app' # "down" \/ UNCHANGED app
      PROVE  SaveInv'
  <2>1. \A p \in Procs : proc'[p] = proc[p] \/ (proc'[p] = "dead" /\ Alive(p))
    BY <1>0, <1>3, KilledTyped
  <2> QED
    BY <1>0, <1>3, <2>1, SavesSame DEF innerVars, histVars
<1>4. CASE ShutdownKill
  BY <1>3, <1>4 DEF ShutdownKill
<1>5. ASSUME NEW p \in Procs, ProcessDies(p) PROVE SaveInv'
  BY <1>3, <1>5 DEF ProcessDies
<1>6. ASSUME NEW p \in Procs, AcquireLock(p) PROVE SaveInv'
  BY <1>0, <1>6, SavesSame DEF AcquireLock, appVars, innerVars, histVars
<1>7. ASSUME UNCHANGED <<app, child, port, proc, conf, stored, flow, overlapped>>
      PROVE  SaveInv'
  BY <1>0, <1>7, SavesSame
<1>8. ASSUME NEW l \in Procs, LoopChecks(l) \/ LoopPolls(l) \/ LoopReports(l) \/ Deadline(l)
      PROVE  SaveInv'
  BY <1>7, <1>8
  DEF LoopChecks, LoopPolls, LoopReports, Deadline, appVars, innerVars, histVars
<1>9. ASSUME NEW i \in Intents, Submit(i) \/ SubmitFails(i) \/ CloseDialog(i) \/ TaskEnds(i)
      PROVE  SaveInv'
  BY <1>7, <1>9 DEF Submit, SubmitFails, CloseDialog, TaskEnds, appVars, innerVars, histVars
<1>10. ASSUME NEW r \in reqs, HandleSubmit(r) \/ SubmitSucceeds(r) PROVE SaveInv'
  BY <1>7, <1>10 DEF HandleSubmit, SubmitSucceeds, appVars, innerVars, histVars
<1> QED
  BY <1>0, <1>1, <1>2, <1>4, <1>5, <1>6, <1>8, <1>9, <1>10, Steps, SavesLaunch, SavesServer,
     SavesClear, SaveStep

LEMMA SaveInductive == Spec => [](Inv /\ SaveInv)
<1>1. Init => SaveInv
  <2> SUFFICES ASSUME Init PROVE SaveInv
    OBVIOUS
  <2>1. /\ \A s \in Saves : flow[s] = NoFlow
        /\ port = NoProc /\ child = NoProc /\ stored = [key |-> 0, file |-> 0]
        /\ \A p \in Procs : conf[p] = [key |-> 0, file |-> 0]
    BY DEF Init
  <2> QED
    BY <2>1, ProcsNat DEF NoFlow, SaveInv, DownIsQuiet, Quiet, Spawns, Unstored, Replaced,
       Replacing, FileRead, KeyGiven, InProgress
<1>2. Inv /\ SaveInv /\ [Next]_vars => SaveInv'
  <2> SUFFICES ASSUME Inv, SaveInv, UNCHANGED vars PROVE SaveInv'
    BY SaveNext
  <2> QED
    BY SavesSame DEF Inv, vars, appVars, innerVars, histVars
<1> QED
  BY InvInductive, <1>1, <1>2, PTL DEF Spec

(* A child that serves runs with the configuration that is stored once the     *)
(* save that wrote it has finished its restart, for any number of saves at     *)
(* once, quits, crashes and late writes; while no two saves overlap its key is  *)
(* the stored one too, unless it has none.                                    *)
THEOREM OneSaveApplied == Spec => []SavedIsApplied
<1>1. Inv /\ SaveInv => SavedIsApplied
  <2> SUFFICES ASSUME Inv, SaveInv, child # NoProc, proc[child] = "serving"
               PROVE  /\ Finished(stored.file) => conf[child].file = stored.file
                      /\ ~overlapped /\ Finished(stored.key) /\ stored.key # 0 =>
                           conf[child].key \in {0, stored.key}
    BY DEF SavedIsApplied
  <2>1. /\ child \in Procs
        /\ stored.file = 0 \/ stored.file \in Saves
        /\ stored.key = 0 \/ stored.key \in Saves
    BY FlowTyped DEF Inv, Typed, InnerTyped
  <2>2. ASSUME Finished(stored.file) PROVE conf[child].file = stored.file
    BY <2>1, <2>2 DEF SaveInv, FileRead, Replaced, Replacing, Finished
  <2>3. ASSUME ~overlapped, Finished(stored.key), stored.key # 0
        PROVE  conf[child].key \in {0, stored.key}
    BY <2>1, <2>3 DEF SaveInv, KeyGiven, Finished
  <2> QED
    BY <2>2, <2>3
<1> QED
  BY SaveInductive, <1>1, PTL
-----------------------------------------------------------------------------
(* Health loops, any number of them at once.                                *)

Served == {"serving", "dead"}

\* A loop that has unlocked inner asks a process that was in it, which is still
\* the one in it while none was replaced under a check, and has served if it
\* answered.
LoopAsks(l) ==
  Asking(l) =>
    /\ loop[l].port \in Procs
    /\ crossed \/ loop[l].port = port
    /\ loop[l].pc = "healthy" => proc[loop[l].port] \in Served

\* An application that is down has no loops.
DownIsSilent == app = "down" => \A l \in Procs : loop[l].pc = "off"

ReadyInv == (\A l \in Procs : LoopAsks(l)) /\ DownIsSilent /\ ReadyHasServed

\* A process that has served keeps serving or is dead.
LEMMA ServedKept ==
  ASSUME Typed, Next, NEW p \in Procs, proc[p] \in Served PROVE proc'[p] \in Served
<1>0. proc \in [Procs -> States]
  BY DEF Typed, ProcTyped
<1>1. ASSUME NEW S, proc' = Killed(S) PROVE proc'[p] \in Served
  BY <1>0, <1>1 DEF Killed, Served
<1>2. ASSUME NEW q \in Procs, Spawned(q) PROVE proc'[p] \in Served
  BY <1>0, <1>2 DEF Spawned, Spawnable, Served
<1>3. ASSUME NEW q \in Procs, AcquireLock(q) \/ CreateServer(q)
      PROVE  proc'[p] \in Served
  BY <1>0, <1>3 DEF AcquireLock, CreateServer, Served
<1>4. CASE UNCHANGED proc
  BY <1>4
<1>5. CASE Launch
  BY <1>2, <1>4, <1>5 DEF Launch
<1>6. CASE ShutdownKill
  BY <1>1, <1>6 DEF ShutdownKill
<1>7. ASSUME NEW q \in Procs, ProcessDies(q) PROVE proc'[p] \in Served
  BY <1>1, <1>7 DEF ProcessDies
<1>8. ASSUME NEW s \in Saves, RestartKill(s) \/ RestartSpawn(s) PROVE proc'[p] \in Served
  BY <1>1, <1>2, <1>4, <1>8 DEF RestartKill, RestartSpawn
<1> QED
  BY <1>3, <1>4, <1>5, <1>6, <1>7, <1>8, Steps
  DEF ShutdownTake, Exit, ApplicationCrashes, ClearSecret, LoopChecks, LoopPolls, LoopReports, Deadline,
      StoreSecret, PostConfig, WriteConfig, ConfigAnswer, DeclineRestart, RestartTake,
      RestartStore, Submit, SubmitFails, CloseDialog, TaskEnds, HandleSubmit, SubmitSucceeds

\* What ReadyInv rests on when only processes, saves and tasks move.
LEMMA ReadySame ==
  ASSUME Typed, ReadyInv, UNCHANGED <<port, loop, crossed>>,
         phase' \in {phase, "failed"}, app' = "down" => app = "down",
         \A p \in Procs : proc[p] \in Served => proc'[p] \in Served
  PROVE  ReadyInv'
<1>1. phase = "ready" => port \in Procs
  BY DEF Typed, InnerTyped
<1>2. DownIsSilent' /\ \A l \in Procs : LoopAsks(l)'
  BY DEF ReadyInv, DownIsSilent, LoopAsks, Asking
<1>3. ReadyHasServed'
  BY <1>1 DEF ReadyInv, ReadyHasServed, Served
<1> QED
  BY <1>2, <1>3 DEF ReadyInv

\* One loop moves, and the phase follows a verdict or stays.
LEMMA ReadyLoop ==
  ASSUME Typed, ReadyInv, NEW l \in Procs,
         UNCHANGED <<port, proc, crossed, app>>, app # "down",
         \A k \in Procs : k # l => loop'[k] = loop[k],
         LoopAsks(l)',
         phase' \in {phase, "failed"} \/ (phase' = "ready" /\ loop[l].pc = "healthy")
  PROVE  ReadyInv'
<1>1. \A k \in Procs : LoopAsks(k)'
  BY DEF ReadyInv, LoopAsks, Asking
<1>2. ReadyHasServed'
  BY DEF ReadyInv, ReadyHasServed, LoopAsks, Asking, Served
<1> QED
  BY <1>1, <1>2 DEF ReadyInv, DownIsSilent

LEMMA LoopStepReady ==
  ASSUME Typed, ReadyInv, NEW l \in Procs,
         LoopChecks(l) \/ LoopPolls(l) \/ LoopReports(l) \/ Deadline(l)
  PROVE  ReadyInv'
<1>1. /\ loop \in [Procs -> Loops] /\ loop[l] \in Loops
      /\ phase # "failed" => port \in Procs
  BY DEF Typed, ThreadsTyped, InnerTyped
<1>2. app # "down"
  BY DEF ReadyInv, DownIsSilent, LoopChecks, LoopPolls, LoopReports, Deadline
<1>3. UNCHANGED <<port, proc, crossed, app>>
  BY DEF LoopChecks, LoopPolls, LoopReports, Deadline, appVars, innerVars, histVars
<1>4. ASSUME LoopEnds(l)
      PROVE  LoopAsks(l)' /\ \A k \in Procs : k # l => loop'[k] = loop[k]
  BY <1>1, <1>4 DEF LoopEnds, NoLoop, LoopAsks, Asking
<1>5. CASE LoopChecks(l)
  <2>1. CASE LoopEnds(l)
    BY <1>2, <1>3, <1>4, <1>5, <2>1, ReadyLoop DEF LoopChecks
  <2>2. CASE /\ phase # "failed"
             /\ loop' = [loop EXCEPT ![l].pc = "polling", ![l].port = port]
             /\ UNCHANGED phase
    <3>1. /\ loop'[l].pc = "polling" /\ loop'[l].port = port
          /\ \A k \in Procs : k # l => loop'[k] = loop[k]
      BY <1>1, <2>2 DEF Loops
    <3>2. LoopAsks(l)'
      BY <1>1, <1>3, <2>2, <3>1 DEF LoopAsks
    <3> QED
      BY <1>2, <1>3, <2>2, <3>1, <3>2, ReadyLoop
  <2> QED
    BY <1>5, <2>1, <2>2 DEF LoopChecks
<1>6. CASE LoopPolls(l)
  <2>1. PICK pc \in {"healthy", "unhealthy"} :
          /\ loop' = [loop EXCEPT ![l].pc = pc]
          /\ pc = "healthy" => proc[loop[l].port] = "serving"
    BY <1>6 DEF LoopPolls
  <2>2. /\ loop'[l].pc = pc /\ loop'[l].port = loop[l].port
        /\ \A k \in Procs : k # l => loop'[k] = loop[k]
    BY <1>1, <2>1 DEF Loops
  <2>3. loop[l].port \in Procs /\ (crossed \/ loop[l].port = port)
    BY <1>6 DEF LoopPolls, ReadyInv, LoopAsks, Asking
  <2>4. LoopAsks(l)'
    BY <1>3, <2>1, <2>2, <2>3 DEF LoopAsks, Served
  <2>5. UNCHANGED phase
    BY <1>6 DEF LoopPolls, innerVars
  <2> QED
    BY <1>2, <1>3, <2>2, <2>4, <2>5, ReadyLoop
<1>7. CASE LoopReports(l)
  <2>1. CASE LoopEnds(l) /\ phase' = IF phase # "starting" THEN phase
                        ELSE IF loop[l].pc = "healthy" THEN "ready" ELSE "failed"
    BY <1>2, <1>3, <1>4, <2>1, ReadyLoop
  <2>2. CASE loop' = [loop EXCEPT ![l].pc = "sleep"] /\ UNCHANGED phase
    <3>1. loop'[l].pc = "sleep" /\ \A k \in Procs : k # l => loop'[k] = loop[k]
      BY <1>1, <2>2 DEF Loops
    <3>2. LoopAsks(l)'
      BY <3>1 DEF LoopAsks, Asking
    <3> QED
      BY <1>2, <1>3, <2>2, <3>1, <3>2, ReadyLoop
  <2> QED
    BY <1>7, <2>1, <2>2 DEF LoopReports
<1>8. CASE Deadline(l)
  <2>1. loop' = [loop EXCEPT ![l].late = TRUE] /\ UNCHANGED phase
    BY <1>8 DEF Deadline, innerVars
  <2>2. /\ loop'[l].pc = loop[l].pc /\ loop'[l].port = loop[l].port
        /\ \A k \in Procs : k # l => loop'[k] = loop[k]
    BY <1>1, <2>1 DEF Loops
  <2>3. LoopAsks(l)'
    BY <1>3, <2>2 DEF ReadyInv, LoopAsks, Asking
  <2> QED
    BY <1>2, <1>3, <2>1, <2>2, <2>3, ReadyLoop
<1> QED
  BY <1>5, <1>6, <1>7, <1>8

\* Inner is replaced at a launch, when there are no loops, or by a restart, which
\* crosses every check under way.
LEMMA ReadyReplaced ==
  ASSUME Typed, SaveInv, ReadyInv,
         Launch \/ \E s \in Saves : RestartStore(s)
  PROVE  ReadyInv'
<1>0. /\ loop \in [Procs -> Loops]
      /\ \A p \in Procs : loop[p] \in Loops
  BY DEF Typed, ThreadsTyped
<1>1. CASE Launch
  <2>1. \A l \in Procs : loop[l].pc = "off"
    BY <1>1 DEF ReadyInv, DownIsSilent, Launch
  <2>2. \A l \in Procs : loop'[l].pc \in {"off", "sleep"}
    BY <1>0, <1>1, <2>1 DEF Launch, AsleepLoop
  <2>3. phase' # "ready" /\ app' # "down"
    BY <1>1 DEF Launch
  <2> QED
    BY <2>2, <2>3 DEF ReadyInv, LoopAsks, Asking, DownIsSilent, ReadyHasServed
<1>2. ASSUME NEW s \in Saves, RestartStore(s) PROVE ReadyInv'
  <2>1. flow[s].pc = "storing" /\ phase' = "starting" /\ UNCHANGED <<app, proc>>
    BY <1>2 DEF RestartStore, Step, appVars
  <2>2. app # "down"
    BY <2>1 DEF SaveInv, DownIsQuiet, Quiet
  <2>3. loop' = [loop EXCEPT ![flow[s].fresh] = AsleepLoop]
    BY <1>2 DEF RestartStore
  <2>4. \A l \in Procs : loop'[l] = loop[l] \/ loop'[l] = AsleepLoop
    BY <1>0, <2>3
  <2>5. crossed' \/ \A l \in Procs : ~Asking(l)
    BY <1>2 DEF RestartStore
  <2>6. ASSUME NEW l \in Procs PROVE LoopAsks(l)'
    <3>1. CASE loop'[l] = AsleepLoop
      BY <3>1 DEF AsleepLoop, LoopAsks, Asking
    <3>2. CASE loop'[l] = loop[l]
      BY <2>1, <2>5, <3>2 DEF ReadyInv, LoopAsks, Asking
    <3> QED
      BY <2>4, <3>1, <3>2
  <2> QED
    BY <2>1, <2>2, <2>6 DEF ReadyInv, DownIsSilent, ReadyHasServed
<1> QED
  BY <1>1, <1>2

LEMMA ReadyNext == ASSUME Inv, SaveInv, ReadyInv, Next PROVE ReadyInv'
<1>0. Typed /\ \A p \in Procs : proc[p] \in Served => proc'[p] \in Served
  BY ServedKept DEF Inv
<1>1. CASE Exit \/ ApplicationCrashes
  <2>1. /\ UNCHANGED <<phase, port, proc, crossed>>
        /\ loop' = [p \in Procs |-> NoLoop]
    BY <1>1 DEF Exit, ApplicationCrashes, ForgetThreads, innerVars, histVars
  <2>2. \A l \in Procs : loop'[l].pc = "off"
    BY <2>1 DEF NoLoop
  <2> QED
    BY <2>1, <2>2 DEF ReadyInv, LoopAsks, Asking, DownIsSilent, ReadyHasServed
<1>2. CASE Launch \/ \E s \in Saves : RestartStore(s)
  BY <1>0, <1>2, ReadyReplaced
<1>3. ASSUME NEW l \in Procs, LoopChecks(l) \/ LoopPolls(l) \/ LoopReports(l) \/ Deadline(l)
      PROVE  ReadyInv'
  BY <1>0, <1>3, LoopStepReady
<1>4. ASSUME UNCHANGED <<port, loop, crossed>>, phase' \in {phase, "failed"},
             app' = "down" => app = "down"
      PROVE  ReadyInv'
  BY <1>0, <1>4, ReadySame
<1>5. CASE ShutdownTake \/ ShutdownKill \/ ClearSecret
  BY <1>4, <1>5 DEF ShutdownTake, ShutdownKill, ClearSecret, appVars, innerVars, histVars
<1>6. ASSUME NEW p \in Procs, AcquireLock(p) \/ CreateServer(p) \/ ProcessDies(p)
      PROVE  ReadyInv'
  BY <1>4, <1>6 DEF AcquireLock, CreateServer, ProcessDies, appVars, innerVars, histVars
<1>7. ASSUME NEW s \in Saves, \/ StoreSecret(s) \/ PostConfig(s) \/ WriteConfig(s)
                              \/ ConfigAnswer(s) \/ DeclineRestart(s) \/ RestartTake(s)
                              \/ RestartKill(s) \/ RestartSpawn(s)
      PROVE  ReadyInv'
  BY <1>4, <1>7 DEF StoreSecret, PostConfig, WriteConfig, ConfigAnswer, DeclineRestart,
     RestartTake, RestartKill, RestartSpawn, appVars, innerVars, histVars
<1>8. ASSUME NEW i \in Intents, Submit(i) \/ SubmitFails(i) \/ CloseDialog(i) \/ TaskEnds(i)
      PROVE  ReadyInv'
  BY <1>4, <1>8 DEF Submit, SubmitFails, CloseDialog, TaskEnds, appVars, innerVars, histVars
<1>9. ASSUME NEW r \in reqs, HandleSubmit(r) \/ SubmitSucceeds(r) PROVE ReadyInv'
  BY <1>4, <1>9 DEF HandleSubmit, SubmitSucceeds, appVars, innerVars, histVars
<1> QED
  BY <1>1, <1>2, <1>3, <1>5, <1>6, <1>7, <1>8, <1>9, Steps

(* An application that is Ready speaks of a Runtime that has served, for any   *)
(* number of saves, restarts and health loops at once and whatever crashes,    *)
(* unless a restart replaced inner between a loop's health check and its       *)
(* verdict.                                                                   *)
THEOREM ReadyPhasesServed == Spec => []ReadyHasServed
<1>1. Init => ReadyInv
  <2> SUFFICES ASSUME Init PROVE ReadyInv
    OBVIOUS
  <2>1. phase = "failed" /\ \A l \in Procs : loop[l].pc = "off"
    BY DEF Init, NoLoop
  <2> QED
    BY <2>1 DEF ReadyInv, LoopAsks, Asking, DownIsSilent, ReadyHasServed
<1>2. Inv /\ SaveInv /\ ReadyInv /\ [Next]_vars => ReadyInv'
  <2> SUFFICES ASSUME Inv, ReadyInv, UNCHANGED vars PROVE ReadyInv'
    BY ReadyNext
  <2> QED
    BY ReadySame DEF Inv, vars, appVars, innerVars, histVars
<1>3. ReadyInv => ReadyHasServed
  BY DEF ReadyInv
<1> QED
  BY SaveInductive, <1>1, <1>2, <1>3, PTL DEF Spec
-----------------------------------------------------------------------------
(* McpAdapter: types, and what the pipe and the requests in flight refer to.  *)

\* The lines read so far are the first of those written.
Taken == Len(sent) - Len(stdin)

Outcomes == {"ok", "protocol_error", "rejected", "rate_limited", "unavailable", "failed"}

Task == [request : Requests, status : Live \cup Done]
Admission == [id : Nat, at : Nat]
Response == [id : Nat, kind : {"initialize", "ping", "list", "call"},
             outcome : Outcomes, task : Nat]

Pipe ==
  /\ sent \in Seq(Script) /\ Len(sent) <= MaxMessages
  /\ stdin \in Seq(Nat)
  /\ Len(stdin) <= Len(sent)
  /\ \A n \in DOMAIN stdin : stdin[n] = Taken + n

ClockTyped ==
  /\ now \in 0 .. MaxTime
  /\ calls \in Seq(Nat)
  /\ admitted \in Seq(Admission)
  /\ limited \subseteq [at : Nat, after : Nat]

RuntimeTyped ==
  /\ up \in BOOLEAN /\ token \in BOOLEAN /\ lease \in BOOLEAN
  /\ restarts \in 0 .. MaxRestarts
  /\ tasks \in Seq(Task)

\* A request in flight is of a call that was read.
HttpTyped ==
  /\ http \in [DOMAIN http -> {"arrived", "running"}]
  /\ \A i \in DOMAIN http : i \in 1 .. Taken /\ sent[i].request \in Requests
  /\ performed \subseteq 1 .. Taken

ServerTyped ==
  /\ initialized \in BOOLEAN /\ ready \in BOOLEAN
  /\ answers \in Seq(Response)

McpTyped == Pipe /\ ClockTyped /\ RuntimeTyped /\ HttpTyped /\ ServerTyped

\* The call in service is the last line read.
InService == serving # 0 => serving \in DOMAIN http /\ serving = Taken /\ serving \in Asked

\* What is read is answered, in order, but for the call in service.
AllAnswered ==
  /\ \A n \in DOMAIN answers :
       /\ answers[n].id \in Asked
       /\ answers[n].id <= Taken
       /\ answers[n].id # serving
  /\ \A m, n \in DOMAIN answers : m < n => answers[m].id < answers[n].id
  /\ \A i \in Asked :
       i <= Taken /\ i # serving => \E n \in DOMAIN answers : answers[n].id = i

HandshakeRead ==
  /\ initialized => \E i \in 1 .. Taken :
                       sent[i].kind = "initialize" /\ ~sent[i].notification
  /\ ready => \E i, j \in 1 .. Taken :
                 /\ i < j
                 /\ sent[i].kind = "initialize" /\ ~sent[i].notification
                 /\ sent[j].kind = "initialized"
  /\ HandshakeFirst
  /\ \A n \in DOMAIN admitted : admitted[n].id <= Taken

\* The limiter holds the times of the last calls it let through; all the others are
\* outside the window.
Forgotten == Len(admitted) - Len(calls)

Windowed ==
  /\ Forgotten >= 0 /\ Len(calls) <= Maximum
  /\ \A k \in DOMAIN calls : calls[k] = admitted[Forgotten + k].at
  /\ \A k \in 1 .. Forgotten : admitted[k].at <= now - Window
  /\ \A k \in DOMAIN admitted : admitted[k].at <= now
  /\ \A j, k \in DOMAIN admitted : j <= k => admitted[j].at <= admitted[k].at
  /\ \A r \in limited : r.after <= Len(admitted)

McpInv ==
  /\ McpTyped /\ InService /\ AllAnswered /\ HandshakeRead /\ Windowed
  /\ RateIsWindowed /\ OneTaskPerRequest

LEMMA McpInitially == McpInit => McpInv
<1> SUFFICES ASSUME McpInit PROVE McpInv
  OBVIOUS
<1> USE DEF McpInit, Empty
<1>1. Pipe
  BY BoundAssumption DEF Pipe, Taken
<1>2. ClockTyped
  BY BoundAssumption DEF ClockTyped
<1>3. RuntimeTyped
  <2>1. up \in BOOLEAN /\ token \in BOOLEAN /\ lease \in BOOLEAN
    BY Zenon
  <2>2. restarts \in 0 .. MaxRestarts /\ tasks \in Seq(Task)
    BY BoundAssumption
  <2> QED
    BY <2>1, <2>2 DEF RuntimeTyped
<1>4. HttpTyped
  BY DEF HttpTyped
<1>5. ServerTyped
  <2>1. initialized \in BOOLEAN /\ ready \in BOOLEAN
    BY Zenon
  <2>2. answers \in Seq(Response)
    OBVIOUS
  <2> QED
    BY <2>1, <2>2 DEF ServerTyped
<1>6. InService /\ AllAnswered
  BY DEF InService, AllAnswered, Asked
<1>7. HandshakeRead /\ Windowed
  BY BoundAssumption DEF HandshakeRead, HandshakeFirst, Windowed, Forgotten
<1>8. RateIsWindowed /\ OneTaskPerRequest
  BY DEF RateIsWindowed, OneTaskPerRequest
<1> QED
  BY <1>1, <1>2, <1>3, <1>4, <1>5, <1>6, <1>7, <1>8 DEF McpInv, McpTyped

\* A line of the script is one of the host's lines, and a call names a request.
LEMMA LineType ==
  ASSUME Pipe, NEW i \in DOMAIN sent
  PROVE  /\ sent[i].kind \in {"initialize", "initialized", "ping", "list", "call"}
         /\ sent[i].notification \in BOOLEAN /\ sent[i].valid \in BOOLEAN
         /\ sent[i].kind = "call" => sent[i].request \in Requests
<1>1. sent[i] \in Script
  BY DEF Pipe
<1> QED
  BY <1>1, ScriptAssumption DEF Lines

LEMMA TakenType == Pipe => Taken \in Nat /\ Taken <= Len(sent) /\ DOMAIN sent = 1 .. Len(sent)
BY DEF Pipe, Taken

\* run_stdio takes the line after the last one taken.
LEMMA ReadingTakes ==
  ASSUME Pipe, NEW kinds, Reading(kinds), UNCHANGED sent
  PROVE  /\ Head(stdin) = Taken + 1 /\ Taken + 1 \in DOMAIN sent
         /\ Taken' = Taken + 1
         /\ Pipe'
<1>1. stdin # <<>> /\ stdin \in Seq(Nat) /\ stdin' = Tail(stdin)
  BY DEF Pipe, Reading
<1>2. /\ Len(stdin) \in Nat /\ Len(stdin) >= 1
      /\ stdin' \in Seq(Nat) /\ Len(stdin') = Len(stdin) - 1
      /\ \A n \in 1 .. Len(stdin') : stdin'[n] = stdin[n + 1]
      /\ Head(stdin) = stdin[1]
  BY <1>1
<1>3. Len(sent) \in Nat /\ Len(stdin) <= Len(sent) /\ DOMAIN sent = 1 .. Len(sent)
  BY DEF Pipe
<1>4. DOMAIN stdin = 1 .. Len(stdin)
  BY <1>1
<1>5. \A n \in 1 .. Len(stdin) : stdin[n] = Taken + n
  BY <1>4 DEF Pipe
<1>6. Head(stdin) = Taken + 1 /\ Taken + 1 \in DOMAIN sent
  BY <1>2, <1>3, <1>5 DEF Taken
<1>7. Taken' = Taken + 1
  BY <1>2, <1>3 DEF Taken
<1>8. \A n \in DOMAIN stdin' : stdin'[n] = Taken' + n
  <2> SUFFICES ASSUME NEW n \in 1 .. Len(stdin') PROVE stdin'[n] = Taken' + n
    BY <1>2
  <2>1. n + 1 \in 1 .. Len(stdin) /\ stdin'[n] = stdin[n + 1]
    BY <1>2
  <2>2. stdin[n + 1] = Taken + (n + 1)
    BY <2>1, <1>5
  <2> QED
    BY <2>1, <2>2, <1>2, <1>3, <1>7 DEF Taken
<1> QED
  BY <1>2, <1>3, <1>6, <1>7, <1>8 DEF Pipe

-----------------------------------------------------------------------------
(* Which steps read a line, which answer one, and which do neither.           *)

LEMMA ServeTakes ==
  ASSUME McpInv, Serve
  PROVE  /\ serving = 0 /\ UNCHANGED sent
         /\ Head(stdin) = Taken + 1 /\ Taken + 1 \in DOMAIN sent
         /\ Taken' = Taken + 1
         /\ Pipe'
<1> DEFINE TakesLine(kinds) == Reading(kinds) /\ UNCHANGED sent
<1>1. \E kinds : TakesLine(kinds)
  <2>1. CASE Initialize
    BY <2>1 DEF Initialize, host
  <2>2. CASE Initialized
    BY <2>2 DEF Initialized, host
  <2>3. CASE Ping
    BY <2>3 DEF Ping, host
  <2>4. CASE NotReady \/ ListTools
    BY <2>4 DEF NotReady, ListTools, host
  <2>5. CASE InvalidCall
    BY <2>5 DEF InvalidCall, host
  <2>6. CASE RateLimited
    BY <2>6 DEF RateLimited, ValidCall, host
  <2>7. CASE CallTool
    BY <2>7 DEF CallTool, ValidCall, host
  <2> QED
    BY <2>1, <2>2, <2>3, <2>4, <2>5, <2>6, <2>7 DEF Serve
<1>2. PICK kinds : TakesLine(kinds)
  BY <1>1
<1> QED
  BY <1>2, ReadingTakes DEF McpInv, McpTyped, Reading

\* A line that is read is answered, or must not be, or is a call that went out.
ServeAnswered(i) ==
  \/ UNCHANGED <<serving, answers>> /\ i \notin Asked
  \/ /\ \E outcome \in Outcomes : answers' = Append(answers, Answer(i, outcome, 0))
     /\ UNCHANGED serving /\ i \in Asked
  \/ UNCHANGED answers /\ serving' = i /\ i \in DOMAIN http' /\ i \in Asked

LEMMA RespondedAnswers ==
  ASSUME NEW i \in DOMAIN sent, sent[i].kind # "initialized", NEW outcome \in Outcomes,
         Responded(i, outcome), UNCHANGED serving
  PROVE  ServeAnswered(i)
BY DEF Responded, ServeAnswered, Asked

LEMMA ServeAnswers ==
  ASSUME McpInv, Serve
  PROVE  ServeAnswered(Taken + 1)
<1> SUFFICES ASSUME NEW i \in DOMAIN sent, i = Head(stdin)
             PROVE  ServeAnswered(i)
  BY ServeTakes
<1>1. i \in DOMAIN sent /\ i = Head(stdin)
  OBVIOUS
<1>2. ASSUME NEW outcome \in Outcomes, Responded(i, outcome), UNCHANGED serving,
             sent[i].kind # "initialized"
      PROVE  ServeAnswered(i)
  BY <1>1, <1>2, RespondedAnswers
<1>3. CASE Initialize
  <2>1. PICK outcome \in {"protocol_error", "ok"} : Responded(i, outcome)
    BY <1>1, <1>3 DEF Initialize
  <2> QED
    BY <2>1, <1>1, <1>2, <1>3 DEF Initialize, Reading, Outcomes
<1>4. CASE Initialized
  BY <1>1, <1>4 DEF Initialized, Reading, ServeAnswered, Asked
<1>5. CASE Ping \/ NotReady \/ ListTools
  BY <1>1, <1>2, <1>5 DEF Ping, NotReady, ListTools, Reading, Outcomes
<1>6. CASE InvalidCall \/ RateLimited
  BY <1>1, <1>2, <1>6 DEF InvalidCall, RateLimited, ValidCall, Reading, Outcomes
<1>7. CASE CallTool
  <2>1. sent[i].kind = "call" /\ ~sent[i].notification
    BY <1>1, <1>7 DEF CallTool, ValidCall, Reading
  <2>2. CASE ~up
    BY <1>1, <1>2, <1>7, <2>1, <2>2 DEF CallTool, Outcomes
  <2>3. CASE up
    <3>1. /\ serving' = i /\ UNCHANGED answers
          /\ http' = [j \in DOMAIN http \cup {i} |-> IF j = i THEN "arrived" ELSE http[j]]
      BY <1>1, <1>7, <2>3 DEF CallTool
    <3> QED
      BY <1>1, <2>1, <3>1 DEF ServeAnswered, Asked
  <2> QED
    BY <2>2, <2>3
<1> QED
  BY <1>3, <1>4, <1>5, <1>6, <1>7 DEF Serve

\* The other steps leave the pipe alone; one that ends the wait for a call answers it.
Aside == TimePasses \/ TimesOut \/ Handler \/ TaskStarts \/ TaskFinishes
         \/ RuntimeDies \/ RuntimeStarts

CallAnswered ==
  \/ UNCHANGED <<serving, answers>> /\ (serving \in DOMAIN http => serving \in DOMAIN http')
  \/ /\ serving # 0 /\ serving' = 0
     /\ \E outcome \in Outcomes, task \in Nat :
          answers' = Append(answers, Answer(serving, outcome, task))

LEMMA RepliesAnswer ==
  ASSUME McpInv, NEW i \in DOMAIN http, NEW outcome \in Outcomes, NEW task \in Nat,
         Replies(i, outcome, task)
  PROVE  CallAnswered
<1>1. i # 0
  BY DEF McpInv, McpTyped, HttpTyped
<1>2. CASE serving = i
  BY <1>1, <1>2 DEF Replies, CallAnswered
<1>3. CASE serving # i
  BY <1>3 DEF Replies, CallAnswered
<1> QED
  BY <1>2, <1>3

LEMMA HandlerAnswers ==
  ASSUME McpInv, Handler
  PROVE  CallAnswered
<1>1. PICK i \in DOMAIN http :
        \/ Unauthorized(i) \/ InvalidBody(i) \/ HandleRead(i) \/ HandleComparison(i)
        \/ HandleSubmission(i) \/ HandleCancellation(i)
        \/ SkillStarts(i) \/ SkillActs(i) \/ SkillEnds(i)
  BY DEF Handler
<1>2. ASSUME NEW outcome \in {"ok", "rejected", "failed"}, NEW task \in Nat,
             Replies(i, outcome, task)
      PROVE  CallAnswered
  BY <1>2, RepliesAnswer DEF Outcomes
<1>3. DOMAIN tasks = 1 .. Len(tasks) /\ Len(tasks) \in Nat
  BY DEF McpInv, McpTyped, RuntimeTyped
<1>4. CASE Unauthorized(i) \/ InvalidBody(i)
  BY <1>2, <1>4 DEF Unauthorized, InvalidBody
<1>5. CASE HandleRead(i) \/ HandleComparison(i)
  BY <1>2, <1>5 DEF HandleRead, HandleComparison
<1>6. CASE HandleSubmission(i)
  <2>1. \E task \in Nat : Replies(i, "ok", task)
    BY <1>3, <1>6 DEF HandleSubmission, SameKey
  <2> QED
    BY <1>2, <2>1
<1>7. CASE HandleCancellation(i)
  <2>1. Replies(i, "failed", 0) \/ \E task \in Nat : Replies(i, "ok", task)
    BY <1>3, <1>7 DEF HandleCancellation
  <2> QED
    BY <1>2, <2>1
<1>8. CASE SkillStarts(i)
  <2>1. CASE Replies(i, "failed", 0)
    BY <1>2, <2>1
  <2>2. CASE UNCHANGED <<serving, answers>> /\ http' = [http EXCEPT ![i] = "running"]
    BY <2>2 DEF CallAnswered
  <2> QED
    BY <1>8, <2>1, <2>2 DEF SkillStarts
<1>9. CASE SkillActs(i)
  BY <1>9 DEF SkillActs, CallAnswered
<1>10. CASE SkillEnds(i)
  <2>1. Replies(i, "ok", 0) \/ Replies(i, "failed", 0)
    BY <1>10 DEF SkillEnds
  <2> QED
    BY <1>2, <2>1
<1> QED
  BY <1>1, <1>4, <1>5, <1>6, <1>7, <1>8, <1>9, <1>10

LEMMA AsideAnswers ==
  ASSUME McpInv, Aside
  PROVE  /\ UNCHANGED <<sent, stdin, initialized, ready, calls, admitted, limited>>
         /\ CallAnswered
<1>1. CASE TimePasses
  BY <1>1 DEF TimePasses, host, server, CallAnswered
<1>2. CASE TimesOut
  BY <1>2 DEF TimesOut, host, server, CallAnswered, Outcomes
<1>3. CASE Handler
  <2>1. UNCHANGED <<sent, stdin, initialized, ready, calls, admitted, limited>>
    BY <1>3 DEF Handler, Unauthorized, InvalidBody, HandleRead, HandleComparison,
                HandleSubmission, HandleCancellation, SkillStarts, SkillActs, SkillEnds,
                host, server
  <2> QED
    BY <1>3, <2>1, HandlerAnswers
<1>4. CASE TaskStarts \/ TaskFinishes
  BY <1>4 DEF TaskStarts, TaskFinishes, host, server, CallAnswered
<1>5. CASE RuntimeDies
  <2>1. CASE serving = 0
    <3>1. UNCHANGED <<serving, answers>>
      BY <1>5, <2>1 DEF RuntimeDies
    <3>2. serving \notin DOMAIN http
      BY <2>1 DEF McpInv, McpTyped, HttpTyped
    <3> QED
      BY <1>5, <3>1, <3>2 DEF RuntimeDies, host, server, CallAnswered
  <2>2. CASE serving # 0
    BY <1>5, <2>2 DEF RuntimeDies, host, server, CallAnswered, Outcomes
  <2> QED
    BY <2>1, <2>2
<1>6. CASE RuntimeStarts
  BY <1>6 DEF RuntimeStarts, host, server, CallAnswered
<1> QED
  BY <1>1, <1>2, <1>3, <1>4, <1>5, <1>6 DEF Aside

LEMMA HostKeepsLines ==
  ASSUME McpInv, HostWrites
  PROVE  /\ Pipe' /\ Taken' = Taken
         /\ \A i \in DOMAIN sent : i \in DOMAIN sent' /\ sent'[i] = sent[i]
         /\ \A i \in 1 .. Taken : i \in Asked' <=> i \in Asked
<1>1. PICK m \in Script :
        /\ Len(sent) < MaxMessages
        /\ sent' = Append(sent, m)
        /\ stdin' = Append(stdin, Len(sent) + 1)
  BY DEF HostWrites
<1>2. /\ sent \in Seq(Script) /\ stdin \in Seq(Nat)
      /\ Len(stdin) <= Len(sent) /\ MaxMessages \in Nat
  BY BoundAssumption DEF McpInv, McpTyped, Pipe
<1>3. \A n \in DOMAIN stdin : stdin[n] = Taken + n
  BY DEF McpInv, McpTyped, Pipe
<1>4. /\ sent' \in Seq(Script) /\ Len(sent') = Len(sent) + 1 /\ Len(sent) \in Nat
      /\ DOMAIN sent = 1 .. Len(sent) /\ DOMAIN sent' = 1 .. Len(sent')
      /\ \A i \in 1 .. Len(sent) : sent'[i] = sent[i]
  BY <1>1, <1>2
<1>5. Len(sent) + 1 \in Nat
  BY <1>4
<1>6. /\ stdin' \in Seq(Nat) /\ Len(stdin') = Len(stdin) + 1 /\ Len(stdin) \in Nat
      /\ DOMAIN stdin = 1 .. Len(stdin) /\ DOMAIN stdin' = 1 .. Len(stdin')
      /\ \A n \in 1 .. Len(stdin) : stdin'[n] = stdin[n]
      /\ stdin'[Len(stdin) + 1] = Len(sent) + 1
  BY <1>1, <1>2, <1>5
<1>7. Taken' = Taken /\ Taken <= Len(sent) /\ Taken \in Nat
  BY <1>2, <1>4, <1>6 DEF Taken
<1>8. \A n \in DOMAIN stdin' : stdin'[n] = Taken' + n
  BY <1>3, <1>4, <1>6, <1>7 DEF Taken
<1>9. Len(sent') <= MaxMessages
  BY <1>1, <1>2, <1>4
<1>10. Pipe'
  BY <1>2, <1>4, <1>6, <1>8, <1>9 DEF Pipe
<1>11. \A i \in 1 .. Taken : i \in Asked' <=> i \in Asked
  BY <1>4, <1>7 DEF Asked
<1> QED
  BY <1>4, <1>7, <1>10, <1>11

LEMMA StepPipes ==
  ASSUME McpInv, [McpNext]_mcpVars
  PROVE  Pipe'
<1>1. CASE HostWrites
  BY <1>1, HostKeepsLines
<1>2. CASE Serve
  BY <1>2, ServeTakes
<1>3. CASE Aside \/ UNCHANGED mcpVars
  BY <1>3, AsideAnswers DEF mcpVars, McpInv, McpTyped, Pipe, Taken
<1> QED
  BY <1>1, <1>2, <1>3 DEF McpNext, Aside

LEMMA AskedType == Pipe => \A i \in Asked : i \in Nat /\ i # 0 /\ i \in DOMAIN sent
BY DEF Pipe, Asked

LEMMA AnswerType ==
  ASSUME Pipe, NEW i \in Asked, NEW outcome \in Outcomes, NEW task \in Nat
  PROVE  Answer(i, outcome, task) \in Response
<1>1. i \in DOMAIN sent /\ sent[i].kind # "initialized"
  BY DEF Asked
<1>2. sent[i].kind \in {"initialize", "ping", "list", "call"}
  BY <1>1, LineType
<1>3. i \in Nat
  BY <1>1 DEF Pipe
<1> QED
  BY <1>2, <1>3 DEF Answer, Response

\* One more answer, above all the others.
LEMMA AnswerNext ==
  ASSUME McpInv, NEW i \in Asked, NEW outcome \in Outcomes, NEW task \in Nat,
         answers' = Append(answers, Answer(i, outcome, task)),
         UNCHANGED sent, serving' = 0, Taken' \in Nat, i = Taken',
         \A n \in DOMAIN answers : answers[n].id < i,
         \A j \in Asked : j < i => \E n \in DOMAIN answers : answers[n].id = j
  PROVE  AllAnswered'
<1>1. answers \in Seq(Response)
  BY DEF McpInv, McpTyped, ServerTyped
<1>2. Answer(i, outcome, task) \in Response
  BY AnswerType DEF McpInv, McpTyped
<1>3. /\ DOMAIN answers = 1 .. Len(answers) /\ Len(answers) \in Nat
      /\ DOMAIN answers' = 1 .. (Len(answers) + 1)
      /\ \A n \in DOMAIN answers : answers'[n] = answers[n]
      /\ answers'[Len(answers) + 1] = Answer(i, outcome, task)
  BY <1>1, <1>2
<1>4. answers'[Len(answers) + 1].id = i
  BY <1>3 DEF Answer
<1>5. Asked' = Asked
  BY DEF Asked
<1>6. \A n \in DOMAIN answers : answers[n].id \in Asked /\ answers[n].id \in Nat
  BY AskedType DEF McpInv, McpTyped, AllAnswered
<1>7. \A m, n \in DOMAIN answers : m < n => answers[m].id < answers[n].id
  BY DEF McpInv, AllAnswered
<1>8. \A n \in DOMAIN answers' :
        /\ answers'[n].id \in Asked'
        /\ answers'[n].id <= Taken'
        /\ answers'[n].id # serving'
  <2>1. i # 0
    BY DEF Asked, McpInv, McpTyped, Pipe
  <2> SUFFICES ASSUME NEW n \in DOMAIN answers'
               PROVE  answers'[n].id \in Asked /\ answers'[n].id <= i /\ answers'[n].id # 0
    BY <1>5
  <2>2. CASE n = Len(answers) + 1
    BY <1>4, <2>1, <2>2
  <2>3. CASE n \in DOMAIN answers
    <3>1. answers'[n].id = answers[n].id /\ answers[n].id \in Asked
      BY <1>3, <1>6, <2>3
    <3>2. answers[n].id # 0 /\ answers[n].id \in Nat
      BY <3>1 DEF Asked, McpInv, McpTyped, Pipe
    <3> QED
      BY <2>3, <3>1, <3>2
  <2> QED
    BY <1>3, <2>2, <2>3
<1>9. \A m, n \in DOMAIN answers' : m < n => answers'[m].id < answers'[n].id
  <2> SUFFICES ASSUME NEW m \in DOMAIN answers', NEW n \in DOMAIN answers', m < n
               PROVE  answers'[m].id < answers'[n].id
    OBVIOUS
  <2>1. m \in DOMAIN answers
    BY <1>3
  <2>2. CASE n \in DOMAIN answers
    BY <1>3, <1>7, <2>1, <2>2
  <2>3. CASE n = Len(answers) + 1
    BY <1>3, <1>4, <2>1, <2>3
  <2> QED
    BY <1>3, <2>2, <2>3
<1>10. \A j \in Asked' :
         j <= Taken' /\ j # serving' => \E n \in DOMAIN answers' : answers'[n].id = j
  <2> SUFFICES ASSUME NEW j \in Asked, j <= i
               PROVE  \E n \in DOMAIN answers' : answers'[n].id = j
    BY <1>5
  <2>1. j \in Nat /\ i \in Nat
    BY DEF Asked, McpInv, McpTyped, Pipe
  <2>2. CASE j = i
    BY <1>3, <1>4, <2>2
  <2>3. CASE j < i
    <3>1. PICK n \in DOMAIN answers : answers[n].id = j
      BY <2>3
    <3>2. n \in DOMAIN answers' /\ answers'[n] = answers[n]
      BY <1>3
    <3> QED
      BY <3>1, <3>2
  <2> QED
    BY <2>1, <2>2, <2>3
<1> QED
  BY <1>8, <1>9, <1>10 DEF AllAnswered

LEMMA StepAnswersAll ==
  ASSUME McpInv, [McpNext]_mcpVars
  PROVE  AllAnswered' /\ InService'
<1>1. Pipe /\ Taken \in Nat /\ AllAnswered /\ InService
  BY TakenType DEF McpInv, McpTyped
<1>2. \A i \in Asked : i \in Nat /\ i # 0 /\ i \in DOMAIN sent
  BY <1>1, AskedType
<1>3. CASE HostWrites
  <2>1. UNCHANGED <<answers, serving, http>>
    BY <1>3 DEF HostWrites
  <2>2. Taken' = Taken /\ Pipe'
    BY <1>3, HostKeepsLines
  <2>3. \A i \in Asked' : i \in Nat /\ i # 0
    BY <2>2 DEF Pipe, Asked
  <2>4. \A i \in Nat \ {0} : i <= Taken => (i \in Asked' <=> i \in Asked)
    BY <1>1, <1>3, HostKeepsLines
  <2>5. AllAnswered'
    BY <1>1, <1>2, <2>1, <2>2, <2>3, <2>4 DEF AllAnswered
  <2>6. InService'
    BY <1>1, <1>2, <2>1, <2>2, <2>4 DEF InService
  <2> QED
    BY <2>5, <2>6
<1>4. CASE Serve
  <2>1. serving = 0 /\ UNCHANGED sent /\ Taken' = Taken + 1 /\ Pipe'
    BY <1>4, ServeTakes
  <2>2. Asked' = Asked
    BY <2>1 DEF Asked
  <2>3. ServeAnswered(Taken + 1)
    BY <1>4, ServeAnswers
  <2>4. /\ \A n \in DOMAIN answers : answers[n].id \in Nat /\ answers[n].id < Taken + 1
        /\ \A j \in Asked : j < Taken + 1 => \E n \in DOMAIN answers : answers[n].id = j
    BY <1>1, <1>2, <2>1 DEF AllAnswered
  <2>5. CASE UNCHANGED <<serving, answers>> /\ Taken + 1 \notin Asked
    <3>1. AllAnswered'
      BY <1>1, <1>2, <2>1, <2>2, <2>4, <2>5 DEF AllAnswered
    <3> QED
      BY <2>1, <2>5, <3>1 DEF InService
  <2>6. CASE /\ UNCHANGED serving /\ Taken + 1 \in Asked
             /\ \E outcome \in Outcomes :
                  answers' = Append(answers, Answer(Taken + 1, outcome, 0))
    <3>1. PICK outcome \in Outcomes :
            answers' = Append(answers, Answer(Taken + 1, outcome, 0))
      BY <2>6
    <3>2. AllAnswered'
      BY <1>1, <2>1, <2>4, <2>6, <3>1, AnswerNext
    <3> QED
      BY <2>1, <2>6, <3>2 DEF InService
  <2>7. CASE /\ UNCHANGED answers /\ serving' = Taken + 1
             /\ Taken + 1 \in DOMAIN http' /\ Taken + 1 \in Asked
    <3>1. AllAnswered'
      BY <1>1, <1>2, <2>1, <2>2, <2>4, <2>7 DEF AllAnswered
    <3> QED
      BY <2>1, <2>2, <2>7, <3>1 DEF InService
  <2> QED
    BY <2>3, <2>5, <2>6, <2>7 DEF ServeAnswered
<1>5. CASE Aside
  <2>1. UNCHANGED <<sent, stdin>> /\ CallAnswered
    BY <1>5, AsideAnswers
  <2>2. Asked' = Asked /\ Taken' = Taken
    BY <2>1 DEF Asked, Taken
  <2>3. CASE /\ UNCHANGED <<serving, answers>>
             /\ serving \in DOMAIN http => serving \in DOMAIN http'
    BY <1>1, <2>2, <2>3 DEF AllAnswered, InService
  <2>4. CASE /\ serving # 0 /\ serving' = 0
             /\ \E outcome \in Outcomes, task \in Nat :
                  answers' = Append(answers, Answer(serving, outcome, task))
    <3>1. PICK outcome \in Outcomes, task \in Nat :
            answers' = Append(answers, Answer(serving, outcome, task))
      BY <2>4
    <3>2. serving \in Asked /\ serving = Taken
      BY <1>1, <2>4 DEF InService
    <3>3. /\ \A n \in DOMAIN answers : answers[n].id < serving
          /\ \A j \in Asked : j < serving => \E n \in DOMAIN answers : answers[n].id = j
      <4>1. \A n \in DOMAIN answers :
              answers[n].id \in Nat /\ answers[n].id <= serving /\ answers[n].id # serving
        BY <1>1, <1>2, <3>2 DEF AllAnswered
      <4>2. \A j \in Asked : j < serving => j <= Taken /\ j # serving
        BY <1>1, <1>2, <3>2
      <4> QED
        BY <1>1, <1>2, <3>2, <4>1, <4>2 DEF AllAnswered
    <3>4. AllAnswered'
      BY <1>1, <2>1, <2>2, <2>4, <3>1, <3>2, <3>3, AnswerNext
    <3> QED
      BY <2>4, <3>4 DEF InService
  <2> QED
    BY <2>1, <2>3, <2>4 DEF CallAnswered
<1>6. CASE UNCHANGED mcpVars
  BY <1>1, <1>6 DEF mcpVars, AllAnswered, InService, Asked, Taken
<1> QED
  BY <1>3, <1>4, <1>5, <1>6 DEF McpNext, Aside

-----------------------------------------------------------------------------
(* The rate limiter.                                                          *)

LEMMA IntervalSize ==
  ASSUME NEW a \in Nat, NEW b \in Nat, a <= b
  PROVE  IsFiniteSet((a + 1) .. b) /\ Cardinality((a + 1) .. b) = b - a
<1>1. a + 1 \in Int /\ b \in Int
  OBVIOUS
<1>2. /\ IsFiniteSet((a + 1) .. b)
      /\ Cardinality((a + 1) .. b) = IF a + 1 > b THEN 0 ELSE b - (a + 1) + 1
  BY <1>1, FS_Interval
<1> QED
  BY <1>2

\* A set of positions that has all smaller ones with each of its own is determined
\* by its size.
LEMMA PrefixSize ==
  ASSUME NEW n \in Nat, NEW front \in SUBSET (1 .. n),
         \A x \in front : 1 .. x \subseteq front
  PROVE  \E c \in 0 .. n : c = Cardinality(front) /\ front = 1 .. c
<1>1. \A m \in Nat : IsFiniteSet(1 .. m) /\ Cardinality(1 .. m) = m
  BY IntervalSize, 0 + 1 = 1, \A m \in Nat : m - 0 = m /\ 0 <= m
<1>2. IsFiniteSet(front) /\ Cardinality(front) \in Nat /\ Cardinality(front) <= n
  <2>1. IsFiniteSet(front) /\ Cardinality(front) <= Cardinality(1 .. n)
    BY <1>1, FS_Subset
  <2> QED
    BY <1>1, <2>1, FS_CardinalityType
<1>3. PICK c \in Nat : c = Cardinality(front)
  BY <1>2
<1>4. c <= n /\ IsFiniteSet(1 .. c) /\ Cardinality(1 .. c) = Cardinality(front)
  BY <1>1, <1>2, <1>3
<1>5. ASSUME 1 .. c \subseteq front PROVE front = 1 .. c
  BY <1>2, <1>4, <1>5, FS_Subset
<1>6. ASSUME ~(1 .. c \subseteq front) PROVE front = 1 .. c
  <2>1. PICK y \in 1 .. c : y \notin front
    BY <1>6
  <2>2. \A x \in front : x < y
    BY <2>1
  <2>3. front \in SUBSET (1 .. c)
    BY <2>1, <2>2
  <2> QED
    BY <1>4, <2>3, FS_Subset
<1> QED
  BY <1>3, <1>4, <1>5, <1>6

LEMMA WindowTypes ==
  ASSUME ClockTyped, Windowed
  PROVE  /\ now \in Nat /\ Window \in Nat /\ Window > 0 /\ Maximum \in Nat /\ Maximum > 0
         /\ Len(calls) \in Nat /\ Len(admitted) \in Nat
         /\ DOMAIN calls = 1 .. Len(calls) /\ DOMAIN admitted = 1 .. Len(admitted)
         /\ \A k \in DOMAIN calls : calls[k] \in Nat
         /\ \A k \in DOMAIN admitted : admitted[k] \in Admission /\ admitted[k].at \in Nat
         /\ Forgotten \in Nat
<1>1. calls \in Seq(Nat) /\ admitted \in Seq(Admission) /\ now \in 0 .. MaxTime
  BY DEF ClockTyped
<1>2. /\ MaxTime \in Nat /\ Window \in Nat /\ Window > 0
      /\ Maximum \in Nat /\ Maximum > 0
  BY BoundAssumption
<1>3. \A k \in DOMAIN admitted : admitted[k] \in Admission
  BY <1>1
<1>4. \A x \in Admission : x.at \in Nat
  BY DEF Admission
<1> QED
  BY <1>1, <1>2, <1>3, <1>4 DEF Forgotten, Windowed

\* allow() drops the calls that left the window and no others.
LEMMA KeptAreRecent ==
  ASSUME ClockTyped, Windowed
  PROVE  \E gone \in Nat :
           /\ Kept \in Seq(Nat) /\ Len(Kept) \in Nat /\ Len(Kept) <= Len(calls)
           /\ Forgotten <= gone /\ gone = Len(admitted) - Len(Kept)
           /\ \A k \in 1 .. Len(Kept) : Kept[k] = admitted[gone + k].at
           /\ \A k \in 1 .. gone : admitted[k].at <= now - Window
           /\ \A k \in (gone + 1) .. Len(admitted) : admitted[k].at > now - Window
<1> DEFINE dropped == {m \in DOMAIN calls : \A k \in 1 .. m : now - calls[k] >= Window}
<1>1. /\ now \in Nat /\ Window \in Nat /\ Window > 0
      /\ \A k \in 1 .. Len(calls) : calls[k] \in Nat
      /\ Forgotten \in Nat /\ Len(admitted) \in Nat
      /\ \A k \in 1 .. Len(admitted) : admitted[k].at \in Nat
  BY WindowTypes
<1>2. /\ \A k \in 1 .. Len(calls) : calls[k] = admitted[Forgotten + k].at
      /\ \A k \in 1 .. Forgotten : admitted[k].at <= now - Window
      /\ \A j, k \in 1 .. Len(admitted) : j <= k => admitted[j].at <= admitted[k].at
  BY WindowTypes DEF Windowed
<1>3. PICK n : /\ n \in Nat /\ n = Len(calls) /\ DOMAIN calls = 1 .. n
               /\ Len(admitted) = Forgotten + n
  <2>1. Len(calls) \in Nat /\ DOMAIN calls = 1 .. Len(calls)
    BY WindowTypes
  <2>2. Len(admitted) = Forgotten + Len(calls)
    BY <1>1, <2>1 DEF Forgotten
  <2> QED
    BY <2>1, <2>2
<1>4. \A m : m \in dropped <=>
              m \in 1 .. n /\ \A k \in 1 .. m : now - calls[k] >= Window
  BY <1>3
<1> HIDE DEF dropped
<1>5. PICK c : c \in 0 .. n /\ dropped = 1 .. c /\ Kept = SubSeq(calls, c + 1, n)
  <2>1. dropped \in SUBSET (1 .. n)
    BY <1>4
  <2>2. \A x \in dropped : 1 .. x \subseteq dropped
    BY <1>3, <1>4
  <2>3. \E c \in 0 .. n : c = Cardinality(dropped) /\ dropped = 1 .. c
    BY <1>3, <2>1, <2>2, PrefixSize
  <2>4. Kept = SubSeq(calls, Cardinality(dropped) + 1, n)
    BY <1>3 DEF Kept, dropped
  <2> QED
    BY <1>3, <2>3, <2>4
<1>6. \A k \in 1 .. c : now - calls[k] >= Window
  <2> SUFFICES ASSUME NEW k \in 1 .. c PROVE now - calls[k] >= Window
    OBVIOUS
  <2>1. k \in dropped
    BY <1>5
  <2>2. \A i \in 1 .. k : now - calls[i] >= Window
    BY <1>4, <2>1, Zenon
  <2>3. c \in Nat
    BY <1>3, <1>5
  <2>4. k \in 1 .. k
    BY <2>3
  <2> QED
    BY <2>2, <2>4, Zenon
<1>7. \A k \in (c + 1) .. n : now - calls[k] < Window
  <2> SUFFICES ASSUME NEW k \in (c + 1) .. n PROVE now - calls[k] < Window
    OBVIOUS
  <2>1. c + 1 \in 1 .. n /\ c + 1 \notin dropped
    BY <1>3, <1>5
  <2>2. PICK j \in 1 .. (c + 1) : ~(now - calls[j] >= Window)
    BY <1>3, <1>4, <1>5, <2>1
  <2>3. j = c + 1
    BY <1>5, <1>6, <2>2
  <2>4. /\ j \in 1 .. n /\ k \in 1 .. n /\ j <= k
        /\ Forgotten + j \in 1 .. Len(admitted) /\ Forgotten + k \in 1 .. Len(admitted)
        /\ Forgotten + j <= Forgotten + k
    BY <1>1, <1>3, <1>5, <2>1, <2>3
  <2>5. calls[j] <= calls[k]
    BY <1>2, <1>3, <2>4
  <2> QED
    BY <1>1, <1>3, <2>2, <2>4, <2>5
<1>8. /\ c \in 0 .. n
      /\ Kept \in Seq(Nat) /\ Len(Kept) = n - c /\ Len(Kept) \in Nat
      /\ \A k \in 1 .. Len(Kept) : Kept[k] = calls[c + k]
  <2>1. calls \in Seq(Nat)
    BY DEF ClockTyped
  <2> QED
    BY <1>3, <1>5, <2>1
<1>9. PICK gone : gone \in Nat /\ gone = Forgotten + c
  BY <1>1, <1>5
<1>10. ASSUME NEW k \in 1 .. Len(Kept) PROVE Kept[k] = admitted[gone + k].at
  <2>1. c + k \in 1 .. n /\ Kept[k] = calls[c + k] /\ Forgotten + (c + k) = gone + k
    BY <1>1, <1>3, <1>8, <1>9, <1>10
  <2> QED
    BY <1>2, <1>3, <2>1
<1>11. ASSUME NEW k \in 1 .. gone PROVE admitted[k].at <= now - Window
  <2>1. CASE k <= Forgotten
    BY <1>1, <1>2, <1>9, <1>11, <2>1
  <2>2. CASE k > Forgotten
    <3>1. PICK j \in 1 .. c : k = Forgotten + j
      <4>1. k - Forgotten \in 1 .. c /\ k = Forgotten + (k - Forgotten)
        BY <1>1, <1>5, <1>9, <1>11, <2>2
      <4> QED
        BY <4>1
    <3>2. j \in 1 .. n
      BY <1>3, <1>5
    <3>3. admitted[k].at = calls[j] /\ now - calls[j] >= Window /\ calls[j] \in Nat
      BY <1>1, <1>2, <1>3, <1>6, <3>1, <3>2
    <3> QED
      BY <1>1, <3>3
  <2> QED
    BY <1>1, <1>9, <1>11, <2>1, <2>2
<1>12. ASSUME NEW k \in (gone + 1) .. Len(admitted) PROVE admitted[k].at > now - Window
  <2>1. PICK j \in (c + 1) .. n : k = Forgotten + j
    <3>1. k - Forgotten \in (c + 1) .. n /\ k = Forgotten + (k - Forgotten)
      BY <1>1, <1>3, <1>5, <1>9, <1>12
    <3> QED
      BY <3>1
  <2>2. j \in 1 .. n
    BY <1>3, <1>5
  <2>3. admitted[k].at = calls[j] /\ now - calls[j] < Window /\ calls[j] \in Nat
    BY <1>1, <1>2, <1>3, <1>7, <2>1, <2>2
  <2> QED
    BY <1>1, <2>3
<1>13. Forgotten <= gone /\ gone = Len(admitted) - Len(Kept) /\ Len(Kept) <= Len(calls)
  BY <1>1, <1>3, <1>8, <1>9
<1> QED
  BY <1>8, <1>9, <1>10, <1>11, <1>12, <1>13

\* One more call let through.
Admits(i) == /\ Len(Kept) < Maximum
             /\ calls' = Append(Kept, now)
             /\ admitted' = Append(admitted, [id |-> i, at |-> now])
             /\ UNCHANGED <<limited, now>>

\* One more call refused.
Refuses == /\ Len(Kept) >= Maximum
           /\ calls' = Kept
           /\ limited' = limited \cup {[at |-> now, after |-> Len(admitted)]}
           /\ UNCHANGED <<admitted, now>>

LEMMA LimiterMoves ==
  ASSUME McpInv, [McpNext]_mcpVars
  PROVE  \/ UNCHANGED <<calls, admitted, limited>>
         \/ Refuses
         \/ Serve /\ ready /\ Admits(Taken + 1)
<1>1. CASE HostWrites \/ UNCHANGED mcpVars
  BY <1>1 DEF HostWrites, server, mcpVars
<1>2. CASE Initialize \/ Initialized \/ Ping
  BY <1>2 DEF Initialize, Initialized, Ping, server
<1>3. CASE NotReady \/ ListTools \/ InvalidCall
  BY <1>3 DEF NotReady, ListTools, InvalidCall, server
<1>4. CASE RateLimited
  BY <1>4 DEF RateLimited, Refuses
<1>5. CASE CallTool
  <2>1. Serve /\ Head(stdin) = Taken + 1
    BY <1>5, ServeTakes DEF Serve
  <2> QED
    BY <1>5, <2>1 DEF CallTool, ValidCall, Admits
<1>6. CASE TimePasses \/ TimesOut
  BY <1>6 DEF TimePasses, TimesOut, server
<1>7. CASE Handler
  BY <1>7 DEF Handler, Unauthorized, InvalidBody, HandleRead, HandleComparison,
              HandleSubmission, HandleCancellation, SkillStarts, SkillActs, SkillEnds, server
<1>8. CASE TaskStarts \/ TaskFinishes \/ RuntimeDies \/ RuntimeStarts
  BY <1>8 DEF TaskStarts, TaskFinishes, RuntimeDies, RuntimeStarts, server
<1> QED
  BY <1>1, <1>2, <1>3, <1>4, <1>5, <1>6, <1>7, <1>8 DEF McpNext, Serve

LEMMA ClockKeepsType ==
  ASSUME McpInv, [McpNext]_mcpVars
  PROVE  now' \in 0 .. MaxTime /\ now <= now'
<1>1. now \in 0 .. MaxTime /\ MaxTime \in Nat
  BY BoundAssumption DEF McpInv, McpTyped, ClockTyped
<1>2. CASE TimePasses
  BY <1>1, <1>2 DEF TimePasses
<1>3. CASE HostWrites \/ Serve \/ TimesOut
  BY <1>1, <1>3 DEF HostWrites, Serve, Initialize, Initialized, Ping, NotReady, ListTools,
                    InvalidCall, RateLimited, CallTool, TimesOut
<1>4. CASE Handler
  BY <1>1, <1>4
  DEF Handler, Unauthorized, InvalidBody, HandleRead, HandleComparison, HandleSubmission,
      HandleCancellation, SkillStarts, SkillActs, SkillEnds
<1>5. CASE TaskStarts \/ TaskFinishes \/ RuntimeDies \/ RuntimeStarts
  BY <1>1, <1>5 DEF TaskStarts, TaskFinishes, RuntimeDies, RuntimeStarts
<1>6. CASE UNCHANGED mcpVars
  BY <1>1, <1>6 DEF mcpVars
<1> QED
  BY <1>2, <1>3, <1>4, <1>5, <1>6 DEF McpNext

\* The state of the limiter, for what it let through and refused so far.
RateInv == ClockTyped /\ Windowed /\ RateIsWindowed

LEMMA TimeKeepsRate ==
  ASSUME RateInv, UNCHANGED <<calls, admitted, limited>>, now' \in 0 .. MaxTime, now <= now'
  PROVE  RateInv'
<1>1. ClockTyped /\ Windowed /\ RateIsWindowed
  BY DEF RateInv
<1>2. /\ now \in Nat /\ now' \in Nat /\ Window \in Nat
      /\ Forgotten' = Forgotten /\ Forgotten \in Nat
      /\ DOMAIN admitted = 1 .. Len(admitted) /\ Len(admitted) \in Nat
      /\ \A k \in DOMAIN admitted : admitted[k].at \in Nat
  BY <1>1, WindowTypes, BoundAssumption DEF Forgotten
<1>3. Forgotten <= Len(admitted)
  BY <1>1, WindowTypes DEF Forgotten
<1>4. ClockTyped'
  BY <1>1 DEF ClockTyped
<1>5. \A k \in 1 .. Forgotten : admitted[k].at <= now' - Window
  BY <1>1, <1>2, <1>3 DEF Windowed
<1>6. \A k \in DOMAIN admitted : admitted[k].at <= now'
  BY <1>1, <1>2 DEF Windowed
<1>7. Windowed'
  BY <1>1, <1>2, <1>5, <1>6 DEF Windowed
<1>8. RateIsWindowed'
  BY <1>1 DEF RateIsWindowed
<1> QED
  BY <1>4, <1>7, <1>8 DEF RateInv

LEMMA RefusalKeepsRate ==
  ASSUME RateInv, Refuses
  PROVE  RateInv'
<1>1. ClockTyped /\ Windowed /\ RateIsWindowed
  BY DEF RateInv
<1>2. PICK gone \in Nat :
        /\ Kept \in Seq(Nat) /\ Len(Kept) \in Nat /\ Len(Kept) <= Len(calls)
        /\ Forgotten <= gone /\ gone = Len(admitted) - Len(Kept)
        /\ \A k \in 1 .. Len(Kept) : Kept[k] = admitted[gone + k].at
        /\ \A k \in 1 .. gone : admitted[k].at <= now - Window
        /\ \A k \in (gone + 1) .. Len(admitted) : admitted[k].at > now - Window
  BY <1>1, KeptAreRecent
<1>3. /\ calls' = Kept /\ UNCHANGED <<admitted, now>>
      /\ limited' = limited \cup {[at |-> now, after |-> Len(admitted)]}
      /\ Len(Kept) >= Maximum
  BY DEF Refuses
<1>4. /\ now \in Nat /\ Len(admitted) \in Nat /\ Len(calls) \in Nat /\ Maximum \in Nat
      /\ DOMAIN admitted = 1 .. Len(admitted)
      /\ \A k \in DOMAIN admitted : admitted[k].at \in Nat
      /\ gone \in Nat
  BY <1>1, <1>2, WindowTypes
<1>5. ClockTyped'
  BY <1>1, <1>2, <1>3, <1>4 DEF ClockTyped
<1>6. Forgotten' = gone /\ DOMAIN Kept = 1 .. Len(Kept)
  BY <1>2, <1>3 DEF Forgotten
<1>7. Windowed'
  <2>1. Forgotten' >= 0 /\ Len(calls') <= Maximum
    BY <1>1, <1>2, <1>3, <1>4, <1>6 DEF Windowed
  <2>2. /\ \A k \in DOMAIN calls' : calls'[k] = admitted'[Forgotten' + k].at
        /\ \A k \in 1 .. Forgotten' : admitted'[k].at <= now' - Window
    BY <1>2, <1>3, <1>6
  <2>3. /\ \A k \in DOMAIN admitted' : admitted'[k].at <= now'
        /\ \A j, k \in DOMAIN admitted' : j <= k => admitted'[j].at <= admitted'[k].at
        /\ \A r \in limited' : r.after <= Len(admitted')
    BY <1>1, <1>3, <1>4 DEF Windowed
  <2> QED
    BY <2>1, <2>2, <2>3 DEF Windowed
<1>8. Cardinality({k \in 1 .. Len(admitted) : admitted[k].at > now - Window}) >= Maximum
  <2> DEFINE recent == {k \in 1 .. Len(admitted) : admitted[k].at > now - Window}
             kept == (gone + 1) .. Len(admitted)
  <2>1. kept \subseteq recent /\ recent \subseteq 1 .. Len(admitted)
    <3>1. \A k \in kept : k \in 1 .. Len(admitted)
      BY <1>4
    <3> QED
      BY <1>2, <3>1
  <2>2. gone <= Len(admitted) /\ Len(admitted) - gone = Len(Kept)
    BY <1>2, <1>4
  <2>3. IsFiniteSet(kept) /\ Cardinality(kept) = Len(Kept)
    <3>1. IsFiniteSet(kept) /\ Cardinality(kept) = Len(admitted) - gone
      BY <1>4, <2>2, IntervalSize
    <3> QED
      BY <2>2, <3>1
  <2>4. IsFiniteSet(1 .. Len(admitted))
    <3>1. 1 \in Int /\ Len(admitted) \in Int
      BY <1>4
    <3> QED
      BY <3>1, FS_Interval
  <2> HIDE DEF recent, kept
  <2>5. IsFiniteSet(recent) /\ Cardinality(kept) <= Cardinality(recent)
    BY <2>1, <2>4, FS_Subset
  <2>6. Cardinality(recent) \in Nat /\ Cardinality(kept) \in Nat
    BY <2>3, <2>5, FS_CardinalityType
  <2>7. Cardinality(recent) >= Maximum
    BY <1>2, <1>3, <1>4, <2>3, <2>5, <2>6
  <2> QED
    BY <2>7 DEF recent
<1>9. RateIsWindowed'
  <2>1. ASSUME NEW r \in limited'
        PROVE  Cardinality({k \in 1 .. r.after : admitted[k].at > r.at - Window}) >= Maximum
    <3>1. CASE r \in limited
      BY <1>1, <3>1 DEF RateIsWindowed
    <3>2. CASE r = [at |-> now, after |-> Len(admitted)]
      <4>1. r.at = now /\ r.after = Len(admitted)
        BY <3>2
      <4> QED
        BY <1>8, <4>1
    <3> QED
      BY <1>3, <2>1, <3>1, <3>2
  <2> QED
    BY <1>1, <1>3, <2>1 DEF RateIsWindowed
<1> QED
  BY <1>5, <1>7, <1>9 DEF RateInv

LEMMA AdmissionKeepsRate ==
  ASSUME RateInv, NEW i \in Nat, Admits(i)
  PROVE  RateInv'
<1>1. ClockTyped /\ Windowed /\ RateIsWindowed
  BY DEF RateInv
<1>2. PICK gone \in Nat :
        /\ Kept \in Seq(Nat) /\ Len(Kept) \in Nat /\ Len(Kept) <= Len(calls)
        /\ Forgotten <= gone /\ gone = Len(admitted) - Len(Kept)
        /\ \A k \in 1 .. Len(Kept) : Kept[k] = admitted[gone + k].at
        /\ \A k \in 1 .. gone : admitted[k].at <= now - Window
        /\ \A k \in (gone + 1) .. Len(admitted) : admitted[k].at > now - Window
  BY <1>1, KeptAreRecent
<1>3. /\ calls' = Append(Kept, now) /\ UNCHANGED <<limited, now>>
      /\ admitted' = Append(admitted, [id |-> i, at |-> now])
      /\ Len(Kept) < Maximum
  BY DEF Admits
<1>4. /\ now \in Nat /\ Maximum \in Nat /\ Window \in Nat /\ Window > 0
      /\ DOMAIN admitted = 1 .. Len(admitted) /\ Len(admitted) \in Nat
      /\ \A k \in DOMAIN admitted : admitted[k].at \in Nat
      /\ gone \in Nat
  BY <1>1, <1>2, WindowTypes
<1>5. [id |-> i, at |-> now] \in Admission /\ admitted \in Seq(Admission)
  BY <1>1, <1>4 DEF Admission, ClockTyped
<1>6. /\ admitted' \in Seq(Admission)
      /\ Len(admitted') = Len(admitted) + 1
      /\ DOMAIN admitted' = 1 .. (Len(admitted) + 1)
      /\ \A k \in 1 .. Len(admitted) : admitted'[k] = admitted[k]
      /\ admitted'[Len(admitted) + 1] = [id |-> i, at |-> now]
  BY <1>3, <1>5
<1>7. admitted'[Len(admitted) + 1].at = now
  BY <1>6
<1>8. /\ calls' \in Seq(Nat)
      /\ Len(calls') = Len(Kept) + 1
      /\ DOMAIN calls' = 1 .. (Len(Kept) + 1)
      /\ \A k \in 1 .. Len(Kept) : calls'[k] = Kept[k]
      /\ calls'[Len(Kept) + 1] = now
  BY <1>2, <1>3, <1>4
<1>9. ClockTyped'
  BY <1>1, <1>3, <1>6, <1>8 DEF ClockTyped
<1>10. Forgotten' = gone /\ gone <= Len(admitted) /\ Len(admitted) = gone + Len(Kept)
  BY <1>2, <1>4, <1>6, <1>8 DEF Forgotten
<1>11. \A k \in DOMAIN calls' : calls'[k] = admitted'[gone + k].at
  <2> SUFFICES ASSUME NEW k \in 1 .. (Len(Kept) + 1)
               PROVE  calls'[k] = admitted'[gone + k].at
    BY <1>8
  <2>1. CASE k \in 1 .. Len(Kept)
    <3>1. gone + k \in 1 .. Len(admitted)
      BY <1>2, <1>4, <1>10, <2>1
    <3> QED
      BY <1>2, <1>6, <1>8, <2>1, <3>1
  <2>2. CASE k = Len(Kept) + 1
    <3>1. gone + k = Len(admitted) + 1
      BY <1>2, <1>4, <1>10, <2>2
    <3> QED
      BY <1>7, <1>8, <2>2, <3>1
  <2> QED
    BY <1>2, <2>1, <2>2
<1>12. \A j, k \in DOMAIN admitted' : j <= k => admitted'[j].at <= admitted'[k].at
  <2> SUFFICES ASSUME NEW j \in DOMAIN admitted', NEW k \in DOMAIN admitted', j <= k
               PROVE  admitted'[j].at <= admitted'[k].at
    OBVIOUS
  <2>1. /\ \A m \in DOMAIN admitted : admitted[m].at <= now
        /\ \A l, m \in DOMAIN admitted : l <= m => admitted[l].at <= admitted[m].at
    BY <1>1 DEF Windowed
  <2>2. CASE k \in DOMAIN admitted
    <3>1. j \in DOMAIN admitted
      BY <1>4, <1>6, <2>2
    <3> QED
      BY <1>4, <1>6, <2>1, <2>2, <3>1
  <2>3. CASE k = Len(admitted) + 1 /\ j \in DOMAIN admitted
    BY <1>4, <1>6, <1>7, <2>1, <2>3
  <2>4. CASE k = Len(admitted) + 1 /\ j = Len(admitted) + 1
    BY <1>4, <1>7, <2>4
  <2> QED
    BY <1>4, <1>6, <2>2, <2>3, <2>4
<1>13. \A k \in DOMAIN admitted' : admitted'[k].at <= now
  <2> SUFFICES ASSUME NEW k \in DOMAIN admitted' PROVE admitted'[k].at <= now
    OBVIOUS
  <2>1. CASE k \in DOMAIN admitted
    BY <1>1, <1>4, <1>6, <2>1 DEF Windowed
  <2>2. CASE k = Len(admitted) + 1
    BY <1>4, <1>7, <2>2
  <2> QED
    BY <1>4, <1>6, <2>1, <2>2
<1>14. \A k \in 1 .. gone : admitted'[k].at <= now - Window
  <2> SUFFICES ASSUME NEW k \in 1 .. gone PROVE admitted'[k].at <= now - Window
    OBVIOUS
  <2>1. k \in 1 .. Len(admitted)
    BY <1>4, <1>10
  <2> QED
    BY <1>2, <1>6, <2>1
<1>15. Windowed'
  <2>1. Forgotten' >= 0 /\ Len(calls') <= Maximum
    BY <1>2, <1>3, <1>4, <1>8, <1>10
  <2>2. \A r \in limited' : r.after <= Len(admitted')
    <3>1. \A r \in limited : r.after \in Nat
      BY <1>1 DEF ClockTyped
    <3> QED
      BY <1>1, <1>3, <1>4, <1>6, <3>1 DEF Windowed
  <2> QED
    BY <1>3, <1>10, <1>11, <1>12, <1>13, <1>14, <2>1, <2>2 DEF Windowed
<1>16. ASSUME NEW n \in DOMAIN admitted'
       PROVE  Cardinality({k \in 1 .. n : admitted'[k].at > admitted'[n].at - Window}) <= Maximum
  <2>1. CASE n \in DOMAIN admitted
    <3>1. \A k \in 1 .. n : admitted'[k] = admitted[k] /\ admitted'[n] = admitted[n]
      BY <1>4, <1>6, <2>1
    <3>2. {k \in 1 .. n : admitted'[k].at > admitted'[n].at - Window}
            = {k \in 1 .. n : admitted[k].at > admitted[n].at - Window}
      BY <3>1
    <3> QED
      BY <1>1, <2>1, <3>2 DEF RateIsWindowed
  <2>2. CASE n = Len(admitted) + 1
    <3> DEFINE recent == {k \in 1 .. n : admitted'[k].at > now - Window}
               room == (gone + 1) .. (Len(admitted) + 1)
    <3>1. recent \subseteq room
      <4> SUFFICES ASSUME NEW k \in 1 .. n, k <= gone PROVE ~(admitted'[k].at > now - Window)
        BY <1>4, <2>2
      <4>1. k \in 1 .. gone /\ k \in DOMAIN admitted
        BY <1>4, <1>10
      <4>2. admitted'[k].at \in Nat /\ admitted'[k].at <= now - Window
        BY <1>4, <1>6, <1>14, <4>1
      <4> QED
        BY <1>4, <4>2
    <3>2. IsFiniteSet(room) /\ Cardinality(room) = Len(Kept) + 1
      <4>1. gone <= Len(admitted) + 1 /\ (Len(admitted) + 1) - gone = Len(Kept) + 1
        BY <1>2, <1>4, <1>10
      <4>2. Len(admitted) + 1 \in Nat
        BY <1>4
      <4> QED
        BY <1>4, <4>1, <4>2, IntervalSize
    <3> HIDE DEF recent, room
    <3>3. IsFiniteSet(recent) /\ Cardinality(recent) <= Cardinality(room)
      BY <3>1, <3>2, FS_Subset
    <3>4. Cardinality(recent) \in Nat
      BY <3>3, FS_CardinalityType
    <3>5. Cardinality(recent) <= Maximum
      BY <1>2, <1>3, <1>4, <3>2, <3>3, <3>4
    <3>6. admitted'[n].at = now
      BY <1>7, <2>2
    <3> QED
      BY <3>5, <3>6 DEF recent
  <2> QED
    BY <1>4, <1>6, <2>1, <2>2
<1>17. ASSUME NEW r \in limited'
       PROVE  Cardinality({k \in 1 .. r.after : admitted'[k].at > r.at - Window}) >= Maximum
  <2>1. r \in limited /\ r.after \in Nat /\ r.after <= Len(admitted)
    BY <1>1, <1>3 DEF Windowed, ClockTyped
  <2>2. \A k \in 1 .. r.after : admitted'[k] = admitted[k]
    BY <1>4, <1>6, <2>1
  <2>3. {k \in 1 .. r.after : admitted'[k].at > r.at - Window}
          = {k \in 1 .. r.after : admitted[k].at > r.at - Window}
    BY <2>2
  <2> QED
    BY <1>1, <2>1, <2>3 DEF RateIsWindowed
<1>18. RateIsWindowed'
  BY <1>16, <1>17 DEF RateIsWindowed
<1> QED
  BY <1>9, <1>15, <1>18 DEF RateInv

LEMMA StepKeepsRate ==
  ASSUME McpInv, [McpNext]_mcpVars
  PROVE  RateInv'
<1>1. RateInv
  BY DEF McpInv, McpTyped, RateInv
<1>2. now' \in 0 .. MaxTime /\ now <= now'
  BY ClockKeepsType
<1>3. CASE UNCHANGED <<calls, admitted, limited>>
  BY <1>1, <1>2, <1>3, TimeKeepsRate
<1>4. CASE Refuses
  BY <1>1, <1>4, RefusalKeepsRate
<1>5. CASE Serve /\ Admits(Taken + 1)
  <2>1. Taken + 1 \in Nat
    BY TakenType DEF McpInv, McpTyped
  <2> QED
    BY <1>1, <1>5, <2>1, AdmissionKeepsRate
<1> QED
  BY <1>3, <1>4, <1>5, LimiterMoves

-----------------------------------------------------------------------------
(* The handshake.                                                             *)

\* What the lines taken so far say of the handshake.
InitializeTaken ==
  \E i \in 1 .. Taken : sent[i].kind = "initialize" /\ ~sent[i].notification

HandshakeTaken ==
  \E i, j \in 1 .. Taken :
    /\ i < j
    /\ sent[i].kind = "initialize" /\ ~sent[i].notification
    /\ sent[j].kind = "initialized"

\* Lines are added at the end and taken one after the other.
LEMMA LinesStay ==
  ASSUME McpInv, [McpNext]_mcpVars
  PROVE  /\ Taken \in Nat /\ Taken' \in Nat /\ Taken <= Taken'
         /\ \A i \in 1 .. Taken : i \in DOMAIN sent /\ sent'[i] = sent[i]
<1>1. Taken \in Nat /\ Taken <= Len(sent) /\ DOMAIN sent = 1 .. Len(sent)
  BY TakenType DEF McpInv, McpTyped
<1>2. Len(sent) \in Nat
  BY DEF McpInv, McpTyped, Pipe
<1>3. \A i \in 1 .. Taken : i \in DOMAIN sent
  BY <1>1, <1>2
<1>4. CASE HostWrites
  BY <1>1, <1>3, <1>4, HostKeepsLines
<1>5. CASE Serve
  BY <1>1, <1>3, <1>5, ServeTakes
<1>6. CASE Aside \/ UNCHANGED mcpVars
  <2>1. UNCHANGED <<sent, stdin>>
    BY <1>6, AsideAnswers DEF mcpVars
  <2> QED
    BY <1>1, <1>3, <2>1 DEF Taken
<1> QED
  BY <1>4, <1>5, <1>6 DEF McpNext, Aside

LEMMA HandshakeStays ==
  ASSUME McpInv, [McpNext]_mcpVars
  PROVE  /\ InitializeTaken => InitializeTaken'
         /\ HandshakeTaken => HandshakeTaken'
         /\ \A n \in DOMAIN admitted : admitted[n].id <= Taken'
         /\ \A n \in DOMAIN admitted :
              \E i, j \in 1 .. (admitted[n].id - 1) :
                /\ i < j
                /\ sent'[i].kind = "initialize" /\ ~sent'[i].notification
                /\ sent'[j].kind = "initialized"
<1>1. /\ Taken \in Nat /\ Taken' \in Nat /\ Taken <= Taken'
      /\ \A i \in 1 .. Taken : i \in 1 .. Taken' /\ sent'[i] = sent[i]
  BY LinesStay
<1>2. InitializeTaken => InitializeTaken'
  BY <1>1 DEF InitializeTaken
<1>3. HandshakeTaken => HandshakeTaken'
  BY <1>1 DEF HandshakeTaken
<1>4. \A n \in DOMAIN admitted : admitted[n].id <= Taken /\ admitted[n].id \in Nat
  <2>1. \A n \in DOMAIN admitted : admitted[n] \in Admission
    BY DEF McpInv, McpTyped, ClockTyped
  <2>2. \A x \in Admission : x.id \in Nat
    BY DEF Admission
  <2> QED
    BY <2>1, <2>2 DEF McpInv, HandshakeRead
<1>5. ASSUME NEW n \in DOMAIN admitted
      PROVE  \E i, j \in 1 .. (admitted[n].id - 1) :
               /\ i < j
               /\ sent'[i].kind = "initialize" /\ ~sent'[i].notification
               /\ sent'[j].kind = "initialized"
  <2>1. PICK i, j \in 1 .. (admitted[n].id - 1) :
               /\ i < j
               /\ sent[i].kind = "initialize" /\ ~sent[i].notification
               /\ sent[j].kind = "initialized"
    BY <1>5 DEF McpInv, HandshakeRead, HandshakeFirst
  <2>2. i \in 1 .. Taken /\ j \in 1 .. Taken
    BY <1>1, <1>4, <1>5
  <2> QED
    BY <1>1, <2>1, <2>2
<1>6. \A n \in DOMAIN admitted : admitted[n].id <= Taken'
  BY <1>1, <1>4
<1> QED
  BY <1>2, <1>3, <1>5, <1>6

LEMMA StepKeepsHandshake ==
  ASSUME McpInv, [McpNext]_mcpVars
  PROVE  HandshakeRead'
<1>1. /\ InitializeTaken => InitializeTaken'
      /\ HandshakeTaken => HandshakeTaken'
  BY HandshakeStays
<1>2. (initialized => InitializeTaken) /\ (ready => HandshakeTaken)
  BY DEF McpInv, HandshakeRead, InitializeTaken, HandshakeTaken
<1>3. (initialized' => InitializeTaken') /\ (ready' => HandshakeTaken')
  <2>1. CASE UNCHANGED <<initialized, ready>>
    BY <1>1, <1>2, <2>1
  <2>2. CASE Initialize
    <3>1. /\ UNCHANGED <<ready, sent>> /\ sent[Taken + 1].kind = "initialize"
          /\ initialized' => initialized \/ ~sent[Taken + 1].notification
          /\ Taken' = Taken + 1 /\ Taken \in Nat
      <4>1. Serve
        BY <2>2 DEF Serve
      <4>2. Head(stdin) = Taken + 1 /\ Taken' = Taken + 1 /\ UNCHANGED sent
        BY <4>1, ServeTakes
      <4>3. Taken \in Nat
        BY LinesStay
      <4> QED
        BY <2>2, <4>2, <4>3 DEF Initialize, Reading
    <3>2. CASE initialized
      BY <1>1, <1>2, <3>1, <3>2
    <3>3. CASE ~initialized /\ ~sent[Taken + 1].notification
      <4>1. InitializeTaken'
        BY <3>1, <3>3 DEF InitializeTaken
      <4> QED
        BY <1>1, <1>2, <3>1, <4>1
    <3> QED
      BY <1>1, <1>2, <3>1, <3>2, <3>3
  <2>3. CASE Initialized
    <3>1. /\ UNCHANGED <<initialized, sent>> /\ sent[Taken + 1].kind = "initialized"
          /\ ready' => ready \/ initialized
          /\ Taken' = Taken + 1 /\ Taken \in Nat
      <4>1. Serve
        BY <2>3 DEF Serve
      <4>2. Head(stdin) = Taken + 1 /\ Taken' = Taken + 1 /\ UNCHANGED sent
        BY <4>1, ServeTakes
      <4>3. Taken \in Nat
        BY LinesStay
      <4> QED
        BY <2>3, <4>2, <4>3 DEF Initialized, Reading, BecomeReady
    <3>2. CASE ready
      BY <1>1, <1>2, <3>1, <3>2
    <3>3. CASE initialized
      <4>1. PICK i \in 1 .. Taken : sent[i].kind = "initialize" /\ ~sent[i].notification
        BY <1>2, <3>3 DEF InitializeTaken
      <4>2. /\ i \in 1 .. Taken' /\ Taken + 1 \in 1 .. Taken' /\ i < Taken + 1
            /\ sent' = sent
        BY <3>1
      <4>3. HandshakeTaken'
        BY <3>1, <4>1, <4>2 DEF HandshakeTaken
      <4> QED
        BY <1>1, <1>2, <3>1, <4>3
    <3> QED
      BY <1>1, <1>2, <3>1, <3>2, <3>3
  <2>4. UNCHANGED <<initialized, ready>> \/ Initialize \/ Initialized
    <3>1. CASE Serve
      BY <3>1
      DEF Serve, Ping, NotReady, ListTools, InvalidCall, RateLimited, CallTool, server
    <3>2. CASE HostWrites
      BY <3>2 DEF HostWrites, server
    <3>3. CASE Aside \/ UNCHANGED mcpVars
      BY <3>3, AsideAnswers DEF mcpVars
    <3> QED
      BY <3>1, <3>2, <3>3 DEF McpNext, Aside
  <2> QED
    BY <2>1, <2>2, <2>3, <2>4
<1>4. HandshakeFirst' /\ \A n \in DOMAIN admitted' : admitted'[n].id <= Taken'
  <2>1. CASE UNCHANGED admitted
    BY <2>1, HandshakeStays DEF HandshakeFirst
  <2>2. CASE Serve /\ ready /\ Admits(Taken + 1)
    <3>1. /\ admitted \in Seq(Admission) /\ Taken \in Nat /\ now \in Nat
          /\ Taken' = Taken + 1 /\ UNCHANGED sent
          /\ admitted' = Append(admitted, [id |-> Taken + 1, at |-> now])
      <4>1. admitted \in Seq(Admission) /\ now \in Nat
        BY BoundAssumption DEF McpInv, McpTyped, ClockTyped
      <4> QED
        BY <2>2, <4>1, LinesStay, ServeTakes DEF Admits
    <3>2. [id |-> Taken + 1, at |-> now] \in Admission
      BY <3>1 DEF Admission
    <3>3. /\ DOMAIN admitted = 1 .. Len(admitted) /\ Len(admitted) \in Nat
          /\ DOMAIN admitted' = 1 .. (Len(admitted) + 1)
          /\ \A k \in 1 .. Len(admitted) : admitted'[k] = admitted[k]
          /\ admitted'[Len(admitted) + 1] = [id |-> Taken + 1, at |-> now]
      BY <3>1, <3>2
    <3>4. admitted'[Len(admitted) + 1].id = Taken + 1 /\ Taken + 1 - 1 = Taken
      BY <3>1, <3>3
    <3>5. HandshakeTaken
      BY <1>2, <2>2
    <3>6. PICK i, j \in 1 .. Taken :
            /\ i < j
            /\ sent[i].kind = "initialize" /\ ~sent[i].notification
            /\ sent[j].kind = "initialized"
      BY <3>5 DEF HandshakeTaken
    <3>7. ASSUME NEW n \in DOMAIN admitted'
          PROVE  /\ admitted'[n].id <= Taken'
                 /\ \E k, l \in 1 .. (admitted'[n].id - 1) :
                      /\ k < l
                      /\ sent'[k].kind = "initialize" /\ ~sent'[k].notification
                      /\ sent'[l].kind = "initialized"
      <4>1. CASE n \in DOMAIN admitted
        BY <3>3, <4>1, HandshakeStays
      <4>2. CASE n = Len(admitted) + 1
        BY <3>1, <3>4, <3>6, <4>2
      <4> QED
        BY <3>3, <3>7, <4>1, <4>2
    <3> QED
      BY <3>7 DEF HandshakeFirst
  <2> QED
    BY <2>1, <2>2, LimiterMoves DEF Refuses
<1> QED
  BY <1>3, <1>4 DEF HandshakeRead, InitializeTaken, HandshakeTaken

-----------------------------------------------------------------------------
(* The server's and the Runtime's state, and the table of tasks.              *)

LEMMA StepKeepsServer ==
  ASSUME McpInv, [McpNext]_mcpVars
  PROVE  ServerTyped'
<1>1. Pipe /\ answers \in Seq(Response) /\ initialized \in BOOLEAN /\ ready \in BOOLEAN
  BY DEF McpInv, McpTyped, ServerTyped
<1>2. \/ UNCHANGED answers
      \/ \E i \in Asked, outcome \in Outcomes, task \in Nat :
           answers' = Append(answers, Answer(i, outcome, task))
  <2>1. CASE HostWrites \/ UNCHANGED mcpVars
    BY <2>1 DEF HostWrites, mcpVars
  <2>2. CASE Serve
    BY <2>2, ServeAnswers DEF ServeAnswered
  <2>3. CASE Aside
    <3>1. CallAnswered
      BY <2>3, AsideAnswers
    <3> QED
      BY <3>1 DEF CallAnswered, McpInv, InService
  <2> QED
    BY <2>1, <2>2, <2>3 DEF McpNext, Aside
<1>3. answers' \in Seq(Response)
  <2>1. CASE UNCHANGED answers
    BY <1>1, <2>1
  <2>2. ASSUME NEW i \in Asked, NEW outcome \in Outcomes, NEW task \in Nat,
               answers' = Append(answers, Answer(i, outcome, task))
        PROVE  answers' \in Seq(Response)
    <3>1. Answer(i, outcome, task) \in Response
      BY <1>1, AnswerType
    <3> QED
      BY <1>1, <2>2, <3>1
  <2> QED
    BY <1>2, <2>1, <2>2
<1>4. \/ UNCHANGED <<initialized, ready>>
      \/ UNCHANGED ready /\ initialized' \in BOOLEAN
      \/ UNCHANGED initialized /\ ready' \in BOOLEAN
  <2>1. CASE Initialize
    BY <2>1 DEF Initialize
  <2>2. CASE Initialized
    BY <2>2 DEF Initialized, BecomeReady
  <2>3. CASE Serve /\ ~Initialize /\ ~Initialized
    BY <2>3 DEF Serve, Ping, NotReady, ListTools, InvalidCall, RateLimited, CallTool, server
  <2>4. CASE HostWrites \/ UNCHANGED mcpVars
    BY <2>4 DEF HostWrites, server, mcpVars
  <2>5. CASE Aside
    BY <2>5, AsideAnswers
  <2> QED
    BY <2>1, <2>2, <2>3, <2>4, <2>5 DEF McpNext, Aside
<1> QED
  BY <1>1, <1>3, <1>4 DEF ServerTyped

\* What a step does to the requests in flight.
HttpKept ==
  \/ UNCHANGED http
  \/ http' = Empty
  \/ \E i \in DOMAIN http : http' = [j \in DOMAIN http \ {i} |-> http[j]]
  \/ \E i \in DOMAIN http : http' = [http EXCEPT ![i] = "running"]

LEMMA HandlerHttp ==
  ASSUME Handler
  PROVE  /\ HttpKept
         /\ UNCHANGED performed \/ \E i \in DOMAIN http : performed' = performed \cup {i}
<1>1. PICK i \in DOMAIN http :
        \/ Unauthorized(i) \/ InvalidBody(i) \/ HandleRead(i) \/ HandleComparison(i)
        \/ HandleSubmission(i) \/ HandleCancellation(i)
        \/ SkillStarts(i) \/ SkillActs(i) \/ SkillEnds(i)
  BY DEF Handler
<1>2. CASE Unauthorized(i) \/ InvalidBody(i) \/ HandleRead(i) \/ HandleComparison(i)
  BY <1>2 DEF Unauthorized, InvalidBody, HandleRead, HandleComparison, Replies, HttpKept,
              runtime
<1>3. CASE HandleSubmission(i) \/ HandleCancellation(i)
  BY <1>3 DEF HandleSubmission, HandleCancellation, Replies, HttpKept
<1>4. CASE SkillStarts(i) \/ SkillEnds(i)
  BY <1>4 DEF SkillStarts, SkillEnds, Replies, HttpKept
<1>5. CASE SkillActs(i)
  BY <1>5 DEF SkillActs, HttpKept
<1> QED
  BY <1>1, <1>2, <1>3, <1>4, <1>5

LEMMA StepKeepsHttp ==
  ASSUME McpInv, [McpNext]_mcpVars
  PROVE  HttpTyped'
<1>1. /\ http \in [DOMAIN http -> {"arrived", "running"}]
      /\ \A i \in DOMAIN http : i \in 1 .. Taken /\ sent[i].request \in Requests
      /\ performed \subseteq 1 .. Taken
  BY DEF McpInv, McpTyped, HttpTyped
<1>2. /\ Taken \in Nat /\ Taken' \in Nat /\ Taken <= Taken'
      /\ \A i \in 1 .. Taken : i \in 1 .. Taken' /\ sent'[i] = sent[i]
  BY LinesStay
<1>3. ASSUME HttpKept,
             UNCHANGED performed \/ \E i \in DOMAIN http : performed' = performed \cup {i}
      PROVE  HttpTyped'
  <2>1. /\ DOMAIN http' \subseteq DOMAIN http
        /\ \A i \in DOMAIN http' : http'[i] \in {"arrived", "running"}
        /\ http' = [i \in DOMAIN http' |-> http'[i]]
    BY <1>1, <1>3 DEF HttpKept, Empty
  <2>2. http' \in [DOMAIN http' -> {"arrived", "running"}]
    BY <2>1
  <2>3. performed' \subseteq 1 .. Taken'
    BY <1>1, <1>2, <1>3
  <2>4. \A i \in DOMAIN http' : i \in 1 .. Taken' /\ sent'[i].request \in Requests
    BY <1>1, <1>2, <2>1
  <2> QED
    BY <2>2, <2>3, <2>4 DEF HttpTyped
<1>4. CASE CallTool /\ up
  <2>1. /\ Head(stdin) = Taken + 1 /\ Taken' = Taken + 1 /\ UNCHANGED sent
        /\ Taken + 1 \in DOMAIN sent
    BY <1>4, ServeTakes DEF Serve
  <2> DEFINE i == Taken + 1
  <2>2. /\ http' = [j \in DOMAIN http \cup {i} |-> IF j = i THEN "arrived" ELSE http[j]]
        /\ sent[i].kind = "call" /\ UNCHANGED performed
    BY <1>4, <2>1 DEF CallTool, ValidCall, Reading, runtime
  <2>3. sent[i].request \in Requests
    BY <2>1, <2>2, LineType DEF McpInv, McpTyped
  <2>4. DOMAIN http' = DOMAIN http \cup {i}
    BY <2>2
  <2>5. http' \in [DOMAIN http' -> {"arrived", "running"}]
    BY <1>1, <2>2
  <2>6. \A j \in DOMAIN http' : j \in 1 .. Taken' /\ sent'[j].request \in Requests
    BY <1>1, <1>2, <2>1, <2>3, <2>4
  <2>7. performed' \subseteq 1 .. Taken'
    BY <1>1, <1>2, <2>2
  <2> QED
    BY <2>5, <2>6, <2>7 DEF HttpTyped
<1>5. CASE CallTool /\ ~up
  BY <1>3, <1>5 DEF CallTool, HttpKept, runtime
<1>6. CASE Serve /\ ~CallTool
  BY <1>3, <1>6 DEF Serve, Initialize, Initialized, Ping, NotReady, ListTools, InvalidCall,
                    RateLimited, HttpKept, runtime
<1>7. CASE HostWrites \/ TimePasses \/ TimesOut \/ UNCHANGED mcpVars
  BY <1>3, <1>7 DEF HostWrites, TimePasses, TimesOut, HttpKept, runtime, mcpVars
<1>8. CASE Handler
  BY <1>3, <1>8, HandlerHttp
<1>9. CASE TaskStarts \/ TaskFinishes \/ RuntimeDies \/ RuntimeStarts
  BY <1>3, <1>9 DEF TaskStarts, TaskFinishes, RuntimeDies, RuntimeStarts, HttpKept
<1> QED
  BY <1>4, <1>5, <1>6, <1>7, <1>8, <1>9 DEF McpNext

\* What a step does to the executor's table: nothing, new statuses of the rows it
\* has, or one row more of a request that had none.
RowsKept ==
  /\ tasks' = [t \in DOMAIN tasks |-> tasks'[t]]
  /\ \A t \in DOMAIN tasks :
       tasks'[t] \in Task /\ tasks'[t].request = tasks[t].request

RowAdded ==
  \E i \in DOMAIN http :
    /\ SameKey(i) = {}
    /\ tasks' = Append(tasks, [request |-> sent[i].request, status |-> "queued"])

LEMMA TasksMove ==
  ASSUME McpInv, [McpNext]_mcpVars
  PROVE  RowsKept \/ RowAdded
<1>1. tasks \in Seq(Task)
  BY DEF McpInv, McpTyped, RuntimeTyped
<1>2. /\ \A t \in DOMAIN tasks : tasks[t] \in Task
      /\ tasks = [t \in DOMAIN tasks |-> tasks[t]]
  BY <1>1
<1>3. ASSUME UNCHANGED tasks PROVE RowsKept
  BY <1>2, <1>3 DEF RowsKept
<1>4. ASSUME NEW t \in DOMAIN tasks, NEW s \in Live \cup Done,
             tasks' = [tasks EXCEPT ![t].status = s]
      PROVE  RowsKept
  <2>1. tasks' = [u \in DOMAIN tasks |->
                    IF u = t THEN [tasks[t] EXCEPT !.status = s] ELSE tasks[u]]
    BY <1>2, <1>4
  <2>2. ASSUME NEW x \in Task
        PROVE  /\ [x EXCEPT !.status = s] \in Task
               /\ [x EXCEPT !.status = s].request = x.request
    BY DEF Task
  <2>3. \A u \in DOMAIN tasks : tasks'[u] \in Task /\ tasks'[u].request = tasks[u].request
    BY <1>2, <2>1, <2>2
  <2> QED
    BY <2>1, <2>3 DEF RowsKept
<1>5. CASE Handler
  <2>1. PICK i \in DOMAIN http :
          \/ Unauthorized(i) \/ InvalidBody(i) \/ HandleRead(i) \/ HandleComparison(i)
          \/ HandleSubmission(i) \/ HandleCancellation(i)
          \/ SkillStarts(i) \/ SkillActs(i) \/ SkillEnds(i)
    BY <1>5 DEF Handler
  <2>2. CASE HandleSubmission(i)
    BY <1>3, <2>2 DEF HandleSubmission, RowAdded
  <2>3. CASE HandleCancellation(i)
    <3>1. CASE UNCHANGED tasks
      BY <1>3, <3>1
    <3>2. ASSUME NEW t \in DOMAIN tasks,
                 tasks' = [tasks EXCEPT ![t].status =
                             CASE @ = "queued"  -> "cancelled"
                               [] @ = "running" -> "cancelling"
                               [] OTHER         -> @]
          PROVE  RowsKept
      <4>1. tasks[t].status \in Live \cup Done
        BY <1>2 DEF Task
      <4>2. PICK s \in Live \cup Done :
              s = CASE tasks[t].status = "queued"  -> "cancelled"
                    [] tasks[t].status = "running" -> "cancelling"
                    [] OTHER                       -> tasks[t].status
        BY <4>1 DEF Live, Done
      <4>3. tasks' = [tasks EXCEPT ![t].status = s]
        BY <3>2, <4>2
      <4> QED
        BY <1>4, <4>3
    <3> QED
      BY <2>3, <3>1, <3>2 DEF HandleCancellation
  <2>4. CASE Unauthorized(i) \/ InvalidBody(i) \/ HandleRead(i) \/ HandleComparison(i)
    BY <1>3, <2>4 DEF Unauthorized, InvalidBody, HandleRead, HandleComparison, runtime
  <2>5. CASE SkillStarts(i) \/ SkillActs(i) \/ SkillEnds(i)
    BY <1>3, <2>5 DEF SkillStarts, SkillActs, SkillEnds
  <2> QED
    BY <2>1, <2>2, <2>3, <2>4, <2>5
<1>6. CASE TaskStarts
  <2>1. PICK t \in DOMAIN tasks :
          \/ tasks' = [tasks EXCEPT ![t].status = "running"]
          \/ tasks' = [tasks EXCEPT ![t].status = "failed"]
    BY <1>6 DEF TaskStarts
  <2> QED
    BY <1>4, <2>1 DEF Live, Done
<1>7. CASE TaskFinishes
  <2>1. PICK t \in DOMAIN tasks :
          \/ \E s \in {"succeeded", "failed"} : tasks' = [tasks EXCEPT ![t].status = s]
          \/ tasks' = [tasks EXCEPT ![t].status = "cancelled"]
    BY <1>7 DEF TaskFinishes
  <2> QED
    BY <1>4, <2>1 DEF Live, Done
<1>8. CASE RuntimeStarts
  <2>1. tasks' = [t \in DOMAIN tasks |->
                    IF tasks[t].status \in Live THEN [tasks[t] EXCEPT !.status = "failed"]
                    ELSE tasks[t]]
    BY <1>8 DEF RuntimeStarts
  <2>2. ASSUME NEW x \in Task
        PROVE  /\ [x EXCEPT !.status = "failed"] \in Task
               /\ [x EXCEPT !.status = "failed"].request = x.request
    BY DEF Task, Done
  <2>3. \A t \in DOMAIN tasks : tasks'[t] \in Task /\ tasks'[t].request = tasks[t].request
    BY <1>2, <2>1, <2>2
  <2> QED
    BY <2>1, <2>3 DEF RowsKept
<1>9. CASE HostWrites \/ TimePasses \/ TimesOut \/ RuntimeDies \/ UNCHANGED mcpVars
  BY <1>3, <1>9 DEF HostWrites, TimePasses, TimesOut, RuntimeDies, runtime, mcpVars
<1>10. CASE Serve
  BY <1>3, <1>10 DEF Serve, Initialize, Initialized, Ping, NotReady, ListTools, InvalidCall,
                     RateLimited, CallTool, runtime
<1> QED
  BY <1>5, <1>6, <1>7, <1>8, <1>9, <1>10 DEF McpNext

LEMMA StepKeepsTasks ==
  ASSUME McpInv, [McpNext]_mcpVars
  PROVE  tasks' \in Seq(Task) /\ OneTaskPerRequest'
<1>1. tasks \in Seq(Task) /\ OneTaskPerRequest
  BY DEF McpInv, McpTyped, RuntimeTyped
<1>2. DOMAIN tasks = 1 .. Len(tasks) /\ Len(tasks) \in Nat
  BY <1>1
<1>3. CASE RowsKept
  <2>1. DOMAIN tasks' = 1 .. Len(tasks)
    BY <1>2, <1>3 DEF RowsKept
  <2>2. tasks' \in [1 .. Len(tasks) -> Task]
    BY <1>2, <1>3 DEF RowsKept
  <2>3. tasks' \in Seq(Task)
    BY <1>2, <2>2
  <2>4. OneTaskPerRequest'
    BY <1>1, <1>2, <1>3, <2>1 DEF RowsKept, OneTaskPerRequest
  <2> QED
    BY <2>3, <2>4
<1>4. ASSUME NEW i \in DOMAIN http, SameKey(i) = {},
             tasks' = Append(tasks, [request |-> sent[i].request, status |-> "queued"])
      PROVE  tasks' \in Seq(Task) /\ OneTaskPerRequest'
  <2> DEFINE added == [request |-> sent[i].request, status |-> "queued"]
  <2>1. added \in Task
    BY DEF Task, Live, McpInv, McpTyped, HttpTyped
  <2>2. added.request = sent[i].request
    OBVIOUS
  <2>3. \A t \in DOMAIN tasks : tasks[t].request # added.request
    BY <1>4 DEF SameKey
  <2> HIDE DEF added
  <2>4. tasks' = Append(tasks, added)
    BY <1>4 DEF added
  <2>5. /\ tasks' \in Seq(Task)
        /\ DOMAIN tasks' = 1 .. (Len(tasks) + 1)
        /\ \A t \in 1 .. Len(tasks) : tasks'[t] = tasks[t]
        /\ tasks'[Len(tasks) + 1] = added
    BY <1>1, <2>1, <2>4
  <2>6. ASSUME NEW t \in DOMAIN tasks', NEW u \in DOMAIN tasks',
               tasks'[t].request = tasks'[u].request
        PROVE  t = u
    <3>1. CASE t \in DOMAIN tasks /\ u \in DOMAIN tasks
      BY <1>1, <1>2, <2>5, <2>6, <3>1 DEF OneTaskPerRequest
    <3>2. CASE t \in DOMAIN tasks /\ u = Len(tasks) + 1
      BY <1>2, <2>3, <2>5, <2>6, <3>2
    <3>3. CASE t = Len(tasks) + 1 /\ u \in DOMAIN tasks
      BY <1>2, <2>3, <2>5, <2>6, <3>3
    <3> QED
      BY <1>2, <2>5, <3>1, <3>2, <3>3
  <2> QED
    BY <2>5, <2>6 DEF OneTaskPerRequest
<1> QED
  BY <1>3, <1>4, TasksMove DEF RowAdded

LEMMA StepKeepsRuntime ==
  ASSUME McpInv, [McpNext]_mcpVars
  PROVE  RuntimeTyped'
<1>1. /\ up \in BOOLEAN /\ token \in BOOLEAN /\ lease \in BOOLEAN
      /\ restarts \in 0 .. MaxRestarts /\ MaxRestarts \in Nat
  BY BoundAssumption DEF McpInv, McpTyped, RuntimeTyped
<1>2. /\ up' \in BOOLEAN /\ token' \in BOOLEAN /\ lease' \in BOOLEAN
      /\ UNCHANGED restarts \/ (restarts < MaxRestarts /\ restarts' = restarts + 1)
  <2>1. CASE HostWrites \/ TimePasses \/ TimesOut \/ UNCHANGED mcpVars
    BY <1>1, <2>1, Zenon DEF HostWrites, TimePasses, TimesOut, runtime, mcpVars
  <2>2. CASE Serve
    <3>1. UNCHANGED runtime
      BY <2>2 DEF Serve, Initialize, Initialized, Ping, NotReady, ListTools, InvalidCall,
                  RateLimited, CallTool
    <3> QED
      BY <1>1, <3>1, Zenon DEF runtime
  <2>3. CASE Handler
    <3>1. PICK i \in DOMAIN http :
            \/ Unauthorized(i) \/ InvalidBody(i) \/ HandleRead(i) \/ HandleComparison(i)
            \/ HandleSubmission(i) \/ HandleCancellation(i)
            \/ SkillStarts(i) \/ SkillActs(i) \/ SkillEnds(i)
      BY <2>3 DEF Handler
    <3>2. CASE Unauthorized(i) \/ InvalidBody(i) \/ HandleRead(i) \/ HandleComparison(i)
      BY <1>1, <3>2, Zenon
      DEF Unauthorized, InvalidBody, HandleRead, HandleComparison, runtime
    <3>3. CASE HandleSubmission(i) \/ HandleCancellation(i)
      BY <1>1, <3>3, Zenon DEF HandleSubmission, HandleCancellation
    <3>4. CASE SkillStarts(i) \/ SkillActs(i) \/ SkillEnds(i)
      BY <1>1, <3>4, Zenon DEF SkillStarts, SkillActs, SkillEnds
    <3> QED
      BY <3>1, <3>2, <3>3, <3>4
  <2>4. CASE TaskStarts
    BY <1>1, <2>4, Zenon DEF TaskStarts
  <2>5. CASE TaskFinishes
    BY <1>1, <2>5, Zenon DEF TaskFinishes
  <2>6. CASE RuntimeDies \/ RuntimeStarts
    BY <1>1, <2>6, Zenon DEF RuntimeDies, RuntimeStarts
  <2> QED
    BY <2>1, <2>2, <2>3, <2>4, <2>5, <2>6 DEF McpNext
<1>3. restarts' \in 0 .. MaxRestarts
  BY <1>1, <1>2
<1>4. tasks' \in Seq(Task)
  BY StepKeepsTasks
<1> QED
  BY <1>2, <1>3, <1>4 DEF RuntimeTyped

LEMMA McpStep == McpInv /\ [McpNext]_mcpVars => McpInv'
<1> SUFFICES ASSUME McpInv, [McpNext]_mcpVars PROVE McpInv'
  OBVIOUS
<1>1. McpTyped'
  BY StepPipes, StepKeepsRate, StepKeepsRuntime, StepKeepsHttp, StepKeepsServer
  DEF McpTyped, RateInv
<1>2. Windowed' /\ RateIsWindowed'
  BY StepKeepsRate DEF RateInv
<1> QED
  BY <1>1, <1>2, StepAnswersAll, StepKeepsHandshake, StepKeepsTasks DEF McpInv

LEMMA McpInvariant == McpSpec => []McpInv
BY McpInitially, McpStep, PTL DEF McpSpec

\* A host that repeats a submission under its stable key - after a timeout, a lost
\* answer or a restart of the Runtime - never gets a second task.
THEOREM RetriesMakeNoSecondTask == McpSpec => []OneTaskPerRequest
<1>1. McpInv => OneTaskPerRequest
  BY DEF McpInv
<1> QED
  BY <1>1, McpInvariant, PTL

\* The limiter is exact for any maximum and any window: no window of Window seconds
\* lets more than Maximum calls through, and none is refused before that.
THEOREM RateLimitExact == McpSpec => []RateIsWindowed
<1>1. McpInv => RateIsWindowed
  BY DEF McpInv
<1> QED
  BY <1>1, McpInvariant, PTL

\* The answers on stdout are those of the requests, one each, in their order, with
\* calls that were given up and a Runtime that died among them.
THEOREM AnswersKeepOrder == McpSpec => []AnsweredInOrder
<1>1. McpInv => AnsweredInOrder
  <2> SUFFICES ASSUME McpInv, NEW n \in DOMAIN answers
               PROVE  /\ answers[n].id \in Asked
                      /\ \A m \in 1 .. (n - 1) : answers[m].id < answers[n].id
                      /\ \A i \in Asked : i < answers[n].id =>
                            \E m \in 1 .. (n - 1) : answers[m].id = i
    BY DEF AnsweredInOrder
  <2>1. /\ answers \in Seq(Response) /\ Taken \in Nat
        /\ DOMAIN answers = 1 .. Len(answers) /\ Len(answers) \in Nat
    BY TakenType DEF McpInv, McpTyped, ServerTyped
  <2>2. /\ \A m \in DOMAIN answers : answers[m].id \in Asked /\ answers[m].id <= Taken
        /\ \A m, k \in DOMAIN answers : m < k => answers[m].id < answers[k].id
        /\ answers[n].id # serving
    BY DEF McpInv, AllAnswered
  <2>3. \A i \in Asked : i \in Nat /\ i # 0
    BY AskedType DEF McpInv, McpTyped
  <2>4. \A m \in 1 .. (n - 1) : m \in DOMAIN answers /\ m < n
    BY <2>1
  <2>5. ASSUME NEW i \in Asked, i < answers[n].id
        PROVE  \E m \in 1 .. (n - 1) : answers[m].id = i
    <3>1. answers[n].id \in Nat /\ answers[n].id <= Taken /\ i \in Nat
      BY <2>2, <2>3
    <3>2. i <= Taken /\ i # serving
      <4>1. i < Taken
        BY <2>1, <2>5, <3>1
      <4>2. serving = 0 \/ serving = Taken
        BY DEF McpInv, InService
      <4> QED
        BY <2>1, <2>3, <3>1, <4>1, <4>2
    <3>3. PICK m \in DOMAIN answers : answers[m].id = i
      BY <3>2 DEF McpInv, AllAnswered
    <3>4. m < n
      <4>1. m # n /\ ~(n < m)
        BY <2>2, <2>5, <3>1, <3>3
      <4> QED
        BY <2>1, <4>1
    <3>5. m \in 1 .. (n - 1)
      BY <2>1, <3>4
    <3> QED
      BY <3>3, <3>5
  <2> QED
    BY <2>2, <2>4, <2>5
<1> QED
  BY <1>1, McpInvariant, PTL

\* A call is let through only after an initialize was answered and acknowledged.
THEOREM HandshakeComesFirst == McpSpec => []HandshakeFirst
<1>1. McpInv => HandshakeFirst
  BY DEF McpInv, HandshakeRead
<1> QED
  BY <1>1, McpInvariant, PTL

\* Types, with what the pipe, the call in service and the requests in flight refer to.
THEOREM McpTypeCorrect == McpSpec => []McpTypeOK
<1>1. McpInv => McpTypeOK
  <2> SUFFICES ASSUME McpInv PROVE McpTypeOK
    OBVIOUS
  <2>1. Pipe /\ ClockTyped /\ RuntimeTyped /\ HttpTyped /\ ServerTyped /\ InService
    BY DEF McpInv, McpTyped
  <2>2. \A n \in DOMAIN stdin : stdin[n] \in DOMAIN sent
    <3>1. /\ DOMAIN stdin = 1 .. Len(stdin) /\ DOMAIN sent = 1 .. Len(sent)
          /\ Len(stdin) \in Nat /\ Len(sent) \in Nat /\ Len(stdin) <= Len(sent)
          /\ \A n \in DOMAIN stdin : stdin[n] = Taken + n
      BY <2>1 DEF Pipe
    <3> QED
      BY <3>1 DEF Taken
  <2>3. \A i \in 1 .. Taken : i \in DOMAIN sent
    BY <2>1, TakenType DEF Pipe
  <2>4. \A t \in DOMAIN tasks : tasks[t] \in [request : Requests, status : Live \cup Done]
    <3>1. \A t \in DOMAIN tasks : tasks[t] \in Task
      BY <2>1 DEF RuntimeTyped
    <3> QED
      BY <3>1 DEF Task
  <2>5. {up, token, lease} \subseteq BOOLEAN /\ initialized \in BOOLEAN /\ ready \in BOOLEAN
    BY <2>1, Zenon DEF RuntimeTyped, ServerTyped
  <2>6. /\ DOMAIN http \subseteq DOMAIN sent /\ performed \subseteq DOMAIN sent
        /\ \A i \in DOMAIN http : http[i] \in {"arrived", "running"}
    BY <2>1, <2>3 DEF HttpTyped
  <2>7. serving \in {0} \cup DOMAIN http
    BY <2>1 DEF InService
  <2> QED
    BY <2>1, <2>2, <2>4, <2>5, <2>6, <2>7 DEF McpTypeOK, Pipe, ClockTyped
<1> QED
  BY <1>1, McpInvariant, PTL
=============================================================================
