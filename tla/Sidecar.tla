------------------------------- MODULE Sidecar -------------------------------
(***************************************************************************)
(* The desktop application and the Runtime process it owns:                *)
(* apps/desktop/src-tauri/src/sidecar.rs and lib.rs, the settings page and *)
(* the submission dialog of the web view, the instance lock of             *)
(* runtime_lock.py and the start of api/server.py.                         *)
(*                                                                         *)
(* A process of the Runtime is named by its number: the p-th spawn.  Port  *)
(* and token of a spawn are drawn together with it and are named by it     *)
(* too, so a request to a port is a request to that process or to nobody.  *)
(* Tauri commands run on a pool of threads (spawn_blocking): a flow of the *)
(* settings page, a submission and a health loop interleave freely, and    *)
(* only the accesses to Sidecar.inner are under its mutex.                 *)
(***************************************************************************)
EXTENDS Naturals, FiniteSets

CONSTANTS
  Intents,        \* confirmed task intents, each with the key minted for it
  MaxProcs,       \* bound: spawns of a Runtime over all launches
  MaxSaves,       \* bound: saves of the settings page; a save's number is its version
  KeySaves,       \* bound: the saves that may enter a key
  MaxTries,       \* bound: submissions of one intent
  MaxLaunches,    \* bound: launches of the application
  MaxCrashes      \* bound: crashes of the application or of a Runtime

ASSUME BoundsAssumption ==
  /\ {MaxProcs, MaxLaunches} \subseteq Nat \ {0}
  /\ {MaxSaves, MaxTries, MaxCrashes} \subseteq Nat
  /\ KeySaves \subseteq Nat

Procs == 1 .. MaxProcs
Saves == 1 .. MaxSaves
NoProc == 0

VARIABLES
  app,        \* "up", "quit1", "between", "quit2", "exiting" or "down"
  dying,      \* the child a shutdown took out of inner and is killing
  launches, crashes,
  phase,      \* inner.phase
  child,      \* inner.child, NoProc for None
  port,       \* inner.port and inner.token
  proc,       \* "none", "booting", "owner", "serving" or "dead", per process
  conf,       \* the key and the configuration file a process runs with
  stored,     \* the Keychain entry and the configuration file
  loop,       \* the health loop started with a spawn: its step, port and deadline
  flow,       \* a save of the settings page and the restart that follows it
  ui,         \* an intent in the web view
  tries,      \* submissions of an intent so far
  reqs,       \* submissions sent to a Runtime and not yet answered
  row, owner, \* the persisted execution of an intent, and the process it ran in
  made,       \* executions created for an intent
  overlapped, \* history: a save began while another was in progress
  crossed     \* history: inner was replaced while a health check was under way

appVars == <<app, dying, launches, crashes>>
innerVars == <<phase, child, port>>
taskVars == <<ui, tries, reqs, row, owner, made>>
histVars == <<overlapped, crossed>>
vars == <<appVars, innerVars, proc, conf, stored, loop, flow, taskVars, histVars>>

AsleepLoop == [pc |-> "sleep", port |-> NoProc, late |-> FALSE]
NoLoop == [pc |-> "off", port |-> NoProc, late |-> FALSE]
NoFlow == [pc |-> "idle", to |-> NoProc, wrote |-> FALSE, victim |-> NoProc, fresh |-> NoProc]

----------------------------------------------------------------------------
(* Processes.                                                              *)

(* Processes that hold the flock of the data directory.                    *)
Holders == {p \in Procs : proc[p] \in {"owner", "serving"}}

Alive(p) == p # NoProc /\ proc[p] \in {"booting", "owner", "serving"}

(* Killed(S): kill and wait for the processes of S.                        *)
Killed(S) == [p \in Procs |-> IF p \in S /\ Alive(p) THEN "dead" ELSE proc[p]]

(* spawn_inner: the next process, with the key the Keychain holds now, or   *)
(* without one when the lookup fails.                                      *)
Spawnable(p) == proc[p] = "none" /\ \A q \in Procs : q < p => proc[q] # "none"

(* Mutant: a key that was looked up once is not looked up again.           *)
SpawnedWithOldKey(p) ==
  /\ Spawnable(p)
  /\ proc' = [proc EXCEPT ![p] = "booting"]
  /\ LET known == p # 1 /\ conf[p - 1].key # 0 IN
     conf' = [conf EXCEPT ![p].key = IF known THEN conf[p - 1].key ELSE stored.key]

Spawned(p) ==
  /\ Spawnable(p)
  /\ proc' = [proc EXCEPT ![p] = "booting"]
  /\ \E key \in {stored.key, 0} : conf' = [conf EXCEPT ![p].key = key]

(* RuntimeInstanceLock.acquire, before anything of the data directory is   *)
(* touched; a second Runtime exits with RUNTIME_ALREADY_RUNNING.           *)
LockFreeUnchecked == TRUE

LockFree == Holders = {}

AcquireLock(p) ==
  /\ proc[p] = "booting"
  /\ proc' = [proc EXCEPT ![p] = IF LockFree THEN "owner" ELSE "dead"]
  /\ UNCHANGED <<appVars, innerVars, conf, stored, loop, flow, taskVars, histVars>>

(* create_server: the Runtime reads its configuration and recovers the     *)
(* executions no process finished; then it serves.                         *)
Recovered == [i \in Intents |-> IF row[i] = "live" THEN "interrupted" ELSE row[i]]

CreateServer(p) ==
  /\ proc[p] = "owner"
  /\ proc' = [proc EXCEPT ![p] = "serving"]
  /\ conf' = [conf EXCEPT ![p].file = stored.file]
  /\ row' = Recovered
  /\ UNCHANGED <<appVars, innerVars, stored, loop, flow, ui, tries, reqs, owner, made, histVars>>

(* A Runtime dies by itself, or cannot create its server.                  *)
ProcessDies(p) ==
  /\ Alive(p) /\ crashes < MaxCrashes
  /\ crashes' = crashes + 1
  /\ proc' = Killed({p})
  /\ UNCHANGED <<app, dying, launches, innerVars, conf, stored, loop, flow, taskVars, histVars>>

----------------------------------------------------------------------------
(* The application.                                                        *)

ForgetThreads ==
  /\ loop' = [p \in Procs |-> NoLoop]
  /\ flow' = [s \in Saves |-> IF flow[s].pc \in {"idle", "done"} THEN flow[s]
                              ELSE [flow[s] EXCEPT !.pc = "failed"]]
  /\ ui' = [i \in Intents |-> IF ui[i] = "new" THEN "new" ELSE "gone"]

(* Sidecar::start at a launch: a spawn and its health loop, or Failed.     *)
Launch ==
  /\ app = "down" /\ launches < MaxLaunches
  /\ launches' = launches + 1
  /\ app' = "up" /\ dying' = NoProc
  /\ \/ \E p \in Procs :
          /\ Spawned(p)
          /\ phase' = "starting" /\ child' = p /\ port' = p
          /\ loop' = [loop EXCEPT ![p] = AsleepLoop]
     \/ phase' = "failed" /\ child' = NoProc /\ port' = NoProc /\ UNCHANGED <<proc, conf, loop>>
  /\ UNCHANGED <<crashes, stored, flow, taskVars, histVars>>

(* RunEvent::ExitRequested and then RunEvent::Exit each call shutdown on   *)
(* the event thread: take the child under the mutex, kill it, wait for it. *)
ShutdownTake ==
  /\ app \in {"up", "between"}
  /\ app' = IF app = "up" THEN "quit1" ELSE "quit2"
  /\ dying' = child /\ child' = NoProc
  /\ UNCHANGED <<launches, crashes, phase, port, proc, conf, stored, loop, flow, taskVars, histVars>>

ShutdownKill ==
  /\ app \in {"quit1", "quit2"}
  /\ app' = IF app = "quit1" THEN "between" ELSE "exiting"
  /\ proc' = Killed({dying}) /\ dying' = NoProc
  /\ UNCHANGED <<launches, crashes, innerVars, conf, stored, loop, flow, taskVars, histVars>>

(* The process of the application ends, and its threads with it.           *)
Exit ==
  /\ app = "exiting" /\ app' = "down"
  /\ ForgetThreads
  /\ UNCHANGED <<dying, launches, crashes, innerVars, proc, conf, stored, tries, reqs, row, owner, made, histVars>>

ApplicationCrashes ==
  /\ app # "down" /\ crashes < MaxCrashes
  /\ crashes' = crashes + 1 /\ app' = "down" /\ dying' = NoProc
  /\ ForgetThreads
  /\ UNCHANGED <<launches, innerVars, proc, conf, stored, tries, reqs, row, owner, made, histVars>>

----------------------------------------------------------------------------
(* start_health_loop: one thread per spawn, which outlives the child it    *)
(* was started for when a restart replaces the child.                      *)

LoopEnds(l) == loop' = [loop EXCEPT ![l] = NoLoop]

(* Under the mutex: give up on Failed, report a child that has exited, or  *)
(* remember the port and the token and unlock.                             *)
LoopChecks(l) ==
  /\ loop[l].pc = "sleep"
  /\ IF phase = "failed"
       THEN LoopEnds(l) /\ UNCHANGED phase
       ELSE IF child # NoProc /\ ~Alive(child)
         THEN LoopEnds(l) /\ phase' = "failed"
         ELSE loop' = [loop EXCEPT ![l].pc = "polling", ![l].port = port] /\ UNCHANGED phase
  /\ UNCHANGED <<appVars, child, port, proc, conf, stored, flow, taskVars, histVars>>

(* http_get of /v1/health, not under the mutex.                            *)
LoopPolls(l) ==
  /\ loop[l].pc = "polling"
  /\ \/ proc[loop[l].port] = "serving" /\ loop' = [loop EXCEPT ![l].pc = "healthy"]
     \/ loop' = [loop EXCEPT ![l].pc = "unhealthy"]
  /\ UNCHANGED <<appVars, innerVars, proc, conf, stored, flow, taskVars, histVars>>

LoopReportsSilently(l) ==
  /\ loop[l].pc \in {"healthy", "unhealthy"}
  /\ IF loop[l].pc = "unhealthy" /\ ~loop[l].late
       THEN loop' = [loop EXCEPT ![l].pc = "sleep"] /\ UNCHANGED phase
       ELSE /\ LoopEnds(l)
            /\ phase' = IF phase = "starting" /\ loop[l].pc = "healthy" THEN "ready" ELSE phase
  /\ UNCHANGED <<appVars, child, port, proc, conf, stored, flow, taskVars, histVars>>

(* Under the mutex again: the verdict is applied to whatever is Starting.  *)
LoopReports(l) ==
  /\ loop[l].pc \in {"healthy", "unhealthy"}
  /\ IF loop[l].pc = "unhealthy" /\ ~loop[l].late
       THEN loop' = [loop EXCEPT ![l].pc = "sleep"] /\ UNCHANGED phase
       ELSE /\ LoopEnds(l)
            /\ phase' = IF phase # "starting" THEN phase
                        ELSE IF loop[l].pc = "healthy" THEN "ready" ELSE "failed"
  /\ UNCHANGED <<appVars, child, port, proc, conf, stored, flow, taskVars, histVars>>

(* HEALTH_TIMEOUT passes for a loop.                                       *)
Deadline(l) ==
  /\ loop[l].pc # "off" /\ ~loop[l].late
  /\ loop' = [loop EXCEPT ![l].late = TRUE]
  /\ UNCHANGED <<appVars, innerVars, proc, conf, stored, flow, taskVars, histVars>>

----------------------------------------------------------------------------
(* The settings page: saveMutation stores the key, posts the configuration *)
(* and restarts the Runtime; restartMutation is Sidecar::restart.  The     *)
(* buttons of one page are disabled while a mutation is pending, but the   *)
(* page can be closed and opened again.                                    *)

Step(s, from, to) == flow[s].pc = from /\ flow' = [flow EXCEPT ![s].pc = to]

WebViewUp == app # "down"

InProgress(s) ==
  flow[s].pc \in {"posting", "posted", "saved", "killing", "spawning", "storing"}

(* model_secret_store; an empty field leaves the stored key, and a failed  *)
(* command ends the save.                                                  *)
StoreSecret(s) ==
  /\ WebViewUp /\ \A t \in Saves : t < s => flow[t].pc # "idle"
  /\ \/ /\ Step(s, "idle", "posting")
        /\ \/ UNCHANGED stored
           \/ s \in KeySaves /\ stored' = [stored EXCEPT !.key = s]
        /\ overlapped' = (overlapped \/ \E t \in Saves : InProgress(t))
     \/ Step(s, "idle", "failed") /\ UNCHANGED <<stored, overlapped>>
  /\ UNCHANGED <<appVars, innerVars, proc, conf, loop, taskVars, crossed>>

(* model_secret_clear: the Runtime keeps the key it was started with.      *)
ClearSecret ==
  /\ WebViewUp /\ stored.key # 0
  /\ stored' = [stored EXCEPT !.key = 0]
  /\ UNCHANGED <<appVars, innerVars, proc, conf, loop, flow, taskVars, histVars>>

(* runtime_api_post: only when Ready, to the port read under the mutex.    *)
PostConfig(s) ==
  /\ WebViewUp /\ flow[s].pc = "posting"
  /\ flow' = IF phase = "ready" THEN [flow EXCEPT ![s].pc = "posted", ![s].to = port]
                                ELSE [flow EXCEPT ![s].pc = "failed"]
  /\ UNCHANGED <<appVars, innerVars, proc, conf, stored, loop, taskVars, histVars>>

(* POST /v1/model-provider/config in the Runtime: the file is replaced,    *)
(* also when nobody waits for the answer any more.                         *)
WriteConfig(s) ==
  /\ flow[s].pc \in {"posted", "failed"} /\ ~flow[s].wrote
  /\ flow[s].to # NoProc /\ proc[flow[s].to] = "serving"
  /\ stored' = [stored EXCEPT !.file = s]
  /\ flow' = [flow EXCEPT ![s].wrote = TRUE]
  /\ UNCHANGED <<appVars, innerVars, proc, conf, loop, taskVars, histVars>>

(* The answer arrives, or the read times out or meets a dead process.      *)
ConfigAnswer(s) ==
  /\ flow[s].pc = "posted"
  /\ \/ flow[s].wrote /\ Step(s, "posted", "saved")
     \/ Step(s, "posted", "failed")
  /\ UNCHANGED <<appVars, innerVars, proc, conf, stored, loop, taskVars, histVars>>

(* While a task is on screen the page asks first, and the user may decline. *)
TaskBusy == \E i \in Intents : ui[i] = "accepted"

DeclineRestart(s) ==
  /\ WebViewUp /\ TaskBusy /\ Step(s, "saved", "declined")
  /\ UNCHANGED <<appVars, innerVars, proc, conf, stored, loop, taskVars, histVars>>

(* restart(), one step per access to inner: shutdown_child takes the child. *)
RestartTake(s) ==
  /\ WebViewUp /\ flow[s].pc = "saved"
  /\ flow' = [flow EXCEPT ![s].pc = "killing", ![s].victim = child]
  /\ child' = NoProc
  /\ UNCHANGED <<appVars, phase, port, proc, conf, stored, loop, taskVars, histVars>>

RestartKill(s) ==
  /\ flow[s].pc = "killing"
  /\ flow' = [flow EXCEPT ![s].pc = "spawning", ![s].victim = NoProc]
  /\ proc' = Killed({flow[s].victim})
  /\ UNCHANGED <<appVars, innerVars, conf, stored, loop, taskVars, histVars>>

(* spawn_inner outside the mutex; when it fails the phase becomes Failed.  *)
RestartSpawn(s) ==
  /\ flow[s].pc = "spawning"
  /\ \/ \E p \in Procs :
          /\ Spawned(p)
          /\ flow' = [flow EXCEPT ![s].pc = "storing", ![s].fresh = p]
          /\ UNCHANGED <<phase, child>>
     \/ Step(s, "spawning", "failed") /\ phase' = "failed" /\ child' = NoProc /\ UNCHANGED <<proc, conf>>
  /\ UNCHANGED <<appVars, port, stored, loop, taskVars, histVars>>

(* A loop that has unlocked inner and has not locked it again.             *)
Asking(l) == loop[l].pc \in {"polling", "healthy", "unhealthy"}

(* Mutant: the fresh child goes into an inner that stays Ready.            *)
StoresChildOnly(s) ==
  /\ Step(s, "storing", "done")
  /\ child' = flow[s].fresh /\ port' = flow[s].fresh
  /\ loop' = [loop EXCEPT ![flow[s].fresh] = AsleepLoop]
  /\ crossed' = (crossed \/ \E l \in Procs : Asking(l))
  /\ UNCHANGED <<appVars, phase, proc, conf, stored, taskVars, overlapped>>

(* *inner = fresh, whatever inner holds, and a health loop of its own.     *)
RestartStore(s) ==
  /\ Step(s, "storing", "done")
  /\ phase' = "starting" /\ child' = flow[s].fresh /\ port' = flow[s].fresh
  /\ loop' = [loop EXCEPT ![flow[s].fresh] = AsleepLoop]
  /\ crossed' = (crossed \/ \E l \in Procs : Asking(l))
  /\ UNCHANGED <<appVars, proc, conf, stored, taskVars, overlapped>>

----------------------------------------------------------------------------
(* Task submission from the web view.                                      *)

(* TaskComposer mints a key when the form is submitted and App keeps one   *)
(* pending intent; ConfirmTaskDialog sends it with that key, and sends it  *)
(* again with the same key after a failure.                                *)
Dialog(i) == ui[i] \in {"pending", "failed"}

Submit(i) ==
  /\ WebViewUp /\ tries[i] < MaxTries
  /\ \/ ui[i] = "failed"
     \/ ui[i] = "new" /\ \A j \in Intents : ~Dialog(j) /\ ui[j] # "accepted"
  /\ tries' = [tries EXCEPT ![i] = @ + 1]
  /\ IF phase = "ready"
       THEN /\ ui' = [ui EXCEPT ![i] = "pending"]
            /\ reqs' = reqs \cup {[intent |-> i, try |-> tries'[i], to |-> port, answered |-> FALSE]}
       ELSE ui' = [ui EXCEPT ![i] = "failed"] /\ UNCHANGED reqs
  /\ UNCHANGED <<appVars, innerVars, proc, conf, stored, loop, flow, row, owner, made, histVars>>

(* The Runtime's side of a submission: the row of the key if there is one, *)
(* else a new row; the answer carries the row, so it follows the insert.   *)

(* Mutant: a key is looked for among the live executions only.             *)
KnownWhileLive(r) == row[r.intent] = "live"

KnownKey(r) == row[r.intent] # "none"

Answered(r) == (reqs \ {r}) \cup {[r EXCEPT !.answered = TRUE]}

HandleSubmit(r) ==
  /\ proc[r.to] = "serving" /\ ~r.answered
  /\ reqs' = Answered(r)
  /\ IF KnownKey(r) THEN UNCHANGED <<row, owner, made>>
     ELSE /\ row' = [row EXCEPT ![r.intent] = "live"]
          /\ owner' = [owner EXCEPT ![r.intent] = r.to]
          /\ made' = [made EXCEPT ![r.intent] = @ + 1]
  /\ UNCHANGED <<appVars, innerVars, proc, conf, stored, loop, flow, ui, tries, histVars>>

Current(r) == ui[r.intent] = "pending" /\ r.try = tries[r.intent]

(* onSuccess with the execution, or an error after HTTP_READ_TIMEOUT or on *)
(* a dead process; the request itself may still reach the Runtime.         *)
SubmitSucceeds(r) ==
  /\ r.answered /\ Current(r)
  /\ ui' = [ui EXCEPT ![r.intent] = "accepted"]
  /\ reqs' = reqs \ {r}
  /\ UNCHANGED <<appVars, innerVars, proc, conf, stored, loop, flow, tries, row, owner, made, histVars>>

SubmitFails(i) ==
  /\ ui[i] = "pending"
  /\ ui' = [ui EXCEPT ![i] = "failed"]
  /\ UNCHANGED <<appVars, innerVars, proc, conf, stored, loop, flow, tries, reqs, row, owner, made, histVars>>

(* The user goes back from a dialog with an error, or from the report of a *)
(* finished execution (ExecutionView polls it while the Runtime is Ready). *)
CloseDialog(i) ==
  /\ WebViewUp
  /\ \/ ui[i] = "failed"
     \/ ui[i] = "accepted" /\ phase = "ready" /\ Alive(port) /\ row[i] \in {"ended", "interrupted"}
  /\ ui' = [ui EXCEPT ![i] = "gone"]
  /\ UNCHANGED <<appVars, innerVars, proc, conf, stored, loop, flow, tries, reqs, row, owner, made, histVars>>

TaskEnds(i) ==
  /\ row[i] = "live" /\ proc[owner[i]] = "serving"
  /\ row' = [row EXCEPT ![i] = "ended"]
  /\ UNCHANGED <<appVars, innerVars, proc, conf, stored, loop, flow, ui, tries, reqs, owner, made, histVars>>

----------------------------------------------------------------------------
Init ==
  /\ app = "down" /\ dying = NoProc /\ launches = 0 /\ crashes = 0
  /\ phase = "failed" /\ child = NoProc /\ port = NoProc
  /\ proc = [p \in Procs |-> "none"]
  /\ conf = [p \in Procs |-> [key |-> 0, file |-> 0]]
  /\ stored = [key |-> 0, file |-> 0]
  /\ loop = [p \in Procs |-> NoLoop]
  /\ flow = [s \in Saves |-> NoFlow]
  /\ ui = [i \in Intents |-> "new"] /\ tries = [i \in Intents |-> 0] /\ reqs = {}
  /\ row = [i \in Intents |-> "none"] /\ owner = [i \in Intents |-> NoProc]
  /\ made = [i \in Intents |-> 0]
  /\ overlapped = FALSE /\ crossed = FALSE

RuntimeStep(p) == AcquireLock(p) \/ CreateServer(p)
LoopStep(l) == LoopChecks(l) \/ LoopPolls(l) \/ LoopReports(l)
RestartStep(s) == RestartKill(s) \/ RestartSpawn(s) \/ RestartStore(s)

Next ==
  \/ Launch \/ ShutdownTake \/ ShutdownKill \/ Exit \/ ApplicationCrashes \/ ClearSecret
  \/ \E p \in Procs : RuntimeStep(p) \/ ProcessDies(p) \/ LoopStep(p) \/ Deadline(p)
  \/ \E s \in Saves : \/ StoreSecret(s) \/ PostConfig(s) \/ WriteConfig(s) \/ ConfigAnswer(s)
                      \/ DeclineRestart(s) \/ RestartTake(s) \/ RestartStep(s)
  \/ \E i \in Intents : Submit(i) \/ SubmitFails(i) \/ CloseDialog(i) \/ TaskEnds(i)
  \/ \E r \in reqs : HandleSubmit(r) \/ SubmitSucceeds(r)

Spec == Init /\ [][Next]_vars

(* The threads of the application are scheduled, time passes for a health  *)
(* loop, and quitting goes on once begun.                                  *)
Fairness ==
  /\ \A l \in Procs : WF_vars(LoopStep(l)) /\ WF_vars(Deadline(l))
  /\ \A s \in Saves : WF_vars(RestartStep(s))
  /\ WF_vars(ShutdownKill \/ Exit)

FairSpec == Spec /\ Fairness

----------------------------------------------------------------------------
TypeOK ==
  /\ app \in {"up", "quit1", "between", "quit2", "exiting", "down"}
  /\ launches \in 0 .. MaxLaunches /\ crashes \in 0 .. MaxCrashes
  /\ phase \in {"starting", "ready", "failed"}
  /\ {dying, child, port} \subseteq Procs \cup {NoProc}
  /\ proc \in [Procs -> {"none", "booting", "owner", "serving", "dead"}]
  /\ conf \in [Procs -> [key : 0 .. MaxSaves, file : 0 .. MaxSaves]]
  /\ stored \in [key : 0 .. MaxSaves, file : 0 .. MaxSaves]
  /\ loop \in [Procs -> [pc : {"off", "sleep", "polling", "healthy", "unhealthy"},
                         port : Procs \cup {NoProc}, late : BOOLEAN]]
  /\ flow \in [Saves -> [pc : {"idle", "posting", "posted", "saved", "declined", "killing",
                               "spawning", "storing", "done", "failed"},
                         to : Procs \cup {NoProc}, wrote : BOOLEAN,
                         victim : Procs \cup {NoProc}, fresh : Procs \cup {NoProc}]]
  /\ ui \in [Intents -> {"new", "pending", "failed", "accepted", "gone"}]
  /\ tries \in [Intents -> 0 .. MaxTries]
  /\ \A r \in reqs : r.intent \in Intents /\ r.try \in 1 .. MaxTries /\ r.to \in Procs
  /\ row \in [Intents -> {"none", "live", "ended", "interrupted"}]
  /\ owner \in [Intents -> Procs \cup {NoProc}]
  /\ made \in [Intents -> 0 .. MaxTries]
  /\ {overlapped, crossed} \subseteq BOOLEAN

(* Recovery at a start closes only executions of processes that are gone:  *)
(* across restarts, orphans and lost handles no Runtime declares the task  *)
(* of a living one interrupted.                                            *)
InterruptedOnlyDead ==
  \A i \in Intents : row[i] = "interrupted" => proc[owner[i]] = "dead"

(* An intent the user confirmed becomes at most one execution, however     *)
(* often the submission times out, is repeated, arrives late or meets a    *)
(* restarted Runtime.                                                      *)
OneTaskPerIntent == \A i \in Intents : made[i] <= 1

(* What the web view believes accepted is persisted, so a restart of the   *)
(* Runtime can be followed to an end of the task.                          *)
AcceptedIsPersisted == \A i \in Intents : ui[i] = "accepted" => row[i] # "none"

(* Once the save that wrote the configuration has finished its restart, the *)
(* child that serves runs with that configuration, whatever other saves,    *)
(* restarts, crashes and late writes came between.  With the key it is so   *)
(* while no two saves overlap (README), unless the Keychain lookup failed   *)
(* at the spawn or the key was cleared.                                    *)
Finished(s) == s # 0 => flow[s].pc = "done"

SavedIsApplied ==
  child # NoProc /\ proc[child] = "serving" =>
    /\ Finished(stored.file) => conf[child].file = stored.file
    /\ ~overlapped /\ Finished(stored.key) /\ stored.key # 0 =>
         conf[child].key \in {0, stored.key}

(* The application does not stay Starting: its health loops decide, also   *)
(* when restarts overlap.                                                  *)
StartingSettles == [](app = "up" /\ phase = "starting" => <>(phase # "starting" \/ app # "up"))

(* After the application has quit no Runtime it started is left            *)
(* (docs/iterations/0049-desktop-workbench-foundation/acceptance.md:14).   *)
QuitLeavesNoRuntime == app = "down" /\ crashes = 0 => \A p \in Procs : ~Alive(p)

(* A Ready phase speaks of a Runtime that has served, with several health   *)
(* loops and restarts at work, unless inner was replaced between a loop's   *)
(* health check and its verdict.                                           *)
ReadyHasServed == phase = "ready" /\ ~crossed => proc[port] \in {"serving", "dead"}
=============================================================================
