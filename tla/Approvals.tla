------------------------------ MODULE Approvals -------------------------------
(***************************************************************************)
(* The high-risk operations and their approvals: installing an APK,          *)
(* uninstalling an application, clearing its data, and deleting expired      *)
(* artifacts.  A preview (prepare_*, runtime.py) inspects the target and      *)
(* creates an approval with the scope it saw; a submission claims the         *)
(* approval for its idempotency key and then enqueues a task; the task        *)
(* inspects the target again, acts and verifies (tools/apk_install.py,        *)
(* app_removal.py, app_lifecycle.py, local_data.py) under one task            *)
(* lifecycle (tasks/diagnostic.py).  Stopping an application is the same      *)
(* without an approval.                                                      *)
(*                                                                          *)
(* The approvals live in memory: a restart of the runtime loses them.  The    *)
(* application, the APK file and the artifacts may change at any time.        *)
(***************************************************************************)
EXTENDS Naturals, Sequences, FiniteSets

CONSTANTS
  Kinds,         \* the operations that callers ask for
  Keys,          \* idempotency keys
  Clients,       \* API threads
  NumFiles,      \* artifacts, numbered from the oldest
  Limits,        \* max_artifacts of a cleanup
  MaxApprovals,  \* bound: approvals created
  MaxTasks,      \* bound: tasks created
  MaxEvents      \* bound: changes of the world and restarts together

AppKinds == {"app.install", "app.uninstall", "app.data.clear", "app.stop"}
Cleanup == "local.data.cleanup"

ASSUME DataAssumption ==
  /\ Kinds \subseteq AppKinds \cup {Cleanup}
  /\ {NumFiles, MaxApprovals, MaxTasks, MaxEvents} \subseteq Nat
  /\ Limits \subseteq Nat
  /\ "none" \notin Keys  \* consumed_by_key is None until the first claim

VARIABLES
  approvals, \* the approvals ever created, and whether a store still has them
  clients,   \* a claim made whose task is not submitted yet
  tasks,     \* the tasks in the order of their creation
  run,       \* the worker: the task it runs and where
  app,       \* the application on the device
  apk,       \* what the APK file holds
  files,     \* the artifacts
  late,      \* tasks whose command may still take effect
  sent,      \* history: how often a task sent its command
  effects,   \* history: tasks whose command took effect
  bounds     \* history: changes and crashes so far

vars == <<approvals, clients, tasks, run, app, apk, files, late, sent,
          effects, bounds>>
device == <<app, apk, late, sent, effects>>
-----------------------------------------------------------------------------
Files == 1..NumFiles
Versions == {"v1", "v2"}
AppStates == [version : Versions \cup {"absent", "system"}, running : BOOLEAN]
Scopes == [version : Versions \cup {"none"}, replace : BOOLEAN,
           files : SUBSET Files]
NoScope == [version |-> "none", replace |-> FALSE, files |-> {}]
Claims == [kind : Kinds, approval : 0..MaxApprovals, key : Keys]
Idle == [kind |-> "none", approval |-> 0, key |-> "none"]
NoRun == [task |-> 0, pc |-> "idle", rest |-> {}, deleted |-> {},
          moved |-> FALSE]

Init ==
  /\ approvals = <<>>
  /\ clients = [c \in Clients |-> Idle]
  /\ tasks = <<>>
  /\ run = NoRun
  /\ app \in {a \in AppStates : a.version # "v2" /\ ~a.running}
  /\ apk = "v1"
  /\ files = [f \in Files |-> "old"]
  /\ late = {}
  /\ sent = <<>>
  /\ effects = {}
  /\ bounds = [changes |-> 0, crashes |-> 0]

Oldest(n, expired) ==
  {f \in expired : Cardinality({g \in expired : g < f}) < n}
-----------------------------------------------------------------------------
(* Previews and submissions.                                                *)

\* What a preview approves, if it approves anything.
Previews(kind) ==
  CASE kind = "app.install" ->
         {[NoScope EXCEPT !.version = apk, !.replace = app.version # "absent"]}
    [] kind \in {"app.uninstall", "app.data.clear"} ->
         IF app.version \in Versions
         THEN {[NoScope EXCEPT !.version = app.version]} ELSE {}
    [] kind = Cleanup ->
         {[NoScope EXCEPT !.files = Oldest(n, {f \in Files : files[f] = "old"})]
            : n \in Limits}
    [] OTHER -> {}

Prepare(kind) ==
  /\ Len(approvals) < MaxApprovals
  /\ \E scope \in Previews(kind) :
       approvals' = Append(approvals,
         [kind |-> kind, scope |-> scope, key |-> "none", state |-> "held"])
  /\ UNCHANGED <<clients, tasks, run, device, files, bounds>>

\* The ten minutes of an approval are over.
Expire(a) ==
  /\ approvals[a].state = "held"
  /\ approvals' = [approvals EXCEPT ![a].state = "gone"]
  /\ UNCHANGED <<clients, tasks, run, device, files, bounds>>

\* Mutant: an approval is not bound to the key of its first request.
ClaimableByAny(a, key) == approvals[a].state = "held"

\* claim(): an approval that exists, is not expired, and is new or was
\* claimed with the same key.
Claimable(a, key) ==
  approvals[a].state = "held" /\ approvals[a].key \in {"none", key}

Claim(c, a, key) ==
  /\ clients[c] = Idle
  /\ Claimable(a, key)
  /\ approvals' = [approvals EXCEPT ![a].key = key]
  /\ clients' = [clients EXCEPT
       ![c] = [kind |-> approvals[a].kind, approval |-> a, key |-> key]]
  /\ UNCHANGED <<tasks, run, device, files, bounds>>

\* submit_app_stop_task needs no approval.
RequestStop(c, key) ==
  /\ clients[c] = Idle
  /\ "app.stop" \in Kinds
  /\ clients' = [clients EXCEPT
       ![c] = [kind |-> "app.stop", approval |-> 0, key |-> key]]
  /\ UNCHANGED <<approvals, tasks, run, device, files, bounds>>

\* AsyncTaskExecutor.submit: a key that was used returns its task, or is
\* refused when the request is another one.
Submit(c) ==
  /\ clients[c] # Idle
  /\ clients' = [clients EXCEPT ![c] = Idle]
  /\ IF \E t \in DOMAIN tasks : tasks[t].key = clients[c].key
     THEN UNCHANGED <<tasks, sent>>
     ELSE /\ Len(tasks) < MaxTasks
          /\ tasks' = Append(tasks,
               [key |-> clients[c].key, kind |-> clients[c].kind,
                approval |-> clients[c].approval, status |-> "queued",
                stop |-> "none", steps |-> 0,
                outcome |-> "none", deleted |-> {}])
          /\ sent' = Append(sent, 0)
  /\ UNCHANGED <<approvals, run, app, apk, files, late, effects, bounds>>

Live(t) == tasks[t].status \in {"queued", "running"}

\* A queued task is cancelled at once, a running one at its next look.
Cancel(t) ==
  /\ Live(t) /\ tasks[t].stop # "cancelled"
  /\ tasks' = [tasks EXCEPT
       ![t] = IF @.status = "queued"
              THEN [@ EXCEPT !.status = "cancelled", !.outcome = "known"]
              ELSE [@ EXCEPT !.stop = "cancelled"]]
  /\ UNCHANGED <<approvals, clients, run, device, files, bounds>>

Deadline(t) ==
  /\ tasks[t].status = "running" /\ tasks[t].stop = "none"
  /\ tasks' = [tasks EXCEPT ![t].stop = "timed_out"]
  /\ UNCHANGED <<approvals, clients, run, device, files, bounds>>
-----------------------------------------------------------------------------
(* The task lifecycle of DiagnosticTaskRunner.run.                          *)

T == tasks[run.task]
Scope == IF T.approval = 0 THEN NoScope ELSE approvals[T.approval].scope
Stopped == T.stop # "none"

Report(status, steps, outcome, deleted) ==
  /\ tasks' = [tasks EXCEPT ![run.task] = [@ EXCEPT
       !.status = status, !.stop = "none", !.steps = steps,
       !.outcome = outcome, !.deleted = deleted]]
  /\ run' = NoRun

\* invoke() raised: one failed step, and what the error says was deleted.
Failed(outcome, deleted) == Report("failed", 1, outcome, deleted)

\* invoke() returned: the step is kept, a stop asked for meanwhile still
\* decides the status.
Returned(deleted) ==
  Report(IF Stopped THEN T.stop ELSE "succeeded", 1,
         IF Stopped THEN "known" ELSE "none", deleted)

Begin(t) ==
  /\ run = NoRun
  /\ tasks[t].status = "queued"
  /\ \A u \in 1..(t - 1) : tasks[u].status # "queued"
  /\ tasks' = [tasks EXCEPT ![t].status = "running"]
  /\ run' = [NoRun EXCEPT !.task = t, !.pc = "preflight"]
  /\ UNCHANGED <<approvals, clients, device, files, bounds>>

\* _preflight_terminal, after the session and the lease of a device task.
Preflight ==
  /\ run.pc = "preflight"
  /\ \/ Stopped /\ Report(T.stop, 0, "known", {})
     \/ T.kind # Cleanup /\ Report("failed", 0, "known", {})
     \/ /\ ~Stopped
        /\ run' = [run EXCEPT
             !.pc = IF T.kind = Cleanup THEN "clean" ELSE "check",
             !.rest = Scope.files]
        /\ UNCHANGED tasks
  /\ UNCHANGED <<approvals, clients, device, files, bounds>>
-----------------------------------------------------------------------------
(* The device operations.                                                   *)

\* Mutant: only the identity of the application is checked again.
SameIdentity == T.kind = "app.install" \/ app.version \in Versions

\* The target is inspected again and must be what was approved.
InScope ==
  CASE T.kind = "app.install" -> apk = Scope.version
    [] T.kind = "app.stop" -> app.version \in Versions
    [] OTHER -> app.version = Scope.version

Check ==
  /\ run.pc = "check"
  /\ \/ InScope /\ run' = [run EXCEPT !.pc = "send"] /\ UNCHANGED tasks
     \/ Failed("known", {})
  /\ UNCHANGED <<approvals, clients, device, files, bounds>>

Send ==
  /\ run.pc = "send"
  /\ sent' = [sent EXCEPT ![run.task] = @ + 1]
  /\ run' = [run EXCEPT !.pc = "sent"]
  /\ UNCHANGED <<approvals, clients, tasks, app, apk, files, late, effects,
                 bounds>>

\* What the command of task t makes of the application.
Effect(t) ==
  LET kind == tasks[t].kind IN
  CASE kind = "app.install" -> [version |-> apk, running |-> FALSE]
    [] kind = "app.uninstall" -> [version |-> "absent", running |-> FALSE]
    [] OTHER -> [app EXCEPT !.running = FALSE]

Lands(t) ==
  /\ app' = Effect(t)
  /\ effects' = effects \cup {t}

\* A pm that answers Success has cleared the data; the other commands may
\* report success and change nothing.
Answered ==
  /\ run.pc = "sent"
  /\ \/ Lands(run.task)
     \/ T.kind # "app.data.clear" /\ UNCHANGED <<app, effects>>
  /\ run' = [run EXCEPT !.pc = "verify"]
  /\ UNCHANGED <<approvals, clients, tasks, apk, files, late, sent, bounds>>

\* Any other failure of the command is passed on as one that is known, whether
\* the device refused or adb lost it after the command had gone out.
Refused ==
  /\ run.pc = "sent"
  /\ Failed("refused", {})
  /\ late' \in {late, late \cup {run.task}}
  /\ UNCHANGED <<approvals, clients, app, apk, files, sent, effects, bounds>>

\* Mutant: a command that did not answer in time is a failure like any other.
TimedOutKnown ==
  /\ run.pc = "sent"
  /\ Failed("known", {})
  /\ late' = late \cup {run.task}
  /\ UNCHANGED <<approvals, clients, app, apk, files, sent, effects, bounds>>

\* ACTION_TIMEOUT: the command may have taken effect, or may yet.
TimedOut ==
  /\ run.pc = "sent"
  /\ Failed("unknown", {})
  /\ late' = late \cup {run.task}
  /\ UNCHANGED <<approvals, clients, app, apk, files, sent, effects, bounds>>

\* The target changes between the inspection and the command.
Moved ==
  run' = [run EXCEPT !.moved = @ \/ run.pc \in {"send", "sent", "verify"}]

LateEffect(t) ==
  /\ t \in late
  /\ late' = late \ {t}
  /\ Lands(t)
  /\ Moved
  /\ UNCHANGED <<approvals, clients, tasks, apk, files, sent, bounds>>

\* Mutant: pm's Success is taken for the removal.
VerifiesByAnswer ==
  \/ T.kind = "app.uninstall"
  \/ app.version # "absent" /\ (T.kind = "app.install" \/ ~app.running)

Verifies ==
  CASE T.kind = "app.install" -> app.version # "absent"
    [] T.kind = "app.uninstall" -> app.version = "absent"
    [] OTHER -> app.version # "absent" /\ ~app.running

\* The target is inspected after the command; an inspection that fails is the
\* task's error, a known failure.
Verify ==
  /\ run.pc = "verify"
  /\ \/ Verifies /\ Returned({})
     \/ Failed("known", {})
  /\ UNCHANGED <<approvals, clients, device, files, bounds>>
-----------------------------------------------------------------------------
(* LocalDataTool.cleanup: one candidate after the other, oldest first.      *)

Next1 == CHOOSE f \in run.rest : \A g \in run.rest : f <= g

CleanEnd ==
  /\ run.pc = "clean"
  /\ Stopped \/ run.rest = {}
  /\ Returned(run.deleted)
  /\ UNCHANGED <<approvals, clients, device, files, bounds>>

\* Size, hash, links and age are what the preview saw.
Unchanged(f) == files[f] = "old"

AtCandidate(place) == run.pc = place /\ run.rest # {}

CleanCheck ==
  /\ AtCandidate("clean") /\ ~Stopped
  /\ Unchanged(Next1)
  /\ run' = [run EXCEPT !.pc = "unlink"]
  /\ UNCHANGED <<approvals, clients, tasks, device, files, bounds>>

\* unlink removes whatever has the artifact's name by now.
CleanOne ==
  /\ AtCandidate("unlink")
  /\ files' = [files EXCEPT ![Next1] = "deleted"]
  /\ run' = [run EXCEPT !.pc = "clean", !.moved = FALSE,
                        !.rest = @ \ {Next1}, !.deleted = @ \cup {Next1}]
  /\ UNCHANGED <<approvals, clients, tasks, device, bounds>>

\* Mutant: the artifact whose deletion failed is listed as deleted.
CleanFailsListed ==
  /\ AtCandidate("unlink")
  /\ Failed("known", run.deleted \cup {Next1})
  /\ UNCHANGED <<approvals, clients, device, files, bounds>>

\* The scope changed, or the deletion failed or left the artifact behind.  A
\* candidate that is a link when it is looked at is refused by _candidate_path,
\* which does not know what was deleted before.
CleanFails ==
  /\ \/ AtCandidate("clean") /\ ~Stopped
        /\ Failed("known", IF files[Next1] = "link" THEN {} ELSE run.deleted)
     \/ AtCandidate("unlink") /\ Failed("known", run.deleted)
  /\ UNCHANGED <<approvals, clients, device, files, bounds>>
-----------------------------------------------------------------------------
(* The world.                                                               *)

Change ==
  /\ bounds.changes + bounds.crashes < MaxEvents
  /\ bounds' = [bounds EXCEPT !.changes = @ + 1]

AppChanges ==
  /\ Change
  /\ app.version # "system"
  /\ app' \in {a \in AppStates : /\ a.version # "system"
                                 /\ a.version = "absent" => ~a.running} \ {app}
  /\ Moved
  /\ UNCHANGED <<approvals, clients, tasks, apk, files, late, sent, effects>>

ApkChanges ==
  /\ Change
  /\ apk' \in Versions \ {apk}
  /\ Moved
  /\ UNCHANGED <<approvals, clients, tasks, app, files, late, sent, effects>>

\* An artifact is written again or removed, or a link takes its place.
FileChanges(f) ==
  /\ Change
  /\ files[f] = "old"
  /\ \E s \in {"changed", "link"} : files' = [files EXCEPT ![f] = s]
  /\ run' = [run EXCEPT !.moved = @ \/ (run.pc = "unlink" /\ f = Next1)]
  /\ UNCHANGED <<approvals, clients, tasks, device>>

\* The runtime ends and starts again: approvals and claims are gone, the
\* unfinished tasks are recovered; a command that was sent goes on.
Crash ==
  /\ bounds.changes + bounds.crashes < MaxEvents
  /\ bounds' = [bounds EXCEPT !.crashes = @ + 1]
  /\ approvals' = [a \in DOMAIN approvals |->
       [approvals[a] EXCEPT !.state = "gone"]]
  /\ clients' = [c \in Clients |-> Idle]
  /\ tasks' = [t \in DOMAIN tasks |->
       IF Live(t)
       THEN [tasks[t] EXCEPT !.status = "failed", !.stop = "none",
               !.outcome = IF tasks[t].status = "queued" THEN "known"
                           ELSE "unknown"]
       ELSE tasks[t]]
  /\ run' = NoRun
  /\ late' = IF run.pc = "sent" THEN late \cup {run.task} ELSE late
  /\ UNCHANGED <<app, apk, files, sent, effects>>

World ==
  \/ AppChanges \/ ApkChanges \/ Crash
  \/ \E f \in Files : FileChanges(f)
  \/ \E t \in DOMAIN tasks : LateEffect(t)

Request ==
  \/ \E kind \in Kinds : Prepare(kind)
  \/ \E a \in DOMAIN approvals : Expire(a)
  \/ \E c \in Clients, key \in Keys :
       \/ RequestStop(c, key)
       \/ \E a \in DOMAIN approvals : Claim(c, a, key)
  \/ \E c \in Clients : Submit(c)
  \/ \E t \in DOMAIN tasks : Cancel(t) \/ Deadline(t)

Work ==
  \/ \E t \in DOMAIN tasks : Begin(t)
  \/ Preflight \/ Check \/ Send \/ Answered \/ Refused \/ TimedOut \/ Verify
  \/ CleanEnd \/ CleanCheck \/ CleanOne \/ CleanFails

Next == World \/ Request \/ Work
Spec == Init /\ [][Next]_vars
-----------------------------------------------------------------------------
Statuses == {"queued", "running", "succeeded", "failed", "cancelled",
             "timed_out"}

TypeOK ==
  /\ approvals \in Seq([kind : Kinds, scope : Scopes, key : Keys \cup {"none"},
                        state : {"held", "gone"}])
  /\ clients \in [Clients -> Claims \cup {Idle}]
  /\ tasks \in Seq([key : Keys, kind : Kinds, approval : 0..MaxApprovals,
                    status : Statuses,
                    stop : {"none", "cancelled", "timed_out"}, steps : 0..1,
                    outcome : {"none", "known", "refused", "unknown"},
                    deleted : SUBSET Files])
  /\ \A t \in DOMAIN tasks :
       (tasks[t].outcome = "none")
         <=> tasks[t].status \in {"queued", "running", "succeeded"}
  /\ run.task \in 0..Len(tasks)
  /\ run.pc \in {"idle", "preflight", "check", "send", "sent", "verify",
                 "clean", "unlink"}
  /\ run.rest \in SUBSET Files /\ run.deleted \in SUBSET Files
  /\ run.moved \in BOOLEAN
  /\ app \in AppStates /\ apk \in Versions
  /\ files \in [Files -> {"old", "changed", "link", "deleted"}]
  /\ late \subseteq DOMAIN tasks /\ effects \subseteq DOMAIN tasks
  /\ sent \in Seq(Nat)

Finished(t) == ~Live(t)
ByApproval(a) == {t \in DOMAIN tasks : tasks[t].approval = a}

\* An approval lets its operation be sent to the device or run at most once,
\* whatever clients retry, with which keys, across expiry and restarts.
ApprovalUsedOnce ==
  \A a \in DOMAIN approvals :
    /\ Cardinality(ByApproval(a)) <= 1
    /\ \A t \in ByApproval(a) : sent[t] <= 1 /\ tasks[t].key = approvals[a].key

\* A task that reports success took effect, if nobody else changed the
\* application.  Replacing an application is the exception: the verification
\* only finds that the application is there.
SuccessTookEffect ==
  \A t \in DOMAIN tasks :
    /\ tasks[t].status = "succeeded"
    /\ bounds.changes = 0 /\ effects \subseteq {t}
    /\ \/ tasks[t].kind \in {"app.uninstall", "app.data.clear"}
       \/ /\ tasks[t].kind = "app.install"
          /\ ~approvals[tasks[t].approval].scope.replace
    => t \in effects

\* The target is the one the user confirmed.
ConfirmedTarget ==
  CASE T.kind = "app.install" -> apk = Scope.version
    [] T.kind = "app.stop" -> app.version \in Versions
    [] OTHER -> app.version = Scope.version

\* An approval does not outlive what it was given for: a command takes effect
\* on the version the user confirmed, unless the target changed after the
\* task's own inspection.
EffectInScope ==
  [][run.pc = "sent" /\ effects' # effects /\ run.task \in effects'
       /\ ~run.moved => ConfirmedTarget]_vars

\* An operation takes effect while its task runs.  After that it does only when
\* the task was reported with an unknown outcome, or with the code of a command
\* that failed: a task that was cancelled, was refused by a check or was not
\* verified is never followed by an effect.
LateOnlyIfUnknownOrRefused ==
  [][\A t \in effects' \ effects :
       t = run.task \/ tasks[t].outcome \in {"unknown", "refused"}]_vars

\* reliability-model.md:26: an action that may have taken place has an unknown
\* outcome, so no other report is followed by an effect.
LateOnlyIfUnknown ==
  [][\A t \in effects' \ effects :
       t = run.task \/ tasks[t].outcome = "unknown"]_vars

\* A task stopped before its first step has not touched anything.
StoppedBeforeStepUntouched ==
  \A t \in DOMAIN tasks :
    tasks[t].status \in {"cancelled", "timed_out"} /\ tasks[t].steps = 0
      => sent[t] = 0 /\ t \notin effects /\ tasks[t].deleted = {}

\* The cleanup deletes an artifact only if the approval its task claimed lists
\* it, and what it deletes is what the preview saw, unless it was replaced between
\* the last look and the unlink.
DeletesOnlyPreviewed ==
  [][\A f \in Files : files'[f] = "deleted" /\ files[f] # "deleted"
       => f \in Scope.files /\ (files[f] = "old" \/ run.moved)]_vars

\* An artifact that a report lists as deleted is gone: a report shown later
\* never calls an artifact expired that the cleanup left behind.
TombstonesAreTrue ==
  \A t \in DOMAIN tasks : \A f \in tasks[t].deleted : files[f] = "deleted"

\* reliability-model.md: an action that was sent and whose effect cannot be
\* determined is reported with an unknown outcome.
UndeterminedIsUnknown ==
  \A t \in DOMAIN tasks :
    tasks[t].status = "failed" /\ t \in effects => tasks[t].outcome = "unknown"
=============================================================================
