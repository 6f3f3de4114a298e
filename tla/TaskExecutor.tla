---------------------------- MODULE TaskExecutor ----------------------------
(***************************************************************************)
(* The asynchronous task executor of the runtime (tasks/execution.py) with  *)
(* the two durable stores it writes: the execution store, which holds the   *)
(* live status and the event timeline of a task, and the task store, which  *)
(* holds its final report.                                                  *)
(*                                                                          *)
(* API threads (Clients) call submit, cancel, pause and resume; one worker  *)
(* thread takes tasks from a FIFO queue and runs them one after the other.  *)
(* The executor lock protects most writes, but not cancel's last save, the  *)
(* worker's last save or any event, so an operation is as many actions as   *)
(* it has windows in which another thread can be seen.  Calls that only     *)
(* read and return (terminal task, unknown task, state conflict) change     *)
(* nothing and are stuttering steps.                                        *)
(***************************************************************************)
EXTENDS Naturals, FiniteSets, Sequences

CONSTANTS
  Tasks,       \* task ids (uuid4 in the code: never reused while the runtime is up)
  Clients,     \* API threads
  Keys,        \* idempotency keys
  None,        \* no task, no client, no key
  MaxCalls,    \* bound: state-changing API calls of a behaviour
  MaxSteps,    \* bound: rounds of one task (the round budget of its runner)
  MaxFaults,   \* bound: storage faults of a behaviour
  MaxCrashes   \* bound: process crashes of a behaviour

ASSUME NoneAssumption == None \notin Tasks \cup Clients \cup Keys
ASSUME BoundAssumption ==
  {MaxCalls, MaxSteps, MaxFaults, MaxCrashes} \subseteq Nat

VARIABLES
  exec,     \* durable: live execution record of each task
  request,  \* durable: idempotency key the task was submitted with
  report,   \* durable: status of the final report in the task store
  events,   \* durable: timeline; a completed event is named by the status it carries
  acted,    \* the world: rounds run on the device for the task
  up,       \* the process runs
  items,    \* tasks with a work item in _items
  queue,    \* the FIFO of work items
  flags,    \* cancel_event, pause_event and parked of the work items
  lock,     \* owner of the executor lock when held across two steps
  client,   \* control state of each API thread
  worker,   \* control state of the worker thread
  budget    \* calls, faults and crashes so far

durable  == <<exec, request, report, events, acted>>
history  == <<request, report, events, acted>>
executor == <<up, items, queue, flags, lock>>
vars == <<exec, request, report, events, acted, up, items, queue, flags,
          lock, client, worker, budget>>
-----------------------------------------------------------------------------
Terminal == {"succeeded", "failed", "cancelled", "timed_out"}
Live     == {"queued", "running", "paused", "cancelling"}

EventType == {"queued", "started", "step", "cancel_requested",
              "pause_requested", "paused", "resumed"} \cup Terminal

\* "run" is the error carried over from the report.
Error == {"none", "run", "internal", "interrupted_known", "interrupted_unknown"}

Execution ==
  [status : Live \cup Terminal \cup {"absent"}, started : BOOLEAN,
   cancelReq : BOOLEAN, pauseReq : BOOLEAN, result : BOOLEAN,
   bound : BOOLEAN, error : Error]

Absent ==
  [status |-> "absent", started |-> FALSE, cancelReq |-> FALSE,
   pauseReq |-> FALSE, result |-> FALSE, bound |-> FALSE, error |-> "none"]

ErrorOf(status) == IF status = "succeeded" THEN "none" ELSE "run"

\* The record of a task whose report says status.
Finished(e, status) ==
  [e EXCEPT !.status = status, !.result = TRUE, !.error = ErrorOf(status)]

NoFlags == [cancel |-> {}, pause |-> {}, parked |-> {}]
Idle    == [pc |-> "idle", task |-> None, snap |-> Absent]

\* The worker between two tasks, and when its thread does not run.
Waiting == [pc |-> "take", task |-> None, snap |-> Absent,
            verdict |-> "none", due |-> FALSE]
NoThread == [Waiting EXCEPT !.pc = "none"]

Init ==
  /\ exec = [t \in Tasks |-> Absent]
  /\ request = [t \in Tasks |-> None]
  /\ report = [t \in Tasks |-> "none"]
  /\ events = [t \in Tasks |-> <<>>]
  /\ acted = [t \in Tasks |-> 0]
  /\ up = TRUE
  /\ items = {}
  /\ queue = <<>>
  /\ flags = NoFlags
  /\ lock = None
  /\ client = [c \in Clients |-> Idle]
  /\ worker = NoThread
  /\ budget = [calls |-> 0, faults |-> 0, crashes |-> 0]
-----------------------------------------------------------------------------
(* Stores.                                                                  *)

\* save_execution: a terminal row only accepts the content it already has and
\* refuses anything else with TASK_STATE_CONFLICT.  Where a refusal can happen
\* the caller tests CanSave for what it does next.
CanSaveAlways(t, e) == TRUE  \* mutant: no terminal guard
CanSave(t, e) == exec[t].status \notin Terminal \/ exec[t] = e
Save(t, e) == exec' = IF CanSave(t, e) THEN [exec EXCEPT ![t] = e] ELSE exec

Append1(t, e) == events' = [events EXCEPT ![t] = Append(@, e)]

Spend(what) == budget' = [budget EXCEPT ![what] = @ + 1]
Fault == budget.faults < MaxFaults /\ Spend("faults")

\* A work item leaves _items: nothing refers to its events any more.
Forget(t) ==
  [flags EXCEPT !.cancel = @ \ {t}, !.pause = @ \ {t}, !.parked = @ \ {t}]
-----------------------------------------------------------------------------
(* API threads: steps shared by the operations.                             *)

At(c, pc) == client[c].pc = pc
Goto(c, pc) == client' = [client EXCEPT ![c].pc = pc]
Return(c) == client' = [client EXCEPT ![c] = Idle]

\* A call enters the locked section and reads the record it will replace.
Enter(c, t, pc) ==
  /\ up /\ lock = None /\ At(c, "idle") /\ budget.calls < MaxCalls
  /\ lock' = c
  /\ client' = [client EXCEPT ![c] = [pc |-> pc, task |-> t, snap |-> exec[t]]]
  /\ Spend("calls")
  /\ UNCHANGED <<durable, up, items, queue, flags, worker>>

\* The save that ends a locked section, and where the call goes from there.
\* A row that became terminal meanwhile refuses it: TASK_STATE_CONFLICT.
SaveLocked(c, e, pc) ==
  LET t == client[c].task IN
  \/ /\ CanSave(t, e)
     /\ Save(t, e)
     /\ client' = [client EXCEPT ![c] =
          IF pc = "idle" THEN Idle ELSE [@ EXCEPT !.pc = pc, !.snap = e]]
     /\ UNCHANGED budget
  \/ /\ ~CanSave(t, e)
     /\ Return(c)
     /\ UNCHANGED <<exec, budget>>
  \/ /\ Fault
     /\ Return(c)
     /\ UNCHANGED exec

\* An event appended after the lock was released.
AppendEvent(c, pc, event, next) ==
  /\ up /\ At(c, pc)
  /\ \/ /\ Append1(client[c].task, event)
        /\ IF next = "idle" THEN Return(c) ELSE Goto(c, next)
        /\ UNCHANGED budget
     \/ /\ Fault
        /\ Return(c)
        /\ UNCHANGED events
  /\ UNCHANGED <<exec, request, report, acted, executor, worker>>
-----------------------------------------------------------------------------
(* submit                                                                   *)

KeyNeverUsed(k) == FALSE  \* mutant: the key is not looked up
KeyUsed(k) == k # None /\ \E t \in Tasks : request[t] = k

\* The locked section: look the key up, then register and create.  Nothing
\* else touches the new task, so the section is one step.  With a used key the
\* call returns the stored task or IDEMPOTENCY_CONFLICT and changes nothing.
SubmitCreate(c, t, k) ==
  /\ up /\ lock = None /\ At(c, "idle") /\ budget.calls < MaxCalls
  /\ exec[t].status = "absent" /\ t \notin items
  /\ ~KeyUsed(k)
  /\ items' = items \cup {t}
  /\ \/ /\ exec' = [exec EXCEPT ![t].status = "queued"]
        /\ request' = [request EXCEPT ![t] = k]
        /\ client' = [client EXCEPT ![c] =
                        [pc |-> "submitEvent", task |-> t, snap |-> exec'[t]]]
        /\ Spend("calls")
     \/ /\ budget.faults < MaxFaults
        /\ budget' = [budget EXCEPT !.calls = @ + 1, !.faults = @ + 1]
        /\ UNCHANGED <<exec, request, client>>
  /\ UNCHANGED <<report, events, acted, up, queue, flags, lock, worker>>

SubmitEvent(c) == AppendEvent(c, "submitEvent", "queued", "submitEnsure")

\* _ensure_worker starts a thread when there is none alive.
Ensured == IF worker.pc = "none" THEN Waiting ELSE worker

SubmitEnsure(c) ==
  /\ up /\ lock = None /\ At(c, "submitEnsure")
  /\ worker' = Ensured
  /\ Goto(c, "submitPut")
  /\ UNCHANGED <<durable, executor, budget>>

SubmitPut(c) ==
  /\ up /\ At(c, "submitPut")
  /\ queue' = Append(queue, client[c].task)
  /\ Return(c)
  /\ UNCHANGED <<durable, up, items, flags, lock, worker, budget>>

Submit(c) ==
  \/ \E t \in Tasks, k \in Keys \cup {None} : SubmitCreate(c, t, k)
  \/ SubmitEvent(c)
  \/ SubmitEnsure(c)
  \/ SubmitPut(c)
-----------------------------------------------------------------------------
(* cancel                                                                   *)

CancelRead(c, t) ==
  /\ exec[t].status \in Live /\ t \in items
  /\ Enter(c, t, "cancel")

NeverStarted(e) == e.status = "queued" \/ (e.status = "paused" /\ ~e.started)

\* A task that never started is reported cancelled inside the lock; its row
\* keeps its old status until CancelSave.
CancelQueued(c) ==
  LET t == client[c].task
      e == client[c].snap
      parked == t \in flags.parked
  IN
  /\ up /\ At(c, "cancel") /\ NeverStarted(e)
  /\ lock' = None
  /\ items' = IF parked THEN items \ {t} ELSE items
  /\ flags' = IF parked THEN Forget(t)
                        ELSE [flags EXCEPT !.cancel = @ \cup {t}]
  /\ \/ /\ report[t] = "none"
        /\ report' = [report EXCEPT ![t] = "cancelled"]
        /\ client' = [client EXCEPT ![c] =
             [@ EXCEPT !.pc = "cancelEvent",
              !.snap = [Finished(e, "cancelled") EXCEPT !.cancelReq = TRUE]]]
        /\ UNCHANGED budget
     \/ /\ report[t] # "none"
        /\ Return(c)
        /\ UNCHANGED <<report, budget>>
     \/ /\ Fault
        /\ Return(c)
        /\ UNCHANGED report
  /\ UNCHANGED <<exec, request, events, acted, up, queue, worker>>

CancelStarted(c) ==
  LET e == client[c].snap IN
  /\ up /\ At(c, "cancel") /\ ~NeverStarted(e)
  /\ lock' = None
  /\ flags' = [flags EXCEPT !.cancel = @ \cup {client[c].task}]
  /\ SaveLocked(c, [e EXCEPT !.status = "cancelling", !.cancelReq = TRUE],
                "cancelEvent")
  /\ UNCHANGED <<history, up, items, queue, worker>>

CancelEvent(c) ==
  AppendEvent(c, "cancelEvent", "cancel_requested",
    IF client[c].snap.status = "cancelled" THEN "cancelCompleted" ELSE "idle")

CancelCompleted(c) ==
  AppendEvent(c, "cancelCompleted", "cancelled", "cancelSave")

\* Outside the lock, from the record read in CancelRead.
CancelSave(c) ==
  /\ up /\ At(c, "cancelSave")
  /\ SaveLocked(c, client[c].snap, "idle")
  /\ UNCHANGED <<history, executor, worker>>

Cancel(c) ==
  \/ \E t \in Tasks : CancelRead(c, t)
  \/ CancelQueued(c) \/ CancelStarted(c)
  \/ CancelEvent(c) \/ CancelCompleted(c) \/ CancelSave(c)
-----------------------------------------------------------------------------
(* pause                                                                    *)

PauseRead(c, t) ==
  /\ exec[t].status \in {"queued", "running"} /\ ~exec[t].pauseReq
  /\ t \in items
  /\ Enter(c, t, "pause")

\* A queued task is paused at once, a running one at its next boundary.
PausedStatus(status) == IF status = "queued" THEN "paused" ELSE status

PauseSave(c) ==
  LET e == client[c].snap IN
  /\ up /\ At(c, "pause")
  /\ lock' = None
  /\ flags' = [flags EXCEPT !.pause = @ \cup {client[c].task}]
  /\ SaveLocked(c,
       [e EXCEPT !.pauseReq = TRUE, !.status = PausedStatus(@)], "pauseEvent")
  /\ UNCHANGED <<history, up, items, queue, worker>>

PauseEvent(c) ==
  AppendEvent(c, "pauseEvent", "pause_requested",
    IF client[c].snap.status = "paused" THEN "pausedEvent" ELSE "idle")

PausedEvent(c) == AppendEvent(c, "pausedEvent", "paused", "idle")

Pause(c) ==
  \/ \E t \in Tasks : PauseRead(c, t)
  \/ PauseSave(c) \/ PauseEvent(c) \/ PausedEvent(c)
-----------------------------------------------------------------------------
(* resume                                                                   *)

\* A request on a running task is withdrawn even when its work item is gone.
ResumeRead(c, t) ==
  /\ \/ exec[t].status = "paused" /\ t \in items
     \/ exec[t].status = "running" /\ exec[t].pauseReq
  /\ Enter(c, t, "resume")

RequeuedNever(t) == queue  \* mutant: a parked item stays out of the queue
Requeued(t) == IF t \in flags.parked THEN Append(queue, t) ELSE queue

\* Never started: back to queued, and back into the queue if the worker had
\* parked the item.  A fault in the save leaves the flags already changed.
ResumeQueued(c) ==
  LET t == client[c].task
      e == client[c].snap
      resumed == [e EXCEPT !.status = "queued", !.pauseReq = FALSE]
  IN
  /\ up /\ At(c, "resume") /\ e.status = "paused" /\ ~e.started
  /\ lock' = None
  /\ flags' = [flags EXCEPT !.pause = @ \ {t}, !.parked = @ \ {t}]
  /\ SaveLocked(c, resumed, "resumedEvent")
  /\ queue' = IF exec'[t] = resumed THEN Requeued(t) ELSE queue
  /\ UNCHANGED <<history, up, items, worker>>

\* Started: withdraw the request.  The status stays paused until the worker
\* wakes, which also writes the resumed event.
ResumeStarted(c) ==
  LET e == client[c].snap IN
  /\ up /\ At(c, "resume") /\ ~(e.status = "paused" /\ ~e.started)
  /\ lock' = None
  /\ flags' = [flags EXCEPT !.pause = @ \ {client[c].task}]
  /\ SaveLocked(c, [e EXCEPT !.pauseReq = FALSE], "idle")
  /\ UNCHANGED <<history, up, items, queue, worker>>

ResumedEvent(c) == AppendEvent(c, "resumedEvent", "resumed", "idle")

Resume(c) ==
  \/ \E t \in Tasks : ResumeRead(c, t)
  \/ ResumeQueued(c) \/ ResumeStarted(c) \/ ResumedEvent(c)
-----------------------------------------------------------------------------
(* The worker thread.                                                       *)

Run(pc) == worker' = [worker EXCEPT !.pc = pc]

\* The thread is at pc; locked sections of the worker are one step, because
\* no unlocked save can change the rows they read (see README).
WorkerAt(pc) == up /\ worker.pc = pc
Unlocked == lock = None

WorkerGet ==
  /\ WorkerAt("take") /\ queue # <<>>
  /\ queue' = Tail(queue)
  /\ worker' = [worker EXCEPT !.pc = "check", !.task = Head(queue)]
  /\ UNCHANGED <<durable, up, items, flags, lock, client, budget>>

SkipsCancelled(t) == exec[t].status = "paused"  \* mutant
Skips(t) == exec[t].status = "paused" /\ t \notin flags.cancel

\* First locked section: an item whose task is paused is parked.
WorkerCheck ==
  LET t == worker.task IN
  /\ WorkerAt("check") /\ Unlocked
  /\ IF Skips(t)
     THEN /\ flags' = [flags EXCEPT !.parked = @ \cup {t}]
          /\ worker' = Waiting
     ELSE /\ Run("start")
          /\ UNCHANGED flags
  /\ UNCHANGED <<durable, up, items, queue, lock, client, budget>>

DiscardsBySave(t) == exec[t].status = "cancelled"  \* mutant: flag ignored
Discards(t) == exec[t].status = "cancelled" \/ t \in flags.cancel

\* Second locked section: discard a cancelled item or mark the task running.
\* The status is not compared with paused again.
WorkerStart ==
  LET t == worker.task IN
  /\ WorkerAt("start") /\ Unlocked
  /\ IF Discards(t)
     THEN Run("cleanup") /\ UNCHANGED exec
     ELSE /\ Run("started")
          /\ Save(t, [exec[t] EXCEPT !.status = "running", !.started = TRUE])
  /\ UNCHANGED <<history, executor, client, budget>>

WorkerStarted ==
  /\ WorkerAt("started")
  /\ Append1(worker.task, "started")
  /\ Run("prepare")
  /\ UNCHANGED <<exec, request, report, acted, executor, client, budget>>

\* The run factory checks the device session, takes the lease and binds the
\* session to the execution; any of these may fail and then the run fails.
WorkerBind ==
  LET t == worker.task IN
  /\ WorkerAt("prepare") /\ Unlocked
  /\ IF exec[t].status \in {"running", "cancelling"}
     THEN Run("round") /\ Save(t, [exec[t] EXCEPT !.bound = TRUE])
     ELSE /\ worker' = [worker EXCEPT !.pc = "report", !.verdict = "failed"]
          /\ UNCHANGED exec
  /\ UNCHANGED <<history, executor, client, budget>>

\* The run ends with a report; only a boundary reports cancelled or timed out.
Conclude(verdict) ==
  worker' = [worker EXCEPT !.pc = "report", !.verdict = verdict]

\* Leaving the control probe: cancellation first, then the deadline.
BoundaryUncancelled(t) ==  \* mutant: cancel_event not read
  IF worker.due THEN Conclude("timed_out") ELSE Run("act")
Boundary(t) ==
  IF t \in flags.cancel THEN Conclude("cancelled")
  ELSE IF worker.due THEN Conclude("timed_out")
  ELSE Run("act")

\* _control_probe: a requested pause engages here, and only here.
WorkerProbe ==
  LET t == worker.task IN
  /\ WorkerAt("round") /\ Unlocked
  /\ IF t \in flags.pause /\ exec[t].status = "running"
     THEN Save(t, [exec[t] EXCEPT !.status = "paused"]) /\ Run("engaged")
     ELSE Boundary(t) /\ UNCHANGED exec
  /\ UNCHANGED <<history, executor, client, budget>>

WorkerEngaged ==
  /\ WorkerAt("engaged")
  /\ Append1(worker.task, "paused")
  /\ Run("paused")
  /\ UNCHANGED <<exec, request, report, acted, executor, client, budget>>

\* The wait loop ends when the pause is withdrawn, on cancel or at the deadline.
WakesWithoutDeadline(t) == t \notin flags.pause \/ t \in flags.cancel  \* mutant
WakesOnResume(t) == t \notin flags.pause                               \* mutant
Wakes(t) == t \notin flags.pause \/ t \in flags.cancel \/ worker.due

WorkerWake ==
  LET t == worker.task IN
  /\ WorkerAt("paused")
  /\ Wakes(t)
  /\ flags' = IF t \notin flags.cancel THEN [flags EXCEPT !.pause = @ \ {t}]
                                       ELSE flags
  /\ Run("waking")
  /\ UNCHANGED <<durable, up, items, queue, lock, client, budget>>

WorkerDisengage ==
  LET t == worker.task IN
  /\ WorkerAt("waking") /\ Unlocked
  /\ IF exec[t].status = "paused"
     THEN Save(t, [exec[t] EXCEPT !.status = "running", !.pauseReq = FALSE])
     ELSE UNCHANGED exec
  /\ Run("woken")
  /\ UNCHANGED <<history, executor, client, budget>>

WorkerResumed ==
  /\ WorkerAt("woken")
  /\ Append1(worker.task, "resumed")
  /\ Boundary(worker.task)
  /\ UNCHANGED <<exec, request, report, acted, executor, client, budget>>

RoundsLeft(t) == acted[t] < MaxSteps

\* One round of the runner: the device acts, then on_step records the round.  A
\* fault there fails the run, which tries to record the round as failed.
WorkerAct ==
  LET t == worker.task IN
  /\ WorkerAt("act") /\ RoundsLeft(t)
  /\ acted' = [acted EXCEPT ![t] = @ + 1]
  /\ \/ Append1(t, "step") /\ Run("round") /\ UNCHANGED budget
     \/ Fault /\ Conclude("failed") /\ (Append1(t, "step") \/ UNCHANGED events)
  /\ UNCHANGED <<exec, request, report, executor, client>>

\* The runner is done: its last round finished the task, or a round, the round
\* budget or the preparation failed.
WorkerFinish ==
  LET t == worker.task IN
  /\ up
  /\ \/ /\ worker.pc = "act" /\ acted[t] > 0
        /\ Conclude("succeeded")
        /\ UNCHANGED events
     \/ /\ worker.pc \in {"act", "prepare"}
        /\ Conclude("failed")
        /\ \/ worker.pc = "act" /\ Append1(t, "step")
           \/ UNCHANGED events
  /\ UNCHANGED <<exec, request, report, acted, executor, client, budget>>

\* completion_handler: the report is written before the execution row.
WorkerReport ==
  LET t == worker.task IN
  /\ WorkerAt("report")
  /\ IF report[t] = "none"
     THEN report' = [report EXCEPT ![t] = worker.verdict] /\ Run("read")
     ELSE UNCHANGED report /\ Run("except")
  /\ UNCHANGED <<exec, request, events, acted, executor, client, budget>>

\* The record the last save will replace is read here, without the lock.
WorkerRead ==
  /\ WorkerAt("read")
  /\ worker' = [worker EXCEPT !.pc = "complete",
                  !.snap = Finished(exec[worker.task], worker.verdict)]
  /\ UNCHANGED <<durable, executor, client, budget>>

WorkerCompleted ==
  /\ up
  /\ \/ worker.pc = "complete" /\ Run("final")
     \/ worker.pc = "exceptEvent" /\ Run("exceptSave")
  /\ Append1(worker.task, worker.snap.status)
  /\ UNCHANGED <<exec, request, report, acted, executor, client, budget>>

\* The last save, of the run or of the exception handler, is not locked.
WorkerSave ==
  LET t == worker.task IN
  /\ up /\ worker.pc \in {"final", "exceptSave"}
  /\ IF CanSave(t, worker.snap)
     THEN Save(t, worker.snap) /\ Run("cleanup")
     ELSE /\ UNCHANGED exec
          /\ Run(IF worker.pc = "final" THEN "except" ELSE "dying")
  /\ UNCHANGED <<history, executor, client, budget>>

\* except Exception: a task that is not terminal fails with INTERNAL_ERROR.
WorkerExcept ==
  LET e == exec[worker.task] IN
  /\ WorkerAt("except")
  /\ IF e.status \in Terminal
     THEN Run("cleanup")
     ELSE worker' = [worker EXCEPT !.pc = "exceptEvent",
                       !.snap = [e EXCEPT !.status = "failed",
                                          !.error = "internal"]]
  /\ UNCHANGED <<durable, executor, client, budget>>

\* finally: the item leaves _items; a handler that itself failed ends the thread.
WorkerCleanup ==
  LET t == worker.task IN
  /\ up /\ worker.pc \in {"cleanup", "dying"} /\ Unlocked
  /\ items' = items \ {t}
  /\ flags' = Forget(t)
  /\ worker' = IF worker.pc = "cleanup" THEN Waiting ELSE NoThread
  /\ UNCHANGED <<durable, up, queue, lock, client, budget>>

\* A storage fault at the step the worker is about to take.  Outside the try
\* it kills the thread with the item in its hand; inside the run the factory
\* turns it into a failed run, or an error it does not know leaves it; in the
\* handler it ends the thread after finally.
WorkerFault ==
  /\ up /\ Fault
  /\ \/ worker.pc = "check" /\ worker' = NoThread
     \/ /\ worker.pc \in {"start", "started", "report", "read", "complete",
                          "final"}
        /\ Run("except")
     \/ worker.pc \in {"prepare", "act"} /\ Run("except")
     \/ /\ worker.pc \in {"round", "engaged", "waking", "woken"}
        /\ Conclude("failed")
     \/ worker.pc \in {"except", "exceptEvent", "exceptSave"} /\ Run("dying")
  /\ UNCHANGED <<durable, executor, client>>

\* The monotonic deadline of the running task passes.
DeadlinePasses ==
  /\ up /\ ~worker.due
  /\ worker.pc \in {"prepare", "round", "engaged", "paused", "waking",
                    "woken", "act"}
  /\ worker' = [worker EXCEPT !.due = TRUE]
  /\ UNCHANGED <<durable, executor, client, budget>>

Worker ==
  \/ WorkerGet \/ WorkerCheck \/ WorkerStart \/ WorkerStarted \/ WorkerBind
  \/ WorkerProbe \/ WorkerEngaged \/ WorkerWake \/ WorkerDisengage
  \/ WorkerResumed \/ WorkerAct \/ WorkerFinish \/ WorkerReport \/ WorkerRead
  \/ WorkerCompleted \/ WorkerSave \/ WorkerExcept \/ WorkerCleanup
-----------------------------------------------------------------------------
(* Crash and restart.                                                       *)

Crash ==
  /\ up /\ budget.crashes < MaxCrashes
  /\ Spend("crashes")
  /\ up' = FALSE
  /\ items' = {}
  /\ queue' = <<>>
  /\ flags' = NoFlags
  /\ lock' = None
  /\ client' = [c \in Clients |-> Idle]
  /\ worker' = NoThread
  /\ UNCHANGED durable

Interrupted(t, error) == [exec[t] EXCEPT !.status = "failed", !.error = error]

\* Mutants: the report is not adopted; a paused task counts as not started; a
\* failure without a report offers a result.
RecoveredBlindly(t) == Interrupted(t, "interrupted_unknown")
RecoveredOptimistic(t) ==
  IF report[t] # "none" THEN Finished(exec[t], report[t])
  ELSE Interrupted(t, IF exec[t].status \in {"queued", "paused"}
                      THEN "interrupted_known" ELSE "interrupted_unknown")
RecoveredWithResult(t) ==
  Finished(exec[t], IF report[t] # "none" THEN report[t] ELSE "failed")

\* The record recovery writes for an unfinished task: the report if there is
\* one, otherwise a failure whose outcome is known only for a queued task.
Recovered(t) ==
  IF report[t] # "none" THEN Finished(exec[t], report[t])
  ELSE Interrupted(t, IF exec[t].status = "queued"
                      THEN "interrupted_known" ELSE "interrupted_unknown")

HasCompleted(t) == \E i \in DOMAIN events[t] : events[t][i] \in Terminal

\* recover_incomplete_executions: one transaction over every unfinished row.
Recover ==
  LET unfinished == {t \in Tasks : exec[t].status \in Live}
      silent == {t \in unfinished : report[t] # "none" /\ HasCompleted(t)}
  IN
  /\ ~up
  /\ up' = TRUE
  /\ exec' = [t \in Tasks |-> IF t \in unfinished THEN Recovered(t) ELSE exec[t]]
  /\ events' = [t \in Tasks |->
       IF t \in unfinished \ silent THEN Append(events[t], Recovered(t).status)
                                    ELSE events[t]]
  /\ UNCHANGED <<request, report, acted, items, queue, flags, lock, client, worker, budget>>
-----------------------------------------------------------------------------
Client(c) == Submit(c) \/ Cancel(c) \/ Pause(c) \/ Resume(c)

Next ==
  \/ \E c \in Clients : Client(c)
  \/ Worker \/ WorkerFault \/ DeadlinePasses
  \/ Crash \/ Recover

Spec == Init /\ [][Next]_vars

(***************************************************************************)
(* A call that entered finishes, the worker thread keeps running and time   *)
(* passes.  No call ever has to be made, and nothing restarts a Runtime that *)
(* died: the desktop's health loop ends with its first answer.              *)
(***************************************************************************)
Continue(c) == client[c].pc # "idle" /\ Client(c)

Fairness ==
  /\ \A c \in Clients : WF_vars(Continue(c))
  /\ WF_vars(Worker)
  /\ WF_vars(DeadlinePasses)

FairSpec == Spec /\ Fairness
-----------------------------------------------------------------------------
(* Properties.                                                              *)

ClientPC == {"idle", "submitEvent", "submitEnsure", "submitPut", "cancel",
             "cancelEvent", "cancelCompleted", "cancelSave", "pause",
             "pauseEvent", "pausedEvent", "resume", "resumedEvent"}
WorkerPC == {"none", "take", "check", "start", "started", "prepare", "round",
             "engaged", "paused", "waking", "woken", "act", "report", "read",
             "complete", "final", "except", "exceptEvent", "exceptSave",
             "cleanup", "dying"}

ClientState == [pc : ClientPC, task : Tasks \cup {None}, snap : Execution]
WorkerState == [pc : WorkerPC, task : Tasks \cup {None}, snap : Execution,
                verdict : Terminal \cup {"none"}, due : BOOLEAN]
Flags  == [cancel : SUBSET Tasks, pause : SUBSET Tasks, parked : SUBSET Tasks]
Budget == [calls : 0..MaxCalls, faults : 0..MaxFaults, crashes : 0..MaxCrashes]

StoreType ==
  /\ exec \in [Tasks -> Execution]
  /\ request \in [Tasks -> Keys \cup {None}]
  /\ report \in [Tasks -> Terminal \cup {"none"}]
  /\ events \in [Tasks -> Seq(EventType)]
  /\ acted \in [Tasks -> 0..MaxSteps]

ExecutorType ==
  /\ up \in BOOLEAN
  /\ items \in SUBSET Tasks
  /\ queue \in Seq(Tasks)
  /\ flags \in Flags
  /\ lock \in Clients \cup {None}

ClientType ==
  /\ client \in [Clients -> ClientState]
  /\ \A c \in Clients : client[c].pc # "idle" => client[c].task \in Tasks

\* What the worker carries from one step to a later one is there when needed.
WorkerType ==
  /\ worker \in WorkerState
  /\ worker.pc \notin {"none", "take"} => worker.task \in Tasks
  /\ worker.pc \in {"report", "read"} => worker.verdict \in Terminal
  /\ worker.pc \in {"complete", "final", "exceptEvent", "exceptSave"} =>
       worker.snap.status \in Terminal

TypeOK ==
  StoreType /\ ExecutorType /\ ClientType /\ WorkerType /\ budget \in Budget

IsTerminal(t) == exec[t].status \in Terminal
CompletedEvents(t) == SelectSeq(events[t], LAMBDA e : e \in Terminal)

\* A terminal row never changes again, whoever held an older copy of it: late
\* cancel, pause and resume saves, the worker's unlocked last save, recovery.
TerminalImmutable ==
  [][\A t \in Tasks : IsTerminal(t) => exec'[t] = exec[t]]_vars

\* Once a row is terminal it says what the report says, and offers a result
\* exactly when there is a report; recovery after a crash keeps this.
ReportAgrees ==
  \A t \in Tasks : IsTerminal(t) =>
    /\ exec[t].result <=> report[t] # "none"
    /\ report[t] # "none" => /\ exec[t].status = report[t]
                             /\ exec[t].error = ErrorOf(report[t])

\* The timeline of a terminal task has one completed event, and it carries the
\* status of the row although event and row are written at different times.
TimelineAgrees ==
  \A t \in Tasks : IsTerminal(t) => CompletedEvents(t) = <<exec[t].status>>

\* After its report is written a task neither starts nor acts on the device:
\* cancelling a queued task reports it while the worker may already hold it.
ReportEndsWork ==
  [][\A t \in Tasks : report[t] # "none" =>
       acted'[t] = acted[t] /\ exec'[t].started = exec[t].started]_vars

\* While the row says paused, no device step is taken.
NoStepWhilePaused ==
  [][\A t \in Tasks : exec[t].status = "paused" => acted'[t] = acted[t]]_vars

\* An interruption reported as known_failure really had no device effect.
KnownFailureIsKnown ==
  \A t \in Tasks : exec[t].error = "interrupted_known" => acted[t] = 0

\* A task that acted has its device session on record, through every later
\* save made from an older copy of the row.
ActedIsBound == \A t \in Tasks : acted[t] > 0 => exec[t].bound

\* Two tasks never share an idempotency key.
OneTaskPerKey ==
  \A t, u \in Tasks : request[t] = request[u] /\ request[t] # None => t = u

\* The places a registered work item can be in.
Queued(t)    == Cardinality({i \in DOMAIN queue : queue[i] = t})
Submitted(t) == Cardinality({c \in Clients : client[c].task = t /\
                  client[c].pc \in {"submitEvent", "submitEnsure", "submitPut"}})
Places(t) == Queued(t) + Submitted(t)
             + (IF worker.task = t THEN 1 ELSE 0)
             + (IF t \in flags.parked THEN 1 ELSE 0)

\* A registered work item is in exactly one place: the hands of its submitter,
\* the queue, the parking set or the hands of the worker.  In none it would
\* wait for ever, in two it would run twice.
OnePlace == up => \A t \in Tasks : Places(t) = IF t \in items THEN 1 ELSE 0

\* A parked item is one a resume or a cancel will still find paused.
ParkedIsPaused ==
  \A t \in flags.parked : exec[t].status = "paused" /\ ~exec[t].started
                          /\ t \in flags.pause

\* The row of a task at work is live until the worker's own last save: no
\* unlocked save of a caller ends it under the runner's feet.
RowLiveAtWork ==
  worker.pc \in {"started", "prepare", "round", "engaged", "paused", "waking",
                 "woken", "act", "report", "read", "complete"} =>
    exec[worker.task].status \in Live

\* An accepted task is never lost.  One that waits for its start is still in the
\* hands of its submitter, in the queue or with the worker; a paused one may be
\* set aside, where resume and cancel find it.  (submit: "Persist and enqueue one
\* task"; the worker parks, resume queues again.)
QueuedIsEnqueued ==
  up => \A t \in Tasks :
    /\ exec[t].status \in {"queued", "paused"}
    /\ ~exec[t].started /\ report[t] = "none"
    => \/ \E i \in DOMAIN queue : queue[i] = t
       \/ \E c \in Clients :
            /\ client[c].task = t
            /\ client[c].pc \in {"submitEvent", "submitEnsure", "submitPut"}
       \/ worker.task = t
       \/ exec[t].status = "paused" /\ t \in flags.parked

\* Whatever storage faults and crashes happen, a row offers a result only when
\* a report exists.
ResultIsBacked == \A t \in Tasks : exec[t].result => report[t] # "none"

\* A terminal row does not contradict the report (the weaker half of
\* ReportAgrees, "the final TaskRun stays the source of truth").
ReportIsTruth ==
  \A t \in Tasks : IsTerminal(t) /\ report[t] # "none" =>
                     exec[t].status = report[t]

\* A persisted cancel request stays persisted.
CancelRequestKept ==
  [][\A t \in Tasks : exec[t].cancelReq => exec'[t].cancelReq]_vars

\* Storage has failed the worker: the thread may be gone, or its last save lost.
Faulty == budget.faults > 0

\* A started task ends, even if it is paused and nobody resumes it, on healthy
\* storage and with a Runtime that is up again after each crash.
StartedEnds ==
  []<>up => \A t \in Tasks : exec[t].started ~> (IsTerminal(t) \/ Faulty)

\* An accepted cancel ends the task, in whatever state it found it, on healthy
\* storage and with a Runtime that is up again after each crash.
CancelEnds ==
  []<>up => \A t \in Tasks : t \in flags.cancel ~> (IsTerminal(t) \/ Faulty)
=============================================================================
