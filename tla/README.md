# Verification of the mobile agent runtime

This directory models the runtime of ThumbAgent (`src/runtime/mobile_agent`) in
TLA+, checks the models with TLC and proves the main results with TLAPS. It is
kept beside the code: every definition that models code is listed in
`PROJECT.json` under `map` with the lines it stands for. Line numbers below are
of `src/runtime/mobile_agent/tasks/execution.py` unless a file is named.

## 1. The system

A local process owns the Android devices connected over adb and runs tasks on
them. A request reaches it over HTTP (one thread per request), MCP (a client of
the HTTP API) or the command line. Long tasks go through an executor with one
worker thread; short tool and skill calls run in the thread of their request.

| Component | State it keeps | Operations | Interacts with |
|---|---|---|---|
| Task executor (`tasks/execution.py`) | queue, `_items`, per item `cancel_event`, `pause_event`, `parked`; executor lock, event lock | submit, cancel, pause, resume, worker loop, control probe, bind session | both stores, runner, lease manager |
| Execution store (`storage/execution.py`) | row and event timeline of each task (SQLite) | create, save (terminal rows refuse other content), append, recover at startup | report store (same file) |
| Report store (`storage/sqlite.py`) | final report, written once | save, list | executor's completion handler |
| Device lease (`devices/lease.py`) | table device -> lease | hold (not reentrant), release | every write path of the facade |
| Device sessions (`devices/session.py`) | last connection, session and presence of each device; binding in a context variable | list, require online, bind, check before every call | Android adapter |
| Agent runner (`agent/runner.py`) | history and feedback of one run | observe, plan, validate, act, verify; stops on cancel, deadline, budget | planner, tools, executor's probes |
| Tool runtime, policy (`tools/runtime.py`, `policy/`) | none | gate, act, verify | adapter |
| Unicode input (`tools/unicode_input.py`) | the input method of the device | switch, inject, read back, retry, restore | adapter, helper input method |
| Approvals (`domain/apk.py`, `app_removal.py`, `app_lifecycle.py`, `local_data.py`) | one record per prepared high-risk operation, in memory | prepare, claim, expire | facade, executor |
| Local data cleanup (`tools/local_data.py`) | artifact files and their tombstones | scan, prepare, delete file by file | approvals, executor |
| Declarative skills (`domain/skill_dsl.py`, `skills/dsl_interpreter.py`, `tasks/dsl_skill.py`) | position, budgets, step records | parse, gate, run steps, loops, branches | tools, executor |
| Model provider and planner (`providers/`, `agent/planner.py`) | settings file, planner fixed at the start, conversation of one decision | save settings, choose planner, decide with retry and repair, compile a goal | agent runner, HTTP API |
| MCP adapter (`mcp/`) | handshake, rate window | answer one line at a time, one HTTP request per tool call | HTTP API |
| HTTP API (`api/server.py`) | none (a thread per request) | check token and body, call the facade | facade, executor |
| Desktop application (`apps/desktop`) and instance lock (`runtime_lock.py`) | child process, port and token, health loops, phase; lock file | launch, watch, save and restart, submit, quit | Runtime process, Keychain |
| Skill registry (`skills/registry.py`, `storage/skills.py`) | versions with document and enabled flag, audit trail; whether it was assembled | register, enable, disable, delete, load the official documents, resolve | declarative skills, executor |
| UI parsing, capture tools, artifacts, evaluation, CLI, web page | none, or files they write | read, format | the above |

What makes it hard: API threads change a task while the worker runs it, and some
of the writes of both are outside the lock; report, event and row of a task are
three writes that a crash or a storage fault can separate; pausing must stop a
running agent at a safe boundary and must not be able to block it for ever;
device lists are read outside the lock that applies them; devices reconnect
between a check and the call it admits; a command that timed out can take effect
later; a caller that timed out repeats what may still be at work; two processes
can meet on one data directory.

What makes each part correct:

- executor: a submitted task has one work item in one place; a terminal row never
  changes; report, row and timeline agree; nothing acts after its report, or while
  its row says paused; a queued, started or cancelled task gets on; a caller's
  pause and cancel are not lost.
- recovery: adopts a report if there is one, never contradicts it, and calls an
  outcome known only if no device action happened.
- leases: one writer per device; no lease outlives its holder or is lost under it.
- sessions: one session, one device, one connection; a revoked session stays revoked.
- unicode input: success means the exact text; the previous input method is back or
  the result says it is not.
- approvals: a claim admits one task, which acts only on what was confirmed; after the
  end of a task only a command that timed out or failed may still act.
- cleanup: only previewed files are deleted, and what a report lists as deleted is gone
  (it need not list everything, see section 5).
- declarative skills: budgets bound every run, success means the whole document, no
  step without the confirmation its risk asks for.
- provider: a crash leaves the last settings whole, as long as saves do not overlap; a request is repeated only where
  it can help; a configured model is never replaced by the rules in silence.
- MCP adapter: one task per request however often it is repeated, answers in order,
  an exact rate window.
- skill registry: a stored version never changes and keeps the user's choice; the audit
  trail names what was stored, and a task runs nothing else.
- desktop: recovery only closes tasks of dead processes; an intent is executed once and
  what was accepted is persisted; a save takes effect; Ready means that the process
  served; Starting ends.

## 2. Modules

| Module | Models | Kind |
|---|---|---|
| `TaskExecutor` | executor, execution store, report store, recovery, crashes, storage faults | detailed specification |
| `TaskLifecycle` | what a task may go through | abstract specification |
| `TaskRefinement` | mapping of the first to the second | refinement |
| `TaskPromises` | history: pauses that were answered, steps after a cancel | extension of the detailed specification |
| `DeviceGateway` | leases, sessions, the executions and the readers of device lists, connections | detailed specification |
| `AgentLoop` | one run of the agent: shortcut, rounds, tool calls, scrolling skill, steps, stops | detailed specification |
| `UnicodeInput` | the Unicode text tool, the adb commands it sends and the helper input method on the device | detailed specification |
| `Approvals` | previews, approvals, submissions, execution and verification of install, uninstall, clear, stop and cleanup | detailed specification |
| `DslSkill` | a declarative skill from its document to its task report | detailed specification |
| `Sidecar` | desktop application, Runtime processes, instance lock, submissions with keys | detailed specification |
| `McpAdapter` | MCP server, rate limiter, HTTP requests and their handlers | detailed specification |
| `ModelProvider` | settings file, choice of the planner, provider conversation, abandoned planner thread | detailed specification |
| `SkillRegistry` | versions of declarative skills, their audit trail, the API calls on them | detailed specification |
| `TaskExecutorProofs` | theorems about `TaskExecutor`, `TaskPromises` and `TaskRefinement` | proofs |
| `DeviceProofs` | theorems about `DeviceGateway` and `UnicodeInput` | proofs |
| `CallerProofs` | theorems about `Sidecar` and `McpAdapter` | proofs |
| `AgentLoopProofs`, `ApprovalsProofs`, `DslSkillProofs`, `ModelProviderProofs`, `SkillRegistryProofs` | theorems about the module of that name | proofs |
| `MC...` of those that need one | model values, inputs and symmetry for TLC | model checking |

The executor is the hub. `AgentLoop`, `DslSkill` and `Approvals` are what runs inside one
work item and know of the executor its probes, its deadline and its one worker;
`DeviceGateway` is the lease and the session around it; `UnicodeInput` is one tool call
inside `AgentLoop`; `McpAdapter` and `Sidecar` are its callers; `ModelProvider` is behind
the planner of `AgentLoop`, and `SkillRegistry` hands `DslSkill` its documents. `UnicodeInput` and `McpAdapter` call what every module has by a
name of their own (`InputSpec`, `McpSpec`, ...), so that one module of proofs can extend
two specifications. The modules are not multiplied into one state space: each
keeps of its neighbours the behaviour its own properties depend on.

### 2.1 TaskExecutor and the code

*Rows.* `exec[t]` is the `TaskExecution` of `t` (status, whether `started_at` is set,
`cancel_requested`, `pause_requested`, `result_available`, whether a device session
is bound, error). `report[t]` is the status of the `TaskRun` in the report store.
`events[t]` is the timeline; a completed event is named by its status. `acted[t]`
counts rounds of the runner that reached the device, the finishing round included.

*API threads.* `client[c]` is where the call of thread `c` is, and `snap` is the local
`execution`/`updated` of the code, read in the locked section and saved later.
Cancel, for example, is `CancelRead` (361-371), then `CancelQueued` (372-410: report
written inside the lock) or `CancelStarted` (411-417), then, outside the lock,
`CancelEvent` (418), `CancelCompleted` (420) and `CancelSave` (425). Calls that find
a terminal row, an unknown task or a conflict return without changing anything and
are stuttering steps; so is a second pause, except in `TaskPromises`, where the
answer is what matters.

*Worker.* `worker.pc` follows the loop (538-659) and `_control_probe` (661-707). Every
point at which it gives up the lock or calls a store is a separate action. The
locked sections of the worker are single steps although an unlocked save could
in principle fall inside them. It cannot: the only unlocked saves are the worker's
own and `CancelSave`, which only follows a `cancel_event` set in the lock; each locked
section of the worker either tests that event first (`WorkerStart`) or is reached only
by a task `WorkerStart` admitted. `resume_event` only shortens a wait of 0.2 s and is left
out. Of the runner, the boundary checks (`Boundary`: cancel before deadline), the
round budget (`RoundsLeft`) and the verdict are kept. A run's preparation (device
lookup, lease, binding) is `prepare`: it binds the session or fails the run.

*Faults.* Any store access may fail once per unit of `budget.faults`. The consequence
follows from where the code is: before the worker's `try` the thread dies, in the
run the runner fails, after it the `except` branch decides, in the `except` branch the
thread ends after `finally`. A fault never leaves half a transaction.

*Crash and recovery.* `Crash` loses everything but `durable`; `Recover` is the constructor
(259) calling `recover_incomplete_executions`, one transaction. The report, the row
and the events are in one SQLite file, so the order of writes is the order of
commits.

### 2.2 TaskLifecycle

Three facts per task: status, begun, report. Begin happens once and never after a
report; one report per task; a row closes on its report, or as failed when a
restart found none. `TaskRefinement` maps `started` to `begun`. With a storage fault the
implementation does not hold: the `except` branch closes a row against its report
(finding `report_contradicted`).

### 2.3 DeviceGateway and the code

An execution is `require_online_session` (`Begin` reads the list, `Require` applies it),
`hold`, `bind_session`, then any number of adapter calls, each a check (`ValidateFetch`,
`Validate`) and the call (`Write`), then release. `state` is `_states` of the tracker, `link`
and `epoch` are the physical connection. `list_devices` asks adb without the lock and
applies the answer under it: two actions everywhere. `Watchers` are other readers of
the list (readiness, inspection, the desktop's polling). A lease that expired is still
held, as in the code, so time is not modelled.

### 2.4 AgentLoop and the code

`TaskExecutor` knows of a run only its boundaries, its budget and its verdict;
`AgentLoop` is that run from the inside. Lines are of `agent/runner.py`.

*The run.* `pc` is the place in `run` (97-496). The shortcut is `BeginShortcut` to
`VerifyShortcut` (147-227); a round is `BeginRound`, `Observe`, `StartPlanner`,
`PlannerReturns`, `Decided`, `Accept` (231-258), one of `Tool...`, `Finish`, `UnicodeInput`
and `ScrollSkill` (724-768), then `Record` and `Continue` (280-389). `Raise` leaves the
`try`, `Fail` is the `except` branch for errors (448-496) and `StopRun` the one for stops
(428-447). `_observe_with_retry` (553-584) is `ObserveFails` and `ObserveAgain` at the
three places that use it.

*Data.* Only what control depends on: an observation is the page it shows and a
selector the page it matches, so "not found" and "not unique" are one outcome. Any
look at the device may show any page: a person, a notification and an animation
change it at will, which also makes the effect of an input arbitrary. Refusals of a
tool call (device gone, capability, risk not confirmed, permission dialog) are one
outcome before anything was sent; an input whose adapter call fails may have arrived.
What the planner is shown is left out: it may answer anything at any time.

*Steps.* `ids` are the uuid4 of the code as a counter: minted, the round's, and
`pending_step_id`. `told` says whether `on_step` stored the event. The locals of a round
are cleared where the code drops them, `obs` being the observation of the round and then
`before` in a tool call.

*Executor.* A probe may hold the run (`Hold`, `Release`: `_control_probe` in
`tasks/execution.py`), report a cancellation or a missed deadline. `Deliver` is the end of
`asyncio.run` (604-611 there), which waits for the thread of an abandoned planner.

### 2.5 UnicodeInput and the code

One call of `UnicodeTextInputTool.execute` (`tools/unicode_input.py`) against the device.
`pc` is the place in `execute`; each adb command is one action that succeeds, fails
without effect, or fails after its effect (`Fault` counts them, and lost keys too). The
helper (`UnicodeImeService.java`) is the real decoder: `wire` holds key presses, `Key` is
`onKeyDown` with its shift state and block buffer, `Bind` and `RestartInput` are the
callbacks by which Android rebinds the field. A command may end with keys still on the
`wire` (`Typed` as a fault, `TypingFails`); they are handled at any later time, so that the
read-back (`Verify`, with its second reading and the decision to type once more), the pause
before the second injection, Enter and the restored input method meet texts that are still
arriving. `delayed` remembers that it happened. A hierarchy is matched, renamed, without the
node, or ambiguous. `RestoreSet` and `RestoreCheck` are the `finally`.
Texts are short sequences over a direct character, the shift character and one that needs
a block; the packing of bits and NFC are left out.

### 2.6 Approvals and the code

`Prepare` is a `prepare_*` of `runtime.py`: it inspects the target and keeps in the approval
the scope it saw (version and replacement, or the files chosen). `Claim` and `Submit` are
two steps of an API thread, as the code claims under the store's lock and enqueues
after it; a claim is bound to the idempotency key, so a retry passes with the same key.
The task goes `Preflight`, `Check` (comparison with the scope), `Send`, then one of `Answered`,
`Refused`, `TimedOut`, then `Verify`. A command that timed out stays in `late` and may take
effect at any later time (`LateEffect`); one that failed in any other way may too (a
connection lost after sending), and is passed on with the code of its failure, the outcome
`refused` of the model. A cleanup looks at one file (`CleanCheck`: links, size, hash, age)
and removes it in a second step (`CleanOne`), with the failures of both (`CleanFails`) and
the stop between two files (`CleanEnd`). `Change` lets the application, the
APK file and the artifacts change at any time, also between check and command;
`Crash` loses the approvals and interrupts tasks. `moved` marks a change between check
and effect, or between a file's check and its removal, which no command can exclude and
`EffectInScope` and `DeletesOnlyPreviewed` therefore except.

### 2.7 DslSkill and the code

`WellFormed` is the parser's verdict (`_parse_step` and its callers), `DerivedRisk` and
`GateError` the gates at registration and submission, `PreflightError` the checks of
the runner. `EnterTop`, `Iterate`, `NextOfBody`, `EndOfBody` and `Leave` are `run_dsl_skill` with its stop
and budget checks at their places; `Act` and `Verify` are one `ToolRuntime.execute` or one
skill call, with `truth` recording what the device did. Time is a clock that any step
may let pass. A document is its shape: types, references, branches, budgets; `Document` is
what the parser's dataclasses hold, and `Places` the positions `_collect` visits.

### 2.8 Sidecar and the code

A process is numbered by its spawn, and port and token are drawn with it. `inner` of
`sidecar.rs` is `phase`, `child`, `port`; every access to it is one action, because each takes
the mutex for itself. `restart` is four actions, the health loop three, quitting two and
two. `AcquireLock` and `CreateServer` are `runtime_lock.py` and the constructor of the
service, which recovers the live rows. A spawn looks the key up in the Keychain and goes
without one if the lookup fails (`Spawned`). A save may enter a key (`KeySaves`), the
settings page may clear it (`ClearSecret`), which restarts nothing, and several saves, their
restarts and the health loops of several spawns may be at work at once. Two history
variables say where they met: `overlapped`, a save began while another was in progress;
`crossed`, `inner` was replaced while a health loop was between its check and its verdict.
A submission is a message to a port: it can be
handled after the web view gave up and said so, and the dialog repeats it with the key
minted for the intent.

### 2.9 McpAdapter and the code

`Serve` is `McpServer.handle` on the line at the head of stdin, one at a time; `ValidCall` adds
the rate limiter with its window; `CallTool` sends the request, `TimesOut` gives it up after
30 s. A handler of the Runtime runs on its own thread (`http`) and is not told. A
Runtime that restarts loses its handlers, keeps its table of tasks (recovered) and may
come back with another token, which the adapter read once. Tools are grouped by what
their handler does; the bodies of all routes are validated a second time
(`InvalidBody`).

### 2.10 ModelProvider and the code

*Settings.* Names are bound to inodes: a writer that has `tmp` open keeps its inode
across another's `os.replace`. `BeginSave`, `WriteSettings`, `ChangeMode`, `Replace`, `AnswerSave` are
the five system calls of a save; the server has a thread per request and a save takes no lock,
so the savers are two, and `overlapped` remembers that a save began while another was in
progress. A crash stops a save anywhere; loss of power without
`fsync` is not modelled.

*Planner.* `Start` reads the file and fixes the planner: `model`, `rules`, or `unavailable` when a
model is enabled and its secret does not resolve. *Conversation.* `call.log` is what was
sent and answered; `Repeats` and `Repairs` are the two loops of `openai_compatible.py`. One
conversation is at work at a time, the worker's or a client's compilation.
*Stop.* `GiveUp` is the runner abandoning the thread, `JoinThread` the end of `asyncio.run`.

### 2.11 SkillRegistry and the code

`rows` is the table `custom_skills`, `audit` the table `skill_audit`. Every statement on
them is a transaction of its own, so `register` is an insert and then an event (`Register`,
`Audit`), and `set_enabled` and `delete` are a read, a statement and an event (`Fetch`,
`Toggle` or `Delete`, `Audit`); calls of other threads come between, as there is no lock.
`Assemble` is `_custom_skills` (`runtime.py:466`): the first call after a start publishes the
registry and then loads the official documents (`LoadInsert`, `LoadAudit`, `LoadEnds`), a
second one goes on at once. `Resolve` and `Enqueue` are the submission of a task. `Fault` is a
refused statement, `Restart` the end of the process. One skill id stands for all, a
document for its digest; risk and confirmation are in `DslSkill`.

## 3. Runs

| Run | Instance | Shows |
|---|---|---|
| `executor_two` | 2 tasks, 2 threads, 1 key, 3 calls, 2 rounds, 1 crash | report and row agree; known failures are known; keys identify tasks; a parked task waits; no accepted task is lost; one step after a cancel; implements `TaskLifecycle` |
| `executor_live` | 1 task, 2 threads, 3 calls, 1 round, 1 fault, 1 crash, fairness | results are backed and terminal rows final under faults; on healthy storage a started and a cancelled task end |
| `gateway` | 2 devices, 2 executions, 1 watcher, 3 link changes, 3 calls, 2 lists | no lost or forgotten lease, revoked for ever, one late write |
| `agent` | 2 rounds, 2 attempts, 1 scroll, 3 pages, 2 tools, 1 pause, 1 lost event, fairness | success was seen after the last input, no useless repetition, inputs reported, one late round, termination |
| `unicode` | 6 texts, 2 contents, 2 faults | exact success also with lost and late keys, restored or reported |
| `approvals` | 5 kinds, 2 keys, 2 clients, 2 files, 1 approval, 2 tasks, 1 change or restart | used once, effect in scope, late effects only of commands that timed out or failed, a success took effect, true tombstones |
| `dsl` | 9 documents, deadline 3, clock 4, caller's budgets 1 and 3, 2 faults | whole success, one late step, budgets, confirmation |
| `sidecar` | 3 processes and either 2 saves with keys at once, or 1 save, 2 launches, 2 tries of 1 intent, 1 crash | a save applies, Ready speaks of what served, recovery only of the dead, one task per intent |
| `mcp` | 5 lines of 11, 1 in the pipe, 2 calls in a window of 2, 1 restart | one task per request, exact window |
| `model` | 2 savers, 2 saves, 2 starts, every override, 2 calls | last settings whole until saves overlap, no silent fallback |
| `skills` | 2 threads, 2 versions, 2 documents, 1 of them shipped, 4 calls, 1 fault, 1 restart | audit trail true and complete |
| `dsl_unverified` | as `dsl` | violated, see section 5 |

Configurations checked by hand, with the same modules and not among the runs:

| Configuration | Checks |
|---|---|
| `executor_one` | 1 task, 4 calls, 2 rounds: `TypeOK`, `TimelineAgrees`, `OnePlace`, `ActedIsBound`, `RowLiveAtWork`, `NoStepWhilePaused` and the properties of `executor_two` that need one task |
| `executor_faults` | 2 tasks with a fault: `ReportEndsWork` besides `ResultIsBacked` and `TerminalImmutable` |
| `lost_pause`, `cancel_lost`, `report_contradicted`, `gateway_stale_list`, `agent_resume_stale`, `agent_unicode_goal`, `ime_left_switched`, `uninstall_known_failure`, `orphan_runtime`, `mcp_known_failure`, `stop_waits`, `skills_deleted` | violated, see section 5 |
| `model` with `ConfigIsWhole`, `approvals` with `LateOnlyIfUnknown` (under `PROPERTIES`), `unicode` with `RetypedOnlyIntoOriginal` (under `PROPERTIES`) instead of their own properties | violated, see section 5 |
| `sidecar_loops` | 2 saves without keys, 3 processes, 1 crash, fairness: `StartingSettles` holds with two restarts and three health loops |
| `sidecar` with 2 saves and without `SavesOrTheRest`, no intent and one launch | `SavedIsApplied` and `ReadyHasServed` hold with two saves, keys and a crash together |

Some definitions hold on the instance of their run and are left out of it because they
say less than what it checks; they are checked by adding them to its configuration:
every `TypeOK`, `Exclusive` and `SessionsDistinct` (`gateway`), `StepsNumbered` (`agent`),
`SubmittedWhole` and `CleanTypingIsExact` (`unicode`), `StoppedBeforeStepUntouched` and
`DeletesOnlyPreviewed` (`approvals`), `RowsKept` (`skills`), `Ends` (`dsl`), `AcceptedIsPersisted`
(`sidecar`), `AnsweredInOrder` and `HandshakeFirst` (`mcp`), `RepeatedOnlyToHelp` (`model`).
Of these, and of those of `executor_one` and `executor_faults`, the following are theorems
(section 4): `StepsNumbered`, `StoppedBeforeStepUntouched`, `DeletesOnlyPreviewed`, `RowsKept`,
`AcceptedIsPersisted`,
`RepeatedOnlyToHelp`, `NoStepWhilePaused`, `ReportEndsWork`, `ActedIsBound`, `RowLiveAtWork`,
`Exclusive`, `SessionsDistinct`, `SubmittedWhole`, `AnsweredInOrder`, `HandshakeFirst`, and `TypeOK` of every
module but `UnicodeInput`.

*Bounds.* Executor: three calls are a submit and two more, enough for pause and resume, or
a resume and a cancel, of one task to overlap each other and the worker (four by hand).
Two threads, because a locked section admits one and the unlocked tail of another call
is what it meets. Two tasks where the worker's next task, the queue's order or a key
matter. Two rounds, so that there is a boundary between steps. One crash: recovery leaves
no volatile state, so a second crash starts from the same states, with terminal rows that
nothing touches. One fault, at any store access. Gateway: three link changes give offline,
absent and reconnected devices, and with two lists in flight a list can be applied after a
newer one. Agent: two rounds give a round that follows another, with a shortcut before
them three steps; two attempts give a retry and its end; three pages are the goal, the
settings and one without nodes; one tool needs an element on the page and one does not.
One pause, because a second one at another place starts from states like the first; one
lost event is enough to reach the `except` branch with a step recorded and not told.
Unicode: texts of up to three characters meet every state of encoder and decoder - direct,
shift, a block of one and of two, a block that ends the text and one that does not; two
faults are a lost key and a failed command, a command that ends before its keys and another
fault, or two failed commands (the switch and its restore). Approvals: one approval meets two clients with equal and different keys; two
tasks, because a late effect of the first meets the second; two files, so that a deletion
can fail after another. A change and a restart are not combined, and two stops meet
neither (`OneStopOrNoEvent` of `MCApprovals`; without it the run holds too, by hand). DSL: the documents of
`MCDslSkill` are the official stability test in small, branches over a step and over a loop,
and one document per refusal; the clock passes the deadline and a loop's duration by one;
two faults make a step and the step after it fail. Sidecar: two launches leave an orphan of
the first, three processes one to spare for a restart; two saves restart twice, so that
three health loops, two restarts and two writes of the file can be at work at once. The
constraint `SavesOrTheRest` of `MCSidecar` keeps the two halves of the run apart: two saves and
their keys in one launch, which quits or lets a health loop time out but not both (all of
it together holds too, by hand), or a crash, a second launch and repeated submissions with
one save. MCP: five lines are the handshake and
three calls, one more than the window admits; a pipe of one overlaps a line with the
one in service. Model: two saves, by two threads, are an older and a newer text, also at once, two starts a planner that
is older than the file. Skills: four calls are, for example, two registrations of one
version, a deletion and a submission; one version is shipped and one is the user's; the
restart loads again.
`CHECK_DEADLOCK FALSE` everywhere: a system without requests is allowed to be idle,
and the bounds end the calls.

*Fairness* (`executor_live`). Weak fairness of each API thread inside a call, of the
worker (threads that are scheduled and locks that are released) and of the passing of the
deadline (a monotonic clock). No fairness of recovery: a health loop ends at its first 200
(`sidecar.rs:202-208`) and nothing restarts a Runtime that died, until a user saves the
settings or launches the application again. `StartedEnds` and `CancelEnds` therefore assume
`[]<>up`, that a Runtime is up again after each crash; a behaviour in which it stays down is
not spoken of. No fairness of any request: nobody has to resume a paused task, yet it
ends, because the deadline wakes it. `StartedEnds` and `CancelEnds` except a run that met a
storage fault: in the worker's first locked section a fault kills the thread with the task
in its hands, and nothing restarts it.

*Fairness* (`agent`). The loop runs, a call of the planner returns (its HTTP client has a
timeout) and a pause ends (at the deadline at the latest). No fairness of
cancellations, pauses or the deadline itself: the run ends by its budgets alone.

*Fairness* (`sidecar_loops`, by hand). A health loop takes its steps and its deadline passes (a thread and a
clock), a restart once begun and a shutdown once begun go on (no call in them waits for
anything but the operating system). A Runtime need not get its lock or serve, and nobody
has to save, submit or quit. `dsl` uses fairness of the work only for `Ends`, by hand.

Every property of a run has a mutant in `PROJECT.json`: a changed definition, defined
beside the one it replaces and marked `mutant`, under which TLC finds the property
violated.

## 4. Proofs

A theorem holds for every value of the constants. What it assumes of them are the named
assumptions of its module, which are of four kinds: `None`, or `"none"`, is not also a
task, a caller, a key or a document; bounds and limits are natural numbers (the round and
attempt budgets of `AgentLoop` at least one); sets that the code's types make finite are
(`Devices`, `Pages`); and the inputs have the type their parser gives them
(`DocumentAssumption` of `DslSkill` is the dataclasses of `skill_dsl.py` and no more - what
makes a document acceptable is `WellFormed`, an action's guard; `DataAssumption` of
`SkillRegistry` says that a version is shipped once). No theorem bounds the number of saves
or of threads. Some speak of a part of the behaviours, because the code has no more to offer:
`~Faulty` (no storage fault so far), `~delayed` (no key came late), `~overlapped` (no two saves at
once) and `~crossed` (no restart under a health check) below; section 5 says what happens
otherwise.

Each invariant that was found to be missing was first checked by TLC on the instance of
the module's run. Each theorem that a run checks is named with the property in `PROJECT.json`.

`TaskExecutorProofs`
- `TypeCorrect`: `TypeOK` is inductive. It carries more than types: what the worker
  and the threads hold is there when it is used, and rounds stay in the budget.
- `TerminalRowsImmutable`: every write of `exec` goes through `Save` or recovery, which
  skips terminal rows, or creates an absent row.
- `KeysIdentifyTasks`: keys are looked up in the same locked step that stores them.
- `ResultsAreBacked`: not inductive alone, because a row with a result is first a copy
  in a thread's hands. `ResultInv` adds that the copies held by `CancelSave` and by the
  worker's last save, and every copy a thread read, are backed by a report, and
  that reports are never withdrawn.
- `WorkInv` carries the rest. `Owners` says who is inside the lock and where, `Single` that a work item is in
  one place (queue, parked, worker), `Registered` and `Unstarted` what a task in each place may
  be, `Rows` how row, report and rounds fit for every place, `Fresh` that the copy a
  call read inside the lock is still the row, unless the row became terminal meanwhile (the
  two unlocked saves), `Cancelled` that the unlocked tail of a cancel has the report it repeats, `AtWork` what the worker's place says of its task, and `Healthy` what holds of all of
  it while no store access has failed. It gives
  - `ReportsAgree`, `ParkedArePaused`: under `~Faulty` (no store access has failed so far), as
    `report_contradicted` in section 5 shows what happens otherwise;
  - `KnownFailuresAreKnown`, `ReportsEndWork`, `PausedTasksRest`: whatever fails;
  - `LifecycleImplemented`: behaviours without a storage fault implement `TaskLifecycle`. The step
    simulation `StepMoves` says for each action which move of the lifecycle it is, or that
    it is none.
- `RowsLiveAtWork`, from the same `WorkInv`: no unlocked save of a caller ends a row under the
  runner's feet.
- `NoTaskLost` under `~Faulty`, as an event append that fails in `submit` leaves a queued row
  outside the queue (section 5). `HeldInv` adds what the worker relies on when it drops a task:
  `CancelsReported`, that the cancel event of a task that never started comes with its report. The
  rest is that each step which takes a waiting task out of one place puts it in the next,
  or ends it.
- `ActedStaysBound`: `BoundInv` adds the worker's place (what acts was bound) and its copy of the row
  (read after the last round); of a task that started, nothing but the worker's last save
  replaces what was bound.
- `LateStepsBounded` is about `TaskPromises`: `LateInv` says that a task that has made its late
  step has a boundary before its next one, `Down` that nothing is left of a process that died.

`DeviceProofs`, of `DeviceGateway`:
- `TypeCorrect`, `LeasesMatchHolders` (inductive as it stands), and from it
  `DeviceExclusive`: two executions inside would both be the table's holder.
- `SessionsRevokedForEver`: a new session number is above every number handed out, and
  no session in the table is above `minted`.
- `LateWritesBounded`: after a revocation the next check fails. `SessionInv` bounds every
  session by `minted`; `LateInv` says that an execution that has made its late write is
  revoked and past its last check.
- `SessionsNameDevices`: from the same `SessionInv`, as a list mints ids above all others.

`DeviceProofs`, of `UnicodeInput`: `InputInv` is one induction for all of it. It does not say what the
wire and the field hold, but when they can change.
- `SuccessLeavesExactText`, `OnlyWholeTextSubmitted`: `SuccessSettled` says that what the read-back
  saw is still there when success is declared, from the read-back to the end of the call,
  unless a key was handled after its command had ended (`delayed`); `EnterAfterSuccess` that
  Enter follows that read-back, once.
- `InputMethodRestored`: inductive with `Counted`; every way out of an injection passes the `finally`.

`AgentLoopProofs`
- `TypeInv` is `TypeOK` with what it needs to be inductive: `Budgeted` (counters within the
  budgets wherever they can still be raised), `Unfinished` (no verdict while the run goes on),
  `Dispatched` (the decision at a place is one that leads there) and `Phased` (the shortcut
  comes before the first round).
- `SuccessWasSeen`: `Watched` follows what was seen since the last input through the round,
  the shortcut and the two acceptances up to the verdict.
- `NoUselessRepetition`: `Remembered` says that the feedback of the last round, with its before and
  after, is still what the guard compares with, until the round has its own.
- `ReportIsComplete`: `Accounted` says of every round that sent an input that its step is in the
  report or, where the round is about to record it, that it is the current round.
- `LateInputsOfOneRound`: `LateKnown` says that what was sent since the stop is of the current round: a
  stopped run begins no other.
- `StepsAreNumbered`: `Numbered` (the report's indexes are its positions) and `Named` (an id is
  minted once and told once).

`ApprovalsProofs`: `Inv` is one induction for all of it.
- `ApprovalsUsedOnce`: `Claimed` says that a claim in a client's hands has the key of its approval,
  `Bound` the same of a task and the approval that admitted it, `KeysDistinct` says that no two tasks have one
  key, `SentOnce` that nothing was sent before the worker comes to the command.
- `StoppedTasksUntouched`, `LateEffectsTold`: `LateUncertain` says that a command which can still
  take effect was sent by a task that was reported with an unknown outcome or with the failure
  of its command.
- `EffectsInScope`: `InScopeUnmoved` carries the comparison of `Check` over to the command.
- `SuccessesTookEffect`: as long as nothing took effect and nobody changed the application, it is as
  every preview found it (`AsFound`), and no verification passes that contradicts the preview;
  `OneKind` gives a task the preview of its own kind. Of a replacement and of a stop the
  verification tells nothing, and the property says nothing.
- `ReportsOfDeletionAreTrue`, `OnlyPreviewedDeleted`: `Cleaning` says that what a cleanup
  has left to do is of its approval and what it lists is gone; `Watched` carries the look at
  a file over to its removal, as long as nobody touched it.

`DslSkillProofs`
- `SuccessMeansWhole` and `BudgetsKept` are about a number: how many records a step of the
  document has left. `Placed` says where in the document the interpreter is, and `Counted`
  gives the number for every step as a function of that place: one for what is behind,
  zero for what is ahead, the rounds begun for a loop, one or zero for the branches. It needs
  that places have distinct ids (lemma `Apart`, from the parser's check of duplicates) and
  what appending a record does to a count (`CountAppend`). `InBudget` keeps the bound where the loop is behind.
- `LateStepsBounded`: `LateKnown` says that a stopped task whose late step began is not at a
  step that may begin.
- `DeviceActsAsConfirmed`: `Admitted` says that what is past the gates, and whatever left a record, went
  through them; a step's own risk is at most the document's.
- `TypeCorrect`.

`CallerProofs`, of `Sidecar`:
- `OnlyDeadInterrupted`: `OneHolder` (two processes never hold the lock) and `OwnerServed`: a
  persisted execution is of a process that serves, and so holds the lock, or is dead.
- `AcceptedPersisted`, `OneExecutionPerIntent`: `AnswersPersisted` says it of an answer that is
  still on its way, `MadeOnce` that an intent was executed once exactly if it has a row.
- `OneSaveApplied`, for any number of saves, restarts and crashes: `FileRead` says that a process
  that serves has read the stored file, or is the one the save that wrote it posted to;
  `Replaced` that a restart has taken that one out of `inner`. `Spawns`, `Unstored` and `DownIsQuiet`
  say that nobody posted to a process that is spawned and not yet stored, so that it is not
  replaced by itself. `KeyGiven` follows the key from the store to the spawn and to `inner` while
  no two saves overlapped.
- `ReadyPhasesServed`, for any number of saves and health loops: `LoopAsks` says that a loop that has
  unlocked polls the process in `inner`, unless `inner` was replaced meanwhile (`crossed`), and that
  a process it found healthy served; `DownIsSilent` that no loop outlives the application.
- `TypeCorrect`.

`CallerProofs`, of `McpAdapter`: `McpInv` is one induction for all of it, over lines, requests and answers.
- `RetriesMakeNoSecondTask`: a task is added only where none has its request, and recovery closes tasks
  without removing one.
- `RateLimitExact`: `Windowed` says that the limiter's list is the tail of all admissions, and all
  before it are out of the window: what the limiter forgot cannot count.
- `AnswersKeepOrder`: `InService` and `AllAnswered` say that whatever was read is answered, in the order
  of reading, but for the one call in service.
- `HandshakeComesFirst`: `HandshakeRead` keeps the lines that set `initialized` and `ready`, in order.
- `McpTypeCorrect`.

`ModelProviderProofs`
- `NeverFallsBack`: `NoFallback` adds that the planner fits the settings of the start and that a
  conversation that went well ends with a valid answer.
- `SavesAreAtomic`, for any number of threads that save and any crash: until two saves overlap,
  one saver is at work (`OneAtWork`), its inode is the temporary name's (`SaverOwnsTmp`) and never
  the one in place (`ConfigApart`). After an overlap the settings can be torn (section 5).
- `AskedAgainOnlyToHelp`: `AskedFor` says of an open request that it is the first, the repeat or the
  repair of what the log ends with.
- `TypeCorrect`.

`SkillRegistryProofs`
- `TypeCorrect`: besides types, a call that will write or enqueue carries a version and a
  document, and a load between its insert and its event still has its file.
- `VersionsImmutable`: an insert meets no row, a toggle changes the flag alone, a deletion
  leaves no row; no other statement writes the table.
- `AuditTrustworthy`: `RegistrationsAudited` is not inductive. `AuditInv` adds that every
  stored row, and whatever a call is about to tell or to run, was inserted; that
  the first file of a load is unique keeps a load from forgetting one.

Left to TLC:
- liveness and `ENABLED`: what ends in `executor_live`, `agent` and `sidecar_loops`;
- what folds and counting over sequences compute (`OnePlace`, `TimelineAgrees`): induction over
  data. `SuccessIsWhole` and `BudgetKept` count with the cardinality of a set of positions
  instead, which the library's theorems on finite sets reach;
- `UnicodeInput`: that typing a text gives the text (`CleanTypingIsExact`), and `InputTypeOK`, which says of
  the decoder's buffer what only the encoder's blocks ensure, are inductions over the
  characters of a text. The theorems above need neither.

## 5. Where the code and its documents disagree

A run shows it:

- `dsl_unverified`: `run_action_step` drops the `ActionResult` of `tools.execute`
  (`skills/dsl_interpreter.py:314`). A launch whose verification fails comes back with
  status FAILED and no exception (`tools/runtime.py:321-326`), and the step and the task
  succeed, although `docs/architecture/reliability-model.md:22` defines `succeeded` as
  verified.

By hand, each with the configuration of its name:

- `lost_pause`: `resume` clears the pause event and leaves the row `paused` until the
  worker wakes (up to 0.2 s later). A `pause` in that window returns the row (438-439)
  and sets nothing: the caller is told `paused` and the agent goes on acting on the device.
- `cancel_lost`: the worker reads the row without the lock (619) and saves its copy
  (634): a cancel that was accepted in between loses `cancel_requested`.
- `report_contradicted`: a storage fault after the report is written ends in the
  `except` branch (635), which fails the row with `INTERNAL_ERROR` and no result.
- `gateway_stale_list`: a list read before a device connected and applied after it
  (`devices/session.py:70`) marks the device absent; the next list mints a session, and a
  task on a device that never disconnected fails with `DEVICE_SESSION_CHANGED`.

- `agent_resume_stale`: a pause at a probe between observation and action (238, 546, 251)
  is followed by the action, or the finish, that was planned on the page from before
  the pause, although the documents promise a new observation after resume.
- `agent_unicode_goal`: with an acceptance every skill must leave the device on the
  accepted page (737-745), so typing a text as a step towards the goal fails the run.

- `ime_left_switched`: a failed switch to the helper that took effect, followed by an error
  before the injection, leaves the helper as the input method and reports another error
  (`NeverLeftInSilence`).
- `uninstall_known_failure`: a verification that could not determine whether the
  command took effect is reported as a known failure (`UndeterminedIsUnknown`).
- `orphan_runtime`: quitting while `restart` is between `spawn` and `store`
  (`sidecar.rs:322`) leaves a Runtime that nobody stops, although
  `docs/iterations/0049-desktop-workbench-foundation/acceptance.md:14` promises none.
- `mcp_known_failure`: a connection that breaks after the handler acted is answered
  `RUNTIME_UNAVAILABLE`, a known failure (`KnownFailureDidNothing`).
- `model` with `ConfigIsWhole`: two saves at once share one temporary name; the loser's
  `os.replace`, or its write into the inode the winner has put in place, can leave the settings
  torn, although the comment at `providers/config.py:151` says that a temporary file and
  `os.replace` keep a failed write from breaking the old configuration.
- `approvals` with `LateOnlyIfUnknown`: `_map_unknown` (`tools/app_lifecycle.py:138`) turns only
  `ACTION_TIMEOUT` into an unknown outcome. A command that failed in another way, a
  connection lost after sending included, is reported as a known failure
  (`adapter.py:689,714,783,802`) and may have acted, although
  `docs/architecture/reliability-model.md:26` gives an action that may have taken place an
  unknown outcome.
- `unicode` with `RetypedOnlyIntoOriginal`: the comment of the second injection
  (`tools/unicode_input.py:197`) takes a field that reads as before for an injection that was
  lost as a whole. With keys that are slow to arrive the second injection meets the first, and
  the field can hold the text twice; a read-back that comes in time reports it, one that comes
  before the last key does not (the `~delayed` of `SuccessIsExact`).
- `stop_waits`: a stop during a model call ends the runner at once, as
  `agent/runner.py:529` says it must, but `asyncio.run` (604) joins the planner's thread before
  the worker records the end: request, retry and repair are waited for.
- `skills_deleted`: `delete` removes a version "permanently" (`skills/registry.py:166`), but a
  shipped document that was deleted is registered and enabled again by the first call
  after the next start (`DeletedStaysDeleted`).

Seen in the models and not kept as runs: a queued task paused between the worker's
two locked sections starts and is paused again at its first boundary; an event
append that fails in `submit` leaves a queued row outside the queue until a
restart; a reconnection between two device lists is not noticed; a round whose
boundary was passed acts once more after a cancel (bounded by `AtMostOneLateStep`); a round whose event cannot be stored is followed by a
failed step with the same id in the report, which is why `StepsNumbered` speaks of the
ids of told steps; a run stopped while the acceptance of a skill is observed has no
step for what the skill did (`InputsReported` allows just that); a cancelled run is
delivered only when the abandoned planner has answered; two saves of the desktop at once can leave a Runtime with the older key Ready
(`SavedIsApplied` without `~overlapped`); a health loop that was asked of one process can call
the next one Ready before it serves, when a restart replaces `inner` in between
(`ReadyHasServed` without `~crossed`); a key that was cleared, or whose lookup failed, differs
from the one the Runtime runs with until the next restart; a cleanup that meets a link, or
that a crash interrupts, does not report the files it had deleted before
(`_candidate_path`, `tools/local_data.py:221-231`, passes an empty list); two
toggles of one version at once can leave an audit trail whose last event contradicts the
row; a fault while the official documents load leaves the rest of them out until the next
start, as the registry is already published.

## 6. Plan

Next modules: the partial results of the diagnostic bundle, readiness, and the pure
algorithms (locator, swipe geometry, scroll termination).

Not modelled, on purpose: parsing and formatting (UI trees, adb output, JSON), prompts,
redaction, pages and command lines, evaluation over stored reports, generated contracts:
none has state that two actors share or a step order to get wrong. Loss of power is not
modelled, only the end of a process. `PROJECT.json` lists every component with its
reason.
