--------------------------- MODULE ApprovalsProofs ---------------------------
(* Theorems about Approvals, for any set of operations, keys, clients and     *)
(* artifacts, any number of previews, tasks, changes and restarts.            *)
EXTENDS Approvals, FiniteSetTheorems, WellFoundedInduction, TLAPS

-----------------------------------------------------------------------------
(* The inductive invariant.                                                 *)

Places == {"idle", "preflight", "check", "send", "sent", "verify", "clean",
           "unlink"}
Approved == [kind : Kinds, scope : Scopes, key : Keys \cup {"none"},
             state : {"held", "gone"}]
Rows == [key : Keys, kind : Kinds, approval : 0..MaxApprovals,
         status : Statuses, stop : {"none", "cancelled", "timed_out"},
         steps : 0..1, outcome : {"none", "known", "refused", "unknown"},
         deleted : SUBSET Files]
Runs == [task : Nat, pc : Places, rest : SUBSET Files,
         deleted : SUBSET Files, moved : BOOLEAN]

OutcomeOK(row) ==
  (row.outcome = "none") <=> row.status \in {"queued", "running", "succeeded"}

\* The worker runs one task, and it is the only one that is running.
OneRun ==
  /\ run.pc = "idle" => run.task = 0
  /\ run.pc # "idle" =>
       run.task \in DOMAIN tasks /\ tasks[run.task].status = "running"
  /\ \A t \in DOMAIN tasks :
       tasks[t].status = "running" => run.pc # "idle" /\ run.task = t

\* The types, and the lengths and the worker they need to be inductive.
Typed ==
  /\ approvals \in Seq(Approved)
  /\ Len(approvals) <= MaxApprovals
  /\ clients \in [Clients -> Claims \cup {Idle}]
  /\ tasks \in Seq(Rows)
  /\ \A t \in DOMAIN tasks : OutcomeOK(tasks[t])
  /\ run \in Runs
  /\ app \in AppStates /\ apk \in Versions
  /\ files \in [Files -> {"old", "changed", "link", "deleted"}]
  /\ late \subseteq DOMAIN tasks /\ effects \subseteq DOMAIN tasks
  /\ sent \in Seq(Nat) /\ Len(sent) = Len(tasks)
  /\ bounds \in [changes : Nat, crashes : Nat]
  /\ OneRun

\* An approval is held by one key: the one of its claims and of its tasks.
Claimed ==
  \A c \in Clients : clients[c] # Idle =>
    /\ clients[c].approval \in 0..Len(approvals)
    /\ clients[c].approval # 0 =>
         approvals[clients[c].approval].key = clients[c].key

Bound ==
  \A t \in DOMAIN tasks :
    /\ tasks[t].approval \in 0..Len(approvals)
    /\ tasks[t].approval # 0 => approvals[tasks[t].approval].key = tasks[t].key

KeysDistinct ==
  \A t, u \in DOMAIN tasks : tasks[t].key = tasks[u].key => t = u

\* Nothing was sent for a task that has not come to its command.
Untouched(t) ==
  /\ sent[t] = 0 /\ t \notin effects
  /\ tasks[t].steps = 0 /\ tasks[t].deleted = {}

SentOnce ==
  /\ \A t \in DOMAIN tasks : sent[t] <= 1
  /\ \A t \in DOMAIN tasks : tasks[t].status = "queued" => Untouched(t)
  /\ run.pc \in {"preflight", "check", "send", "clean", "unlink"} =>
       Untouched(run.task)
  /\ run.pc = "sent" => sent[run.task] > 0

\* A command that may still take effect belongs to a task whose outcome is
\* unknown, or that reported the failure of its command.
Uncertain == {"unknown", "refused"}
LateUncertain == \A t \in late : sent[t] > 0 /\ tasks[t].outcome \in Uncertain

\* While nothing moved since the task's own inspection, the target is still
\* the confirmed one.
InScopeUnmoved == run.pc \in {"send", "sent"} /\ ~run.moved => ConfirmedTarget

\* What is about to be deleted is as it was looked at, unless it changed since.
Watched == run.pc = "unlink" /\ ~run.moved => files[Next1] = "old"

\* A cleanup only has candidates of its approval, and what it lists is gone.
InCleanup == {"clean", "unlink"}
Cleaning ==
  /\ run.pc \in InCleanup => run.rest \subseteq Scope.files
  /\ Watched
  /\ \A f \in run.deleted : files[f] = "deleted"

Inv ==
  /\ Typed /\ Claimed /\ Bound /\ KeysDistinct /\ SentOnce /\ LateUncertain
  /\ InScopeUnmoved /\ Cleaning /\ TombstonesAreTrue /\ StoppedBeforeStepUntouched
-----------------------------------------------------------------------------
(* Types.                                                                   *)

LEMMA NoScopeTyped == NoScope \in Scopes
BY DEF NoScope, Scopes

LEMMA NoRunTyped == NoRun \in Runs /\ NoRun.pc = "idle" /\ NoRun.task = 0
BY DEF NoRun, Runs, Places

LEMMA TypedGivesTypes == Typed => TypeOK
<1> SUFFICES ASSUME Typed PROVE TypeOK
  OBVIOUS
<1>1. run.task \in 0..Len(tasks)
  <2>1. CASE run.pc = "idle"
    BY <2>1, NoRunTyped DEF Typed, OneRun
  <2>2. CASE run.pc # "idle"
    BY <2>2 DEF Typed, OneRun
  <2> QED
    BY <2>1, <2>2
<1> QED
  BY <1>1 DEF Typed, TypeOK, Approved, Rows, Runs, Places, OutcomeOK

(* One row of the tasks is replaced.                                        *)
LEMMA OneRow ==
  ASSUME Typed, NEW t \in DOMAIN tasks, NEW row \in Rows,
         tasks' = [tasks EXCEPT ![t] = row]
  PROVE  /\ tasks' \in Seq(Rows) /\ Len(tasks') = Len(tasks)
         /\ DOMAIN tasks' = DOMAIN tasks
         /\ tasks'[t] = row
         /\ \A u \in DOMAIN tasks : u # t => tasks'[u] = tasks[u]
BY DEF Typed

(* What a report makes of the row of the task that runs.                    *)
Reported(status, steps, outcome, deleted) ==
  [tasks[run.task] EXCEPT !.status = status, !.stop = "none", !.steps = steps,
                          !.outcome = outcome, !.deleted = deleted]

LEMMA ReportedRow ==
  ASSUME Typed, run.pc # "idle",
         NEW status \in {"succeeded", "failed", "cancelled", "timed_out"},
         NEW steps \in 0..1, NEW outcome \in {"none", "known", "refused", "unknown"},
         NEW deleted \in SUBSET Files, outcome = "none" <=> status = "succeeded",
         Report(status, steps, outcome, deleted)
  PROVE  LET row == Reported(status, steps, outcome, deleted) IN
         /\ run.task \in DOMAIN tasks
         /\ row \in Rows /\ OutcomeOK(row)
         /\ row.status = status /\ row.steps = steps /\ row.outcome = outcome
         /\ row.deleted = deleted /\ row.key = tasks[run.task].key
         /\ row.kind = tasks[run.task].kind
         /\ row.approval = tasks[run.task].approval
         /\ tasks' = [tasks EXCEPT ![run.task] = row]
         /\ run' = NoRun
<1>1. run.task \in DOMAIN tasks /\ tasks[run.task] \in Rows
  BY DEF Typed, OneRun
<1>2. status \in Statuses
  BY DEF Statuses
<1> QED
  BY <1>1, <1>2 DEF Report, Reported, Rows, OutcomeOK

(* A step leaves the other tasks alone and never changes what a task asks     *)
(* for; a task that ended stays as it is reported.                          *)
Kept(old, new) ==
  /\ new.key = old.key /\ new.kind = old.kind /\ new.approval = old.approval
  /\ old.status \notin {"queued", "running"} => new = old

\* The steps of the worker that end the task.
LEMMA Ending ==
  ASSUME Typed, run.pc # "idle",
         NEW status \in {"succeeded", "failed", "cancelled", "timed_out"},
         NEW steps \in 0..1, NEW outcome \in {"none", "known", "refused", "unknown"},
         NEW deleted \in SUBSET Files, outcome = "none" <=> status = "succeeded",
         Report(status, steps, outcome, deleted)
  PROVE  /\ tasks' \in Seq(Rows) /\ Len(tasks') = Len(tasks)
         /\ \A t \in DOMAIN tasks' : OutcomeOK(tasks'[t])
         /\ OneRun' /\ run' \in Runs /\ run' = NoRun
         /\ \A t \in DOMAIN tasks :
              Kept(tasks[t], tasks'[t]) /\ (t # run.task => tasks'[t] = tasks[t])
         /\ tasks'[run.task].status = status /\ tasks'[run.task].steps = steps
         /\ tasks'[run.task].outcome = outcome
         /\ tasks'[run.task].deleted = deleted
<1> DEFINE row == Reported(status, steps, outcome, deleted)
<1>1. /\ run.task \in DOMAIN tasks
      /\ row \in Rows /\ OutcomeOK(row)
      /\ row.status = status /\ row.steps = steps /\ row.outcome = outcome
      /\ row.deleted = deleted /\ row.key = tasks[run.task].key
      /\ row.kind = tasks[run.task].kind
      /\ row.approval = tasks[run.task].approval
      /\ tasks' = [tasks EXCEPT ![run.task] = row]
      /\ run' = NoRun
  BY ReportedRow
<1> HIDE DEF row
<1>2. /\ tasks' \in Seq(Rows) /\ Len(tasks') = Len(tasks)
      /\ DOMAIN tasks' = DOMAIN tasks
      /\ tasks'[run.task] = row
      /\ \A u \in DOMAIN tasks : u # run.task => tasks'[u] = tasks[u]
  BY <1>1, OneRow
<1>3. \A t \in DOMAIN tasks' : OutcomeOK(tasks'[t])
  BY <1>1, <1>2 DEF Typed
<1>4. OneRun'
  BY <1>1, <1>2, NoRunTyped DEF Typed, OneRun
<1>5. tasks[run.task].status = "running"
  BY DEF Typed, OneRun
<1>6. \A t \in DOMAIN tasks :
        Kept(tasks[t], tasks'[t]) /\ (t # run.task => tasks'[t] = tasks[t])
  BY <1>1, <1>2, <1>5 DEF Kept
<1> QED
  BY <1>1, <1>2, <1>3, <1>4, <1>6, NoRunTyped

\* What every step keeps of the tasks and of the approvals.
TasksKept ==
  /\ Len(tasks) <= Len(tasks')
  /\ \A t \in DOMAIN tasks : Kept(tasks[t], tasks'[t])

ApprovalsKept ==
  /\ Len(approvals) <= Len(approvals')
  /\ \A a \in DOMAIN approvals :
       /\ approvals'[a].scope = approvals[a].scope
       /\ approvals[a].key # "none" => approvals'[a].key = approvals[a].key

\* The worker goes on with its task, which stays as it is.
Goes ==
  /\ run' \in Runs /\ run'.pc # "idle" /\ run.pc # "idle"
  /\ run'.task = run.task
  /\ UNCHANGED tasks

LEMMA GoesTyped == ASSUME Typed, Goes PROVE OneRun' /\ TasksKept
BY DEF Typed, OneRun, Goes, TasksKept, Kept

LEMMA LiveKept ==
  ASSUME Typed, NEW t \in DOMAIN tasks, NEW row \in Rows, Kept(tasks[t], row),
         tasks' = [tasks EXCEPT ![t] = row]
  PROVE  TasksKept
BY OneRow DEF TasksKept, Kept, Typed
-----------------------------------------------------------------------------
(* Every action keeps the types, the tasks and the approvals.               *)

Keeps == Typed' /\ TasksKept /\ ApprovalsKept

\* What the actions that leave some of the state alone have in common.
LEMMA SameTasks == ASSUME Typed, UNCHANGED tasks PROVE TasksKept
BY DEF Typed, TasksKept, Kept

LEMMA SameApprovals == ASSUME Typed, UNCHANGED approvals PROVE ApprovalsKept
BY DEF Typed, ApprovalsKept

LEMMA SameRun == ASSUME Typed, UNCHANGED <<run, tasks>> PROVE OneRun'
BY DEF Typed, OneRun

LEMMA ScopeOfPreview ==
  ASSUME Typed, NEW kind \in Kinds, NEW scope \in Previews(kind)
  PROVE  scope \in Scopes
<1>1. CASE kind = "app.install"
  <2> DEFINE seen == [NoScope EXCEPT !.version = apk, !.replace = app.version # "absent"]
  <2>0. Previews(kind) = {seen}
    BY <1>1 DEF Previews, Cleanup
  <2>1. scope = seen
    BY <2>0
  <2>2. apk \in Versions /\ (app.version # "absent") \in BOOLEAN
    BY DEF Typed
  <2> QED
    BY <2>1, <2>2 DEF Scopes, NoScope
<1>2. CASE kind \in {"app.uninstall", "app.data.clear"}
  <2>1. scope \in (IF app.version \in Versions
                   THEN {[NoScope EXCEPT !.version = app.version]} ELSE {})
    BY <1>2 DEF Previews, Cleanup
  <2>2. app.version \in Versions /\ scope = [NoScope EXCEPT !.version = app.version]
    BY <2>1
  <2> QED
    BY <2>2 DEF Scopes, NoScope
<1>3. CASE kind = Cleanup
  <2>1. PICK n \in Limits :
          scope = [NoScope EXCEPT !.files = Oldest(n, {f \in Files : files[f] = "old"})]
    BY <1>3 DEF Previews, Cleanup
  <2>2. Oldest(n, {f \in Files : files[f] = "old"}) \in SUBSET Files
    BY DEF Oldest
  <2> QED
    BY <2>1, <2>2 DEF Scopes, NoScope
<1>4. CASE kind \notin {"app.install", "app.uninstall", "app.data.clear", Cleanup}
  BY <1>4 DEF Previews
<1> QED
  BY <1>1, <1>2, <1>3, <1>4

LEMMA TypedPrepare ==
  ASSUME Typed, NEW kind \in Kinds, Prepare(kind) PROVE Keeps
<1>1. PICK scope \in Previews(kind) :
        approvals' = Append(approvals,
          [kind |-> kind, scope |-> scope, key |-> "none", state |-> "held"])
  BY DEF Prepare
<1> DEFINE new == [kind |-> kind, scope |-> scope, key |-> "none", state |-> "held"]
<1>2. new \in Approved
  BY ScopeOfPreview DEF Approved
<1>3. approvals' = Append(approvals, new) /\ Len(approvals) < MaxApprovals
  BY <1>1 DEF Prepare
<1> HIDE DEF new
<1>4. approvals \in Seq(Approved)
  BY DEF Typed
<1>5. /\ approvals' \in Seq(Approved) /\ Len(approvals') = Len(approvals) + 1
      /\ \A a \in DOMAIN approvals : approvals'[a] = approvals[a]
  BY <1>2, <1>3, <1>4
<1>6. Len(approvals') <= MaxApprovals
  BY <1>3, <1>4, <1>5, DataAssumption
<1>7. ApprovalsKept
  BY <1>4, <1>5 DEF ApprovalsKept
<1>8. UNCHANGED <<clients, tasks, run, app, apk, files, late, sent, effects, bounds>>
  BY DEF Prepare, device
<1> QED
  BY <1>5, <1>6, <1>7, <1>8, SameTasks, SameRun DEF Keeps, Typed

\* The record of one approval changes, its scope does not.
LEMMA OneApproval ==
  ASSUME Typed, NEW a \in DOMAIN approvals, NEW new \in Approved,
         approvals' = [approvals EXCEPT ![a] = new],
         new.scope = approvals[a].scope,
         approvals[a].key # "none" => new.key = approvals[a].key
  PROVE  /\ approvals' \in Seq(Approved) /\ Len(approvals') = Len(approvals)
         /\ ApprovalsKept
BY DEF Typed, ApprovalsKept

LEMMA TypedExpire ==
  ASSUME Typed, NEW a \in DOMAIN approvals, Expire(a) PROVE Keeps
<1> DEFINE new == [approvals[a] EXCEPT !.state = "gone"]
<1>0. approvals[a] \in Approved
  BY DEF Typed
<1>1. new \in Approved /\ new.scope = approvals[a].scope /\ new.key = approvals[a].key
  BY <1>0 DEF Approved
<1>2. approvals' = [approvals EXCEPT ![a] = new]
  BY DEF Expire
<1> HIDE DEF new
<1>3. /\ approvals' \in Seq(Approved) /\ Len(approvals') = Len(approvals)
      /\ ApprovalsKept
  BY <1>1, <1>2, OneApproval
<1>4. UNCHANGED <<clients, tasks, run, app, apk, files, late, sent, effects, bounds>>
  BY DEF Expire, device
<1> QED
  BY <1>3, <1>4, SameTasks, SameRun DEF Keeps, Typed

LEMMA TypedClaim ==
  ASSUME Typed, NEW c \in Clients, NEW a \in DOMAIN approvals, NEW key \in Keys,
         Claim(c, a, key)
  PROVE  Keeps
<1> DEFINE new == [approvals[a] EXCEPT !.key = key]
<1>0. approvals[a] \in Approved
  BY DEF Typed
<1>1. /\ new \in Approved /\ new.scope = approvals[a].scope
      /\ approvals[a].key # "none" => new.key = approvals[a].key
  BY <1>0 DEF Approved, Claim, Claimable
<1>2. approvals' = [approvals EXCEPT ![a] = new]
  BY DEF Claim
<1> HIDE DEF new
<1>3. /\ approvals' \in Seq(Approved) /\ Len(approvals') = Len(approvals)
      /\ ApprovalsKept
  BY <1>1, <1>2, OneApproval
<1>4. [kind |-> approvals[a].kind, approval |-> a, key |-> key] \in Claims
  <2>1. a \in 0..MaxApprovals
    BY DataAssumption DEF Typed
  <2> QED
    BY <1>0, <2>1 DEF Approved, Claims
<1>5. clients' \in [Clients -> Claims \cup {Idle}]
  BY <1>4 DEF Claim, Typed
<1>6. UNCHANGED <<tasks, run, app, apk, files, late, sent, effects, bounds>>
  BY DEF Claim, device
<1> QED
  BY <1>3, <1>5, <1>6, SameTasks, SameRun DEF Keeps, Typed

LEMMA TypedRequestStop ==
  ASSUME Typed, NEW c \in Clients, NEW key \in Keys, RequestStop(c, key)
  PROVE  Keeps
<1>1. [kind |-> "app.stop", approval |-> 0, key |-> key] \in Claims
  BY DataAssumption DEF Claims, RequestStop
<1>2. clients' \in [Clients -> Claims \cup {Idle}]
  BY <1>1 DEF RequestStop, Typed
<1>3. UNCHANGED <<approvals, tasks, run, app, apk, files, late, sent, effects, bounds>>
  BY DEF RequestStop, device
<1> QED
  BY <1>2, <1>3, SameTasks, SameApprovals, SameRun DEF Keeps, Typed

\* A new task is queued.
Queued(c) ==
  [key |-> clients[c].key, kind |-> clients[c].kind,
   approval |-> clients[c].approval, status |-> "queued", stop |-> "none",
   steps |-> 0, outcome |-> "none", deleted |-> {}]

Created(c) ==
  /\ \A t \in DOMAIN tasks : tasks[t].key # clients[c].key
  /\ tasks' = Append(tasks, Queued(c))
  /\ sent' = Append(sent, 0)

LEMMA SubmitCases ==
  ASSUME NEW c \in Clients, Submit(c)
  PROVE  UNCHANGED <<tasks, sent>> \/ Created(c)
BY DEF Submit, Created, Queued

LEMMA QueuedRow ==
  ASSUME Typed, NEW c \in Clients, clients[c] # Idle
  PROVE  Queued(c) \in Rows /\ OutcomeOK(Queued(c)) /\ Queued(c).status = "queued"
<1>1. clients[c] \in Claims
  BY DEF Typed
<1> QED
  BY <1>1 DEF Claims, Rows, Statuses, OutcomeOK, Queued

LEMMA CreatedRow ==
  ASSUME Typed, NEW c \in Clients, clients[c] # Idle, Created(c)
  PROVE  /\ tasks' \in Seq(Rows) /\ Len(tasks') = Len(tasks) + 1
         /\ \A t \in DOMAIN tasks : tasks'[t] = tasks[t]
         /\ tasks'[Len(tasks) + 1] = Queued(c)
         /\ DOMAIN tasks' = DOMAIN tasks \cup {Len(tasks) + 1}
         /\ sent' \in Seq(Nat) /\ Len(sent') = Len(tasks')
         /\ \A t \in DOMAIN tasks : sent'[t] = sent[t]
         /\ sent'[Len(tasks) + 1] = 0
<1>1. Queued(c) \in Rows
  BY QueuedRow
<1>2. tasks \in Seq(Rows) /\ sent \in Seq(Nat) /\ Len(sent) = Len(tasks)
  BY DEF Typed
<1>3. tasks' = Append(tasks, Queued(c)) /\ sent' = Append(sent, 0)
  BY DEF Created
<1> QED
  BY <1>1, <1>2, <1>3

LEMMA TypedSubmit ==
  ASSUME Typed, NEW c \in Clients, Submit(c) PROVE Keeps
<1>1. clients[c] # Idle
  BY DEF Submit
<1>2. clients' \in [Clients -> Claims \cup {Idle}]
  BY DEF Submit, Typed
<1>3. UNCHANGED <<approvals, run, app, apk, files, late, effects, bounds>>
  BY DEF Submit
<1>4. CASE UNCHANGED <<tasks, sent>>
  BY <1>2, <1>3, <1>4, SameTasks, SameApprovals, SameRun DEF Keeps, Typed
<1>5. CASE Created(c)
  <2>1. /\ tasks' \in Seq(Rows) /\ Len(tasks') = Len(tasks) + 1
        /\ \A t \in DOMAIN tasks : tasks'[t] = tasks[t]
        /\ tasks'[Len(tasks) + 1] = Queued(c)
        /\ DOMAIN tasks' = DOMAIN tasks \cup {Len(tasks) + 1}
        /\ sent' \in Seq(Nat) /\ Len(sent') = Len(tasks')
    BY <1>1, <1>5, CreatedRow
  <2>2. Queued(c) \in Rows /\ OutcomeOK(Queued(c)) /\ Queued(c).status = "queued"
    BY <1>1, QueuedRow
  <2>3. \A t \in DOMAIN tasks' : OutcomeOK(tasks'[t])
    BY <2>1, <2>2 DEF Typed
  <2>4. OneRun'
    BY <1>3, <2>1, <2>2 DEF Typed, OneRun
  <2>5. TasksKept
    BY <2>1 DEF TasksKept, Kept, Typed
  <2>6. late' \subseteq DOMAIN tasks' /\ effects' \subseteq DOMAIN tasks'
    BY <1>3, <2>1 DEF Typed
  <2> QED
    BY <1>2, <1>3, <2>1, <2>3, <2>4, <2>5, <2>6, SameApprovals DEF Keeps, Typed
<1> QED
  BY <1>4, <1>5, SubmitCases

LEMMA TypedCancel ==
  ASSUME Typed, NEW t \in DOMAIN tasks, Cancel(t) PROVE Keeps
<1> DEFINE row == IF tasks[t].status = "queued"
                  THEN [tasks[t] EXCEPT !.status = "cancelled", !.outcome = "known"]
                  ELSE [tasks[t] EXCEPT !.stop = "cancelled"]
<1>1. tasks[t] \in Rows /\ OutcomeOK(tasks[t])
  BY DEF Typed
<1>2. /\ row \in Rows /\ OutcomeOK(row) /\ Kept(tasks[t], row)
      /\ row.status = "running" <=> tasks[t].status = "running"
  BY <1>1 DEF Cancel, Live, Rows, Statuses, OutcomeOK, Kept
<1>3. tasks' = [tasks EXCEPT ![t] = row]
  BY DEF Cancel
<1> HIDE DEF row
<1>4. UNCHANGED <<approvals, clients, run, app, apk, files, late, sent, effects, bounds>>
  BY DEF Cancel, device
<1>5. /\ tasks' \in Seq(Rows) /\ Len(tasks') = Len(tasks)
      /\ DOMAIN tasks' = DOMAIN tasks
      /\ tasks'[t] = row
      /\ \A u \in DOMAIN tasks : u # t => tasks'[u] = tasks[u]
  BY <1>2, <1>3, OneRow
<1>6. OneRun'
  BY <1>2, <1>4, <1>5 DEF Typed, OneRun
<1>7. \A u \in DOMAIN tasks' : OutcomeOK(tasks'[u])
  BY <1>2, <1>5 DEF Typed
<1> QED
  BY <1>2, <1>3, <1>4, <1>5, <1>6, <1>7, LiveKept, SameApprovals DEF Keeps, Typed

LEMMA TypedDeadline ==
  ASSUME Typed, NEW t \in DOMAIN tasks, Deadline(t) PROVE Keeps
<1> DEFINE row == [tasks[t] EXCEPT !.stop = "timed_out"]
<1>1. tasks[t] \in Rows /\ OutcomeOK(tasks[t])
  BY DEF Typed
<1>2. /\ row \in Rows /\ OutcomeOK(row) /\ Kept(tasks[t], row)
      /\ row.status = "running" <=> tasks[t].status = "running"
  BY <1>1 DEF Deadline, Rows, Statuses, OutcomeOK, Kept
<1>3. tasks' = [tasks EXCEPT ![t] = row]
  BY DEF Deadline
<1> HIDE DEF row
<1>4. UNCHANGED <<approvals, clients, run, app, apk, files, late, sent, effects, bounds>>
  BY DEF Deadline, device
<1>5. /\ tasks' \in Seq(Rows) /\ Len(tasks') = Len(tasks)
      /\ DOMAIN tasks' = DOMAIN tasks
      /\ tasks'[t] = row
      /\ \A u \in DOMAIN tasks : u # t => tasks'[u] = tasks[u]
  BY <1>2, <1>3, OneRow
<1>6. OneRun'
  BY <1>2, <1>4, <1>5 DEF Typed, OneRun
<1>7. \A u \in DOMAIN tasks' : OutcomeOK(tasks'[u])
  BY <1>2, <1>5 DEF Typed
<1> QED
  BY <1>2, <1>3, <1>4, <1>5, <1>6, <1>7, LiveKept, SameApprovals DEF Keeps, Typed

LEMMA TypedBegin ==
  ASSUME Typed, NEW t \in DOMAIN tasks, Begin(t) PROVE Keeps
<1> DEFINE row == [tasks[t] EXCEPT !.status = "running"]
<1>1. tasks[t] \in Rows /\ OutcomeOK(tasks[t])
  BY DEF Typed
<1>2. /\ row \in Rows /\ OutcomeOK(row) /\ Kept(tasks[t], row)
      /\ row.status = "running"
  BY <1>1 DEF Begin, Rows, Statuses, OutcomeOK, Kept
<1>3. tasks' = [tasks EXCEPT ![t] = row]
  BY DEF Begin
<1> HIDE DEF row
<1>4. UNCHANGED <<approvals, clients, app, apk, files, late, sent, effects, bounds>>
  BY DEF Begin, device
<1>5. /\ tasks' \in Seq(Rows) /\ Len(tasks') = Len(tasks)
      /\ DOMAIN tasks' = DOMAIN tasks
      /\ tasks'[t] = row
      /\ \A u \in DOMAIN tasks : u # t => tasks'[u] = tasks[u]
  BY <1>2, <1>3, OneRow
<1>6. run' \in Runs /\ run'.pc = "preflight" /\ run'.task = t
  <2>1. t \in Nat
    BY DEF Typed
  <2> QED
    BY <2>1 DEF Begin, NoRun, Runs, Places
<1>7. OneRun'
  BY <1>2, <1>5, <1>6, NoRunTyped DEF Typed, OneRun, Begin
<1>8. \A u \in DOMAIN tasks' : OutcomeOK(tasks'[u])
  BY <1>2, <1>5 DEF Typed
<1> QED
  BY <1>2, <1>3, <1>4, <1>5, <1>6, <1>7, <1>8, LiveKept, SameApprovals DEF Keeps, Typed

LEMMA RunningRow ==
  ASSUME Typed, run.pc # "idle"
  PROVE  /\ run.task \in DOMAIN tasks /\ T \in Rows /\ OutcomeOK(T)
         /\ T.status = "running" /\ run \in Runs
BY DEF Typed, OneRun, T

LEMMA ScopeTyped == ASSUME Typed, run.pc # "idle", Bound PROVE Scope \in Scopes
<1>1. run.task \in DOMAIN tasks
  BY DEF Typed, OneRun
<1>2. T.approval \in 0..Len(approvals)
  BY <1>1 DEF Bound, T
<1>3. CASE T.approval = 0
  BY <1>3, NoScopeTyped DEF Scope
<1>4. CASE T.approval # 0
  <2>1. approvals[T.approval] \in Approved
    BY <1>2, <1>4 DEF Typed
  <2> QED
    BY <2>1, <1>4 DEF Scope, Approved
<1> QED
  BY <1>3, <1>4

\* The report of a task, whatever the world does meanwhile.
LEMMA EndingKeeps ==
  ASSUME Typed, run.pc # "idle",
         NEW status \in {"succeeded", "failed", "cancelled", "timed_out"},
         NEW steps \in 0..1, NEW outcome \in {"none", "known", "refused", "unknown"},
         NEW deleted \in SUBSET Files, outcome = "none" <=> status = "succeeded",
         Report(status, steps, outcome, deleted),
         late' \subseteq DOMAIN tasks,
         UNCHANGED <<approvals, clients, app, apk, files, sent, effects, bounds>>
  PROVE  Keeps
<1>1. /\ tasks' \in Seq(Rows) /\ Len(tasks') = Len(tasks)
      /\ \A t \in DOMAIN tasks' : OutcomeOK(tasks'[t])
      /\ OneRun' /\ run' \in Runs
      /\ \A t \in DOMAIN tasks : Kept(tasks[t], tasks'[t])
  BY Ending
<1>2. DOMAIN tasks' = DOMAIN tasks
  BY <1>1 DEF Typed
<1>3. TasksKept
  BY <1>1 DEF TasksKept, Typed
<1> QED
  BY <1>1, <1>2, <1>3, SameApprovals DEF Keeps, Typed

LEMMA FailedKeeps ==
  ASSUME Typed, run.pc # "idle", NEW outcome \in {"known", "refused", "unknown"},
         NEW deleted \in SUBSET Files, Failed(outcome, deleted),
         late' \subseteq DOMAIN tasks,
         UNCHANGED <<approvals, clients, app, apk, files, sent, effects, bounds>>
  PROVE  Keeps
BY EndingKeeps DEF Failed

\* The status and the outcome of an invocation that returned.
Ended == IF Stopped THEN T.stop ELSE "succeeded"
Known == IF Stopped THEN "known" ELSE "none"

LEMMA EndedTyped ==
  ASSUME Typed, run.pc # "idle"
  PROVE  /\ Ended \in {"succeeded", "cancelled", "timed_out"}
         /\ Known \in {"none", "known"} /\ (Known = "none" <=> Ended = "succeeded")
         /\ Stopped => T.stop \in {"cancelled", "timed_out"}
<1>1. T \in Rows
  BY RunningRow
<1>2. T.stop \in {"none", "cancelled", "timed_out"}
  BY <1>1 DEF Rows
<1> QED
  BY <1>2 DEF Ended, Known, Stopped

LEMMA ReturnedReport ==
  ASSUME NEW deleted, Returned(deleted) PROVE Report(Ended, 1, Known, deleted)
BY DEF Returned, Ended, Known

LEMMA ReturnedKeeps ==
  ASSUME Typed, run.pc # "idle", NEW deleted \in SUBSET Files, Returned(deleted),
         late' \subseteq DOMAIN tasks,
         UNCHANGED <<approvals, clients, app, apk, files, sent, effects, bounds>>
  PROVE  Keeps
<1>1. Report(Ended, 1, Known, deleted)
  BY ReturnedReport
<1>2. Ended \in {"succeeded", "failed", "cancelled", "timed_out"}
  BY EndedTyped
<1>3. Known \in {"none", "known", "refused", "unknown"} /\ (Known = "none" <=> Ended = "succeeded")
  BY EndedTyped
<1> HIDE DEF Ended, Known
<1> QED
  BY <1>1, <1>2, <1>3, EndingKeeps

\* A step of the worker that goes on with the task.
LEMMA GoesKeeps ==
  ASSUME Typed, Goes, app' \in AppStates,
         files' \in [Files -> {"old", "changed", "link", "deleted"}],
         effects' \subseteq DOMAIN tasks,
         sent' \in Seq(Nat), Len(sent') = Len(sent),
         UNCHANGED <<approvals, clients, apk, late, bounds>>
  PROVE  Keeps
<1>1. OneRun' /\ TasksKept
  BY GoesTyped
<1> QED
  BY <1>1, SameApprovals DEF Keeps, Typed, Goes

LEMMA PreflightCases ==
  ASSUME Typed, Bound, Preflight
  PROVE  /\ run.pc = "preflight"
         /\ UNCHANGED <<approvals, clients, app, apk, files, late, sent, effects, bounds>>
         /\ \/ Stopped /\ Report(T.stop, 0, "known", {})
            \/ Report("failed", 0, "known", {})
            \/ /\ Goes /\ run'.pc \in {"clean", "check"} /\ run'.rest = Scope.files
               /\ run'.deleted = run.deleted /\ run'.moved = run.moved
<1>1. UNCHANGED <<approvals, clients, app, apk, files, late, sent, effects, bounds>>
  BY DEF Preflight, device
<1>2. Scope.files \in SUBSET Files
  BY ScopeTyped DEF Preflight, Scopes
<1>3. run \in Runs
  BY DEF Typed
<1>4. ASSUME run' = [run EXCEPT !.pc = IF T.kind = Cleanup THEN "clean" ELSE "check",
                                !.rest = Scope.files],
             UNCHANGED tasks
      PROVE  /\ Goes /\ run'.pc \in {"clean", "check"} /\ run'.rest = Scope.files
             /\ run'.deleted = run.deleted /\ run'.moved = run.moved
  BY <1>2, <1>3, <1>4 DEF Goes, Runs, Places, Preflight
<1> QED
  BY <1>1, <1>4 DEF Preflight

LEMMA TypedPreflight == ASSUME Typed, Bound, Preflight PROVE Keeps
<1>1. /\ run.pc = "preflight"
      /\ UNCHANGED <<approvals, clients, app, apk, files, late, sent, effects, bounds>>
  BY PreflightCases
<1>2. late' \subseteq DOMAIN tasks
  BY <1>1 DEF Typed
<1>3. CASE Stopped /\ Report(T.stop, 0, "known", {})
  <2>1. T.stop \in {"succeeded", "failed", "cancelled", "timed_out"} /\ T.stop # "succeeded"
    BY <1>1, <1>3, EndedTyped
  <2> DEFINE status == T.stop
  <2>2. status \in {"succeeded", "failed", "cancelled", "timed_out"} /\ status # "succeeded"
        /\ Report(status, 0, "known", {})
    BY <2>1, <1>3
  <2> HIDE DEF status
  <2> QED
    BY <1>1, <1>2, <2>2, EndingKeeps
<1>4. CASE Report("failed", 0, "known", {})
  BY <1>1, <1>2, <1>4, EndingKeeps
<1>5. CASE Goes
  BY <1>1, <1>5, GoesKeeps DEF Typed
<1> QED
  BY <1>3, <1>4, <1>5, PreflightCases

LEMMA TypedCheck == ASSUME Typed, Check PROVE Keeps
<1>1. /\ run.pc = "check"
      /\ UNCHANGED <<approvals, clients, app, apk, files, late, sent, effects, bounds>>
  BY DEF Check, device
<1>2. CASE run' = [run EXCEPT !.pc = "send"] /\ UNCHANGED tasks
  <2>1. Goes
    BY <1>1, <1>2 DEF Goes, Typed, Runs, Places
  <2> QED
    BY <1>1, <2>1, GoesKeeps DEF Typed
<1>3. CASE Failed("known", {})
  BY <1>1, <1>3, FailedKeeps DEF Typed
<1> QED
  BY <1>2, <1>3 DEF Check

LEMMA TypedSend == ASSUME Typed, Send PROVE Keeps
<1>1. /\ run.pc = "send"
      /\ UNCHANGED <<approvals, clients, tasks, app, apk, files, late, effects, bounds>>
  BY DEF Send
<1>2. Goes
  BY <1>1 DEF Goes, Typed, Runs, Places, Send
<1>3. run.task \in DOMAIN sent
  BY <1>1 DEF Typed, OneRun
<1>4. sent' = [sent EXCEPT ![run.task] = sent[run.task] + 1]
  BY DEF Send
<1>5. sent' \in Seq(Nat) /\ Len(sent') = Len(sent)
  BY <1>3, <1>4 DEF Typed
<1> QED
  BY <1>1, <1>2, <1>5, GoesKeeps DEF Typed

LEMMA EffectTyped == ASSUME Typed, NEW t \in DOMAIN tasks PROVE Effect(t) \in AppStates
BY DEF Effect, Typed, AppStates, Versions

LEMMA TypedAnswered == ASSUME Typed, Answered PROVE Keeps
<1>1. /\ run.pc = "sent"
      /\ UNCHANGED <<approvals, clients, tasks, apk, files, late, sent, bounds>>
  BY DEF Answered
<1>2. Goes
  BY <1>1 DEF Goes, Typed, Runs, Places, Answered
<1>3. run.task \in DOMAIN tasks
  BY <1>1, RunningRow
<1>4. app' \in AppStates /\ effects' \subseteq DOMAIN tasks
  <2>1. CASE Lands(run.task)
    BY <2>1, <1>3, EffectTyped DEF Lands, Typed
  <2>2. CASE UNCHANGED <<app, effects>>
    BY <2>2 DEF Typed
  <2> QED
    BY <2>1, <2>2 DEF Answered
<1> QED
  BY <1>1, <1>2, <1>4, GoesKeeps DEF Typed

LEMMA TypedRefused == ASSUME Typed, Refused PROVE Keeps
<1>1. /\ run.pc = "sent"
      /\ UNCHANGED <<approvals, clients, app, apk, files, sent, effects, bounds>>
      /\ Failed("refused", {})
      /\ late' = late \/ late' = late \cup {run.task}
  BY DEF Refused
<1>2. late' \subseteq DOMAIN tasks
  BY <1>1, RunningRow DEF Typed
<1> QED
  BY <1>1, <1>2, FailedKeeps

LEMMA TypedTimedOut == ASSUME Typed, TimedOut PROVE Keeps
<1>1. /\ run.pc = "sent"
      /\ UNCHANGED <<approvals, clients, app, apk, files, sent, effects, bounds>>
      /\ Failed("unknown", {})
      /\ late' = late \cup {run.task}
  BY DEF TimedOut
<1>2. late' \subseteq DOMAIN tasks
  BY <1>1, RunningRow DEF Typed
<1> QED
  BY <1>1, <1>2, FailedKeeps

LEMMA TypedVerify == ASSUME Typed, Verify PROVE Keeps
<1>1. /\ run.pc = "verify"
      /\ UNCHANGED <<approvals, clients, app, apk, files, late, sent, effects, bounds>>
  BY DEF Verify, device
<1>2. late' \subseteq DOMAIN tasks
  BY <1>1 DEF Typed
<1>3. CASE Returned({})
  BY <1>1, <1>2, <1>3, ReturnedKeeps
<1>4. CASE Failed("known", {})
  BY <1>1, <1>2, <1>4, FailedKeeps
<1> QED
  BY <1>3, <1>4 DEF Verify

\* A set of numbers that is not empty has a least one.
LEMMA LeastNumber ==
  ASSUME NEW S \in SUBSET Nat, S # {} PROVE \E n \in S : \A m \in S : n <= m
<1> DEFINE R == OpToRel(<, Nat)
<1>1. IsWellFoundedOn(R, Nat)
  BY NatLessThanWellFounded, Zenon
<1>2. R = {r \in Nat \X Nat : r[1] < r[2]}
  BY Zenon DEF OpToRel
<1>3. \A n, m \in Nat : m < n => <<m, n>> \in R
  BY <1>2
<1> HIDE DEF R
<1>4. PICK n \in S : \A m \in S : <<m, n>> \notin R
  BY <1>1, WFMin
<1>5. ASSUME NEW m \in S PROVE n <= m
  <2>1. n \in Nat /\ m \in Nat /\ <<m, n>> \notin R
    BY <1>4
  <2>2. ~(m < n)
    BY <1>3, <2>1
  <2> QED
    BY <2>1, <2>2
<1> QED
  BY <1>5

LEMMA NextCandidate == ASSUME Typed, run.rest # {} PROVE Next1 \in run.rest /\ Next1 \in Files
<1>1. run.rest \in SUBSET Files
  BY DEF Typed, Runs
<1>2. run.rest \in SUBSET Nat
  BY <1>1, DataAssumption DEF Files
<1>3. \E f \in run.rest : \A g \in run.rest : f <= g
  BY <1>2, LeastNumber
<1> QED
  BY <1>1, <1>3 DEF Next1

LEMMA TypedCleanEnd == ASSUME Typed, CleanEnd PROVE Keeps
<1>1. /\ run.pc = "clean" /\ Returned(run.deleted)
      /\ UNCHANGED <<approvals, clients, app, apk, files, late, sent, effects, bounds>>
  BY DEF CleanEnd, device
<1>2. late' \subseteq DOMAIN tasks /\ run.deleted \in SUBSET Files
  BY <1>1 DEF Typed, Runs
<1> QED
  BY <1>1, <1>2, ReturnedKeeps

LEMMA CleanCheckCases ==
  ASSUME Typed, CleanCheck
  PROVE  /\ run.pc = "clean" /\ Goes /\ files[Next1] = "old"
         /\ UNCHANGED <<approvals, clients, tasks, app, apk, files, late, sent,
                         effects, bounds>>
         /\ run'.pc = "unlink" /\ run'.rest = run.rest
         /\ run'.deleted = run.deleted /\ run'.moved = run.moved
<1>1. /\ run.pc = "clean" /\ files[Next1] = "old"
      /\ run' = [run EXCEPT !.pc = "unlink"]
      /\ UNCHANGED <<approvals, clients, tasks, app, apk, files, late, sent,
                      effects, bounds>>
  BY DEF CleanCheck, AtCandidate, Unchanged, device
<1>2. run \in Runs
  BY DEF Typed
<1> QED
  BY <1>1, <1>2 DEF Goes, Runs, Places

LEMMA TypedCleanCheck == ASSUME Typed, CleanCheck PROVE Keeps
BY CleanCheckCases, GoesKeeps DEF Typed

LEMMA CleanOneCases ==
  ASSUME Typed, CleanOne
  PROVE  /\ run.pc = "unlink" /\ Goes
         /\ UNCHANGED <<approvals, clients, tasks, app, apk, late, sent, effects, bounds>>
         /\ Next1 \in run.rest /\ Next1 \in Files
         /\ files' = [files EXCEPT ![Next1] = "deleted"]
         /\ run'.pc = "clean" /\ run'.rest = run.rest \ {Next1}
         /\ run'.deleted = run.deleted \cup {Next1}
<1>1. /\ run.pc = "unlink" /\ run.rest # {}
      /\ files' = [files EXCEPT ![Next1] = "deleted"]
      /\ run' = [run EXCEPT !.pc = "clean", !.moved = FALSE,
                            !.rest = run.rest \ {Next1},
                            !.deleted = run.deleted \cup {Next1}]
      /\ UNCHANGED <<approvals, clients, tasks, app, apk, late, sent, effects, bounds>>
  BY DEF CleanOne, AtCandidate, device
<1>2. Next1 \in run.rest /\ Next1 \in Files
  BY <1>1, NextCandidate
<1>3. run \in Runs
  BY DEF Typed
<1> HIDE DEF Next1
<1> QED
  BY <1>1, <1>2, <1>3 DEF Goes, Runs, Places

LEMMA TypedCleanOne == ASSUME Typed, CleanOne PROVE Keeps
<1>1. /\ Goes
      /\ UNCHANGED <<approvals, clients, tasks, app, apk, late, sent, effects, bounds>>
      /\ Next1 \in Files
      /\ files' = [files EXCEPT ![Next1] = "deleted"]
  BY CleanOneCases
<1> QED
  BY <1>1, GoesKeeps DEF Typed

LEMMA CleanFailsCases ==
  ASSUME Typed, CleanFails
  PROVE  /\ run.pc \in InCleanup /\ run.pc # "idle"
         /\ UNCHANGED <<approvals, clients, app, apk, files, late, sent, effects, bounds>>
         /\ \E deleted \in SUBSET run.deleted : Failed("known", deleted)
<1>1. (IF files[Next1] = "link" THEN {} ELSE run.deleted) \in SUBSET run.deleted
  OBVIOUS
<1> QED
  BY <1>1 DEF CleanFails, AtCandidate, InCleanup, device

LEMMA TypedCleanFails == ASSUME Typed, CleanFails PROVE Keeps
<1>1. PICK deleted \in SUBSET run.deleted : Failed("known", deleted)
  BY CleanFailsCases
<1>2. deleted \in SUBSET Files /\ late' \subseteq DOMAIN tasks
  BY CleanFailsCases DEF Typed, Runs
<1> QED
  BY <1>1, <1>2, CleanFailsCases, FailedKeeps

\* The world moved: the worker knows only that something did.
LEMMA MovedRun ==
  ASSUME Typed, Moved
  PROVE  /\ run' \in Runs /\ run'.pc = run.pc /\ run'.task = run.task
         /\ run'.rest = run.rest /\ run'.deleted = run.deleted
         /\ run.pc \in {"send", "sent", "verify"} => run'.moved
         /\ run.moved => run'.moved
<1>1. run \in Runs
  BY DEF Typed
<1> DEFINE moved == run.moved \/ run.pc \in {"send", "sent", "verify"}
<1>2. run' = [run EXCEPT !.moved = moved] /\ moved \in BOOLEAN
  BY DEF Moved
<1>3. /\ run.pc \in {"send", "sent", "verify"} => moved
      /\ run.moved => moved
  OBVIOUS
<1> HIDE DEF moved
<1>4. /\ run' \in Runs /\ run'.pc = run.pc /\ run'.task = run.task
      /\ run'.rest = run.rest /\ run'.deleted = run.deleted
      /\ run'.moved = moved
  BY <1>1, <1>2 DEF Runs
<1> QED
  BY <1>3, <1>4

LEMMA MovedOneRun == ASSUME Typed, Moved, UNCHANGED tasks PROVE OneRun'
BY MovedRun DEF Typed, OneRun

LEMMA TypedLateEffect ==
  ASSUME Typed, NEW t \in DOMAIN tasks, LateEffect(t) PROVE Keeps
<1>1. /\ UNCHANGED <<approvals, clients, tasks, apk, files, sent, bounds>>
      /\ Moved /\ late' = late \ {t} /\ app' = Effect(t)
      /\ effects' = effects \cup {t}
  BY DEF LateEffect, Lands
<1>2. app' \in AppStates
  BY <1>1, EffectTyped
<1>3. run' \in Runs /\ OneRun'
  BY <1>1, MovedRun, MovedOneRun
<1>4. late' \subseteq DOMAIN tasks' /\ effects' \subseteq DOMAIN tasks'
  BY <1>1 DEF Typed
<1> QED
  BY <1>1, <1>2, <1>3, <1>4, SameTasks, SameApprovals DEF Keeps, Typed

LEMMA BoundsTyped ==
  ASSUME Typed, Change PROVE bounds' \in [changes : Nat, crashes : Nat]
<1>1. bounds \in [changes : Nat, crashes : Nat]
  BY DEF Typed
<1> QED
  BY <1>1 DEF Change

LEMMA TypedAppChanges == ASSUME Typed, AppChanges PROVE Keeps
<1>1. /\ UNCHANGED <<approvals, clients, tasks, apk, files, late, sent, effects>>
      /\ Moved /\ Change /\ app' \in AppStates
  BY DEF AppChanges
<1>2. run' \in Runs /\ OneRun' /\ bounds' \in [changes : Nat, crashes : Nat]
  BY <1>1, MovedRun, MovedOneRun, BoundsTyped
<1> QED
  BY <1>1, <1>2, SameTasks, SameApprovals DEF Keeps, Typed

LEMMA TypedApkChanges == ASSUME Typed, ApkChanges PROVE Keeps
<1>1. /\ UNCHANGED <<approvals, clients, tasks, app, files, late, sent, effects>>
      /\ Moved /\ Change /\ apk' \in Versions
  BY DEF ApkChanges
<1>2. run' \in Runs /\ OneRun' /\ bounds' \in [changes : Nat, crashes : Nat]
  BY <1>1, MovedRun, MovedOneRun, BoundsTyped
<1> QED
  BY <1>1, <1>2, SameTasks, SameApprovals DEF Keeps, Typed

\* An artifact changed: the worker is not told, the history is.
LEMMA FileRun ==
  ASSUME Typed, NEW f \in Files, FileChanges(f)
  PROVE  /\ run' \in Runs /\ run'.pc = run.pc /\ run'.task = run.task
         /\ run'.rest = run.rest /\ run'.deleted = run.deleted
         /\ run.moved => run'.moved
         /\ run.pc # "unlink" => run'.moved = run.moved
         /\ run.pc = "unlink" /\ ~run'.moved => f # Next1
<1>1. run \in Runs /\ run.moved \in BOOLEAN
  BY DEF Typed, Runs
<1> DEFINE moved == run.moved \/ (run.pc = "unlink" /\ f = Next1)
<1>2. run' = [run EXCEPT !.moved = moved] /\ moved \in BOOLEAN
  BY DEF FileChanges
<1>3. /\ run.moved => moved
      /\ run.pc # "unlink" => moved = run.moved
      /\ run.pc = "unlink" /\ ~moved => f # Next1
  BY <1>1
<1> HIDE DEF moved
<1>4. /\ run' \in Runs /\ run'.pc = run.pc /\ run'.task = run.task
      /\ run'.rest = run.rest /\ run'.deleted = run.deleted
      /\ run'.moved = moved
  BY <1>1, <1>2 DEF Runs
<1> QED
  BY <1>3, <1>4

LEMMA TypedFileChanges ==
  ASSUME Typed, NEW f \in Files, FileChanges(f) PROVE Keeps
<1>1. /\ UNCHANGED <<approvals, clients, tasks, app, apk, late, sent, effects>>
      /\ Change
      /\ files' \in [Files -> {"old", "changed", "link", "deleted"}]
  BY DEF FileChanges, device, Typed
<1>2. run' \in Runs /\ OneRun' /\ bounds' \in [changes : Nat, crashes : Nat]
  BY <1>1, FileRun, BoundsTyped DEF Typed, OneRun
<1> QED
  BY <1>1, <1>2, SameTasks, SameApprovals DEF Keeps, Typed

\* What a restart makes of a task.
Recovered(t) ==
  IF Live(t)
  THEN [tasks[t] EXCEPT !.status = "failed", !.stop = "none",
          !.outcome = IF tasks[t].status = "queued" THEN "known" ELSE "unknown"]
  ELSE tasks[t]

LEMMA RecoveredRow ==
  ASSUME Typed, NEW t \in DOMAIN tasks
  PROVE  /\ Recovered(t) \in Rows /\ OutcomeOK(Recovered(t))
         /\ Kept(tasks[t], Recovered(t))
         /\ Recovered(t).status \notin {"queued", "running"}
         /\ Recovered(t).deleted = tasks[t].deleted
         /\ Recovered(t).steps = tasks[t].steps
         /\ Live(t) => Recovered(t).status = "failed"
         /\ tasks[t].status = "running" => Recovered(t).outcome = "unknown"
         /\ ~Live(t) => Recovered(t) = tasks[t]
<1>1. tasks[t] \in Rows /\ OutcomeOK(tasks[t])
  BY DEF Typed
<1>2. CASE Live(t)
  BY <1>1, <1>2 DEF Recovered, Live, Rows, Statuses, OutcomeOK, Kept
<1>3. CASE ~Live(t)
  BY <1>1, <1>3 DEF Recovered, Live, Kept
<1> QED
  BY <1>2, <1>3

LEMMA CrashCases ==
  ASSUME Typed, Crash
  PROVE  /\ tasks' \in Seq(Rows) /\ Len(tasks') = Len(tasks)
         /\ DOMAIN tasks' = DOMAIN tasks
         /\ \A t \in DOMAIN tasks : tasks'[t] = Recovered(t)
         /\ approvals' \in Seq(Approved) /\ Len(approvals') = Len(approvals)
         /\ \A a \in DOMAIN approvals :
              /\ approvals'[a].scope = approvals[a].scope
              /\ approvals'[a].key = approvals[a].key
              /\ approvals'[a].kind = approvals[a].kind
         /\ clients' = [c \in Clients |-> Idle]
         /\ run' = NoRun
         /\ late' = IF run.pc = "sent" THEN late \cup {run.task} ELSE late
         /\ UNCHANGED <<app, apk, files, sent, effects>>
<1>1. tasks' = [t \in DOMAIN tasks |-> Recovered(t)]
  BY DEF Crash, Recovered
<1>2. tasks \in Seq(Rows)
  BY DEF Typed
<1>3. \A t \in DOMAIN tasks : Recovered(t) \in Rows
  BY RecoveredRow
<1>4. /\ tasks' \in Seq(Rows) /\ Len(tasks') = Len(tasks)
      /\ DOMAIN tasks' = DOMAIN tasks
      /\ \A t \in DOMAIN tasks : tasks'[t] = Recovered(t)
  BY <1>1, <1>2, <1>3
<1> DEFINE gone(a) == [approvals[a] EXCEPT !.state = "gone"]
<1>5. approvals' = [a \in DOMAIN approvals |-> gone(a)]
  BY DEF Crash
<1>6. approvals \in Seq(Approved)
  BY DEF Typed
<1>7. ASSUME NEW a \in DOMAIN approvals
      PROVE  /\ gone(a) \in Approved /\ gone(a).scope = approvals[a].scope
             /\ gone(a).key = approvals[a].key /\ gone(a).kind = approvals[a].kind
  <2>1. approvals[a] \in Approved
    BY <1>6
  <2> QED
    BY <2>1 DEF Approved
<1> HIDE DEF gone
<1>8. /\ approvals' \in Seq(Approved) /\ Len(approvals') = Len(approvals)
      /\ \A a \in DOMAIN approvals : approvals'[a] = gone(a)
  BY <1>5, <1>6, <1>7
<1> QED
  BY <1>4, <1>7, <1>8 DEF Crash

LEMMA TypedCrash == ASSUME Typed, Crash PROVE Keeps
<1>1. /\ tasks' \in Seq(Rows) /\ Len(tasks') = Len(tasks)
      /\ DOMAIN tasks' = DOMAIN tasks
      /\ \A t \in DOMAIN tasks : tasks'[t] = Recovered(t)
      /\ approvals' \in Seq(Approved) /\ Len(approvals') = Len(approvals)
      /\ \A a \in DOMAIN approvals :
           approvals'[a].scope = approvals[a].scope /\ approvals'[a].key = approvals[a].key
      /\ clients' = [c \in Clients |-> Idle]
      /\ run' = NoRun
      /\ late' = IF run.pc = "sent" THEN late \cup {run.task} ELSE late
      /\ UNCHANGED <<app, apk, files, sent, effects>>
  BY CrashCases
<1>2. \A t \in DOMAIN tasks :
        /\ OutcomeOK(tasks'[t]) /\ Kept(tasks[t], tasks'[t])
        /\ tasks'[t].status \notin {"queued", "running"}
  BY <1>1, RecoveredRow
<1>3. OneRun'
  BY <1>1, <1>2, NoRunTyped DEF OneRun
<1>4. TasksKept /\ ApprovalsKept
  BY <1>1, <1>2 DEF TasksKept, ApprovalsKept, Typed
<1>5. late' \subseteq DOMAIN tasks'
  BY <1>1, RunningRow DEF Typed
<1>6. bounds' \in [changes : Nat, crashes : Nat]
  <2>1. bounds \in [changes : Nat, crashes : Nat]
    BY DEF Typed
  <2>2. bounds' = [bounds EXCEPT !.crashes = bounds.crashes + 1]
    BY DEF Crash
  <2> QED
    BY <2>1, <2>2
<1>7. clients' \in [Clients -> Claims \cup {Idle}]
  BY <1>1
<1> QED
  BY <1>1, <1>2, <1>3, <1>4, <1>5, <1>6, <1>7, NoRunTyped DEF Keeps, Typed

LEMMA TypedInit == Init => Typed
<1> SUFFICES ASSUME Init PROVE Typed
  OBVIOUS
<1>1. OneRun
  BY NoRunTyped DEF Init, OneRun
<1>2. clients \in [Clients -> Claims \cup {Idle}]
  BY DEF Init
<1>3. files \in [Files -> {"old", "changed", "link", "deleted"}]
  BY DEF Init
<1>4. bounds \in [changes : Nat, crashes : Nat]
  BY DEF Init
<1>5. app \in AppStates /\ apk \in Versions
  BY DEF Init, Versions
<1> QED
  BY <1>1, <1>2, <1>3, <1>4, <1>5, NoRunTyped, DataAssumption DEF Init, Typed

LEMMA TypedNext == ASSUME Typed, Bound, Next PROVE Keeps
<1>1. CASE World
  BY <1>1, TypedAppChanges, TypedApkChanges, TypedCrash, TypedFileChanges,
     TypedLateEffect DEF World
<1>2. CASE Request
  BY <1>2, TypedPrepare, TypedExpire, TypedRequestStop, TypedClaim, TypedSubmit,
     TypedCancel, TypedDeadline DEF Request
<1>3. CASE Work
  BY <1>3, TypedBegin, TypedPreflight, TypedCheck, TypedSend, TypedAnswered,
     TypedRefused, TypedTimedOut, TypedVerify, TypedCleanEnd, TypedCleanCheck,
     TypedCleanOne, TypedCleanFails DEF Work
<1> QED
  BY <1>1, <1>2, <1>3 DEF Next
-----------------------------------------------------------------------------
(* An approval, its claims and its tasks have one key.                      *)

LEMMA RowTyped ==
  ASSUME Typed, NEW t \in DOMAIN tasks
  PROVE  /\ tasks[t] \in Rows /\ OutcomeOK(tasks[t])
         /\ tasks[t].key \in Keys /\ tasks[t].key # "none" /\ t \in Nat
<1>1. tasks[t] \in Rows /\ OutcomeOK(tasks[t]) /\ t \in Nat
  BY DEF Typed
<1> QED
  BY <1>1, DataAssumption DEF Rows

LEMMA ClaimTyped ==
  ASSUME Typed, NEW c \in Clients, clients[c] # Idle
  PROVE  clients[c] \in Claims /\ clients[c].key \in Keys /\ clients[c].key # "none"
<1>1. clients[c] \in Claims
  BY DEF Typed
<1> QED
  BY <1>1, DataAssumption DEF Claims

\* The keys that approvals, claims and tasks have are not taken from them.
LEMMA ClaimedKept ==
  ASSUME Typed, Claimed, ApprovalsKept, UNCHANGED clients PROVE Claimed'
<1> SUFFICES ASSUME NEW c \in Clients, clients[c] # Idle
             PROVE  /\ clients[c].approval \in 0..Len(approvals')
                    /\ clients[c].approval # 0 =>
                         approvals'[clients[c].approval].key = clients[c].key
  BY DEF Claimed
<1>1. clients[c].key # "none"
  BY ClaimTyped
<1>2. /\ clients[c].approval \in 0..Len(approvals)
      /\ clients[c].approval # 0 =>
           approvals[clients[c].approval].key = clients[c].key
  BY DEF Claimed
<1>3. approvals \in Seq(Approved)
  BY DEF Typed
<1>4. /\ Len(approvals) <= Len(approvals')
      /\ \A a \in DOMAIN approvals :
           approvals[a].key # "none" => approvals'[a].key = approvals[a].key
  BY DEF ApprovalsKept
<1>5. Len(approvals) \in Nat /\ DOMAIN approvals = 1..Len(approvals)
  BY <1>3
<1>7. clients[c].approval \in 0..Len(approvals')
  BY <1>2, <1>4, <1>5
<1> QED
  BY <1>1, <1>2, <1>4, <1>5, <1>7

\* Every claim but the new one still names the key of its approval.
LEMMA ClaimedNext ==
  ASSUME Typed, Claimed, Keeps, NEW c \in Clients, NEW new \in Claims \cup {Idle},
         clients' = [clients EXCEPT ![c] = new],
         new # Idle =>
           /\ new.approval \in 0..Len(approvals')
           /\ new.approval # 0 => approvals'[new.approval].key = new.key
  PROVE  Claimed'
<1>1. clients'[c] = new /\ \A d \in Clients : d # c => clients'[d] = clients[d]
  BY DEF Typed
<1>2. ASSUME NEW d \in Clients, d # c, clients[d] # Idle
      PROVE  /\ clients[d].approval \in 0..Len(approvals')
             /\ clients[d].approval # 0 =>
                  approvals'[clients[d].approval].key = clients[d].key
  <2>1. clients[d].key # "none"
    BY <1>2, ClaimTyped
  <2>2. /\ clients[d].approval \in 0..Len(approvals)
        /\ clients[d].approval # 0 =>
             approvals[clients[d].approval].key = clients[d].key
    BY <1>2 DEF Claimed
  <2>3. /\ Len(approvals) <= Len(approvals')
        /\ \A a \in DOMAIN approvals :
             approvals[a].key # "none" => approvals'[a].key = approvals[a].key
    BY DEF ApprovalsKept, Keeps
  <2>4. Len(approvals) \in Nat /\ DOMAIN approvals = 1..Len(approvals)
    BY DEF Typed
  <2>5. Len(approvals') \in Nat
    BY DEF Typed, Keeps
  <2> QED
    BY <2>1, <2>2, <2>3, <2>4, <2>5
<1>3. ASSUME NEW d \in Clients, clients'[d] # Idle
      PROVE  /\ clients'[d].approval \in 0..Len(approvals')
             /\ clients'[d].approval # 0 =>
                  approvals'[clients'[d].approval].key = clients'[d].key
  BY <1>1, <1>2, <1>3
<1> QED
  BY <1>3 DEF Claimed

LEMMA BoundKept ==
  ASSUME Typed, Bound, Keeps, Len(tasks') = Len(tasks) PROVE Bound'
<1> SUFFICES ASSUME NEW t \in DOMAIN tasks'
             PROVE  /\ tasks'[t].approval \in 0..Len(approvals')
                    /\ tasks'[t].approval # 0 =>
                         approvals'[tasks'[t].approval].key = tasks'[t].key
  BY DEF Bound
<1>1. t \in DOMAIN tasks
  BY DEF Typed, Keeps
<1>2. tasks'[t].key = tasks[t].key /\ tasks'[t].approval = tasks[t].approval
  BY <1>1 DEF Keeps, TasksKept, Kept
<1>3. tasks[t].key # "none"
  BY <1>1, RowTyped
<1>4. /\ tasks[t].approval \in 0..Len(approvals)
      /\ tasks[t].approval # 0 => approvals[tasks[t].approval].key = tasks[t].key
  BY <1>1 DEF Bound
<1>5. /\ Len(approvals) <= Len(approvals')
      /\ \A a \in DOMAIN approvals :
           approvals[a].key # "none" => approvals'[a].key = approvals[a].key
  BY DEF ApprovalsKept, Keeps
<1>6. Len(approvals) \in Nat /\ DOMAIN approvals = 1..Len(approvals)
  BY DEF Typed
<1>7. Len(approvals') \in Nat
  BY DEF Typed, Keeps
<1> QED
  BY <1>2, <1>3, <1>4, <1>5, <1>6, <1>7

LEMMA DistinctKept ==
  ASSUME Typed, KeysDistinct, Keeps, Len(tasks') = Len(tasks) PROVE KeysDistinct'
<1>1. DOMAIN tasks' = DOMAIN tasks
  BY DEF Typed, Keeps
<1>2. \A t \in DOMAIN tasks : tasks'[t].key = tasks[t].key
  BY DEF Keeps, TasksKept, Kept
<1> QED
  BY <1>1, <1>2 DEF KeysDistinct

\* What most steps leave alone.
Frame == UNCHANGED clients /\ Len(tasks') = Len(tasks)

LEMMA ReportFrame ==
  ASSUME Typed, run.pc # "idle", NEW status, NEW steps, NEW outcome, NEW deleted,
         Report(status, steps, outcome, deleted)
  PROVE  Len(tasks') = Len(tasks)
<1>1. run.task \in DOMAIN tasks
  BY RunningRow
<1> QED
  BY <1>1 DEF Report, Typed

LEMMA FailedFrame ==
  ASSUME Typed, run.pc # "idle", NEW outcome, NEW deleted, Failed(outcome, deleted)
  PROVE  Len(tasks') = Len(tasks)
BY ReportFrame DEF Failed

LEMMA ReturnedFrame ==
  ASSUME Typed, run.pc # "idle", NEW deleted, Returned(deleted)
  PROVE  Len(tasks') = Len(tasks)
BY ReturnedReport, ReportFrame

LEMMA WorkFrame == ASSUME Typed, Bound, Work PROVE Frame /\ UNCHANGED approvals
<1>1. ASSUME NEW t \in DOMAIN tasks, Begin(t) PROVE Frame /\ UNCHANGED approvals
  BY <1>1 DEF Begin, Frame, Typed
<1>2. CASE Preflight
  BY <1>2, PreflightCases, ReportFrame DEF Frame, Goes
<1>3. CASE Check
  BY <1>3, FailedFrame DEF Check, Frame
<1>4. CASE Send \/ Answered
  BY <1>4 DEF Send, Answered, Frame
<1>5. CASE Refused
  BY <1>5, FailedFrame DEF Refused, Frame
<1>6. CASE TimedOut
  BY <1>6, FailedFrame DEF TimedOut, Frame
<1>7. CASE Verify
  BY <1>7, FailedFrame, ReturnedFrame DEF Verify, Frame
<1>8. CASE CleanEnd
  BY <1>8, ReturnedFrame DEF CleanEnd, Frame
<1>9. CASE CleanCheck \/ CleanOne
  BY <1>9 DEF CleanCheck, CleanOne, Frame
<1>10. CASE CleanFails
  BY <1>10, CleanFailsCases, FailedFrame DEF Frame
<1> QED
  BY <1>1, <1>2, <1>3, <1>4, <1>5, <1>6, <1>7, <1>8, <1>9, <1>10 DEF Work

LEMMA WorldFrame == ASSUME Typed, World PROVE Frame \/ Crash
BY DEF World, AppChanges, ApkChanges, FileChanges, LateEffect, Frame

LEMMA RequestFrame ==
  ASSUME Typed, Request
  PROVE  \/ Frame
         \/ \E c \in Clients, key \in Keys : RequestStop(c, key)
         \/ \E c \in Clients, key \in Keys, a \in DOMAIN approvals : Claim(c, a, key)
         \/ \E c \in Clients : Submit(c)
<1>1. ASSUME NEW kind \in Kinds, Prepare(kind) PROVE Frame
  BY <1>1 DEF Prepare, Frame
<1>2. ASSUME NEW a \in DOMAIN approvals, Expire(a) PROVE Frame
  BY <1>2 DEF Expire, Frame
<1>3. ASSUME NEW t \in DOMAIN tasks, Cancel(t) PROVE Frame
  BY <1>3 DEF Cancel, Frame, Typed
<1>4. ASSUME NEW t \in DOMAIN tasks, Deadline(t) PROVE Frame
  BY <1>4 DEF Deadline, Frame, Typed
<1> QED
  BY <1>1, <1>2, <1>3, <1>4 DEF Request

OneKey == Claimed /\ Bound /\ KeysDistinct

LEMMA OneKeyFrame == ASSUME Typed, OneKey, Keeps, Frame PROVE OneKey'
BY ClaimedKept, BoundKept, DistinctKept DEF OneKey, Keeps, Frame

LEMMA OneKeyClaim ==
  ASSUME Typed, OneKey, NEW c \in Clients, NEW a \in DOMAIN approvals,
         NEW key \in Keys, Claim(c, a, key)
  PROVE  OneKey'
<1>1. Keeps
  BY TypedClaim
<1> DEFINE new == [kind |-> approvals[a].kind, approval |-> a, key |-> key]
<1>2. approvals[a] \in Approved /\ a \in 1..Len(approvals) /\ Len(approvals) \in Nat
  BY DEF Typed
<1>3. a \in 0..MaxApprovals
  BY <1>2, DataAssumption DEF Typed
<1>4. new \in Claims /\ new.approval = a /\ new.key = key
  BY <1>2, <1>3 DEF Approved, Claims
<1>5. clients' = [clients EXCEPT ![c] = new] /\ approvals' = [approvals EXCEPT ![a].key = key]
  BY DEF Claim
<1>6. approvals'[a].key = key /\ Len(approvals') = Len(approvals)
  BY <1>2, <1>5 DEF Approved, Typed
<1> HIDE DEF new
<1>7. new \in Claims \cup {Idle} /\ new.approval \in 0..Len(approvals')
      /\ (new.approval # 0 => approvals'[new.approval].key = new.key)
  BY <1>2, <1>4, <1>6
<1>8. Claimed'
  BY <1>1, <1>5, <1>7, ClaimedNext DEF OneKey
<1>9. Len(tasks') = Len(tasks)
  BY DEF Claim
<1> QED
  BY <1>1, <1>8, <1>9, BoundKept, DistinctKept DEF OneKey

LEMMA OneKeyStop ==
  ASSUME Typed, OneKey, NEW c \in Clients, NEW key \in Keys, RequestStop(c, key)
  PROVE  OneKey'
<1>1. Keeps
  BY TypedRequestStop
<1> DEFINE new == [kind |-> "app.stop", approval |-> 0, key |-> key]
<1>2. new \in Claims /\ new.approval = 0
  BY DataAssumption DEF Claims, RequestStop
<1>3. clients' = [clients EXCEPT ![c] = new] /\ UNCHANGED <<approvals, tasks>>
  BY DEF RequestStop
<1> HIDE DEF new
<1>4. Len(approvals') \in Nat
  BY <1>1 DEF Keeps, Typed
<1>5. new \in Claims \cup {Idle} /\ new.approval \in 0..Len(approvals')
      /\ (new.approval # 0 => approvals'[new.approval].key = new.key)
  BY <1>2, <1>4
<1>6. Claimed'
  BY <1>1, <1>3, <1>5, ClaimedNext DEF OneKey
<1> QED
  BY <1>1, <1>3, <1>6, BoundKept, DistinctKept DEF OneKey

LEMMA OneKeySubmit ==
  ASSUME Typed, OneKey, NEW c \in Clients, Submit(c) PROVE OneKey'
<1>1. Keeps
  BY TypedSubmit
<1>2. clients[c] # Idle /\ clients' = [clients EXCEPT ![c] = Idle] /\ UNCHANGED approvals
  BY DEF Submit
<1>3. Claimed'
  BY <1>1, <1>2, ClaimedNext DEF OneKey
<1>4. CASE UNCHANGED <<tasks, sent>>
  BY <1>1, <1>3, <1>4, BoundKept, DistinctKept DEF OneKey
<1>5. CASE Created(c)
  <2>1. /\ Len(tasks') = Len(tasks) + 1
        /\ \A t \in DOMAIN tasks : tasks'[t] = tasks[t]
        /\ tasks'[Len(tasks) + 1] = Queued(c)
        /\ DOMAIN tasks' = DOMAIN tasks \cup {Len(tasks) + 1}
    BY <1>2, <1>5, CreatedRow
  <2>2. Queued(c).key = clients[c].key /\ Queued(c).approval = clients[c].approval
    BY DEF Queued
  <2>3. Bound'
    BY <1>2, <2>1, <2>2 DEF OneKey, Bound, Claimed
  <2>4. \A t \in DOMAIN tasks : tasks[t].key # clients[c].key
    BY <1>5 DEF Created
  <2>5. KeysDistinct'
    BY <2>1, <2>2, <2>4 DEF OneKey, KeysDistinct
  <2> QED
    BY <1>3, <2>3, <2>5 DEF OneKey
<1> QED
  BY <1>4, <1>5, SubmitCases

LEMMA OneKeyCrash == ASSUME Typed, OneKey, Crash PROVE OneKey'
<1>1. Keeps
  BY TypedCrash
<1>2. clients' = [c \in Clients |-> Idle] /\ Len(tasks') = Len(tasks)
  BY CrashCases
<1>3. Claimed'
  BY <1>2 DEF Claimed
<1> QED
  BY <1>1, <1>2, <1>3, BoundKept, DistinctKept DEF OneKey

LEMMA OneKeyNext == ASSUME Typed, OneKey, Next PROVE OneKey'
<1>1. Bound /\ Keeps
  BY TypedNext DEF OneKey
<1>2. CASE Frame
  BY <1>1, <1>2, OneKeyFrame
<1>3. CASE ~Frame
  BY <1>1, <1>3, WorkFrame, WorldFrame, RequestFrame, OneKeyClaim, OneKeyStop,
     OneKeySubmit, OneKeyCrash DEF Next
<1> QED
  BY <1>2, <1>3
-----------------------------------------------------------------------------
(* What is sent, and what a report says of it.                              *)

Sending == SentOnce /\ LateUncertain /\ StoppedBeforeStepUntouched

\* The worker stays where it is, the others neither send nor report.
LEMMA SendingKept ==
  ASSUME Typed, Sending, UNCHANGED <<tasks, sent, effects>>, late' \subseteq late,
         run'.pc = run.pc, run'.task = run.task
  PROVE  Sending'
BY DEF Sending, SentOnce, Untouched, LateUncertain, StoppedBeforeStepUntouched

LEMMA SendingSubmit ==
  ASSUME Typed, Sending, NEW c \in Clients, Submit(c) PROVE Sending'
<1>1. UNCHANGED <<run, late, effects>> /\ clients[c] # Idle
  BY DEF Submit
<1>2. CASE UNCHANGED <<tasks, sent>>
  BY <1>1, <1>2, SendingKept
<1>3. CASE Created(c)
  <2> DEFINE n == Len(tasks) + 1
  <2>1. /\ \A t \in DOMAIN tasks : tasks'[t] = tasks[t] /\ sent'[t] = sent[t]
        /\ tasks'[n] = Queued(c) /\ sent'[n] = 0
        /\ DOMAIN tasks' = DOMAIN tasks \cup {n}
    BY <1>1, <1>3, CreatedRow
  <2>2. n \notin DOMAIN tasks
    BY DEF Typed
  <2>3. n \notin late /\ n \notin effects
    BY <2>2 DEF Typed
  <2>4. /\ Queued(c).status = "queued" /\ Queued(c).steps = 0
        /\ Queued(c).deleted = {}
    BY DEF Queued
  <2> HIDE DEF n
  <2>5. run.pc # "idle" => run.task \in DOMAIN tasks
    BY DEF Typed, OneRun
  <2>6. SentOnce'
    BY <1>1, <2>1, <2>3, <2>4, <2>5 DEF Sending, SentOnce, Untouched
  <2>7. LateUncertain'
    BY <1>1, <2>1 DEF Sending, LateUncertain, Typed
  <2>8. StoppedBeforeStepUntouched'
    BY <1>1, <2>1, <2>4 DEF Sending, StoppedBeforeStepUntouched
  <2> QED
    BY <2>6, <2>7, <2>8 DEF Sending
<1> QED
  BY <1>2, <1>3, SubmitCases

\* A live task changes, its steps and what it lists do not.
LEMMA SendingRow ==
  ASSUME Typed, Sending, NEW t \in DOMAIN tasks, NEW row \in Rows,
         tasks' = [tasks EXCEPT ![t] = row],
         tasks[t].status \in {"queued", "running"},
         row.steps = tasks[t].steps, row.deleted = tasks[t].deleted,
         row.status # "queued",
         row.status \in {"cancelled", "timed_out"} => tasks[t].status = "queued",
         UNCHANGED <<sent, effects, late>>,
         \/ run'.pc = run.pc /\ run'.task = run.task
         \/ run'.pc = "preflight" /\ run'.task = t /\ tasks[t].status = "queued"
  PROVE  Sending'
<1>1. /\ DOMAIN tasks' = DOMAIN tasks /\ tasks'[t] = row
      /\ \A u \in DOMAIN tasks : u # t => tasks'[u] = tasks[u]
  BY OneRow
<1>2. t \notin late
  BY RowTyped DEF Sending, LateUncertain, Uncertain, OutcomeOK
<1>3. run.pc # "idle" => run.task \in DOMAIN tasks
  BY DEF Typed, OneRun
<1>4. \A u \in DOMAIN tasks : Untouched(u)' <=> Untouched(u)
  BY <1>1 DEF Untouched
<1>5. SentOnce'
  BY <1>1, <1>3, <1>4 DEF Sending, SentOnce
<1>6. LateUncertain'
  BY <1>1, <1>2 DEF Sending, LateUncertain, Typed
<1>7. StoppedBeforeStepUntouched'
  BY <1>1, <1>4 DEF Sending, SentOnce, StoppedBeforeStepUntouched, Untouched
<1> QED
  BY <1>5, <1>6, <1>7 DEF Sending

LEMMA SendingCancel ==
  ASSUME Typed, Sending, NEW t \in DOMAIN tasks, Cancel(t) PROVE Sending'
<1> DEFINE row == IF tasks[t].status = "queued"
                  THEN [tasks[t] EXCEPT !.status = "cancelled", !.outcome = "known"]
                  ELSE [tasks[t] EXCEPT !.stop = "cancelled"]
<1>1. tasks[t] \in Rows
  BY DEF Typed
<1>2. /\ row \in Rows /\ tasks[t].status \in {"queued", "running"}
      /\ row.steps = tasks[t].steps /\ row.deleted = tasks[t].deleted
      /\ row.status # "queued"
      /\ row.status \in {"cancelled", "timed_out"} => tasks[t].status = "queued"
  BY <1>1 DEF Cancel, Live, Rows, Statuses
<1>3. tasks' = [tasks EXCEPT ![t] = row] /\ UNCHANGED <<run, sent, effects, late>>
  BY DEF Cancel, device
<1> HIDE DEF row
<1> QED
  BY <1>2, <1>3, SendingRow

LEMMA SendingDeadline ==
  ASSUME Typed, Sending, NEW t \in DOMAIN tasks, Deadline(t) PROVE Sending'
<1> DEFINE row == [tasks[t] EXCEPT !.stop = "timed_out"]
<1>1. tasks[t] \in Rows
  BY DEF Typed
<1>2. /\ row \in Rows /\ tasks[t].status \in {"queued", "running"}
      /\ row.steps = tasks[t].steps /\ row.deleted = tasks[t].deleted
      /\ row.status # "queued" /\ row.status \notin {"cancelled", "timed_out"}
  BY <1>1 DEF Deadline, Rows
<1>3. tasks' = [tasks EXCEPT ![t] = row] /\ UNCHANGED <<run, sent, effects, late>>
  BY DEF Deadline, device
<1> HIDE DEF row
<1> QED
  BY <1>2, <1>3, SendingRow

LEMMA SendingBegin ==
  ASSUME Typed, Sending, NEW t \in DOMAIN tasks, Begin(t) PROVE Sending'
<1> DEFINE row == [tasks[t] EXCEPT !.status = "running"]
<1>1. tasks[t] \in Rows
  BY DEF Typed
<1>2. /\ row \in Rows /\ tasks[t].status = "queued"
      /\ row.steps = tasks[t].steps /\ row.deleted = tasks[t].deleted
      /\ row.status = "running"
  BY <1>1 DEF Begin, Rows, Statuses
<1>3. tasks' = [tasks EXCEPT ![t] = row] /\ UNCHANGED <<sent, effects, late>>
  BY DEF Begin, device
<1>4. run'.pc = "preflight" /\ run'.task = t
  BY DEF Begin, NoRun
<1> HIDE DEF row
<1> QED
  BY <1>2, <1>3, <1>4, SendingRow

\* A report says that the step was taken, or nothing was sent; a command can
\* only be late when the report says that its outcome is unknown.
StepTold(steps, deleted) == steps = 1 \/ (run.pc = "preflight" /\ deleted = {})

LateTold(outcome) ==
  \/ late' = late
  \/ late' = late \cup {run.task} /\ run.pc = "sent" /\ outcome \in Uncertain

LEMMA SendingReport ==
  ASSUME Typed, Sending, run.pc # "idle",
         NEW status \in {"succeeded", "failed", "cancelled", "timed_out"},
         NEW steps \in 0..1, NEW outcome \in {"none", "known", "refused", "unknown"},
         NEW deleted \in SUBSET Files, outcome = "none" <=> status = "succeeded",
         Report(status, steps, outcome, deleted),
         UNCHANGED <<sent, effects>>,
         StepTold(steps, deleted), LateTold(outcome)
  PROVE  Sending'
<1>1. /\ Len(tasks') = Len(tasks) /\ tasks' \in Seq(Rows)
      /\ run' = NoRun
      /\ \A t \in DOMAIN tasks : t # run.task => tasks'[t] = tasks[t]
      /\ tasks'[run.task].status = status /\ tasks'[run.task].steps = steps
      /\ tasks'[run.task].outcome = outcome
      /\ tasks'[run.task].deleted = deleted
  BY Ending
<1>2. DOMAIN tasks' = DOMAIN tasks
  BY <1>1 DEF Typed
<1>3. run.task \in DOMAIN tasks /\ OutcomeOK(tasks[run.task])
      /\ tasks[run.task].status = "running"
  BY RunningRow DEF T
<1>4. run.task \notin late
  BY <1>3 DEF Sending, LateUncertain, Uncertain, OutcomeOK
<1>5. run'.pc = "idle"
  BY <1>1, NoRunTyped
<1>6. SentOnce'
  BY <1>1, <1>2, <1>5 DEF Sending, SentOnce, Untouched
<1>7. LateUncertain'
  <2>1. \A t \in late : sent[t] > 0 /\ tasks'[t].outcome \in Uncertain
    BY <1>1, <1>4 DEF Sending, LateUncertain, Typed
  <2>2. run.pc = "sent" => sent[run.task] > 0
    BY DEF Sending, SentOnce
  <2> QED
    BY <1>1, <2>1, <2>2 DEF LateTold, LateUncertain
<1>8. StoppedBeforeStepUntouched'
  BY <1>1, <1>2 DEF Sending, SentOnce, Untouched, StoppedBeforeStepUntouched, StepTold
<1> QED
  BY <1>6, <1>7, <1>8 DEF Sending

LEMMA SendingFailed ==
  ASSUME Typed, Sending, run.pc # "idle", NEW outcome \in {"known", "refused", "unknown"},
         NEW deleted \in SUBSET Files, Failed(outcome, deleted),
         UNCHANGED <<sent, effects>>,
         LateTold(outcome)
  PROVE  Sending'
<1>1. Report("failed", 1, outcome, deleted) /\ StepTold(1, deleted)
  BY DEF Failed, StepTold
<1> QED
  BY <1>1, SendingReport

LEMMA SendingReturned ==
  ASSUME Typed, Sending, run.pc # "idle", NEW deleted \in SUBSET Files,
         Returned(deleted), UNCHANGED <<sent, effects, late>>
  PROVE  Sending'
<1>1. Report(Ended, 1, Known, deleted)
  BY ReturnedReport
<1>2. Ended \in {"succeeded", "failed", "cancelled", "timed_out"}
      /\ Known \in {"none", "known", "refused", "unknown"} /\ (Known = "none" <=> Ended = "succeeded")
  BY EndedTyped
<1> HIDE DEF Ended, Known
<1>3. StepTold(1, deleted) /\ LateTold(Known)
  BY DEF StepTold, LateTold
<1> QED
  BY <1>1, <1>2, <1>3, SendingReport

\* The worker goes on before its command, or to it.
LEMMA SendingGoes ==
  ASSUME Typed, Sending, Goes, UNCHANGED <<sent, effects, late>>,
         run.pc \in {"preflight", "check", "send", "clean", "unlink"},
         run'.pc \in {"check", "send", "clean", "unlink"}
  PROVE  Sending'
BY DEF Sending, SentOnce, Untouched, LateUncertain, StoppedBeforeStepUntouched, Goes

LEMMA SendingPreflight == ASSUME Typed, Bound, Sending, Preflight PROVE Sending'
<1>1. /\ run.pc = "preflight" /\ UNCHANGED <<late, sent, effects>>
  BY PreflightCases
<1>5. StepTold(0, {}) /\ LateTold("known")
  BY <1>1 DEF StepTold, LateTold
<1>2. CASE Stopped /\ Report(T.stop, 0, "known", {})
  <2> DEFINE status == T.stop
  <2>1. status \in {"succeeded", "failed", "cancelled", "timed_out"} /\ status # "succeeded"
        /\ Report(status, 0, "known", {})
    BY <1>1, <1>2, EndedTyped
  <2> HIDE DEF status
  <2> QED
    BY <1>1, <1>5, <2>1, SendingReport
<1>3. CASE Report("failed", 0, "known", {})
  BY <1>1, <1>3, <1>5, SendingReport
<1>4. CASE Goes /\ run'.pc \in {"clean", "check"}
  BY <1>1, <1>4, SendingGoes
<1> QED
  BY <1>2, <1>3, <1>4, PreflightCases

LEMMA SendingCheck == ASSUME Typed, Sending, Check PROVE Sending'
<1>1. run.pc = "check" /\ UNCHANGED <<late, sent, effects>>
  BY DEF Check, device
<1>2. CASE run' = [run EXCEPT !.pc = "send"] /\ UNCHANGED tasks
  <2>1. run \in Runs
    BY DEF Typed
  <2>2. Goes /\ run'.pc = "send"
    BY <1>1, <1>2, <2>1 DEF Goes, Runs, Places
  <2> QED
    BY <1>1, <2>2, SendingGoes
<1>3. CASE Failed("known", {})
  BY <1>1, <1>3, SendingFailed DEF LateTold
<1> QED
  BY <1>2, <1>3 DEF Check

LEMMA SendingSend == ASSUME Typed, Sending, Send PROVE Sending'
<1>1. run.pc = "send" /\ UNCHANGED <<tasks, effects, late>>
  BY DEF Send
<1>2. run.task \in DOMAIN tasks /\ tasks[run.task].status = "running" /\ run \in Runs
  BY <1>1, RunningRow DEF T
<1>3. sent[run.task] = 0
  BY <1>1 DEF Sending, SentOnce, Untouched
<1>4. DOMAIN sent = DOMAIN tasks
  BY DEF Typed
<1>5. sent'[run.task] = 1 /\ \A t \in DOMAIN tasks : t # run.task => sent'[t] = sent[t]
  BY <1>2, <1>3, <1>4 DEF Send, Typed
<1>6. run'.pc = "sent" /\ run'.task = run.task
  BY <1>2 DEF Send, Runs
<1>7. SentOnce'
  <2>1. \A t \in DOMAIN tasks : sent'[t] <= 1
    BY <1>5 DEF Sending, SentOnce
  <2>2. ASSUME NEW t \in DOMAIN tasks, tasks[t].status = "queued" PROVE Untouched(t)'
    <3>1. t # run.task /\ Untouched(t)
      BY <1>2, <2>2 DEF Sending, SentOnce
    <3> QED
      BY <1>1, <1>5, <3>1 DEF Untouched
  <2> QED
    BY <1>1, <1>5, <1>6, <2>1, <2>2 DEF SentOnce
<1>8. LateUncertain'
  <2>1. ASSUME NEW t \in late PROVE sent'[t] > 0 /\ tasks[t].outcome \in Uncertain
    <3>1. t \in DOMAIN tasks /\ sent[t] > 0 /\ tasks[t].outcome \in Uncertain
      BY DEF Sending, LateUncertain, Typed
    <3> QED
      BY <1>5, <3>1
  <2> QED
    BY <1>1, <2>1 DEF LateUncertain
<1>9. StoppedBeforeStepUntouched'
  BY <1>1, <1>2, <1>5 DEF Sending, StoppedBeforeStepUntouched
<1> QED
  BY <1>7, <1>8, <1>9 DEF Sending

\* A command takes effect for a task that sent it.
LEMMA SendingLands ==
  ASSUME Typed, Sending, NEW t \in DOMAIN tasks, sent[t] > 0,
         effects' = effects \cup {t} \/ effects' = effects,
         late' \subseteq late, UNCHANGED <<tasks, sent>>,
         \/ run'.pc = run.pc /\ run'.task = run.task
         \/ run'.pc = "verify"
  PROVE  Sending'
<1>1. ASSUME NEW u \in DOMAIN tasks, Untouched(u) PROVE Untouched(u)'
  BY <1>1 DEF Untouched
<1>2. run.pc # "idle" => run.task \in DOMAIN tasks
  BY DEF Typed, OneRun
<1>3. SentOnce'
  BY <1>1, <1>2 DEF Sending, SentOnce
<1>4. LateUncertain'
  BY DEF Sending, LateUncertain
<1>5. StoppedBeforeStepUntouched'
  BY DEF Sending, StoppedBeforeStepUntouched
<1> QED
  BY <1>3, <1>4, <1>5 DEF Sending

LEMMA SendingAnswered == ASSUME Typed, Sending, Answered PROVE Sending'
<1>1. run.pc = "sent" /\ UNCHANGED <<tasks, sent, late>> /\ run \in Runs
      /\ run' = [run EXCEPT !.pc = "verify"]
  BY DEF Answered, Typed
<1>2. run.task \in DOMAIN tasks /\ sent[run.task] > 0
  BY <1>1, RunningRow DEF Sending, SentOnce
<1>3. effects' = effects \cup {run.task} \/ effects' = effects
  BY DEF Answered, Lands
<1>4. run'.pc = "verify"
  BY <1>1 DEF Runs
<1> QED
  BY <1>1, <1>2, <1>3, <1>4, SendingLands

LEMMA SendingLateEffect ==
  ASSUME Typed, Sending, NEW t \in DOMAIN tasks, LateEffect(t) PROVE Sending'
<1>1. t \in late /\ late' \subseteq late /\ effects' = effects \cup {t}
      /\ UNCHANGED <<tasks, sent>> /\ Moved
  BY DEF LateEffect, Lands
<1>2. sent[t] > 0
  BY <1>1 DEF Sending, LateUncertain
<1>3. run'.pc = run.pc /\ run'.task = run.task
  BY <1>1, MovedRun
<1> QED
  BY <1>1, <1>2, <1>3, SendingLands

LEMMA SendingCrash == ASSUME Typed, Sending, Crash PROVE Sending'
<1>1. /\ DOMAIN tasks' = DOMAIN tasks
      /\ \A t \in DOMAIN tasks : tasks'[t] = Recovered(t)
      /\ run' = NoRun
      /\ late' = IF run.pc = "sent" THEN late \cup {run.task} ELSE late
      /\ UNCHANGED <<sent, effects>>
  BY CrashCases
<1>2. run'.pc = "idle"
  BY <1>1, NoRunTyped
<1>3. \A t \in DOMAIN tasks :
        /\ tasks'[t].status \notin {"queued", "running"}
        /\ tasks'[t].deleted = tasks[t].deleted /\ tasks'[t].steps = tasks[t].steps
        /\ tasks[t].status \in {"queued", "running"} => tasks'[t].status = "failed"
        /\ tasks[t].status = "running" => tasks'[t].outcome = "unknown"
        /\ tasks[t].status \notin {"queued", "running"} => tasks'[t] = tasks[t]
  BY <1>1, RecoveredRow DEF Live
<1>4. SentOnce'
  BY <1>1, <1>2, <1>3 DEF Sending, SentOnce
<1>5. ASSUME NEW t \in late PROVE tasks'[t] = tasks[t] /\ t \in DOMAIN tasks
  <2>1. t \in DOMAIN tasks /\ tasks[t].outcome \in {"unknown", "refused"}
    BY DEF Typed, Sending, LateUncertain, Uncertain
  <2>2. tasks[t].status \notin {"queued", "running"}
    BY <2>1, RowTyped DEF OutcomeOK
  <2> QED
    BY <1>3, <2>1, <2>2
<1>6. run.pc = "sent" =>
        run.task \in DOMAIN tasks /\ tasks[run.task].status = "running"
        /\ sent[run.task] > 0
  BY DEF Typed, OneRun, Sending, SentOnce
<1>7. LateUncertain'
  BY <1>1, <1>3, <1>5, <1>6 DEF Sending, LateUncertain, Uncertain
<1>8. StoppedBeforeStepUntouched'
  BY <1>1, <1>3 DEF Sending, StoppedBeforeStepUntouched
<1> QED
  BY <1>4, <1>7, <1>8 DEF Sending

LEMMA SendingWork == ASSUME Typed, Bound, Sending, Work PROVE Sending'
<1>1. CASE Refused
  <2>1. /\ run.pc = "sent" /\ Failed("refused", {}) /\ UNCHANGED <<sent, effects>>
        /\ LateTold("refused")
    BY <1>1 DEF Refused, LateTold, Uncertain
  <2> QED
    BY <2>1, SendingFailed
<1>2. CASE TimedOut
  <2>1. /\ run.pc = "sent" /\ Failed("unknown", {}) /\ UNCHANGED <<sent, effects>>
        /\ LateTold("unknown")
    BY <1>2 DEF TimedOut, LateTold, Uncertain
  <2> QED
    BY <2>1, SendingFailed
<1>3. CASE Verify
  <2>1. run.pc = "verify" /\ UNCHANGED <<sent, effects, late>> /\ LateTold("known")
    BY <1>3 DEF Verify, device, LateTold
  <2> QED
    BY <1>3, <2>1, SendingFailed, SendingReturned DEF Verify
<1>4. CASE CleanEnd
  <2>1. run.deleted \in SUBSET Files
    BY DEF Typed, Runs
  <2> QED
    BY <1>4, <2>1, SendingReturned DEF CleanEnd, device
<1>5. CASE CleanCheck \/ CleanOne
  BY <1>5, CleanCheckCases, CleanOneCases, SendingGoes
<1>6. CASE CleanFails
  <2>1. run.deleted \in SUBSET Files
    BY DEF Typed, Runs
  <2>2. run.pc # "idle" /\ UNCHANGED <<sent, effects, late>> /\ LateTold("known")
    BY <1>6, CleanFailsCases DEF LateTold
  <2>3. PICK deleted \in SUBSET run.deleted : Failed("known", deleted)
    BY <1>6, CleanFailsCases
  <2>4. deleted \in SUBSET Files
    BY <2>1, <2>3
  <2> QED
    BY <2>2, <2>3, <2>4, SendingFailed
<1> QED
  BY <1>1, <1>2, <1>3, <1>4, <1>5, <1>6, SendingBegin, SendingPreflight, SendingCheck,
     SendingSend, SendingAnswered DEF Work

LEMMA SendingWorld == ASSUME Typed, Sending, World PROVE Sending'
<1>1. CASE AppChanges
  BY <1>1, MovedRun, SendingKept DEF AppChanges
<1>2. CASE ApkChanges
  BY <1>2, MovedRun, SendingKept DEF ApkChanges
<1>3. ASSUME NEW f \in Files, FileChanges(f) PROVE Sending'
  BY <1>3, FileRun, SendingKept DEF FileChanges, device
<1> QED
  BY <1>1, <1>2, <1>3, SendingCrash, SendingLateEffect DEF World

LEMMA SendingRequest == ASSUME Typed, Sending, Request PROVE Sending'
<1>1. ASSUME NEW kind \in Kinds, Prepare(kind) PROVE Sending'
  BY <1>1, SendingKept DEF Prepare, device
<1>2. ASSUME NEW a \in DOMAIN approvals, Expire(a) PROVE Sending'
  BY <1>2, SendingKept DEF Expire, device
<1>3. ASSUME NEW c \in Clients, NEW key \in Keys, RequestStop(c, key) PROVE Sending'
  BY <1>3, SendingKept DEF RequestStop, device
<1>4. ASSUME NEW c \in Clients, NEW key \in Keys, NEW a \in DOMAIN approvals,
             Claim(c, a, key)
      PROVE  Sending'
  BY <1>4, SendingKept DEF Claim, device
<1> QED
  BY <1>1, <1>2, <1>3, <1>4, SendingSubmit, SendingCancel, SendingDeadline DEF Request

LEMMA SendingNext == ASSUME Typed, Bound, Sending, Next PROVE Sending'
BY SendingWork, SendingWorld, SendingRequest DEF Next
-----------------------------------------------------------------------------
(* What was approved, and what the worker does with it.                     *)

\* What a task may touch does not change while it runs.
LEMMA ScopeKept ==
  ASSUME Typed, Bound, Keeps, run.pc # "idle", run'.task = run.task
  PROVE  Scope' = Scope /\ T'.kind = T.kind /\ T'.approval = T.approval
<1>1. run.task \in DOMAIN tasks
  BY RunningRow
<1>2. T'.kind = T.kind /\ T'.approval = T.approval
  BY <1>1 DEF T, Keeps, TasksKept, Kept
<1>3. T.approval \in 0..Len(approvals) /\ DOMAIN approvals = 1..Len(approvals)
      /\ Len(approvals) \in Nat
  BY <1>1 DEF Bound, T, Typed
<1>4. T.approval # 0 => approvals'[T.approval].scope = approvals[T.approval].scope
  BY <1>3 DEF Keeps, ApprovalsKept
<1>5. Scope' = IF T.approval = 0 THEN NoScope ELSE approvals'[T.approval].scope
  BY <1>2 DEF Scope
<1>6. Scope = IF T.approval = 0 THEN NoScope ELSE approvals[T.approval].scope
  BY DEF Scope
<1> QED
  BY <1>2, <1>4, <1>5, <1>6

LEMMA TargetKept ==
  ASSUME Typed, Bound, Keeps, run.pc # "idle", run'.task = run.task,
         UNCHANGED <<app, apk>>
  PROVE  ConfirmedTarget' <=> ConfirmedTarget
<1>1. Scope' = Scope /\ T'.kind = T.kind
  BY ScopeKept
<1>2. ConfirmedTarget' <=>
        CASE T'.kind = "app.install" -> apk' = (Scope').version
          [] T'.kind = "app.stop" -> app'.version \in Versions
          [] OTHER -> app'.version = (Scope').version
  BY DEF ConfirmedTarget
<1>3. ConfirmedTarget <=>
        CASE T.kind = "app.install" -> apk = Scope.version
          [] T.kind = "app.stop" -> app.version \in Versions
          [] OTHER -> app.version = Scope.version
  BY DEF ConfirmedTarget
<1> QED
  BY <1>1, <1>2, <1>3

\* The worker is not between its inspection and the answer.
LEMMA InScopeAway ==
  ASSUME run'.pc \notin {"send", "sent"} \/ run'.moved PROVE InScopeUnmoved'
BY DEF InScopeUnmoved

LEMMA InScopeSame ==
  ASSUME Typed, Bound, Keeps, InScopeUnmoved, UNCHANGED <<app, apk>>,
         run.pc \in {"send", "sent"} \/ run'.pc \notin {"send", "sent"},
         run'.task = run.task, run'.moved = run.moved
  PROVE  InScopeUnmoved'
BY TargetKept DEF InScopeUnmoved

LEMMA InScopeReport ==
  ASSUME NEW status, NEW steps, NEW outcome, NEW deleted,
         Report(status, steps, outcome, deleted)
  PROVE  InScopeUnmoved'
BY InScopeAway, NoRunTyped DEF Report

LEMMA InScopeFailed ==
  ASSUME NEW outcome, NEW deleted, Failed(outcome, deleted) PROVE InScopeUnmoved'
BY InScopeReport DEF Failed

LEMMA InScopeReturned ==
  ASSUME NEW deleted, Returned(deleted) PROVE InScopeUnmoved'
BY ReturnedReport, InScopeReport

LEMMA InScopeWork == ASSUME Typed, Bound, InScopeUnmoved, Work PROVE InScopeUnmoved'
<1>0. Keeps
  BY TypedNext DEF Next
<1>a. run \in Runs
  BY DEF Typed
<1>1. ASSUME NEW t \in DOMAIN tasks, Begin(t) PROVE InScopeUnmoved'
  BY <1>1, InScopeAway DEF Begin, NoRun
<1>2. CASE Preflight
  BY <1>2, PreflightCases, InScopeReport, InScopeAway
<1>3. CASE Check
  <2>1. CASE Failed("known", {})
    BY <2>1, InScopeFailed
  <2>2. CASE InScope /\ run' = [run EXCEPT !.pc = "send"] /\ UNCHANGED tasks
    <3>1. run'.task = run.task /\ run.pc # "idle" /\ UNCHANGED <<app, apk>>
      BY <1>3, <2>2, <1>a DEF Runs, Check, device
    <3>2. ConfirmedTarget
      BY <2>2 DEF InScope, ConfirmedTarget
    <3> QED
      BY <1>0, <3>1, <3>2, TargetKept DEF InScopeUnmoved
  <2> QED
    BY <1>3, <2>1, <2>2 DEF Check
<1>4. CASE Send
  <2>1. /\ run.pc = "send" /\ UNCHANGED <<app, apk>> /\ run'.task = run.task
        /\ run'.moved = run.moved
    BY <1>4, <1>a DEF Send, Runs
  <2> QED
    BY <1>0, <2>1, InScopeSame
<1>5. CASE Answered
  BY <1>5, <1>a, InScopeAway DEF Answered, Runs
<1>6. CASE Refused \/ TimedOut
  BY <1>6, InScopeFailed DEF Refused, TimedOut
<1>7. CASE Verify
  BY <1>7, InScopeFailed, InScopeReturned DEF Verify
<1>8. CASE CleanEnd
  BY <1>8, InScopeReturned DEF CleanEnd
<1>9. CASE CleanCheck \/ CleanOne
  BY <1>9, CleanCheckCases, CleanOneCases, InScopeAway
<1>10. CASE CleanFails
  BY <1>10, CleanFailsCases, InScopeFailed
<1> QED
  BY <1>1, <1>2, <1>3, <1>4, <1>5, <1>6, <1>7, <1>8, <1>9, <1>10 DEF Work

LEMMA InScopeMoved == ASSUME Typed, Moved PROVE InScopeUnmoved'
BY MovedRun, InScopeAway

LEMMA InScopeWorld == ASSUME Typed, Bound, InScopeUnmoved, World PROVE InScopeUnmoved'
<1>0. Keeps
  BY TypedNext DEF Next
<1>1. CASE AppChanges \/ ApkChanges
  BY <1>1, InScopeMoved DEF AppChanges, ApkChanges
<1>2. CASE Crash
  BY <1>2, CrashCases, NoRunTyped, InScopeAway
<1>3. ASSUME NEW f \in Files, FileChanges(f) PROVE InScopeUnmoved'
  BY <1>0, <1>3, FileRun, InScopeSame, InScopeAway DEF FileChanges, device
<1>4. ASSUME NEW t \in DOMAIN tasks, LateEffect(t) PROVE InScopeUnmoved'
  BY <1>4, InScopeMoved DEF LateEffect
<1> QED
  BY <1>1, <1>2, <1>3, <1>4 DEF World

LEMMA RequestLeavesWorker ==
  ASSUME Request PROVE UNCHANGED <<run, app, apk, files, effects, late>>
BY DEF Request, Prepare, Expire, RequestStop, Claim, Submit, Cancel, Deadline, device

LEMMA InScopeNext == ASSUME Typed, Bound, InScopeUnmoved, Next PROVE InScopeUnmoved'
<1>1. CASE Request
  <2>1. Keeps
    BY <1>1, TypedNext DEF Next
  <2>2. UNCHANGED <<run, app, apk>>
    BY <1>1, RequestLeavesWorker
  <2> QED
    BY <2>1, <2>2, InScopeSame
<1> QED
  BY <1>1, InScopeWork, InScopeWorld DEF Next

\* An artifact that is deleted stays deleted, and a report only lists such.
Deleted == Cleaning /\ TombstonesAreTrue

LEMMA DeletedKept ==
  ASSUME Typed, Bound, Keeps, Deleted,
         \A f \in Files : files[f] = "deleted" => files'[f] = "deleted",
         \A t \in DOMAIN tasks' : \A f \in tasks'[t].deleted : files'[f] = "deleted",
         \A f \in run'.deleted : files'[f] = "deleted",
         run'.pc \in InCleanup =>
           /\ run.pc \in InCleanup /\ run'.task = run.task
           /\ run'.rest \subseteq run.rest,
         Watched'
  PROVE  Deleted'
<1>1. run'.pc \in InCleanup => Scope' = Scope
  BY ScopeKept DEF InCleanup
<1> QED
  BY <1>1 DEF Deleted, Cleaning, TombstonesAreTrue

LEMMA WatchedAway == ASSUME run'.pc # "unlink" PROVE Watched'
BY DEF Watched

LEMMA WatchedKept ==
  ASSUME Watched, run'.pc = run.pc, run'.rest = run.rest, run.moved => run'.moved,
         run.pc = "unlink" /\ ~run'.moved => files'[Next1] = files[Next1]
  PROVE  Watched'
<1>1. Next1' = Next1
  BY DEF Next1
<1> QED
  BY <1>1 DEF Watched

LEMMA ListedKept ==
  ASSUME Typed, Deleted,
         \A f \in Files : files[f] = "deleted" => files'[f] = "deleted",
         NEW t \in DOMAIN tasks
  PROVE  \A f \in tasks[t].deleted : files'[f] = "deleted"
<1>1. tasks[t].deleted \in SUBSET Files
  BY RowTyped DEF Rows
<1> QED
  BY <1>1 DEF Deleted, TombstonesAreTrue

LEMMA RunListedKept ==
  ASSUME Typed, Deleted,
         \A f \in Files : files[f] = "deleted" => files'[f] = "deleted"
  PROVE  \A f \in run.deleted : files'[f] = "deleted"
<1>1. run.deleted \in SUBSET Files
  BY DEF Typed, Runs
<1> QED
  BY <1>1 DEF Deleted, Cleaning

LEMMA DeletedReport ==
  ASSUME Typed, Bound, Keeps, Deleted, run.pc # "idle", UNCHANGED files,
         NEW status \in {"succeeded", "failed", "cancelled", "timed_out"},
         NEW steps \in 0..1, NEW outcome \in {"none", "known", "refused", "unknown"},
         NEW deleted \in SUBSET run.deleted, outcome = "none" <=> status = "succeeded",
         Report(status, steps, outcome, deleted)
  PROVE  Deleted'
<1>1. deleted \in SUBSET Files
  BY DEF Typed, Runs
<1>2. /\ Len(tasks') = Len(tasks) /\ tasks' \in Seq(Rows) /\ run' = NoRun
      /\ \A t \in DOMAIN tasks : t # run.task => tasks'[t] = tasks[t]
      /\ tasks'[run.task].deleted = deleted
  BY <1>1, Ending
<1>3. DOMAIN tasks' = DOMAIN tasks
  BY <1>2 DEF Typed
<1>4. \A t \in DOMAIN tasks' : \A f \in tasks'[t].deleted : files'[f] = "deleted"
  BY <1>2, <1>3 DEF Deleted, TombstonesAreTrue, Cleaning
<1>5. run'.pc = "idle" /\ run'.deleted = {}
  BY <1>2 DEF NoRun
<1> QED
  BY <1>4, <1>5, DeletedKept, WatchedAway DEF InCleanup

LEMMA DeletedFailed ==
  ASSUME Typed, Bound, Keeps, Deleted, run.pc # "idle", UNCHANGED files,
         NEW outcome \in {"known", "refused", "unknown"}, NEW deleted \in SUBSET run.deleted,
         Failed(outcome, deleted)
  PROVE  Deleted'
BY DeletedReport DEF Failed

LEMMA DeletedReturned ==
  ASSUME Typed, Bound, Keeps, Deleted, run.pc # "idle", UNCHANGED files,
         NEW deleted \in SUBSET run.deleted, Returned(deleted)
  PROVE  Deleted'
<1>1. Report(Ended, 1, Known, deleted)
  BY ReturnedReport
<1>2. Ended \in {"succeeded", "failed", "cancelled", "timed_out"}
      /\ Known \in {"none", "known", "refused", "unknown"} /\ (Known = "none" <=> Ended = "succeeded")
  BY EndedTyped
<1> HIDE DEF Ended, Known
<1> QED
  BY <1>1, <1>2, DeletedReport

\* The steps that delete nothing and report nothing.
LEMMA DeletedSame ==
  ASSUME Typed, Bound, Keeps, Deleted, UNCHANGED <<tasks, files>>,
         run'.deleted = run.deleted,
         run'.pc \in InCleanup =>
           /\ run.pc \in InCleanup /\ run'.task = run.task
           /\ run'.rest \subseteq run.rest,
         Watched'
  PROVE  Deleted'
<1>1. \A t \in DOMAIN tasks' : \A f \in tasks'[t].deleted : files'[f] = "deleted"
  BY DEF Deleted, TombstonesAreTrue
<1>2. \A f \in run'.deleted : files'[f] = "deleted"
  BY DEF Deleted, Cleaning
<1> QED
  BY <1>1, <1>2, DeletedKept

LEMMA DeletedPreflight == ASSUME Typed, Bound, Deleted, Preflight PROVE Deleted'
<1>1. Keeps /\ run.pc = "preflight" /\ UNCHANGED files
  BY TypedPreflight, PreflightCases
<1>2. CASE Stopped /\ Report(T.stop, 0, "known", {})
  <2> DEFINE status == T.stop
  <2>1. status \in {"succeeded", "failed", "cancelled", "timed_out"} /\ status # "succeeded"
        /\ Report(status, 0, "known", {})
    BY <1>1, <1>2, EndedTyped
  <2> HIDE DEF status
  <2> QED
    BY <1>1, <2>1, DeletedReport
<1>3. CASE Report("failed", 0, "known", {})
  BY <1>1, <1>3, DeletedReport
<1>4. CASE /\ Goes /\ run'.pc \in {"clean", "check"}
           /\ run'.rest = Scope.files /\ run'.deleted = run.deleted
  <2>1. Scope' = Scope
    BY <1>1, <1>4, ScopeKept DEF Goes
  <2>2. Cleaning'
    BY <1>1, <1>4, <2>1, WatchedAway DEF Deleted, Cleaning
  <2>3. TombstonesAreTrue'
    BY <1>1, <1>4 DEF Deleted, TombstonesAreTrue, Goes
  <2> QED
    BY <2>2, <2>3 DEF Deleted
<1> QED
  BY <1>2, <1>3, <1>4, PreflightCases

LEMMA DeletedCleanCheck == ASSUME Typed, Bound, Deleted, CleanCheck PROVE Deleted'
<1>1. Keeps
  BY TypedCleanCheck
<1>2. /\ run.pc = "clean" /\ UNCHANGED <<tasks, files>> /\ run'.task = run.task
      /\ run'.rest = run.rest /\ run'.deleted = run.deleted
      /\ files[Next1] = "old"
  BY CleanCheckCases DEF Goes
<1>3. Next1' = Next1
  BY <1>2 DEF Next1
<1>4. Watched'
  BY <1>2, <1>3 DEF Watched
<1> QED
  BY <1>1, <1>2, <1>4, DeletedSame DEF InCleanup

LEMMA DeletedCleanOne == ASSUME Typed, Bound, Deleted, CleanOne PROVE Deleted'
<1>1. Keeps
  BY TypedCleanOne
<1>2. /\ run.pc = "unlink" /\ UNCHANGED tasks /\ run'.task = run.task
      /\ run'.pc = "clean" /\ Next1 \in Files /\ files' = [files EXCEPT ![Next1] = "deleted"]
      /\ run'.rest = run.rest \ {Next1} /\ run'.deleted = run.deleted \cup {Next1}
  BY CleanOneCases DEF Goes
<1> HIDE DEF Next1
<1>3. \A f \in Files : files[f] = "deleted" => files'[f] = "deleted"
  BY <1>2 DEF Typed
<1>4. files'[Next1] = "deleted"
  BY <1>2 DEF Typed
<1>5. \A f \in run'.deleted : files'[f] = "deleted"
  BY <1>2, <1>3, <1>4, RunListedKept
<1>6. \A t \in DOMAIN tasks' : \A f \in tasks'[t].deleted : files'[f] = "deleted"
  BY <1>2, <1>3, ListedKept
<1>7. run'.rest \subseteq run.rest
  BY <1>2
<1> QED
  BY <1>1, <1>2, <1>3, <1>5, <1>6, <1>7, DeletedKept, WatchedAway DEF InCleanup

LEMMA DeletedWork == ASSUME Typed, Bound, Deleted, Work PROVE Deleted'
<1>0. Keeps
  BY TypedNext DEF Next
<1>a. run \in Runs
  BY DEF Typed
<1>1. ASSUME NEW t \in DOMAIN tasks, Begin(t) PROVE Deleted'
  <2>1. UNCHANGED files /\ run'.pc = "preflight" /\ run'.deleted = {}
    BY <1>1 DEF Begin, NoRun
  <2>2. DOMAIN tasks' = DOMAIN tasks
        /\ \A u \in DOMAIN tasks : tasks'[u].deleted = tasks[u].deleted
    BY <1>1, RowTyped DEF Begin, Rows, Typed
  <2>3. \A u \in DOMAIN tasks' : \A f \in tasks'[u].deleted : files'[f] = "deleted"
    BY <2>1, <2>2 DEF Deleted, TombstonesAreTrue
  <2> QED
    BY <1>0, <2>1, <2>3, DeletedKept, WatchedAway DEF InCleanup
<1>3. CASE Check
  <2>1. run.pc = "check" /\ UNCHANGED files
    BY <1>3 DEF Check
  <2>2. CASE Failed("known", {})
    BY <1>0, <2>1, <2>2, DeletedFailed
  <2>3. CASE run' = [run EXCEPT !.pc = "send"] /\ UNCHANGED tasks
    <3>1. run'.pc = "send" /\ run'.deleted = run.deleted
      BY <2>3, <1>a DEF Runs
    <3> QED
      BY <1>0, <2>1, <2>3, <3>1, DeletedSame, WatchedAway DEF InCleanup
  <2> QED
    BY <1>3, <2>2, <2>3 DEF Check
<1>4. CASE Send \/ Answered
  <2>1. /\ UNCHANGED <<tasks, files>> /\ run'.pc \in {"sent", "verify"}
        /\ run'.deleted = run.deleted
    BY <1>4, <1>a DEF Send, Answered, Runs
  <2> QED
    BY <1>0, <2>1, DeletedSame, WatchedAway DEF InCleanup
<1>6. CASE Refused \/ TimedOut
  BY <1>0, <1>6, DeletedFailed DEF Refused, TimedOut
<1>7. CASE Verify
  BY <1>0, <1>7, DeletedFailed, DeletedReturned DEF Verify
<1>8. CASE CleanEnd
  BY <1>0, <1>8, DeletedReturned DEF CleanEnd
<1>10. CASE CleanFails
  BY <1>0, <1>10, CleanFailsCases, DeletedFailed
<1> QED
  BY <1>1, DeletedPreflight, <1>3, <1>4, <1>6, <1>7, <1>8, DeletedCleanCheck,
     DeletedCleanOne, <1>10 DEF Work

LEMMA DeletedWorld == ASSUME Typed, Bound, Deleted, World PROVE Deleted'
<1>0. Keeps
  BY TypedNext DEF Next
<1>a. Watched
  BY DEF Deleted, Cleaning
<1>1. CASE AppChanges \/ ApkChanges
  <2>1. UNCHANGED <<tasks, files>> /\ Moved
    BY <1>1 DEF AppChanges, ApkChanges
  <2> QED
    BY <1>0, <1>a, <2>1, MovedRun, WatchedKept, DeletedSame
<1>2. CASE Crash
  <2>1. /\ DOMAIN tasks' = DOMAIN tasks /\ run' = NoRun /\ UNCHANGED files
        /\ \A t \in DOMAIN tasks : tasks'[t] = Recovered(t)
    BY <1>2, CrashCases
  <2>2. \A t \in DOMAIN tasks : tasks'[t].deleted = tasks[t].deleted
    BY <2>1, RecoveredRow
  <2>3. \A t \in DOMAIN tasks' : \A f \in tasks'[t].deleted : files'[f] = "deleted"
    BY <2>1, <2>2 DEF Deleted, TombstonesAreTrue
  <2>4. run'.pc = "idle" /\ run'.deleted = {}
    BY <2>1 DEF NoRun
  <2> QED
    BY <1>0, <2>1, <2>3, <2>4, DeletedKept, WatchedAway DEF InCleanup
<1>3. ASSUME NEW f \in Files, FileChanges(f) PROVE Deleted'
  <2>1. /\ UNCHANGED tasks /\ run'.pc = run.pc /\ run'.task = run.task
        /\ run'.rest = run.rest /\ run'.deleted = run.deleted
    BY <1>3, FileRun DEF FileChanges
  <2>2. \A g \in Files : files[g] = "deleted" => files'[g] = "deleted"
    BY <1>3 DEF FileChanges, Typed
  <2>3. \A t \in DOMAIN tasks' : \A g \in tasks'[t].deleted : files'[g] = "deleted"
    BY <2>1, <2>2, ListedKept
  <2>4. \A g \in run'.deleted : files'[g] = "deleted"
    BY <2>1, <2>2, RunListedKept
  <2>5. Watched'
    <3>1. f # Next1 => files'[Next1] = files[Next1]
      BY <1>3 DEF FileChanges, Typed
    <3> QED
      BY <1>3, <1>a, <3>1, FileRun, WatchedKept
  <2> QED
    BY <1>0, <2>1, <2>2, <2>3, <2>4, <2>5, DeletedKept
<1>4. ASSUME NEW t \in DOMAIN tasks, LateEffect(t) PROVE Deleted'
  <2>1. UNCHANGED <<tasks, files>> /\ Moved
    BY <1>4 DEF LateEffect
  <2> QED
    BY <1>0, <1>a, <2>1, MovedRun, WatchedKept, DeletedSame
<1> QED
  BY <1>1, <1>2, <1>3, <1>4 DEF World

LEMMA DeletedRequest == ASSUME Typed, Bound, Deleted, Request PROVE Deleted'
<1>0. Keeps
  BY TypedNext DEF Next
<1>1. UNCHANGED <<run, files>>
  BY RequestLeavesWorker
<1>w. Watched'
  BY <1>1, WatchedKept DEF Deleted, Cleaning
<1>2. CASE UNCHANGED tasks
  BY <1>0, <1>1, <1>w, <1>2, DeletedSame
<1>3. ASSUME NEW t \in DOMAIN tasks, Cancel(t) \/ Deadline(t)
      PROVE  \A u \in DOMAIN tasks' : \A f \in tasks'[u].deleted : files'[f] = "deleted"
  <2>1. tasks[t] \in Rows /\ tasks \in Seq(Rows)
    BY DEF Typed
  <2>2. CASE Cancel(t)
    <3> DEFINE row == IF tasks[t].status = "queued"
                      THEN [tasks[t] EXCEPT !.status = "cancelled", !.outcome = "known"]
                      ELSE [tasks[t] EXCEPT !.stop = "cancelled"]
    <3>1. tasks' = [tasks EXCEPT ![t] = row]
      BY <2>2 DEF Cancel
    <3>2. row.deleted = tasks[t].deleted
      BY <2>1 DEF Rows
    <3> HIDE DEF row
    <3>3. DOMAIN tasks' = DOMAIN tasks
          /\ \A u \in DOMAIN tasks : tasks'[u].deleted = tasks[u].deleted
      BY <2>1, <3>1, <3>2
    <3> QED
      BY <1>1, <3>3 DEF Deleted, TombstonesAreTrue
  <2>3. CASE Deadline(t)
    <3> DEFINE row == [tasks[t] EXCEPT !.stop = "timed_out"]
    <3>1. tasks' = [tasks EXCEPT ![t] = row]
      BY <2>3 DEF Deadline
    <3>2. row.deleted = tasks[t].deleted
      BY <2>1 DEF Rows
    <3> HIDE DEF row
    <3>3. DOMAIN tasks' = DOMAIN tasks
          /\ \A u \in DOMAIN tasks : tasks'[u].deleted = tasks[u].deleted
      BY <2>1, <3>1, <3>2
    <3> QED
      BY <1>1, <3>3 DEF Deleted, TombstonesAreTrue
  <2> QED
    BY <1>3, <2>2, <2>3
<1>4. ASSUME NEW c \in Clients, Submit(c), Created(c)
      PROVE  \A u \in DOMAIN tasks' : \A f \in tasks'[u].deleted : files'[f] = "deleted"
  <2>1. clients[c] # Idle
    BY <1>4 DEF Submit
  <2>2. /\ \A t \in DOMAIN tasks : tasks'[t] = tasks[t]
        /\ tasks'[Len(tasks) + 1] = Queued(c)
        /\ DOMAIN tasks' = DOMAIN tasks \cup {Len(tasks) + 1}
    BY <1>4, <2>1, CreatedRow
  <2>3. Queued(c).deleted = {}
    BY DEF Queued
  <2> QED
    BY <1>1, <2>2, <2>3 DEF Deleted, TombstonesAreTrue
<1>5. \A f \in run'.deleted : files'[f] = "deleted"
  BY <1>1 DEF Deleted, Cleaning
<1>6. ASSUME ~(UNCHANGED tasks)
      PROVE  \A u \in DOMAIN tasks' : \A f \in tasks'[u].deleted : files'[f] = "deleted"
  <2>1. \/ \E t \in DOMAIN tasks : Cancel(t) \/ Deadline(t)
        \/ \E c \in Clients : Submit(c)
    BY <1>6 DEF Request, Prepare, Expire, RequestStop, Claim
  <2> QED
    BY <1>3, <1>4, <1>6, <2>1, SubmitCases
<1>7. CASE ~(UNCHANGED tasks)
  BY <1>0, <1>1, <1>w, <1>5, <1>6, <1>7, DeletedKept
<1> QED
  BY <1>2, <1>7

LEMMA DeletedNext == ASSUME Typed, Bound, Deleted, Next PROVE Deleted'
BY DeletedWork, DeletedWorld, DeletedRequest DEF Next
-----------------------------------------------------------------------------
(* The invariant.                                                           *)

LEMMA InvParts == Inv <=> Typed /\ OneKey /\ Sending /\ InScopeUnmoved /\ Deleted
BY DEF Inv, OneKey, Sending, Deleted

LEMMA InvPartsNext ==
  Typed' /\ OneKey' /\ Sending' /\ InScopeUnmoved' /\ Deleted' => Inv'
BY DEF Inv, OneKey, Sending, Deleted

LEMMA InvInit == Init => Inv
<1> SUFFICES ASSUME Init PROVE Inv
  OBVIOUS
<1>1. Typed
  BY TypedInit
<1>2. tasks = <<>> /\ run.pc = "idle" /\ late = {} /\ run.deleted = {}
      /\ \A c \in Clients : clients[c] = Idle
  BY DEF Init, NoRun
<1>3. OneKey
  BY <1>2 DEF OneKey, Claimed, Bound, KeysDistinct
<1>4. Sending
  BY <1>2 DEF Sending, SentOnce, LateUncertain, StoppedBeforeStepUntouched
<1>5. InScopeUnmoved /\ Deleted
  BY <1>2 DEF InScopeUnmoved, Deleted, Cleaning, Watched, InCleanup, TombstonesAreTrue
<1> QED
  BY <1>1, <1>3, <1>4, <1>5, InvParts

LEMMA InvNext == Inv /\ Next => Inv'
<1> SUFFICES ASSUME Inv, Next PROVE Inv'
  OBVIOUS
<1>1. Typed /\ Bound /\ OneKey /\ Sending /\ InScopeUnmoved /\ Deleted
  BY InvParts DEF OneKey
<1>2. Typed'
  BY <1>1, TypedNext DEF Keeps
<1> QED
  BY <1>1, <1>2, OneKeyNext, SendingNext, InScopeNext, DeletedNext, InvPartsNext

LEMMA InvStutter == Inv /\ UNCHANGED vars => Inv'
<1> SUFFICES ASSUME Inv, UNCHANGED vars PROVE Inv'
  OBVIOUS
<1> USE DEF vars
<1>1. Typed'
  BY DEF Inv, Typed, OneRun
<1>2. OneKey'
  BY DEF Inv, OneKey, Claimed, Bound, KeysDistinct
<1>3. Sending'
  BY DEF Inv, Sending, SentOnce, Untouched, LateUncertain, StoppedBeforeStepUntouched
<1>4. InScopeUnmoved'
  BY DEF Inv, InScopeUnmoved, ConfirmedTarget, T, Scope
<1>5. Deleted'
  BY DEF Inv, Deleted, Cleaning, Watched, Next1, InCleanup, TombstonesAreTrue, T, Scope
<1> QED
  BY <1>1, <1>2, <1>3, <1>4, <1>5, InvPartsNext

LEMMA InvInductive == Spec => []Inv
<1>1. Inv /\ [Next]_vars => Inv'
  BY InvNext, InvStutter
<1> QED
  BY InvInit, <1>1, PTL DEF Spec

-----------------------------------------------------------------------------
(* The theorems.                                                            *)

(* The state of the approvals, the tasks and the worker is always of its      *)
(* type, and a task has an outcome exactly when it ended without success.     *)
THEOREM TypeCorrect == Spec => []TypeOK
<1>1. Inv => TypeOK
  BY TypedGivesTypes DEF Inv
<1> QED
  BY InvInductive, <1>1, PTL

(* Of the tasks that name an approval there is at most one.                  *)
LEMMA OneTask ==
  ASSUME Inv, NEW a \in DOMAIN approvals PROVE Cardinality(ByApproval(a)) <= 1
<1>1. a # 0
  BY DEF Inv, Typed
<1>2. \A t \in ByApproval(a) : t \in DOMAIN tasks /\ tasks[t].key = approvals[a].key
  BY <1>1 DEF ByApproval, Inv, Bound
<1>3. \A t, u \in ByApproval(a) : t = u
  BY <1>2 DEF Inv, KeysDistinct
<1>4. CASE ByApproval(a) = {}
  BY <1>4, FS_EmptySet
<1>5. CASE ByApproval(a) # {}
  <2>1. PICK t \in ByApproval(a) : TRUE
    BY <1>5
  <2>2. ByApproval(a) = {t}
    BY <1>3, <2>1
  <2> QED
    BY <2>2, FS_Singleton
<1> QED
  BY <1>4, <1>5

(* An approval is used for one task, which has the key that claimed it and    *)
(* sends its command at most once, whatever is retried, expires or restarts.  *)
THEOREM ApprovalsUsedOnce == Spec => []ApprovalUsedOnce
<1>1. Inv => ApprovalUsedOnce
  <2> SUFFICES ASSUME Inv, NEW a \in DOMAIN approvals
               PROVE  /\ Cardinality(ByApproval(a)) <= 1
                      /\ \A t \in ByApproval(a) :
                           sent[t] <= 1 /\ tasks[t].key = approvals[a].key
    BY DEF ApprovalUsedOnce
  <2>1. a # 0
    BY DEF Inv, Typed
  <2>2. \A t \in ByApproval(a) : sent[t] <= 1 /\ tasks[t].key = approvals[a].key
    BY <2>1 DEF ByApproval, Inv, Bound, SentOnce
  <2> QED
    BY <2>2, OneTask
<1> QED
  BY InvInductive, <1>1, PTL

(* An artifact that a cleanup reports as deleted is gone and stays gone.      *)
THEOREM ReportsOfDeletionAreTrue == Spec => []TombstonesAreTrue
<1>1. Inv => TombstonesAreTrue
  BY DEF Inv
<1> QED
  BY InvInductive, <1>1, PTL

(* A task that was cancelled or timed out before its first step never sent    *)
(* its command and never takes effect.                                      *)
THEOREM StoppedTasksUntouched == Spec => []StoppedBeforeStepUntouched
<1>1. Inv => StoppedBeforeStepUntouched
  BY DEF Inv
<1> QED
  BY InvInductive, <1>1, PTL

\* The two steps in which a command takes effect.
LEMMA EffectSteps ==
  ASSUME Next, effects' # effects
  PROVE  Answered \/ \E t \in DOMAIN tasks : LateEffect(t)
BY DEF Next, World, Request, Work, AppChanges, ApkChanges, Crash, FileChanges, Prepare,
       Expire, RequestStop, Claim, Submit, Cancel, Deadline, Begin, Preflight, Check,
       Send, Refused, TimedOut, Verify, CleanEnd, CleanCheck, CleanOne, CleanFails,
       device

(* A command takes effect on what the user confirmed, unless the target moved *)
(* between the task's own inspection and the command.                        *)
THEOREM EffectsInScope == Spec => EffectInScope
<1>1. Inv /\ [Next]_vars =>
        [run.pc = "sent" /\ effects' # effects /\ run.task \in effects'
           /\ ~run.moved => ConfirmedTarget]_vars
  BY DEF Inv, InScopeUnmoved
<1> QED
  BY InvInductive, <1>1, PTL DEF Spec, EffectInScope

(* A command takes effect while its task runs.  A command that lands later     *)
(* belongs to a task that was reported with an unknown outcome, or with the     *)
(* failure of its command; after any other report nothing happens any more.     *)
THEOREM LateEffectsTold == Spec => LateOnlyIfUnknownOrRefused
<1>1. ASSUME Inv, Next, NEW t \in effects' \ effects
      PROVE  t = run.task \/ tasks[t].outcome \in {"unknown", "refused"}
  <2>1. effects' # effects
    BY <1>1
  <2>2. CASE Answered
    BY <1>1, <2>2 DEF Answered, Lands
  <2>3. ASSUME NEW u \in DOMAIN tasks, LateEffect(u)
        PROVE  t = run.task \/ tasks[t].outcome \in {"unknown", "refused"}
    <3>1. t = u /\ u \in late
      BY <1>1, <2>3 DEF LateEffect, Lands
    <3> QED
      BY <1>1, <3>1 DEF Inv, LateUncertain, Uncertain
  <2> QED
    BY <1>1, <2>1, <2>2, <2>3, EffectSteps
<1>2. Inv /\ [Next]_vars =>
        [\A t \in effects' \ effects :
           t = run.task \/ tasks[t].outcome \in {"unknown", "refused"}]_vars
  BY <1>1
<1> QED
  BY InvInductive, <1>2, PTL DEF Spec, LateOnlyIfUnknownOrRefused

\* The one step in which an artifact is deleted.
LEMMA DeletionStep ==
  ASSUME Typed, Next, NEW f \in Files, files'[f] = "deleted", files[f] # "deleted"
  PROVE  CleanOne
<1>1. CASE Request
  BY <1>1, RequestLeavesWorker
<1>2. CASE World
  <2>1. ASSUME NEW g \in Files, FileChanges(g) PROVE FALSE
    BY <2>1 DEF FileChanges, Typed
  <2> QED
    BY <1>2, <2>1 DEF World, AppChanges, ApkChanges, Crash, LateEffect
<1>3. CASE Work
  BY <1>3 DEF Work, Begin, Preflight, Check, Send, Answered, Refused, TimedOut,
              Verify, CleanEnd, CleanCheck, CleanFails
<1> QED
  BY <1>1, <1>2, <1>3 DEF Next

(* A cleanup deletes an artifact only if the approval of its task lists it, and *)
(* what it deletes is what the preview saw, unless it was replaced between the   *)
(* last look at it and the unlink.                                            *)
THEOREM OnlyPreviewedDeleted == Spec => DeletesOnlyPreviewed
<1>1. ASSUME Inv, Next, NEW f \in Files, files'[f] = "deleted", files[f] # "deleted"
      PROVE  f \in Scope.files /\ (files[f] = "old" \/ run.moved)
  <2>1. Typed /\ CleanOne
    BY <1>1, DeletionStep DEF Inv
  <2>2. /\ run.pc = "unlink" /\ Next1 \in run.rest
        /\ files' = [files EXCEPT ![Next1] = "deleted"]
    BY <2>1, CleanOneCases
  <2> HIDE DEF Next1
  <2>3. f = Next1
    BY <1>1, <2>1, <2>2 DEF Typed
  <2> QED
    BY <1>1, <2>2, <2>3 DEF Inv, Cleaning, Watched, InCleanup
<1>2. Inv /\ [Next]_vars =>
        [\A f \in Files : files'[f] = "deleted" /\ files[f] # "deleted"
           => f \in Scope.files /\ (files[f] = "old" \/ run.moved)]_vars
  BY <1>1
<1> QED
  BY InvInductive, <1>2, PTL DEF Spec, DeletesOnlyPreviewed
-----------------------------------------------------------------------------
(* What a success says of the device.                                       *)

\* An approval, its claims and its tasks are of one kind; only a stop has none.
Fits(kind, a) ==
  /\ a = 0 => kind = "app.stop"
  /\ a # 0 => approvals[a].kind = kind

OneKind ==
  /\ \A c \in Clients :
       clients[c] # Idle => Fits(clients[c].kind, clients[c].approval)
  /\ \A t \in DOMAIN tasks : Fits(tasks[t].kind, tasks[t].approval)
  /\ run.pc \in InCleanup => T.kind = Cleanup

\* Nobody has changed anything: no command has taken effect yet, and the world
\* left application and file alone.
Pristine == bounds.changes = 0 /\ effects = {}

\* What the preview of an approval found of the application.
Found(kind, scope) ==
  /\ kind = "app.install" /\ ~scope.replace => app.version = "absent"
  /\ kind = "app.uninstall" => app.version # "absent"

\* Operations whose verification tells whether the command took effect.
Telling(t) ==
  \/ tasks[t].kind \in {"app.uninstall", "app.data.clear"}
  \/ /\ tasks[t].kind = "app.install"
     /\ ~approvals[tasks[t].approval].scope.replace

\* As long as nothing changed the application is as every preview found it, so
\* that no verification can pass.
AsFound ==
  Pristine =>
    /\ \A a \in DOMAIN approvals : Found(approvals[a].kind, approvals[a].scope)
    /\ run.pc = "verify" => T.kind # "app.data.clear"
    /\ \A t \in DOMAIN tasks : tasks[t].status = "succeeded" => ~Telling(t)

SuccessInv == OneKind /\ AsFound

LEMMA Prepared ==
  ASSUME Typed, NEW kind \in Kinds, Prepare(kind)
  PROVE  /\ Len(approvals') = Len(approvals) + 1
         /\ \A a \in DOMAIN approvals : approvals'[a] = approvals[a]
         /\ approvals'[Len(approvals) + 1].kind = kind
         /\ approvals'[Len(approvals) + 1].scope \in Previews(kind)
         /\ UNCHANGED <<clients, tasks, run, app, effects, bounds>>
<1>1. PICK scope \in Previews(kind) :
        approvals' = Append(approvals,
          [kind |-> kind, scope |-> scope, key |-> "none", state |-> "held"])
  BY DEF Prepare
<1> DEFINE new == [kind |-> kind, scope |-> scope, key |-> "none", state |-> "held"]
<1>2. new.kind = kind /\ new.scope = scope
  OBVIOUS
<1>3. approvals' = Append(approvals, new) /\ approvals \in Seq(Approved)
  BY <1>1 DEF Typed
<1>4. new \in Approved
  BY ScopeOfPreview DEF Approved
<1> HIDE DEF new
<1>5. /\ Len(approvals') = Len(approvals) + 1
      /\ \A a \in DOMAIN approvals : approvals'[a] = approvals[a]
      /\ approvals'[Len(approvals) + 1] = new
  BY <1>3, <1>4
<1>6. UNCHANGED <<clients, tasks, run, app, effects, bounds>>
  BY DEF Prepare, device
<1> QED
  BY <1>2, <1>5, <1>6

\* A step makes at most one approval; the others keep what they were given for.
LEMMA ApprovalStep ==
  ASSUME Typed, Bound, Next
  PROVE  /\ \A a \in DOMAIN approvals :
              /\ a \in DOMAIN approvals'
              /\ approvals'[a].kind = approvals[a].kind
              /\ approvals'[a].scope = approvals[a].scope
         /\ \/ DOMAIN approvals' = DOMAIN approvals
            \/ \E kind \in Kinds : Prepare(kind)
<1> DEFINE Same == /\ DOMAIN approvals' = DOMAIN approvals
                   /\ \A a \in DOMAIN approvals :
                        /\ approvals'[a].kind = approvals[a].kind
                        /\ approvals'[a].scope = approvals[a].scope
<1>0. approvals \in Seq(Approved)
  BY DEF Typed
<1>1. CASE UNCHANGED approvals
  BY <1>1
<1>2. CASE Crash
  <2>1. /\ approvals' \in Seq(Approved) /\ Len(approvals') = Len(approvals)
        /\ \A a \in DOMAIN approvals :
             /\ approvals'[a].scope = approvals[a].scope
             /\ approvals'[a].kind = approvals[a].kind
    BY <1>2, CrashCases
  <2> QED
    BY <1>0, <2>1
<1>3. ASSUME NEW kind \in Kinds, Prepare(kind)
      PROVE  \A a \in DOMAIN approvals :
               a \in DOMAIN approvals' /\ approvals'[a] = approvals[a]
  <2>1. /\ Len(approvals') = Len(approvals) + 1
        /\ \A a \in DOMAIN approvals : approvals'[a] = approvals[a]
    BY <1>3, Prepared
  <2>2. approvals' \in Seq(Approved)
    BY <1>3, TypedPrepare DEF Keeps, Typed
  <2> QED
    BY <1>0, <2>1, <2>2
<1>4. ASSUME NEW a \in DOMAIN approvals,
             \/ approvals' = [approvals EXCEPT ![a].state = "gone"]
             \/ \E key \in Keys : approvals' = [approvals EXCEPT ![a].key = key]
      PROVE  Same
  <2>1. approvals[a] \in Approved
    BY <1>0
  <2>2. \A key : /\ [approvals[a] EXCEPT !.key = key].kind = approvals[a].kind
                 /\ [approvals[a] EXCEPT !.key = key].scope = approvals[a].scope
    BY <2>1 DEF Approved
  <2>3. /\ [approvals[a] EXCEPT !.state = "gone"].kind = approvals[a].kind
        /\ [approvals[a] EXCEPT !.state = "gone"].scope = approvals[a].scope
    BY <2>1 DEF Approved
  <2>4. PICK new : /\ new.kind = approvals[a].kind /\ new.scope = approvals[a].scope
                   /\ approvals' = [approvals EXCEPT ![a] = new]
    BY <1>4, <2>2, <2>3
  <2> QED
    BY <1>0, <2>4
<1>5. CASE World
  BY <1>1, <1>2, <1>5 DEF World, AppChanges, ApkChanges, FileChanges, LateEffect
<1>6. CASE Request
  <2>1. ASSUME NEW a \in DOMAIN approvals, Expire(a) PROVE Same
    BY <1>4, <2>1 DEF Expire
  <2>2. ASSUME NEW c \in Clients, NEW key \in Keys, NEW a \in DOMAIN approvals,
               Claim(c, a, key)
        PROVE  Same
    BY <1>4, <2>2 DEF Claim
  <2>3. ASSUME \/ \E c \in Clients, key \in Keys : RequestStop(c, key)
               \/ \E c \in Clients : Submit(c)
               \/ \E t \in DOMAIN tasks : Cancel(t) \/ Deadline(t)
        PROVE  UNCHANGED approvals
    BY <2>3 DEF RequestStop, Submit, Cancel, Deadline
  <2> QED
    BY <1>1, <1>3, <1>6, <2>1, <2>2, <2>3 DEF Request
<1>7. CASE Work
  BY <1>1, <1>7, WorkFrame
<1> QED
  BY <1>5, <1>6, <1>7 DEF Next

\* Where a claim comes from.
LEMMA ClaimStep ==
  ASSUME Typed, Bound, Next, NEW c \in Clients, clients'[c] # Idle
  PROVE  \/ clients'[c] = clients[c]
         \/ clients'[c].kind = "app.stop" /\ clients'[c].approval = 0
         \/ \E a \in DOMAIN approvals :
              clients'[c].kind = approvals[a].kind /\ clients'[c].approval = a
<1>0. clients \in [Clients -> Claims \cup {Idle}]
  BY DEF Typed
<1>1. CASE UNCHANGED clients
  BY <1>1
<1>2. CASE Crash
  BY <1>2, CrashCases
<1>3. ASSUME NEW d \in Clients, NEW key \in Keys, RequestStop(d, key)
      PROVE  \/ clients'[c] = clients[c]
             \/ clients'[c].kind = "app.stop" /\ clients'[c].approval = 0
  BY <1>0, <1>3 DEF RequestStop
<1>4. ASSUME NEW d \in Clients, NEW key \in Keys, NEW a \in DOMAIN approvals,
             Claim(d, a, key)
      PROVE  \/ clients'[c] = clients[c]
             \/ clients'[c].kind = approvals[a].kind /\ clients'[c].approval = a
  BY <1>0, <1>4 DEF Claim
<1>5. ASSUME NEW d \in Clients, Submit(d) PROVE clients'[c] = clients[c]
  BY <1>0, <1>5 DEF Submit
<1>6. CASE World
  BY <1>1, <1>2, <1>6, WorldFrame DEF Frame
<1>7. CASE Request
  BY <1>1, <1>3, <1>4, <1>5, <1>7, RequestFrame DEF Frame
<1>8. CASE Work
  BY <1>1, <1>8, WorkFrame DEF Frame
<1> QED
  BY <1>6, <1>7, <1>8 DEF Next

\* A task is one there was, or the one that a claim asks for.
LEMMA TaskStep ==
  ASSUME Typed, Bound, Next, NEW t \in DOMAIN tasks'
  PROVE  \/ /\ t \in DOMAIN tasks
            /\ tasks'[t].kind = tasks[t].kind /\ tasks'[t].approval = tasks[t].approval
         \/ /\ t \notin DOMAIN tasks /\ tasks'[t].status = "queued"
            /\ \E c \in Clients :
                 /\ clients[c] # Idle
                 /\ tasks'[t].kind = clients[c].kind
                 /\ tasks'[t].approval = clients[c].approval
<1>1. Keeps
  BY TypedNext
<1>2. CASE t \in DOMAIN tasks
  BY <1>1, <1>2 DEF Keeps, TasksKept, Kept
<1>3. CASE t \notin DOMAIN tasks
  <2>0. tasks \in Seq(Rows) /\ tasks' \in Seq(Rows)
    BY <1>1 DEF Keeps, Typed
  <2>1. Len(tasks') # Len(tasks)
    BY <1>3, <2>0
  <2>2. \E c \in Clients : Submit(c)
    <3>1. ~Frame /\ ~Crash
      BY <2>1, CrashCases DEF Frame
    <3>2. ~World /\ ~Work
      BY <3>1, WorldFrame, WorkFrame
    <3>3. ASSUME NEW c \in Clients, NEW key \in Keys,
                 RequestStop(c, key) \/ \E a \in DOMAIN approvals : Claim(c, a, key)
          PROVE  FALSE
      BY <2>1, <3>3 DEF RequestStop, Claim
    <3> QED
      BY <3>1, <3>2, <3>3, RequestFrame DEF Next
  <2>3. PICK c \in Clients : Submit(c)
    BY <2>2
  <2>4. Created(c) /\ clients[c] # Idle
    BY <2>1, <2>3, SubmitCases DEF Submit
  <2>5. tasks'[t] = Queued(c)
    BY <1>3, <2>4, CreatedRow
  <2>6. Queued(c).status = "queued" /\ Queued(c).kind = clients[c].kind
        /\ Queued(c).approval = clients[c].approval
    BY DEF Queued
  <2> QED
    BY <1>3, <2>4, <2>5, <2>6
<1> QED
  BY <1>2, <1>3

\* How the worker comes to a verification or to the files of a cleanup.
LEMMA RunStep ==
  ASSUME Typed, Bound, Next, run'.pc \in {"verify"} \cup InCleanup
  PROVE  /\ run.pc # "idle" /\ run'.task = run.task
         /\ \/ run'.pc = run.pc
            \/ run'.pc = "verify" /\ Answered
            \/ run'.pc = "clean" /\ T.kind = Cleanup
            \/ {run.pc, run'.pc} \subseteq InCleanup
<1> USE DEF InCleanup
<1>0. run \in Runs
  BY DEF Typed
<1>1. CASE UNCHANGED run
  BY <1>1
<1>2. CASE Moved
  BY <1>2, MovedRun
<1>3. run' # NoRun
  BY NoRunTyped
<1>4. CASE World
  BY <1>2, <1>3, <1>4, FileRun DEF World, AppChanges, ApkChanges, LateEffect, Crash
<1>5. CASE Request
  BY <1>1, <1>5, RequestLeavesWorker
<1>6. CASE Work
  <2>1. ASSUME NEW t \in DOMAIN tasks, Begin(t) PROVE FALSE
    BY <2>1 DEF Begin, NoRun
  <2>2. CASE Preflight
    BY <1>0, <1>3, <2>2 DEF Preflight, Report, Runs
  <2>3. CASE Check
    BY <1>0, <1>3, <2>3 DEF Check, Failed, Report, Runs
  <2>4. CASE Send
    BY <1>0, <2>4 DEF Send, Runs
  <2>5. CASE Answered
    BY <1>0, <2>5 DEF Answered, Runs
  <2>6. CASE Refused \/ TimedOut \/ CleanFails
    BY <1>3, <2>6, CleanFailsCases DEF Refused, TimedOut, Failed, Report
  <2>7. CASE Verify \/ CleanEnd
    BY <1>3, <2>7 DEF Verify, CleanEnd, Returned, Failed, Report
  <2>8. CASE CleanCheck \/ CleanOne
    BY <2>8, CleanCheckCases, CleanOneCases DEF Goes
  <2> QED
    BY <1>6, <2>1, <2>2, <2>3, <2>4, <2>5, <2>6, <2>7, <2>8 DEF Work
<1> QED
  BY <1>4, <1>5, <1>6 DEF Next

\* A task succeeds by its verification, or as a cleanup at its end.
LEMMA SuccessStep ==
  ASSUME Typed, Bound, Next, NEW t \in DOMAIN tasks, tasks'[t].status = "succeeded"
  PROVE  \/ tasks[t].status = "succeeded"
         \/ t = run.task /\ run.pc = "verify" /\ Verifies
         \/ t = run.task /\ run.pc = "clean"
<1>0. tasks \in Seq(Rows) /\ tasks[t] \in Rows
  BY DEF Typed
<1>1. CASE UNCHANGED tasks
  BY <1>1
<1>2. ASSUME NEW status \in {"failed", "cancelled", "timed_out"}, run.pc # "idle",
             NEW steps \in 0..1, NEW outcome \in {"known", "refused", "unknown"},
             NEW deleted \in SUBSET Files, Report(status, steps, outcome, deleted)
      PROVE  tasks[t].status = "succeeded"
  BY <1>2, Ending
<1>3. ASSUME NEW deleted \in SUBSET Files, run.pc # "idle", Returned(deleted)
      PROVE  tasks[t].status = "succeeded" \/ t = run.task
  <2>1. Report(Ended, 1, Known, deleted)
    BY <1>3, ReturnedReport
  <2>2. /\ Ended \in {"succeeded", "failed", "cancelled", "timed_out"}
        /\ Known \in {"none", "known", "refused", "unknown"} /\ (Known = "none" <=> Ended = "succeeded")
    BY <1>3, EndedTyped
  <2> HIDE DEF Ended, Known
  <2> QED
    BY <1>3, <2>1, <2>2, Ending
<1>4. CASE World
  <2>1. CASE Crash
    BY <2>1, CrashCases, RecoveredRow
  <2> QED
    BY <1>1, <1>4, <2>1 DEF World, AppChanges, ApkChanges, FileChanges, LateEffect
<1>5. CASE Request
  <2>1. ASSUME NEW c \in Clients, Submit(c) PROVE tasks'[t] = tasks[t]
    BY <1>0, <2>1, SubmitCases, CreatedRow DEF Submit
  <2>2. ASSUME NEW u \in DOMAIN tasks, Cancel(u)
        PROVE  tasks'[t].status \in {tasks[t].status, "cancelled"}
    <3>1. tasks[u] \in Rows
      BY <1>0
    <3>2. [tasks[u] EXCEPT !.stop = "cancelled"].status = tasks[u].status
      BY <3>1 DEF Rows
    <3>3. [tasks[u] EXCEPT !.status = "cancelled", !.outcome = "known"].status = "cancelled"
      BY <3>1 DEF Rows
    <3>4. PICK row : /\ tasks' = [tasks EXCEPT ![u] = row]
                     /\ row.status \in {tasks[u].status, "cancelled"}
      BY <2>2, <3>2, <3>3 DEF Cancel
    <3> QED
      BY <1>0, <3>4
  <2>3. ASSUME NEW u \in DOMAIN tasks, Deadline(u)
        PROVE  tasks'[t].status = tasks[t].status
    <3>1. tasks[u] \in Rows
      BY <1>0
    <3>2. [tasks[u] EXCEPT !.stop = "timed_out"].status = tasks[u].status
      BY <3>1 DEF Rows
    <3>3. PICK row : /\ tasks' = [tasks EXCEPT ![u] = row]
                     /\ row.status = tasks[u].status
      BY <2>3, <3>2 DEF Deadline
    <3> QED
      BY <1>0, <3>3
  <2>4. ASSUME \/ \E kind \in Kinds : Prepare(kind)
               \/ \E a \in DOMAIN approvals : Expire(a)
               \/ \E c \in Clients, key \in Keys :
                    RequestStop(c, key) \/ \E a \in DOMAIN approvals : Claim(c, a, key)
        PROVE  UNCHANGED tasks
    BY <2>4 DEF Prepare, Expire, RequestStop, Claim
  <2> QED
    BY <1>1, <1>5, <2>1, <2>2, <2>3, <2>4 DEF Request
<1>6. CASE Work
  <2>1. ASSUME NEW u \in DOMAIN tasks, Begin(u)
        PROVE  tasks'[t].status \in {tasks[t].status, "running"}
    <3>1. tasks[u] \in Rows
      BY <1>0
    <3>2. [tasks[u] EXCEPT !.status = "running"].status = "running"
      BY <3>1 DEF Rows
    <3> QED
      BY <1>0, <2>1, <3>2 DEF Begin
  <2>2. CASE Preflight
    <3>1. Stopped => T.stop \in {"cancelled", "timed_out"}
      BY <2>2, EndedTyped DEF Preflight
    <3> QED
      BY <1>1, <1>2, <2>2, <3>1, PreflightCases DEF Goes
  <2>3. CASE Check \/ Refused
    BY <1>1, <1>2, <2>3 DEF Check, Refused, Failed
  <2>4. CASE Send \/ Answered \/ CleanCheck \/ CleanOne
    BY <1>1, <2>4 DEF Send, Answered, CleanCheck, CleanOne
  <2>5. CASE TimedOut
    BY <1>2, <2>5 DEF TimedOut, Failed
  <2>6. CASE Verify
    BY <1>2, <1>3, <2>6 DEF Verify, Failed
  <2>7. CASE CleanEnd
    <3>1. run.deleted \in SUBSET Files
      BY DEF Typed, Runs
    <3> QED
      BY <1>3, <2>7, <3>1 DEF CleanEnd
  <2>8. CASE CleanFails
    <3>1. PICK deleted \in SUBSET run.deleted : Failed("known", deleted)
      BY <2>8, CleanFailsCases
    <3>2. deleted \in SUBSET Files /\ run.pc # "idle"
      BY <2>8, CleanFailsCases DEF Typed, Runs
    <3> QED
      BY <1>2, <3>1, <3>2 DEF Failed
  <2> QED
    BY <1>6, <2>1, <2>2, <2>3, <2>4, <2>5, <2>6, <2>7, <2>8 DEF Work
<1> QED
  BY <1>4, <1>5, <1>6 DEF Next

LEMMA PristineStep ==
  ASSUME Typed, Next, Pristine'
  PROVE  /\ Pristine /\ app' = app
         /\ Answered => T.kind # "app.data.clear"
<1>0. bounds \in [changes : Nat, crashes : Nat]
  BY DEF Typed
<1>1. effects' = {} /\ bounds'.changes = 0
  BY DEF Pristine
<1>2. ~Change
  BY <1>0, <1>1 DEF Change
<1>3. \A t : ~Lands(t)
  BY <1>1 DEF Lands
<1>4. Answered => T.kind # "app.data.clear"
  BY <1>3 DEF Answered
<1>5. CASE Crash
  <2>1. bounds'.changes = bounds.changes
    BY <1>0, <1>5 DEF Crash
  <2> QED
    BY <1>1, <1>5, <1>4, <2>1 DEF Crash, Pristine
<1>6. CASE UNCHANGED <<app, effects, bounds>>
  BY <1>1, <1>6, <1>4 DEF Pristine
<1>7. CASE World
  BY <1>2, <1>3, <1>5, <1>7 DEF World, AppChanges, ApkChanges, FileChanges, LateEffect
<1>8. CASE Request
  BY <1>6, <1>8 DEF Request, Prepare, Expire, RequestStop, Claim, Submit, Cancel,
     Deadline, device
<1>9. CASE Work
  <2>1. CASE Answered
    BY <1>3, <1>6, <2>1 DEF Answered
  <2>2. CASE ~Answered
    BY <1>6, <1>9, <2>2 DEF Work, Begin, Preflight, Check, Send, Refused, TimedOut,
       Verify, CleanEnd, CleanCheck, CleanOne, CleanFails, device
  <2> QED
    BY <2>1, <2>2
<1> QED
  BY <1>7, <1>8, <1>9 DEF Next

LEMMA OneKindNext ==
  ASSUME Typed, OneKey, OneKind, Next PROVE OneKind'
<1>a. Bound /\ Claimed
  BY DEF OneKey
<1>b. \A a \in DOMAIN approvals : approvals'[a].kind = approvals[a].kind
  BY <1>a, ApprovalStep
<1>c. approvals \in Seq(Approved) /\ DOMAIN approvals = 1..Len(approvals)
      /\ Len(approvals) \in Nat
  BY DEF Typed
<1>d. ASSUME NEW kind, NEW a \in 0..Len(approvals), a = 0 => kind = "app.stop",
             a # 0 => approvals[a].kind = kind
      PROVE  a # 0 => approvals'[a].kind = kind
  BY <1>b, <1>c, <1>d
<1>1. ASSUME NEW c \in Clients, clients'[c] # Idle
      PROVE  /\ clients'[c].approval = 0 => clients'[c].kind = "app.stop"
             /\ clients'[c].approval # 0 =>
                  approvals'[clients'[c].approval].kind = clients'[c].kind
  <2>1. CASE clients'[c] = clients[c]
    <3>1. /\ clients[c].approval \in 0..Len(approvals)
          /\ clients[c].approval = 0 => clients[c].kind = "app.stop"
          /\ clients[c].approval # 0 => approvals[clients[c].approval].kind = clients[c].kind
      BY <1>1, <1>a, <2>1 DEF Claimed, OneKind, Fits
    <3> QED
      BY <1>d, <2>1, <3>1
  <2>2. CASE clients'[c].kind = "app.stop" /\ clients'[c].approval = 0
    BY <2>2
  <2>3. ASSUME NEW a \in DOMAIN approvals,
               clients'[c].kind = approvals[a].kind, clients'[c].approval = a
        PROVE  clients'[c].approval # 0 /\ approvals'[a].kind = clients'[c].kind
    BY <1>b, <1>c, <2>3
  <2> QED
    BY <1>1, <1>a, <2>1, <2>2, <2>3, ClaimStep
<1>2. ASSUME NEW t \in DOMAIN tasks'
      PROVE  /\ tasks'[t].approval = 0 => tasks'[t].kind = "app.stop"
             /\ tasks'[t].approval # 0 =>
                  approvals'[tasks'[t].approval].kind = tasks'[t].kind
  <2>1. ASSUME t \in DOMAIN tasks, tasks'[t].kind = tasks[t].kind,
               tasks'[t].approval = tasks[t].approval
        PROVE  /\ tasks'[t].approval \in 0..Len(approvals)
               /\ tasks'[t].approval = 0 => tasks'[t].kind = "app.stop"
               /\ tasks'[t].approval # 0 =>
                    approvals[tasks'[t].approval].kind = tasks'[t].kind
    BY <1>a, <2>1 DEF Bound, OneKind, Fits
  <2>2. ASSUME NEW c \in Clients, clients[c] # Idle, tasks'[t].kind = clients[c].kind,
               tasks'[t].approval = clients[c].approval
        PROVE  /\ tasks'[t].approval \in 0..Len(approvals)
               /\ tasks'[t].approval = 0 => tasks'[t].kind = "app.stop"
               /\ tasks'[t].approval # 0 =>
                    approvals[tasks'[t].approval].kind = tasks'[t].kind
    BY <1>a, <2>2 DEF Claimed, OneKind, Fits
  <2> QED
    BY <1>a, <1>d, <1>2, <2>1, <2>2, TaskStep
<1>3. ASSUME run'.pc \in InCleanup PROVE T'.kind = Cleanup
  <2>1. /\ run.pc # "idle" /\ run'.task = run.task
        /\ run.pc \in InCleanup \/ T.kind = Cleanup
    BY <1>3, <1>a, RunStep DEF InCleanup
  <2>2. T'.kind = T.kind
    BY <1>a, <2>1, ScopeKept, TypedNext
  <2> QED
    BY <2>1, <2>2 DEF OneKind
<1> QED
  BY <1>1, <1>2, <1>3 DEF OneKind, Fits

LEMMA FoundAtPreview ==
  ASSUME NEW kind \in Kinds, NEW scope \in Previews(kind), Typed
  PROVE  Found(kind, scope)
<1>1. CASE kind = "app.install"
  <2> DEFINE seen == [NoScope EXCEPT !.version = apk, !.replace = app.version # "absent"]
  <2>1. scope = seen
    BY <1>1 DEF Previews, Cleanup
  <2>2. seen.replace = (app.version # "absent")
    BY DEF NoScope
  <2> QED
    BY <1>1, <2>1, <2>2 DEF Found
<1>2. CASE kind = "app.uninstall"
  <2>1. scope \in (IF app.version \in Versions
                   THEN {[NoScope EXCEPT !.version = app.version]} ELSE {})
    BY <1>2 DEF Previews, Cleanup
  <2> QED
    BY <1>2, <2>1 DEF Found, Versions
<1> QED
  BY <1>1, <1>2 DEF Found

LEMMA AsFoundNext ==
  ASSUME Typed, OneKey, OneKind, AsFound, Next PROVE AsFound'
<1> SUFFICES ASSUME Pristine'
             PROVE  /\ \A a \in DOMAIN approvals' :
                         Found(approvals[a].kind, approvals[a].scope)'
                    /\ run'.pc = "verify" => T'.kind # "app.data.clear"
                    /\ \A t \in DOMAIN tasks' :
                         tasks'[t].status = "succeeded" => ~Telling(t)'
  BY DEF AsFound
<1>a. Bound /\ Claimed /\ Keeps
  BY TypedNext DEF OneKey
<1>b. Pristine /\ app' = app /\ (Answered => T.kind # "app.data.clear")
  BY PristineStep
<1>c. /\ \A a \in DOMAIN approvals : Found(approvals[a].kind, approvals[a].scope)
      /\ run.pc = "verify" => T.kind # "app.data.clear"
      /\ \A t \in DOMAIN tasks : tasks[t].status = "succeeded" => ~Telling(t)
  BY <1>b DEF AsFound
<1>d. /\ \A a \in DOMAIN approvals :
           /\ approvals'[a].kind = approvals[a].kind
           /\ approvals'[a].scope = approvals[a].scope
      /\ \/ DOMAIN approvals' = DOMAIN approvals
         \/ \E kind \in Kinds : Prepare(kind)
  BY <1>a, ApprovalStep
<1>e. approvals \in Seq(Approved) /\ approvals' \in Seq(Approved)
  BY <1>a DEF Keeps, Typed
<1>1. ASSUME NEW a \in DOMAIN approvals'
      PROVE  Found(approvals[a].kind, approvals[a].scope)'
  <2>1. CASE a \in DOMAIN approvals
    BY <1>b, <1>c, <1>d, <2>1 DEF Found
  <2>2. CASE a \notin DOMAIN approvals
    <3>1. PICK kind \in Kinds : Prepare(kind)
      BY <1>1, <1>d, <2>2
    <3>2. /\ Len(approvals') = Len(approvals) + 1
          /\ approvals'[Len(approvals) + 1].kind = kind
          /\ approvals'[Len(approvals) + 1].scope \in Previews(kind)
      BY <3>1, Prepared
    <3>3. a = Len(approvals) + 1
      BY <1>1, <1>e, <2>2, <3>2
    <3>4. Found(kind, approvals'[a].scope)
      BY <3>2, <3>3, FoundAtPreview
    <3> QED
      BY <1>b, <3>2, <3>3, <3>4 DEF Found
  <2> QED
    BY <2>1, <2>2
<1>2. ASSUME run'.pc = "verify" PROVE T'.kind # "app.data.clear"
  <2>1. run.pc # "idle" /\ run'.task = run.task /\ (run.pc = "verify" \/ Answered)
    BY <1>2, <1>a, RunStep DEF InCleanup
  <2>2. T'.kind = T.kind
    BY <1>a, <2>1, ScopeKept
  <2> QED
    BY <1>b, <1>c, <2>1, <2>2
<1>3. ASSUME NEW t \in DOMAIN tasks', tasks'[t].status = "succeeded", Telling(t)'
      PROVE  FALSE
  <2>1. /\ t \in DOMAIN tasks /\ tasks'[t].kind = tasks[t].kind
        /\ tasks'[t].approval = tasks[t].approval
    BY <1>3, <1>a, TaskStep
  <2>2. /\ tasks[t].approval \in 0..Len(approvals)
        /\ tasks[t].approval = 0 => tasks[t].kind = "app.stop"
        /\ tasks[t].approval # 0 => approvals[tasks[t].approval].kind = tasks[t].kind
    BY <1>a, <2>1 DEF Bound, OneKind, Fits
  <2>3. tasks[t].approval \in DOMAIN approvals
    <3>1. tasks[t].kind # "app.stop"
      BY <1>3, <2>1 DEF Telling
    <3> QED
      BY <1>e, <2>2, <3>1
  <2>4. Telling(t)
    BY <1>3, <1>d, <2>1, <2>3 DEF Telling
  <2>5. tasks[t].status # "succeeded"
    BY <1>c, <2>1, <2>4
  <2>6. CASE t = run.task /\ run.pc = "verify" /\ Verifies
    <3>1. T = tasks[t] /\ T.kind # "app.data.clear"
      BY <1>c, <2>6 DEF T
    <3>2. approvals[tasks[t].approval].kind = tasks[t].kind
      BY <1>e, <2>2, <2>3
    <3>3. Found(tasks[t].kind, approvals[tasks[t].approval].scope)
      BY <1>c, <2>3, <3>2
    <3>4. CASE tasks[t].kind = "app.uninstall"
      BY <2>6, <3>1, <3>3, <3>4 DEF Verifies, Found
    <3>5. CASE tasks[t].kind = "app.install"
      <4>1. ~approvals[tasks[t].approval].scope.replace
        BY <2>4, <3>5 DEF Telling
      <4> QED
        BY <2>6, <3>1, <3>3, <3>5, <4>1 DEF Verifies, Found
    <3> QED
      BY <2>4, <3>1, <3>4, <3>5 DEF Telling
  <2>7. CASE t = run.task /\ run.pc = "clean"
    BY <2>4, <2>7 DEF OneKind, InCleanup, T, Telling, Cleanup
  <2> QED
    BY <1>3, <1>a, <2>1, <2>5, <2>6, <2>7, SuccessStep
<1> QED
  BY <1>1, <1>2, <1>3

(* A success is true: if no other command took effect and nobody changed the   *)
(* application, an uninstall, a clear or a first install that is reported as     *)
(* succeeded took effect, although the command may answer success and do nothing. *)
THEOREM SuccessesTookEffect == Spec => []SuccessTookEffect
<1>1. Init => SuccessInv
  <2> SUFFICES ASSUME Init PROVE SuccessInv
    OBVIOUS
  <2>1. /\ approvals = <<>> /\ tasks = <<>> /\ run.pc = "idle"
        /\ \A c \in Clients : clients[c] = Idle
    BY DEF Init, NoRun
  <2> QED
    BY <2>1 DEF SuccessInv, OneKind, InCleanup, AsFound
<1>2. Inv /\ SuccessInv /\ [Next]_vars => SuccessInv'
  <2> SUFFICES ASSUME Inv, SuccessInv, [Next]_vars PROVE SuccessInv'
    OBVIOUS
  <2>1. CASE Next
    BY <2>1, OneKindNext, AsFoundNext, InvParts DEF SuccessInv
  <2>2. CASE UNCHANGED vars
    <3>1. OneKind'
      BY <2>2 DEF vars, SuccessInv, OneKind, InCleanup, Fits, T
    <3>2. AsFound'
      BY <2>2 DEF vars, SuccessInv, AsFound, Pristine, Found, Telling, T
    <3> QED
      BY <3>1, <3>2 DEF SuccessInv
  <2> QED
    BY <2>1, <2>2
<1>3. SuccessInv => SuccessTookEffect
  <2> SUFFICES ASSUME SuccessInv, NEW t \in DOMAIN tasks, tasks[t].status = "succeeded",
                      bounds.changes = 0, effects \subseteq {t}, Telling(t)
               PROVE  t \in effects
    BY DEF SuccessTookEffect, Telling
  <2>1. effects # {}
    BY DEF SuccessInv, AsFound, Pristine
  <2> QED
    BY <2>1
<1> QED
  BY InvInductive, <1>1, <1>2, <1>3, PTL DEF Spec
=====
