--------------------------- MODULE TaskLifecycle ----------------------------
(***************************************************************************)
(* What the executor promises about a task while its storage works: a small *)
(* state machine over the status of the task, whether it ever started, and  *)
(* the status of its final report.  Threads, locks, the queue, flags, events *)
(* and crashes are not visible here.  TaskExecutor implements it.           *)
(***************************************************************************)
CONSTANT Tasks

VARIABLES status, begun, report

vars == <<status, begun, report>>

Terminal == {"succeeded", "failed", "cancelled", "timed_out"}
Live     == {"queued", "running", "paused", "cancelling"}

Init ==
  /\ status = [t \in Tasks |-> "absent"]
  /\ begun = [t \in Tasks |-> FALSE]
  /\ report = [t \in Tasks |-> "none"]

\* The moves of one task; From and To are its status before and after.
Becomes(t, From, to) == status[t] \in From /\ status'[t] = to

Keeps(t) == begun'[t] = begun[t] /\ report'[t] = report[t]

Submit(t) == Becomes(t, {"absent"}, "queued") /\ Keeps(t)

\* A task that has not begun moves between queued and paused.
Reorder(t) ==
  /\ ~begun[t] /\ Keeps(t)
  /\ Becomes(t, {"queued"}, "paused") \/ Becomes(t, {"paused"}, "queued")

\* Work begins at most once and never after a report.
Begin(t) ==
  /\ ~begun[t] /\ begun'[t]
  /\ report[t] = "none" /\ report'[t] = "none"
  /\ Becomes(t, {"queued", "paused"}, "running")

\* A task at work is paused and resumed, and can be told to stop at any time.
Takeover(t) ==
  /\ begun[t] /\ Keeps(t)
  /\ \/ Becomes(t, {"running"}, "paused")
     \/ Becomes(t, {"paused"}, "running")
     \/ Becomes(t, {"running", "paused", "cancelling"}, "cancelling")

\* One report, of a task that is at work or of one cancelled before it began.
Report(t) ==
  /\ status[t] \in Live
  /\ status'[t] = status[t] /\ begun'[t] = begun[t]
  /\ report[t] = "none"
  /\ report'[t] \in IF begun[t] THEN Terminal ELSE {"cancelled"}

\* The row follows the report, and without one a restart fails the task.
Close(t) ==
  /\ Keeps(t)
  /\ Becomes(t, Live, IF report[t] = "none" THEN "failed" ELSE report[t])

Stay(t) == status'[t] = status[t] /\ Keeps(t)

Move(t) ==
  \/ Submit(t) \/ Reorder(t) \/ Begin(t) \/ Takeover(t)
  \/ Report(t) \/ Close(t) \/ Stay(t)

\* Recovery moves many tasks at once.
Next == \A t \in Tasks : Move(t)

Spec == Init /\ [][Next]_vars
=============================================================================
