---------------------------- MODULE TaskPromises ----------------------------
(***************************************************************************)
(* What a caller was told against what the device sees.  Two history        *)
(* variables are added to TaskExecutor: the pauses a caller was told are in  *)
(* force, and the device steps taken after a cancel was accepted.           *)
(***************************************************************************)
EXTENDS TaskRefinement

VARIABLES
  held,  \* tasks whose last pause answered "paused", with nothing lifting it since
  late   \* device steps of a task after its cancel was persisted

promises == <<held, late>>

PInit == Init /\ held = {} /\ late = [t \in Tasks |-> 0]

\* A resume or cancel commits for t, or t's deadline passes.
Lifted(t) ==
  \/ \E c \in Clients : /\ client[c].task = t
                        /\ client[c].pc \in {"resume", "cancel"}
                        /\ client'[c].pc # client[c].pc
  \/ worker'.task = t /\ worker'.due

\* pause answers "paused" at once for a queued task.
PausedNow(t) == exec[t].status = "queued" /\ exec'[t].status = "paused"

\* pause of a paused task returns the stored row and touches nothing.
PauseAgain(c, t) ==
  /\ up /\ lock = None /\ At(c, "idle") /\ budget.calls < MaxCalls
  /\ exec[t].status = "paused"
  /\ held' = held \cup {t}
  /\ Spend("calls")
  /\ UNCHANGED <<durable, executor, client, worker, late>>

PStep ==
  /\ Next
  /\ held' = {t \in Tasks : PausedNow(t) \/ (t \in held /\ ~Lifted(t) /\ up')}
  /\ late' = [t \in Tasks |->
       IF acted'[t] # acted[t] /\ exec[t].status = "cancelling"
       THEN late[t] + 1 ELSE late[t]]

PNext == PStep \/ \E c \in Clients, t \in Tasks : PauseAgain(c, t)

PSpec == PInit /\ [][PNext]_<<vars, promises>>
-----------------------------------------------------------------------------
\* Cancellation is cooperative: after it is persisted the runner takes at most
\* the one step whose boundary it had already passed.
AtMostOneLateStep == \A t \in Tasks : late[t] <= 1

\* A caller who was told "paused" sees no device step until someone resumes or
\* cancels the task or its deadline passes.
PausedReplyHonoured ==
  [][\A t \in held : acted'[t] = acted[t]]_<<vars, promises>>
=============================================================================
