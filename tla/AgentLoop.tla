----------------------------- MODULE AgentLoop ------------------------------
(***************************************************************************)
(* One run of the agent (AgentRunner.run, agent/runner.py): an optional      *)
(* navigation shortcut, then rounds of observe, plan, act and verify, until  *)
(* the goal is accepted, the budget of rounds is spent, an error ends the    *)
(* run or the run is stopped.  The tool pipeline (tools/runtime.py) and the  *)
(* scrolling skill (skills/settings_navigate.py) are part of the run.        *)
(*                                                                          *)
(* An observation is the page it shows.  A person, a notification or a slow  *)
(* animation may change the page between any two looks at the device, so any *)
(* look may show any page.  A selector, an application and an expected       *)
(* element are the page they match.  The probes of the executor may hold the *)
(* run (a pause) and report that it is cancelled or late; the planner runs   *)
(* in a thread of its own.                                                  *)
(***************************************************************************)
EXTENDS Naturals, Sequences, FiniteSets

CONSTANTS
  Pages,            \* what the device can show
  Blank,            \* a page whose hierarchy has no semantic node
  Settings,         \* the page of the shortcut and of the scrolling skill
  GoalPages,        \* the pages on which the acceptance of the goal holds
  Tools,            \* the tools the planner may name
  MaxRounds,        \* MAX_AGENT_ROUNDS
  Budgets,          \* the rounds callers ask for, legal or not
  ObserveAttempts,  \* _OBSERVE_MAX_ATTEMPTS
  MaxScrolls,       \* scrolls of one search of the scrolling skill
  MaxPauses,        \* bound: pauses of a run
  MaxFaults         \* bound: step events that cannot be stored

Locating == {"input.tap_element"}
AllowedTools == Locating \cup
  {"app.launch", "app.navigate", "input.swipe", "navigation.back",
   "navigation.home"}
Unicode == "input.unicode_text"
Scroll  == "settings.scroll_navigate"

ASSUME PagesAssumption ==
  /\ IsFiniteSet(Pages)
  /\ Blank \in Pages
  /\ Settings \in Pages \ {Blank}
  /\ GoalPages \subseteq Pages \ {Blank}
ASSUME ToolsAssumption == Tools \subseteq AllowedTools
ASSUME BoundAssumption ==
  /\ {MaxRounds, ObserveAttempts} \subseteq Nat \ {0}
  /\ Budgets \subseteq Nat
  /\ {MaxScrolls, MaxPauses, MaxFaults} \subseteq Nat

VARIABLES
  job,      \* the arguments of the run
  request,  \* what the probes report, whether one of them holds the run
  pc,       \* where the run is
  round,    \* round_index, 0 before the first round
  attempts, \* failed attempts of the observation being made
  obs,      \* the page of the round's observation, of `before` in a tool call
  decision, \* the planner's decision of the round
  planner,  \* the thread of the planner
  feedback, \* last_action_feedback
  retry,    \* last_recoverable_error is not None
  ids,      \* the step ids: minted so far, of the round, pending
  search,   \* the scrolling skill: scrolls left, may the search turn round
  steps,    \* the report
  result,   \* status and error of the TaskRun
  seen      \* history, read only by properties

vars == <<job, request, pc, round, attempts, obs, decision, planner,
          feedback, retry, ids, search, steps, result, seen>>
-----------------------------------------------------------------------------
Selectors == Pages \ {Blank}
Decision ==
  [kind : {"tool"}, id : Tools, arg : Selectors]
    \cup [kind : {"skill"}, id : {Scroll}, arg : Selectors]
    \cup [kind : {"skill"}, id : {Unicode}, arg : {Blank}]
    \cup [kind : {"finish"}, id : {"finish"}, arg : Selectors]
\* A decision outside the allowlists or with bad arguments, an error of the
\* planner.
Rejected     == [kind |-> "rejected", id |-> "none", arg |-> Blank]
PlannerError == [kind |-> "error", id |-> "none", arg |-> Blank]
NoDecision   == [kind |-> "none", id |-> "none", arg |-> Blank]

NoFeedback == [id |-> "none", arg |-> Blank, changed |-> TRUE]
Feedback(d, changed) == [id |-> d.id, arg |-> d.arg, changed |-> changed]

Stops == {"cancelled", "timed_out"}

Init ==
  /\ job \in [rounds : Budgets, acceptance : BOOLEAN,
              shortcut : BOOLEAN]
  /\ request = [cancel |-> FALSE, late |-> FALSE, held |-> FALSE, pauses |-> 0]
  /\ pc = "start"
  /\ round = 0
  /\ attempts = 0
  /\ obs = Blank
  /\ decision = NoDecision
  /\ planner = "idle"
  /\ feedback = NoFeedback
  /\ retry = FALSE
  /\ ids = [minted |-> 0, round |-> 0, pending |-> 0]
  /\ search = [left |-> 0, turn |-> FALSE]
  /\ steps = <<>>
  /\ result = [status |-> "none", error |-> "none"]
  /\ seen = [since |-> {}, acted |-> {}, late |-> {}, stale |-> FALSE,
             call |-> NoFeedback, callRound |-> 0, faults |-> 0]
-----------------------------------------------------------------------------
(* Building blocks.                                                         *)

\* The run goes on only while no probe holds it.
At(place) == pc = place /\ ~request.held

\* Mutant: the deadline is not probed.
StoppedByCancel == request.cancel
Stopped == request.cancel \/ request.late

\* _raise_if_stopped: a cancellation is reported before a missed deadline.
\* No step is added for a stopped run.
StopRun ==
  /\ Stopped
  /\ pc' = "done"
  /\ result' = [status |-> IF request.cancel THEN "cancelled" ELSE "timed_out",
                error |-> "STOPPED"]
  /\ UNCHANGED <<job, request, round, attempts, obs, decision, planner,
                 feedback, retry, ids, search, steps, seen>>

\* An error leaves the try block of run().
Raise(error) ==
  /\ pc' = "failing"
  /\ result' = [result EXCEPT !.error = error]

\* The run looks at the device.
Look(p) == [seen EXCEPT !.since = @ \cup {p}]

\* The run sends an input to the device.
Act == seen' = [seen EXCEPT !.since = {}, !.acted = @ \cup {round},
                            !.late = IF request.cancel \/ request.late
                                     THEN @ \cup {round} ELSE @]

\* on_step stores an event; the store may fail.
Told == {TRUE} \cup (IF seen.faults < MaxFaults THEN {FALSE} ELSE {})

Step(id, sequence, status, told) ==
  [id |-> id, sequence |-> sequence, round |-> round, status |-> status,
   told |-> told]
Fault(told) == [seen EXCEPT !.faults = IF told THEN @ ELSE @ + 1]

Succeed ==
  /\ pc' = "done"
  /\ result' = [status |-> "succeeded", error |-> "none"]

Accepted(p) == p \in GoalPages
-----------------------------------------------------------------------------
(* The beginning of the run and the shortcut.                               *)

\* max_rounds out of range: one failed step, no try block around it.
RejectArguments ==
  /\ At("start")
  /\ job.rounds \notin 1 .. MaxRounds
  /\ \E told \in Told :
       /\ steps' = <<Step(1, 1, "failed", told)>>
       /\ ids' = [ids EXCEPT !.minted = 1]
       /\ seen' = Fault(told)
       /\ pc' = IF told THEN "done" ELSE "raised"
       /\ result' = [status |-> IF told THEN "failed" ELSE "none",
                     error |-> "OTHER"]
  /\ UNCHANGED <<job, request, round, attempts, obs, decision, planner,
                 feedback, retry, search>>

Begin ==
  /\ At("start")
  /\ job.rounds \in 1 .. MaxRounds
  /\ ~job.shortcut
  /\ pc' = "top"
  /\ UNCHANGED <<job, request, round, attempts, obs, decision, planner,
                 feedback, retry, ids, search, steps, result, seen>>

BeginShortcut ==
  /\ At("start")
  /\ job.rounds \in 1 .. MaxRounds
  /\ job.shortcut
  /\ \/ StopRun
     \/ /\ ~Stopped
        /\ pc' = "shortcut"
        /\ UNCHANGED <<job, request, round, attempts, obs, decision,
                       planner, feedback, retry, ids, search, steps, result,
                       seen>>

\* app.navigate is refused before the device is touched; a device without the
\* capability leaves the goal to the planner.
ShortcutRefused ==
  /\ At("shortcut")
  /\ \/ pc' = "top" /\ UNCHANGED result
     \/ Raise("OTHER")
  /\ UNCHANGED <<job, request, round, attempts, obs, decision, planner,
                 feedback, retry, ids, search, steps, seen>>

ShortcutAct ==
  /\ At("shortcut")
  /\ Act
  /\ \/ pc' = "navigated" /\ UNCHANGED result
     \/ Raise("OTHER")
  /\ UNCHANGED <<job, request, round, attempts, obs, decision, planner,
                 feedback, retry, ids, search, steps>>

\* Navigation counts only if the page is seen; what cannot be observed or is
\* another page ends the run.
ShortcutVerify ==
  /\ At("navigated")
  /\ \/ seen' = Look(Settings) /\ pc' = "navigatedStep" /\ UNCHANGED result
     \/ UNCHANGED seen /\ Raise("OTHER")
  /\ UNCHANGED <<job, request, round, attempts, obs, decision, planner,
                 feedback, retry, ids, search, steps>>

\* Mutant: the step is recorded only when nothing is left to verify.
ShortcutStepLast ==
  /\ At("navigatedStep")
  /\ \/ job.acceptance /\ pc' = "verifyShortcut" /\ UNCHANGED <<steps, result>>
     \/ /\ ~job.acceptance
        /\ steps' = Append(steps, Step(ids.minted + 1, 1, "succeeded", TRUE))
        /\ Succeed
  /\ UNCHANGED <<job, request, round, attempts, obs, decision, planner,
                 feedback, retry, ids, search, seen>>

\* The step of the shortcut is recorded before the acceptance is verified.
ShortcutStep ==
  /\ At("navigatedStep")
  /\ \E told \in Told :
       /\ steps' = Append(steps, Step(ids.minted + 1, 1, "succeeded", told))
       /\ ids' = [ids EXCEPT !.minted = @ + 1]
       /\ seen' = Fault(told)
       /\ \/ ~told /\ Raise("STORAGE")
          \/ told /\ job.acceptance /\ pc' = "verifyShortcut" /\ UNCHANGED result
          \/ told /\ ~job.acceptance /\ Succeed
  /\ UNCHANGED <<job, request, round, attempts, obs, decision, planner,
                 feedback, retry, search>>

\* A goal that is not reached is left to the planner.
VerifyShortcut ==
  /\ At("verifyShortcut")
  /\ \E p \in Selectors :
       /\ seen' = Look(p)
       /\ \/ Accepted(p) /\ Succeed
          \/ ~Accepted(p) /\ pc' = "top" /\ UNCHANGED result
  /\ attempts' = 0
  /\ UNCHANGED <<job, request, round, obs, decision, planner,
                 feedback, retry, ids, search, steps>>
-----------------------------------------------------------------------------
(* Observation with bounded retries.                                        *)

Retry == [observe |-> "observeRetry", verifyShortcut |-> "verifyShortcutRetry",
          verifySkill |-> "verifySkillRetry"]
Observing == DOMAIN Retry

\* Mutant: failed attempts are not counted.
ObserveFailsForEver ==
  /\ At(pc) /\ pc \in Observing
  /\ \/ pc' = Retry[pc] /\ UNCHANGED result
     \/ Raise("OBSERVATION")
  /\ UNCHANGED <<job, request, round, attempts, obs, decision, planner,
                 feedback, retry, ids, search, steps, seen>>

\* A transient failure, or a page without a semantic node, is tried again
\* until the attempts are spent; any other failure ends the run at once.
ObserveFails ==
  /\ At(pc) /\ pc \in Observing
  /\ \/ /\ attempts' = attempts + 1
        /\ \/ attempts + 1 < ObserveAttempts
              /\ pc' = Retry[pc]
              /\ UNCHANGED result
           \/ attempts + 1 >= ObserveAttempts /\ Raise("OBSERVATION")
     \/ Raise("OBSERVATION") /\ UNCHANGED attempts
  /\ UNCHANGED <<job, request, round, obs, decision, planner, feedback,
                 retry, ids, search, steps, seen>>

ObserveAgain ==
  \E place \in Observing :
    /\ At(Retry[place])
    /\ \/ StopRun
       \/ /\ ~Stopped
          /\ pc' = place
          /\ UNCHANGED <<job, request, round, attempts, obs, decision,
                       planner, feedback, retry, ids, search, steps, result,
                       seen>>
-----------------------------------------------------------------------------
(* A round: observe and plan.                                               *)

Spent == round >= job.rounds

BeginRound ==
  /\ At("top")
  /\ ~Spent
  /\ \/ StopRun
     \/ /\ ~Stopped
        /\ round' = round + 1
        /\ ids' = [ids EXCEPT !.minted = @ + 1, !.round = ids.minted + 1]
        /\ pc' = "observe"
        /\ UNCHANGED <<job, request, attempts, obs, decision, planner, feedback,
                       retry, search, steps, result, seen>>

\* The budget is spent: the last error a round could not repair is the result,
\* otherwise the run made no progress.
Exhausted ==
  /\ At("top")
  /\ Spent
  /\ \/ /\ retry
        /\ pc' = "done"
        /\ result' = [status |-> "failed", error |-> "TARGET"]
     \/ ~retry /\ Raise("NO_PROGRESS")
  /\ UNCHANGED <<job, request, round, attempts, obs, decision, planner,
                 feedback, retry, ids, search, steps, seen>>

Observe ==
  /\ At("observe")
  /\ \E p \in Selectors :
       /\ obs' = p
       /\ seen' = [Look(p) EXCEPT !.stale = FALSE]
  /\ pc' = "observed"
  /\ attempts' = 0
  /\ UNCHANGED <<job, request, round, decision, planner, feedback, retry,
                 ids, search, steps, result>>

\* The step of the round is pending and the planner starts in its thread.
StartPlanner ==
  /\ At("observed")
  /\ \/ StopRun
     \/ /\ ~Stopped
        /\ ids' = [ids EXCEPT !.pending = ids.round]
        /\ planner' = "busy"
        /\ pc' = "deciding"
        /\ UNCHANGED <<job, request, round, attempts, obs, decision,
                       feedback, retry, search, steps, result, seen>>

\* The answer of an abandoned planner is dropped.
PlannerReturns ==
  /\ planner = "busy"
  /\ planner' = "idle"
  /\ \/ pc = "deciding" /\ decision' \in Decision \cup {Rejected, PlannerError}
     \/ pc # "deciding" /\ UNCHANGED decision
  /\ UNCHANGED <<job, request, pc, round, attempts, obs, feedback, retry,
                 ids, search, steps, result, seen>>

\* The loop waits for the planner and polls the probes while it does.
Abandon ==
  /\ At("deciding")
  /\ planner = "busy"
  /\ StopRun

Decided ==
  /\ At("deciding")
  /\ planner = "idle"
  /\ \/ decision = PlannerError /\ Raise("OTHER")
     \/ decision # PlannerError /\ pc' = "decided" /\ UNCHANGED result
  /\ UNCHANGED <<job, request, round, attempts, obs, decision, planner,
                 feedback, retry, ids, search, steps, seen>>

\* Mutant: only a finish is compared with the last feedback.
RepeatedFinish(d) == d.kind = "finish" /\ feedback = Feedback(d, FALSE)

\* _reject_repeated_no_progress
Repeated(d) ==
  /\ d.kind \in {"tool", "finish"}
  /\ feedback = Feedback(d, FALSE)

Dispatch(d) ==
  IF d.kind = "tool" THEN "tool"
  ELSE IF d.kind = "finish" THEN "finish"
  ELSE IF d.id = Unicode THEN "unicode" ELSE "open"

\* The decision is validated, compared with the last one and dispatched.
Accept ==
  /\ At("decided")
  /\ \/ StopRun
     \/ /\ ~Stopped
        /\ \/ decision = Rejected /\ Raise("OTHER")
           \/ decision # Rejected /\ Repeated(decision) /\ Raise("NO_PROGRESS")
           \/ /\ decision # Rejected
              /\ ~Repeated(decision)
              /\ pc' = Dispatch(decision)
              /\ UNCHANGED result
        /\ UNCHANGED <<job, request, round, attempts, obs, decision,
                       planner, feedback, retry, ids, search, steps, seen>>
-----------------------------------------------------------------------------
(* A round: act and verify.                                                 *)

\* ToolRuntime.execute refuses: the device is gone or cannot do it, the risk is
\* not confirmed, a permission dialog is in front, or it cannot be observed.
ToolRefused ==
  /\ At("tool")
  /\ Raise("OTHER")
  /\ UNCHANGED <<job, request, round, attempts, obs, decision, planner,
                 feedback, retry, ids, search, steps, seen>>

\* A tool call looks at the device before it acts, blank or not.
ToolBefore ==
  /\ At("tool")
  /\ \E p \in Pages : obs' = p /\ seen' = Look(p)
  /\ pc' = "dispatch"
  /\ UNCHANGED <<job, request, round, attempts, decision, planner,
                 feedback, retry, ids, search, steps, result>>

\* An element that is not where the planner saw it is an error of the round,
\* not of the run, and nothing was sent to the device.
Located == decision.id \in Locating => obs = decision.arg

ToolMisses ==
  /\ At("dispatch")
  /\ ~Located
  /\ feedback' = Feedback(decision, FALSE)
  /\ retry' = TRUE
  /\ pc' = "record"
  /\ UNCHANGED <<job, request, round, attempts, obs, decision, planner,
                 ids, search, steps, result, seen>>

\* The adapter performs the input; when it fails, the device may have got it.
ToolAct ==
  /\ At("dispatch")
  /\ Located
  /\ Act
  /\ \/ pc' = "verifyTool" /\ UNCHANGED result
     \/ Raise("OTHER")
  /\ UNCHANGED <<job, request, round, attempts, obs, decision, planner,
                 feedback, retry, ids, search, steps>>

\* What the call changed is what the pages before and after it tell.
ToolVerify ==
  /\ At("verifyTool")
  /\ \/ /\ \E p \in Pages :
             /\ feedback' = Feedback(decision, p # obs)
             /\ seen' = [Look(p) EXCEPT !.call = Feedback(decision, p # obs),
                                        !.callRound = round]
        /\ retry' = FALSE
        /\ pc' = "record"
        /\ UNCHANGED result
     \/ Raise("OBSERVATION") /\ UNCHANGED <<feedback, retry, seen>>
  /\ UNCHANGED <<job, request, round, attempts, obs, decision, planner,
                 ids, search, steps>>

\* Mutant: the planner's expectation is trusted where the goal has an acceptance.
VerifiedAsPlanned(p, expected) == p = expected
Verified(p, expected) == IF job.acceptance THEN Accepted(p) ELSE p = expected

\* finish is verified on the observation of the round: against the acceptance
\* of the goal if there is one, else against what the planner expects.
Finish ==
  /\ At("finish")
  /\ retry' = ~Verified(obs, decision.arg)
  /\ feedback' = IF retry' THEN Feedback(decision, FALSE) ELSE NoFeedback
  /\ pc' = "record"
  /\ UNCHANGED <<job, request, round, attempts, obs, decision, planner,
                 ids, search, steps, result, seen>>

\* After a skill only the acceptance is left to verify.
SkillDone ==
  /\ pc' = IF job.acceptance THEN "verifySkill" ELSE "record"
  /\ feedback' = NoFeedback
  /\ retry' = FALSE
  /\ UNCHANGED result

\* input.unicode_text switches the input method, writes and reads back; it is
\* refused, fails with or without an effect, or succeeds.
UnicodeInput ==
  /\ At("unicode")
  /\ \/ UNCHANGED seen /\ Raise("OTHER") /\ UNCHANGED <<feedback, retry>>
     \/ Act /\ Raise("OTHER") /\ UNCHANGED <<feedback, retry>>
     \/ Act /\ SkillDone
  /\ UNCHANGED <<job, request, round, attempts, obs, decision, planner, ids, search,
                 steps>>

\* The acceptance must hold after any skill; if not, no other round follows.
VerifySkill ==
  /\ At("verifySkill")
  /\ \E p \in Selectors :
       /\ seen' = Look(p)
       /\ \/ Accepted(p) /\ pc' = "record" /\ UNCHANGED result
          \/ ~Accepted(p) /\ Raise("TARGET")
  /\ attempts' = 0
  /\ UNCHANGED <<job, request, round, obs, decision, planner,
                 feedback, retry, ids, search, steps>>
-----------------------------------------------------------------------------
(* settings.scroll_navigate: open the settings, scroll to the target, turn    *)
(* round once when the page stops moving, tap, wait for the expected page.   *)
(* Nothing between these steps asks whether the run was stopped.             *)

SkillFails(place) ==
  /\ At(place)
  /\ Raise("OTHER")
  /\ UNCHANGED <<job, request, round, attempts, obs, decision, planner,
                 feedback, retry, ids, search, steps, seen>>

\* An input of the skill, with the checks of the tool call around it left to
\* SkillFails.
SkillActs(place, next) ==
  /\ At(place)
  /\ Act
  /\ \/ pc' = next /\ UNCHANGED result
     \/ Raise("OTHER")
  /\ UNCHANGED <<job, request, round, attempts, obs, decision, planner,
                 feedback, retry, ids, steps>>

OpenSettings == SkillActs("open", "opened") /\ UNCHANGED search

Opened ==
  /\ At("opened")
  /\ seen' = Look(Settings)
  /\ pc' = "search"
  /\ search' = [left |-> MaxScrolls, turn |-> TRUE]
  /\ UNCHANGED <<job, request, round, attempts, obs, decision, planner,
                 feedback, retry, ids, steps, result>>

\* The target is on the page, or the page has not moved since it was last seen
\* (then the search turns round), or it scrolls once more.
Found ==
  /\ At("search")
  /\ \E p \in Selectors : seen' = Look(p)
  /\ pc' = "tap"
  /\ UNCHANGED <<job, request, round, attempts, obs, decision, planner,
                 feedback, retry, ids, search, steps, result>>

TurnRound ==
  /\ At("search")
  /\ search.turn
  /\ search.left < MaxScrolls
  /\ search' = [left |-> MaxScrolls, turn |-> FALSE]
  /\ \E p \in Pages : seen' = Look(p)
  /\ UNCHANGED <<job, request, pc, round, attempts, obs, decision,
                 planner, feedback, retry, ids, steps, result>>

ScrollOnce ==
  /\ search.left > 0
  /\ search' = [search EXCEPT !.left = @ - 1]
  /\ SkillActs("search", "search")

TapTarget == SkillActs("tap", "wait") /\ UNCHANGED search

ScrollDone ==
  /\ At("wait")
  /\ seen' = Look(decision.arg)
  /\ SkillDone
  /\ UNCHANGED <<job, request, round, attempts, obs, decision, planner,
                 ids, search, steps>>

ScrollSkill ==
  \/ OpenSettings \/ Opened \/ Found \/ TurnRound \/ ScrollOnce \/ TapTarget
  \/ ScrollDone
  \/ \E place \in {"open", "opened", "search", "tap", "wait"} :
       SkillFails(place)
-----------------------------------------------------------------------------
(* The end of a round and of the run.                                       *)

\* step_sequence_offset: the step of the shortcut comes before the rounds.
Offset == IF steps # <<>> /\ steps[1].round = 0 THEN 1 ELSE 0

\* The round is over: its step id must not be used again.
RoundDone == [ids EXCEPT !.pending = 0]

\* The step joins the report first and is told second: if that fails the step
\* is still pending.
Record ==
  /\ At("record")
  /\ \E told \in Told :
       /\ steps' = Append(steps,
            Step(ids.round, Offset + round,
                 IF retry THEN "failed" ELSE "succeeded", told))
       /\ seen' = Fault(told)
       /\ \/ ~told /\ Raise("STORAGE") /\ UNCHANGED ids
          \/ /\ told
             /\ ids' = RoundDone
             /\ pc' = "after"
             /\ UNCHANGED result
  /\ UNCHANGED <<job, request, round, attempts, obs, decision, planner,
                 feedback, retry, search>>

\* Whether the round was the last one; if not, what it saw and decided is gone.
Ends ==
  \/ decision.kind = "skill" /\ decision.id # Unicode
  \/ decision.kind = "finish" /\ ~retry

Continue ==
  /\ At("after")
  /\ \/ StopRun
     \/ /\ ~Stopped
        /\ \/ Ends /\ Succeed /\ UNCHANGED <<obs, decision>>
           \/ /\ ~Ends
              /\ pc' = "top"
              /\ obs' = Blank
              /\ decision' = NoDecision
              /\ UNCHANGED result
        /\ UNCHANGED <<job, request, round, attempts, planner, feedback,
                       retry, ids, search, steps, seen>>

\* The except branch: a failed step with the id of the pending round if there is
\* one; if it cannot be told either, the run itself raises.
Fail ==
  /\ At("failing")
  /\ \E told \in Told :
       /\ steps' = Append(steps,
            Step(IF ids.pending # 0 THEN ids.pending ELSE ids.minted + 1,
                 Len(steps) + 1, "failed", told))
       /\ ids' = IF ids.pending # 0 THEN ids
                 ELSE [ids EXCEPT !.minted = @ + 1]
       /\ seen' = Fault(told)
       /\ pc' = IF told THEN "done" ELSE "raised"
       /\ result' = IF told THEN [result EXCEPT !.status = "failed"] ELSE result
  /\ UNCHANGED <<job, request, round, attempts, obs, decision, planner,
                 feedback, retry, search>>

\* asyncio.run returns once the threads of the loop have ended, an abandoned
\* planner among them; only then does the executor get the report.  The locals
\* of run() are gone.
Deliver ==
  /\ pc \in {"done", "raised"}
  /\ planner = "idle"
  /\ pc' = "delivered"
  /\ round' = 0 /\ attempts' = 0 /\ obs' = Blank /\ decision' = NoDecision
  /\ feedback' = NoFeedback /\ retry' = FALSE
  /\ ids' = [minted |-> 0, round |-> 0, pending |-> 0]
  /\ search' = [left |-> 0, turn |-> FALSE]
  /\ UNCHANGED <<job, request, planner, steps, result, seen>>
-----------------------------------------------------------------------------
(* The surroundings of the run.                                             *)

Running == pc \notin {"done", "raised", "delivered"}

\* Where the run calls the probes.
Probing ==
  {"top", "observed", "deciding", "decided", "after"}
    \cup {Retry[place] : place \in Observing}

\* A probe holds the run until the pause is over, the run is cancelled or the
\* deadline is reached.  Two holds at one place are one that lasts longer.
Hold ==
  /\ \/ pc \in Probing
     \/ pc = "start" /\ job.shortcut
  /\ ~request.held /\ ~Stopped
  /\ request.pauses < MaxPauses
  /\ request' = [request EXCEPT !.held = TRUE, !.pauses = @ + 1]
  /\ UNCHANGED <<job, pc, round, attempts, obs, decision, planner,
                 feedback, retry, ids, search, steps, result, seen>>

Release ==
  /\ request.held
  /\ request' = [request EXCEPT !.held = FALSE]
  /\ seen' = [seen EXCEPT !.stale = obs # Blank]
  /\ UNCHANGED <<job, pc, round, attempts, obs, decision, planner,
                 feedback, retry, ids, search, steps, result>>

RequestCancel ==
  /\ Running /\ ~request.cancel
  /\ request' = [request EXCEPT !.cancel = TRUE]
  /\ UNCHANGED <<job, pc, round, attempts, obs, decision, planner,
                 feedback, retry, ids, search, steps, result, seen>>

\* A deadline behind a cancellation changes nothing any more.
DeadlinePasses ==
  /\ Running /\ ~Stopped
  /\ request' = [request EXCEPT !.late = TRUE]
  /\ UNCHANGED <<job, pc, round, attempts, obs, decision, planner,
                 feedback, retry, ids, search, steps, result, seen>>

Loop ==
  \/ RejectArguments \/ Begin \/ BeginShortcut
  \/ ShortcutRefused \/ ShortcutAct \/ ShortcutVerify \/ ShortcutStep
  \/ VerifyShortcut
  \/ ObserveFails \/ ObserveAgain
  \/ BeginRound \/ Exhausted \/ Observe \/ StartPlanner
  \/ Abandon \/ Decided \/ Accept
  \/ ToolRefused \/ ToolBefore \/ ToolMisses \/ ToolAct \/ ToolVerify
  \/ Finish \/ UnicodeInput \/ VerifySkill \/ ScrollSkill
  \/ Record \/ Continue \/ Fail \/ Deliver

Next ==
  \/ Loop \/ PlannerReturns
  \/ Hold \/ Release \/ RequestCancel \/ DeadlinePasses

\* The loop and the planner's thread run; a call of the planner has a timeout;
\* a pause ends with the deadline at the latest.
Fairness == WF_vars(Loop) /\ WF_vars(PlannerReturns) /\ WF_vars(Release)

Spec == Init /\ [][Next]_vars /\ Fairness
-----------------------------------------------------------------------------
(* Properties.                                                              *)

Places == {"start", "shortcut", "navigated", "navigatedStep", "verifyShortcut",
           "top", "observe", "observed", "deciding", "decided", "tool",
           "dispatch", "verifyTool", "finish", "unicode", "verifySkill", "open",
           "opened", "search", "tap", "wait", "record", "after", "failing",
           "done", "raised", "delivered"} \cup {Retry[p] : p \in Observing}
FeedbackType ==
  [id : AllowedTools \cup {"finish", "none"}, arg : Pages, changed : BOOLEAN]
Errors == {"none", "STOPPED", "OTHER", "STORAGE", "OBSERVATION", "TARGET",
           "NO_PROGRESS"}

\* The state is well formed, and the counters of a run (agent/runner.py) stay
\* within its budgets of rounds, attempts and scrolls.
TypeOK ==
  /\ job \in [rounds : Budgets, acceptance : BOOLEAN,
              shortcut : BOOLEAN]
  /\ obs \in Pages
  /\ request \in [cancel : BOOLEAN, late : BOOLEAN, held : BOOLEAN,
                  pauses : 0 .. MaxPauses]
  /\ pc \in Places
  /\ round \in 0 .. MaxRounds
  /\ attempts \in 0 .. ObserveAttempts
  /\ decision \in Decision \cup {Rejected, PlannerError, NoDecision}
  /\ planner \in {"idle", "busy"}
  /\ feedback \in FeedbackType
  /\ retry \in BOOLEAN
  /\ ids \in [minted : Nat, round : Nat, pending : Nat]
  /\ search \in [left : 0 .. MaxScrolls, turn : BOOLEAN]
  /\ steps \in Seq([id : Nat, sequence : Nat, round : Nat,
                    status : {"succeeded", "failed"}, told : BOOLEAN])
  /\ result \in [status : {"none", "succeeded", "failed"} \cup Stops,
                 error : Errors]
  /\ seen \in [since : SUBSET Pages, acted : SUBSET Nat, late : SUBSET Nat,
               stale : BOOLEAN, call : FeedbackType, callRound : Nat,
               faults : Nat]

\* run() returned a report.
Ended == pc = "done"

\* A run that claims success has seen the goal after the last input it sent to
\* the device: by the acceptance if the goal has one, else where its finish
\* says (run, _run_decision, _verify_goal_acceptance, _verify_finish).
GoalSeenAfterLastInput ==
  Ended /\ result.status = "succeeded" =>
    /\ job.acceptance => seen.since \cap GoalPages # {}
    /\ ~job.acceptance /\ decision.kind = "finish" => decision.arg \in seen.since
    /\ round = 0 => Settings \in seen.since \/ job.acceptance

\* A tool call that changed nothing is not made again in the next round
\* (_reject_repeated_no_progress, the feedback of _action_feedback).
NoUnchangedRepeat ==
  pc \in {"tool", "dispatch"} =>
    ~(seen.callRound = round - 1 /\ seen.call = Feedback(decision, FALSE))

\* The steps of a report are numbered 1, 2, 3, ... whether the shortcut came
\* first, rounds were repaired or the run failed, and no two events of the
\* timeline name the same step (run, _failed_task).
StepsNumbered ==
  /\ \A i \in DOMAIN steps : steps[i].sequence = i
  /\ \A i, j \in DOMAIN steps :
       steps[i].id = steps[j].id /\ steps[i].told /\ steps[j].told => i = j

\* Every round that sent an input to the device is in the report; only a run
\* that is stopped while the acceptance of a skill is observed leaves its round
\* out (the except branch of run adds no step for a stopped run).
InputsReported ==
  Ended =>
    LET reported == {steps[i].round : i \in DOMAIN steps}
        dropped  == IF result.status \in Stops /\ job.acceptance
                       /\ decision.kind = "skill" THEN {round} ELSE {}
    IN seen.acted \subseteq reported \cup dropped

\* Once the run is cancelled or late, at most the round it is in sends inputs to
\* the device (_raise_if_stopped between any two rounds and before an action).
OneLateRound == Cardinality(seen.late) <= 1

\* After a pause the run acts, and finishes, on what it saw after the pause
\* (docs/architecture/reliability-model.md:49).  The code does not keep this: a
\* probe between observation and action holds the run with the old observation.
ResumedOnLatestObservation ==
  pc \in {"tool", "finish", "unicode", "open"} => ~seen.stale

\* Typing a text is one step of the run: a goal that is not reached yet does not
\* end it (agent/runner.py:328).  The code does not keep this: any skill must
\* leave the device on the accepted page.
UnicodeIsOneStep ==
  pc = "failing" /\ decision.id = Unicode => result.error # "TARGET"

\* A run ends and its report reaches the executor, however the planner answers
\* and the device behaves (the budgets of run and _observe_with_retry).
Terminates == <>(pc = "delivered")
=============================================================================
