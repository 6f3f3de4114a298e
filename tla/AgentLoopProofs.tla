-------------------------- MODULE AgentLoopProofs ---------------------------
(***************************************************************************)
(* What holds of every run of the agent (AgentRunner.run), for any pages,    *)
(* tools, budgets, pauses and faults of the store.                          *)
(*                                                                          *)
(* TypeInv says where a run can be with which decision.  On it rest five     *)
(* invariants, each for one theorem: Watched (what was seen since the last   *)
(* input), Remembered (whose feedback it is), Accounted (which rounds are in *)
(* the report), LateKnown (which round acted after a stop), and Numbered     *)
(* with Named (the steps of the report).                                    *)
(***************************************************************************)
EXTENDS AgentLoop, FiniteSetTheorems, TLAPS

-----------------------------------------------------------------------------
(* The invariant.                                                           *)

\* The phases of a run.
Shortcutting == {"start", "shortcut", "navigated", "navigatedStep", "verifyShortcut",
                 "verifyShortcutRetry"}
Deciding     == {"observe", "observeRetry", "observed", "deciding", "decided"}
Calling      == {"tool", "dispatch", "verifyTool"}
Scrolling    == {"open", "opened", "search", "tap", "wait"}
Verifying    == {"verifySkill", "verifySkillRetry"}
Acting       == Calling \cup Scrolling \cup Verifying \cup {"finish", "unicode", "record"}
Over         == {"done", "raised", "delivered"}

JobType     == [rounds : Budgets, acceptance : BOOLEAN, shortcut : BOOLEAN]
RequestType == [cancel : BOOLEAN, late : BOOLEAN, held : BOOLEAN, pauses : 0 .. MaxPauses]
IdsType     == [minted : Nat, round : Nat, pending : Nat]
SearchType  == [left : 0 .. MaxScrolls, turn : BOOLEAN]
StepType    == [id : Nat, sequence : Nat, round : Nat,
                status : {"succeeded", "failed"}, told : BOOLEAN]
ResultType  == [status : {"none", "succeeded", "failed"} \cup Stops, error : Errors]
SeenType    == [since : SUBSET Pages, acted : SUBSET Nat, late : SUBSET Nat,
                stale : BOOLEAN, call : FeedbackType, callRound : Nat, faults : Nat]

ToolDecisions   == [kind : {"tool"}, id : Tools, arg : Selectors]
FinishDecisions == [kind : {"finish"}, id : {"finish"}, arg : Selectors]
NoResult        == [status |-> "none", error |-> "none"]

\* The variables have the types of TypeOK.
Surroundings ==
  /\ job \in JobType
  /\ request \in RequestType
  /\ planner \in {"idle", "busy"}
Locals ==
  /\ pc \in Places
  /\ round \in 0 .. MaxRounds
  /\ attempts \in 0 .. ObserveAttempts
  /\ obs \in Pages
  /\ decision \in Decision \cup {Rejected, PlannerError, NoDecision}
  /\ feedback \in FeedbackType
  /\ retry \in BOOLEAN
  /\ ids \in IdsType
  /\ search \in SearchType
Reports ==
  /\ steps \in Seq(StepType)
  /\ result \in ResultType
  /\ seen \in SeenType
Typed == Surroundings /\ Locals /\ Reports

\* The budgets are legal once the run has begun, and an observation is tried only
\* while attempts are left.
Budgeted ==
  /\ pc \notin Over \cup {"start"} => job.rounds \in 1 .. MaxRounds
  /\ pc \notin Over \cup {"failing"} => attempts < ObserveAttempts

\* A run that goes on has no result; one that fails has no status yet.
Unfinished ==
  /\ pc \notin Over \cup {"failing"} => result = NoResult
  /\ pc = "failing" => result.status = "none"

\* The decision of the round leads to where the run is.
Dispatched ==
  /\ pc = "deciding" /\ planner = "idle" => decision \in Decision \cup {Rejected, PlannerError}
  /\ pc = "decided" => decision \in Decision \cup {Rejected}
  /\ pc \in Calling => decision \in ToolDecisions
  /\ pc = "finish" => decision \in FinishDecisions
  /\ pc = "unicode" => decision.kind = "skill"
  /\ pc \in Scrolling => decision.kind = "skill" /\ decision.arg \in Selectors
  /\ pc \in Verifying => decision.kind = "skill" /\ job.acceptance
  /\ pc \in Acting \cup {"after"} => decision \in Decision

\* The shortcut comes before the first round and its decision.
Phased ==
  /\ pc \in Shortcutting => round = 0 /\ decision = NoDecision
  /\ pc \in Deciding \cup Acting \cup {"after"} => round > 0

TypeInv == Typed /\ Budgeted /\ Unfinished /\ Dispatched /\ Phased

-----------------------------------------------------------------------------
(* Types.                                                                   *)

LEMMA RetryValues ==
  /\ Observing = {"observe", "verifyShortcut", "verifySkill"}
  /\ Retry["observe"] = "observeRetry"
  /\ Retry["verifyShortcut"] = "verifyShortcutRetry"
  /\ Retry["verifySkill"] = "verifySkillRetry"
BY DEF Observing, Retry

LEMMA RetryPlaces ==
  {Retry[p] : p \in Observing} = {"observeRetry", "verifyShortcutRetry", "verifySkillRetry"}
BY RetryValues

LEMMA FeedbackTyped ==
  ASSUME NEW d \in Decision, d.kind # "skill", NEW changed \in BOOLEAN
  PROVE  Feedback(d, changed) \in FeedbackType
BY ToolsAssumption, PagesAssumption DEF Feedback, FeedbackType, Decision, Selectors

LEMMA ConstantsTyped ==
  /\ NoFeedback \in FeedbackType
  /\ Blank \in Pages /\ Settings \in Selectors /\ Selectors \subseteq Pages
  /\ GoalPages \subseteq Selectors
  /\ NoDecision \notin Decision /\ Rejected \notin Decision /\ PlannerError \notin Decision
  /\ Rejected # PlannerError /\ NoDecision # Rejected /\ NoDecision # PlannerError
BY PagesAssumption
DEF NoFeedback, FeedbackType, Selectors, NoDecision, Rejected, PlannerError, Decision

LEMMA LookTyped ==
  ASSUME seen \in SeenType, NEW p \in Pages
  PROVE  Look(p) \in SeenType
BY DEF Look, SeenType

LEMMA ActTyped ==
  ASSUME seen \in SeenType, round \in Nat, Act
  PROVE  seen' \in SeenType
BY DEF Act, SeenType

LEMMA FaultTyped ==
  ASSUME seen \in SeenType, NEW told \in BOOLEAN
  PROVE  Fault(told) \in SeenType
BY DEF Fault, SeenType

LEMMA ToldTyped == Told \subseteq BOOLEAN
BY DEF Told

LEMMA StepTyped ==
  ASSUME round \in Nat, NEW id \in Nat, NEW sequence \in Nat,
         NEW status \in {"succeeded", "failed"}, NEW told \in BOOLEAN
  PROVE  Step(id, sequence, status, told) \in StepType
BY DEF Step, StepType

LEMMA ResultTyped ==
  /\ NoResult \in ResultType
  /\ \A r \in ResultType : \A e \in Errors :
       [r EXCEPT !.error = e] \in ResultType
  /\ \A r \in ResultType : [r EXCEPT !.status = "failed"] \in ResultType
  /\ \A s \in {"none", "succeeded", "failed"} \cup Stops : \A e \in Errors :
       [status |-> s, error |-> e] \in ResultType
BY DEF NoResult, ResultType, Errors

LEMMA TypedGivesTypes == Typed => TypeOK
BY
DEF Typed, Surroundings, Locals, Reports, TypeOK, JobType, RequestType, IdsType, SearchType,
       StepType, ResultType, SeenType

LEMMA StepsChange ==
  Next => steps' = steps \/ RejectArguments \/ ShortcutStep \/ Record \/ Fail
BY DEF Next, Loop, Begin, BeginShortcut, ShortcutRefused, ShortcutAct, ShortcutVerify,
       VerifyShortcut, ObserveFails, ObserveAgain, BeginRound, Exhausted, Observe, StartPlanner,
       Abandon, Decided, Accept, ToolRefused, ToolBefore, ToolMisses, ToolAct, ToolVerify, Finish,
       UnicodeInput, VerifySkill, ScrollSkill, OpenSettings, Opened, Found, TurnRound, ScrollOnce,
       TapTarget, ScrollDone, SkillFails, SkillActs, Continue, Deliver, PlannerReturns, Hold,
       Release, RequestCancel, DeadlinePasses, StopRun

LEMMA StepsTyped == TypeInv /\ Next => steps' \in Seq(StepType)
<1> SUFFICES ASSUME TypeInv, Next PROVE steps' \in Seq(StepType)
  OBVIOUS
<1>1. steps \in Seq(StepType) /\ round \in Nat /\ ids \in IdsType /\ retry \in BOOLEAN
  BY BoundAssumption DEF TypeInv, Typed, Reports, Locals
<1>2. CASE RejectArguments
  <2>1. PICK told \in Told : steps' = <<Step(1, 1, "failed", told)>>
    BY <1>2 DEF RejectArguments
  <2>2. Step(1, 1, "failed", told) \in StepType
    BY <1>1, ToldTyped, StepTyped
  <2> QED
    BY <2>1, <2>2
<1>3. CASE ShortcutStep
  <2>1. PICK told \in Told : steps' = Append(steps, Step(ids.minted + 1, 1, "succeeded", told))
    BY <1>3 DEF ShortcutStep
  <2>2. ids.minted + 1 \in Nat
    BY <1>1 DEF IdsType
  <2>3. Step(ids.minted + 1, 1, "succeeded", told) \in StepType
    BY <1>1, <2>2, ToldTyped, StepTyped
  <2> QED
    BY <1>1, <2>1, <2>3
<1>4. CASE Record
  <2>1. Offset + round \in Nat
    BY <1>1 DEF Offset
  <2> QED
    BY <1>1, <1>4, <2>1, ToldTyped, StepTyped DEF Record, IdsType
<1>5. CASE Fail
  <2> DEFINE id == IF ids.pending # 0 THEN ids.pending ELSE ids.minted + 1
  <2>1. PICK told \in Told : steps' = Append(steps, Step(id, Len(steps) + 1, "failed", told))
    BY <1>5 DEF Fail
  <2>2. id \in Nat
    BY <1>1 DEF IdsType
  <2> HIDE DEF id
  <2>3. Step(id, Len(steps) + 1, "failed", told) \in StepType
    BY <1>1, <2>2, ToldTyped, StepTyped
  <2> QED
    BY <1>1, <2>1, <2>3
<1> QED
  BY <1>1, <1>2, <1>3, <1>4, <1>5, StepsChange

LEMMA ResultChange ==
  Next => \/ result' = result
          \/ \E e \in Errors : result' = [result EXCEPT !.error = e]
          \/ \E s \in {"none", "succeeded", "failed"} \cup Stops, e \in Errors :
               result' = [status |-> s, error |-> e]
          \/ Fail
BY DEF Next, Loop, RejectArguments, Begin, BeginShortcut, ShortcutRefused, ShortcutAct,
       ShortcutVerify, ShortcutStep,
       VerifyShortcut, ObserveFails, ObserveAgain, BeginRound, Exhausted, Observe, StartPlanner,
       Abandon, Decided, Accept, ToolRefused, ToolBefore, ToolMisses, ToolAct, ToolVerify, Finish,
       UnicodeInput, VerifySkill, ScrollSkill, OpenSettings, Opened, Found, TurnRound, ScrollOnce,
       TapTarget, ScrollDone, SkillFails, SkillActs, SkillDone, Record, Continue, Deliver,
       PlannerReturns, Hold,
       Release, RequestCancel, DeadlinePasses, StopRun, Raise, Succeed, Errors, Stops

LEMMA SeenChange ==
  TypeInv /\ Next =>
          \/ seen' = seen
          \/ \E p \in Pages : seen' = Look(p)
          \/ Act
          \/ \E told \in Told : seen' = Fault(told)
          \/ Observe \/ ToolVerify \/ Release
<1> SUFFICES ASSUME TypeInv, Next, ~Observe, ~ToolVerify, ~Release
             PROVE  \/ seen' = seen
                    \/ \E p \in Pages : seen' = Look(p)
                    \/ Act
                    \/ \E told \in Told : seen' = Fault(told)
  OBVIOUS
<1>1. CASE ScrollSkill
  <2>1. CASE ScrollDone
    <3>1. decision.arg \in Pages
      BY <2>1, ConstantsTyped DEF TypeInv, Dispatched, Scrolling, ScrollDone, At
    <3> QED
      BY <2>1, <3>1 DEF ScrollDone
  <2> QED
    BY <1>1, <2>1, ConstantsTyped
    DEF ScrollSkill, OpenSettings, Opened, Found, TurnRound, ScrollOnce, TapTarget,
        SkillFails,
        SkillActs
<1>2. CASE Hold \/ RequestCancel \/ DeadlinePasses \/ PlannerReturns
  BY <1>2 DEF Hold, RequestCancel, DeadlinePasses, PlannerReturns
<1>3. CASE RejectArguments \/ Begin \/ BeginShortcut \/ ShortcutRefused \/ ShortcutAct
             \/ ShortcutVerify \/ ShortcutStep \/ VerifyShortcut
  BY <1>3, ConstantsTyped
  DEF RejectArguments, Begin, BeginShortcut, ShortcutRefused, ShortcutAct, ShortcutVerify,
      ShortcutStep, VerifyShortcut, StopRun
<1>4. CASE ObserveFails \/ ObserveAgain \/ BeginRound \/ Exhausted \/ StartPlanner \/ Abandon
             \/ Decided \/ Accept \/ ToolRefused \/ ToolMisses \/ Continue \/ Deliver
  BY <1>4
  DEF ObserveFails, ObserveAgain, BeginRound, Exhausted, StartPlanner, Abandon, Decided,
              Accept, ToolRefused, ToolMisses, Continue, Deliver, StopRun
<1>5. CASE ToolBefore \/ ToolAct \/ Finish \/ UnicodeInput \/ VerifySkill \/ Record \/ Fail
  BY <1>5, ConstantsTyped
  DEF ToolBefore, ToolAct, Finish, UnicodeInput, VerifySkill, Record, Fail
<1> QED
  BY <1>1, <1>2, <1>3, <1>4, <1>5 DEF Next, Loop


LEMMA IdsTyped == TypeInv /\ Next => ids' \in IdsType
<1> SUFFICES ASSUME TypeInv, Next PROVE ids' \in IdsType
  OBVIOUS
<1>1. ids \in IdsType
  BY DEF TypeInv, Typed, Locals
<1>2. CASE RejectArguments \/ ShortcutStep
  BY <1>1, <1>2 DEF RejectArguments, ShortcutStep, IdsType
<1>3. CASE BeginRound
  <2>1. \/ ids' = ids
        \/ ids' = [ids EXCEPT !.minted = ids.minted + 1, !.round = ids.minted + 1]
    BY <1>3 DEF BeginRound, StopRun
  <2>2. ids.minted + 1 \in Nat
    BY <1>1 DEF IdsType
  <2> QED
    BY <1>1, <2>1, <2>2 DEF IdsType
<1>7. CASE StartPlanner
  BY <1>1, <1>7 DEF StartPlanner, StopRun, IdsType
<1>4. CASE Record \/ Deliver
  BY <1>1, <1>4 DEF Record, Deliver, RoundDone, IdsType
<1>5. CASE Fail
  BY <1>1, <1>5 DEF Fail, IdsType
<1>6. CASE ids' = ids
  BY <1>1, <1>6
<1> QED
  BY <1>2, <1>3, <1>4, <1>5, <1>6, <1>7
  DEF Next, Loop, Begin, BeginShortcut, ShortcutRefused, ShortcutAct, ShortcutVerify,
      VerifyShortcut, ObserveFails, ObserveAgain, Exhausted, Observe, Abandon, Decided, Accept,
      ToolRefused, ToolBefore, ToolMisses, ToolAct, ToolVerify, Finish, UnicodeInput, VerifySkill,
      ScrollSkill, OpenSettings, Opened, Found, TurnRound, ScrollOnce, TapTarget, ScrollDone,
      SkillFails, SkillActs, Continue, PlannerReturns, Hold, Release, RequestCancel,
      DeadlinePasses, StopRun

LEMMA FeedbackStep == TypeInv /\ Next => feedback' \in FeedbackType
<1> SUFFICES ASSUME TypeInv, Next PROVE feedback' \in FeedbackType
  OBVIOUS
<1>1. feedback \in FeedbackType
  BY DEF TypeInv, Typed, Locals
<1>2. ASSUME ToolMisses \/ ToolVerify \/ Finish
      PROVE  decision \in Decision /\ decision.kind # "skill"
  BY <1>2 DEF TypeInv, Dispatched, ToolMisses, ToolVerify, Finish, At, Calling, Decision,
              ToolDecisions, FinishDecisions
<1>3. CASE ToolMisses \/ ToolVerify \/ Finish
  BY <1>1, <1>2, <1>3, FeedbackTyped, ConstantsTyped DEF ToolMisses, ToolVerify, Finish
<1>4. CASE UNCHANGED feedback \/ feedback' = NoFeedback
  BY <1>1, <1>4, ConstantsTyped
<1> QED
  BY <1>3, <1>4
  DEF Next, Loop, RejectArguments, Begin, BeginShortcut, ShortcutRefused, ShortcutAct,
      ShortcutVerify, ShortcutStep, VerifyShortcut, ObserveFails, ObserveAgain, BeginRound,
      Exhausted, Observe, StartPlanner, Abandon, Decided, Accept, ToolRefused, ToolBefore, ToolAct,
      UnicodeInput, VerifySkill, ScrollSkill, OpenSettings, Opened, Found, TurnRound, ScrollOnce,
      TapTarget, ScrollDone, SkillFails, SkillActs, SkillDone, Record, Continue, Fail, Deliver,
      PlannerReturns, Hold, Release, RequestCancel, DeadlinePasses, StopRun

LEMMA RequestTyped == TypeInv /\ Next => request' \in RequestType
<1> SUFFICES ASSUME TypeInv, Next PROVE request' \in RequestType
  OBVIOUS
<1>1. request \in RequestType /\ MaxPauses \in Nat
  BY BoundAssumption DEF TypeInv, Typed, Surroundings
<1>2. CASE Hold
  <2>1. request.pauses + 1 \in 0 .. MaxPauses
    BY <1>1, <1>2 DEF Hold, RequestType
  <2>2. request' = [request EXCEPT !.held = TRUE, !.pauses = request.pauses + 1]
    BY <1>2 DEF Hold
  <2> QED
    BY <1>1, <2>1, <2>2 DEF RequestType
<1>3. CASE Release \/ RequestCancel \/ DeadlinePasses
  BY <1>1, <1>3 DEF Release, RequestCancel, DeadlinePasses, RequestType
<1>4. CASE UNCHANGED request
  BY <1>1, <1>4
<1> QED
  BY <1>2, <1>3, <1>4
  DEF Next, Loop, RejectArguments, Begin, BeginShortcut, ShortcutRefused, ShortcutAct,
      ShortcutVerify, ShortcutStep, VerifyShortcut, ObserveFails, ObserveAgain, BeginRound,
      Exhausted, Observe, StartPlanner, Abandon, Decided, Accept, ToolRefused, ToolBefore,
      ToolMisses, ToolAct, ToolVerify, Finish, UnicodeInput, VerifySkill, ScrollSkill,
      OpenSettings, Opened, Found, TurnRound, ScrollOnce, TapTarget, ScrollDone, SkillFails,
      SkillActs, Record, Continue, Fail, Deliver, PlannerReturns, StopRun

LEMMA ControlStep ==
  TypeInv /\ Next => (Surroundings /\ Locals /\ Budgeted /\ Unfinished /\ Phased /\ Dispatched)'
<1> SUFFICES ASSUME TypeInv, Next
             PROVE  (Surroundings /\ Locals /\ Budgeted /\ Unfinished /\ Phased /\ Dispatched)'
  OBVIOUS
<1>0. MaxRounds \in Nat /\ ObserveAttempts \in Nat \ {0} /\ MaxScrolls \in Nat /\ MaxPauses \in Nat
  BY BoundAssumption
<1>p. ids' \in IdsType /\ feedback' \in FeedbackType /\ request' \in RequestType
  BY IdsTyped, FeedbackStep, RequestTyped
<1> USE <1>0, <1>p, ConstantsTyped, RetryValues, RetryPlaces
    DEF TypeInv, Typed, Surroundings, Locals, Budgeted, Unfinished, Dispatched, Phased,
        Shortcutting, Deciding, Calling, Scrolling, Verifying, Acting, Over, Places, At
<1>1. CASE RejectArguments
  BY <1>1 DEF RejectArguments, At, JobType, IdsType, NoResult
<1>2. CASE Begin
  BY <1>2 DEF Begin, At, JobType, NoResult
<1>3. CASE BeginShortcut
  BY <1>3 DEF BeginShortcut, At, StopRun, JobType, NoResult
<1>4. CASE ShortcutRefused
  BY <1>4 DEF ShortcutRefused, At, Raise, NoResult
<1>5. CASE ShortcutAct
  BY <1>5 DEF ShortcutAct, At, Raise, NoResult
<1>6. CASE ShortcutVerify
  BY <1>6 DEF ShortcutVerify, At, Raise, NoResult
<1>7. CASE ShortcutStep
  BY <1>7 DEF ShortcutStep, Raise, Succeed, NoResult
<1>8. CASE VerifyShortcut
  BY <1>8 DEF VerifyShortcut, At, Succeed, NoResult
<1>9. CASE ObserveFails
  BY <1>9 DEF ObserveFails, At, Raise, NoResult
<1>10. CASE ObserveAgain
  BY <1>10 DEF ObserveAgain, At, StopRun, NoResult
<1>11. CASE BeginRound
  <2>1. round' \in 0 .. MaxRounds /\ (pc' = "observe" => round' > 0)
    BY <1>11 DEF BeginRound, StopRun, Spent, JobType
  <2> QED
    BY <1>11, <2>1 DEF BeginRound, StopRun
<1>12. CASE Exhausted
  BY <1>12 DEF Exhausted, At, Raise, Spent, NoResult
<1>13. CASE Observe
  BY <1>13 DEF Observe, At, NoResult
<1>14. CASE StartPlanner
  BY <1>14 DEF StartPlanner, At, StopRun, IdsType, NoResult
<1>15. CASE Abandon
  BY <1>15 DEF Abandon, At, StopRun, NoResult
<1>16. CASE Decided
  BY <1>16 DEF Decided, At, Raise, NoResult, ToolDecisions, FinishDecisions, Decision
<1>17. CASE Accept
  BY <1>17
  DEF Accept, At, StopRun, Raise, Dispatch, NoResult, ToolDecisions, FinishDecisions,
      Decision
<1>18. CASE ToolRefused
  BY <1>18 DEF ToolRefused, At, Raise, NoResult
<1>19. CASE ToolBefore
  BY <1>19 DEF ToolBefore, At, NoResult
<1>20. CASE ToolMisses
  BY <1>20, FeedbackTyped
  DEF ToolMisses, At, NoResult, ToolDecisions, FinishDecisions, Decision
<1>21. CASE ToolAct
  BY <1>21 DEF ToolAct, At, Raise, NoResult
<1>22. CASE ToolVerify
  <2>1. retry' \in BOOLEAN
    BY <1>22 DEF ToolVerify
  <2>5. result = NoResult
    BY <1>22 DEF ToolVerify
  <2>2. pc' \in {"record", "failing"} /\ (pc' = "failing" => result'.status = "none")
    BY <1>22, <2>5 DEF ToolVerify, Raise, NoResult
  <2>3. UNCHANGED <<job, request, round, attempts, obs, decision, planner, ids, search, steps>>
    BY <1>22 DEF ToolVerify
  <2>4. pc = "verifyTool" /\ decision \in Decision /\ (pc' = "record" => result' = result)
    BY <1>22 DEF ToolVerify, Raise
  <2> QED
    BY <2>1, <2>2, <2>3, <2>4
<1>23. CASE Finish
  BY <1>23, FeedbackTyped
  DEF Finish, At, NoResult, ToolDecisions, FinishDecisions, Decision, Verified
<1>24. CASE UnicodeInput
  <2>1. CASE SkillDone
    BY <1>24, <2>1 DEF UnicodeInput, SkillDone, Decision
  <2>2. CASE Raise("OTHER") /\ UNCHANGED <<feedback, retry>>
    BY <1>24, <2>2 DEF UnicodeInput, Raise, NoResult
  <2> QED
    BY <1>24, <2>1, <2>2 DEF UnicodeInput
<1>25. CASE VerifySkill
  BY <1>25 DEF VerifySkill, At, Raise, NoResult
<1>26. CASE OpenSettings
  BY <1>26 DEF OpenSettings, SkillActs, At, Raise, NoResult
<1>27. CASE Opened
  BY <1>27 DEF Opened, At, SearchType, NoResult
<1>28. CASE Found
  BY <1>28 DEF Found, At, NoResult
<1>29. CASE TurnRound
  BY <1>29 DEF TurnRound, At, SearchType, NoResult
<1>30. CASE ScrollOnce
  BY <1>30 DEF ScrollOnce, SkillActs, At, Raise, SearchType, NoResult
<1>31. CASE TapTarget
  BY <1>31 DEF TapTarget, SkillActs, At, Raise, NoResult
<1>32. CASE ScrollDone
  BY <1>32 DEF ScrollDone, SkillDone, Decision
<1>33. CASE Record
  BY <1>33 DEF Record, At, Raise, RoundDone, IdsType, NoResult
<1>34. CASE Continue
  BY <1>34 DEF Continue, At, StopRun, Succeed, Ends, NoResult
<1>35. CASE Fail
  BY <1>35 DEF Fail, At, IdsType, NoResult
<1>36. CASE Deliver
  <2>1. search' \in SearchType
    BY <1>36 DEF Deliver, SearchType
  <2>2. /\ pc' = "delivered" /\ round' = 0 /\ attempts' = 0 /\ obs' = Blank /\ retry' = FALSE
        /\ decision' = NoDecision /\ UNCHANGED <<job, planner>>
    BY <1>36 DEF Deliver
  <2>5. 0 \in 0 .. MaxRounds /\ 0 \in 0 .. ObserveAttempts
    OBVIOUS
  <2>6. decision' \in {NoDecision} /\ retry' \in BOOLEAN /\ obs' \in Pages /\ pc' \in Places
    BY <2>2
  <2>7. Locals'
    BY <2>1, <2>2, <2>5, <2>6
  <2>3. Surroundings'
    BY <2>2
  <2>4. Budgeted' /\ Unfinished' /\ Phased' /\ Dispatched'
    BY <2>2
  <2> QED
    BY <2>3, <2>4, <2>7
<1>37. CASE PlannerReturns
  BY <1>37 DEF PlannerReturns, NoResult, ToolDecisions, FinishDecisions, Decision
<1>38. CASE Hold
  BY <1>38 DEF Hold
<1>39. CASE Release
  BY <1>39 DEF Release
<1>40. CASE RequestCancel
  BY <1>40 DEF RequestCancel
<1>41. CASE DeadlinePasses
  BY <1>41 DEF DeadlinePasses
<1>42. CASE \E place \in Scrolling : SkillFails(place)
  <2>1. PICK place \in Scrolling : SkillFails(place)
    BY <1>42
  <2> QED
    BY <2>1 DEF SkillFails, Raise, NoResult
<1> QED
  BY <1>1, <1>2, <1>3, <1>4, <1>5, <1>6, <1>7, <1>8, <1>9, <1>10, <1>11, <1>12, <1>13,
     <1>14, <1>15, <1>16, <1>17, <1>18, <1>19, <1>20, <1>21, <1>22, <1>23, <1>24, <1>25,
     <1>26, <1>27, <1>28, <1>29, <1>30, <1>31, <1>32, <1>33, <1>34, <1>35, <1>36, <1>37,
     <1>38, <1>39, <1>40, <1>41, <1>42
  DEF Next, Loop, ScrollSkill

LEMMA ReportsTyped == TypeInv /\ Next => Reports'
<1> SUFFICES ASSUME TypeInv, Next PROVE Reports'
  OBVIOUS
<1>1. result \in ResultType /\ seen \in SeenType /\ round \in Nat
  BY BoundAssumption DEF TypeInv, Typed, Locals, Reports
<1>2. result' \in ResultType
  <2>1. CASE Fail
    BY <1>1, <2>1, ResultTyped DEF Fail
  <2> QED
    BY <1>1, <2>1, ResultChange, ResultTyped
<1>3. seen' \in SeenType
  <2>1. CASE Observe
    <3>1. PICK p \in Selectors : seen' = [Look(p) EXCEPT !.stale = FALSE]
      BY <2>1 DEF Observe
    <3> QED
      BY <1>1, <3>1, ConstantsTyped, LookTyped DEF SeenType
  <2>2. CASE ToolVerify
    <3>1. decision \in Decision /\ decision.kind # "skill"
      BY <2>2 DEF TypeInv, Dispatched, ToolVerify, At, Calling, Decision, ToolDecisions
    <3>2. CASE UNCHANGED seen
      BY <1>1, <3>2
    <3>3. CASE ~UNCHANGED seen
      <4>1. PICK p \in Pages : seen' = [Look(p) EXCEPT !.call = Feedback(decision, p # obs),
                                                       !.callRound = round]
        BY <2>2, <3>3 DEF ToolVerify
      <4>2. Feedback(decision, p # obs) \in FeedbackType
        BY <3>1, FeedbackTyped
      <4> QED
        BY <1>1, <4>1, <4>2, LookTyped DEF SeenType
    <3> QED
      BY <3>2, <3>3
  <2>3. CASE Release
    BY <1>1, <2>3 DEF Release, SeenType
  <2>4. CASE \E told \in Told : seen' = Fault(told)
    BY <1>1, <2>4, ToldTyped, FaultTyped
  <2> QED
    BY <1>1, <2>1, <2>2, <2>3, <2>4, SeenChange, LookTyped, ActTyped
<1> QED
  BY <1>2, <1>3, StepsTyped DEF Reports

LEMMA InitTypeInv == Init => TypeInv
<1> SUFFICES ASSUME Init PROVE TypeInv
  OBVIOUS
<1>1. Surroundings
  BY BoundAssumption DEF Init, Surroundings, JobType, RequestType
<1>2. Locals
  <2>1. MaxRounds \in Nat /\ ObserveAttempts \in Nat /\ MaxScrolls \in Nat
    BY BoundAssumption
  <2>2. ids \in IdsType /\ search \in SearchType
    BY <2>1 DEF Init, IdsType, SearchType
  <2>3. 0 \in 0 .. MaxRounds /\ 0 \in 0 .. ObserveAttempts
    BY <2>1
  <2>4. pc \in Places
    BY DEF Init, Places
  <2>5. obs \in Pages
    BY ConstantsTyped DEF Init
  <2>6. decision \in {NoDecision}
    BY DEF Init
  <2>7. feedback \in FeedbackType /\ retry \in BOOLEAN
    BY ConstantsTyped DEF Init
  <2>8. round = 0 /\ attempts = 0
    BY DEF Init
  <2> QED
    BY <2>2, <2>3, <2>4, <2>5, <2>6, <2>7, <2>8 DEF Locals
<1>3. Reports
  BY ConstantsTyped DEF Init, Reports, ResultType, Errors, SeenType
<1> QED
  BY <1>1, <1>2, <1>3, BoundAssumption, RetryValues
  DEF Init, TypeInv, Typed, Budgeted, Unfinished, Dispatched, Phased, NoResult, Over,
      Shortcutting,
      Deciding, Acting, Calling, Scrolling, Verifying

LEMMA TypeInvStep == TypeInv /\ [Next]_vars => TypeInv'
<1>1. TypeInv /\ Next => TypeInv'
  BY ControlStep, ReportsTyped DEF TypeInv, Typed
<1>2. TypeInv /\ UNCHANGED vars => TypeInv'
  BY
  DEF vars, TypeInv, Typed, Surroundings, Locals, Reports, Budgeted, Unfinished, Dispatched,
         Phased
<1> QED
  BY <1>1, <1>2

-----------------------------------------------------------------------------
(* What the run has seen.                                                   *)

GoalMet == seen.since \cap GoalPages # {}

\* The page the run decides on was seen after its last input, and so was what a
\* round that may end the run found.
Watched ==
  /\ pc \in {"observed", "deciding", "decided", "finish"} => obs \in seen.since
  /\ pc = "navigatedStep" => Settings \in seen.since
  /\ pc \in {"verifyShortcut", "verifyShortcutRetry"} => job.acceptance
  /\ pc \in {"record", "after"} /\ job.acceptance /\ decision.kind = "skill" => GoalMet
  /\ pc \in {"record", "after"} /\ decision.kind = "finish" /\ ~retry =>
        IF job.acceptance THEN GoalMet ELSE decision.arg \in seen.since

\* The last tool call is not younger than the round, and until the round has
\* feedback of its own the feedback is that of the call of the round before.
Remembered ==
  /\ pc # "delivered" => seen.callRound <= round
  /\ pc \in Deciding \cup (Acting \ {"record"}) => seen.callRound < round
  /\ pc \in Deciding \cup Calling /\ seen.callRound = round - 1 => feedback = seen.call
  /\ pc \in {"record", "after", "top"} \cup Shortcutting /\ seen.callRound = round =>
       feedback = seen.call

Recorded == {steps[i].round : i \in DOMAIN steps}

\* A round that has acted is in the report, or it is the current one and about to
\* be recorded.
Accounted ==
  /\ pc = "start" => seen.acted = {}
  /\ pc \notin Over => seen.acted \subseteq Recorded \cup {round}
  /\ pc \notin Over \cup Acting \cup {"failing", "navigated", "navigatedStep"} =>
       seen.acted \subseteq Recorded

\* A stopped run begins no round: what was sent since is of one round.
LateKnown ==
  /\ ~Stopped => seen.late = {}
  /\ pc # "delivered" => seen.late \subseteq {round}
  /\ \E r \in Nat : seen.late \subseteq {r}

LEMMA WatchedStep ==
  TypeInv /\ Watched /\ GoalSeenAfterLastInput /\ Next => (Watched /\ GoalSeenAfterLastInput)'
<1> SUFFICES ASSUME TypeInv, Watched /\ GoalSeenAfterLastInput, Next
             PROVE  (Watched /\ GoalSeenAfterLastInput)'
  OBVIOUS
<1> USE RetryValues, RetryPlaces
    DEF TypeInv, Typed, Locals, Surroundings, Reports, Unfinished, Dispatched, Phased,
        Shortcutting, Deciding, Calling, Scrolling, Verifying, Acting, Over, Watched,
        GoalMet, GoalSeenAfterLastInput, Ended, SeenType, NoResult, Accepted, Verified,
        ToolDecisions, FinishDecisions, Stops
<1>1. CASE RejectArguments
  BY <1>1 DEF RejectArguments, At, Fault, Step
<1>2. CASE Begin
  BY <1>2 DEF Begin, At
<1>3. CASE BeginShortcut
  BY <1>3 DEF BeginShortcut, At, StopRun, Stopped
<1>4. CASE ShortcutRefused
  BY <1>4 DEF ShortcutRefused, At, Raise
<1>5. CASE ShortcutAct
  BY <1>5 DEF ShortcutAct, At, Raise, Act
<1>6. CASE ShortcutVerify
  BY <1>6 DEF ShortcutVerify, At, Raise, Look
<1>7. CASE ShortcutStep
  <2>1. seen'.since = seen.since
    BY <1>7, ToldTyped DEF ShortcutStep, Fault
  <2>2. pc' \in {"failing", "verifyShortcut", "done"} /\ (pc' = "done" => ~job.acceptance)
        /\ (pc' = "verifyShortcut" => job.acceptance)
    BY <1>7 DEF ShortcutStep, Raise, Succeed
  <2>3. pc = "navigatedStep" /\ UNCHANGED <<job, round, decision>>
    BY <1>7 DEF ShortcutStep, At
  <2> QED
    BY <2>1, <2>2, <2>3 DEF NoDecision
<1>8. CASE VerifyShortcut
  <2>1. PICK p \in Selectors : /\ seen' = Look(p)
                              /\ \/ Accepted(p) /\ Succeed
                                 \/ ~Accepted(p) /\ pc' = "top" /\ UNCHANGED result
    BY <1>8 DEF VerifyShortcut
  <2>2. p \in seen'.since
    BY <2>1 DEF Look
  <2>3. pc = "verifyShortcut" /\ UNCHANGED <<job, round, decision>> /\ job.acceptance
    BY <1>8 DEF VerifyShortcut, At
  <2>4. CASE Accepted(p) /\ Succeed
    <3>1. seen'.since \cap GoalPages # {}
      BY <2>2, <2>4
    <3>2. pc' = "done"
      BY <2>4 DEF Succeed
    <3> QED
      BY <2>3, <3>1, <3>2
  <2>5. CASE pc' = "top"
    BY <2>3, <2>5
  <2> QED
    BY <2>1, <2>4, <2>5
<1>9. CASE ObserveFails
  BY <1>9 DEF ObserveFails, At, Raise
<1>10. CASE ObserveAgain
  BY <1>10 DEF ObserveAgain, At, StopRun, Stopped
<1>11. CASE BeginRound
  BY <1>11 DEF BeginRound, At, StopRun, Spent, Stopped
<1>12. CASE Exhausted
  BY <1>12 DEF Exhausted, At, Raise, Spent
<1>13. CASE Observe
  BY <1>13 DEF Observe, At, Look
<1>14. CASE StartPlanner
  BY <1>14 DEF StartPlanner, At, StopRun, Stopped
<1>15. CASE Abandon
  BY <1>15 DEF Abandon, At, StopRun, Stopped
<1>16. CASE Decided
  BY <1>16 DEF Decided, At, Raise
<1>17. CASE Accept
  <2>1. pc = "decided" /\ UNCHANGED <<job, round, obs, decision, seen, retry>>
    BY <1>17 DEF Accept, At, StopRun
  <2>2. pc' \in {"done", "failing", "tool", "finish", "unicode", "open"}
    BY <1>17 DEF Accept, StopRun, Raise, Dispatch
  <2>3. pc' = "done" => result'.status # "succeeded"
    BY <1>17 DEF Accept, StopRun, Raise, Dispatch
  <2> QED
    BY <2>1, <2>2, <2>3
<1>18. CASE ToolRefused
  BY <1>18 DEF ToolRefused, At, Raise
<1>19. CASE ToolBefore
  BY <1>19 DEF ToolBefore, At, Look
<1>20. CASE ToolMisses
  BY <1>20 DEF ToolMisses, At, Located
<1>21. CASE ToolAct
  BY <1>21 DEF ToolAct, At, Raise, Act, Located
<1>22. CASE ToolVerify
  BY <1>22 DEF ToolVerify, At, Raise, Look
<1>23. CASE Finish
  BY <1>23 DEF Finish, At
<1>24. CASE UnicodeInput
  BY <1>24 DEF UnicodeInput, At, Raise, SkillDone, Act
<1>25. CASE VerifySkill
  BY <1>25 DEF VerifySkill, At, Raise, Look
<1>26. CASE OpenSettings
  BY <1>26 DEF OpenSettings, SkillActs, At, Raise, Act
<1>27. CASE Opened
  BY <1>27 DEF Opened, At, Look
<1>28. CASE Found
  BY <1>28 DEF Found, At, Look
<1>29. CASE TurnRound
  BY <1>29 DEF TurnRound, At, Look
<1>30. CASE ScrollOnce
  BY <1>30 DEF ScrollOnce, SkillActs, At, Raise, Act
<1>31. CASE TapTarget
  BY <1>31 DEF TapTarget, SkillActs, At, Raise, Act
<1>32. CASE ScrollDone
  BY <1>32 DEF ScrollDone, At, SkillDone, Look
<1>33. CASE Record
  BY <1>33 DEF Record, At, Raise, RoundDone, Fault, Offset, Step
<1>34. CASE Continue
  BY <1>34 DEF Continue, At, StopRun, Succeed, Ends, Stopped
<1>35. CASE Fail
  BY <1>35 DEF Fail, At, Fault, Step
<1>36. CASE Deliver
  BY <1>36 DEF Deliver
<1>37. CASE PlannerReturns
  BY <1>37 DEF PlannerReturns
<1>38. CASE Hold
  BY <1>38 DEF Hold, Probing, Stopped
<1>39. CASE Release
  BY <1>39 DEF Release
<1>40. CASE RequestCancel
  BY <1>40 DEF RequestCancel, Running
<1>41. CASE DeadlinePasses
  BY <1>41 DEF DeadlinePasses, Running, Stopped
<1>42. CASE \E place \in Scrolling : SkillFails(place)
  BY <1>42 DEF SkillFails, At, Raise
<1> QED
  BY <1>1, <1>2, <1>3, <1>4, <1>5, <1>6, <1>7, <1>8, <1>9, <1>10, <1>11, <1>12, <1>13,
     <1>14, <1>15, <1>16, <1>17, <1>18, <1>19, <1>20, <1>21, <1>22, <1>23, <1>24, <1>25,
     <1>26, <1>27, <1>28, <1>29, <1>30, <1>31, <1>32, <1>33, <1>34, <1>35, <1>36, <1>37,
     <1>38, <1>39, <1>40, <1>41, <1>42
  DEF Next, Loop, ScrollSkill

LEMMA RememberedStep ==
  TypeInv /\ Remembered /\ NoUnchangedRepeat /\ Next => (Remembered /\ NoUnchangedRepeat)'
<1> SUFFICES ASSUME TypeInv, Remembered /\ NoUnchangedRepeat, Next
             PROVE  (Remembered /\ NoUnchangedRepeat)'
  OBVIOUS
<1>0. round \in Nat /\ seen.callRound \in Nat
  BY BoundAssumption DEF TypeInv, Typed, Locals, Reports, SeenType
<1> USE <1>0, RetryValues, RetryPlaces
    DEF TypeInv, Typed, Locals, Surroundings, Reports, Unfinished, Dispatched, Phased,
        Shortcutting, Deciding, Calling, Scrolling, Verifying, Acting, Over, Remembered,
        NoUnchangedRepeat, SeenType, ToolDecisions, FinishDecisions
<1>1. CASE RejectArguments
  BY <1>1 DEF RejectArguments, At, Fault, Step
<1>2. CASE Begin
  BY <1>2 DEF Begin, At
<1>3. CASE BeginShortcut
  BY <1>3 DEF BeginShortcut, At, StopRun, Stopped
<1>4. CASE ShortcutRefused
  BY <1>4 DEF ShortcutRefused, At, Raise
<1>5. CASE ShortcutAct
  BY <1>5 DEF ShortcutAct, At, Raise, Act
<1>6. CASE ShortcutVerify
  BY <1>6 DEF ShortcutVerify, At, Raise, Look
<1>7. CASE ShortcutStep
  BY <1>7 DEF ShortcutStep, At, Raise, Succeed, Fault, Step
<1>8. CASE VerifyShortcut
  BY <1>8 DEF VerifyShortcut, At, Succeed, Look
<1>9. CASE ObserveFails
  BY <1>9 DEF ObserveFails, At, Raise
<1>10. CASE ObserveAgain
  BY <1>10 DEF ObserveAgain, At, StopRun, Stopped
<1>11. CASE BeginRound
  <2>1. CASE StopRun
    BY <1>11, <2>1 DEF BeginRound, At, StopRun
  <2>2. CASE ~StopRun
    <3>1. /\ pc = "top" /\ pc' = "observe" /\ round' = round + 1
          /\ UNCHANGED <<seen, feedback, decision>>
      BY <1>11, <2>2 DEF BeginRound, At
    <3> QED
      BY <3>1
  <2> QED
    BY <2>1, <2>2
<1>12. CASE Exhausted
  BY <1>12 DEF Exhausted, At, Raise, Spent
<1>13. CASE Observe
  BY <1>13 DEF Observe, At, Look
<1>14. CASE StartPlanner
  BY <1>14 DEF StartPlanner, At, StopRun, Stopped
<1>15. CASE Abandon
  BY <1>15 DEF Abandon, At, StopRun, Stopped
<1>16. CASE Decided
  BY <1>16 DEF Decided, At, Raise
<1>17. CASE Accept
  BY <1>17 DEF Accept, At, StopRun, Raise, Dispatch, Repeated, Stopped
<1>18. CASE ToolRefused
  BY <1>18 DEF ToolRefused, At, Raise
<1>19. CASE ToolBefore
  BY <1>19 DEF ToolBefore, At, Look
<1>20. CASE ToolMisses
  <2>1. pc = "dispatch" /\ pc' = "record" /\ UNCHANGED <<seen, round, decision>>
    BY <1>20 DEF ToolMisses, At
  <2> QED
    BY <2>1
<1>21. CASE ToolAct
  BY <1>21 DEF ToolAct, At, Raise, Act, Located
<1>22. CASE ToolVerify
  <2>1. pc = "verifyTool" /\ UNCHANGED <<round, decision>> /\ pc' \in {"record", "failing"}
    BY <1>22 DEF ToolVerify, At, Raise
  <2>2. CASE UNCHANGED <<feedback, seen>> /\ pc' = "failing"
    BY <2>1, <2>2
  <2>3. CASE seen'.call = feedback' /\ seen'.callRound = round
    <3>1. CASE pc' = "record"
      BY <2>1, <2>3, <3>1
    <3>2. CASE pc' = "failing"
      BY <2>1, <2>3, <3>2
    <3> QED
      BY <2>1, <3>1, <3>2
  <2>4. \/ UNCHANGED <<feedback, seen>> /\ pc' = "failing"
        \/ seen'.call = feedback' /\ seen'.callRound = round
    BY <1>22 DEF ToolVerify, Raise, Look
  <2> QED
    BY <2>2, <2>3, <2>4
<1>23. CASE Finish
  <2>1. pc = "finish" /\ pc' = "record" /\ UNCHANGED <<seen, round, decision>>
    BY <1>23 DEF Finish, At
  <2> QED
    BY <2>1
<1>24. CASE UnicodeInput
  <2>1. /\ pc = "unicode" /\ UNCHANGED <<round, decision>>
        /\ pc' \in {"verifySkill", "record", "failing"}
    BY <1>24 DEF UnicodeInput, At, Raise, SkillDone
  <2>2. seen'.callRound = seen.callRound /\ seen'.call = seen.call
    BY <1>24 DEF UnicodeInput, Act
  <2>3. seen'.callRound < round' /\ pc' \notin {"tool", "dispatch"}
    BY <2>1, <2>2
  <2>4. pc' \notin Deciding \cup Calling \cup {"after", "top"} \cup Shortcutting
    BY <2>1
  <2>5. seen'.callRound # round' /\ seen'.callRound <= round'
    BY <2>1, <2>2, <2>3
  <2>6. NoUnchangedRepeat'
    BY <2>3
  <2>7. Remembered'
    BY <2>3, <2>4, <2>5
  <2> QED
    BY <2>6, <2>7
<1>25. CASE VerifySkill
  <2>1. pc = "verifySkill" /\ UNCHANGED <<round, decision>> /\ pc' \in {"record", "failing"}
    BY <1>25 DEF VerifySkill, At, Raise
  <2>2. seen'.callRound = seen.callRound /\ seen'.call = seen.call
    BY <1>25 DEF VerifySkill, Look
  <2>3. seen'.callRound < round' /\ pc' \notin {"tool", "dispatch"}
    BY <2>1, <2>2
  <2>4. pc' \notin Deciding \cup Calling \cup {"after", "top"} \cup Shortcutting
    BY <2>1
  <2>5. seen'.callRound # round' /\ seen'.callRound <= round'
    BY <2>1, <2>2, <2>3
  <2>6. NoUnchangedRepeat'
    BY <2>3
  <2>7. Remembered'
    BY <2>3, <2>4, <2>5
  <2> QED
    BY <2>6, <2>7
<1>26. CASE OpenSettings
  BY <1>26 DEF OpenSettings, SkillActs, At, Raise, Act
<1>27. CASE Opened
  BY <1>27 DEF Opened, At, Look
<1>28. CASE Found
  BY <1>28 DEF Found, At, Look
<1>29. CASE TurnRound
  BY <1>29 DEF TurnRound, At, Look
<1>30. CASE ScrollOnce
  BY <1>30 DEF ScrollOnce, SkillActs, At, Raise, Act
<1>31. CASE TapTarget
  BY <1>31 DEF TapTarget, SkillActs, At, Raise, Act
<1>32. CASE ScrollDone
  BY <1>32 DEF ScrollDone, At, SkillDone, Look
<1>33. CASE Record
  BY <1>33 DEF Record, At, Raise, RoundDone, Fault, Offset, Step
<1>34. CASE Continue
  BY <1>34 DEF Continue, At, StopRun, Succeed, Ends, Stopped
<1>35. CASE Fail
  BY <1>35 DEF Fail, At, Fault, Step
<1>36. CASE Deliver
  BY <1>36 DEF Deliver
<1>37. CASE PlannerReturns
  BY <1>37 DEF PlannerReturns
<1>38. CASE Hold
  BY <1>38 DEF Hold, Probing, Stopped
<1>39. CASE Release
  BY <1>39 DEF Release
<1>40. CASE RequestCancel
  BY <1>40 DEF RequestCancel, Running
<1>41. CASE DeadlinePasses
  BY <1>41 DEF DeadlinePasses, Running, Stopped
<1>42. CASE \E place \in Scrolling : SkillFails(place)
  BY <1>42 DEF SkillFails, At, Raise
<1> QED
  BY <1>1, <1>2, <1>3, <1>4, <1>5, <1>6, <1>7, <1>8, <1>9, <1>10, <1>11, <1>12, <1>13,
     <1>14, <1>15, <1>16, <1>17, <1>18, <1>19, <1>20, <1>21, <1>22, <1>23, <1>24, <1>25,
     <1>26, <1>27, <1>28, <1>29, <1>30, <1>31, <1>32, <1>33, <1>34, <1>35, <1>36, <1>37,
     <1>38, <1>39, <1>40, <1>41, <1>42
  DEF Next, Loop, ScrollSkill

LEMMA RecordedGrows ==
  ASSUME TypeInv, NEW step \in StepType, steps' = Append(steps, step)
  PROVE  Recorded' = Recorded \cup {step.round}
<1>1. steps \in Seq(StepType)
  BY DEF TypeInv, Typed, Reports
<1>2. /\ DOMAIN steps' = DOMAIN steps \cup {Len(steps) + 1}
      /\ \A i \in DOMAIN steps : steps'[i] = steps[i]
      /\ steps'[Len(steps) + 1] = step
  BY <1>1
<1> QED
  BY <1>2 DEF Recorded

LEMMA RoundRecorded ==
  TypeInv /\ (ShortcutStep \/ Record \/ Fail) =>
    Recorded' = Recorded \cup {round} /\ round' = round /\ seen'.acted = seen.acted
<1> SUFFICES ASSUME TypeInv, ShortcutStep \/ Record \/ Fail
             PROVE  Recorded' = Recorded \cup {round} /\ round' = round
                    /\ seen'.acted = seen.acted
  OBVIOUS
<1>1. UNCHANGED round /\ seen'.acted = seen.acted
  <2>1. PICK told \in Told : seen' = Fault(told)
    BY DEF ShortcutStep, Record, Fail
  <2>2. seen \in SeenType
    BY DEF TypeInv, Typed, Reports
  <2> QED
    BY <2>1, <2>2 DEF ShortcutStep, Record, Fail, Fault, SeenType
<1>2. PICK id, sequence, status, told : steps' = Append(steps, Step(id, sequence, status, told))
  BY DEF ShortcutStep, Record, Fail
<1>3. steps' \in Seq(StepType) /\ steps \in Seq(StepType)
  BY StepsTyped DEF TypeInv, Typed, Reports, Next, Loop
<1>4. Step(id, sequence, status, told) \in StepType
  <2>1. /\ steps'[Len(steps) + 1] = Step(id, sequence, status, told)
        /\ Len(steps) + 1 \in DOMAIN steps'
    BY <1>2, <1>3
  <2> QED
    BY <1>3, <2>1
<1> QED
  BY <1>1, <1>2, <1>4, RecordedGrows DEF Step

LEMMA AccountedStep ==
  TypeInv /\ Accounted /\ InputsReported /\ Next => (Accounted /\ InputsReported)'
<1> SUFFICES ASSUME TypeInv, Accounted /\ InputsReported, Next PROVE (Accounted /\ InputsReported)'
  OBVIOUS
<1> USE RetryValues, RetryPlaces
    DEF TypeInv, Typed, Locals, Surroundings, Reports, Unfinished, Dispatched, Phased,
        Shortcutting, Deciding, Calling, Scrolling, Verifying, Acting, Over, Accounted,
        InputsReported, Recorded, Ended, Stops, SeenType, ToolDecisions, FinishDecisions
<1>1. CASE RejectArguments
  BY <1>1 DEF RejectArguments, At, Fault, Step
<1>2. CASE Begin
  BY <1>2 DEF Begin, At
<1>3. CASE BeginShortcut
  BY <1>3 DEF BeginShortcut, At, StopRun, Stopped
<1>4. CASE ShortcutRefused
  BY <1>4 DEF ShortcutRefused, At, Raise
<1>5. CASE ShortcutAct
  BY <1>5 DEF ShortcutAct, At, Raise, Act
<1>6. CASE ShortcutVerify
  BY <1>6 DEF ShortcutVerify, At, Raise, Look
<1>7. CASE ShortcutStep
  BY <1>7, RoundRecorded DEF ShortcutStep, At, Raise, Succeed, Fault, Step
<1>8. CASE VerifyShortcut
  BY <1>8 DEF VerifyShortcut, At, Succeed, Look
<1>9. CASE ObserveFails
  BY <1>9 DEF ObserveFails, At, Raise
<1>10. CASE ObserveAgain
  BY <1>10 DEF ObserveAgain, At, StopRun, Stopped
<1>11. CASE BeginRound
  BY <1>11 DEF BeginRound, At, StopRun, Spent, Stopped
<1>12. CASE Exhausted
  BY <1>12 DEF Exhausted, At, Raise, Spent
<1>13. CASE Observe
  BY <1>13 DEF Observe, At, Look
<1>14. CASE StartPlanner
  BY <1>14 DEF StartPlanner, At, StopRun, Stopped
<1>15. CASE Abandon
  BY <1>15 DEF Abandon, At, StopRun, Stopped
<1>16. CASE Decided
  BY <1>16 DEF Decided, At, Raise
<1>17. CASE Accept
  <2>1. pc = "decided" /\ UNCHANGED <<job, round, decision, steps, seen>>
    BY <1>17 DEF Accept, At, StopRun
  <2>2. pc' \in {"done", "failing", "tool", "finish", "unicode", "open"}
    BY <1>17 DEF Accept, StopRun, Raise, Dispatch
  <2> QED
    BY <2>1, <2>2
<1>18. CASE ToolRefused
  BY <1>18 DEF ToolRefused, At, Raise
<1>19. CASE ToolBefore
  BY <1>19 DEF ToolBefore, At, Look
<1>20. CASE ToolMisses
  BY <1>20 DEF ToolMisses, At, Located
<1>21. CASE ToolAct
  BY <1>21 DEF ToolAct, At, Raise, Act, Located
<1>22. CASE ToolVerify
  BY <1>22 DEF ToolVerify, At, Raise, Look
<1>23. CASE Finish
  BY <1>23 DEF Finish, At
<1>24. CASE UnicodeInput
  <2>1. pc = "unicode" /\ UNCHANGED <<job, round, decision, steps>>
    BY <1>24 DEF UnicodeInput, At
  <2>2. seen'.acted \subseteq seen.acted \cup {round}
    BY <1>24 DEF UnicodeInput, Act
  <2>3. pc' \in {"verifySkill", "record", "failing"}
    BY <1>24 DEF UnicodeInput, Raise, SkillDone
  <2> QED
    BY <2>1, <2>2, <2>3
<1>25. CASE VerifySkill
  BY <1>25 DEF VerifySkill, At, Raise, Look
<1>26. CASE OpenSettings
  BY <1>26 DEF OpenSettings, SkillActs, At, Raise, Act
<1>27. CASE Opened
  BY <1>27 DEF Opened, At, Look
<1>28. CASE Found
  BY <1>28 DEF Found, At, Look
<1>29. CASE TurnRound
  BY <1>29 DEF TurnRound, At, Look
<1>30. CASE ScrollOnce
  BY <1>30 DEF ScrollOnce, SkillActs, At, Raise, Act
<1>31. CASE TapTarget
  BY <1>31 DEF TapTarget, SkillActs, At, Raise, Act
<1>32. CASE ScrollDone
  BY <1>32 DEF ScrollDone, At, SkillDone, Look
<1>33. CASE Record
  BY <1>33, RoundRecorded DEF Record, At, Raise, RoundDone, Fault, Offset, Step
<1>34. CASE Continue
  BY <1>34 DEF Continue, At, StopRun, Succeed, Ends, Stopped
<1>35. CASE Fail
  BY <1>35, RoundRecorded DEF Fail, At, Fault, Step
<1>36. CASE Deliver
  BY <1>36 DEF Deliver
<1>37. CASE PlannerReturns
  BY <1>37 DEF PlannerReturns
<1>38. CASE Hold
  BY <1>38 DEF Hold, Probing, Stopped
<1>39. CASE Release
  BY <1>39 DEF Release
<1>40. CASE RequestCancel
  BY <1>40 DEF RequestCancel, Running
<1>41. CASE DeadlinePasses
  BY <1>41 DEF DeadlinePasses, Running, Stopped
<1>42. CASE \E place \in Scrolling : SkillFails(place)
  BY <1>42 DEF SkillFails, At, Raise
<1> QED
  BY <1>1, <1>2, <1>3, <1>4, <1>5, <1>6, <1>7, <1>8, <1>9, <1>10, <1>11, <1>12, <1>13,
     <1>14, <1>15, <1>16, <1>17, <1>18, <1>19, <1>20, <1>21, <1>22, <1>23, <1>24, <1>25,
     <1>26, <1>27, <1>28, <1>29, <1>30, <1>31, <1>32, <1>33, <1>34, <1>35, <1>36, <1>37,
     <1>38, <1>39, <1>40, <1>41, <1>42
  DEF Next, Loop, ScrollSkill

LEMMA RoundChange ==
  Next => \/ UNCHANGED round
          \/ BeginRound /\ ~Stopped /\ pc' = "observe" /\ UNCHANGED <<seen, request>>
          \/ Deliver
BY DEF Next, Loop, RejectArguments, Begin, BeginShortcut, ShortcutRefused, ShortcutAct,
       ShortcutVerify, ShortcutStep, VerifyShortcut, ObserveFails, ObserveAgain, BeginRound,
       Exhausted, Observe, StartPlanner, Abandon, Decided, Accept, ToolRefused, ToolBefore,
       ToolMisses, ToolAct, ToolVerify, Finish, UnicodeInput, VerifySkill, ScrollSkill,
       OpenSettings, Opened, Found, TurnRound, ScrollOnce, TapTarget, ScrollDone, SkillFails,
       SkillActs, Record, Continue, Fail, PlannerReturns, Hold, Release, RequestCancel,
       DeadlinePasses, StopRun

\* A run that was asked to stop stays asked.
LEMMA StoppedStays == TypeInv /\ Next /\ Stopped => Stopped'
<1> SUFFICES ASSUME TypeInv, Next, Stopped PROVE Stopped'
  OBVIOUS
<1>1. request \in RequestType
  BY DEF TypeInv, Typed, Surroundings
<1>2. CASE Hold \/ Release \/ RequestCancel \/ DeadlinePasses
  BY <1>1, <1>2 DEF Hold, Release, RequestCancel, DeadlinePasses, Stopped, RequestType
<1>3. CASE UNCHANGED request
  BY <1>3 DEF Stopped
<1> QED
  BY <1>2, <1>3
  DEF Next, Loop, RejectArguments, Begin, BeginShortcut, ShortcutRefused, ShortcutAct,
      ShortcutVerify, ShortcutStep, VerifyShortcut, ObserveFails, ObserveAgain, BeginRound,
      Exhausted, Observe, StartPlanner, Abandon, Decided, Accept, ToolRefused, ToolBefore,
      ToolMisses, ToolAct, ToolVerify, Finish, UnicodeInput, VerifySkill, ScrollSkill,
      OpenSettings, Opened, Found, TurnRound, ScrollOnce, TapTarget, ScrollDone, SkillFails,
      SkillActs, Record, Continue, Fail, Deliver, PlannerReturns, StopRun

LEMMA LateChange ==
  TypeInv /\ Next =>
    \/ seen'.late = seen.late
    \/ Stopped /\ seen'.late = seen.late \cup {round} /\ UNCHANGED round
<1> SUFFICES ASSUME TypeInv, Next
             PROVE  \/ seen'.late = seen.late
                    \/ Stopped /\ seen'.late = seen.late \cup {round} /\ UNCHANGED round
  OBVIOUS
<1>1. seen \in SeenType
  BY DEF TypeInv, Typed, Reports
<1>2. CASE BeginRound \/ Deliver
  BY <1>2 DEF BeginRound, Deliver, StopRun
<1>3. CASE Act /\ UNCHANGED round
  BY <1>1, <1>3 DEF Act, SeenType, Stopped
<1>4. CASE Observe \/ Release
  BY <1>1, <1>4 DEF Observe, Release, Look, SeenType
<1>5. CASE ToolVerify
  BY <1>1, <1>5 DEF ToolVerify, Look, SeenType
<1>6. CASE UNCHANGED seen \/ \E p \in Pages : seen' = Look(p)
  BY <1>1, <1>6 DEF Look, SeenType
<1>7. CASE \E told \in Told : seen' = Fault(told)
  BY <1>1, <1>7 DEF Fault, SeenType
<1> QED
  BY <1>2, <1>3, <1>4, <1>5, <1>6, <1>7, SeenChange, RoundChange

\* Nothing happens after the delivery but that an old pause ends.
LEMMA DeliveredStays ==
  TypeInv /\ Next /\ pc = "delivered" => pc' = "delivered" /\ seen'.late = seen.late
<1> SUFFICES ASSUME TypeInv, Next, pc = "delivered"
             PROVE  pc' = "delivered" /\ seen'.late = seen.late
  OBVIOUS
<1>1. ~Loop
  BY RetryValues
  DEF Loop, RejectArguments, Begin, BeginShortcut, ShortcutRefused, ShortcutAct,
      ShortcutVerify, ShortcutStep, VerifyShortcut, ObserveFails, ObserveAgain, BeginRound,
      Exhausted, Observe, StartPlanner, Abandon, Decided, Accept, ToolRefused, ToolBefore,
      ToolMisses, ToolAct, ToolVerify, Finish, UnicodeInput, VerifySkill, ScrollSkill,
      OpenSettings, Opened, Found, TurnRound, ScrollOnce, TapTarget, ScrollDone, SkillFails,
      SkillActs, Record, Continue, Fail, Deliver, At
<1>2. seen \in SeenType
  BY DEF TypeInv, Typed, Reports
<1> QED
  BY <1>1, <1>2
  DEF Next, PlannerReturns, Hold, Release, RequestCancel, DeadlinePasses, Running, SeenType

LEMMA LateStep == TypeInv /\ LateKnown /\ Next => LateKnown'
<1> SUFFICES ASSUME TypeInv, LateKnown, Next PROVE LateKnown'
  OBVIOUS
<1>1. round \in Nat /\ round' \in Nat
  BY BoundAssumption, ControlStep DEF TypeInv, Typed, Locals
<1>2. ~Stopped' => seen'.late = {}
  BY StoppedStays, LateChange DEF LateKnown
<1>3. CASE pc = "delivered"
  BY <1>2, <1>3, DeliveredStays DEF LateKnown
<1>4. CASE pc # "delivered"
  <2>1. CASE Deliver
    BY <1>1, <1>2, <1>4, <2>1 DEF LateKnown, Deliver
  <2>2. CASE BeginRound /\ ~Stopped /\ UNCHANGED <<seen, request>>
    BY <1>1, <1>2, <1>4, <2>2 DEF LateKnown
  <2>3. CASE UNCHANGED round
    BY <1>1, <1>2, <1>4, <2>3, LateChange DEF LateKnown
  <2> QED
    BY <2>1, <2>2, <2>3, RoundChange
<1> QED
  BY <1>3, <1>4

-----------------------------------------------------------------------------
(* The numbers and the names of the steps.                                  *)

Unreported == {"start", "shortcut", "navigated", "navigatedStep"}
Between    == {"top", "after", "verifyShortcut", "verifyShortcutRetry"}

\* The report has the step of the shortcut, if it was taken, and one of every round
\* before this one.
Numbered ==
  /\ \A i \in DOMAIN steps : steps[i].sequence = i
  /\ pc \in Unreported => steps = <<>>
  /\ pc \in Deciding \cup Acting => Len(steps) = Offset + round - 1
  /\ pc \in Between => Len(steps) = Offset + round

\* The step ids that were told are different, and neither the id of the round nor the
\* one that is still pending is among them.
Named ==
  /\ \A i, j \in DOMAIN steps :
       steps[i].id = steps[j].id /\ steps[i].told /\ steps[j].told => i = j
  /\ pc # "delivered" => \A i \in DOMAIN steps : steps[i].told => steps[i].id <= ids.minted
  /\ pc \in Deciding \cup Acting =>
       /\ \A i \in DOMAIN steps : steps[i].told => steps[i].id # ids.round
       /\ ids.pending \in {0, ids.round}
       /\ 0 < ids.round
  /\ pc \in Unreported \cup Between => ids.pending = 0
  /\ pc \in Unreported => ids.round = 0
  /\ pc = "failing" /\ ids.pending # 0 =>
       \A i \in DOMAIN steps : steps[i].told => steps[i].id # ids.pending
  /\ ids.round <= ids.minted /\ ids.pending <= ids.minted

\* How a step that leaves the report alone moves between the phases.
LEMMA Moves ==
  TypeInv /\ Next /\ UNCHANGED steps =>
    \/ /\ pc = "top" /\ pc' = "observe" /\ round' = round + 1
    \/ pc' \in {"failing"} \cup Over
    \/ /\ UNCHANGED round
       /\ \/ pc \in Unreported /\ pc' \in Unreported \cup {"top"}
          \/ pc \in Deciding \cup Acting /\ pc' \in Deciding \cup Acting
          \/ pc \in Between /\ pc' \in Between
<1> SUFFICES ASSUME TypeInv, Next, UNCHANGED steps
             PROVE  \/ /\ pc = "top" /\ pc' = "observe" /\ round' = round + 1
                    \/ pc' \in {"failing"} \cup Over
                    \/ /\ UNCHANGED round
                       /\ \/ pc \in Unreported /\ pc' \in Unreported \cup {"top"}
                          \/ pc \in Deciding \cup Acting /\ pc' \in Deciding \cup Acting
                          \/ pc \in Between /\ pc' \in Between
  OBVIOUS
<1> USE RetryValues
    DEF Unreported, Between, Deciding, Acting, Calling, Scrolling, Verifying, Over, At
<1>1. CASE \/ RejectArguments \/ Begin \/ BeginShortcut \/ ShortcutRefused \/ ShortcutAct
           \/ ShortcutVerify \/ VerifyShortcut
  BY <1>1
  DEF RejectArguments, Begin, BeginShortcut, ShortcutRefused, ShortcutAct, ShortcutVerify,
              VerifyShortcut, StopRun, Raise, Succeed
<1>2. CASE ShortcutStep \/ Record \/ Fail
  <2>1. \E step : steps' = Append(steps, step)
    BY <1>2 DEF ShortcutStep, Record, Fail
  <2>2. steps \in Seq(StepType)
    BY DEF TypeInv, Typed, Reports
  <2>3. Len(steps') = Len(steps) + 1
    BY <2>1, <2>2
  <2> QED
    BY <2>2, <2>3
<1>3. CASE ObserveFails \/ ObserveAgain
  BY <1>3 DEF ObserveFails, ObserveAgain, StopRun, Raise
<1>4. CASE \/ BeginRound \/ Exhausted \/ Observe \/ StartPlanner \/ Abandon \/ Decided
  BY <1>4 DEF BeginRound, Exhausted, Observe, StartPlanner, Abandon, Decided, StopRun, Raise
<1>5. CASE Accept
  BY <1>5 DEF Accept, StopRun, Raise, Dispatch
<1>6. CASE \/ ToolRefused \/ ToolBefore \/ ToolMisses \/ ToolAct \/ ToolVerify \/ Finish
           \/ UnicodeInput \/ VerifySkill
  BY <1>6
  DEF ToolRefused, ToolBefore, ToolMisses, ToolAct, ToolVerify, Finish, UnicodeInput,
              VerifySkill, Raise, SkillDone
<1>7. CASE ScrollSkill
  BY <1>7 DEF ScrollSkill, OpenSettings, Opened, Found, TurnRound, ScrollOnce, TapTarget,
              ScrollDone, SkillFails, SkillActs, SkillDone, Raise
<1>8. CASE Continue \/ Deliver
  BY <1>8 DEF Continue, Deliver, StopRun, Succeed
<1>9. CASE PlannerReturns \/ Hold \/ Release \/ RequestCancel \/ DeadlinePasses
  BY <1>9
  DEF PlannerReturns, Hold, Release, RequestCancel, DeadlinePasses, TypeInv, Typed, Locals,
              Places
<1> QED
  BY <1>1, <1>2, <1>3, <1>4, <1>5, <1>6, <1>7, <1>8, <1>9 DEF Next, Loop

LEMMA NumberedStep == TypeInv /\ Numbered /\ Next => Numbered'
<1> SUFFICES ASSUME TypeInv, Numbered, Next PROVE Numbered'
  OBVIOUS
<1>1. steps \in Seq(StepType) /\ round \in Nat /\ Offset \in Nat
  BY BoundAssumption DEF TypeInv, Typed, Locals, Reports, Offset
<1> USE DEF Unreported, Between, Deciding, Acting, Calling, Scrolling, Verifying
<1>2. ASSUME NEW step, steps' = Append(steps, step), step.sequence = Len(steps) + 1
      PROVE  /\ \A i \in DOMAIN steps' : steps'[i].sequence = i
             /\ Len(steps') = Len(steps) + 1
             /\ steps # <<>> => steps'[1] = steps[1]
             /\ steps = <<>> => steps'[1] = step
             /\ steps' # <<>>
  BY <1>1, <1>2 DEF Numbered
<1>3. CASE UNCHANGED steps
  <2>1. Offset' = Offset
    BY <1>3 DEF Offset
  <2>2. CASE pc = "top" /\ pc' = "observe" /\ round' = round + 1
    BY <1>1, <1>3, <2>1, <2>2 DEF Numbered
  <2>3. CASE pc' \in {"failing"} \cup Over
    BY <1>3, <2>3 DEF Numbered, Over
  <2>4. CASE UNCHANGED round /\ pc \in Unreported /\ pc' \in Unreported \cup {"top"}
    BY <1>1, <1>3, <2>1, <2>4 DEF Numbered, Offset, TypeInv, Phased, Shortcutting
  <2>5. CASE UNCHANGED round /\ pc \in Deciding \cup Acting /\ pc' \in Deciding \cup Acting
    BY <1>3, <2>1, <2>5 DEF Numbered
  <2>6. CASE UNCHANGED round /\ pc \in Between /\ pc' \in Between
    BY <1>3, <2>1, <2>6 DEF Numbered
  <2> QED
    BY <1>3, <2>2, <2>3, <2>4, <2>5, <2>6, Moves
<1>4. CASE RejectArguments
  <2>1. PICK told \in Told : steps' = <<Step(1, 1, "failed", told)>>
    BY <1>4 DEF RejectArguments
  <2>2. pc' \in {"done", "raised"}
    BY <1>4 DEF RejectArguments
  <2> QED
    BY <2>1, <2>2 DEF Numbered, Step
<1>5. CASE ShortcutStep
  <2>1. PICK told \in Told : steps' = Append(steps, Step(ids.minted + 1, 1, "succeeded", told))
    BY <1>5 DEF ShortcutStep
  <2>2. steps = <<>> /\ round = 0 /\ UNCHANGED round
    BY <1>5 DEF ShortcutStep, At, Numbered, TypeInv, Phased, Shortcutting
  <2>3. pc' \in {"failing", "verifyShortcut", "done"}
    BY <1>5 DEF ShortcutStep, Raise, Succeed
  <2>4. /\ \A i \in DOMAIN steps' : steps'[i].sequence = i
        /\ Len(steps') = 1 /\ steps' # <<>> /\ steps'[1].round = 0
    BY <1>2, <2>1, <2>2 DEF Step
  <2> QED
    BY <2>2, <2>3, <2>4 DEF Numbered, Offset
<1>6. CASE Record
  <2>1. PICK told \in Told, status \in {"failed", "succeeded"} :
          steps' = Append(steps, Step(ids.round, Offset + round, status, told))
    BY <1>6 DEF Record
  <2>2. Len(steps) = Offset + round - 1 /\ UNCHANGED round /\ round > 0
    BY <1>6 DEF Record, At, Numbered, TypeInv, Phased
  <2>3. pc' \in {"failing", "after"}
    BY <1>6 DEF Record, Raise
  <2>4. /\ \A i \in DOMAIN steps' : steps'[i].sequence = i
        /\ Len(steps') = Len(steps) + 1 /\ steps' # <<>>
        /\ steps # <<>> => steps'[1] = steps[1]
        /\ steps = <<>> => steps'[1].round = round
    BY <1>1, <1>2, <2>1, <2>2 DEF Step
  <2>5. Offset' = Offset
    BY <2>2, <2>4 DEF Offset
  <2> QED
    BY <1>1, <2>2, <2>3, <2>4, <2>5 DEF Numbered
<1>7. CASE Fail
  <2>1. PICK id, told : steps' = Append(steps, Step(id, Len(steps) + 1, "failed", told))
    BY <1>7 DEF Fail
  <2>2. pc' \in {"done", "raised"}
    BY <1>7 DEF Fail
  <2>3. \A i \in DOMAIN steps' : steps'[i].sequence = i
    BY <1>2, <2>1 DEF Step
  <2> QED
    BY <2>2, <2>3 DEF Numbered
<1> QED
  BY <1>3, <1>4, <1>5, <1>6, <1>7, StepsChange

LEMMA NamedStep == TypeInv /\ Named /\ Next => (Named)'
<1> SUFFICES ASSUME TypeInv, Named, Next PROVE (Named)'
  OBVIOUS
<1>a. steps \in Seq(StepType) /\ ids \in IdsType
  BY DEF TypeInv, Typed, Locals, Reports
<1>d. \A i \in DOMAIN steps : steps[i].id \in Nat
  <2> SUFFICES ASSUME NEW i \in DOMAIN steps PROVE steps[i].id \in Nat
    OBVIOUS
  <2>1. steps[i] \in StepType
    BY <1>a
  <2> QED
    BY <2>1 DEF StepType
<1>b. ASSUME NEW step, steps' = Append(steps, step),
             step.told => \A i \in DOMAIN steps : steps[i].told => steps[i].id # step.id
      PROVE  \A i, j \in DOMAIN steps' :
               steps'[i].id = steps'[j].id /\ steps'[i].told /\ steps'[j].told => i = j
  BY <1>a, <1>b DEF Named
<1>c. ASSUME NEW step, steps' = Append(steps, step)
      PROVE  /\ DOMAIN steps' = DOMAIN steps \cup {Len(steps) + 1}
             /\ \A i \in DOMAIN steps : steps'[i] = steps[i]
             /\ steps'[Len(steps) + 1] = step
  BY <1>a, <1>c
<1> USE <1>a, RetryValues, RetryPlaces
    DEF TypeInv, Typed, Locals, Surroundings, Reports, Unfinished, Dispatched, Phased,
        Shortcutting, Deciding, Calling, Scrolling, Verifying, Acting, Over, Named,
        Unreported, Between, IdsType
<1>1. CASE RejectArguments
  <2>1. PICK told \in Told : steps' = <<Step(1, 1, "failed", told)>>
    BY <1>1 DEF RejectArguments
  <2>2. pc' \in {"done", "raised"} /\ ids' = [ids EXCEPT !.minted = 1] /\ pc = "start"
    BY <1>1 DEF RejectArguments, At
  <2>3. ids.pending = 0 /\ ids.round = 0
    BY <2>2
  <2>4. ids'.minted = 1 /\ ids'.round = 0 /\ ids'.pending = 0
    BY <2>2, <2>3
  <2>5. DOMAIN steps' = {1} /\ steps'[1].id = 1
    BY <2>1 DEF Step
  <2> QED
    BY <2>2, <2>4, <2>5
<1>2. CASE Begin
  BY <1>2 DEF Begin, At
<1>3. CASE BeginShortcut
  BY <1>3 DEF BeginShortcut, At, StopRun, Stopped
<1>4. CASE ShortcutRefused
  BY <1>4 DEF ShortcutRefused, At, Raise
<1>5. CASE ShortcutAct
  BY <1>5 DEF ShortcutAct, At, Raise, Act
<1>6. CASE ShortcutVerify
  BY <1>6 DEF ShortcutVerify, At, Raise, Look
<1>7. CASE ShortcutStep
  <2>1. PICK told \in Told : steps' = Append(steps, Step(ids.minted + 1, 1, "succeeded", told))
    BY <1>7 DEF ShortcutStep
  <2>2. pc' \in {"failing", "verifyShortcut", "done"} /\ pc = "navigatedStep"
    BY <1>7 DEF ShortcutStep, Raise, Succeed, At
  <2>3. ids' = [ids EXCEPT !.minted = ids.minted + 1]
    BY <1>7 DEF ShortcutStep
  <2>4. ids'.minted = ids.minted + 1 /\ ids'.round = ids.round /\ ids'.pending = 0
    BY <2>2, <2>3
  <2>5. \A i \in DOMAIN steps : steps[i].told => steps[i].id <= ids.minted
    BY <2>2
  <2>7. \A i, j \in DOMAIN steps' :
          steps'[i].id = steps'[j].id /\ steps'[i].told /\ steps'[j].told => i = j
    BY <1>b, <2>1, <2>5, <1>d DEF Step
  <2>8. \A i \in DOMAIN steps' : steps'[i].told => steps'[i].id <= ids'.minted
    BY <1>c, <2>1, <2>4, <2>5, <1>d DEF Step
  <2> QED
    BY <2>2, <2>4, <2>7, <2>8
<1>8. CASE VerifyShortcut
  BY <1>8 DEF VerifyShortcut, At, Succeed, Look
<1>9. CASE ObserveFails
  BY <1>9 DEF ObserveFails, At, Raise
<1>10. CASE ObserveAgain
  BY <1>10 DEF ObserveAgain, At, StopRun, Stopped
<1>11. CASE BeginRound
  <2>1. CASE StopRun
    BY <1>11, <2>1 DEF BeginRound, At, StopRun
  <2>2. CASE ~StopRun
    <3>1. /\ pc = "top" /\ pc' = "observe" /\ UNCHANGED steps
          /\ ids' = [ids EXCEPT !.minted = ids.minted + 1, !.round = ids.minted + 1]
      BY <1>11, <2>2 DEF BeginRound, At
    <3>2. ids'.minted = ids.minted + 1 /\ ids'.round = ids.minted + 1 /\ ids'.pending = 0
      BY <3>1
    <3>3. \A i \in DOMAIN steps : steps[i].told => steps[i].id <= ids.minted
      BY <3>1
    <3> QED
      BY <1>d, <3>1, <3>2, <3>3
  <2> QED
    BY <2>1, <2>2
<1>12. CASE Exhausted
  BY <1>12 DEF Exhausted, At, Raise, Spent
<1>13. CASE Observe
  BY <1>13 DEF Observe, At, Look
<1>14. CASE StartPlanner
  BY <1>14 DEF StartPlanner, At, StopRun, Stopped
<1>15. CASE Abandon
  BY <1>15 DEF Abandon, At, StopRun, Stopped
<1>16. CASE Decided
  BY <1>16 DEF Decided, At, Raise
<1>17. CASE Accept
  BY <1>17 DEF Accept, At, StopRun, Raise, Dispatch, Repeated, Stopped
<1>18. CASE ToolRefused
  BY <1>18 DEF ToolRefused, At, Raise
<1>19. CASE ToolBefore
  BY <1>19 DEF ToolBefore, At, Look
<1>20. CASE ToolMisses
  BY <1>20 DEF ToolMisses, At, Located
<1>21. CASE ToolAct
  BY <1>21 DEF ToolAct, At, Raise, Act, Located
<1>22. CASE ToolVerify
  BY <1>22 DEF ToolVerify, At, Raise, Look
<1>23. CASE Finish
  BY <1>23 DEF Finish, At
<1>24. CASE UnicodeInput
  BY <1>24 DEF UnicodeInput, At, Raise, SkillDone, Act
<1>25. CASE VerifySkill
  BY <1>25 DEF VerifySkill, At, Raise, Look
<1>26. CASE OpenSettings
  BY <1>26 DEF OpenSettings, SkillActs, At, Raise, Act
<1>27. CASE Opened
  BY <1>27 DEF Opened, At, Look
<1>28. CASE Found
  BY <1>28 DEF Found, At, Look
<1>29. CASE TurnRound
  BY <1>29 DEF TurnRound, At, Look
<1>30. CASE ScrollOnce
  BY <1>30 DEF ScrollOnce, SkillActs, At, Raise, Act
<1>31. CASE TapTarget
  BY <1>31 DEF TapTarget, SkillActs, At, Raise, Act
<1>32. CASE ScrollDone
  BY <1>32 DEF ScrollDone, At, SkillDone, Look
<1>33. CASE Record
  <2>1. PICK told \in Told, status \in {"failed", "succeeded"} :
          /\ steps' = Append(steps, Step(ids.round, Offset + round, status, told))
          /\ \/ ~told /\ pc' = "failing" /\ UNCHANGED ids
             \/ told /\ pc' = "after" /\ ids' = RoundDone
    BY <1>33 DEF Record, Raise
  <2>2. pc = "record"
    BY <1>33 DEF Record, At
  <2>3. /\ \A i \in DOMAIN steps : steps[i].told => steps[i].id # ids.round
        /\ ids.pending \in {0, ids.round}
        /\ \A i \in DOMAIN steps : steps[i].told => steps[i].id <= ids.minted
    BY <2>2
  <2>4. \A i, j \in DOMAIN steps' :
          steps'[i].id = steps'[j].id /\ steps'[i].told /\ steps'[j].told => i = j
    BY <1>b, <2>1, <2>3 DEF Step
  <2>5. CASE ~told /\ pc' = "failing" /\ UNCHANGED ids
    BY <1>c, <2>1, <2>3, <2>4, <2>5 DEF Step
  <2>6. CASE told /\ pc' = "after" /\ ids' = RoundDone
    <3>1. ids'.minted = ids.minted /\ ids'.round = ids.round /\ ids'.pending = 0
      BY <2>6 DEF RoundDone
    <3> QED
      BY <1>c, <2>1, <2>3, <2>4, <2>6, <3>1 DEF Step
  <2> QED
    BY <2>1, <2>5, <2>6
<1>34. CASE Continue
  BY <1>34 DEF Continue, At, StopRun, Succeed, Ends, Stopped
<1>35. CASE Fail
  <2> DEFINE id == IF ids.pending # 0 THEN ids.pending ELSE ids.minted + 1
  <2>1. PICK told \in Told : steps' = Append(steps, Step(id, Len(steps) + 1, "failed", told))
    BY <1>35 DEF Fail
  <2>2. pc' \in {"done", "raised"} /\ pc = "failing"
    BY <1>35 DEF Fail, At
  <2>3. ids' = IF ids.pending # 0 THEN ids ELSE [ids EXCEPT !.minted = ids.minted + 1]
    BY <1>35 DEF Fail
  <2>4. /\ ids'.round = ids.round /\ ids'.pending = ids.pending /\ ids'.minted \in Nat
        /\ id <= ids'.minted /\ ids.minted <= ids'.minted
    BY <2>3
  <2>5. \A i \in DOMAIN steps : steps[i].id \in Nat /\ (steps[i].told => steps[i].id <= ids.minted)
    BY <1>d, <2>2
  <2>6. \A i \in DOMAIN steps : steps[i].told => steps[i].id # id
    BY <2>2, <2>5
  <2>7. id \in Nat
    OBVIOUS
  <2> HIDE DEF id
  <2>8. \A i, j \in DOMAIN steps' :
          steps'[i].id = steps'[j].id /\ steps'[i].told /\ steps'[j].told => i = j
    BY <1>b, <2>1, <2>6 DEF Step
  <2>9. \A i \in DOMAIN steps' : steps'[i].told => steps'[i].id <= ids'.minted
    BY <1>c, <2>1, <2>4, <2>5, <2>7 DEF Step
  <2> QED
    BY <2>2, <2>4, <2>8, <2>9
<1>36. CASE Deliver
  BY <1>36 DEF Deliver
<1>37. CASE PlannerReturns
  BY <1>37 DEF PlannerReturns
<1>38. CASE Hold
  BY <1>38 DEF Hold, Probing, Stopped
<1>39. CASE Release
  BY <1>39 DEF Release
<1>40. CASE RequestCancel
  BY <1>40 DEF RequestCancel, Running
<1>41. CASE DeadlinePasses
  BY <1>41 DEF DeadlinePasses, Running, Stopped
<1>42. CASE \E place \in Scrolling : SkillFails(place)
  BY <1>42 DEF SkillFails, At, Raise
<1> QED
  BY <1>1, <1>2, <1>3, <1>4, <1>5, <1>6, <1>7, <1>8, <1>9, <1>10, <1>11, <1>12, <1>13,
     <1>14, <1>15, <1>16, <1>17, <1>18, <1>19, <1>20, <1>21, <1>22, <1>23, <1>24, <1>25,
     <1>26, <1>27, <1>28, <1>29, <1>30, <1>31, <1>32, <1>33, <1>34, <1>35, <1>36, <1>37,
     <1>38, <1>39, <1>40, <1>41, <1>42
  DEF Next, Loop, ScrollSkill

-----------------------------------------------------------------------------
(* The theorems.                                                            *)

Inv == TypeInv /\ Watched /\ GoalSeenAfterLastInput /\ Remembered /\ NoUnchangedRepeat
         /\ Accounted /\ InputsReported /\ LateKnown /\ Numbered /\ Named

LEMMA InitInv == Init => Inv
<1> SUFFICES ASSUME Init PROVE Inv
  OBVIOUS
<1>1. Watched /\ GoalSeenAfterLastInput
  BY DEF Init, Watched, GoalSeenAfterLastInput, Ended
<1>2. Remembered /\ NoUnchangedRepeat
  BY
  DEF Init, Remembered, NoUnchangedRepeat, Deciding, Acting, Calling, Scrolling, Verifying
<1>3. Accounted /\ InputsReported /\ LateKnown
  BY DEF Init, Accounted, InputsReported, LateKnown, Ended, Stopped
<1>4. Numbered /\ Named
  BY DEF Init, Numbered, Named, Deciding, Acting, Calling, Scrolling, Verifying, Between
<1> QED
  BY <1>1, <1>2, <1>3, <1>4, InitTypeInv DEF Inv

LEMMA InvStep == Inv /\ [Next]_vars => Inv'
<1>1. Inv /\ Next => Inv'
  BY TypeInvStep, WatchedStep, RememberedStep, AccountedStep, LateStep, NumberedStep,
     NamedStep
  DEF Inv
<1>2. Inv /\ UNCHANGED vars => Inv'
  <2> SUFFICES ASSUME Inv, UNCHANGED vars PROVE Inv'
    OBVIOUS
  <2>1. TypeInv'
    BY TypeInvStep DEF Inv
  <2>2. Watched' /\ GoalSeenAfterLastInput'
    BY DEF Inv, vars, Watched, GoalMet, GoalSeenAfterLastInput, Ended
  <2>3. Remembered' /\ NoUnchangedRepeat'
    BY DEF Inv, vars, Remembered, NoUnchangedRepeat, Feedback
  <2>4. Accounted' /\ InputsReported'
    BY DEF Inv, vars, Accounted, Recorded, InputsReported, Ended
  <2>5. LateKnown'
    BY DEF Inv, vars, LateKnown, Stopped
  <2>6. Numbered' /\ Named'
    BY DEF Inv, vars, Numbered, Named, Offset
  <2> QED
    BY <2>1, <2>2, <2>3, <2>4, <2>5, <2>6 DEF Inv
<1> QED
  BY <1>1, <1>2

LEMMA InvHolds == Spec => []Inv
BY InitInv, InvStep, PTL DEF Spec

\* The run is well formed, and its rounds, attempts and scrolls stay within their
\* budgets.
THEOREM TypeCorrect == Spec => []TypeOK
<1>1. TypeInv => TypeOK
  BY TypedGivesTypes DEF TypeInv
<1> QED
  BY InitTypeInv, TypeInvStep, <1>1, PTL DEF Spec

\* A run that claims success has seen the goal after its last input: by the
\* acceptance of the goal if there is one, else where its finish says; whatever the
\* device shows, the planner answers and the executor asks (run, _verify_finish,
\* _verify_goal_acceptance).
THEOREM SuccessWasSeen == Spec => []GoalSeenAfterLastInput
<1>1. Inv => GoalSeenAfterLastInput
  BY DEF Inv
<1> QED
  BY InvHolds, <1>1, PTL

\* A tool call that changed nothing is not made again in the next round
\* (_reject_repeated_no_progress).
THEOREM NoUselessRepetition == Spec => []NoUnchangedRepeat
<1>1. Inv => NoUnchangedRepeat
  BY DEF Inv
<1> QED
  BY InvHolds, <1>1, PTL

\* Every round that sent an input is in the report; only a run stopped while the
\* acceptance of a skill is observed leaves its round out (the except branch of run).
THEOREM ReportIsComplete == Spec => []InputsReported
<1>1. Inv => InputsReported
  BY DEF Inv
<1> QED
  BY InvHolds, <1>1, PTL

\* Once a run is cancelled or late, at most the round it is in sends inputs
\* (_raise_if_stopped).
THEOREM LateInputsOfOneRound == Spec => []OneLateRound
<1>1. Inv => OneLateRound
  <2> SUFFICES ASSUME Inv PROVE OneLateRound
    OBVIOUS
  <2>1. PICK r \in Nat : seen.late \subseteq {r}
    BY DEF Inv, LateKnown
  <2>2. seen.late = {} \/ seen.late = {r}
    BY <2>1
  <2>3. Cardinality({}) = 0 /\ Cardinality({r}) = 1
    BY FS_EmptySet, FS_Singleton
  <2> QED
    BY <2>2, <2>3 DEF OneLateRound
<1> QED
  BY InvHolds, <1>1, PTL

\* The steps of a report are numbered 1, 2, 3, ... whether the shortcut came first,
\* rounds were repaired or the run failed, and no two events of the timeline name the
\* same step (run, _failed_task).
THEOREM StepsAreNumbered == Spec => []StepsNumbered
<1>1. Inv => StepsNumbered
  BY DEF Inv, Numbered, Named, StepsNumbered
<1> QED
  BY InvHolds, <1>1, PTL
=============================================================================
