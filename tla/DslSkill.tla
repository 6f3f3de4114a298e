------------------------------ MODULE DslSkill -------------------------------
(***************************************************************************)
(* One declarative skill from its document to the report of its task:        *)
(* parse_skill_dsl_document (domain/skill_dsl.py), the gates of registration  *)
(* and submission (skills/registry.py, skills/dsl_risk.py, runtime.py), the   *)
(* interpreter run_dsl_skill (skills/dsl_interpreter.py) over                 *)
(* ToolRuntime.execute (tools/runtime.py), and DslSkillTaskRunner             *)
(* (tasks/dsl_skill.py).  The registry that keeps documents is SkillRegistry, *)
(* the executor and its probes are TaskExecutor.                              *)
(*                                                                          *)
(* A document has its shape; the types of literals and the wording of errors  *)
(* are left out.  A value of an input is good, bad (outside its declaration)  *)
(* or absent.  Time is a clock that starts with the task.                     *)
(***************************************************************************)
EXTENDS Integers, Sequences, FiniteSets, SequencesExt

CONSTANTS
  Documents,   \* the documents offered
  Deadline,    \* the deadline of the task
  Budgets,     \* loop budgets the caller of the official skill may ask for
  MaxTime,     \* bound: the clock stops here
  MaxFaults    \* bound: device calls that fail

ASSUME BoundAssumption == {Deadline, MaxTime, MaxFaults} \cup Budgets \subseteq Nat

\* ToolStep and SkillStep, LoopStep, IfStep; the bodies hold actions only.
Actions == [type : {"tool", "skill"}, id : STRING, name : STRING, arg : STRING]
Loops   == [type : {"loop"}, id : STRING, rounds : Int, duration : Int, body : Seq(Actions)]
Ifs     == [type : {"if"}, id : STRING, step : STRING, equals : {"succeeded", "failed"},
            then : Seq(Actions), else : Seq(Actions)]

\* What parse_skill_dsl_document makes of a well-typed payload, before its checks.
Document == [official : BOOLEAN, inputs : SUBSET STRING, required : SUBSET STRING,
             steps : Seq(Actions \cup Loops \cup Ifs)]

ASSUME DocumentAssumption == Documents \subseteq Document

VARIABLES
  doc,        \* the document
  call,       \* the submission: values of the inputs, confirmed, budget
  pc,         \* where the task is
  clock,      \* time since the task started
  cancelled,  \* what is_cancelled answers
  top,        \* index of the top-level step
  current,    \* the action step being run
  todo,       \* rest of the loop body or branch
  loop,       \* rounds begun and the time the loop ends
  records,    \* step_records
  result,     \* status and error of the task
  faults,     \* history: device calls that failed
  truth,      \* history: what the device did for each action step
  late        \* history: action steps begun after cancel or deadline

vars == <<doc, call, pc, clock, cancelled, top, current, todo, loop, records,
          result, faults, truth, late>>
-----------------------------------------------------------------------------
(* The document.                                                            *)

\* Tools of the registry: risk of the capability (0 low, 1 medium, 2 high),
\* called directly, with a verification of its own, guarded by the dialog check.
Tool(r, d, v, g) == [risk |-> r, direct |-> d, verified |-> v, guarded |-> g]
Registered == [launch  |-> Tool(0, TRUE, TRUE, FALSE),
               tap     |-> Tool(1, TRUE, FALSE, TRUE),
               list    |-> Tool(0, FALSE, FALSE, FALSE),
               install |-> Tool(2, FALSE, FALSE, FALSE)]

\* DSL_SKILL_REFERENCE_WHITELIST
Whitelist == [snapshot |-> 1, logs |-> 1]

IsAction(s) == s.type \in {"tool", "skill"}
Body(s) == CASE s.type = "loop" -> s.body
             [] s.type = "if" -> s.then \o s.else
             [] OTHER -> <<>>

\* Where the steps are: <<i, 0>> is the i-th top-level step, <<i, k>> the k-th
\* of its body.
Places(d) == UNION {{i} \X (0 .. Len(Body(d.steps[i]))) : i \in DOMAIN d.steps}
StepAt(d, p) == IF p[2] = 0 THEN d.steps[p[1]] ELSE Body(d.steps[p[1]])[p[2]]
AllSteps(d) == {StepAt(d, p) : p \in Places(d)}
ActionSteps(d) == {s \in AllSteps(d) : IsAction(s)}

\* An if may only look at a top-level step that ran before it.
WellFormed(d) ==
  /\ d.steps # <<>>
  /\ \A p, q \in Places(d) : StepAt(d, p).id = StepAt(d, q).id => p = q
  /\ \A i \in DOMAIN d.steps :
       LET s == d.steps[i]
       IN /\ s.type = "loop" => s.rounds >= 1 /\ s.duration >= 1 /\ s.body # <<>>
          /\ s.type = "if" => /\ s.then # <<>>
                              /\ \E j \in 1..(i - 1) : d.steps[j].id = s.step

\* Why derive_skill_risk refuses a document, or "none".
RiskError(d) ==
  IF \E s \in ActionSteps(d) : s.type = "tool" /\ s.name \notin DOMAIN Registered
  THEN "TOOL_NOT_FOUND"
  ELSE IF \E s \in ActionSteps(d) : s.type = "skill" /\ s.name \notin DOMAIN Whitelist
  THEN "SKILL_REFERENCE_NOT_ALLOWED" ELSE "none"

RiskOf(s) == IF s.type = "tool" THEN Registered[s.name].risk ELSE Whitelist[s.name]

\* Mutant: the risk of the steps in the bodies is not counted.
TopRisk(d) == Max({0} \cup {RiskOf(s) : s \in {t \in ToSet(d.steps) : IsAction(t)}})

DerivedRisk(d) == Max({0} \cup {RiskOf(s) : s \in ActionSteps(d)})

\* _enforce_policy_gate, and the same gate at submission
GateError(d, confirmed) ==
  IF DerivedRisk(d) >= 2 THEN "ACTION_REJECTED_BY_POLICY"
  ELSE IF DerivedRisk(d) = 1 /\ ~confirmed THEN "CONFIRMATION_REQUIRED" ELSE "none"

\* The preflight of run_dsl_skill, before any device action.
PreflightError ==
  IF \/ \E x \in doc.inputs : \/ call.values[x] = "bad"
                             \/ (x \in doc.required /\ call.values[x] = "absent")
     \/ \E s \in ActionSteps(doc) : s.arg \notin doc.inputs \cup {"literal", "none"}
  THEN "SKILL_INPUT_INVALID"
  ELSE IF RiskError(doc) # "none" THEN RiskError(doc) ELSE GateError(doc, call.confirmed)

Lower(a, b) == IF a < b THEN a ELSE b

\* Mutant: a budget of the caller is taken as it is.
RoundsAsked(s) == IF doc.official THEN call.budget.rounds ELSE s.rounds

\* _apply_requested_loop_budget: only the official skill takes one.
Rounds(s) == IF doc.official THEN Lower(s.rounds, call.budget.rounds) ELSE s.rounds
Duration(s) == IF doc.official THEN Lower(s.duration, call.budget.time) ELSE s.duration

\* The argument a step sends: an absent optional input drops the key.
Argument(s) == CASE s.arg = "literal" -> "good"
                 [] s.arg = "none" -> "absent"
                 [] OTHER -> call.values[s.arg]
-----------------------------------------------------------------------------
None == [id |-> "none", type |-> "none"]

Init ==
  /\ doc \in Documents
  /\ call \in [values : [doc.inputs -> {"good", "bad", "absent"}], confirmed : BOOLEAN,
               budget : [rounds : Budgets, time : Budgets]]
  /\ pc = "offered"
  /\ clock = 0 /\ cancelled = FALSE
  /\ top = 1 /\ current = None /\ todo = <<>>
  /\ loop = [rounds |-> 0, until |-> 0]
  /\ records = <<>>
  /\ result = [status |-> "none", error |-> "none"]
  /\ faults = 0 /\ truth = <<>> /\ late = 0

History == <<faults, truth, late>>
Interpreter == <<top, current, todo, loop, records>>

\* boundary() of DslSkillTaskRunner: cancel before deadline.
Stop == IF cancelled THEN "cancelled" ELSE IF clock >= Deadline THEN "timed_out" ELSE "no"

Finish(status, error) == pc' = "done" /\ result' = [status |-> status, error |-> error]
Abort == /\ Stop # "no"
         /\ Finish(Stop, IF cancelled THEN "TASK_CANCELLED" ELSE "TASK_DEADLINE_EXCEEDED")
         /\ UNCHANGED <<Interpreter, History>>
-----------------------------------------------------------------------------
(* Registration, submission and start.                                      *)

Offer(from, to, error) ==
  /\ pc = from
  /\ IF error = "none" THEN pc' = to /\ UNCHANGED result ELSE Finish("rejected", error)
  /\ UNCHANGED <<doc, call, clock, cancelled, Interpreter, History>>

Register == Offer("offered", "registered",
                  IF WellFormed(doc) THEN RiskError(doc) ELSE "SKILL_DSL_INVALID")

Submit == Offer("registered", "queued", GateError(doc, call.confirmed))

\* run_factory and DslSkillTaskRunner.run up to the first step: the session and
\* the lease, _preflight_terminal, the preflight of the interpreter.
Start ==
  /\ pc = "queued"
  /\ \/ Abort
     \/ /\ faults < MaxFaults /\ faults' = faults + 1
        /\ Finish("failed", "DEVICE_OFFLINE")
        /\ UNCHANGED <<Interpreter, truth, late>>
     \/ /\ Stop = "no"
        /\ IF PreflightError = "none" THEN pc' = "boundary" /\ UNCHANGED result
           ELSE Finish("failed", PreflightError)
        /\ UNCHANGED <<Interpreter, History>>
  /\ UNCHANGED <<doc, call, clock, cancelled>>
-----------------------------------------------------------------------------
(* Control flow of the interpreter.                                         *)

Here == doc.steps[top]

Record(id, status, error) == [id |-> id, status |-> status, error |-> error]

\* top_level_status: the record a top-level step left.
StatusOf(id) == records[CHOOSE i \in DOMAIN records : records[i].id = id].status

Branch(s) == IF StatusOf(s.step) = s.equals THEN s.then ELSE s.else

Begin(s) == pc' = "act" /\ current' = s

EnterTop ==
  \/ /\ top > Len(doc.steps)
     /\ Finish("succeeded", "none")
     /\ UNCHANGED <<Interpreter, History>>
  \/ top <= Len(doc.steps) /\ Abort
  \/ /\ top <= Len(doc.steps) /\ Stop = "no"
     /\ \/ /\ IsAction(Here)
           /\ Begin(Here)
           /\ UNCHANGED <<todo, loop>>
        \/ /\ Here.type = "loop"
           /\ pc' = "iterate"
           /\ loop' = [rounds |-> 0, until |-> clock + Duration(Here)]
           /\ UNCHANGED <<current, todo>>
        \/ /\ Here.type = "if"
           /\ pc' = "body"
           /\ todo' = Branch(Here)
           /\ UNCHANGED <<current, loop>>
     /\ UNCHANGED <<top, records, result, History>>

\* A container is done: its record, and on to the next top-level step.
Leave(status) ==
  /\ records' = Append(records, Record(Here.id, status, "none"))
  /\ top' = top + 1
  /\ pc' = "boundary"
  /\ UNCHANGED <<current, todo, loop, result, History>>

Goes(n) == n < Rounds(Here) /\ clock < loop.until

Iterate ==
  \/ ~Goes(loop.rounds) /\ Leave("succeeded")
  \/ Goes(loop.rounds) /\ Abort
  \/ /\ Goes(loop.rounds) /\ Stop = "no"
     /\ loop' = [loop EXCEPT !.rounds = @ + 1]
     /\ todo' = Here.body
     /\ pc' = "body"
     /\ UNCHANGED <<top, current, records, result, History>>

\* Mutant: no boundary between the steps of a body.
NextOfBodyUnchecked ==
  /\ todo # <<>>
  /\ Begin(Head(todo)) /\ todo' = Tail(todo)
  /\ UNCHANGED <<top, loop, records, result, History>>

NextOfBody ==
  /\ todo # <<>>
  /\ \/ Abort
     \/ /\ Stop = "no"
        /\ Begin(Head(todo)) /\ todo' = Tail(todo)
        /\ UNCHANGED <<top, loop, records, result, History>>

EndOfBody ==
  /\ todo = <<>>
  /\ \/ Here.type = "if" /\ Leave("succeeded")
     \/ /\ Here.type = "loop" /\ pc' = "iterate"
        /\ UNCHANGED <<Interpreter, result, History>>

Control ==
  /\ \/ pc = "boundary" /\ EnterTop
     \/ pc = "iterate" /\ Iterate
     \/ pc = "body" /\ (NextOfBody \/ EndOfBody)
  /\ UNCHANGED <<doc, call, clock, cancelled>>
-----------------------------------------------------------------------------
(* One action step: run_action_step over ToolRuntime.execute or an invoker.  *)

Actual(outcome) == truth' = Append(truth, [id |-> current.id, outcome |-> outcome])

Success ==
  /\ records' = Append(records, Record(current.id, "succeeded", "none"))
  /\ current' = None
  /\ IF IsAction(Here) THEN pc' = "boundary" /\ top' = top + 1
     ELSE pc' = "body" /\ UNCHANGED top
  /\ UNCHANGED <<todo, loop, result>>

\* Mutant: a failed step of the document does not end it.
FailureTolerated(error) ==
  /\ current' = None
  /\ records' = Append(records, Record(current.id, "failed", error))
  /\ IF IsAction(Here) THEN pc' = "boundary" /\ top' = top + 1
     ELSE pc' = "body" /\ UNCHANGED top
  /\ UNCHANGED <<todo, loop, result>>

\* A failure in a loop body is recorded and the loop goes on; anywhere else it
\* ends the run, after the record of the if it happened in.
Failure(error) ==
  /\ current' = None
  /\ \/ /\ Here.type = "loop"
        /\ records' = Append(records, Record(current.id, "failed", error))
        /\ pc' = "body"
        /\ UNCHANGED result
     \/ /\ Here.type # "loop"
        /\ records' = records \o <<Record(current.id, "failed", error)>> \o
             (IF Here.type = "if" THEN <<Record(Here.id, "failed", error)>> ELSE <<>>)
        /\ Finish("failed", error)
  /\ UNCHANGED <<top, todo, loop>>

IsLate == IF Stop # "no" THEN late' = late + 1 ELSE UNCHANGED late

\* A call of the device fails, before or after it took effect.
Fault(sent) == /\ faults < MaxFaults /\ faults' = faults + 1
               /\ Actual(sent) /\ Failure("DEVICE_ERROR")

\* The checks before a tool touches the device; before is the observation.
Prepare ==
  /\ current.type = "tool"
  /\ \/ /\ ~Registered[current.name].direct
        /\ Failure("TOOL_REQUIRES_SKILL") /\ Actual("none") /\ UNCHANGED faults
     \/ Registered[current.name].direct /\ Fault("none")
     \/ /\ Registered[current.name].guarded  \* a permission dialog is in front
        /\ Failure("ACTION_REJECTED_BY_POLICY") /\ Actual("none") /\ UNCHANGED faults
     \/ /\ Registered[current.name].direct
        /\ pc' = "dispatch"
        /\ UNCHANGED <<Interpreter, result, truth, faults>>

\* A skill of the whitelist through build_dsl_skill_invoker: the snapshot takes
\* no arguments.
Invoke ==
  /\ current.type = "skill"
  /\ \/ /\ current.name = "snapshot" /\ Argument(current) # "absent"
        /\ Failure("SKILL_INPUT_INVALID") /\ Actual("none") /\ UNCHANGED faults
     \/ Fault("none")
     \/ /\ current.name = "snapshot" => Argument(current) = "absent"
        /\ Success /\ Actual("done") /\ UNCHANGED faults

Act == /\ pc = "act" /\ (Prepare \/ Invoke)
       /\ IsLate
       /\ UNCHANGED <<doc, call, clock, cancelled>>

\* _dispatch
Dispatch ==
  /\ pc = "dispatch"
  /\ \/ /\ Argument(current) = "absent"
        /\ Failure("INVALID_ARGUMENT") /\ Actual("none") /\ UNCHANGED faults
     \/ Argument(current) # "absent" /\ \E sent \in {"none", "sent"} : Fault(sent)
     \/ /\ Argument(current) # "absent"
        /\ pc' = "verify"
        /\ UNCHANGED <<Interpreter, result, truth, faults>>
  /\ UNCHANGED <<doc, call, clock, cancelled, late>>

\* The observation after it and _verify.  The ActionResult execute() returns is
\* dropped by run_action_step: FAILED (not verified) is recorded as succeeded.
Verify ==
  /\ pc = "verify"
  /\ \/ Fault("sent")
     \/ /\ UNCHANGED faults /\ Success
        /\ \/ Actual("done")
           \/ Registered[current.name].verified /\ Actual("not_verified")
  /\ UNCHANGED <<doc, call, clock, cancelled, late>>
-----------------------------------------------------------------------------
Tick ==
  /\ pc \notin {"offered", "registered", "queued", "done"} /\ clock < MaxTime
  /\ clock' = clock + 1
  /\ UNCHANGED <<doc, call, pc, cancelled, Interpreter, result, History>>

Cancel ==
  /\ pc \notin {"offered", "registered", "done"} /\ ~cancelled
  /\ cancelled' = TRUE
  /\ UNCHANGED <<doc, call, pc, clock, Interpreter, result, History>>

Work == Register \/ Submit \/ Start \/ Control \/ Act \/ Dispatch \/ Verify

Next == Work \/ Tick \/ Cancel

Spec == Init /\ [][Next]_vars

\* The worker is one thread that runs the task until it returns.
FairSpec == Spec /\ WF_vars(Work)
-----------------------------------------------------------------------------
(* Properties.                                                              *)

Errors == {"none", "SKILL_DSL_INVALID", "TOOL_NOT_FOUND", "SKILL_REFERENCE_NOT_ALLOWED",
           "SKILL_INPUT_INVALID", "ACTION_REJECTED_BY_POLICY", "CONFIRMATION_REQUIRED",
           "TOOL_REQUIRES_SKILL", "INVALID_ARGUMENT", "DEVICE_ERROR", "DEVICE_OFFLINE",
           "TASK_CANCELLED", "TASK_DEADLINE_EXCEEDED"}

\* Every variable keeps its shape, and a step is being run exactly while the
\* task is inside run_action_step.
TypeOK ==
  /\ pc \in {"offered", "registered", "queued", "boundary", "iterate", "body", "act",
             "dispatch", "verify", "done"}
  /\ clock \in 0..MaxTime /\ cancelled \in BOOLEAN
  /\ top \in 1..(Len(doc.steps) + 1)
  /\ (current # None) = (pc \in {"act", "dispatch", "verify"})
  /\ todo \in Seq(ActionSteps(doc))
  /\ loop \in [rounds : Nat, until : Nat]
  /\ \A i \in DOMAIN records :
       /\ records[i].id \in {s.id : s \in AllSteps(doc)}
       /\ records[i].error \in Errors
       /\ records[i].status = "succeeded" => records[i].error = "none"
  /\ result.error \in Errors
  /\ (pc = "done") = (result.status # "none")
  /\ faults \in 0..MaxFaults

RecordsOf(s) == {n \in DOMAIN records : records[n].id = s.id}
Times(s) == Cardinality(RecordsOf(s))

\* A task that succeeded went through the whole document: each top-level step
\* left one succeeded record, a loop left whole rounds and only full ones, an
\* if the records of the branch that fits the step it looked at.
SuccessIsWhole ==
  result.status = "succeeded" =>
    \A i \in DOMAIN doc.steps :
      LET s == doc.steps[i]
      IN /\ Times(s) = 1
         /\ \A n \in RecordsOf(s) : records[n].status = "succeeded"
         /\ s.type = "loop" =>
              \A a, b \in Range(s.body) : Times(a) = Times(b)
         /\ s.type = "if" =>
              LET taken == IF \E n \in DOMAIN records : records[n].id = s.step
                                                       /\ records[n].status = s.equals
                           THEN s.then ELSE s.else
              IN \A a \in Range(Body(s)) : Times(a) = IF a \in Range(taken) THEN 1 ELSE 0

\* After a cancel or the deadline at most one more action step begins, the one
\* whose boundary had been passed (reliability-model: no new write after a
\* cancel).
OneLateStep == late <= 1

\* A loop runs no more rounds than its document allows nor, in the official
\* skill, than the caller asked for.
BudgetKept ==
  \A s \in Range(doc.steps) :
    s.type = "loop" =>
      \A a \in Range(s.body) : RecordsOf(a) # {} =>
        /\ Times(a) <= s.rounds
        /\ doc.official => Times(a) <= call.budget.rounds

\* What touches the device was confirmed as far as its risk asks, and a high
\* risk never does, however deep in the document the step is.
NothingUnconfirmed ==
  \A i \in DOMAIN truth :
    \A s \in ActionSteps(doc) :
      s.id = truth[i].id /\ truth[i].outcome # "none" =>
        RiskOf(s) = 0 \/ (RiskOf(s) = 1 /\ call.confirmed)

\* A task that was started ends, whatever the device answers.
Ends == (pc = "queued") ~> (pc = "done")

\* What the documents say of a succeeded action: it was carried out and its
\* verification passed.
SucceededIsVerified ==
  \A i \in DOMAIN truth :
    truth[i].outcome = "not_verified" =>
      \A j \in DOMAIN records : records[j].id = truth[i].id => records[j].status = "failed"
=============================================================================
