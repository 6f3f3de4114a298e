---------------------------- MODULE ModelProvider ----------------------------
(***************************************************************************)
(* Where the decisions of an agent come from: the settings file of the     *)
(* model provider and the API threads that save it                         *)
(* (providers/config.py), the planner chosen once when the Runtime starts  *)
(* (runtime.py, agent/planner.py), the bounded conversation with the       *)
(* provider - one retry of a request, one repair of an answer              *)
(* (providers/openai_compatible.py) - and the thread it runs on, which the *)
(* runner abandons when the task is stopped (agent/runner.py) and which    *)
(* asyncio.run still joins (tasks/execution.py).                           *)
(*                                                                         *)
(* The file system is modelled by inodes: a name is bound to an inode, an  *)
(* open file keeps its inode across a rename.  What a model answers, what  *)
(* the screen shows and what a user writes are inputs.                     *)
(***************************************************************************)
EXTENDS Integers, Sequences, SequencesExt, FiniteSets

CONSTANTS
    Savers,       \* threads of the HTTP server that save the settings
    Overrides,    \* MOBILE_AGENT_MODEL_ENABLED at a start: Booleans, or NoOverride
    NoOverride,
    MaxSaves,     \* bound: saves begun
    MaxStarts,    \* bound: starts of the Runtime
    MaxCalls      \* bound: calls to the provider of one Runtime

ASSUME BoundsAssumption ==
    /\ MaxSaves \in Nat /\ MaxStarts \in Nat \ {0} /\ MaxCalls \in Nat \ {0}
    /\ Overrides \subseteq BOOLEAN \cup {NoOverride}

VARIABLES
    names,      \* the directory: the inode of "config" and of "tmp"
    content,    \* what each inode holds
    saver,      \* what each API thread is doing
    applied,    \* ghost: the settings the last os.replace put in place
    overlapped, \* history: a save began before another one was answered
    planner,    \* planner of the running Runtime, "down" if there is none
    draft,      \* the GoalSpec the client holds
    task,       \* the agent task at work
    call,       \* the conversation with the provider
    acts,       \* ghost: the decisions acted upon by this Runtime
    bounds      \* how much of the bounds is used

files == <<names, content, saver, applied, overlapped>>
vars == <<files, planner, draft, task, call, acts, bounds>>

(***************************************************************************)
(* The settings, as far as a start tells them apart: whether they enable a *)
(* model, pass the validation of the provider, and name a secret that      *)
(* resolves.                                                               *)
(***************************************************************************)
Settings == {s \in [enabled : BOOLEAN, valid : BOOLEAN, keyed : BOOLEAN] : s.keyed => s.valid}
Default == [enabled |-> FALSE, valid |-> FALSE, keyed |-> FALSE]
NoFile == 0
Text(s) == [is |-> "whole", settings |-> s]
Empty == [is |-> "empty", settings |-> Default]
Garbled == [is |-> "garbled", settings |-> Default]
Inodes == 1 .. MaxSaves
Used == {names["config"], names["tmp"]} \cup {saver[s].inode : s \in Savers}

Acceptable(s) == s.enabled => s.valid

\* The inode an open for writing gives: that of the temporary name, or a fresh one.
Fresh == CHOOSE i \in Inodes : i \notin Used
OpenedInPlace == IF names["config"] # NoFile THEN names["config"] ELSE Fresh
Opened == IF names["tmp"] # NoFile THEN names["tmp"] ELSE Fresh

(***************************************************************************)
(* save_model_provider_settings.  write_text opens the temporary file,     *)
(* truncating one that is there, and writes it in one go at the close.     *)
(* Two threads share the one temporary name.                               *)
(***************************************************************************)
BeginSave(s) == \E new \in Settings, inode \in Inodes :
    /\ planner # "down" /\ saver[s].at = "idle"
    /\ bounds.saves < MaxSaves /\ Acceptable(new)
    /\ inode = Opened
    /\ names' = [names EXCEPT !["tmp"] = inode]
    /\ content' = [content EXCEPT ![inode] = Empty]
    /\ saver' = [saver EXCEPT ![s] = [at |-> "opened", inode |-> inode, new |-> new]]
    /\ overlapped' = (overlapped \/ \E t \in Savers : saver[t].at # "idle")
    /\ bounds' = [bounds EXCEPT !.saves = @ + 1]
    /\ UNCHANGED <<applied, planner, draft, task, call, acts>>

\* A shorter text over a longer one leaves the tail of the longer.
Written(old, new) == {Text(new)} \cup IF old \in {Empty, Text(new)} THEN {} ELSE {Garbled}

WriteSettings(s) ==
    /\ saver[s].at = "opened"
    /\ \E text \in Written(content[saver[s].inode], saver[s].new) :
           content' = [content EXCEPT ![saver[s].inode] = text]
    /\ saver' = [saver EXCEPT ![s].at = "written"]
    /\ UNCHANGED <<names, applied, overlapped, planner, draft, task, call, acts, bounds>>

Idle == [at |-> "idle", inode |-> NoFile, new |-> Default]

\* chmod and os.replace raise when the other thread has renamed the file.
ChangeMode(s) ==
    /\ saver[s].at = "written"
    /\ saver' = [saver EXCEPT ![s] =
                    IF names["tmp"] = NoFile THEN Idle ELSE [@ EXCEPT !.at = "private"]]
    /\ UNCHANGED <<names, content, applied, overlapped, planner, draft, task, call, acts, bounds>>

Renamed == [config |-> names["tmp"], tmp |-> NoFile]

Replace(s) ==
    /\ saver[s].at = "private"
    /\ LET there == names["tmp"] # NoFile
       IN  /\ names' = IF there THEN Renamed ELSE names
           /\ applied' = IF there THEN saver[s].new ELSE applied
           /\ saver' = [saver EXCEPT ![s] = IF there THEN [@ EXCEPT !.at = "replaced"] ELSE Idle]
    /\ UNCHANGED <<content, overlapped, planner, draft, task, call, acts, bounds>>

\* The answer is the configuration read back from the file.
AnswerSave(s) ==
    /\ saver[s].at = "replaced"
    /\ saver' = [saver EXCEPT ![s] = Idle]
    /\ UNCHANGED <<names, content, applied, overlapped, planner, draft, task, call, acts, bounds>>

(***************************************************************************)
(* build_default_runtime: the file, the environment over it, the           *)
(* validation, and the planner that serves this Runtime until it ends.     *)
(***************************************************************************)
OnDisk == IF names["config"] = NoFile THEN Text(Default) ELSE content[names["config"]]

Overridden(s, override) ==
    IF override = NoOverride THEN s ELSE [s EXCEPT !.enabled = override]

PlannerOrRules(s) == IF s.enabled /\ s.keyed THEN "model" ELSE "rules"
PlannerFor(s) ==
    IF ~s.enabled THEN "rules" ELSE IF s.keyed THEN "model" ELSE "unavailable"

NoTask == [at |-> "none", stop |-> FALSE, error |-> "none", round |-> 0, enabled |-> FALSE]
NoCall == [at |-> "none", kind |-> "none", repair |-> 0, retry |-> 0, result |-> "none", log |-> <<>>]

Start == \E override \in Overrides :
    LET settings == Overridden(OnDisk.settings, override)
    IN  /\ planner = "down" /\ bounds.starts < MaxStarts
        /\ OnDisk.is = "whole" /\ Acceptable(settings)
        /\ planner' = PlannerFor(settings)
        /\ task' = [NoTask EXCEPT !.enabled = settings.enabled]
        /\ bounds' = [bounds EXCEPT !.starts = @ + 1, !.calls = 0]
        /\ UNCHANGED <<files, draft, call, acts>>

\* The process ends between any two steps; the files stay as they are.
Crash ==
    /\ planner # "down"
    /\ planner' = "down"
    /\ saver' = [s \in Savers |-> Idle]
    /\ draft' = "none" /\ task' = NoTask /\ call' = NoCall /\ acts' = {}
    /\ UNCHANGED <<names, content, applied, overlapped, bounds>>

(***************************************************************************)
(* A conversation with the provider.  A request is answered by a transport *)
(* failure or by a response; the log names each answer with the body it    *)
(* answers: the first one, or the one that asks for a repair.              *)
(***************************************************************************)
Retryable == {"status_429", "status_5xx", "timeout", "connection", "invalid_json"}
Final == {"status_4xx"}
Unclassified == {"cut_off"}      \* IncompleteRead, bytes that are not UTF-8

\* Responses: a payload's type, whether it names its tool or skill, the tool's
\* arguments, and whether reason, confidence and scratchpad are well formed.
Types == {"run_skill", "run_tool", "finish"}
Payloads == [type : Types \cup {"other"}, named : BOOLEAN, known : BOOLEAN,
             arguments : {"none", "fitting", "unfitting"}, notes : BOOLEAN]

\* validate_agent_tool_arguments lets the arguments of a tool it does not know pass.
ArgumentsFit(p) ==
    IF p.type = "run_tool" /\ ~p.known THEN p.arguments # "none" ELSE p.arguments = "fitting"

WellFormed(p) ==
    /\ p.type \in Types
    /\ p.type # "finish" => p.named
    /\ ArgumentsFit(p)
    /\ p.notes

Outcome(p) == IF WellFormed(p) THEN "valid" ELSE "invalid"

BeginCall(kind) ==
    /\ bounds.calls < MaxCalls
    /\ call' = [NoCall EXCEPT !.at = "sent", !.kind = kind]
    /\ bounds' = [bounds EXCEPT !.calls = @ + 1]

Ended(result) == [call EXCEPT !.at = "done", !.result = result]
Heard(c, answer) ==
    [c EXCEPT !.log = Append(@, [body |-> call.repair, answer |-> answer, gaveUp |-> task.at = "gave_up"])]

\* _post_with_retry: one more attempt, after a failure that may pass.
RepeatsAny(failure) == failure \in Retryable \cup Final /\ call.retry = 0
Repeats(failure) == failure \in Retryable /\ call.retry = 0

Fails(failure) ==
    call' = Heard(IF Repeats(failure) THEN [call EXCEPT !.retry = 1]
                  ELSE Ended(IF failure \in Unclassified THEN "EXCEPTION" ELSE "MODEL_UNAVAILABLE"),
                  failure)

\* decide: an invalid answer is sent back once, with a fresh retry; compile has no repair.
Repairs(answer) == answer = "invalid" /\ call.kind = "decide" /\ call.repair = 0

Responds(answer) ==
    call' = Heard(IF Repairs(answer) THEN [call EXCEPT !.repair = 1, !.retry = 0]
                  ELSE Ended(IF answer = "valid" THEN "ok" ELSE "MODEL_OUTPUT_INVALID"),
                  answer)

ProviderAnswers ==
    /\ call.at = "sent"
    /\ \/ \E failure \in Retryable \cup Final \cup Unclassified : Fails(failure)
       \/ \E p \in Payloads : Responds(Outcome(p))
       \/ Responds("invalid")            \* not an object, no choices, no JSON in it
    /\ UNCHANGED <<files, planner, draft, task, acts, bounds>>

(***************************************************************************)
(* The goal compiler, on the thread of its request.  Conversations share   *)
(* nothing, so one at a time is modelled.                                  *)
(***************************************************************************)
CompileByRule ==
    /\ planner = "rules" /\ draft # "rule"
    /\ draft' = "rule"
    /\ UNCHANGED <<files, planner, task, call, acts, bounds>>

CompileByModel ==
    /\ planner = "model" /\ call = NoCall /\ task.at = "none"
    /\ BeginCall("compile")
    /\ UNCHANGED <<files, planner, draft, task, acts>>

Compiled ==
    /\ call.at = "done" /\ call.kind = "compile"
    /\ draft' = IF call.result = "ok" THEN "llm" ELSE draft
    /\ call' = NoCall
    /\ UNCHANGED <<files, planner, task, acts, bounds>>

\* _prepare_agent_task; a plain goal needs no draft.
SubmitAgentTask == \E spec \in {"none", draft}, matches, confirmed \in BOOLEAN :
    /\ planner # "down" /\ task.at = "none" /\ call = NoCall
    /\ spec # "none" => matches
    /\ spec = "llm" => confirmed
    /\ task' = [task EXCEPT !.at = "deciding", !.round = 1]
    /\ draft' = "none"
    /\ UNCHANGED <<files, planner, call, acts, bounds>>

Cancel ==
    /\ task.at \in {"deciding", "waiting"} /\ ~task.stop
    /\ task' = [task EXCEPT !.stop = TRUE]
    /\ UNCHANGED <<files, planner, draft, call, acts, bounds>>

(***************************************************************************)
(* A round of the runner.                                                  *)
(***************************************************************************)
Fail(error) == task' = [task EXCEPT !.at = "ended", !.error = error]

\* Before a round the runner looks at its probes.
StopsBeforeRound ==
    /\ task.at = "deciding" /\ task.stop
    /\ Fail("TASK_CANCELLED")
    /\ UNCHANGED <<files, planner, draft, call, acts, bounds>>

\* A decision: acted upon, and a further round, or the end of the task.
Acts(source, more) ==
    /\ acts' = acts \cup {[source |-> source, enabled |-> task.enabled,
                           answered |-> call.log # <<>> /\ Last(call.log).answer = "valid"]}
    /\ task' = IF more THEN [task EXCEPT !.at = "deciding", !.round = 2]
               ELSE [task EXCEPT !.at = "ended"]

\* RuleBasedPlanner.decide, on a goal of its one family or on any other.
DecideByRule == \E supported, onTarget \in BOOLEAN :
    /\ planner = "rules" /\ task.at = "deciding" /\ ~task.stop
    /\ \/ ~supported /\ Fail("INVALID_ARGUMENT") /\ UNCHANGED acts
       \/ supported /\ Acts("rule", task.round = 1 \/ ~onTarget)
    /\ UNCHANGED <<files, planner, draft, call, bounds>>

\* UnavailablePlanner.decide
DecideUnavailable ==
    /\ planner = "unavailable" /\ task.at = "deciding" /\ ~task.stop
    /\ Fail("MODEL_UNAVAILABLE")
    /\ UNCHANGED <<files, planner, draft, call, acts, bounds>>

\* _decide_with_control_probes: the planner runs on a thread of its own.
DecideByModel ==
    /\ planner = "model" /\ task.at = "deciding" /\ ~task.stop /\ call = NoCall
    /\ BeginCall("decide")
    /\ task' = [task EXCEPT !.at = "waiting"]
    /\ UNCHANGED <<files, planner, draft, acts>>

\* A finished thread is read before the probes are; a decision that comes with a stop
\* is not acted upon.
TakeDecision == \E more \in BOOLEAN :
    /\ task.at = "waiting" /\ call.at = "done" /\ call.kind = "decide"
    /\ \/ call.result = "ok" /\ ~task.stop /\ Acts("llm", more)
       \/ call.result = "ok" /\ task.stop /\ Fail("TASK_CANCELLED") /\ UNCHANGED acts
       \/ call.result # "ok" /\ Fail(call.result) /\ UNCHANGED acts
    /\ call' = NoCall
    /\ UNCHANGED <<files, planner, draft, bounds>>

\* The probe finds the stop while the thread is at work: the runner gives it up...
GiveUp ==
    /\ task.at = "waiting" /\ task.stop /\ call.at = "sent"
    /\ task' = [task EXCEPT !.at = "gave_up"]
    /\ UNCHANGED <<files, planner, draft, call, acts, bounds>>

\* ... and asyncio.run, on its way out of the worker loop, joins it.
JoinThread ==
    /\ task.at = "gave_up" /\ call.at = "done"
    /\ Fail("TASK_CANCELLED")
    /\ call' = NoCall
    /\ UNCHANGED <<files, planner, draft, acts, bounds>>

NextTask ==
    /\ task.at = "ended"
    /\ task' = [NoTask EXCEPT !.enabled = task.enabled]
    /\ UNCHANGED <<files, planner, draft, call, acts, bounds>>

(***************************************************************************)
(* The specification.                                                      *)
(***************************************************************************)
Init ==
    /\ names = [config |-> NoFile, tmp |-> NoFile]
    /\ content = [i \in Inodes |-> Empty]
    /\ saver = [s \in Savers |-> Idle]
    /\ applied = Default /\ overlapped = FALSE
    /\ planner = "down" /\ draft = "none"
    /\ task = NoTask /\ call = NoCall /\ acts = {}
    /\ bounds = [saves |-> 0, starts |-> 0, calls |-> 0]

Next ==
    \/ \E s \in Savers : BeginSave(s) \/ WriteSettings(s) \/ ChangeMode(s) \/ Replace(s)
                         \/ AnswerSave(s)
    \/ Start \/ Crash
    \/ ProviderAnswers
    \/ CompileByRule \/ CompileByModel \/ Compiled
    \/ SubmitAgentTask \/ Cancel
    \/ StopsBeforeRound \/ DecideByRule \/ DecideUnavailable \/ DecideByModel
    \/ TakeDecision \/ GiveUp \/ JoinThread \/ NextTask

Spec == Init /\ [][Next]_vars

TypeOK ==
    /\ names \in [{"config", "tmp"} -> Inodes \cup {NoFile}]
    /\ content \in [Inodes -> {Empty, Garbled} \cup {Text(s) : s \in Settings}]
    /\ saver \in [Savers -> [at : {"idle", "opened", "written", "private", "replaced"},
                             inode : Inodes \cup {NoFile}, new : Settings]]
    /\ overlapped \in BOOLEAN
    /\ planner \in {"down", "rules", "model", "unavailable"}
    /\ draft \in {"none", "rule", "llm"}
    /\ task.at \in {"none", "deciding", "waiting", "gave_up", "ended"}
    /\ call.at \in {"none", "sent", "done"} /\ call.kind \in {"none", "decide", "compile"}

(***************************************************************************)
(* Properties                                                              *)
(***************************************************************************)

\* A crash at any step of a save leaves the file of the last completed one, whole: what
\* the temporary file of save_model_provider_settings is for, as long as no two saves
\* have overlapped: every API thread can save, and they share the temporary name.
LastSaved == names["config"] # NoFile => content[names["config"]] = Text(applied)
ConfigIsLastSaved == ~overlapped => LastSaved

\* "temporary file + os.replace: a failed write does not damage the old configuration"
\* (config.py:151): whoever else saves, a start finds a text it can read.
ConfigIsWhole == names["config"] # NoFile => content[names["config"]].is = "whole"

\* The provider is asked again only where asking again can help: after a failure that
\* may pass, once per body, or after an answer it can correct, once per decision; never
\* after a refused request, and four times at most.
RepeatedOnlyToHelp ==
    \A i \in 1 .. Len(call.log) - 1 :
        LET one == call.log[i] next == call.log[i + 1]
        IN  \/ /\ one.answer \in Retryable /\ next.body = one.body
               /\ i > 1 => call.log[i - 1].answer = "invalid"
            \/ one.answer = "invalid" /\ one.body = 0 /\ next.body = 1

\* A Runtime whose settings enable a model never acts on a rule's decision, nor one
\* without a model on a model's: no silent fallback, whatever was saved since its start
\* and whether or not the secret resolves.  A model's decision comes from a valid answer.
NoSilentFallback ==
    \A a \in acts : (a.source = "llm") = a.enabled /\ (a.source = "llm" => a.answered)

\* "abandon the wait and end the task at once, without waiting for the thread" (runner.py
\* :529): once the runner has given up a call, no further request of it begins before the
\* task has ended.
StopIsPrompt ==
    task.at = "gave_up" /\ call.at = "sent" /\ call.log # <<>> => ~Last(call.log).gaveUp

=============================================================================
