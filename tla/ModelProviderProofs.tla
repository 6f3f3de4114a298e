------------------------- MODULE ModelProviderProofs -------------------------
(* Theorems about ModelProvider, for any number of saves, starts of the         *)
(* Runtime and calls to the provider.                                          *)
EXTENDS ModelProvider, TLAPS

-----------------------------------------------------------------------------
(* The inductive invariants.                                                *)

Texts == {Empty, Garbled} \cup {Text(s) : s \in Settings}
Saving == [at : {"idle", "opened", "written", "private", "replaced"},
           inode : Inodes \cup {NoFile}, new : Settings]
Results == {"none", "ok", "MODEL_UNAVAILABLE", "MODEL_OUTPUT_INVALID", "EXCEPTION"}
Answers == Retryable \cup Final \cup Unclassified \cup {"valid", "invalid"}
Heards == [body : {0, 1}, answer : Answers, gaveUp : BOOLEAN]
Errors == Results \cup {"TASK_CANCELLED", "INVALID_ARGUMENT"}
Tasks == [at : {"none", "deciding", "waiting", "gave_up", "ended"}, stop : BOOLEAN,
          error : Errors,
          round : 0 .. 2, enabled : BOOLEAN]
Calls == [at : {"none", "sent", "done"}, kind : {"none", "decide", "compile"},
          repair : {0, 1}, retry : {0, 1}, result : Results, log : Seq(Heards)]
Decisions == [source : {"rule", "llm"}, enabled : BOOLEAN, answered : BOOLEAN]

FilesTyped ==
    /\ names \in [{"config", "tmp"} -> Inodes \cup {NoFile}]
    /\ content \in [Inodes -> Texts]
    /\ saver \in [Savers -> Saving]
    /\ applied \in Settings
    /\ overlapped \in BOOLEAN

RunTyped ==
    /\ planner \in {"down", "rules", "model", "unavailable"}
    /\ draft \in {"none", "rule", "llm"}
    /\ task \in Tasks /\ call \in Calls /\ acts \subseteq Decisions
    /\ bounds \in [saves : Nat, starts : Nat, calls : Nat]

Typed == FilesTyped /\ RunTyped

\* The planner of a Runtime follows the settings it was started with.
PlannerFits ==
    /\ planner = "rules" => ~task.enabled
    /\ planner \in {"model", "unavailable"} => task.enabled
    /\ task.at = "waiting" => planner = "model"

\* An ok is the result of a valid answer, the last one.
OkIsValid ==
    /\ call.at = "sent" => call.result = "none"
    /\ call.result = "ok" => call.log # <<>> /\ Last(call.log).answer = "valid"

NoFallback == Typed /\ PlannerFits /\ OkIsValid /\ NoSilentFallback

\* The request at work is the first, the repeat of the last or the repair of it.
AskedFor ==
    call.at = "sent" =>
        LET n == Len(call.log)
        IN  \/ n = 0 /\ call.repair = 0 /\ call.retry = 0
            \/ /\ n > 0 /\ call.retry = 1
               /\ call.log[n].answer \in Retryable /\ call.log[n].body = call.repair
               /\ n > 1 => call.log[n - 1].answer = "invalid"
            \/ /\ n > 0 /\ call.retry = 0 /\ call.repair = 1
               /\ call.log[n].answer = "invalid" /\ call.log[n].body = 0

AtWork(s) == saver[s].at # "idle"

\* While no two saves have overlapped: one thread saves at a time, the temporary
\* name is its own file, and the file in place is another one, which holds what
\* was last put there.
OneAtWork == \A s, t \in Savers : AtWork(s) /\ AtWork(t) => s = t

SaverOwnsTmp ==
    \A s \in Savers :
        /\ saver[s].at \in {"opened", "written", "private"} =>
               saver[s].inode # NoFile /\ names["tmp"] = saver[s].inode
        /\ saver[s].at = "opened" => content[saver[s].inode] = Empty
        /\ saver[s].at \in {"written", "private"} =>
               content[saver[s].inode] = Text(saver[s].new)
        /\ saver[s].at = "idle" => saver[s].inode = NoFile

ConfigApart ==
    /\ names["tmp"] # NoFile => names["tmp"] # names["config"]
    /\ names["config"] # NoFile \/ names["tmp"] # NoFile => bounds.saves >= 1

Alone == OneAtWork /\ SaverOwnsTmp /\ ConfigApart /\ LastSaved

Saved == ~overlapped => Alone

-----------------------------------------------------------------------------
(* Types.                                                                   *)

LEMMA Constants ==
    /\ Default \in Settings /\ Empty \in Texts /\ Garbled \in Texts
    /\ \A s \in Settings : Text(s) \in Texts
    /\ Idle \in Saving /\ NoTask \in Tasks /\ NoFile \notin Inodes
<1>1. Default \in Settings
    BY DEF Default, Settings
<1> QED
    BY <1>1 DEF Texts, Idle, Saving, NoTask, Tasks, Errors, Results, NoFile, Inodes

LEMMA NoCallTyped == NoCall \in Calls /\ NoCall.log = <<>> /\ NoCall.result = "none"
<1>1. <<>> \in Seq(Heards)
    OBVIOUS
<1> QED
    BY <1>1 DEF NoCall, Calls, Results

\* A save changes one thread.
LEMMA OneSaver ==
    ASSUME FilesTyped, NEW s \in Savers, NEW new \in Saving, saver' = [saver EXCEPT ![s] = new]
    PROVE  saver' \in [Savers -> Saving]
BY DEF FilesTyped

LEMMA SaverAt ==
    ASSUME NEW c \in Saving, NEW at \in {"written", "private", "replaced"}
    PROVE  /\ [c EXCEPT !.at = at] \in Saving /\ [c EXCEPT !.at = at].at = at
           /\ [c EXCEPT !.at = at].inode = c.inode /\ [c EXCEPT !.at = at].new = c.new
BY DEF Saving

LEMMA FilesNext == ASSUME Typed, Next PROVE FilesTyped'
<1>0. FilesTyped
    BY DEF Typed
<1>1. ASSUME NEW s \in Savers, BeginSave(s) PROVE FilesTyped'
    <2>1. PICK new \in Settings, inode \in Inodes :
            /\ names' = [names EXCEPT !["tmp"] = inode]
            /\ content' = [content EXCEPT ![inode] = Empty]
            /\ saver' = [saver EXCEPT ![s] = [at |-> "opened", inode |-> inode, new |-> new]]
            /\ UNCHANGED applied
        BY <1>1 DEF BeginSave
    <2>2. [at |-> "opened", inode |-> inode, new |-> new] \in Saving
        BY DEF Saving
    <2>3. saver' \in [Savers -> Saving]
        BY <1>0, <2>1, <2>2, OneSaver
    <2>4. overlapped' \in BOOLEAN
        BY <1>1, Zenon DEF BeginSave
    <2> QED
        BY <1>0, <2>1, <2>3, <2>4, Constants DEF FilesTyped
<1>2. ASSUME NEW s \in Savers, WriteSettings(s) PROVE FilesTyped'
    <2>1. saver[s] \in Saving /\ saver[s].new \in Settings
        BY <1>0 DEF FilesTyped, Saving
    <2>2. PICK text \in Written(content[saver[s].inode], saver[s].new) :
            content' = [content EXCEPT ![saver[s].inode] = text]
        BY <1>2 DEF WriteSettings
    <2>3. text \in Texts
        BY <2>1, <2>2, Constants DEF Written
    <2>4. saver' = [saver EXCEPT ![s] = [saver[s] EXCEPT !.at = "written"]]
        BY <1>0, <1>2 DEF WriteSettings, FilesTyped
    <2>5. saver' \in [Savers -> Saving]
        BY <1>0, <2>1, <2>4, SaverAt, OneSaver
    <2> QED
        BY <1>0, <1>2, <2>2, <2>3, <2>5 DEF WriteSettings, FilesTyped
<1>3. ASSUME NEW s \in Savers, ChangeMode(s) PROVE FilesTyped'
    <2>1. saver[s] \in Saving
        BY <1>0 DEF FilesTyped
    <2>2. \/ saver' = [saver EXCEPT ![s] = Idle]
          \/ saver' = [saver EXCEPT ![s] = [saver[s] EXCEPT !.at = "private"]]
        BY <1>3 DEF ChangeMode
    <2>3. saver' \in [Savers -> Saving]
        BY <1>0, <2>1, <2>2, SaverAt, OneSaver, Constants
    <2> QED
        BY <1>0, <1>3, <2>3 DEF ChangeMode, FilesTyped
<1>4. ASSUME NEW s \in Savers, Replace(s) PROVE FilesTyped'
    <2>1. saver[s] \in Saving /\ saver[s].new \in Settings
        BY <1>0 DEF FilesTyped, Saving
    <2>2. \/ saver' = [saver EXCEPT ![s] = Idle]
          \/ saver' = [saver EXCEPT ![s] = [saver[s] EXCEPT !.at = "replaced"]]
        BY <1>4 DEF Replace
    <2>3. saver' \in [Savers -> Saving]
        BY <1>0, <2>1, <2>2, SaverAt, OneSaver, Constants
    <2>4. Renamed \in [{"config", "tmp"} -> Inodes \cup {NoFile}]
        BY <1>0 DEF FilesTyped, Renamed
    <2>5. names' \in {names, Renamed} /\ applied' \in {applied, saver[s].new}
          /\ UNCHANGED <<content, overlapped>>
        BY <1>4 DEF Replace
    <2> QED
        BY <1>0, <2>1, <2>3, <2>4, <2>5 DEF FilesTyped
<1>5. ASSUME NEW s \in Savers, AnswerSave(s) PROVE FilesTyped'
    <2>1. saver' \in [Savers -> Saving]
        BY <1>0, <1>5, OneSaver, Constants DEF AnswerSave
    <2> QED
        BY <1>0, <1>5, <2>1 DEF AnswerSave, FilesTyped
<1>6. CASE Crash
    BY <1>0, <1>6, Constants DEF Crash, FilesTyped
<1>7. CASE UNCHANGED files
    BY <1>0, <1>7 DEF files, FilesTyped
<1> QED
    BY <1>1, <1>2, <1>3, <1>4, <1>5, <1>6, <1>7 DEF Next, Start, ProviderAnswers, CompileByRule,
       CompileByModel, Compiled, SubmitAgentTask, Cancel, StopsBeforeRound, DecideByRule,
       DecideUnavailable, DecideByModel, TakeDecision, GiveUp, JoinThread, NextTask, files

\* What a task becomes.
LEMMA TaskTo ==
    ASSUME NEW t \in Tasks, NEW at \in {"deciding", "waiting", "gave_up", "ended"}
    PROVE  /\ [t EXCEPT !.at = at] \in Tasks
           /\ [t EXCEPT !.at = at].at = at /\ [t EXCEPT !.at = at].enabled = t.enabled
BY DEF Tasks

Round(t, n) == [t EXCEPT !.at = "deciding", !.round = n]

LEMMA TaskRound ==
    ASSUME NEW t \in Tasks, NEW n \in {1, 2}
    PROVE  /\ Round(t, n) \in Tasks /\ Round(t, n).at = "deciding"
           /\ Round(t, n).enabled = t.enabled
<1> DEFINE d == [t EXCEPT !.at = "deciding"]
<1>1. d \in Tasks /\ d.at = "deciding" /\ d.enabled = t.enabled
    BY TaskTo
<1> HIDE DEF d
<1>2. n \in 0 .. 2
    OBVIOUS
<1>3. [d EXCEPT !.round = n] \in Tasks
    BY <1>1, <1>2 DEF Tasks
<1>4. [d EXCEPT !.round = n].at = d.at /\ [d EXCEPT !.round = n].enabled = d.enabled
    BY <1>1 DEF Tasks
<1>5. Round(t, n) = [d EXCEPT !.round = n]
    BY DEF Round, d
<1> QED
    BY <1>1, <1>3, <1>4, <1>5

LEMMA TaskStops ==
    ASSUME NEW t \in Tasks
    PROVE  /\ [t EXCEPT !.stop = TRUE] \in Tasks
           /\ [t EXCEPT !.stop = TRUE].at = t.at
           /\ [t EXCEPT !.stop = TRUE].enabled = t.enabled
BY DEF Tasks

LEMMA TaskFails ==
    ASSUME NEW t \in Tasks, NEW why \in Errors
    PROVE  /\ [t EXCEPT !.at = "ended", !.error = why] \in Tasks
           /\ [t EXCEPT !.at = "ended", !.error = why].at = "ended"
           /\ [t EXCEPT !.at = "ended", !.error = why].enabled = t.enabled
<1>1. [t EXCEPT !.at = "ended", !.error = why] \in Tasks
    BY DEF Tasks
<1>2. [t EXCEPT !.at = "ended", !.error = why].at = "ended"
    BY DEF Tasks
<1>3. [t EXCEPT !.at = "ended", !.error = why].enabled = t.enabled
    BY DEF Tasks
<1> QED
    BY <1>1, <1>2, <1>3

LEMMA FreshTask ==
    ASSUME NEW enabled \in BOOLEAN
    PROVE  /\ [NoTask EXCEPT !.enabled = enabled] \in Tasks
           /\ [NoTask EXCEPT !.enabled = enabled].at = "none"
           /\ [NoTask EXCEPT !.enabled = enabled].enabled = enabled
<1>1. ASSUME NEW t \in Tasks
      PROVE  /\ [t EXCEPT !.enabled = enabled] \in Tasks
             /\ [t EXCEPT !.enabled = enabled].at = t.at
             /\ [t EXCEPT !.enabled = enabled].enabled = enabled
    BY DEF Tasks
<1>2. NoTask \in Tasks /\ NoTask.at = "none"
    BY Constants DEF NoTask
<1> QED
    BY <1>1, <1>2

\* What an answer makes of the conversation.
LEMMA HeardTyped ==
    ASSUME NEW c \in Calls, NEW answer \in Answers, RunTyped
    PROVE  /\ Heard(c, answer) \in Calls
           /\ Heard(c, answer).log = Append(c.log, [body |-> call.repair, answer |-> answer,
                                                    gaveUp |-> task.at = "gave_up"])
           /\ Heard(c, answer).at = c.at /\ Heard(c, answer).result = c.result
           /\ Heard(c, answer).repair = c.repair /\ Heard(c, answer).retry = c.retry
           /\ Heard(c, answer).kind = c.kind
<1> DEFINE gaveUp == task.at = "gave_up"
           rec == [body |-> call.repair, answer |-> answer, gaveUp |-> gaveUp]
           log == Append(c.log, rec)
<1>1. gaveUp \in BOOLEAN /\ call.repair \in {0, 1} /\ c.log \in Seq(Heards)
    BY DEF RunTyped, Calls
<1>2. Heard(c, answer) = [c EXCEPT !.log = log]
    BY DEF Heard
<1> HIDE DEF gaveUp
<1>3. rec \in Heards
    BY <1>1 DEF Heards
<1> HIDE DEF rec
<1>4. log \in Seq(Heards)
    BY <1>1, <1>3
<1>5. log = Append(c.log, [body |-> call.repair, answer |-> answer, gaveUp |-> task.at = "gave_up"])
    BY DEF rec, gaveUp
<1> HIDE DEF log
<1> QED
    BY <1>2, <1>4, <1>5 DEF Calls

LEMMA EndedTyped ==
    ASSUME RunTyped, NEW result \in Results
    PROVE  /\ Ended(result) \in Calls /\ Ended(result).at = "done" /\ Ended(result).result = result
           /\ Ended(result).log = call.log /\ Ended(result).kind = call.kind
<1>1. call \in Calls
    BY DEF RunTyped
<1> QED
    BY <1>1 DEF Ended, Calls

LEMMA AgainTyped ==
    ASSUME RunTyped
    PROVE  /\ [call EXCEPT !.retry = 1] \in Calls
           /\ [call EXCEPT !.retry = 1].at = call.at /\ [call EXCEPT !.retry = 1].log = call.log
           /\ [call EXCEPT !.retry = 1].retry = 1
           /\ [call EXCEPT !.retry = 1].repair = call.repair
           /\ [call EXCEPT !.retry = 1].result = call.result
           /\ [call EXCEPT !.repair = 1, !.retry = 0] \in Calls
           /\ [call EXCEPT !.repair = 1, !.retry = 0].at = call.at
           /\ [call EXCEPT !.repair = 1, !.retry = 0].log = call.log
           /\ [call EXCEPT !.repair = 1, !.retry = 0].retry = 0
           /\ [call EXCEPT !.repair = 1, !.retry = 0].repair = 1
           /\ [call EXCEPT !.repair = 1, !.retry = 0].result = call.result
<1>1. call \in Calls
    BY DEF RunTyped
<1> QED
    BY <1>1 DEF Calls

LEMMA BeginTyped ==
    ASSUME NEW kind \in {"decide", "compile"}
    PROVE  LET c == [NoCall EXCEPT !.at = "sent", !.kind = kind]
           IN  /\ c \in Calls /\ c.at = "sent" /\ c.log = <<>> /\ c.result = "none"
               /\ c.repair = 0 /\ c.retry = 0
BY NoCallTyped DEF NoCall, Calls, Results

\* An answer to the request at work, taken apart.
LEMMA AnswerCases ==
    ASSUME RunTyped, ProviderAnswers
    PROVE  \/ \E failure \in Answers \ {"valid", "invalid"} : Fails(failure)
           \/ \E answer \in {"valid", "invalid"} : Responds(answer)
BY DEF ProviderAnswers, Outcome, Answers, Retryable, Final, Unclassified

\* ... and what it makes of the conversation.
LEMMA FailsTo ==
    ASSUME RunTyped, NEW failure \in Answers \ {"valid", "invalid"}, Fails(failure)
    PROVE  \/ /\ failure \in Retryable /\ call.retry = 0
              /\ call' = Heard([call EXCEPT !.retry = 1], failure)
           \/ \E result \in Results \ {"ok"} : call' = Heard(Ended(result), failure)
BY DEF Fails, Repeats, Results

LEMMA RespondsTo ==
    ASSUME RunTyped, NEW answer \in {"valid", "invalid"}, Responds(answer)
    PROVE  \/ /\ answer = "invalid" /\ call.repair = 0
              /\ call' = Heard([call EXCEPT !.repair = 1, !.retry = 0], answer)
           \/ \E result \in Results :
                  /\ result = "ok" => answer = "valid"
                  /\ call' = Heard(Ended(result), answer)
BY DEF Responds, Repairs, Results

-----------------------------------------------------------------------------
(* Decisions.                                                               *)

LEMMA CallHeard ==
    ASSUME Typed, NEW c \in Calls, NEW answer \in Answers, c.at = "sent" => c.result = "none",
           c.result = "ok" => answer = "valid", call' = Heard(c, answer)
    PROVE  call' \in Calls /\ OkIsValid'
<1> DEFINE rec == [body |-> call.repair, answer |-> answer, gaveUp |-> task.at = "gave_up"]
<1>1. call' \in Calls /\ call'.log = Append(c.log, rec) /\ call'.result = c.result
      /\ call'.at = c.at
    BY HeardTyped DEF Typed
<1>2. rec.answer = answer /\ c.log \in Seq(Heards)
    BY DEF Calls
<1> HIDE DEF rec
<1>3. call'.log # <<>> /\ call'.log[Len(call'.log)] = rec
    BY <1>1, <1>2
<1> QED
    BY <1>1, <1>2, <1>3 DEF OkIsValid, Last

LEMMA AnswerKeepsCall ==
    ASSUME Typed, OkIsValid, ProviderAnswers PROVE call' \in Calls /\ OkIsValid'
<1>0. RunTyped /\ call.at = "sent" /\ call.result = "none"
    BY DEF Typed, ProviderAnswers, OkIsValid
<1>1. ASSUME NEW result \in Results, NEW answer \in Answers, result = "ok" => answer = "valid",
             call' = Heard(Ended(result), answer)
      PROVE  call' \in Calls /\ OkIsValid'
    <2>1. Ended(result) \in Calls /\ Ended(result).at = "done" /\ Ended(result).result = result
        BY <1>0, EndedTyped
    <2> QED
        BY <1>1, <2>1, CallHeard
<1>2. ASSUME NEW failure \in Answers \ {"valid", "invalid"}, Fails(failure)
      PROVE  call' \in Calls /\ OkIsValid'
    <2>1. CASE call' = Heard([call EXCEPT !.retry = 1], failure)
        BY <1>0, <2>1, AgainTyped, CallHeard
    <2>2. CASE \E result \in Results \ {"ok"} : call' = Heard(Ended(result), failure)
        BY <1>1, <2>2
    <2> QED
        BY <1>0, <1>2, <2>1, <2>2, FailsTo
<1>3. ASSUME NEW answer \in {"valid", "invalid"}, Responds(answer)
      PROVE  call' \in Calls /\ OkIsValid'
    <2>0. answer \in Answers
        BY DEF Answers
    <2>1. CASE call' = Heard([call EXCEPT !.repair = 1, !.retry = 0], answer)
        BY <1>0, <2>0, <2>1, AgainTyped, CallHeard
    <2>2. CASE \E result \in Results : /\ result = "ok" => answer = "valid"
                                       /\ call' = Heard(Ended(result), answer)
        BY <1>1, <2>0, <2>2
    <2> QED
        BY <1>0, <1>3, <2>1, <2>2, RespondsTo
<1> QED
    BY <1>0, <1>2, <1>3, AnswerCases

LEMMA BeginKeepsCall ==
    ASSUME Typed, NEW kind \in {"decide", "compile"}, BeginCall(kind)
    PROVE  /\ call' \in Calls /\ OkIsValid'
           /\ bounds' \in [saves : Nat, starts : Nat, calls : Nat]
<1>1. bounds \in [saves : Nat, starts : Nat, calls : Nat]
    BY DEF Typed, RunTyped
<1>2. bounds' = [bounds EXCEPT !.calls = bounds.calls + 1]
      /\ call' = [NoCall EXCEPT !.at = "sent", !.kind = kind]
    BY DEF BeginCall
<1>3. call' \in Calls /\ call'.result = "none"
    BY <1>2, BeginTyped
<1> QED
    BY <1>1, <1>2, <1>3 DEF OkIsValid

\* The conversation ends, or goes on.
LEMMA NoCallKept == ASSUME call' = NoCall PROVE call' \in Calls /\ OkIsValid'
BY NoCallTyped DEF OkIsValid, NoCall

\* A step that leaves what a Runtime decided alone, and its planner.
LEMMA RunSame ==
    ASSUME RunTyped, PlannerFits, NoSilentFallback,
           planner' = planner, acts' = acts, draft' \in {"none", "rule", "llm"},
           task' \in Tasks, task'.enabled = task.enabled,
           task'.at = "waiting" => task.at = "waiting" \/ planner = "model",
           call' \in Calls, bounds' \in [saves : Nat, starts : Nat, calls : Nat]
    PROVE  RunTyped' /\ PlannerFits' /\ NoSilentFallback'
BY DEF RunTyped, PlannerFits, NoSilentFallback

\* A decision is acted upon.
LEMMA ActsHonest ==
    ASSUME RunTyped, PlannerFits, NoSilentFallback, NEW source \in {"rule", "llm"}, NEW more \in BOOLEAN,
           Acts(source, more), (source = "llm") = task.enabled,
           source = "llm" => call.log # <<>> /\ Last(call.log).answer = "valid",
           UNCHANGED <<planner, draft, bounds>>, call' \in Calls
    PROVE  RunTyped' /\ PlannerFits' /\ NoSilentFallback'
<1> DEFINE answered == call.log # <<>> /\ Last(call.log).answer = "valid"
           a == [source |-> source, enabled |-> task.enabled, answered |-> answered]
<1>1. task \in Tasks /\ task.enabled \in BOOLEAN /\ answered \in BOOLEAN
    BY DEF RunTyped, Tasks
<1>2. acts' = acts \cup {a}
    BY DEF Acts
<1>3. source = "llm" => answered
    OBVIOUS
<1>4. \/ task' = [task EXCEPT !.at = "deciding", !.round = 2]
      \/ task' = [task EXCEPT !.at = "ended"]
    BY DEF Acts
<1>5. task' \in Tasks /\ task'.enabled = task.enabled /\ task'.at # "waiting"
    <2>1. CASE task' = [task EXCEPT !.at = "deciding", !.round = 2]
        <3>1. task' = Round(task, 2)
            BY <2>1 DEF Round
        <3> QED
            BY <1>1, <3>1, TaskRound
    <2>2. CASE task' = [task EXCEPT !.at = "ended"]
        BY <1>1, <2>2, TaskTo
    <2> QED
        BY <1>4, <2>1, <2>2
<1> HIDE DEF answered
<1>6. a \in Decisions /\ a.source = source /\ a.enabled = task.enabled /\ a.answered = answered
    BY <1>1 DEF Decisions
<1> HIDE DEF a
<1>7. (a.source = "llm") = a.enabled /\ (a.source = "llm" => a.answered)
    BY <1>3, <1>6
<1>8. NoSilentFallback'
    BY <1>2, <1>7 DEF NoSilentFallback
<1>9. PlannerFits'
    BY <1>5 DEF PlannerFits
<1> QED
    BY <1>2, <1>5, <1>6, <1>8, <1>9 DEF RunTyped

\* The steps of a Runtime, after those of the savers.
LEMMA RunNext ==
    ASSUME NoFallback, Next
    PROVE  RunTyped' /\ PlannerFits' /\ OkIsValid' /\ NoSilentFallback'
<1> DEFINE Goal == RunTyped' /\ PlannerFits' /\ OkIsValid' /\ NoSilentFallback'
<1>0. /\ Typed /\ RunTyped /\ PlannerFits /\ OkIsValid /\ NoSilentFallback
      /\ task \in Tasks /\ call \in Calls
      /\ bounds \in [saves : Nat, starts : Nat, calls : Nat]
      /\ draft \in {"none", "rule", "llm"}
    BY DEF NoFallback, Typed, RunTyped
<1>1. ASSUME UNCHANGED call PROVE call' \in Calls /\ OkIsValid'
    BY <1>0, <1>1 DEF OkIsValid
<1>2. ASSUME NEW s \in Savers, \/ BeginSave(s) \/ WriteSettings(s) \/ ChangeMode(s)
                               \/ Replace(s) \/ AnswerSave(s)
      PROVE  Goal
    <2>1. bounds' \in [saves : Nat, starts : Nat, calls : Nat]
        <3>1. CASE bounds' = [bounds EXCEPT !.saves = bounds.saves + 1]
            BY <1>0, <3>1
        <3> QED
            BY <1>0, <1>2, <3>1 DEF BeginSave, WriteSettings, ChangeMode, Replace, AnswerSave
    <2>2. UNCHANGED <<planner, draft, task, call, acts>>
        BY <1>2 DEF BeginSave, WriteSettings, ChangeMode, Replace, AnswerSave
    <2> QED
        BY <1>0, <1>1, <2>1, <2>2, RunSame
<1>3. CASE Start
    <2>1. PICK override \in Overrides :
            LET settings == Overridden(OnDisk.settings, override)
            IN  /\ planner' = PlannerFor(settings)
                /\ task' = [NoTask EXCEPT !.enabled = settings.enabled]
                /\ bounds' = [bounds EXCEPT !.starts = bounds.starts + 1, !.calls = 0]
                /\ UNCHANGED <<draft, call, acts>>
        BY <1>3 DEF Start
    <2> DEFINE settings == Overridden(OnDisk.settings, override)
    <2>2. settings.enabled \in BOOLEAN
        <3>1. OnDisk.settings \in Settings
            <4>1. CASE names["config"] = NoFile
                BY <4>1, Constants DEF OnDisk, Text
            <4>2. CASE names["config"] # NoFile
                <5>1. content[names["config"]] \in Texts
                    BY <1>0, <4>2 DEF Typed, FilesTyped
                <5>2. ASSUME NEW text \in Texts PROVE text.settings \in Settings
                    BY <5>2, Constants DEF Texts, Text, Empty, Garbled
                <5> QED
                    BY <4>2, <5>1, <5>2 DEF OnDisk
            <4> QED
                BY <4>1, <4>2
        <3>2. ASSUME NEW s \in Settings
              PROVE  Overridden(s, override).enabled \in BOOLEAN
            BY <3>2, BoundsAssumption DEF Overridden, Settings
        <3> QED
            BY <3>1, <3>2
    <2> DEFINE enabled == settings.enabled
    <2>3. /\ planner' \in {"down", "rules", "model", "unavailable"}
          /\ planner' = "rules" => ~enabled
          /\ planner' \in {"model", "unavailable"} => enabled
        BY <2>1 DEF PlannerFor
    <2>4. task' = [NoTask EXCEPT !.enabled = enabled]
        BY <2>1
    <2>5. bounds' \in [saves : Nat, starts : Nat, calls : Nat] /\ UNCHANGED <<draft, call, acts>>
        <3>1. /\ bounds' = [bounds EXCEPT !.starts = bounds.starts + 1, !.calls = 0]
              /\ UNCHANGED <<draft, call, acts>>
            BY <2>1
        <3> DEFINE started == [bounds EXCEPT !.starts = bounds.starts + 1]
        <3>2. started \in [saves : Nat, starts : Nat, calls : Nat]
            BY <1>0
        <3>3. bounds' = [started EXCEPT !.calls = 0]
            BY <3>1
        <3> HIDE DEF started
        <3>4. bounds' \in [saves : Nat, starts : Nat, calls : Nat]
            BY <3>2, <3>3
        <3> QED
            BY <3>1, <3>4
    <2> HIDE DEF enabled
    <2>6. enabled \in BOOLEAN
        BY <2>2 DEF enabled
    <2>7. task' \in Tasks /\ task'.at = "none" /\ task'.enabled = enabled
        BY <2>4, <2>6, FreshTask
    <2> HIDE DEF settings
    <2>8. PlannerFits'
        BY <2>3, <2>7 DEF PlannerFits
    <2>9. RunTyped'
        BY <1>0, <2>3, <2>5, <2>7 DEF RunTyped
    <2>10. NoSilentFallback'
        BY <1>0, <2>5 DEF NoSilentFallback
    <2> QED
        BY <1>1, <2>5, <2>8, <2>9, <2>10
<1>4. CASE Crash
    <2>1. /\ planner' = "down" /\ draft' = "none" /\ task' = NoTask /\ call' = NoCall
          /\ acts' = {} /\ UNCHANGED bounds
        BY <1>4 DEF Crash
    <2>2. task' \in Tasks /\ task'.at = "none"
        BY <2>1, Constants DEF NoTask
    <2>3. call' \in Calls /\ OkIsValid'
        BY <2>1, NoCallKept
    <2>4. PlannerFits' /\ NoSilentFallback'
        BY <2>1, <2>2 DEF PlannerFits, NoSilentFallback
    <2> QED
        BY <1>0, <2>1, <2>2, <2>3, <2>4 DEF RunTyped
<1>5. CASE ProviderAnswers
    <2>1. call' \in Calls /\ OkIsValid'
        BY <1>0, <1>5, AnswerKeepsCall
    <2>2. UNCHANGED <<planner, draft, task, acts, bounds>>
        BY <1>5 DEF ProviderAnswers
    <2> QED
        BY <1>0, <2>1, <2>2, RunSame
<1>6. CASE CompileByRule
    BY <1>0, <1>1, <1>6, RunSame DEF CompileByRule
<1>7. CASE CompileByModel
    <2>1. BeginCall("compile") /\ UNCHANGED <<planner, draft, task, acts>>
        BY <1>7 DEF CompileByModel
    <2>2. call' \in Calls /\ OkIsValid' /\ bounds' \in [saves : Nat, starts : Nat, calls : Nat]
        BY <1>0, <2>1, BeginKeepsCall
    <2> QED
        BY <1>0, <2>1, <2>2, RunSame
<1>8. CASE Compiled
    <2>1. call' = NoCall /\ draft' \in {"llm", draft} /\ UNCHANGED <<planner, task, acts, bounds>>
        BY <1>8 DEF Compiled
    <2> QED
        BY <1>0, <2>1, NoCallKept, RunSame
<1>9. CASE SubmitAgentTask
    <2>1. /\ task' = [task EXCEPT !.at = "deciding", !.round = 1]
          /\ draft' = "none" /\ UNCHANGED <<planner, call, acts, bounds>>
        BY <1>9 DEF SubmitAgentTask
    <2>2. task' = Round(task, 1)
        BY <2>1 DEF Round
    <2>3. task' \in Tasks /\ task'.at = "deciding" /\ task'.enabled = task.enabled
        BY <1>0, <2>2, TaskRound
    <2> QED
        BY <1>0, <1>1, <2>1, <2>3, RunSame
<1>10. CASE Cancel
    <2>1. task' = [task EXCEPT !.stop = TRUE] /\ UNCHANGED <<planner, draft, call, acts, bounds>>
        BY <1>10 DEF Cancel
    <2> QED
        BY <1>0, <1>1, <2>1, TaskStops, RunSame
<1>11. ASSUME NEW why \in Errors, Fail(why), UNCHANGED <<planner, draft, acts, bounds>>,
              call' = NoCall \/ UNCHANGED call
      PROVE  Goal
    <2>1. /\ [task EXCEPT !.at = "ended", !.error = why] \in Tasks
          /\ [task EXCEPT !.at = "ended", !.error = why].at = "ended"
          /\ [task EXCEPT !.at = "ended", !.error = why].enabled = task.enabled
        BY <1>0, TaskFails
    <2>2. task' = [task EXCEPT !.at = "ended", !.error = why]
        BY <1>11 DEF Fail
    <2>3. call' \in Calls /\ OkIsValid'
        BY <1>1, <1>11, NoCallKept
    <2> QED
        BY <1>0, <1>11, <2>1, <2>2, <2>3, RunSame
<1>12. {"TASK_CANCELLED", "INVALID_ARGUMENT", "MODEL_UNAVAILABLE"} \cup Results \subseteq Errors
    BY DEF Errors, Results
<1>13. CASE StopsBeforeRound \/ DecideUnavailable \/ JoinThread
    BY <1>11, <1>12, <1>13 DEF StopsBeforeRound, DecideUnavailable, JoinThread
<1>14. CASE DecideByRule
    <2>1. planner = "rules" /\ UNCHANGED <<planner, draft, call, bounds>>
        BY <1>14 DEF DecideByRule
    <2>2. CASE Fail("INVALID_ARGUMENT") /\ UNCHANGED acts
        BY <1>11, <1>12, <2>1, <2>2
    <2>3. ASSUME NEW onTarget \in BOOLEAN, Acts("rule", task.round = 1 \/ ~onTarget) PROVE Goal
        <3> DEFINE more == task.round = 1 \/ ~onTarget
        <3>1. more \in BOOLEAN /\ Acts("rule", more)
            BY <2>3
        <3> HIDE DEF more
        <3>2. task.enabled = FALSE
            BY <1>0, <2>1 DEF PlannerFits, Tasks
        <3>3. ("rule" = "llm") = task.enabled
            BY <3>2
        <3> QED
            BY <1>0, <1>1, <2>1, <3>1, <3>3, ActsHonest
    <2> QED
        BY <1>14, <2>2, <2>3 DEF DecideByRule
<1>15. CASE DecideByModel
    <2>1. /\ planner = "model" /\ BeginCall("decide") /\ task' = [task EXCEPT !.at = "waiting"]
          /\ UNCHANGED <<planner, draft, acts>>
        BY <1>15 DEF DecideByModel
    <2>2. call' \in Calls /\ OkIsValid' /\ bounds' \in [saves : Nat, starts : Nat, calls : Nat]
        BY <1>0, <2>1, BeginKeepsCall
    <2>3. task' \in Tasks /\ task'.enabled = task.enabled
        BY <1>0, <2>1, TaskTo
    <2> QED
        BY <1>0, <2>1, <2>2, <2>3, RunSame
<1>16. CASE TakeDecision
    <2>1. task.at = "waiting" /\ call' = NoCall /\ UNCHANGED <<planner, draft, bounds>>
        BY <1>16 DEF TakeDecision
    <2>2. ASSUME NEW more \in BOOLEAN, call.result = "ok", Acts("llm", more) PROVE Goal
        <3>1. task.enabled = TRUE
            BY <1>0, <2>1 DEF PlannerFits, Tasks
        <3>2. ("llm" = "llm") = task.enabled
            BY <3>1
        <3>3. call.log # <<>> /\ Last(call.log).answer = "valid"
            BY <1>0, <2>2 DEF OkIsValid
        <3> QED
            BY <1>0, <2>1, <2>2, <3>2, <3>3, NoCallKept, ActsHonest
    <2>3. CASE \E why \in Results \cup {"TASK_CANCELLED"} : Fail(why) /\ UNCHANGED acts
        BY <1>11, <1>12, <2>1, <2>3
    <2>4. call.result \in Results
        BY <1>0 DEF Calls
    <2> QED
        BY <1>16, <2>2, <2>3, <2>4 DEF TakeDecision
<1>17. CASE GiveUp
    <2>1. task' = [task EXCEPT !.at = "gave_up"] /\ UNCHANGED <<planner, draft, call, acts, bounds>>
        BY <1>17 DEF GiveUp
    <2> QED
        BY <1>0, <1>1, <2>1, TaskTo, RunSame
<1>18. CASE NextTask
    <2>1. /\ task' = [NoTask EXCEPT !.enabled = task.enabled]
          /\ UNCHANGED <<planner, draft, call, acts, bounds>>
        BY <1>18 DEF NextTask
    <2>2. task.enabled \in BOOLEAN
        BY <1>0 DEF Tasks
    <2>3. task' \in Tasks /\ task'.at = "none" /\ task'.enabled = task.enabled
        BY <2>1, <2>2, FreshTask
    <2> QED
        BY <1>0, <1>1, <2>1, <2>3, RunSame
<1> HIDE DEF Goal
<1>19. Goal
    BY <1>2, <1>3, <1>4, <1>5, <1>6, <1>7, <1>8, <1>9, <1>10, <1>13, <1>14, <1>15, <1>16,
       <1>17, <1>18 DEF Next, Goal
<1> QED
    BY <1>19 DEF Goal

LEMMA NoFallbackInit == Init => NoFallback
<1> SUFFICES ASSUME Init PROVE NoFallback
    OBVIOUS
<1>1. FilesTyped
    <2>1. overlapped \in BOOLEAN
        BY DEF Init
    <2> QED
        BY <2>1, Constants DEF Init, FilesTyped
<1>2. task \in Tasks /\ call \in Calls /\ OkIsValid
    BY Constants, NoCallTyped DEF Init, OkIsValid, NoCall
<1>3. RunTyped
    BY <1>2 DEF Init, RunTyped
<1>4. PlannerFits /\ NoSilentFallback
    BY DEF Init, PlannerFits, NoSilentFallback, NoTask
<1> QED
    BY <1>1, <1>2, <1>3, <1>4 DEF NoFallback, Typed

LEMMA NoFallbackInductive == Spec => []NoFallback
<1>1. NoFallback /\ [Next]_vars => NoFallback'
    <2> SUFFICES ASSUME NoFallback, [Next]_vars PROVE NoFallback'
        OBVIOUS
    <2>1. CASE Next
        BY <2>1, FilesNext, RunNext DEF NoFallback, Typed
    <2>2. CASE UNCHANGED vars
        BY <2>2 DEF vars, files, NoFallback, Typed, FilesTyped, RunTyped, PlannerFits, OkIsValid,
                    NoSilentFallback
    <2> QED
        BY <2>1, <2>2
<1> QED
    BY NoFallbackInit, <1>1, PTL DEF Spec

-----------------------------------------------------------------------------
(* The theorems.                                                            *)

(* Files, saves, the planner, the task and the conversation are of their       *)
(* types, whatever answers and crashes come.                                   *)
THEOREM TypeCorrect == Spec => []TypeOK
<1>1. NoFallback => TypeOK
    BY DEF NoFallback, Typed, FilesTyped, RunTyped, TypeOK, Texts, Saving, Tasks, Calls
<1> QED
    BY NoFallbackInductive, <1>1, PTL

(* A Runtime whose settings enable a model never acts on a decision of the     *)
(* rules, nor one without a model on a model's; a model's decision comes from a *)
(* valid answer (agent/planner.py, build_default_runtime).                      *)
THEOREM NeverFallsBack == Spec => []NoSilentFallback
<1>1. NoFallback => NoSilentFallback
    BY DEF NoFallback
<1> QED
    BY NoFallbackInductive, <1>1, PTL

-----------------------------------------------------------------------------
(* The file of the settings, while no two saves overlap.                    *)

\* The thread at work goes on; the others are idle and stay so.
LEMMA SaverMoves ==
    ASSUME FilesTyped, OneAtWork, NEW s \in Savers, AtWork(s),
           NEW at \in {"written", "private", "replaced"},
           saver' = [saver EXCEPT ![s] = [saver[s] EXCEPT !.at = at]]
    PROVE  /\ saver'[s].at = at /\ saver'[s].inode = saver[s].inode
           /\ saver'[s].new = saver[s].new
           /\ \A t \in Savers : t # s => saver'[t] = saver[t] /\ ~AtWork(t)
           /\ OneAtWork'
<1>1. saver[s] \in Saving /\ saver \in [Savers -> Saving]
    BY DEF FilesTyped
<1> DEFINE new == [saver[s] EXCEPT !.at = at]
<1>2. new.at = at /\ new.inode = saver[s].inode /\ new.new = saver[s].new
    BY <1>1, SaverAt
<1>3. saver' = [saver EXCEPT ![s] = new]
    OBVIOUS
<1> HIDE DEF new
<1>4. saver'[s] = new /\ \A t \in Savers : t # s => saver'[t] = saver[t]
    BY <1>1, <1>3
<1>5. \A t \in Savers : t # s => ~AtWork(t)
    BY DEF OneAtWork
<1>6. OneAtWork'
    BY <1>4, <1>5 DEF OneAtWork, AtWork
<1> QED
    BY <1>2, <1>4, <1>5, <1>6

\* The inode that an open for writing gives is not that of the file in place.
LEMMA OpensApart ==
    ASSUME Typed, Alone, \A t \in Savers : ~AtWork(t), bounds.saves < MaxSaves
    PROVE  Opened # names["config"]
<1>0. FilesTyped /\ bounds.saves \in Nat
    BY DEF Typed, RunTyped
<1>1. CASE names["tmp"] # NoFile
    BY <1>1 DEF Alone, ConfigApart, Opened
<1>2. CASE names["tmp"] = NoFile
    <2>0. \A t \in Savers : saver[t].inode = NoFile
        BY DEF Alone, SaverOwnsTmp, AtWork
    <2>1. Used \subseteq {names["config"], NoFile}
        BY <1>2, <2>0 DEF Used
    <2>2. \E i \in Inodes : i \notin Used
        <3>1. CASE names["config"] = NoFile
            <4>1. 1 \in Inodes /\ 1 # NoFile
                BY <1>0, BoundsAssumption DEF Inodes, NoFile
            <4> QED
                BY <2>1, <3>1, <4>1
        <3>2. CASE names["config"] # NoFile
            <4>1. 1 \in Inodes /\ 2 \in Inodes /\ 1 # NoFile /\ 2 # NoFile
                BY <1>0, <3>2, BoundsAssumption DEF Inodes, NoFile, Alone, ConfigApart
            <4> QED
                BY <2>1, <4>1
        <3> QED
            BY <3>1, <3>2
    <2>3. Fresh \notin Used /\ names["config"] \in Used
        BY <2>2 DEF Fresh, Used
    <2> QED
        BY <1>2, <2>3 DEF Opened
<1> QED
    BY <1>1, <1>2

LEMMA SavedNext ==
    ASSUME Typed, Saved, Next, ~overlapped' PROVE Alone'
<1>0. ~overlapped
    BY DEF Next, BeginSave, WriteSettings, ChangeMode, Replace, AnswerSave, Start, Crash,
       ProviderAnswers, CompileByRule, CompileByModel, Compiled, SubmitAgentTask, Cancel,
       StopsBeforeRound, DecideByRule, DecideUnavailable, DecideByModel, TakeDecision, GiveUp,
       JoinThread, NextTask, files
<1>a. /\ FilesTyped /\ Alone /\ OneAtWork /\ SaverOwnsTmp /\ ConfigApart /\ LastSaved
      /\ names \in [{"config", "tmp"} -> Inodes \cup {NoFile}]
      /\ content \in [Inodes -> Texts] /\ saver \in [Savers -> Saving]
      /\ bounds \in [saves : Nat, starts : Nat, calls : Nat]
    BY <1>0 DEF Saved, Alone, Typed, FilesTyped, RunTyped
<1>1. ASSUME NEW s \in Savers, BeginSave(s) PROVE Alone'
    <2>1. PICK new \in Settings, inode \in Inodes :
            /\ saver[s].at = "idle" /\ bounds.saves < MaxSaves /\ inode = Opened
            /\ names' = [names EXCEPT !["tmp"] = inode]
            /\ content' = [content EXCEPT ![inode] = Empty]
            /\ saver' = [saver EXCEPT ![s] = [at |-> "opened", inode |-> inode, new |-> new]]
            /\ bounds' = [bounds EXCEPT !.saves = bounds.saves + 1]
            /\ UNCHANGED applied
        BY <1>1 DEF BeginSave
    <2>a. \A t \in Savers : ~AtWork(t)
        BY <1>1 DEF BeginSave, AtWork
    <2>2. inode # names["config"] /\ inode # NoFile
        BY <1>a, <2>1, <2>a, OpensApart, Constants
    <2>3. names'["config"] = names["config"] /\ names'["tmp"] = inode
        BY <1>a, <2>1
    <2>4. bounds'.saves = bounds.saves + 1 /\ bounds.saves \in Nat
        BY <1>a, <2>1
    <2>5. /\ saver'[s] = [at |-> "opened", inode |-> inode, new |-> new]
          /\ \A t \in Savers : t # s => saver'[t] = saver[t]
        BY <1>a, <2>1
    <2>6. content'[inode] = Empty /\ \A i \in Inodes : i # inode => content'[i] = content[i]
        BY <1>a, <2>1
    <2>b. \A t \in Savers : t # s => saver'[t].at = "idle" /\ saver'[t].inode = NoFile
        BY <1>a, <2>5, <2>a DEF AtWork, SaverOwnsTmp
    <2>7. SaverOwnsTmp' /\ OneAtWork'
        BY <2>2, <2>3, <2>5, <2>6, <2>b DEF SaverOwnsTmp, OneAtWork, AtWork
    <2>8. ConfigApart'
        BY <1>a, <2>2, <2>3, <2>4 DEF ConfigApart
    <2>9. LastSaved'
        BY <1>a, <2>1, <2>2, <2>3, <2>6 DEF LastSaved
    <2> QED
        BY <2>7, <2>8, <2>9 DEF Alone
<1>2. ASSUME NEW s \in Savers, WriteSettings(s) PROVE Alone'
    <2> DEFINE i == saver[s].inode
    <2>1. /\ saver[s].at = "opened" /\ saver[s] \in Saving /\ i = names["tmp"] /\ i # NoFile
          /\ i \in Inodes /\ content[i] = Empty
        BY <1>a, <1>2 DEF WriteSettings, SaverOwnsTmp, Saving
    <2>2. content' = [content EXCEPT ![i] = Text(saver[s].new)]
        BY <1>2, <2>1 DEF WriteSettings, Written
    <2>3. saver' = [saver EXCEPT ![s] = [saver[s] EXCEPT !.at = "written"]]
          /\ UNCHANGED <<names, applied, bounds>>
        BY <1>2 DEF WriteSettings
    <2>4. /\ saver'[s].at = "written" /\ saver'[s].inode = i /\ saver'[s].new = saver[s].new
          /\ \A t \in Savers : t # s => saver'[t] = saver[t] /\ ~AtWork(t)
          /\ OneAtWork'
        BY <1>a, <2>1, <2>3, SaverMoves DEF AtWork
    <2>5. content'[i] = Text(saver[s].new) /\ \A j \in Inodes : j # i => content'[j] = content[j]
        BY <1>a, <2>1, <2>2
    <2>6. i # names["config"]
        BY <1>a, <2>1 DEF ConfigApart
    <2> HIDE DEF i
    <2>7. SaverOwnsTmp'
        <3>1. \A t \in Savers : t # s => saver'[t].at = "idle" /\ saver'[t].inode = NoFile
            BY <1>a, <2>4 DEF AtWork, SaverOwnsTmp
        <3> QED
            BY <2>1, <2>3, <2>4, <2>5, <3>1 DEF SaverOwnsTmp
    <2>8. ConfigApart' /\ LastSaved'
        BY <1>a, <2>3, <2>5, <2>6 DEF ConfigApart, LastSaved
    <2> QED
        BY <2>4, <2>7, <2>8 DEF Alone
<1>3. ASSUME NEW s \in Savers, ChangeMode(s) PROVE Alone'
    <2>1. saver[s].at = "written" /\ saver[s] \in Saving /\ UNCHANGED <<names, content, applied, bounds>>
        BY <1>a, <1>3 DEF ChangeMode
    <2>2. names["tmp"] # NoFile
        BY <1>a, <2>1 DEF SaverOwnsTmp
    <2>3. saver' = [saver EXCEPT ![s] = [saver[s] EXCEPT !.at = "private"]]
        BY <1>3, <2>2 DEF ChangeMode
    <2>4. /\ saver'[s].at = "private" /\ saver'[s].inode = saver[s].inode
          /\ saver'[s].new = saver[s].new
          /\ \A t \in Savers : t # s => saver'[t] = saver[t]
          /\ OneAtWork'
        BY <1>a, <2>1, <2>3, SaverMoves DEF AtWork
    <2>5. SaverOwnsTmp'
        BY <1>a, <2>1, <2>4 DEF SaverOwnsTmp
    <2> QED
        BY <1>a, <2>1, <2>4, <2>5 DEF Alone, ConfigApart, LastSaved
<1>4. ASSUME NEW s \in Savers, Replace(s) PROVE Alone'
    <2>1. saver[s].at = "private" /\ saver[s] \in Saving /\ UNCHANGED <<content, bounds>>
        BY <1>a, <1>4 DEF Replace
    <2>2. names["tmp"] # NoFile /\ content[names["tmp"]] = Text(saver[s].new)
        BY <1>a, <2>1 DEF SaverOwnsTmp
    <2>3. /\ saver' = [saver EXCEPT ![s] = [saver[s] EXCEPT !.at = "replaced"]]
          /\ names' = Renamed /\ applied' = saver[s].new
        BY <1>4, <2>2 DEF Replace
    <2>4. /\ saver'[s].at = "replaced"
          /\ \A t \in Savers : t # s => saver'[t] = saver[t] /\ ~AtWork(t)
          /\ OneAtWork'
        BY <1>a, <2>1, <2>3, SaverMoves DEF AtWork
    <2>5. names'["config"] = names["tmp"] /\ names'["tmp"] = NoFile
        BY <2>3 DEF Renamed
    <2>6. SaverOwnsTmp'
        <3>1. \A t \in Savers : t # s => saver'[t].at = "idle" /\ saver'[t].inode = NoFile
            BY <1>a, <2>4 DEF AtWork, SaverOwnsTmp
        <3> QED
            BY <2>4, <3>1 DEF SaverOwnsTmp
    <2>7. ConfigApart' /\ LastSaved'
        BY <1>a, <2>1, <2>2, <2>3, <2>5 DEF ConfigApart, LastSaved
    <2> QED
        BY <2>4, <2>6, <2>7 DEF Alone
<1>5. ASSUME NEW t \in Savers, AnswerSave(t) PROVE Alone'
    <2>1. /\ UNCHANGED <<names, content, applied, bounds>>
          /\ \A s \in Savers : saver'[s] = saver[s] \/ saver'[s] = Idle
        BY <1>a, <1>5 DEF AnswerSave
    <2>2. SaverOwnsTmp'
        BY <1>a, <2>1 DEF SaverOwnsTmp, Idle
    <2>3. OneAtWork'
        BY <1>a, <2>1 DEF OneAtWork, AtWork, Idle
    <2> QED
        BY <1>a, <2>1, <2>2, <2>3 DEF Alone, ConfigApart, LastSaved
<1>6. CASE Crash
    <2>1. /\ UNCHANGED <<names, content, applied, bounds>> /\ \A t \in Savers : saver'[t] = Idle
        BY <1>6 DEF Crash
    <2>2. SaverOwnsTmp' /\ OneAtWork'
        BY <2>1 DEF SaverOwnsTmp, OneAtWork, AtWork, Idle
    <2> QED
        BY <1>a, <2>1, <2>2 DEF Alone, ConfigApart, LastSaved
<1>7. ASSUME UNCHANGED files, bounds'.saves = bounds.saves PROVE Alone'
    BY <1>a, <1>7 DEF files, Alone, OneAtWork, AtWork, SaverOwnsTmp, ConfigApart, LastSaved
<1>8. CASE Start
    <2>1. bounds'.saves = bounds.saves
        BY <1>a, <1>8 DEF Start
    <2> QED
        BY <1>7, <1>8, <2>1 DEF Start
<1>9. CASE CompileByModel \/ DecideByModel
    <2>1. bounds'.saves = bounds.saves /\ UNCHANGED files
        BY <1>a, <1>9 DEF CompileByModel, DecideByModel, BeginCall
    <2> QED
        BY <1>7, <2>1
<1>10. CASE UNCHANGED <<files, bounds>>
    BY <1>7, <1>10
<1> HIDE DEF Alone
<1> QED
    BY <1>1, <1>2, <1>3, <1>4, <1>5, <1>6, <1>8, <1>9, <1>10 DEF Next, ProviderAnswers,
       CompileByRule, Compiled, SubmitAgentTask, Cancel, StopsBeforeRound, DecideByRule,
       DecideUnavailable, TakeDecision, GiveUp, JoinThread, NextTask

(* A crash at any step of a save leaves in place, whole, the text that was     *)
(* last put there, for any number of threads that save, until two saves have   *)
(* overlapped (save_model_provider_settings).                                  *)
THEOREM SavesAreAtomic == Spec => []ConfigIsLastSaved
<1>1. NoFallback /\ Saved /\ [Next]_vars => Saved'
    <2> SUFFICES ASSUME NoFallback, Saved, [Next]_vars, ~overlapped' PROVE Alone'
        BY DEF Saved
    <2>1. CASE Next
        BY <2>1, SavedNext DEF NoFallback
    <2>2. CASE UNCHANGED vars
        BY <2>2 DEF vars, files, Saved, Alone, OneAtWork, AtWork, SaverOwnsTmp, ConfigApart,
           LastSaved
    <2> QED
        BY <2>1, <2>2
<1>2. Init => Saved
    BY DEF Init, Saved, Alone, OneAtWork, AtWork, SaverOwnsTmp, ConfigApart, LastSaved, Idle
<1>3. Saved => ConfigIsLastSaved
    BY DEF Saved, Alone, ConfigIsLastSaved
<1> QED
    BY NoFallbackInductive, <1>1, <1>2, <1>3, PTL DEF Spec

-----------------------------------------------------------------------------
(* Requests that are repeated.                                              *)

LEMMA LogGrows ==
    ASSUME call \in Calls, call.at = "sent", AskedFor, RepeatedOnlyToHelp,
           NEW rec \in Heards, rec.body = call.repair, call'.log = Append(call.log, rec)
    PROVE  RepeatedOnlyToHelp'
<1> DEFINE log == call.log
           n == Len(log)
<1>1. log \in Seq(Heards) /\ n \in Nat /\ call.repair \in {0, 1}
    BY DEF Calls
<1>2. call'.log = Append(log, rec)
    OBVIOUS
<1>3. /\ Len(call'.log) = n + 1
      /\ \A j \in 1 .. n : call'.log[j] = log[j]
      /\ call'.log[n + 1] = rec
    BY <1>1, <1>2
<1>4. ASSUME NEW i \in 1 .. Len(call'.log) - 1
      PROVE  LET one == call'.log[i] next == call'.log[i + 1]
             IN  \/ /\ one.answer \in Retryable /\ next.body = one.body
                    /\ i > 1 => call'.log[i - 1].answer = "invalid"
                 \/ one.answer = "invalid" /\ one.body = 0 /\ next.body = 1
    <2>0. i \in 1 .. n
        BY <1>1, <1>3
    <2>1. CASE i < n
        <3>1. i \in 1 .. n - 1 /\ i + 1 \in 1 .. n /\ (i > 1 => i - 1 \in 1 .. n)
            BY <1>1, <2>0, <2>1
        <3>2. /\ call'.log[i] = log[i] /\ call'.log[i + 1] = log[i + 1]
              /\ i > 1 => call'.log[i - 1] = log[i - 1]
            BY <1>3, <3>1
        <3>3. \/ /\ log[i].answer \in Retryable /\ log[i + 1].body = log[i].body
                 /\ i > 1 => log[i - 1].answer = "invalid"
              \/ log[i].answer = "invalid" /\ log[i].body = 0 /\ log[i + 1].body = 1
            BY <3>1 DEF RepeatedOnlyToHelp
        <3> QED
            BY <3>2, <3>3
    <2>2. CASE i = n
        <3>1. /\ call'.log[i] = log[n] /\ call'.log[i + 1] = rec
              /\ i > 1 => call'.log[i - 1] = log[n - 1]
            BY <1>1, <1>3, <2>0, <2>2
        <3>2. n > 0
            BY <2>0, <2>2
        <3>3. \/ /\ log[n].answer \in Retryable /\ log[n].body = call.repair
                 /\ n > 1 => log[n - 1].answer = "invalid"
              \/ /\ call.repair = 1 /\ log[n].answer = "invalid" /\ log[n].body = 0
            BY <3>2 DEF AskedFor
        <3> QED
            BY <2>2, <3>1, <3>3
    <2> QED
        BY <1>1, <2>0, <2>1, <2>2
<1> QED
    BY <1>4 DEF RepeatedOnlyToHelp

LEMMA AskedEmpty ==
    ASSUME call'.log = <<>>, call'.repair = 0, call'.retry = 0
    PROVE  AskedFor' /\ RepeatedOnlyToHelp'
<1>1. Len(call'.log) = 0
    OBVIOUS
<1> QED
    BY <1>1 DEF AskedFor, RepeatedOnlyToHelp

LEMMA AskedAnswer ==
    ASSUME Typed, AskedFor, RepeatedOnlyToHelp, ProviderAnswers
    PROVE  AskedFor' /\ RepeatedOnlyToHelp'
<1> DEFINE log == call.log
           n == Len(log)
<1>0. RunTyped /\ call \in Calls /\ call.at = "sent" /\ log \in Seq(Heards) /\ n \in Nat
    BY DEF Typed, RunTyped, ProviderAnswers, Calls
<1>1. ASSUME NEW c \in Calls, NEW answer \in Answers, call' = Heard(c, answer), c.log = call.log
      PROVE  /\ RepeatedOnlyToHelp' /\ call'.at = c.at /\ call'.retry = c.retry
             /\ call'.repair = c.repair /\ Len(call'.log) = n + 1
             /\ call'.log[n + 1].answer = answer /\ call'.log[n + 1].body = call.repair
             /\ n > 0 => call'.log[n] = log[n]
    <2> DEFINE gaveUp == task.at = "gave_up"
               rec == [body |-> call.repair, answer |-> answer, gaveUp |-> gaveUp]
    <2>1. /\ call'.log = Append(call.log, rec) /\ call'.at = c.at /\ call'.retry = c.retry
          /\ call'.repair = c.repair
        BY <1>0, <1>1, HeardTyped
    <2>2. gaveUp \in BOOLEAN /\ call.repair \in {0, 1}
        BY <1>0 DEF Calls
    <2> HIDE DEF gaveUp
    <2>3. rec \in Heards /\ rec.body = call.repair /\ rec.answer = answer
        BY <2>2 DEF Heards
    <2> HIDE DEF rec
    <2>4. RepeatedOnlyToHelp'
        BY <1>0, <2>1, <2>3, LogGrows
    <2>5. /\ Len(call'.log) = n + 1 /\ call'.log[n + 1] = rec
          /\ n > 0 => call'.log[n] = log[n]
        BY <1>0, <2>1, <2>3
    <2> QED
        BY <2>1, <2>3, <2>4, <2>5
<1>2. ASSUME NEW result \in Results, NEW answer \in Answers, call' = Heard(Ended(result), answer)
      PROVE  AskedFor' /\ RepeatedOnlyToHelp'
    <2>1. /\ Ended(result) \in Calls /\ Ended(result).at = "done"
          /\ Ended(result).log = call.log
        BY <1>0, EndedTyped
    <2>2. RepeatedOnlyToHelp' /\ call'.at = "done"
        BY <1>1, <1>2, <2>1
    <2> QED
        BY <2>2 DEF AskedFor
<1>3. CASE \E failure \in Answers \ {"valid", "invalid"} : Fails(failure)
    <2>1. PICK failure \in Answers \ {"valid", "invalid"} : Fails(failure)
        BY <1>3
    <2>2. CASE /\ failure \in Retryable /\ call.retry = 0
               /\ call' = Heard([call EXCEPT !.retry = 1], failure)
        <3> DEFINE c == [call EXCEPT !.retry = 1]
        <3>1. c \in Calls /\ c.log = call.log /\ c.retry = 1 /\ c.repair = call.repair
            BY <1>0, AgainTyped
        <3> HIDE DEF c
        <3>2. call' = Heard(c, failure)
            BY <2>2 DEF c
        <3>3. /\ RepeatedOnlyToHelp' /\ call'.retry = 1 /\ call'.repair = call.repair
              /\ Len(call'.log) = n + 1 /\ call'.log[n + 1].answer = failure
              /\ call'.log[n + 1].body = call.repair
              /\ n > 0 => call'.log[n] = log[n]
            BY <1>1, <3>1, <3>2
        <3>4. n > 0 => log[n].answer = "invalid"
            BY <1>0, <2>2 DEF AskedFor
        <3>5. n + 1 > 0 /\ (n + 1 > 1 => call'.log[(n + 1) - 1].answer = "invalid")
            BY <1>0, <3>3, <3>4
        <3> QED
            BY <2>2, <3>3, <3>5 DEF AskedFor
    <2>3. CASE \E result \in Results \ {"ok"} : call' = Heard(Ended(result), failure)
        BY <1>2, <2>3
    <2> QED
        BY <1>0, <2>1, <2>2, <2>3, FailsTo
<1>4. CASE \E answer \in {"valid", "invalid"} : Responds(answer)
    <2>1. PICK answer \in {"valid", "invalid"} : Responds(answer)
        BY <1>4
    <2>2. answer \in Answers
        BY DEF Answers
    <2>3. CASE /\ answer = "invalid" /\ call.repair = 0
               /\ call' = Heard([call EXCEPT !.repair = 1, !.retry = 0], answer)
        <3> DEFINE c == [call EXCEPT !.repair = 1, !.retry = 0]
        <3>1. c \in Calls /\ c.log = call.log /\ c.retry = 0 /\ c.repair = 1
            BY <1>0, AgainTyped
        <3> HIDE DEF c
        <3>2. call' = Heard(c, answer)
            BY <2>3 DEF c
        <3>3. /\ RepeatedOnlyToHelp' /\ call'.retry = 0 /\ call'.repair = 1
              /\ Len(call'.log) = n + 1 /\ call'.log[n + 1].answer = answer
              /\ call'.log[n + 1].body = call.repair
            BY <1>1, <2>2, <3>1, <3>2
        <3>4. n + 1 > 0
            BY <1>0
        <3> QED
            BY <2>3, <3>3, <3>4 DEF AskedFor
    <2>4. CASE \E result \in Results : /\ result = "ok" => answer = "valid"
                                       /\ call' = Heard(Ended(result), answer)
        BY <1>2, <2>2, <2>4
    <2> QED
        BY <1>0, <2>1, <2>3, <2>4, RespondsTo
<1> QED
    BY <1>0, <1>3, <1>4, AnswerCases

LEMMA AskedNext ==
    ASSUME Typed, AskedFor, RepeatedOnlyToHelp, Next PROVE AskedFor' /\ RepeatedOnlyToHelp'
<1>1. CASE UNCHANGED call
    BY <1>1 DEF AskedFor, RepeatedOnlyToHelp
<1>2. CASE call' = NoCall
    BY <1>2, AskedEmpty DEF NoCall
<1>3. ASSUME NEW kind \in {"decide", "compile"}, BeginCall(kind)
      PROVE  AskedFor' /\ RepeatedOnlyToHelp'
    <2>1. call' = [NoCall EXCEPT !.at = "sent", !.kind = kind]
        BY <1>3 DEF BeginCall
    <2>2. call'.log = <<>> /\ call'.repair = 0 /\ call'.retry = 0
        BY <2>1, BeginTyped
    <2> QED
        BY <2>2, AskedEmpty
<1> QED
    BY <1>1, <1>2, <1>3, AskedAnswer DEF Next, BeginSave, WriteSettings, ChangeMode, Replace,
       AnswerSave, Start, Crash, CompileByRule, CompileByModel, Compiled, SubmitAgentTask, Cancel,
       StopsBeforeRound, DecideByRule, DecideUnavailable, DecideByModel, TakeDecision, GiveUp,
       JoinThread, NextTask

(* The provider is asked again only after a failure that may pass, once a      *)
(* body, or with a correction, once a decision (_post_with_retry, decide).     *)
THEOREM AskedAgainOnlyToHelp == Spec => []RepeatedOnlyToHelp
<1> DEFINE Asking == AskedFor /\ RepeatedOnlyToHelp
<1>1. Init => Asking
    <2> SUFFICES ASSUME Init PROVE Asking
        OBVIOUS
    <2>1. call.at = "none" /\ Len(call.log) = 0
        BY DEF Init, NoCall
    <2> QED
        BY <2>1 DEF AskedFor, RepeatedOnlyToHelp
<1>2. NoFallback /\ Asking /\ [Next]_vars => Asking'
    <2> SUFFICES ASSUME NoFallback, Asking, [Next]_vars PROVE Asking'
        OBVIOUS
    <2>1. CASE Next
        BY <2>1, AskedNext DEF NoFallback
    <2>2. CASE UNCHANGED vars
        BY <2>2 DEF vars, AskedFor, RepeatedOnlyToHelp
    <2> QED
        BY <2>1, <2>2
<1>3. Asking => RepeatedOnlyToHelp
    OBVIOUS
<1> HIDE DEF Asking
<1> QED
    BY NoFallbackInductive, <1>1, <1>2, <1>3, PTL DEF Spec
=============================================================================
