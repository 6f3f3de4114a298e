------------------------------ MODULE McpAdapter ------------------------------
(***************************************************************************)
(* The MCP adapter (mcp/server.py, mcp/api_client.py, mcp/tools.py) between *)
(* an MCP host and the Runtime's HTTP interface (api/server.py).            *)
(*                                                                          *)
(* The host writes lines to the adapter's stdin and may write the next one  *)
(* before the last is answered.  The adapter is one thread: it reads a      *)
(* line, answers it, and reads the next; a tool call is one HTTP request    *)
(* to the Runtime that the adapter gives up after 30 s.  The Runtime serves *)
(* every request on a thread of its own, which does not notice that the     *)
(* adapter stopped waiting: it runs on and its answer is lost.  The Runtime *)
(* may die and be started again, with the same token or with another.       *)
(*                                                                          *)
(* A tool call is a query, a submission of a task under a stable key, a     *)
(* Skill the handler's own thread runs on the device, or a cancellation.    *)
(* The approval tools (prepare, then install, uninstall, clear or clean up) *)
(* are in Approvals; what a task or a Skill does on the device is in        *)
(* TaskExecutor, AgentLoop and UnicodeInput.  There is one device.          *)
(***************************************************************************)
EXTENDS Integers, FiniteSets, Sequences

CONSTANTS
    Requests,     \* the calls the host makes: one tool with one set of arguments each
    ToolOf,       \* the tool a request calls
    Script,       \* the messages the host may write
    MaxMessages,  \* bound: lines the host writes
    MaxPipe,      \* bound: lines written and not yet read
    Maximum,      \* _ToolRateLimiter.maximum
    Window,       \* _ToolRateLimiter.window_seconds
    MaxTime,      \* bound: readings of the clock
    MaxRestarts,  \* bound: deaths of the Runtime
    NoRequest

\* GET routes, which need no token, and the comparison, which does.
Reads == {"mobile_runtime_readiness", "mobile_list_devices", "mobile_get_local_storage",
          "mobile_inspect_device", "mobile_list_apps", "mobile_inspect_app",
          "mobile_inspect_app_state", "mobile_list_tasks", "mobile_get_task_execution",
          "mobile_get_task_report"}
Comparisons == {"mobile_compare_device_performance"}
Submissions == {"mobile_launch_app", "mobile_stop_app", "mobile_run_agent",
                "mobile_collect_device_logs", "mobile_capture_device_performance",
                "mobile_collect_diagnostic_bundle"}
Skills == {"mobile_navigate_to_system_page", "mobile_read_device_notifications",
           "mobile_input_unicode_text"}
Cancellations == {"mobile_cancel_task"}
Tools == Reads \cup Comparisons \cup Submissions \cup Skills \cup Cancellations

ASSUME RequestAssumption == ToolOf \in [Requests -> Tools]
ASSUME BoundAssumption ==
    /\ {MaxMessages, MaxPipe, MaxTime, MaxRestarts} \subseteq Nat
    /\ {Maximum, Window} \subseteq Nat \ {0}

\* A line: valid is what its tool's input schema, the confirmation included,
\* says of the arguments of a call, and _initialize of the parameters of an
\* initialize; a notification is a line without an id.
Lines == [kind : {"initialize", "initialized", "ping", "list", "call"},
          request : Requests \cup {NoRequest}, valid : BOOLEAN, notification : BOOLEAN]

ASSUME ScriptAssumption ==
    /\ Script \subseteq Lines
    /\ \A m \in Script : (m.kind = "call") = (m.request # NoRequest)

VARIABLES
    sent,         \* the lines the host has written, in order; a line's id is its place
    stdin,        \* the ids of those not yet read
    initialized, ready,
    calls,        \* _ToolRateLimiter._calls
    now,
    serving,      \* the call whose HTTP request the adapter waits on, 0 for none
    answers,      \* the lines written to stdout
    up, token,    \* the Runtime's process, and whether its token is the adapter's
    http,         \* the requests the Runtime holds: how far the handler of each is
    tasks,        \* the executor's table: the request and the status of every task
    lease,        \* whether a task or a Skill holds the device
    admitted,     \* history: [id, at] of every call the rate limiter let through
    limited,      \* history: [at, after] of every call it refused
    performed,    \* history: the calls whose Skill changed the device
    restarts

host == <<sent>>
server == <<initialized, ready, calls, admitted, limited>>
runtime == <<up, token, tasks, lease, performed, restarts>>
mcpVars == <<sent, stdin, initialized, ready, calls, now, serving, answers, up, token, http,
             tasks, lease, admitted, limited, performed, restarts>>

Live == {"queued", "running", "cancelling"}
Done == {"succeeded", "failed", "cancelled"}
Empty == [i \in {} |-> ""]

Tool(i) == ToolOf[sent[i].request]
Answer(i, outcome, task) == [id |-> i, kind |-> sent[i].kind, outcome |-> outcome, task |-> task]

McpInit ==
    /\ sent = <<>> /\ stdin = <<>>
    /\ initialized = FALSE /\ ready = FALSE
    /\ calls = <<>> /\ now = 0
    /\ serving = 0 /\ answers = <<>>
    /\ up = TRUE /\ token = TRUE
    /\ http = Empty /\ tasks = <<>> /\ lease = FALSE
    /\ admitted = <<>> /\ limited = {} /\ performed = {}
    /\ restarts = 0

---------------------------------------------------------------------------
(* The host, and the clock. *)

HostWrites ==
    \E m \in Script :
        /\ Len(sent) < MaxMessages
        /\ Len(stdin) < MaxPipe
        /\ sent' = Append(sent, m)
        /\ stdin' = Append(stdin, Len(sent) + 1)
        /\ UNCHANGED <<server, runtime, now, serving, answers, http>>

TimePasses ==
    /\ now < MaxTime
    /\ now' = now + 1
    /\ UNCHANGED <<host, server, runtime, stdin, serving, answers, http>>

---------------------------------------------------------------------------
(* The adapter: McpServer.handle, one line at a time. *)

\* run_stdio reads the next line only when the last one is answered.
Reading(kinds) ==
    /\ serving = 0
    /\ stdin # <<>>
    /\ sent[Head(stdin)].kind \in kinds
    /\ stdin' = Tail(stdin)

\* A response, unless the line is a notification.
RespondedAlways(i, outcome) == answers' = Append(answers, Answer(i, outcome, 0))

Responded(i, outcome) ==
    answers' = IF sent[i].notification THEN answers
               ELSE Append(answers, Answer(i, outcome, 0))

Initialize ==
    LET i == Head(stdin) IN
    /\ Reading({"initialize"})
    /\ initialized' = (initialized \/ (sent[i].valid /\ ~sent[i].notification))
    /\ Responded(i, IF initialized \/ ~sent[i].valid THEN "protocol_error" ELSE "ok")
    /\ UNCHANGED <<host, runtime, ready, calls, admitted, limited, now, serving, http>>

BecomeReady == ready' = (ready \/ initialized)

\* With or without an id this line is never answered.
Initialized ==
    /\ Reading({"initialized"})
    /\ BecomeReady
    /\ UNCHANGED <<host, runtime, initialized, calls, admitted, limited, now, serving,
                   answers, http>>

Ping ==
    /\ Reading({"ping"})
    /\ Responded(Head(stdin), "ok")
    /\ UNCHANGED <<host, server, runtime, now, serving, http>>

NotReady ==
    /\ ~ready
    /\ Reading({"list", "call"})
    /\ Responded(Head(stdin), "protocol_error")
    /\ UNCHANGED <<host, server, runtime, now, serving, http>>

ListTools ==
    /\ ready
    /\ Reading({"list"})
    /\ Responded(Head(stdin), "ok")
    /\ UNCHANGED <<host, server, runtime, now, serving, http>>

\* A tools/call without an id, or whose arguments its schema refuses, reaches
\* neither the rate limiter nor the Runtime.
InvalidCall ==
    LET i == Head(stdin) IN
    /\ ready
    /\ Reading({"call"})
    /\ sent[i].notification \/ ~sent[i].valid
    /\ Responded(i, "rejected")
    /\ UNCHANGED <<host, server, runtime, now, serving, http>>

\* _ToolRateLimiter.allow: calls are dropped from the front while the first one
\* left is Window old.
KeptTooLong ==
    LET dropped == {n \in DOMAIN calls : \A k \in 1 .. n : now - calls[k] > Window}
    IN SubSeq(calls, Cardinality(dropped) + 1, Len(calls))  \* mutant

Kept ==
    LET dropped == {n \in DOMAIN calls : \A k \in 1 .. n : now - calls[k] >= Window}
    IN SubSeq(calls, Cardinality(dropped) + 1, Len(calls))

ValidCall ==
    LET i == Head(stdin) IN
    /\ ready
    /\ Reading({"call"})
    /\ sent[i].valid /\ ~sent[i].notification

RateLimited ==
    LET i == Head(stdin) IN
    /\ ValidCall
    /\ Len(Kept) >= Maximum
    /\ calls' = Kept
    /\ limited' = limited \cup {[at |-> now, after |-> Len(admitted)]}
    /\ Responded(i, "rate_limited")
    /\ UNCHANGED <<host, runtime, initialized, ready, admitted, now, serving, http>>

\* RuntimeApiClient._request: the connection is refused when the Runtime is down.
CallTool ==
    LET i == Head(stdin) IN
    /\ ValidCall
    /\ Len(Kept) < Maximum
    /\ calls' = Append(Kept, now)
    /\ admitted' = Append(admitted, [id |-> i, at |-> now])
    /\ \/ /\ up
          /\ serving' = i
          /\ http' = [j \in DOMAIN http \cup {i} |-> IF j = i THEN "arrived" ELSE http[j]]
          /\ UNCHANGED answers
       \/ /\ ~up
          /\ Responded(i, "unavailable")
          /\ UNCHANGED <<serving, http>>
    /\ UNCHANGED <<host, runtime, initialized, ready, limited, now>>

\* The 30 s of the transport pass.  The handler in the Runtime is not told.
TimesOut ==
    /\ serving # 0
    /\ answers' = Append(answers, Answer(serving, "unavailable", 0))
    /\ serving' = 0
    /\ UNCHANGED <<host, server, runtime, stdin, now, http>>

---------------------------------------------------------------------------
(* The Runtime's handler threads: do_GET, do_POST and the *_sync wrappers. *)

\* The response of request i, which reaches the adapter only if it still waits.
Replies(i, outcome, task) ==
    /\ http' = [j \in DOMAIN http \ {i} |-> http[j]]
    /\ IF serving = i
       THEN answers' = Append(answers, Answer(i, outcome, task)) /\ serving' = 0
       ELSE UNCHANGED <<answers, serving>>

Arrived(i, tools) == http[i] = "arrived" /\ Tool(i) \in tools

\* _authorize_post, before the body is read: a POST needs the Runtime's token.
Authorized(i, tools) == Arrived(i, tools) /\ token

Unauthorized(i) ==
    /\ Arrived(i, Tools \ Reads)
    /\ ~token
    /\ Replies(i, "rejected", 0)
    /\ UNCHANGED <<host, server, runtime, stdin, now>>

\* do_POST checks the body again: the route may refuse what the schema check let
\* through (the shape of a selector, a confirmation of 1 for true).
InvalidBody(i) ==
    /\ Authorized(i, Tools \ Reads)
    /\ Replies(i, "rejected", 0)
    /\ UNCHANGED <<host, server, runtime, stdin, now>>

\* What a query finds is relayed as it is and changes nothing, so one outcome
\* stands for all its payloads, errors included.
HandleRead(i) ==
    /\ Arrived(i, Reads)
    /\ Replies(i, "ok", 0)
    /\ UNCHANGED <<host, server, runtime, stdin, now>>

HandleComparison(i) ==
    /\ Authorized(i, Comparisons)
    /\ Replies(i, "ok", 0)
    /\ UNCHANGED <<host, server, runtime, stdin, now>>

\* get_idempotent_execution: the key is a hash of the endpoint and the
\* arguments, and a task of any age and any status answers it.
SameKeyIfLive(i) ==
    {t \in DOMAIN tasks : tasks[t].request = sent[i].request /\ tasks[t].status \in Live}

SameKey(i) == {t \in DOMAIN tasks : tasks[t].request = sent[i].request}

\* submit_*_task: the executor's lock makes the look-up and the insertion one step.
HandleSubmission(i) ==
    /\ Authorized(i, Submissions)
    /\ \/ /\ SameKey(i) = {}
          /\ tasks' = Append(tasks, [request |-> sent[i].request, status |-> "queued"])
          /\ Replies(i, "ok", Len(tasks) + 1)
       \/ /\ \E t \in SameKey(i) : Replies(i, "ok", t)
          /\ UNCHANGED tasks
    /\ UNCHANGED <<host, server, stdin, now, up, token, lease, performed, restarts>>

\* AsyncTaskExecutor.cancel through the cancel route; 404 for an unknown task.
HandleCancellation(i) ==
    /\ Authorized(i, Cancellations)
    /\ \/ /\ tasks = <<>>
          /\ Replies(i, "failed", 0)
          /\ UNCHANGED tasks
       \/ \E t \in DOMAIN tasks :
            /\ tasks' = [tasks EXCEPT ![t].status =
                            CASE @ = "queued"  -> "cancelled"
                              [] @ = "running" -> "cancelling"
                              [] OTHER         -> @]
            /\ Replies(i, "ok", t)
    /\ UNCHANGED <<host, server, stdin, now, up, token, lease, performed, restarts>>

\* unicode_text_input, navigate_app, read_device_notifications: the session is
\* looked up and the lease taken under a fresh owner, or the call is refused.
SkillStarts(i) ==
    /\ Authorized(i, Skills)
    /\ \/ /\ ~lease
          /\ lease' = TRUE
          /\ http' = [http EXCEPT ![i] = "running"]
          /\ UNCHANGED <<serving, answers>>
       \/ /\ Replies(i, "failed", 0)
          /\ UNCHANGED lease
    /\ UNCHANGED <<host, server, stdin, now, up, token, tasks, performed, restarts>>

SkillActs(i) ==
    /\ http[i] = "running"
    /\ i \notin performed
    /\ performed' = performed \cup {i}
    /\ UNCHANGED <<host, server, stdin, now, serving, answers, http, up, token, tasks,
                   lease, restarts>>

SkillEnds(i) ==
    /\ http[i] = "running"
    /\ Replies(i, IF i \in performed THEN "ok" ELSE "failed", 0)
    /\ lease' = FALSE
    /\ UNCHANGED <<host, server, stdin, now, up, token, tasks, performed, restarts>>

Handler ==
    \E i \in DOMAIN http :
        \/ Unauthorized(i)
        \/ InvalidBody(i)
        \/ HandleRead(i)
        \/ HandleComparison(i)
        \/ HandleSubmission(i)
        \/ HandleCancellation(i)
        \/ SkillStarts(i)
        \/ SkillActs(i)
        \/ SkillEnds(i)

---------------------------------------------------------------------------
(* The executor's worker, and the Runtime's process. *)

\* The run factory takes the device's lease, or the task fails at once.
TaskStarts ==
    \E t \in DOMAIN tasks :
        /\ up
        /\ tasks[t].status = "queued"
        /\ \A u \in DOMAIN tasks : tasks[u].status \notin {"running", "cancelling"}
        /\ \A u \in 1 .. (t - 1) : tasks[u].status # "queued"
        /\ IF ~lease
           THEN lease' = TRUE /\ tasks' = [tasks EXCEPT ![t].status = "running"]
           ELSE UNCHANGED lease /\ tasks' = [tasks EXCEPT ![t].status = "failed"]
        /\ UNCHANGED <<host, server, stdin, now, serving, answers, http, up, token,
                       performed, restarts>>

TaskFinishes ==
    \E t \in DOMAIN tasks :
        /\ up
        /\ \/ /\ tasks[t].status = "running"
              /\ \E s \in {"succeeded", "failed"} : tasks' = [tasks EXCEPT ![t].status = s]
           \/ /\ tasks[t].status = "cancelling"
              /\ tasks' = [tasks EXCEPT ![t].status = "cancelled"]
        /\ lease' = FALSE
        /\ UNCHANGED <<host, server, stdin, now, serving, answers, http, up, token,
                       performed, restarts>>

\* The process and its leases are gone; a waiting adapter sees its connection reset.
RuntimeDies ==
    /\ up
    /\ restarts < MaxRestarts
    /\ up' = FALSE
    /\ restarts' = restarts + 1
    /\ lease' = FALSE
    /\ http' = Empty
    /\ serving' = 0
    /\ answers' = IF serving = 0 THEN answers
                  ELSE Append(answers, Answer(serving, "unavailable", 0))
    /\ UNCHANGED <<host, server, stdin, now, token, tasks, performed>>

\* main: a token from the environment or a new one, and
\* recover_incomplete_executions on the task store.
RuntimeStarts ==
    /\ ~up
    /\ up' = TRUE
    /\ token' \in BOOLEAN
    /\ tasks' = [t \in DOMAIN tasks |->
                    IF tasks[t].status \in Live THEN [tasks[t] EXCEPT !.status = "failed"]
                    ELSE tasks[t]]
    /\ UNCHANGED <<host, server, stdin, now, serving, answers, http, lease, performed,
                   restarts>>

---------------------------------------------------------------------------
Serve == \/ Initialize \/ Initialized \/ Ping \/ NotReady \/ ListTools
         \/ InvalidCall \/ RateLimited \/ CallTool

McpNext == \/ HostWrites \/ TimePasses \/ Serve \/ TimesOut \/ Handler
           \/ TaskStarts \/ TaskFinishes \/ RuntimeDies \/ RuntimeStarts

McpSpec == McpInit /\ [][McpNext]_mcpVars

---------------------------------------------------------------------------
McpTypeOK ==
    /\ sent \in Seq(Script) /\ Len(sent) <= MaxMessages
    /\ \A n \in DOMAIN stdin : stdin[n] \in DOMAIN sent
    /\ initialized \in BOOLEAN /\ ready \in BOOLEAN
    /\ now \in 0 .. MaxTime
    /\ serving \in {0} \cup DOMAIN http
    /\ DOMAIN http \subseteq DOMAIN sent
    /\ \A i \in DOMAIN http : http[i] \in {"arrived", "running"}
    /\ {up, token, lease} \subseteq BOOLEAN
    /\ \A t \in DOMAIN tasks : tasks[t] \in [request : Requests, status : Live \cup Done]
    /\ performed \subseteq DOMAIN sent

\* The lines that are answered.
Asked == {i \in DOMAIN sent : ~sent[i].notification /\ sent[i].kind # "initialized"}

\* However often the host repeats a call, after timeouts, lost answers or a
\* restart of the Runtime, and however late the first one is handled, the
\* executor never holds two tasks of one request (stable_idempotency_key).
OneTaskPerRequest ==
    \A t, u \in DOMAIN tasks : tasks[t].request = tasks[u].request => t = u

\* Requests are answered once each, in the order they were written, and
\* notifications are not answered (run_stdio and McpServer.handle): a
\* pipelining host can match the answers.
AnsweredInOrder ==
    \A n \in DOMAIN answers :
        /\ answers[n].id \in Asked
        /\ \A m \in 1 .. (n - 1) : answers[m].id < answers[n].id
        /\ \A i \in Asked : i < answers[n].id =>
              \E m \in 1 .. (n - 1) : answers[m].id = i

\* The rate limiter admits exactly what a window of Window seconds allows: no
\* more than Maximum calls in any window, and a call is refused only when the
\* window before it is full (_ToolRateLimiter.allow).
RateIsWindowed ==
    /\ \A n \in DOMAIN admitted :
        Cardinality({k \in 1 .. n : admitted[k].at > admitted[n].at - Window}) <= Maximum
    /\ \A r \in limited :
        Cardinality({k \in 1 .. r.after : admitted[k].at > r.at - Window}) >= Maximum

\* No call reaches the Runtime before the handshake is complete: an
\* initialize was answered, and the host acknowledged it, before the call.
HandshakeFirst ==
    \A n \in DOMAIN admitted :
        \E i, j \in 1 .. (admitted[n].id - 1) :
            /\ i < j
            /\ sent[i].kind = "initialize" /\ ~sent[i].notification
            /\ sent[j].kind = "initialized"

\* docs/engineering/error-handling.md and docs/architecture/reliability-model.md:
\* known_failure is not unknown_outcome, and a timeout does not mean that the
\* device did not act.  RUNTIME_UNAVAILABLE says known_failure and retryable.
KnownFailureDidNothing ==
    \A n \in DOMAIN answers :
        answers[n].outcome = "unavailable" => answers[n].id \notin performed
=============================================================================
