---------------------------- MODULE SkillRegistry ----------------------------
(***************************************************************************)
(* The registry of declarative skills (skills/registry.py), its tables of    *)
(* versions and of audit events (storage/skills.py) and the calls of the     *)
(* HTTP API on it (runtime.py): register, enable, disable, delete, submit.   *)
(*                                                                          *)
(* Every statement on the database is a transaction of its own; calls run    *)
(* on threads of their own without a lock.  The registry is assembled by     *)
(* the first call after a start, which publishes it and then loads the       *)
(* official documents.  One skill id stands for all: the tables are keyed    *)
(* by id and version, and nothing relates two ids.  A document is told by    *)
(* its digest.  Reads that change nothing are left out.                      *)
(***************************************************************************)
EXTENDS Naturals, Sequences

CONSTANTS
  Clients,     \* threads of the HTTP server
  Versions,    \* numbers in the order of their version keys
  Documents,   \* documents that pass the parser
  Official,    \* the shipped files: version and document
  MaxCalls,    \* bound: calls of the API
  MaxFaults,   \* bound: statements the database refuses
  MaxCrashes   \* bound: ends of the process

ASSUME DataAssumption ==
  /\ Versions \subseteq Nat \ {0}
  /\ "none" \notin Documents
  /\ Official \subseteq Versions \X Documents
  /\ \A p, q \in Official : p[1] = q[1] => p = q
  /\ {MaxCalls, MaxFaults, MaxCrashes} \subseteq Nat

VARIABLES
  rows,      \* custom_skills: what is stored for each version
  audit,     \* skill_audit, append-only
  registry,  \* whether _custom_skills_registry is set
  client,    \* the call each thread serves, and where it is
  tasks,     \* the tasks submitted: version and document
  used,      \* calls, faults and crashes so far
  made,      \* history: versions and documents ever inserted
  removed    \* history: versions a caller deleted and no caller registered since

tables == <<rows, made, removed>>
vars == <<tables, audit, registry, client, tasks, used>>
-----------------------------------------------------------------------------
Absent == [document |-> "none", enabled |-> FALSE]
Rows == {Absent} \cup [document : Documents, enabled : BOOLEAN]
Requests == [op : {"register"}, version : Versions, document : Documents]
       \cup [op : {"enable", "disable", "delete"}, version : Versions, document : {"none"}]
       \cup [op : {"submit"}, version : Versions \cup {0}, document : {"none"}]
Idle == [op |-> "none", version |-> 0, document |-> "none"]
NoCall == [request |-> Idle, at |-> "idle", left |-> {}]

Asked(c) == client[c].request
At(c, at) == client[c].at = at
Goes(c, at) == client' = [client EXCEPT ![c].at = at]
Answers(c) == client' = [client EXCEPT ![c] = NoCall]

Init ==
  /\ rows = [v \in Versions |-> Absent]
  /\ audit = <<>>
  /\ registry = FALSE
  /\ client = [c \in Clients |-> NoCall]
  /\ tasks = {}
  /\ used = [calls |-> 0, faults |-> 0, crashes |-> 0]
  /\ made = {} /\ removed = {}

Events(event) == {e \in {audit[n] : n \in DOMAIN audit} : e.event = event}
Emit(event, v, d) == audit' = Append(audit, [event |-> event, version |-> v, document |-> d])

(* INSERT under the joint primary key: an existing version is a conflict.   *)
Conflict(v) == rows[v] # Absent
Insert(v, d) ==
  /\ rows' = [rows EXCEPT ![v] = [document |-> d, enabled |-> TRUE]]
  /\ made' = made \cup {<<v, d>>}
-----------------------------------------------------------------------------
(* A request arrives.  A submission may leave the version open (0).         *)
Call(c) == \E r \in Requests :
  /\ At(c, "idle") /\ used.calls < MaxCalls
  /\ used' = [used EXCEPT !.calls = @ + 1]
  /\ client' = [client EXCEPT ![c] = [request |-> r, at |-> "assemble", left |-> {}]]
  /\ UNCHANGED <<tables, audit, registry, tasks>>

Enters(c) == IF Asked(c).op = "register" THEN "write" ELSE "fetch"

(* _custom_skills: who finds no registry publishes one, inside the lock, and *)
(* loads; who finds one does not wait for the load.                         *)
Assemble(c) ==
  /\ At(c, "assemble")
  /\ registry' = TRUE
  /\ client' = [client EXCEPT ![c] =
       IF registry THEN [@ EXCEPT !.at = Enters(c)]
       ELSE [@ EXCEPT !.at = "load", !.left = Official]]
  /\ UNCHANGED <<tables, audit, tasks, used>>

(* load_builtin_dsl_documents: the files in order; a conflict is skipped.   *)
First(c) == {p \in client[c].left : \A q \in client[c].left : p[1] <= q[1]}
Loaded(c, p) == client' = [client EXCEPT ![c].at = "load", ![c].left = @ \ {p}]

LoadInsert(c) == \E p \in First(c) :
  /\ At(c, "load")
  /\ \/ Conflict(p[1]) /\ Loaded(c, p) /\ UNCHANGED tables
     \/ ~Conflict(p[1]) /\ Insert(p[1], p[2]) /\ Goes(c, "loadAudit") /\ UNCHANGED removed
  /\ UNCHANGED <<audit, registry, tasks, used>>

LoadAudit(c) == \E p \in First(c) :
  /\ At(c, "loadAudit")
  /\ Emit("registered", p[1], p[2])
  /\ Loaded(c, p)
  /\ UNCHANGED <<tables, registry, tasks, used>>

LoadEnds(c) ==
  /\ At(c, "load") /\ client[c].left = {}
  /\ Goes(c, Enters(c))
  /\ UNCHANGED <<tables, audit, registry, tasks, used>>
-----------------------------------------------------------------------------
(* register: the insert, then its event.                                    *)
(* mutant: INSERT OR IGNORE                                                 *)
RegisterIgnoring(c) ==
  LET v == Asked(c).version IN
  /\ At(c, "write") /\ Asked(c).op = "register"
  /\ IF Conflict(v) THEN UNCHANGED tables
     ELSE Insert(v, Asked(c).document) /\ removed' = removed \ {v}
  /\ Goes(c, "audit")
  /\ UNCHANGED <<audit, registry, tasks, used>>

Register(c) ==
  LET v == Asked(c).version IN
  /\ At(c, "write") /\ Asked(c).op = "register"
  /\ \/ Conflict(v) /\ Answers(c) /\ UNCHANGED tables
     \/ /\ ~Conflict(v)
        /\ Insert(v, Asked(c).document)
        /\ removed' = removed \ {v}
        /\ Goes(c, "audit")
  /\ UNCHANGED <<audit, registry, tasks, used>>

(* set_enabled and delete: the row is read, for its digest, ...              *)
Fetch(c) ==
  LET v == Asked(c).version IN
  /\ At(c, "fetch") /\ Asked(c).op # "submit"
  /\ \/ rows[v] = Absent /\ Answers(c)
     \/ /\ rows[v] # Absent
        /\ client' = [client EXCEPT ![c].at = "write", ![c].request.document = rows[v].document]
  /\ UNCHANGED <<tables, audit, registry, tasks, used>>

(* ... the statement is executed, on whatever is there by then, ...          *)
Toggle(c) ==
  LET v == Asked(c).version IN
  /\ At(c, "write") /\ Asked(c).op \in {"enable", "disable"}
  /\ rows' = IF rows[v] = Absent THEN rows
             ELSE [rows EXCEPT ![v].enabled = (Asked(c).op = "enable")]
  /\ Goes(c, "audit")
  /\ UNCHANGED <<audit, registry, tasks, used, made, removed>>

Delete(c) ==
  LET v == Asked(c).version IN
  /\ At(c, "write") /\ Asked(c).op = "delete"
  /\ rows' = [rows EXCEPT ![v] = Absent]
  /\ removed' = removed \cup {v}
  /\ Goes(c, "audit")
  /\ UNCHANGED <<audit, registry, tasks, used, made>>

(* ... and its event is stored with the digest that was read.               *)
Past == [register |-> "registered", enable |-> "enabled", disable |-> "disabled",
         delete |-> "deleted"]
Audit(c) ==
  /\ At(c, "audit")
  /\ Emit(Past[Asked(c).op], Asked(c).version, Asked(c).document)
  /\ Answers(c)
  /\ UNCHANGED <<tables, registry, tasks, used>>

(* submit_dsl_skill_task: one version, or the latest there is, if enabled.  *)
Present == {v \in Versions : rows[v] # Absent}
Latest == {v \in Present : \A u \in Present : u <= v}
Candidates(v) == IF v # 0 THEN Present \cap {v} ELSE Latest

Resolve(c) ==
  /\ At(c, "fetch") /\ Asked(c).op = "submit"
  /\ \/ /\ \A v \in Candidates(Asked(c).version) : ~rows[v].enabled
        /\ Answers(c)
     \/ \E v \in Candidates(Asked(c).version) :
          /\ rows[v].enabled
          /\ client' = [client EXCEPT ![c].at = "enqueue", ![c].request =
               [op |-> "submit", version |-> v, document |-> rows[v].document]]
  /\ UNCHANGED <<tables, audit, registry, tasks, used>>

Enqueue(c) ==
  /\ At(c, "enqueue")
  /\ tasks' = tasks \cup {<<Asked(c).version, Asked(c).document>>}
  /\ Answers(c)
  /\ UNCHANGED <<tables, audit, registry, used>>
-----------------------------------------------------------------------------
(* A statement fails and the call with it (STORAGE_ERROR): what it wrote     *)
(* before stays, and so does a registry that is published and not loaded.    *)
Fault(c) ==
  /\ client[c].at \in {"load", "loadAudit", "write", "fetch", "audit"}
  /\ used.faults < MaxFaults
  /\ used' = [used EXCEPT !.faults = @ + 1]
  /\ Answers(c)
  /\ UNCHANGED <<tables, audit, registry, tasks>>

(* The process ends and is started again.                                   *)
Restart ==
  /\ used.crashes < MaxCrashes
  /\ used' = [used EXCEPT !.crashes = @ + 1]
  /\ registry' = FALSE
  /\ client' = [c \in Clients |-> NoCall]
  /\ UNCHANGED <<tables, audit, tasks>>

Load(c) == LoadInsert(c) \/ LoadAudit(c) \/ LoadEnds(c)
Change(c) == Register(c) \/ Fetch(c) \/ Toggle(c) \/ Delete(c) \/ Audit(c)

Next ==
  \/ \E c \in Clients :
       Call(c) \/ Assemble(c) \/ Load(c) \/ Change(c) \/ Resolve(c) \/ Enqueue(c) \/ Fault(c)
  \/ Restart

Spec == Init /\ [][Next]_vars
-----------------------------------------------------------------------------
Places == {"idle", "assemble", "load", "loadAudit", "fetch", "write", "audit", "enqueue"}
Outcomes == {"registered", "enabled", "disabled", "deleted"}
Carried == [op : {"none", "submit"} \cup DOMAIN Past, version : Versions \cup {0},
            document : Documents \cup {"none"}]

TypeOK ==
  /\ rows \in [Versions -> Rows]
  /\ audit \in Seq([event : Outcomes, version : Versions, document : Documents])
  /\ registry \in BOOLEAN
  /\ client \in [Clients -> [request : Carried, at : Places, left : SUBSET Official]]
  /\ used \in [calls : Nat, faults : Nat, crashes : Nat]
  /\ \A c \in Clients :
       /\ At(c, "loadAudit") => First(c) # {}
       /\ client[c].at \in {"write", "audit", "enqueue"} =>
            Asked(c).version \in Versions /\ Asked(c).document \in Documents
       /\ client[c].at \in {"write", "audit"} => Asked(c).op \in DOMAIN Past
       /\ client[c].at \notin {"idle", "write", "audit", "enqueue"} => Asked(c) \in Requests
  /\ tasks \subseteq Versions \X Documents
  /\ made \subseteq Versions \X Documents
  /\ removed \subseteq Versions

(* A version is immutable while it is stored, and only a caller's request    *)
(* enables or disables it: two registrations at once, and the loading of the *)
(* official documents at every start, leave the document and the user's      *)
(* choice alone (ADR 0021, test_builtin_documents_load_once_and_preserve_    *)
(* user_state).                                                             *)
RowsKept ==
  [][\A v \in Versions : rows[v] # Absent /\ rows'[v] # Absent =>
       /\ rows'[v].document = rows[v].document
       /\ rows'[v].enabled # rows[v].enabled =>
            \E c \in Clients : /\ At(c, "write") /\ Asked(c).version = v
                               /\ Asked(c).op \in {"enable", "disable"}]_vars

(* The audit trail can be trusted about registrations: an event names a      *)
(* document that was stored under its version, also when a registration      *)
(* lost a race; without a fault or a restart every document ever stored has  *)
(* its event, or its registration is about to write it.  What a task runs    *)
(* can therefore be traced.                                                 *)
Registering(v, d) == \E c \in Clients :
  \/ At(c, "loadAudit") /\ <<v, d>> \in First(c)
  \/ At(c, "audit") /\ Asked(c) = [op |-> "register", version |-> v, document |-> d]

RegistrationsAudited ==
  LET told == {<<e.version, e.document>> : e \in Events("registered")} IN
  /\ told \subseteq made
  /\ tasks \subseteq made
  /\ used.faults = 0 /\ used.crashes = 0 =>
       \A p \in made : p \in told \/ Registering(p[1], p[2])

(* registry.py: "Delete one version permanently."                           *)
DeletedStaysDeleted == \A v \in removed : rows[v] = Absent
=============================================================================
