------------------------- MODULE SkillRegistryProofs -------------------------
(* Theorems about SkillRegistry, for any threads, versions, documents and     *)
(* shipped files and any number of calls, faults and restarts.                *)
EXTENDS SkillRegistry, TLAPS

-----------------------------------------------------------------------------
Calls == [request : Carried, at : Places, left : SUBSET Official]

(* What TypeOK says of the call of one thread.                              *)
CallOK(c) ==
  /\ At(c, "loadAudit") => First(c) # {}
  /\ client[c].at \in {"write", "audit", "enqueue"} =>
       Asked(c).version \in Versions /\ Asked(c).document \in Documents
  /\ client[c].at \in {"write", "audit"} => Asked(c).op \in DOMAIN Past
  /\ client[c].at \notin {"idle", "write", "audit", "enqueue"} => Asked(c) \in Requests

LEMMA PastDomain == DOMAIN Past = {"register", "enable", "disable", "delete"}
BY DEF Past

LEMMA RequestsCarried == Requests \subseteq Carried /\ Idle \in Carried
BY PastDomain DEF Requests, Carried, Idle

LEMMA OfficialTyped == ASSUME NEW p \in Official
                       PROVE  p[1] \in Versions /\ p[2] \in Documents /\ p = <<p[1], p[2]>>
BY DataAssumption

(* The calls stay typed when the call of one thread becomes a typed one.     *)
LEMMA OneCall ==
  ASSUME TypeOK, NEW c \in Clients, NEW new \in Calls,
         client' = [client EXCEPT ![c] = new],
         new.at = "loadAudit" =>
           {p \in new.left : \A q \in new.left : p[1] <= q[1]} # {},
         new.at \in {"write", "audit", "enqueue"} =>
           new.request.version \in Versions /\ new.request.document \in Documents,
         new.at \in {"write", "audit"} => new.request.op \in DOMAIN Past,
         new.at \notin {"idle", "write", "audit", "enqueue"} => new.request \in Requests
  PROVE  client' \in [Clients -> Calls] /\ \A e \in Clients : CallOK(e)'
<1>1. client' \in [Clients -> Calls]
  BY DEF TypeOK, Calls
<1>2. \A e \in Clients : e # c => client'[e] = client[e]
  BY DEF TypeOK
<1>3. client'[c] = new
  BY DEF TypeOK
<1>4. CallOK(c)'
  BY <1>3 DEF CallOK, At, Asked, First
<1>5. ASSUME NEW e \in Clients, e # c PROVE CallOK(e)'
  <2>1. CallOK(e)
    BY DEF TypeOK, CallOK
  <2> QED
    BY <2>1, <1>2, <1>5 DEF CallOK, At, Asked, First
<1> QED
  BY <1>1, <1>4, <1>5

Parts ==
  /\ rows \in [Versions -> Rows]
  /\ audit \in Seq([event : Outcomes, version : Versions, document : Documents])
  /\ registry \in BOOLEAN
  /\ client \in [Clients -> Calls]
  /\ used \in [calls : Nat, faults : Nat, crashes : Nat]
  /\ \A c \in Clients : CallOK(c)
  /\ tasks \subseteq Versions \X Documents
  /\ made \subseteq Versions \X Documents
  /\ removed \subseteq Versions

LEMMA TypeParts == TypeOK <=> Parts
BY DEF TypeOK, CallOK, Calls, Parts

LEMMA TypePartsNext == TypeOK' <=> Parts'
BY DEF TypeOK, CallOK, Calls, Parts

LEMMA ClientAnswered ==
  ASSUME TypeOK, NEW c \in Clients, Answers(c)
  PROVE  client' \in [Clients -> Calls] /\ \A e \in Clients : CallOK(e)'
<1>1. NoCall \in Calls /\ NoCall.at = "idle"
  BY RequestsCarried DEF NoCall, Calls, Places
<1>2. client' = [client EXCEPT ![c] = NoCall]
  BY DEF Answers
<1> QED
  BY <1>1, <1>2, OneCall

LEMMA ClientGoes ==
  ASSUME TypeOK, NEW c \in Clients, NEW at \in {"fetch", "write", "audit"}, Goes(c, at),
         at # "fetch" => /\ Asked(c).version \in Versions /\ Asked(c).document \in Documents
                         /\ Asked(c).op \in DOMAIN Past,
         at = "fetch" => Asked(c) \in Requests
  PROVE  client' \in [Clients -> Calls] /\ \A e \in Clients : CallOK(e)'
<1> DEFINE new == [client[c] EXCEPT !.at = at]
<1>1. client[c] \in Calls
  BY DEF TypeOK, Calls
<1>2. new \in Calls /\ new.at = at /\ new.request = client[c].request /\ new.left = client[c].left
  BY <1>1 DEF Calls, Places
<1>3. client' = [client EXCEPT ![c] = new]
  BY DEF Goes
<1> HIDE DEF new
<1> QED
  BY <1>2, <1>3, OneCall DEF Asked

LEMMA RowsInserted ==
  ASSUME TypeOK, NEW v \in Versions, NEW d \in Documents, Insert(v, d)
  PROVE  rows' \in [Versions -> Rows] /\ made' \subseteq Versions \X Documents
BY DEF TypeOK, Insert, Rows

LEMMA AuditEmitted ==
  ASSUME TypeOK, NEW e \in Outcomes, NEW v \in Versions, NEW d \in Documents, Emit(e, v, d)
  PROVE  audit' \in Seq([event : Outcomes, version : Versions, document : Documents])
BY DEF TypeOK, Emit

LEMMA TypeInit == Init => TypeOK
<1> SUFFICES ASSUME Init PROVE TypeOK
  OBVIOUS
<1>1. NoCall \in Calls /\ NoCall.at = "idle"
  BY RequestsCarried DEF NoCall, Calls, Places
<1>2. rows \in [Versions -> Rows] /\ client \in [Clients -> Calls]
  BY <1>1 DEF Init, Rows
<1>3. \A c \in Clients : CallOK(c)
  BY <1>1 DEF Init, CallOK, At
<1>4. used \in [calls : Nat, faults : Nat, crashes : Nat]
  BY DEF Init
<1>5. audit \in Seq([event : Outcomes, version : Versions, document : Documents])
  BY DEF Init
<1>6. registry \in BOOLEAN /\ tasks = {} /\ made = {} /\ removed = {}
  BY DEF Init
<1> HIDE DEF Init
<1> QED
  BY <1>2, <1>3, <1>4, <1>5, <1>6, TypeParts DEF Parts

LEMMA TypeCall == ASSUME TypeOK, NEW c \in Clients, Call(c) PROVE TypeOK'
<1>1. PICK r \in Requests :
        /\ used' = [used EXCEPT !.calls = @ + 1]
        /\ client' = [client EXCEPT ![c] = [request |-> r, at |-> "assemble", left |-> {}]]
        /\ UNCHANGED <<tables, audit, registry, tasks>>
  BY DEF Call
<1>2. [request |-> r, at |-> "assemble", left |-> {}] \in Calls
  BY RequestsCarried DEF Calls, Places
<1>3. client' \in [Clients -> Calls] /\ \A e \in Clients : CallOK(e)'
  BY <1>1, <1>2, OneCall
<1>4. used' \in [calls : Nat, faults : Nat, crashes : Nat]
  BY <1>1 DEF TypeOK
<1> QED
  BY <1>1, <1>3, <1>4, TypeParts, TypePartsNext DEF Parts, tables

LEMMA TypeAssemble == ASSUME TypeOK, NEW c \in Clients, Assemble(c) PROVE TypeOK'
<1> DEFINE new == IF registry THEN [client[c] EXCEPT !.at = Enters(c)]
                  ELSE [client[c] EXCEPT !.at = "load", !.left = Official]
<1>1. client[c] \in Calls /\ Asked(c) \in Requests
  BY TypeParts DEF Parts, Assemble, CallOK, At
<1>2. Enters(c) \in {"write", "fetch"} /\ (Enters(c) = "write" <=> Asked(c).op = "register")
  BY DEF Enters
<1>3. new \in Calls /\ new.request = Asked(c) /\ new.at \in {"write", "fetch", "load"}
      /\ (new.at = "write" => Asked(c).op = "register")
  BY <1>1, <1>2 DEF Calls, Places, Asked
<1>4. client' = [client EXCEPT ![c] = new]
  BY DEF Assemble
<1>5. Asked(c).op = "register" => /\ Asked(c).version \in Versions
                                  /\ Asked(c).document \in Documents
                                  /\ Asked(c).op \in DOMAIN Past
  BY <1>1, PastDomain DEF Requests
<1> HIDE DEF new
<1>6. client' \in [Clients -> Calls] /\ \A e \in Clients : CallOK(e)'
  BY <1>1, <1>3, <1>4, <1>5, OneCall
<1> QED
  BY <1>6, TypeParts, TypePartsNext DEF Parts, Assemble, tables

LEMMA FileTyped ==
  ASSUME TypeOK, NEW c \in Clients, NEW p \in First(c)
  PROVE  p \in client[c].left /\ p \in Official
         /\ p[1] \in Versions /\ p[2] \in Documents /\ p = <<p[1], p[2]>>
<1>1. client[c] \in Calls
  BY TypeParts DEF Parts
<1>2. p \in client[c].left /\ p \in Official
  BY <1>1 DEF First, Calls
<1> QED
  BY <1>2, OfficialTyped

LEMMA ClientLoaded ==
  ASSUME TypeOK, NEW c \in Clients, client[c].at \in {"load", "loadAudit"}, NEW p, Loaded(c, p)
  PROVE  client' \in [Clients -> Calls] /\ \A e \in Clients : CallOK(e)'
<1> DEFINE new == [client[c] EXCEPT !.at = "load", !.left = @ \ {p}]
<1>1. client[c] \in Calls /\ client[c].request \in Requests
  BY TypeParts DEF Parts, CallOK, Asked
<1>2. new \in Calls /\ new.at = "load" /\ new.request = client[c].request
  BY <1>1 DEF Calls, Places
<1>3. client' = [client EXCEPT ![c] = new]
  BY DEF Loaded
<1> HIDE DEF new
<1> QED
  BY <1>1, <1>2, <1>3, OneCall

LEMMA TypeLoadInsert == ASSUME TypeOK, NEW c \in Clients, LoadInsert(c) PROVE TypeOK'
<1>1. PICK p \in First(c) :
        /\ At(c, "load")
        /\ \/ Conflict(p[1]) /\ Loaded(c, p) /\ UNCHANGED tables
           \/ ~Conflict(p[1]) /\ Insert(p[1], p[2]) /\ Goes(c, "loadAudit") /\ UNCHANGED removed
        /\ UNCHANGED <<audit, registry, tasks, used>>
  BY DEF LoadInsert
<1>2. CASE Loaded(c, p) /\ UNCHANGED tables
  <2>1. client' \in [Clients -> Calls] /\ \A e \in Clients : CallOK(e)'
    BY <1>1, <1>2, ClientLoaded DEF At
  <2> QED
    BY <1>1, <1>2, <2>1, TypeParts, TypePartsNext DEF Parts, tables
<1>3. CASE Insert(p[1], p[2]) /\ Goes(c, "loadAudit") /\ UNCHANGED removed
  <2> DEFINE new == [client[c] EXCEPT !.at = "loadAudit"]
  <2>1. client[c] \in Calls /\ client[c].request \in Requests
    BY <1>1, TypeParts DEF Parts, CallOK, Asked, At
  <2>2. new \in Calls /\ new.at = "loadAudit" /\ new.request = client[c].request
        /\ new.left = client[c].left
    BY <2>1 DEF Calls, Places
  <2>3. client' = [client EXCEPT ![c] = new]
    BY <1>3 DEF Goes
  <2> HIDE DEF new
  <2>4. {q \in new.left : \A r \in new.left : q[1] <= r[1]} # {}
    BY <2>2 DEF First
  <2>5. client' \in [Clients -> Calls] /\ \A e \in Clients : CallOK(e)'
    BY <2>1, <2>2, <2>3, <2>4, OneCall
  <2>6. rows' \in [Versions -> Rows] /\ made' \subseteq Versions \X Documents
    BY <1>1, <1>3, FileTyped, RowsInserted
  <2> QED
    BY <1>1, <1>3, <2>5, <2>6, TypeParts, TypePartsNext DEF Parts
<1> QED
  BY <1>1, <1>2, <1>3

LEMMA TypeLoadAudit == ASSUME TypeOK, NEW c \in Clients, LoadAudit(c) PROVE TypeOK'
<1>1. PICK p \in First(c) :
        /\ At(c, "loadAudit") /\ Emit("registered", p[1], p[2]) /\ Loaded(c, p)
        /\ UNCHANGED <<tables, registry, tasks, used>>
  BY DEF LoadAudit
<1>2. client' \in [Clients -> Calls] /\ \A e \in Clients : CallOK(e)'
  BY <1>1, ClientLoaded DEF At
<1>3. audit' \in Seq([event : Outcomes, version : Versions, document : Documents])
  BY <1>1, FileTyped, AuditEmitted DEF Outcomes
<1> QED
  BY <1>1, <1>2, <1>3, TypeParts, TypePartsNext DEF Parts, tables

LEMMA TypeLoadEnds == ASSUME TypeOK, NEW c \in Clients, LoadEnds(c) PROVE TypeOK'
<1>1. Asked(c) \in Requests
  BY TypeParts DEF Parts, LoadEnds, CallOK, At
<1>2. Enters(c) \in {"fetch", "write"} /\ (Enters(c) = "write" => Asked(c).op = "register")
  BY DEF Enters
<1>3. Asked(c).op = "register" => /\ Asked(c).version \in Versions
                                  /\ Asked(c).document \in Documents
                                  /\ Asked(c).op \in DOMAIN Past
  BY <1>1, PastDomain DEF Requests
<1>4. client' \in [Clients -> Calls] /\ \A e \in Clients : CallOK(e)'
  BY <1>1, <1>2, <1>3, ClientGoes DEF LoadEnds
<1> QED
  BY <1>4, TypeParts, TypePartsNext DEF Parts, LoadEnds, tables

(* What a thread at "write" carries.                                        *)
LEMMA Carries ==
  ASSUME TypeOK, NEW c \in Clients, client[c].at \in {"write", "audit"}
  PROVE  /\ Asked(c).version \in Versions /\ Asked(c).document \in Documents
         /\ Asked(c).op \in DOMAIN Past
BY TypeParts DEF Parts, CallOK

LEMMA TypeRegister == ASSUME TypeOK, NEW c \in Clients, Register(c) PROVE TypeOK'
<1> DEFINE v == Asked(c).version
           d == Asked(c).document
<1>1. v \in Versions /\ d \in Documents /\ Asked(c).op \in DOMAIN Past
  BY Carries DEF Register, At
<1>2. CASE Answers(c) /\ UNCHANGED tables
  BY <1>2, ClientAnswered, TypeParts, TypePartsNext DEF Parts, tables, Register
<1>3. CASE Insert(v, d) /\ removed' = removed \ {v} /\ Goes(c, "audit")
  <2>1. client' \in [Clients -> Calls] /\ \A e \in Clients : CallOK(e)'
    BY <1>1, <1>3, ClientGoes
  <2>2. rows' \in [Versions -> Rows] /\ made' \subseteq Versions \X Documents
    BY <1>1, <1>3, RowsInserted
  <2> QED
    BY <1>3, <2>1, <2>2, TypeParts, TypePartsNext DEF Parts, Register
<1> QED
  BY <1>2, <1>3 DEF Register

LEMMA StoredRow ==
  ASSUME TypeOK, NEW v \in Versions, rows[v] # Absent
  PROVE  rows[v] \in [document : Documents, enabled : BOOLEAN]
BY DEF TypeOK, Rows

(* A call goes on with another request in its hands.                        *)
LEMMA ClientCarries ==
  ASSUME TypeOK, NEW c \in Clients, NEW at \in {"write", "enqueue"}, NEW r \in Carried,
         r.version \in Versions, r.document \in Documents, at = "write" => r.op \in DOMAIN Past,
         client' = [client EXCEPT ![c] = [client[c] EXCEPT !.at = at, !.request = r]]
  PROVE  client' \in [Clients -> Calls] /\ \A e \in Clients : CallOK(e)'
<1> DEFINE new == [client[c] EXCEPT !.at = at, !.request = r]
<1>1. client[c] \in Calls
  BY TypeParts DEF Parts
<1>2. new \in Calls /\ new.at = at /\ new.request = r
  BY <1>1 DEF Calls, Places
<1> HIDE DEF new
<1> QED
  BY <1>2, OneCall DEF new

LEMMA TypeFetch == ASSUME TypeOK, NEW c \in Clients, Fetch(c) PROVE TypeOK'
<1> DEFINE v == Asked(c).version
           r == [Asked(c) EXCEPT !.document = rows[v].document]
<1>1. CASE Answers(c)
  BY <1>1, ClientAnswered, TypeParts, TypePartsNext DEF Parts, tables, Fetch
<1>2. CASE /\ rows[v] # Absent
           /\ client' = [client EXCEPT ![c].at = "write", ![c].request.document = rows[v].document]
  <2>1. Asked(c) \in Requests /\ Asked(c).op # "submit"
    BY TypeParts DEF Parts, CallOK, Fetch, At
  <2>2. v \in Versions /\ Asked(c).op \in DOMAIN Past
    BY <2>1, PastDomain DEF Requests
  <2>3. rows[v].document \in Documents
    BY <1>2, <2>2, StoredRow
  <2>4. r \in Carried /\ r.version = v /\ r.document = rows[v].document /\ r.op = Asked(c).op
    BY <2>1, <2>3, RequestsCarried DEF Carried
  <2>5. client[c] \in Calls
    BY TypeParts DEF Parts
  <2>6. client' = [client EXCEPT ![c] = [client[c] EXCEPT !.at = "write", !.request = r]]
    BY <1>2, <2>5 DEF Asked, Calls
  <2> HIDE DEF r, v
  <2>7. client' \in [Clients -> Calls] /\ \A e \in Clients : CallOK(e)'
    BY <2>2, <2>3, <2>4, <2>6, ClientCarries
  <2> QED
    BY <2>7, TypeParts, TypePartsNext DEF Parts, tables, Fetch
<1> QED
  BY <1>1, <1>2 DEF Fetch

LEMMA TypeToggle == ASSUME TypeOK, NEW c \in Clients, Toggle(c) PROVE TypeOK'
<1> DEFINE v == Asked(c).version
<1>1. v \in Versions /\ Asked(c).document \in Documents /\ Asked(c).op \in DOMAIN Past
  BY Carries DEF Toggle, At
<1>2. client' \in [Clients -> Calls] /\ \A e \in Clients : CallOK(e)'
  BY <1>1, ClientGoes DEF Toggle
<1>3. rows' \in [Versions -> Rows]
  <2>1. CASE rows[v] = Absent
    BY <2>1, TypeParts DEF Toggle, Parts
  <2>2. CASE rows[v] # Absent
    <3>1. [rows[v] EXCEPT !.enabled = (Asked(c).op = "enable")] \in Rows
      BY <1>1, <2>2, StoredRow DEF Rows
    <3>2. rows' = [rows EXCEPT ![v] = [rows[v] EXCEPT !.enabled = (Asked(c).op = "enable")]]
      BY <2>2 DEF Toggle
    <3> QED
      BY <3>1, <3>2, TypeParts DEF Parts
  <2> QED
    BY <2>1, <2>2
<1> QED
  BY <1>2, <1>3, TypeParts, TypePartsNext DEF Parts, Toggle

LEMMA TypeDelete == ASSUME TypeOK, NEW c \in Clients, Delete(c) PROVE TypeOK'
<1> DEFINE v == Asked(c).version
<1>1. v \in Versions /\ Asked(c).document \in Documents /\ Asked(c).op \in DOMAIN Past
  BY Carries DEF Delete, At
<1>2. client' \in [Clients -> Calls] /\ \A e \in Clients : CallOK(e)'
  BY <1>1, ClientGoes DEF Delete
<1>3. rows' \in [Versions -> Rows]
  BY TypeParts DEF Parts, Delete, Rows
<1> QED
  BY <1>1, <1>2, <1>3, TypeParts, TypePartsNext DEF Parts, Delete

LEMMA PastOutcome == ASSUME NEW op \in DOMAIN Past PROVE Past[op] \in Outcomes
BY DEF Past, Outcomes

LEMMA TypeAudit == ASSUME TypeOK, NEW c \in Clients, Audit(c) PROVE TypeOK'
<1>1. /\ Asked(c).version \in Versions /\ Asked(c).document \in Documents
      /\ Asked(c).op \in DOMAIN Past
  BY Carries DEF Audit, At
<1>2. audit' \in Seq([event : Outcomes, version : Versions, document : Documents])
  BY <1>1, PastOutcome, AuditEmitted DEF Audit
<1>3. client' \in [Clients -> Calls] /\ \A e \in Clients : CallOK(e)'
  BY ClientAnswered DEF Audit
<1> QED
  BY <1>2, <1>3, TypeParts, TypePartsNext DEF Parts, Audit, tables

LEMMA TypeResolve == ASSUME TypeOK, NEW c \in Clients, Resolve(c) PROVE TypeOK'
<1>1. CASE Answers(c)
  BY <1>1, ClientAnswered, TypeParts, TypePartsNext DEF Parts, tables, Resolve
<1>2. ASSUME NEW v \in Candidates(Asked(c).version), rows[v].enabled,
             client' = [client EXCEPT ![c].at = "enqueue", ![c].request =
               [op |-> "submit", version |-> v, document |-> rows[v].document]]
      PROVE  TypeOK'
  <2> DEFINE r == [op |-> "submit", version |-> v, document |-> rows[v].document]
  <2>1. v \in Versions /\ rows[v] # Absent
    BY <1>2 DEF Candidates, Latest, Present
  <2>2. rows[v].document \in Documents
    BY <2>1, StoredRow
  <2>3. r \in Carried
    BY <2>1, <2>2 DEF Carried
  <2>4. client[c] \in Calls
    BY TypeParts DEF Parts
  <2>5. client' = [client EXCEPT ![c] = [client[c] EXCEPT !.at = "enqueue", !.request = r]]
    BY <1>2, <2>4 DEF Calls
  <2>6. r.version \in Versions /\ r.document \in Documents
    BY <2>1, <2>2
  <2> HIDE DEF r
  <2>7. client' \in [Clients -> Calls] /\ \A e \in Clients : CallOK(e)'
    BY <2>3, <2>5, <2>6, ClientCarries
  <2> QED
    BY <2>7, TypeParts, TypePartsNext DEF Parts, tables, Resolve
<1> QED
  BY <1>1, <1>2 DEF Resolve

LEMMA TypeEnqueue == ASSUME TypeOK, NEW c \in Clients, Enqueue(c) PROVE TypeOK'
<1>1. Asked(c).version \in Versions /\ Asked(c).document \in Documents
  BY TypeParts DEF Parts, CallOK, Enqueue, At
<1>2. client' \in [Clients -> Calls] /\ \A e \in Clients : CallOK(e)'
  BY ClientAnswered DEF Enqueue
<1> QED
  BY <1>1, <1>2, TypeParts, TypePartsNext DEF Parts, Enqueue, tables

LEMMA TypeFault == ASSUME TypeOK, NEW c \in Clients, Fault(c) PROVE TypeOK'
<1>1. client' \in [Clients -> Calls] /\ \A e \in Clients : CallOK(e)'
  BY ClientAnswered DEF Fault
<1>2. used' \in [calls : Nat, faults : Nat, crashes : Nat]
  BY DEF TypeOK, Fault
<1> QED
  BY <1>1, <1>2, TypeParts, TypePartsNext DEF Parts, Fault, tables

LEMMA TypeRestart == ASSUME TypeOK, Restart PROVE TypeOK'
<1>1. NoCall \in Calls /\ NoCall.at = "idle"
  BY RequestsCarried DEF NoCall, Calls, Places
<1>2. client' \in [Clients -> Calls]
  BY <1>1 DEF Restart
<1>3. \A e \in Clients : CallOK(e)'
  BY <1>1 DEF Restart, CallOK, At
<1>4. used' \in [calls : Nat, faults : Nat, crashes : Nat]
  BY DEF TypeOK, Restart
<1> QED
  BY <1>2, <1>3, <1>4, TypeParts, TypePartsNext DEF Parts, Restart, tables

LEMMA TypeNext == TypeOK /\ [Next]_vars => TypeOK'
<1> SUFFICES ASSUME TypeOK, [Next]_vars PROVE TypeOK'
  OBVIOUS
<1>1. CASE UNCHANGED vars
  BY <1>1 DEF vars, tables, TypeOK, At, Asked, First
<1>2. ASSUME NEW c \in Clients, Call(c) \/ Assemble(c) \/ Load(c) PROVE TypeOK'
  BY <1>2, TypeCall, TypeAssemble, TypeLoadInsert, TypeLoadAudit, TypeLoadEnds DEF Load
<1>3. ASSUME NEW c \in Clients, Change(c) PROVE TypeOK'
  BY <1>3, TypeRegister, TypeFetch, TypeToggle, TypeDelete, TypeAudit DEF Change
<1>4. ASSUME NEW c \in Clients, Resolve(c) \/ Enqueue(c) \/ Fault(c) PROVE TypeOK'
  BY <1>4, TypeResolve, TypeEnqueue, TypeFault
<1> QED
  BY <1>1, <1>2, <1>3, <1>4, TypeRestart DEF Next

(* Every reachable state is well typed: a thread carries what its next       *)
(* statement needs, also between the two halves of a load.                  *)
THEOREM TypeCorrect == Spec => []TypeOK
<1>1. Init => TypeOK
  BY TypeInit
<1>2. TypeOK /\ [Next]_vars => TypeOK'
  BY TypeNext
<1> QED
  BY <1>1, <1>2, PTL DEF Spec
-----------------------------------------------------------------------------
(* Rows are kept.                                                           *)

RowKept(v) ==
  rows[v] # Absent /\ rows'[v] # Absent =>
    /\ rows'[v].document = rows[v].document
    /\ rows'[v].enabled # rows[v].enabled =>
         \E c \in Clients : /\ At(c, "write") /\ Asked(c).version = v
                            /\ Asked(c).op \in {"enable", "disable"}

LEMMA InsertKeeps ==
  ASSUME TypeOK, NEW u, NEW d, ~Conflict(u), Insert(u, d), NEW v \in Versions
  PROVE  RowKept(v)
BY DEF TypeOK, Conflict, Insert, RowKept

LEMMA ToggleKeeps ==
  ASSUME TypeOK, NEW c \in Clients, Toggle(c), NEW v \in Versions
  PROVE  RowKept(v)
<1> DEFINE u == Asked(c).version
<1>1. CASE rows[u] = Absent \/ u # v
  <2>1. rows'[v] = rows[v]
    BY <1>1 DEF Toggle, TypeOK
  <2> QED
    BY <2>1 DEF RowKept
<1>2. CASE rows[u] # Absent /\ u = v
  <2>1. rows[v] \in [document : Documents, enabled : BOOLEAN]
    BY <1>2, StoredRow
  <2>2. rows'[v] = [rows[v] EXCEPT !.enabled = (Asked(c).op = "enable")]
    BY <1>2 DEF Toggle, TypeOK
  <2>3. rows'[v].document = rows[v].document
    BY <2>1, <2>2
  <2> QED
    BY <1>2, <2>3 DEF RowKept, Toggle
<1> QED
  BY <1>1, <1>2

LEMMA DeleteKeeps ==
  ASSUME TypeOK, NEW c \in Clients, Delete(c), NEW v \in Versions
  PROVE  RowKept(v)
BY DEF TypeOK, Delete, RowKept

LEMMA StepKeeps == TypeOK /\ [Next]_vars => \A v \in Versions : RowKept(v)
<1> SUFFICES ASSUME TypeOK, [Next]_vars, NEW v \in Versions PROVE RowKept(v)
  OBVIOUS
<1>1. CASE UNCHANGED rows
  BY <1>1 DEF RowKept
<1>2. ASSUME NEW c \in Clients, LoadInsert(c) PROVE RowKept(v)
  BY <1>1, <1>2, InsertKeeps DEF LoadInsert, tables
<1>3. ASSUME NEW c \in Clients, Register(c) PROVE RowKept(v)
  BY <1>1, <1>3, InsertKeeps DEF Register, tables
<1>4. ASSUME NEW c \in Clients, Toggle(c) \/ Delete(c) PROVE RowKept(v)
  BY <1>4, ToggleKeeps, DeleteKeeps
<1>5. ASSUME NEW c \in Clients,
             \/ Call(c) \/ Assemble(c) \/ LoadAudit(c) \/ LoadEnds(c) \/ Fetch(c)
             \/ Audit(c) \/ Resolve(c) \/ Enqueue(c) \/ Fault(c)
      PROVE  UNCHANGED rows
  BY <1>5 DEF Call, Assemble, LoadAudit, LoadEnds, Fetch, Audit, Resolve, Enqueue, Fault, tables
<1>6. Restart \/ UNCHANGED vars => UNCHANGED rows
  BY DEF Restart, vars, tables
<1> QED
  BY <1>1, <1>2, <1>3, <1>4, <1>5, <1>6 DEF Next, Load, Change

(* A stored version is immutable, and only a caller's request enables or     *)
(* disables it, whatever registers, deletes, loads, fails and restarts       *)
(* around it.                                                               *)
THEOREM VersionsImmutable == Spec => RowsKept
<1>1. TypeOK /\ [Next]_vars => [\A v \in Versions : RowKept(v)]_vars
  BY StepKeeps
<1> QED
  BY <1>1, TypeCorrect, PTL DEF Spec, RowsKept, RowKept
-----------------------------------------------------------------------------
(* Registrations are audited.  The invariant of the runs is not inductive:   *)
(* what a call is about to write to the audit trail, or to run, must have    *)
(* been inserted before.                                                    *)

Told == {<<e.version, e.document>> : e \in Events("registered")}

(* What the call of one thread has in its hands was inserted.               *)
Held(c) ==
  /\ At(c, "loadAudit") => First(c) \subseteq made
  /\ At(c, "audit") /\ Asked(c).op = "register" =>
       <<Asked(c).version, Asked(c).document>> \in made
  /\ At(c, "enqueue") => <<Asked(c).version, Asked(c).document>> \in made

(* Thread c is about to write the event of document d as version v.         *)
Tells(c, v, d) ==
  \/ At(c, "loadAudit") /\ <<v, d>> \in First(c)
  \/ At(c, "audit") /\ Asked(c) = [op |-> "register", version |-> v, document |-> d]

StoredMade == \A v \in Versions : rows[v] # Absent => <<v, rows[v].document>> \in made

Complete ==
  used.faults = 0 /\ used.crashes = 0 =>
    \A p \in made : p \in Told \/ \E c \in Clients : Tells(c, p[1], p[2])

AuditInv ==
  /\ StoredMade
  /\ Told \subseteq made
  /\ tasks \subseteq made
  /\ \A c \in Clients : Held(c)
  /\ Complete

OthersStay(c) == \A e \in Clients : e # c => client'[e] = client[e]

LEMMA AuditInvImplies == AuditInv => RegistrationsAudited
BY DEF AuditInv, RegistrationsAudited, Told, Complete, Registering, Tells

LEMMA EventsEmitted ==
  ASSUME TypeOK, NEW x, NEW v, NEW d, Emit(x, v, d)
  PROVE  Told' = IF x = "registered" THEN Told \cup {<<v, d>>} ELSE Told
<1> DEFINE new == [event |-> x, version |-> v, document |-> d]
<1>1. audit' = Append(audit, new)
  BY DEF Emit
<1>2. \E S : audit \in Seq(S)
  BY DEF TypeOK
<1>3. PICK S : audit \in Seq(S)
  BY <1>2
<1>4. /\ Len(audit) \in Nat /\ DOMAIN audit = 1 .. Len(audit)
      /\ DOMAIN audit' = 1 .. Len(audit) + 1
      /\ audit'[Len(audit) + 1] = new
      /\ \A n \in 1 .. Len(audit) : audit'[n] = audit[n]
  BY <1>1, <1>3
<1> HIDE DEF new
<1>5. {audit'[n] : n \in DOMAIN audit'} = {audit[n] : n \in DOMAIN audit} \cup {new}
  BY <1>4
<1>6. Events("registered")' = {e \in {audit[n] : n \in DOMAIN audit} \cup {new} : e.event = "registered"}
  BY <1>5 DEF Events
<1>7. new.event = x /\ new.version = v /\ new.document = d
  BY DEF new
<1>8. Events("registered")' = IF x = "registered" THEN Events("registered") \cup {new}
                              ELSE Events("registered")
  BY <1>6, <1>7 DEF Events
<1>9. CASE x = "registered"
  BY <1>7, <1>8, <1>9 DEF Told
<1>10. CASE x # "registered"
  BY <1>8, <1>10 DEF Told
<1> QED
  BY <1>9, <1>10

(* Of the shipped files a load has left, at most one is first.              *)
LEMMA FirstUnique ==
  ASSUME TypeOK, NEW c \in Clients, NEW p \in First(c), NEW q \in First(c)
  PROVE  p = q
<1>1. p \in Official /\ q \in Official /\ p[1] \in Nat /\ q[1] \in Nat
  BY FileTyped, DataAssumption
<1>2. p[1] <= q[1] /\ q[1] <= p[1]
  BY FileTyped DEF First
<1> QED
  BY <1>1, <1>2, DataAssumption

(* A step of thread c keeps the invariant if what c holds, tells and adds is *)
(* accounted for.                                                           *)
LEMMA OneThread ==
  ASSUME AuditInv, NEW c \in Clients, OthersStay(c),
         made \subseteq made', Told \subseteq Told', used'.faults = 0 => used.faults = 0,
         used'.crashes = 0 => used.crashes = 0,
         StoredMade', Told' \subseteq made', tasks' \subseteq made', Held(c)',
         \A p \in made' : \/ p \in Told' \/ Tells(c, p[1], p[2])'
                          \/ p \in made /\ ~Tells(c, p[1], p[2])
  PROVE  AuditInv'
<1>1. \A e \in Clients : e # c => client'[e] = client[e]
  BY DEF OthersStay
<1>2. ASSUME NEW e \in Clients PROVE Held(e)'
  <2>1. CASE e # c
    BY <2>1, <1>1 DEF AuditInv, Held, At, Asked, First
  <2> QED
    BY <2>1
<1>3. ASSUME NEW e \in Clients, e # c, NEW v, NEW d, Tells(e, v, d) PROVE Tells(e, v, d)'
  BY <1>3, <1>1 DEF Tells, At, Asked, First
<1>4. ASSUME used'.faults = 0, used'.crashes = 0, NEW p \in made'
      PROVE  p \in Told' \/ \E e \in Clients : Tells(e, p[1], p[2])'
  <2>1. CASE p \in made /\ ~Tells(c, p[1], p[2])
    <3>1. p \in Told \/ \E e \in Clients : Tells(e, p[1], p[2])
      BY <1>4, <2>1 DEF AuditInv, Complete
    <3> QED
      BY <3>1, <2>1, <1>3
  <2> QED
    BY <2>1
<1>5. Complete'
  BY <1>4 DEF Complete
<1> QED
  BY <1>2, <1>5 DEF AuditInv

(* A step of thread c that neither inserts, nor tells, nor takes up anything *)
(* to tell or to run.                                                       *)
LEMMA QuietStep ==
  ASSUME TypeOK, AuditInv, NEW c \in Clients, OthersStay(c), UNCHANGED <<rows, made, audit, tasks>>,
         used'.faults = 0 => used.faults = 0, used'.crashes = 0 => used.crashes = 0,
         client[c].at \notin {"loadAudit", "audit"} \/ used'.faults # 0,
         client'[c].at \notin {"loadAudit", "audit", "enqueue"}
  PROVE  AuditInv'
<1>1. Told' = Told /\ StoredMade'
  BY DEF Told, Events, AuditInv, StoredMade
<1>2. Held(c)'
  BY DEF Held, At
<1>3. CASE client[c].at \notin {"loadAudit", "audit"}
  <2>1. \A v, d : ~Tells(c, v, d)
    BY <1>3 DEF Tells, At
  <2> QED
    BY <1>1, <1>2, <2>1, OneThread DEF AuditInv
<1>4. CASE used'.faults # 0
  <2>1. \A e \in Clients : Held(e)'
    BY <1>2 DEF OthersStay, AuditInv, Held, At, Asked, First
  <2> QED
    BY <1>1, <1>4, <2>1 DEF AuditInv, Complete
<1> QED
  BY <1>3, <1>4

LEMMA ChangesOne ==
  ASSUME TypeOK, NEW c \in Clients, NEW e \in Clients, e # c, NEW at, NEW p,
         Answers(c) \/ Goes(c, at) \/ Loaded(c, p)
  PROVE  client'[e] = client[e]
BY DEF TypeOK, Answers, Goes, Loaded

LEMMA AuditCall == ASSUME TypeOK, AuditInv, NEW c \in Clients, Call(c) PROVE AuditInv'
<1>1. PICK r \in Requests :
        /\ At(c, "idle")
        /\ used' = [used EXCEPT !.calls = @ + 1]
        /\ client' = [client EXCEPT ![c] = [request |-> r, at |-> "assemble", left |-> {}]]
        /\ UNCHANGED <<tables, audit, registry, tasks>>
  BY DEF Call
<1>2. OthersStay(c) /\ client'[c].at = "assemble"
  BY <1>1 DEF OthersStay, TypeOK
<1>3. used'.faults = used.faults /\ used'.crashes = used.crashes
  BY <1>1 DEF TypeOK
<1> QED
  BY <1>1, <1>2, <1>3, QuietStep DEF At, tables

LEMMA AuditAssemble == ASSUME TypeOK, AuditInv, NEW c \in Clients, Assemble(c) PROVE AuditInv'
<1>1. OthersStay(c)
  BY DEF OthersStay, TypeOK, Assemble
<1>2. client'[c].at \in {"load", "write", "fetch"}
  BY DEF TypeOK, Assemble, Enters
<1> QED
  BY <1>1, <1>2, QuietStep DEF Assemble, At, tables

LEMMA AuditLoadEnds == ASSUME TypeOK, AuditInv, NEW c \in Clients, LoadEnds(c) PROVE AuditInv'
<1>1. OthersStay(c)
  BY ChangesOne DEF OthersStay, LoadEnds
<1>2. client'[c].at \in {"write", "fetch"}
  BY DEF TypeOK, LoadEnds, Goes, Enters
<1> QED
  BY <1>1, <1>2, QuietStep DEF LoadEnds, At, tables

LEMMA AuditFetch == ASSUME TypeOK, AuditInv, NEW c \in Clients, Fetch(c) PROVE AuditInv'
<1>1. OthersStay(c)
  BY DEF OthersStay, TypeOK, Fetch, Answers
<1>2. client'[c].at \in {"idle", "write"}
  BY DEF TypeOK, Fetch, Answers, NoCall
<1> QED
  BY <1>1, <1>2, QuietStep DEF Fetch, At, tables

LEMMA AuditFault == ASSUME TypeOK, AuditInv, NEW c \in Clients, Fault(c) PROVE AuditInv'
<1>1. OthersStay(c)
  BY ChangesOne DEF OthersStay, Fault
<1>2. client'[c].at = "idle"
  BY DEF TypeOK, Fault, Answers, NoCall
<1>3. used'.faults # 0 /\ used'.crashes = used.crashes
  BY DEF TypeOK, Fault
<1> QED
  BY <1>1, <1>2, <1>3, QuietStep DEF Fault, tables

LEMMA AuditResolve == ASSUME TypeOK, AuditInv, NEW c \in Clients, Resolve(c) PROVE AuditInv'
<1>1. CASE Answers(c)
  <2>1. OthersStay(c) /\ client'[c].at = "idle"
    BY <1>1, ChangesOne DEF OthersStay, TypeOK, Answers, NoCall
  <2> QED
    BY <2>1, QuietStep DEF Resolve, At, tables
<1>2. ASSUME NEW v \in Candidates(Asked(c).version), rows[v].enabled,
             client' = [client EXCEPT ![c].at = "enqueue", ![c].request =
               [op |-> "submit", version |-> v, document |-> rows[v].document]]
      PROVE  AuditInv'
  <2>1. v \in Versions /\ rows[v] # Absent
    BY <1>2 DEF Candidates, Latest, Present
  <2>2. <<v, rows[v].document>> \in made
    BY <2>1 DEF AuditInv, StoredMade
  <2>3. OthersStay(c)
    BY <1>2 DEF OthersStay, TypeOK
  <2>4. client'[c].at = "enqueue" /\ client'[c].request.version = v
        /\ client'[c].request.document = rows[v].document
    BY <1>2 DEF TypeOK
  <2>5. UNCHANGED <<rows, made, audit, tasks, used>>
    BY DEF Resolve, tables
  <2>6. Held(c)'
    BY <2>2, <2>4, <2>5 DEF Held, At, Asked
  <2>7. Told' = Told /\ StoredMade'
    BY <2>5 DEF Told, Events, AuditInv, StoredMade
  <2>8. \A u, d : ~Tells(c, u, d)
    BY DEF Resolve, Tells, At
  <2> QED
    BY <2>3, <2>5, <2>6, <2>7, <2>8, OneThread DEF AuditInv
<1> QED
  BY <1>1, <1>2 DEF Resolve

LEMMA AuditEnqueue == ASSUME TypeOK, AuditInv, NEW c \in Clients, Enqueue(c) PROVE AuditInv'
<1>1. OthersStay(c) /\ client'[c].at = "idle"
  BY ChangesOne DEF OthersStay, TypeOK, Enqueue, Answers, NoCall
<1>2. UNCHANGED <<rows, made, audit, used>>
  BY DEF Enqueue, tables
<1>3. tasks' \subseteq made'
  BY <1>2 DEF AuditInv, Held, Enqueue
<1>4. Held(c)'
  BY <1>1 DEF Held, At
<1>5. Told' = Told /\ StoredMade'
  BY <1>2 DEF Told, Events, AuditInv, StoredMade
<1>6. \A v, d : ~Tells(c, v, d)
  BY DEF Enqueue, Tells, At
<1> QED
  BY <1>1, <1>2, <1>3, <1>4, <1>5, <1>6, OneThread DEF AuditInv

(* A toggle or a deletion: the document of a row that stays is the same.     *)
LEMMA AuditChange ==
  ASSUME TypeOK, AuditInv, NEW c \in Clients, Toggle(c) \/ Delete(c)
  PROVE  AuditInv'
<1>1. /\ At(c, "write") /\ Asked(c).op # "register" /\ Goes(c, "audit")
      /\ UNCHANGED <<made, audit, tasks, used>>
  BY DEF Toggle, Delete
<1>2. OthersStay(c)
  BY <1>1, ChangesOne DEF OthersStay
<1>3. client'[c].at = "audit" /\ client'[c].request = client[c].request
  BY <1>1 DEF Goes, TypeOK
<1>4. Held(c)'
  BY <1>1, <1>3 DEF Held, At, Asked
<1>5. ASSUME NEW v \in Versions, rows'[v] # Absent PROVE <<v, rows'[v].document>> \in made
  <2>1. CASE Toggle(c)
    <3>1. rows[v] # Absent
      BY <1>5, <2>1 DEF Toggle, TypeOK
    <3>2. rows'[v].document = rows[v].document
      BY <1>5, <2>1, <3>1, ToggleKeeps DEF RowKept
    <3> QED
      BY <3>1, <3>2 DEF AuditInv, StoredMade
  <2>2. CASE Delete(c)
    <3>1. rows[v] # Absent /\ rows'[v] = rows[v]
      BY <1>5, <2>2 DEF Delete, TypeOK
    <3> QED
      BY <3>1 DEF AuditInv, StoredMade
  <2> QED
    BY <2>1, <2>2
<1>6. StoredMade' /\ Told' = Told
  BY <1>1, <1>5 DEF StoredMade, Told, Events
<1>7. \A v, d : ~Tells(c, v, d)
  BY <1>1 DEF Tells, At
<1> QED
  BY <1>1, <1>2, <1>4, <1>6, <1>7, OneThread DEF AuditInv

LEMMA InsertMakes ==
  ASSUME TypeOK, AuditInv, NEW u \in Versions, NEW d, Insert(u, d)
  PROVE  StoredMade' /\ made' = made \cup {<<u, d>>}
<1>1. made' = made \cup {<<u, d>>}
  BY DEF Insert
<1>2. \A v \in Versions : rows'[v] = IF v = u THEN [document |-> d, enabled |-> TRUE] ELSE rows[v]
  BY DEF Insert, TypeOK
<1>3. StoredMade'
  BY <1>1, <1>2 DEF StoredMade, AuditInv
<1> QED
  BY <1>1, <1>3

LEMMA AuditLoadInsert ==
  ASSUME TypeOK, AuditInv, NEW c \in Clients, LoadInsert(c) PROVE AuditInv'
<1>1. PICK p \in First(c) :
        /\ At(c, "load")
        /\ \/ Conflict(p[1]) /\ Loaded(c, p) /\ UNCHANGED tables
           \/ ~Conflict(p[1]) /\ Insert(p[1], p[2]) /\ Goes(c, "loadAudit") /\ UNCHANGED removed
        /\ UNCHANGED <<audit, registry, tasks, used>>
  BY DEF LoadInsert
<1>2. OthersStay(c)
  BY <1>1, ChangesOne DEF OthersStay
<1>3. CASE Loaded(c, p) /\ UNCHANGED tables
  <2>1. client'[c].at = "load"
    BY <1>3 DEF Loaded, TypeOK
  <2> QED
    BY <1>1, <1>2, <1>3, <2>1, QuietStep DEF At, tables
<1>4. CASE Insert(p[1], p[2]) /\ Goes(c, "loadAudit")
  <2>1. p = <<p[1], p[2]>> /\ p[1] \in Versions
    BY FileTyped
  <2>2. StoredMade' /\ made' = made \cup {p}
    BY <1>4, <2>1, InsertMakes
  <2>3. client'[c].at = "loadAudit" /\ client'[c].left = client[c].left
    BY <1>4 DEF Goes, TypeOK
  <2>4. First(c)' = First(c)
    BY <2>3 DEF First
  <2>5. First(c) = {p}
    BY FirstUnique
  <2>6. Held(c)'
    BY <2>2, <2>3, <2>4, <2>5 DEF Held, At
  <2>7. Told' = Told
    BY <1>1 DEF Told, Events
  <2>8. Tells(c, p[1], p[2])'
    BY <2>1, <2>3, <2>4, <2>5 DEF Tells, At
  <2>9. \A v, d : ~Tells(c, v, d)
    BY <1>1 DEF Tells, At
  <2> QED
    BY <1>1, <1>2, <2>2, <2>6, <2>7, <2>8, <2>9, OneThread DEF AuditInv
<1> QED
  BY <1>1, <1>3, <1>4

LEMMA AuditLoadAudit ==
  ASSUME TypeOK, AuditInv, NEW c \in Clients, LoadAudit(c) PROVE AuditInv'
<1>1. PICK p \in First(c) :
        /\ At(c, "loadAudit") /\ Emit("registered", p[1], p[2]) /\ Loaded(c, p)
        /\ UNCHANGED <<tables, registry, tasks, used>>
  BY DEF LoadAudit
<1>2. OthersStay(c) /\ client'[c].at = "load"
  BY <1>1, ChangesOne DEF OthersStay, Loaded, TypeOK
<1>3. p = <<p[1], p[2]>> /\ p \in made
  BY <1>1, FileTyped DEF AuditInv, Held
<1>4. Told' = Told \cup {p}
  BY <1>1, <1>3, EventsEmitted
<1>5. Held(c)'
  BY <1>2 DEF Held, At
<1>6. \A v, d : Tells(c, v, d) => <<v, d>> = p
  BY <1>1, FirstUnique DEF Tells, At
<1>7. UNCHANGED <<rows, made>> /\ StoredMade'
  BY <1>1 DEF tables, AuditInv, StoredMade
<1>8. \A q \in made : q = <<q[1], q[2]>>
  BY DEF TypeOK
<1> QED
  BY <1>1, <1>2, <1>3, <1>4, <1>5, <1>6, <1>7, <1>8, OneThread DEF AuditInv

LEMMA AuditRegister == ASSUME TypeOK, AuditInv, NEW c \in Clients, Register(c) PROVE AuditInv'
<1> DEFINE v == Asked(c).version
           d == Asked(c).document
<1>1. At(c, "write") /\ Asked(c).op = "register" /\ UNCHANGED <<audit, tasks, used>>
  BY DEF Register
<1>2. OthersStay(c)
  BY ChangesOne DEF OthersStay, Register
<1>3. CASE Answers(c) /\ UNCHANGED tables
  <2>1. client'[c].at = "idle"
    BY <1>3 DEF Answers, NoCall, TypeOK
  <2> QED
    BY <1>1, <1>2, <1>3, <2>1, QuietStep DEF At, tables
<1>4. CASE Insert(v, d) /\ Goes(c, "audit")
  <2>1. v \in Versions
    BY <1>1, Carries DEF At
  <2>2. StoredMade' /\ made' = made \cup {<<v, d>>}
    BY <1>4, <2>1, InsertMakes
  <2>3. client'[c].at = "audit" /\ client'[c].request = client[c].request
    BY <1>4 DEF Goes, TypeOK
  <2>4. Asked(c) = [op |-> "register", version |-> v, document |-> d]
    BY <1>1, TypeParts DEF Parts, Calls, Carried, Asked
  <2>5. Held(c)' /\ \A w, e : w = v /\ e = d => Tells(c, w, e)'
    BY <2>2, <2>3, <2>4 DEF Held, Tells, At, Asked
  <2>6. Told' = Told
    BY <1>1 DEF Told, Events
  <2>7. \A w, e : ~Tells(c, w, e)
    BY <1>1 DEF Tells, At
  <2>8. \A p \in made' : p \in made \/ Tells(c, p[1], p[2])'
    BY <2>2, <2>5
  <2>9. Told' \subseteq made' /\ tasks' \subseteq made'
    BY <1>1, <2>2, <2>6 DEF AuditInv
  <2> HIDE DEF v, d
  <2> QED
    BY <1>1, <1>2, <2>2, <2>5, <2>6, <2>7, <2>8, <2>9, OneThread
<1> QED
  BY <1>3, <1>4 DEF Register

LEMMA AuditAudit == ASSUME TypeOK, AuditInv, NEW c \in Clients, Audit(c) PROVE AuditInv'
<1> DEFINE v == Asked(c).version
           d == Asked(c).document
           op == Asked(c).op
<1>1. /\ At(c, "audit") /\ Emit(Past[op], v, d) /\ Answers(c)
      /\ UNCHANGED <<tables, registry, tasks, used>>
  BY DEF Audit
<1>2. OthersStay(c) /\ client'[c].at = "idle"
  BY <1>1, ChangesOne DEF OthersStay, Answers, NoCall, TypeOK
<1>3. op \in DOMAIN Past
  BY <1>1, Carries DEF At
<1>4. Past[op] = "registered" <=> op = "register"
  BY <1>3 DEF Past
<1>5. Told' = IF op = "register" THEN Told \cup {<<v, d>>} ELSE Told
  BY <1>1, <1>4, EventsEmitted
<1>6. op = "register" => <<v, d>> \in made
  BY <1>1 DEF AuditInv, Held
<1>7. Held(c)'
  BY <1>2 DEF Held, At
<1>8. \A w, e : Tells(c, w, e) => op = "register" /\ w = v /\ e = d
  BY <1>1 DEF Tells, At
<1>9. UNCHANGED <<rows, made>> /\ StoredMade'
  BY <1>1 DEF tables, AuditInv, StoredMade
<1>10. \A q \in made : q = <<q[1], q[2]>>
  BY DEF TypeOK
<1> HIDE DEF v, d, op
<1> QED
  BY <1>1, <1>2, <1>5, <1>6, <1>7, <1>8, <1>9, <1>10, OneThread DEF AuditInv

LEMMA AuditRestart == ASSUME TypeOK, AuditInv, Restart PROVE AuditInv'
<1>1. used'.crashes # 0
  BY DEF Restart, TypeOK
<1>2. \A c \in Clients : client'[c].at = "idle"
  BY DEF Restart, NoCall
<1>3. \A c \in Clients : Held(c)'
  BY <1>2 DEF Held, At
<1>4. UNCHANGED <<rows, made, audit, tasks>>
  BY DEF Restart, tables
<1> QED
  BY <1>1, <1>3, <1>4 DEF AuditInv, Complete, StoredMade, Told, Events

LEMMA AuditInit == Init => AuditInv
<1> SUFFICES ASSUME Init PROVE AuditInv
  OBVIOUS
<1>1. DOMAIN audit = {}
  BY DEF Init
<1>2. Told = {}
  BY <1>1 DEF Told, Events
<1>3. \A c \in Clients : Held(c)
  BY DEF Init, Held, At, NoCall
<1> QED
  BY <1>2, <1>3 DEF Init, AuditInv, StoredMade, Complete

LEMMA AuditNext == TypeOK /\ AuditInv /\ [Next]_vars => AuditInv'
<1> SUFFICES ASSUME TypeOK, AuditInv, [Next]_vars PROVE AuditInv'
  OBVIOUS
<1>1. CASE UNCHANGED vars
  BY <1>1 DEF vars, tables, AuditInv, StoredMade, Told, Events, Complete, Tells, Held, At, Asked, First
<1>2. ASSUME NEW c \in Clients, Call(c) \/ Assemble(c) \/ Load(c) PROVE AuditInv'
  BY <1>2, AuditCall, AuditAssemble, AuditLoadInsert, AuditLoadAudit, AuditLoadEnds DEF Load
<1>3. ASSUME NEW c \in Clients, Change(c) PROVE AuditInv'
  BY <1>3, AuditRegister, AuditFetch, AuditChange, AuditAudit DEF Change
<1>4. ASSUME NEW c \in Clients, Resolve(c) \/ Enqueue(c) \/ Fault(c) PROVE AuditInv'
  BY <1>4, AuditResolve, AuditEnqueue, AuditFault
<1> QED
  BY <1>1, <1>2, <1>3, <1>4, AuditRestart DEF Next

(* The audit trail names only documents that were stored, a task runs one of *)
(* them, and without faults and restarts every stored document is named or   *)
(* about to be, however registrations and the load overlap.                  *)
THEOREM AuditTrustworthy == Spec => []RegistrationsAudited
<1>1. Init => AuditInv
  BY AuditInit
<1>2. TypeOK /\ AuditInv /\ [Next]_vars => AuditInv'
  BY AuditNext
<1>3. AuditInv => RegistrationsAudited
  BY AuditInvImplies
<1> QED
  BY <1>1, <1>2, <1>3, TypeCorrect, PTL DEF Spec
=============================================================================
