--------------------------- MODULE DslSkillProofs ---------------------------
(***************************************************************************)
(* What holds of every task of a declarative skill, for any document, inputs, *)
(* budgets, deadline and device faults.                                     *)
(*                                                                          *)
(* Admitted says which gates the document passed, Placed where the            *)
(* interpreter is in it, and Counted how many records each of its steps has   *)
(* left: once the document is over, these are what SuccessIsWhole asks for.   *)
(* Steps are named by their places, and a document that was accepted gives    *)
(* every place an id of its own (Apart).                                    *)
(***************************************************************************)
EXTENDS DslSkill, FiniteSetTheorems, TLAPS

-----------------------------------------------------------------------------
(* The invariant.                                                           *)

Stepping == {"act", "dispatch", "verify"}
Running  == {"boundary", "iterate", "body"} \cup Stepping
Early    == {"offered", "registered", "queued"}

RecordType == [id : STRING, status : {"succeeded", "failed"}, error : Errors]
TruthType  == [id : STRING, outcome : {"none", "sent", "done", "not_verified"}]
ResultType == [status : {"none", "rejected", "succeeded", "failed", "cancelled", "timed_out"},
               error : Errors]

\* The document passed registration and both gates.
Gated == /\ WellFormed(doc)
         /\ RiskError(doc) = "none"
         /\ GateError(doc, call.confirmed) = "none"

Task ==
  /\ doc \in Documents
  /\ call \in [values : [doc.inputs -> {"good", "bad", "absent"}], confirmed : BOOLEAN,
               budget : [rounds : Budgets, time : Budgets]]
  /\ pc \in Early \cup Running \cup {"done"}
  /\ clock \in 0 .. MaxTime
  /\ cancelled \in BOOLEAN
Interpreting ==
  /\ top \in 1 .. (Len(doc.steps) + 1)
  /\ current \in ActionSteps(doc) \cup {None}
  /\ (current # None) = (pc \in Stepping)
  /\ todo \in Seq(ActionSteps(doc))
  /\ loop \in [rounds : Nat, until : Nat]
Reports ==
  /\ records \in Seq(RecordType)
  /\ \A n \in DOMAIN records : /\ records[n].id \in {s.id : s \in AllSteps(doc)}
                               /\ records[n].status = "succeeded" => records[n].error = "none"
  /\ result \in ResultType
  /\ (pc = "done") = (result.status # "none")
Histories ==
  /\ faults \in 0 .. MaxFaults
  /\ truth \in Seq(TruthType)
  /\ late \in Nat
Typed == Task /\ Interpreting /\ Reports /\ Histories

\* Nothing runs, and nothing has run, past the gates without passing them.
Admitted ==
  /\ pc \in {"registered", "queued"} => WellFormed(doc) /\ RiskError(doc) = "none"
  /\ pc \in {"queued"} \cup Running => Gated
  /\ truth # <<>> \/ records # <<>> => Gated
  /\ pc \in Early => top = 1 /\ records = <<>>

\* The steps an if takes when the step it looks at succeeded, as every step has
\* that the interpreter went past; a loop's are its body.
Source(s) == IF s.type = "loop" THEN s.body
             ELSE IF s.equals = "succeeded" THEN s.then ELSE s.else
Size(s) == Len(Source(s))
\* Where they begin in the places of the step.
Off(s) == IF s.type = "if" /\ s.equals # "succeeded" THEN Len(s.then) ELSE 0

\* What is left of the source, and how many of its steps were begun.
Begun == Size(Here) - Len(todo)
Rest == /\ Len(todo) <= Size(Here)
        /\ \A n \in 1 .. Len(todo) : todo[n] = Source(Here)[Begun + n]

\* Where the interpreter is in the document.
Placed ==
  /\ pc \in Running \ {"boundary"} => top <= Len(doc.steps)
  /\ pc = "iterate" => Here.type = "loop"
  /\ pc = "body" => Here.type \in {"loop", "if"} /\ Rest
  /\ pc \in Stepping =>
       \/ IsAction(Here) /\ current = Here
       \/ /\ Here.type \in {"loop", "if"} /\ Rest
          /\ Begun >= 1 /\ current = Source(Here)[Begun]
  /\ pc \in Running \ {"boundary"} /\ Here.type = "loop" =>
       loop.rounds <= Rounds(Here) /\ (pc # "iterate" => loop.rounds >= 1)

\* How many records name the step at a place.
Count(rs, id) == Cardinality({n \in DOMAIN rs : rs[n].id = id})
At(i, k) == StepAt(doc, <<i, k>>)
Place(i, k) == i \in DOMAIN doc.steps /\ k \in 0 .. Len(Body(doc.steps[i]))
N(i, k) == Count(records, At(i, k).id)

\* The records of a top-level step the interpreter went past.
Passed(i) ==
  LET s == doc.steps[i]
  IN /\ N(i, 0) = 1
     /\ \A n \in DOMAIN records : records[n].id = s.id => records[n].status = "succeeded"
     /\ s.type = "loop" =>
          \A k \in 1 .. Len(Body(s)) : /\ N(i, k) <= Rounds(s)
                                       /\ \A l \in 1 .. Len(Body(s)) : N(i, k) = N(i, l)
     /\ s.type = "if" =>
          \A k \in 1 .. Len(Body(s)) :
            N(i, k) = IF k \in (Off(s) + 1) .. (Off(s) + Size(s)) THEN 1 ELSE 0

\* The records of the k-th body step of the container the interpreter is in: one
\* for each round, and one less where the round has not come to it.
Full == IF Here.type = "loop" THEN loop.rounds ELSE 1
Ran == IF pc = "body" THEN Begun ELSE Begun - 1
Expected(k) ==
  IF k \notin (Off(Here) + 1) .. (Off(Here) + Size(Here)) THEN 0
  ELSE IF pc = "iterate" \/ k <= Off(Here) + Ran THEN Full ELSE Full - 1

Counted ==
  pc \in Running =>
    /\ \A i \in DOMAIN doc.steps : i < top => Passed(i)
    /\ \A i, k \in Nat : Place(i, k) /\ (i > top \/ (i = top /\ (k = 0 \/ pc = "boundary"))) =>
                           N(i, k) = 0
    /\ pc # "boundary" => \A k \in 1 .. Len(Body(Here)) : N(top, k) = Expected(k)

\* Only the step whose boundary had been passed begins after a stop.
LateKnown == late <= 1 /\ (late = 1 => Stop # "no" /\ pc # "act")

\* No loop has gone over its budget.
InBudget ==
  \A i, k \in Nat : Place(i, k) /\ k # 0 /\ doc.steps[i].type = "loop" /\ N(i, k) # 0 =>
                       N(i, k) <= Rounds(doc.steps[i])

Inv == Typed /\ Admitted /\ Placed /\ Counted /\ LateKnown /\ InBudget /\ SuccessIsWhole
-----------------------------------------------------------------------------
(* The document.                                                            *)

LEMMA StepKinds ==
  ASSUME NEW d \in Document, NEW i \in DOMAIN d.steps
  PROVE  /\ d.steps[i] \in Actions \cup Loops \cup Ifs
         /\ d.steps[i].type \in {"tool", "skill", "loop", "if"}
         /\ IsAction(d.steps[i]) <=> d.steps[i] \in Actions
         /\ d.steps[i].type = "loop" <=> d.steps[i] \in Loops
         /\ d.steps[i].type = "if" <=> d.steps[i] \in Ifs
<1>1. d.steps[i] \in Actions \cup Loops \cup Ifs
  BY DEF Document
<1>2. \A s \in Actions : IsAction(s) /\ s.type \in {"tool", "skill"}
  BY DEF Actions, IsAction
<1>3. \A s \in Loops : ~IsAction(s) /\ s.type = "loop"
  BY DEF Loops, IsAction
<1>4. \A s \in Ifs : ~IsAction(s) /\ s.type = "if"
  BY DEF Ifs, IsAction
<1> QED
  BY <1>1, <1>2, <1>3, <1>4 DEF IsAction

\* The body of a step, and where its source is in it.
LEMMA Bodies ==
  ASSUME NEW s \in Actions \cup Loops \cup Ifs
  PROVE  /\ Body(s) \in Seq(Actions)
         /\ IsAction(s) => Body(s) = <<>>
         /\ ~IsAction(s) => /\ Source(s) \in Seq(Actions)
                            /\ Off(s) \in Nat
                            /\ Off(s) + Size(s) <= Len(Body(s))
                            /\ \A k \in 1 .. Size(s) : Source(s)[k] = Body(s)[Off(s) + k]
         /\ s.type = "loop" => Body(s) = s.body /\ Source(s) = s.body /\ Off(s) = 0
         /\ s.type = "if" => Body(s) = s.then \o s.else
<1>1. CASE s \in Actions
  BY <1>1 DEF Actions, IsAction, Body
<1>2. CASE s \in Loops
  BY <1>2 DEF Loops, IsAction, Body, Source, Size, Off
<1>3. CASE s \in Ifs
  <2> DEFINE T == s.then
             E == s.else
  <2>1. s.type = "if" /\ ~IsAction(s) /\ T \in Seq(Actions) /\ E \in Seq(Actions)
    BY <1>3 DEF Ifs, IsAction
  <2>2. Body(s) = T \o E
    BY <2>1 DEF Body
  <2>3. /\ s.equals = "succeeded" => Source(s) = T /\ Off(s) = 0
        /\ s.equals # "succeeded" => Source(s) = E /\ Off(s) = Len(T)
    BY <2>1 DEF Source, Off
  <2> HIDE DEF T, E
  <2>4. /\ Len(T \o E) = Len(T) + Len(E) /\ Len(T) \in Nat /\ Len(E) \in Nat
        /\ \A k \in 1 .. Len(T) : (T \o E)[k] = T[k]
        /\ \A k \in 1 .. Len(E) : (T \o E)[Len(T) + k] = E[k]
        /\ T \o E \in Seq(Actions)
    BY <2>1
  <2>5. /\ s.type # "loop" /\ Body(s) \in Seq(Actions)
        /\ s.type = "if" => Body(s) = s.then \o s.else
    BY <2>1, <2>2, <2>4 DEF T, E
  <2>6. CASE s.equals = "succeeded"
    <3>1. Source(s) = T /\ Off(s) = 0 /\ Size(s) = Len(T)
      BY <2>3, <2>6 DEF Size
    <3>2. /\ Off(s) + Size(s) <= Len(T \o E)
          /\ \A k \in 1 .. Size(s) : Source(s)[k] = (T \o E)[Off(s) + k]
      BY <2>4, <3>1
    <3>3. /\ Off(s) + Size(s) <= Len(Body(s))
          /\ \A k \in 1 .. Size(s) : Source(s)[k] = Body(s)[Off(s) + k]
      BY <2>2, <3>2
    <3>4. Source(s) \in Seq(Actions) /\ Off(s) \in Nat
      BY <2>1, <2>4, <3>1
    <3> QED
      BY <2>1, <2>5, <3>3, <3>4
  <2>7. CASE s.equals # "succeeded"
    <3>1. Source(s) = E /\ Off(s) = Len(T) /\ Size(s) = Len(E)
      BY <2>3, <2>7 DEF Size
    <3>2. /\ Off(s) + Size(s) <= Len(T \o E)
          /\ \A k \in 1 .. Size(s) : Source(s)[k] = (T \o E)[Off(s) + k]
      BY <2>4, <3>1
    <3>3. /\ Off(s) + Size(s) <= Len(Body(s))
          /\ \A k \in 1 .. Size(s) : Source(s)[k] = Body(s)[Off(s) + k]
      BY <2>2, <3>2
    <3>4. Source(s) \in Seq(Actions) /\ Off(s) \in Nat
      BY <2>1, <2>4, <3>1
    <3> QED
      BY <2>1, <2>5, <3>3, <3>4
  <2> QED
    BY <2>6, <2>7
<1> QED
  BY <1>1, <1>2, <1>3

LEMMA StepsAtPlaces ==
  ASSUME NEW d \in Document
  PROVE  /\ \A i, k \in Nat : <<i, k>> \in Places(d) <=>
                               i \in DOMAIN d.steps /\ k \in 0 .. Len(Body(d.steps[i]))
         /\ \A i \in Nat : StepAt(d, <<i, 0>>) = d.steps[i]
         /\ \A i, k \in Nat : k # 0 => StepAt(d, <<i, k>>) = Body(d.steps[i])[k]
         /\ \A p \in Places(d) : StepAt(d, p) \in AllSteps(d)
         /\ \A p \in Places(d) : \E i, k \in Nat : p = <<i, k>>
<1>1. d.steps \in Seq(Actions \cup Loops \cup Ifs)
  BY DEF Document
<1>2. \A i, k \in Nat : <<i, k>> \in Places(d) <=>
                        i \in DOMAIN d.steps /\ k \in 0 .. Len(Body(d.steps[i]))
  BY <1>1 DEF Places
<1>3. \A p \in Places(d) : \E i, k \in Nat : p = <<i, k>>
  <2> SUFFICES ASSUME NEW p \in Places(d) PROVE \E i, k \in Nat : p = <<i, k>>
    OBVIOUS
  <2>1. PICK i \in DOMAIN d.steps : p \in {i} \X (0 .. Len(Body(d.steps[i])))
    BY DEF Places
  <2>2. Len(Body(d.steps[i])) \in Nat
    BY <1>1, <2>1, StepKinds, Bodies
  <2> QED
    BY <1>1, <2>1, <2>2
<1> QED
  BY <1>2, <1>3 DEF StepAt, AllSteps

\* An action is an action step of its document wherever it is.
LEMMA ActionsAtPlaces ==
  ASSUME NEW d \in Document, NEW i \in DOMAIN d.steps
  PROVE  /\ IsAction(d.steps[i]) => d.steps[i] \in ActionSteps(d)
         /\ Body(d.steps[i]) \in Seq(ActionSteps(d))
         /\ ~IsAction(d.steps[i]) => Source(d.steps[i]) \in Seq(ActionSteps(d))
<1> DEFINE s == d.steps[i]
<1>0. i \in Nat /\ s \in Actions \cup Loops \cup Ifs
  BY StepKinds DEF Document
<1>1. d.steps[i] \in AllSteps(d)
  <2>1. <<i, 0>> \in Places(d)
    BY <1>0, StepsAtPlaces, Bodies
  <2> QED
    BY <2>1, <1>0, StepsAtPlaces
<1>2. \A k \in 1 .. Len(Body(s)) : Body(s)[k] \in ActionSteps(d)
  <2> SUFFICES ASSUME NEW k \in 1 .. Len(Body(s)) PROVE Body(s)[k] \in ActionSteps(d)
    OBVIOUS
  <2>0. Body(s) \in Seq(Actions)
    BY <1>0, Bodies
  <2>1. <<i, k>> \in Places(d) /\ k # 0 /\ k \in Nat
    BY <2>0, <1>0, StepsAtPlaces
  <2>2. StepAt(d, <<i, k>>) = Body(s)[k]
    BY <2>1, <1>0, StepsAtPlaces
  <2>3. Body(s)[k] \in Actions
    BY <2>0
  <2>4. IsAction(Body(s)[k])
    BY <2>3 DEF Actions, IsAction
  <2> QED
    BY <2>1, <2>2, <2>4, StepsAtPlaces DEF ActionSteps
<1>3. Body(s) \in Seq(ActionSteps(d))
  <2> DEFINE b == Body(s)
  <2>1. b \in Seq(Actions) /\ \A k \in 1 .. Len(b) : b[k] \in ActionSteps(d)
    BY <1>0, <1>2, Bodies
  <2> HIDE DEF b
  <2>2. b \in Seq(ActionSteps(d))
    BY <2>1
  <2> QED
    BY <2>2 DEF b
<1>4. ~IsAction(s) => Source(s) \in Seq(ActionSteps(d))
  <2> SUFFICES ASSUME ~IsAction(s) PROVE Source(s) \in Seq(ActionSteps(d))
    OBVIOUS
  <2> DEFINE b == Source(s)
  <2>1. /\ b \in Seq(Actions) /\ Body(s) \in Seq(Actions)
        /\ Off(s) \in Nat /\ Off(s) + Len(b) <= Len(Body(s))
        /\ \A k \in 1 .. Len(b) : b[k] = Body(s)[Off(s) + k]
    BY <1>0, Bodies DEF Size
  <2> HIDE DEF b, s
  <2>2. \A k \in 1 .. Len(b) : b[k] \in ActionSteps(d)
    BY <1>2, <2>1
  <2>3. b \in Seq(ActionSteps(d))
    BY <2>1, <2>2
  <2> QED
    BY <2>3 DEF b
<1> QED
  BY <1>0, <1>1, <1>3, <1>4 DEF ActionSteps

LEMMA StepsHaveIds ==
  ASSUME NEW d \in Document, NEW i, NEW k, <<i, k>> \in Places(d), i \in Nat, k \in Nat
  PROVE  StepAt(d, <<i, k>>).id \in STRING
<1>1. i \in DOMAIN d.steps /\ d.steps[i] \in Actions \cup Loops \cup Ifs
  BY StepsAtPlaces, StepKinds
<1>2. Body(d.steps[i]) \in Seq(Actions) /\ k \in 0 .. Len(Body(d.steps[i]))
  BY <1>1, StepsAtPlaces, Bodies
<1>3. CASE k = 0
  BY <1>1, <1>3, StepsAtPlaces DEF Actions, Loops, Ifs
<1>4. CASE k # 0
  <2>1. Body(d.steps[i])[k] \in Actions
    BY <1>2, <1>4
  <2> QED
    BY <1>2, <1>4, <2>1, StepsAtPlaces DEF Actions
<1> QED
  BY <1>3, <1>4
-----------------------------------------------------------------------------
(* Counting records.                                                        *)

LEMMA CountNone == \A id : Count(<<>>, id) = 0
<1>1. \A id : {n \in DOMAIN <<>> : <<>>[n].id = id} = {}
  OBVIOUS
<1> QED
  BY <1>1, FS_EmptySet DEF Count

LEMMA CountIsNat ==
  ASSUME NEW S, NEW rs \in Seq(S), NEW id
  PROVE  /\ IsFiniteSet({n \in DOMAIN rs : rs[n].id = id})
         /\ Count(rs, id) \in Nat
         /\ Count(rs, id) = 0 <=> \A n \in DOMAIN rs : rs[n].id # id
<1> DEFINE M == {n \in DOMAIN rs : rs[n].id = id}
<1>1. IsFiniteSet(1 .. Len(rs)) /\ M \in SUBSET (1 .. Len(rs))
  BY FS_Interval
<1>2. IsFiniteSet(M)
  BY <1>1, FS_Subset
<1> QED
  BY <1>2, FS_CardinalityType, FS_EmptySet DEF Count

LEMMA CountAppend ==
  ASSUME NEW S, NEW rs \in Seq(S), NEW r \in S, NEW id
  PROVE  Count(Append(rs, r), id) = Count(rs, id) + IF r.id = id THEN 1 ELSE 0
<1> DEFINE M == {n \in DOMAIN rs : rs[n].id = id}
           ms == Append(rs, r)
           M2 == {n \in DOMAIN ms : ms[n].id = id}
           n0 == Len(rs) + 1
<1>1. /\ DOMAIN ms = DOMAIN rs \cup {n0} /\ n0 \notin DOMAIN rs
      /\ ms[n0] = r /\ \A n \in DOMAIN rs : ms[n] = rs[n]
  OBVIOUS
<1>2. IsFiniteSet(M) /\ Cardinality(M) \in Nat
  BY CountIsNat DEF Count
<1>3. M2 = M \cup IF r.id = id THEN {n0} ELSE {}
  BY <1>1
<1>4. n0 \notin M
  BY <1>1
<1> HIDE DEF M, M2, n0, ms
<1>5. Cardinality(M2) = Cardinality(M) + IF r.id = id THEN 1 ELSE 0
  <2>1. CASE r.id = id
    BY <1>2, <1>3, <1>4, <2>1, FS_AddElement
  <2>2. CASE r.id # id
    <3>1. M2 = M
      BY <1>3, <2>2
    <3> QED
      BY <1>2, <2>2, <3>1
  <2> QED
    BY <2>1, <2>2
<1> QED
  BY <1>5 DEF Count, M, M2, ms
-----------------------------------------------------------------------------
(* The step the interpreter is at.                                          *)

LEMMA ActionStepsAreActions ==
  ASSUME NEW d \in Document
  PROVE  ActionSteps(d) \subseteq Actions /\ ActionSteps(d) \subseteq AllSteps(d)
<1> SUFFICES ASSUME NEW s \in ActionSteps(d) PROVE s \in Actions /\ s \in AllSteps(d)
  OBVIOUS
<1>1. PICK p \in Places(d) : s = StepAt(d, p)
  BY DEF ActionSteps, AllSteps
<1>2. PICK i, k \in Nat : p = <<i, k>>
  BY StepsAtPlaces
<1>3. i \in DOMAIN d.steps /\ k \in 0 .. Len(Body(d.steps[i]))
  BY <1>1, <1>2, StepsAtPlaces
<1>4. CASE k = 0
  BY <1>1, <1>2, <1>3, <1>4, StepsAtPlaces, StepKinds DEF ActionSteps
<1>5. CASE k # 0
  <2>1. Body(d.steps[i]) \in Seq(Actions)
    BY <1>3, StepKinds, Bodies
  <2>2. Body(d.steps[i])[k] \in Actions
    BY <1>3, <1>5, <2>1
  <2> QED
    BY <1>1, <1>2, <1>5, <2>2, StepsAtPlaces DEF ActionSteps
<1> QED
  BY <1>4, <1>5

LEMMA NoneIsNoAction == ASSUME NEW d PROVE None \notin ActionSteps(d)
BY DEF ActionSteps, IsAction, None

LEMMA HereIs ==
  ASSUME Typed, top <= Len(doc.steps)
  PROVE  /\ doc \in Document /\ top \in DOMAIN doc.steps
         /\ Here \in Actions \cup Loops \cup Ifs
         /\ Here.type \in {"tool", "skill", "loop", "if"}
         /\ IsAction(Here) <=> Here.type \notin {"loop", "if"}
         /\ IsAction(Here) => Here \in ActionSteps(doc) /\ Here \in Actions
         /\ Here.type = "loop" <=> Here \in Loops
         /\ Here.type = "if" <=> Here \in Ifs
         /\ ~IsAction(Here) => Source(Here) \in Seq(ActionSteps(doc))
         /\ Here.id \in STRING /\ Here.id \in {s.id : s \in AllSteps(doc)}
<1>1. doc \in Document /\ top \in DOMAIN doc.steps /\ top \in Nat
  BY DocumentAssumption DEF Typed, Task, Interpreting, Document
<1>2. /\ Here \in Actions \cup Loops \cup Ifs
      /\ Here.type \in {"tool", "skill", "loop", "if"}
      /\ IsAction(Here) <=> Here.type \notin {"loop", "if"}
      /\ Here.type = "loop" <=> Here \in Loops
      /\ Here.type = "if" <=> Here \in Ifs
      /\ IsAction(Here) <=> Here \in Actions
  BY <1>1, StepKinds DEF Here, IsAction
<1>3. /\ IsAction(Here) => Here \in ActionSteps(doc)
      /\ ~IsAction(Here) => Source(Here) \in Seq(ActionSteps(doc))
  BY <1>1, ActionsAtPlaces DEF Here
<1>4. Here.id \in {s.id : s \in AllSteps(doc)}
  <2>1. <<top, 0>> \in Places(doc)
    <3>1. Body(doc.steps[top]) \in Seq(Actions)
      BY <1>1, StepKinds, Bodies
    <3> QED
      BY <1>1, <3>1, StepsAtPlaces
  <2> QED
    BY <1>1, <2>1, StepsAtPlaces DEF Here
<1>5. Here.id \in STRING
  BY <1>2 DEF Actions, Loops, Ifs
<1> QED
  BY <1>1, <1>2, <1>3, <1>4, <1>5

LEMMA CurrentIs ==
  ASSUME Typed, pc \in Stepping
  PROVE  /\ doc \in Document /\ current \in ActionSteps(doc) /\ current \in Actions
         /\ current.id \in STRING /\ current.id \in {s.id : s \in AllSteps(doc)}
<1>1. doc \in Document /\ current \in ActionSteps(doc)
  BY DocumentAssumption DEF Typed, Task, Interpreting
<1>2. current \in Actions /\ current \in AllSteps(doc)
  BY <1>1, ActionStepsAreActions
<1> QED
  BY <1>1, <1>2 DEF Actions

\* The budgets of a loop the parser accepted.
LEMMA LoopBudgets ==
  ASSUME Typed, WellFormed(doc), NEW i \in DOMAIN doc.steps, doc.steps[i].type = "loop"
  PROVE  /\ Rounds(doc.steps[i]) \in Nat /\ Duration(doc.steps[i]) \in Nat
         /\ Rounds(doc.steps[i]) <= doc.steps[i].rounds
         /\ doc.official => Rounds(doc.steps[i]) <= call.budget.rounds
<1> DEFINE s == doc.steps[i]
<1>1. doc \in Document
  BY DocumentAssumption DEF Typed, Task
<1>2. s.rounds \in Int /\ s.duration \in Int
  BY <1>1, StepKinds DEF Loops
<1>3. s.rounds >= 1 /\ s.duration >= 1
  BY DEF WellFormed
<1>4. call.budget.rounds \in Nat /\ call.budget.time \in Nat
  BY BoundAssumption DEF Typed, Task
<1> HIDE DEF s
<1>5. /\ Rounds(s) \in Nat /\ Duration(s) \in Nat /\ Rounds(s) <= s.rounds
      /\ doc.official => Rounds(s) <= call.budget.rounds
  BY <1>2, <1>3, <1>4 DEF Rounds, Duration, Lower
<1> QED
  BY <1>5 DEF s

\* An if takes the branch for a step that succeeded.
LEMMA BranchIsSource ==
  ASSUME Typed, WellFormed(doc), Counted, pc = "boundary", top <= Len(doc.steps),
         Here.type = "if"
  PROVE  Branch(Here) = Source(Here)
<1>1. top \in DOMAIN doc.steps /\ doc \in Document /\ top \in Nat
  BY HereIs DEF Typed, Interpreting
<1>2. PICK j \in 1 .. (top - 1) : doc.steps[j].id = Here.step
  BY <1>1 DEF WellFormed, Here
<1>3. j \in DOMAIN doc.steps /\ j < top /\ j \in Nat
  BY <1>1, <1>2 DEF Document
<1>4. Passed(j)
  BY <1>3 DEF Counted, Running
<1>5. records \in Seq(RecordType) /\ At(j, 0).id = Here.step
  BY <1>1, <1>2, <1>3, StepsAtPlaces DEF Typed, Reports, At
<1>6. \E n \in DOMAIN records : records[n].id = Here.step
  <2>1. Count(records, Here.step) = 1
    BY <1>4, <1>5 DEF Passed, N
  <2>2. Count(records, Here.step) = 0 <=> \A n \in DOMAIN records : records[n].id # Here.step
    BY <1>5, CountIsNat
  <2> QED
    BY <2>1, <2>2
<1>7. StatusOf(Here.step) = "succeeded"
  BY <1>2, <1>4, <1>6 DEF Passed, StatusOf
<1> QED
  BY <1>7 DEF Branch, Source

LEMMA DocFixed == Next => doc' = doc /\ call' = call
BY DEF Next, Work, Register, Submit, Offer, Start, Control, Act, Dispatch, Verify, Tick, Cancel

\* How a call of a tool or skill goes on.
LEMMA StepMoves ==
  ASSUME Act \/ Dispatch \/ Verify
  PROVE  /\ pc \in Stepping
         /\ \/ Success
            \/ \E e \in Errors : Failure(e)
            \/ pc' \in {"dispatch", "verify"} /\ UNCHANGED <<Interpreter, result>>
<1>1. CASE Act
  BY <1>1 DEF Act, Prepare, Invoke, Fault, Errors, Stepping
<1>2. CASE Dispatch
  BY <1>2 DEF Dispatch, Fault, Errors, Stepping
<1>3. CASE Verify
  BY <1>3 DEF Verify, Fault, Errors, Stepping
<1> QED
  BY <1>1, <1>2, <1>3

\* What a call adds to the history.
LEMMA StepHistory ==
  ASSUME Act \/ Dispatch \/ Verify
  PROVE  /\ \/ UNCHANGED truth
            \/ \E o \in {"none", "sent", "done", "not_verified"} : Actual(o)
         /\ faults' = faults \/ (faults < MaxFaults /\ faults' = faults + 1)
         /\ late' = late \/ (pc = "act" /\ Stop # "no" /\ late' = late + 1)
<1>1. CASE Act
  BY <1>1 DEF Act, Prepare, Invoke, Fault, IsLate
<1>2. CASE Dispatch
  BY <1>2 DEF Dispatch, Fault
<1>3. CASE Verify
  BY <1>3 DEF Verify, Fault
<1> QED
  BY <1>1, <1>2, <1>3
-----------------------------------------------------------------------------
(* Types.                                                                   *)

LEMMA InitInv == Init => Inv
<1> SUFFICES ASSUME Init PROVE Inv
  OBVIOUS
<1>1. doc \in Documents /\ doc \in Document
  BY DocumentAssumption DEF Init
<1>2. Typed
  <2>1. Task
    <3>1. MaxTime \in Nat
      BY BoundAssumption
    <3>2. clock \in 0 .. MaxTime
      BY <3>1 DEF Init
    <3> QED
      BY <3>2 DEF Init, Task, Early
  <2>2. doc.steps \in Seq(Actions \cup Loops \cup Ifs)
    BY <1>1 DEF Document
  <2>3. Interpreting
    BY <2>2 DEF Init, Interpreting, Stepping
  <2>4. Reports
    BY DEF Init, Reports, ResultType, Errors
  <2>5. Histories
    BY BoundAssumption DEF Init, Histories
  <2> QED
    BY <2>1, <2>3, <2>4, <2>5 DEF Typed
<1>3. Admitted /\ Placed /\ Counted /\ LateKnown
  BY DEF Init, Admitted, Placed, Counted, LateKnown, Running, Stepping, Early
<1>4. InBudget
  <2> SUFFICES ASSUME NEW i \in Nat, NEW k \in Nat, N(i, k) # 0 PROVE FALSE
    BY Zenon DEF InBudget
  <2> QED
    BY CountNone DEF Init, N
<1>5. SuccessIsWhole
  BY DEF Init, SuccessIsWhole
<1> QED
  BY <1>2, <1>3, <1>4, <1>5 DEF Inv

LEMMA TaskStep == Typed /\ Next => Task'
<1> SUFFICES ASSUME Typed, Next PROVE Task'
  OBVIOUS
<1>1. doc' = doc /\ call' = call
  BY DocFixed
<1>2. clock' \in 0 .. MaxTime /\ cancelled' \in BOOLEAN
  <2>0. MaxTime \in Nat /\ clock \in 0 .. MaxTime /\ cancelled \in BOOLEAN
    BY BoundAssumption DEF Typed, Task
  <2>1. CASE Work
    BY <2>0, <2>1 DEF Work, Register, Submit, Offer, Start, Control, Act, Dispatch, Verify
  <2>2. CASE Tick
    BY <2>0, <2>2 DEF Tick
  <2>3. CASE Cancel
    BY <2>0, <2>3 DEF Cancel
  <2> QED
    BY <2>1, <2>2, <2>3 DEF Next
<1>3. pc' \in Early \cup Running \cup {"done"}
  <2>1. CASE Register \/ Submit
    BY <2>1 DEF Register, Submit, Offer, Finish, Early
  <2>2. CASE Start
    BY <2>2 DEF Start, Abort, Finish, Running
  <2>3. CASE Control
    BY <2>3 DEF Control, EnterTop, Abort, Finish, Begin, Iterate, Leave, NextOfBody, EndOfBody,
       Running, Stepping
  <2>4. CASE Act \/ Dispatch \/ Verify
    BY <2>4, StepMoves DEF Success, Failure, Finish, Running, Stepping
  <2>5. CASE Tick \/ Cancel
    BY <2>5 DEF Tick, Cancel, Typed, Task
  <2> QED
    BY <2>1, <2>2, <2>3, <2>4, <2>5 DEF Next, Work
<1> QED
  BY <1>1, <1>2, <1>3 DEF Typed, Task

LEMMA HistoriesStep == Typed /\ Next => Histories'
<1> SUFFICES ASSUME Typed, Next PROVE Histories'
  OBVIOUS
<1>0. Histories /\ MaxFaults \in Nat
  BY BoundAssumption DEF Typed
<1>1. CASE Act \/ Dispatch \/ Verify
  <2>1. current.id \in STRING
    BY <1>1, StepMoves, CurrentIs
  <2>2. truth' \in Seq(TruthType)
    <3>1. CASE UNCHANGED truth
      BY <1>0, <3>1 DEF Histories
    <3>2. CASE \E o \in {"none", "sent", "done", "not_verified"} : Actual(o)
      <4>1. PICK o \in {"none", "sent", "done", "not_verified"} : Actual(o)
        BY <3>2
      <4>2. [id |-> current.id, outcome |-> o] \in TruthType
        BY <2>1 DEF TruthType
      <4> QED
        BY <1>0, <4>1, <4>2 DEF Actual, Histories
    <3> QED
      BY <1>1, <3>1, <3>2, StepHistory
  <2>3. faults' \in 0 .. MaxFaults /\ late' \in Nat
    BY <1>0, <1>1, StepHistory DEF Histories
  <2> QED
    BY <2>2, <2>3 DEF Histories
<1>2. CASE ~(Act \/ Dispatch \/ Verify)
  <2>1. UNCHANGED <<truth, late>> /\
        (faults' = faults \/ (faults < MaxFaults /\ faults' = faults + 1))
    BY <1>2 DEF Next, Work, Register, Submit, Offer, Start, Control, EnterTop, Abort, Iterate,
       Leave, NextOfBody, EndOfBody, Tick, Cancel, History
  <2> QED
    BY <1>0, <2>1 DEF Histories
<1> QED
  BY <1>1, <1>2

LEMMA InterpretingStep == Typed /\ Admitted /\ Placed /\ Counted /\ Next => Interpreting'
<1> SUFFICES ASSUME Typed, Admitted, Placed, Counted, Next PROVE Interpreting'
  OBVIOUS
<1>0. /\ Interpreting /\ doc' = doc /\ doc \in Document
      /\ doc.steps \in Seq(Actions \cup Loops \cup Ifs)
  BY DocFixed, DocumentAssumption DEF Typed, Task, Document
<1>n. None \notin ActionSteps(doc)
  BY NoneIsNoAction
<1>1. CASE Register \/ Submit \/ Start
  BY <1>0, <1>1 DEF Register, Submit, Offer, Start, Abort, Finish, Interpreter, Interpreting,
     Stepping
<1>2. CASE Tick \/ Cancel
  BY <1>0, <1>2 DEF Tick, Cancel, Interpreter, Interpreting
<1>3. CASE pc = "boundary" /\ EnterTop
  <2>0. WellFormed(doc) /\ current = None
    BY <1>0, <1>3 DEF Admitted, Gated, Running, Interpreting, Stepping
  <2>1. CASE UNCHANGED Interpreter /\ pc' = "done"
    BY <1>0, <2>0, <2>1 DEF Interpreter, Interpreting, Stepping
  <2>2. CASE top <= Len(doc.steps) /\ IsAction(Here) /\ Begin(Here) /\ UNCHANGED <<top, todo, loop>>
    BY <1>0, <1>n, <2>2, HereIs DEF Begin, Interpreting, Stepping
  <2>3. CASE /\ top <= Len(doc.steps) /\ Here.type = "loop" /\ pc' = "iterate"
             /\ loop' = [rounds |-> 0, until |-> clock + Duration(Here)]
             /\ UNCHANGED <<top, current, todo>>
    <3>1. Duration(Here) \in Nat /\ clock \in Nat
      BY <2>0, <2>3, HereIs, LoopBudgets, BoundAssumption DEF Here, Typed, Task
    <3>2. loop' \in [rounds : Nat, until : Nat]
      BY <2>3, <3>1
    <3> QED
      BY <1>0, <2>0, <2>3, <3>2 DEF Interpreting, Stepping
  <2>4. CASE /\ top <= Len(doc.steps) /\ Here.type = "if" /\ pc' = "body"
             /\ todo' = Branch(Here) /\ UNCHANGED <<top, current, loop>>
    <3>1. todo' = Source(Here)
      BY <1>3, <2>0, <2>4, BranchIsSource
    <3>2. todo' \in Seq(ActionSteps(doc))
      BY <2>4, <3>1, HereIs
    <3> QED
      BY <1>0, <2>0, <2>4, <3>2 DEF Interpreting, Stepping
  <2> QED
    BY <1>3, <2>1, <2>2, <2>3, <2>4 DEF EnterTop, Abort, Finish, Interpreter
<1>4. CASE pc = "iterate" /\ Iterate
  <2>0. top <= Len(doc.steps) /\ Here.type = "loop" /\ current = None /\ top \in Nat
    BY <1>0, <1>4 DEF Placed, Running, Interpreting, Stepping
  <2>1. CASE Leave("succeeded")
    BY <1>0, <2>0, <2>1 DEF Leave, Interpreting, Stepping
  <2>2. CASE Abort
    BY <1>0, <2>0, <2>2 DEF Abort, Finish, Interpreter, Interpreting, Stepping
  <2>3. CASE /\ loop' = [loop EXCEPT !.rounds = @ + 1] /\ todo' = Here.body /\ pc' = "body"
             /\ UNCHANGED <<top, current>>
    <3>1. Here.body \in Seq(ActionSteps(doc))
      BY <2>0, HereIs DEF Source
    <3>2. loop' \in [rounds : Nat, until : Nat]
      BY <1>0, <2>3 DEF Interpreting
    <3> QED
      BY <1>0, <2>0, <2>3, <3>1, <3>2 DEF Interpreting, Stepping
  <2> QED
    BY <1>4, <2>1, <2>2, <2>3 DEF Iterate
<1>5. CASE pc = "body" /\ NextOfBody
  <2>0. current = None
    BY <1>0, <1>5 DEF Interpreting, Stepping
  <2>1. CASE Abort
    BY <1>0, <2>0, <2>1 DEF Abort, Finish, Interpreter, Interpreting, Stepping
  <2>2. CASE Begin(Head(todo)) /\ todo' = Tail(todo) /\ UNCHANGED <<top, loop>> /\ todo # <<>>
    <3>1. Head(todo) \in ActionSteps(doc) /\ todo' \in Seq(ActionSteps(doc))
      BY <1>0, <2>2 DEF Interpreting
    <3> QED
      BY <1>0, <1>n, <2>2, <3>1 DEF Begin, Interpreting, Stepping
  <2> QED
    BY <1>5, <2>1, <2>2 DEF NextOfBody
<1>6. CASE pc = "body" /\ EndOfBody
  <2>0. top <= Len(doc.steps) /\ current = None /\ top \in Nat
    BY <1>0, <1>6 DEF Placed, Running, Interpreting, Stepping
  <2>1. CASE Leave("succeeded")
    BY <1>0, <2>0, <2>1 DEF Leave, Interpreting, Stepping
  <2>2. CASE pc' = "iterate" /\ UNCHANGED Interpreter
    BY <1>0, <2>0, <2>2 DEF Interpreter, Interpreting, Stepping
  <2> QED
    BY <1>6, <2>1, <2>2 DEF EndOfBody
<1>7. CASE Act \/ Dispatch \/ Verify
  <2>0. pc \in Stepping /\ top <= Len(doc.steps) /\ top \in Nat
    BY <1>0, <1>7, StepMoves DEF Placed, Running, Interpreting, Stepping
  <2>1. CASE Success
    BY <1>0, <2>0, <2>1 DEF Success, Interpreting, Stepping
  <2>2. CASE \E e \in Errors : Failure(e)
    BY <1>0, <2>0, <2>2 DEF Failure, Finish, Interpreting, Stepping
  <2>3. CASE pc' \in {"dispatch", "verify"} /\ UNCHANGED <<Interpreter, result>>
    BY <1>0, <2>0, <2>3 DEF Interpreter, Interpreting, Stepping
  <2> QED
    BY <1>7, <2>1, <2>2, <2>3, StepMoves
<1> QED
  BY <1>1, <1>2, <1>3, <1>4, <1>5, <1>6, <1>7 DEF Next, Work, Control

LEMMA ReportsStep == Typed /\ Admitted /\ Placed /\ Next => Reports'
<1> SUFFICES ASSUME Typed, Admitted, Placed, Next PROVE Reports'
  OBVIOUS
<1>0. /\ Reports /\ doc' = doc /\ doc \in Document
  BY DocFixed, DocumentAssumption DEF Typed, Task
<1> DEFINE Ids == {s.id : s \in AllSteps(doc)}
           Fine(rs) == /\ rs \in Seq(RecordType)
                       /\ \A n \in DOMAIN rs : /\ rs[n].id \in Ids
                                               /\ rs[n].status = "succeeded" => rs[n].error = "none"
<1>r. ASSUME NEW rs, Fine(rs), NEW id \in STRING, id \in Ids, NEW e \in Errors,
             NEW st \in {"succeeded", "failed"}, st = "succeeded" => e = "none"
      PROVE  Fine(Append(rs, Record(id, st, e)))
  <2>1. Record(id, st, e) \in RecordType
    BY <1>r DEF Record, RecordType
  <2> QED
    BY <1>r, <2>1 DEF Record
<1>f. Fine(records)
  BY <1>0 DEF Reports
<1> HIDE DEF Fine
<1>1. CASE Register \/ Submit
  BY <1>0, <1>1 DEF Register, Submit, Offer, Finish, Interpreter, Reports, ResultType, RiskError,
     GateError, Errors
<1>2. CASE Start
  <2>1. PreflightError \in Errors
    BY DEF PreflightError, RiskError, GateError, Errors
  <2>2. UNCHANGED records
    BY <1>2 DEF Start, Abort, Interpreter
  <2>3. \/ UNCHANGED result /\ pc # "done" /\ pc' # "done"
        \/ pc' = "done" /\ result' \in ResultType /\ result'.status # "none"
    BY <1>2, <2>1 DEF Start, Abort, Finish, Stop, ResultType, Errors
  <2> QED
    BY <1>0, <2>2, <2>3 DEF Reports
<1>3. CASE Tick \/ Cancel
  BY <1>0, <1>3 DEF Tick, Cancel, Interpreter, Reports
<1>4. CASE Control
  <2>1. \/ UNCHANGED records
        \/ Leave("succeeded") /\ top <= Len(doc.steps)
    BY <1>4 DEF Control, EnterTop, Abort, Iterate, NextOfBody, EndOfBody,
            Interpreter, Placed, Running
  <2>2. \/ UNCHANGED result /\ pc # "done" /\ pc' # "done"
        \/ pc' = "done" /\ result' \in ResultType /\ result'.status # "none"
    BY <1>4 DEF Control, EnterTop, Abort, Iterate, Leave, NextOfBody, EndOfBody, Begin, Finish,
       Stop, ResultType, Errors
  <2>3. Fine(records')
    <3>1. CASE UNCHANGED records
      BY <1>f, <3>1
    <3>2. CASE Leave("succeeded") /\ top <= Len(doc.steps)
      <4>1. Here.id \in STRING /\ Here.id \in Ids /\ "none" \in Errors
        BY <1>0, <3>2, HereIs DEF Errors
      <4> QED
        BY <1>f, <1>r, <3>2, <4>1 DEF Leave
    <3> QED
      BY <2>1, <3>1, <3>2
  <2> QED
    BY <1>0, <2>2, <2>3 DEF Reports, Fine
<1>5. CASE Act \/ Dispatch \/ Verify
  <2>0. /\ pc \in Stepping /\ top <= Len(doc.steps)
        /\ current.id \in STRING /\ current.id \in Ids /\ Here.id \in STRING /\ Here.id \in Ids
    BY <1>0, <1>5, StepMoves, CurrentIs, HereIs DEF Placed, Running, Stepping
  <2>1. CASE Success
    <3>1. Fine(records')
      BY <1>f, <1>r, <2>0, <2>1 DEF Success, Errors
    <3>2. UNCHANGED result /\ pc # "done" /\ pc' # "done"
      BY <2>0, <2>1 DEF Success, Stepping
    <3> QED
      BY <1>0, <3>1, <3>2 DEF Reports, Fine
  <2>2. CASE \E e \in Errors : Failure(e)
    <3>1. PICK e \in Errors : Failure(e)
      BY <2>2
    <3> DEFINE one == Append(records, Record(current.id, "failed", e))
    <3>2. Fine(one)
      BY <1>f, <1>r, <2>0
    <3> DEFINE two == Append(one, Record(Here.id, "failed", e))
    <3>3. Fine(two)
      BY <1>r, <2>0, <3>2
    <3>4. records' = one \/ records' = two
      <4> DEFINE a == Record(current.id, "failed", e)
                 b == Record(Here.id, "failed", e)
      <4>1. records \in Seq(RecordType) /\ a \in RecordType /\ b \in RecordType
        BY <1>0, <2>0 DEF Reports, Record, RecordType
      <4>2. \/ records' = Append(records, a)
            \/ records' = records \o <<a>> \o <<b>>
            \/ records' = records \o <<a>> \o <<>>
        BY <3>1 DEF Failure
      <4> HIDE DEF a, b
      <4>3. /\ records \o <<a>> \o <<>> = Append(records, a)
            /\ records \o <<a>> \o <<b>> = Append(Append(records, a), b)
        BY <4>1
      <4> QED
        BY <4>2, <4>3 DEF a, b
    <3>5. \/ UNCHANGED result /\ pc # "done" /\ pc' # "done"
          \/ pc' = "done" /\ result' \in ResultType /\ result'.status # "none"
      BY <2>0, <3>1 DEF Failure, Finish, ResultType, Stepping
    <3> HIDE DEF one, two
    <3> QED
      BY <1>0, <3>2, <3>3, <3>4, <3>5 DEF Reports, Fine
  <2>3. CASE pc' \in {"dispatch", "verify"} /\ UNCHANGED <<Interpreter, result>>
    BY <1>0, <2>0, <2>3 DEF Interpreter, Reports, Stepping
  <2> QED
    BY <1>5, <2>1, <2>2, <2>3, StepMoves
<1> QED
  BY <1>1, <1>2, <1>3, <1>4, <1>5 DEF Next, Work

LEMMA AdmittedStep == Typed /\ Admitted /\ Next => Admitted'
<1> SUFFICES ASSUME Typed, Admitted, Next PROVE Admitted'
  OBVIOUS
<1>0. doc' = doc /\ call' = call
  BY DocFixed
<1>1. CASE Register
  BY <1>0, <1>1 DEF Register, Offer, Finish, Admitted, Interpreter, History, Gated, Early, Running,
     Stepping
<1>2. CASE Submit
  BY <1>0, <1>2 DEF Submit, Offer, Finish, Admitted, Interpreter, History, Gated, Early, Running,
     Stepping
<1>3. CASE Start
  BY <1>0, <1>3 DEF Start, Abort, Finish, Admitted, Interpreter, History, Gated, Early, Running,
     Stepping
<1>4. CASE Control
  <2>1. pc \in Running /\ pc' \in Running \cup {"done"}
    BY <1>4 DEF Control, EnterTop, Abort, Iterate, Leave, NextOfBody, EndOfBody, Begin, Finish,
       Running, Stepping
  <2> QED
    BY <1>0, <2>1 DEF Admitted, Gated, Running, Stepping, Early
<1>5. CASE Act \/ Dispatch \/ Verify
  <2>1. pc \in Running /\ pc' \in Running \cup {"done"}
    BY <1>5, StepMoves DEF Success, Failure, Finish, Running, Stepping
  <2> QED
    BY <1>0, <2>1 DEF Admitted, Gated, Running, Stepping, Early
<1>6. CASE Tick \/ Cancel
  BY <1>0, <1>6 DEF Tick, Cancel, Interpreter, History, Admitted, Gated
<1> QED
  BY <1>1, <1>2, <1>3, <1>4, <1>5, <1>6 DEF Next, Work

LEMMA LateKnownStep == Typed /\ LateKnown /\ Next => LateKnown'
<1> SUFFICES ASSUME Typed, LateKnown, Next PROVE LateKnown'
  OBVIOUS
<1>0. late \in Nat /\ clock \in Nat /\ cancelled \in BOOLEAN /\ Deadline \in Nat
  BY BoundAssumption DEF Typed, Histories, Task
<1>1. Stop # "no" => Stop' # "no"
  <2>1. (cancelled => cancelled') /\ clock' >= clock /\ clock' \in Nat
    BY <1>0 DEF Next, Work, Register, Submit, Offer, Start, Control, Act, Dispatch, Verify, Tick,
       Cancel
  <2> QED
    BY <1>0, <2>1 DEF Stop
<1>2. CASE Act \/ Dispatch \/ Verify
  <2>1. pc' # "act"
    BY <1>2, StepMoves DEF Success, Failure, Finish
  <2> QED
    BY <1>0, <1>1, <1>2, <2>1, StepHistory DEF LateKnown
<1>3. CASE Tick \/ Cancel
  BY <1>0, <1>1, <1>3 DEF Tick, Cancel, History, LateKnown
<1>4. CASE Register \/ Submit \/ Start
  BY <1>0, <1>1, <1>4 DEF Register, Submit, Offer, Start, Abort, Finish, History, LateKnown
<1>5. CASE Control
  <2>1. late' = late /\ (pc' = "act" => Stop = "no")
    BY <1>5 DEF Control, EnterTop, Abort, Finish, Begin, Iterate, Leave, NextOfBody, EndOfBody,
       History
  <2> QED
    BY <1>0, <1>1, <2>1 DEF LateKnown
<1> QED
  BY <1>2, <1>3, <1>4, <1>5 DEF Next, Work
-----------------------------------------------------------------------------
(* Where the interpreter is.                                                *)

\* The source of a container, and what is left of it, are sequences.
LEMMA SourceIs ==
  ASSUME Typed, top <= Len(doc.steps), Here.type \in {"loop", "if"}
  PROVE  /\ ~IsAction(Here) /\ Source(Here) \in Seq(Actions) /\ Size(Here) = Len(Source(Here))
         /\ Size(Here) \in Nat /\ todo \in Seq(ActionSteps(doc)) /\ Len(todo) \in Nat
         /\ Here.type = "loop" => Source(Here) = Here.body
<1>1. ~IsAction(Here) /\ Here \in Actions \cup Loops \cup Ifs
  BY HereIs
<1>2. Source(Here) \in Seq(Actions)
  BY <1>1, Bodies
<1> QED
  BY <1>1, <1>2 DEF Size, Source, Typed, Interpreting

LEMMA StaysPlaced ==
  ASSUME Placed, doc' = doc, call' = call, UNCHANGED Interpreter,
         pc' = pc \/ (pc \in Stepping /\ pc' \in Stepping)
  PROVE  Placed'
<1>1. /\ Here' = Here /\ Rest' = Rest /\ Begun' = Begun /\ Rounds(Here)' = Rounds(Here)
      /\ top' = top /\ current' = current /\ loop' = loop
  BY DEF Here, Rest, Begun, Size, Source, Rounds, Interpreter
<1>2. (Source(Here)[Begun])' = Source(Here)[Begun]
  BY <1>1 DEF Source
<1>3. (pc' \in Stepping) = (pc \in Stepping)
  OBVIOUS
<1>4. (pc' = pc) \/ pc' \notin {"iterate", "body", "boundary"}
  BY DEF Stepping
<1>5. pc' \in Running \ {"boundary"} => pc \in Running \ {"boundary"}
  BY DEF Running, Stepping
<1>6. pc' # "iterate" => pc # "iterate"
  BY DEF Stepping
<1> QED
  BY <1>1, <1>2, <1>3, <1>4, <1>5, <1>6 DEF Placed

LEMMA PlacedStep == Typed /\ Admitted /\ Placed /\ Counted /\ Next => Placed'
<1> SUFFICES ASSUME Typed, Admitted, Placed, Counted, Next PROVE Placed'
  OBVIOUS
<1>0. doc' = doc /\ call' = call /\ top \in Nat /\ doc.steps = doc.steps'
  BY DocFixed DEF Typed, Interpreting
<1>1. CASE pc' \notin Running \ {"boundary"}
  BY <1>1 DEF Placed, Running, Stepping
<1>2. CASE Register \/ Submit \/ Start
  BY <1>1, <1>2 DEF Register, Submit, Offer, Start, Abort, Finish, Running, Stepping
<1>3. CASE Tick \/ Cancel
  BY <1>0, <1>3, StaysPlaced DEF Tick, Cancel
<1>4. CASE pc' \in Running \ {"boundary"} /\ pc = "boundary" /\ EnterTop
  <2>0. WellFormed(doc) /\ top <= Len(doc.steps) /\ top' = top /\ Here' = Here
    BY <1>0, <1>4 DEF Admitted, Gated, Running, Stepping, EnterTop, Abort, Finish, Here
  <2>1. CASE IsAction(Here) /\ Begin(Here)
    BY <1>0, <2>0, <2>1, HereIs DEF Begin, Placed, Running, Stepping, Here
  <2>2. CASE /\ Here.type = "loop" /\ pc' = "iterate"
             /\ loop' = [rounds |-> 0, until |-> clock + Duration(Here)]
    <3>1. Rounds(Here) \in Nat /\ Rounds(Here)' = Rounds(Here)
      BY <1>0, <2>0, <2>2, HereIs, LoopBudgets DEF Here, Rounds
    <3>2. loop'.rounds = 0
      BY <2>2
    <3> QED
      BY <1>0, <2>0, <2>2, <3>1, <3>2 DEF Placed, Running, Stepping
  <2>3. CASE Here.type = "if" /\ pc' = "body" /\ todo' = Branch(Here)
    <3>1. todo' = Source(Here)
      BY <1>4, <2>0, <2>3, BranchIsSource
    <3>2. Source(Here) \in Seq(Actions) /\ Size(Here) = Len(Source(Here)) /\ Size(Here) \in Nat
      BY <2>0, <2>3, SourceIs
    <3>3. Begun' = 0 /\ Size(Here)' = Size(Here) /\ Source(Here)' = Source(Here)
      BY <2>0, <3>1, <3>2 DEF Begun, Size, Source
    <3>4. Rest'
      BY <2>0, <3>1, <3>2, <3>3 DEF Rest
    <3> QED
      BY <1>0, <2>0, <2>3, <3>4 DEF Placed, Running, Stepping
  <2> QED
    BY <1>4, <2>0, <2>1, <2>2, <2>3 DEF EnterTop, Abort, Finish, Running, Stepping
<1>5. CASE pc' \in Running \ {"boundary"} /\ pc = "iterate" /\ Iterate
  <2>0. WellFormed(doc) /\ top <= Len(doc.steps) /\
        Here.type = "loop" /\ loop \in [rounds : Nat, until : Nat]
    BY <1>0, <1>5 DEF Admitted, Gated, Placed, Running, Stepping, Typed, Interpreting
  <2>1. /\ loop' = [loop EXCEPT !.rounds = @ + 1] /\ todo' = Here.body /\ pc' = "body"
        /\ top' = top /\ Here' = Here /\ loop.rounds < Rounds(Here)
    BY <1>0, <1>5 DEF Iterate, Leave, Abort, Finish, Running, Stepping, Here, Goes
  <2>2. Rounds(Here) \in Nat /\ Rounds(Here)' = Rounds(Here)
    BY <1>0, <2>0, <2>1, HereIs, LoopBudgets DEF Here, Rounds
  <2>3. loop'.rounds = loop.rounds + 1 /\ loop.rounds \in Nat
    BY <2>0, <2>1
  <2>4. /\ Source(Here) \in Seq(Actions) /\ Size(Here) = Len(Source(Here)) /\ Size(Here) \in Nat
        /\ todo' = Source(Here)
    BY <2>0, <2>1, SourceIs
  <2>5. Begun' = 0 /\ Size(Here)' = Size(Here) /\ Source(Here)' = Source(Here)
    BY <2>1, <2>4 DEF Begun, Size, Source
  <2>6. Rest'
    BY <2>1, <2>4, <2>5 DEF Rest
  <2> QED
    BY <1>0, <2>0, <2>1, <2>2, <2>3, <2>6 DEF Placed, Running, Stepping
<1>6. CASE pc' \in Running \ {"boundary"} /\ pc = "body" /\ NextOfBody
  <2>0. /\ top <= Len(doc.steps) /\ Here.type \in {"loop", "if"} /\ Rest
        /\ Here.type = "loop" => loop.rounds <= Rounds(Here) /\ loop.rounds >= 1
    BY <1>6 DEF Placed, Running, Stepping
  <2>1. /\ todo # <<>> /\ Begin(Head(todo)) /\ todo' = Tail(todo)
        /\ top' = top /\ loop' = loop /\ Here' = Here /\ Rounds(Here)' = Rounds(Here)
    BY <1>0, <1>6 DEF NextOfBody, Abort, Finish, Running, Stepping, Here, Rounds
  <2>2. /\ Source(Here) \in Seq(Actions) /\ Size(Here) = Len(Source(Here)) /\ Size(Here) \in Nat
        /\ todo \in Seq(ActionSteps(doc)) /\ Len(todo) \in Nat
    BY <2>0, SourceIs
  <2>3. /\ Len(todo') = Len(todo) - 1 /\ Len(todo) >= 1 /\ Head(todo) = todo[1]
        /\ \A n \in 1 .. (Len(todo) - 1) : todo'[n] = todo[n + 1]
    BY <2>1, <2>2
  <2>4. Begun' = Begun + 1 /\ Begun \in Nat /\
        Size(Here)' = Size(Here) /\ Source(Here)' = Source(Here)
    BY <2>0, <2>1, <2>2, <2>3 DEF Begun, Size, Source, Rest
  <2>5. current' = Source(Here)[Begun + 1]
    BY <2>0, <2>1, <2>2, <2>3, <2>4 DEF Begin, Rest
  <2>6. Rest'
    <3>1. Len(todo') <= Size(Here)'
      BY <2>0, <2>2, <2>3, <2>4 DEF Rest
    <3>2. ASSUME NEW n \in 1 .. Len(todo') PROVE todo'[n] = Source(Here)[Begun + 1 + n]
      <4>1. n \in 1 .. (Len(todo) - 1) /\ n + 1 \in 1 .. Len(todo)
        BY <2>2, <2>3
      <4>2. todo[n + 1] = Source(Here)[Begun + (n + 1)]
        BY <2>0, <4>1 DEF Rest
      <4>3. Begun + (n + 1) = Begun + 1 + n
        BY <2>4
      <4> QED
        BY <2>3, <4>1, <4>2, <4>3
    <3> QED
      BY <2>1, <2>4, <3>1, <3>2 DEF Rest
  <2>7. Begun' >= 1 /\ current' = (Source(Here)[Begun])'
    BY <2>1, <2>4, <2>5
  <2> QED
    BY <1>0, <2>0, <2>1, <2>6, <2>7 DEF Placed, Begin, Running, Stepping
<1>7. CASE pc' \in Running \ {"boundary"} /\ pc = "body" /\ EndOfBody
  <2>1. /\ pc' = "iterate" /\ Here.type = "loop" /\ top' = top /\ Here' = Here /\ loop' = loop
        /\ Rounds(Here)' = Rounds(Here)
    BY <1>0, <1>7 DEF EndOfBody, Leave, Interpreter, Here, Rounds
  <2> QED
    BY <1>0, <1>7, <2>1 DEF Placed, Running, Stepping
<1>8. CASE pc' \in Running \ {"boundary"} /\ (Act \/ Dispatch \/ Verify)
  <2>0. pc \in Stepping /\ pc \notin {"boundary", "iterate", "body"} /\ pc \in Running
    BY <1>8, StepMoves DEF Stepping, Running
  <2>1. CASE Success \/ \E e \in Errors : Failure(e)
    <3>1. pc' = "body" /\ UNCHANGED <<top, todo, loop>> /\ (IsAction(Here) => Here.type = "loop")
      BY <1>8, <2>1 DEF Success, Failure, Finish, Running, Stepping
    <3>2. top <= Len(doc.steps)
      BY <2>0 DEF Placed
    <3>3. Here.type \in {"loop", "if"} /\ Rest
      BY <2>0, <3>1, <3>2, HereIs DEF Placed
    <3>4. Here' = Here /\ Rest' = Rest /\ Rounds(Here)' = Rounds(Here)
      BY <1>0, <3>1 DEF Here, Rest, Begun, Size, Source, Rounds
    <3> QED
      BY <1>0, <2>0, <3>1, <3>2, <3>3, <3>4 DEF Placed, Running, Stepping
  <2>2. CASE pc' \in {"dispatch", "verify"} /\ UNCHANGED <<Interpreter, result>>
    BY <1>0, <2>0, <2>2, StaysPlaced DEF Stepping
  <2> QED
    BY <1>8, <2>1, <2>2, StepMoves
<1> QED
  BY <1>1, <1>2, <1>3, <1>4, <1>5, <1>6, <1>7, <1>8 DEF Next, Work, Control
-----------------------------------------------------------------------------
(* How often each step was recorded.                                        *)

LEMMA Apart ==
  ASSUME doc \in Document, WellFormed(doc), NEW i \in Nat, NEW k \in Nat, Place(i, k),
         NEW j \in Nat, NEW l \in Nat, Place(j, l), At(i, k).id = At(j, l).id
  PROVE  i = j /\ k = l
<1>1. <<i, k>> \in Places(doc) /\ <<j, l>> \in Places(doc)
  BY StepsAtPlaces DEF Place
<1>2. <<i, k>> = <<j, l>>
  BY <1>1 DEF WellFormed, At
<1> QED
  BY <1>2

LEMMA AtIs ==
  ASSUME doc \in Document
  PROVE  /\ \A i \in Nat : At(i, 0) = doc.steps[i]
         /\ \A i, k \in Nat : k # 0 => At(i, k) = Body(doc.steps[i])[k]
         /\ \A i \in DOMAIN doc.steps : i \in Nat /\ Place(i, 0) /\ Len(Body(doc.steps[i])) \in Nat
         /\ \A i, k : Place(i, k) => i \in Nat /\ k \in Nat
<1>1. \A i \in DOMAIN doc.steps : i \in Nat /\ Len(Body(doc.steps[i])) \in Nat
  BY StepKinds, Bodies DEF Document
<1> QED
  BY <1>1, StepsAtPlaces DEF At, Place

\* The k-th step of the source of the step the interpreter is at.
LEMMA SourceAt ==
  ASSUME Typed, top <= Len(doc.steps), Here.type \in {"loop", "if"}, NEW k \in 1 .. Size(Here)
  PROVE  /\ Off(Here) \in Nat /\ Off(Here) + k \in 1 .. Len(Body(Here))
         /\ Place(top, Off(Here) + k) /\ Source(Here)[k] = At(top, Off(Here) + k)
<1>1. /\ doc \in Document /\ top \in DOMAIN doc.steps /\ Here \in Actions \cup Loops \cup Ifs
      /\ ~IsAction(Here) /\ top \in Nat
  BY HereIs DEF Typed, Interpreting
<1>2. /\ Off(Here) \in Nat /\ Off(Here) + Size(Here) <= Len(Body(Here))
      /\ Source(Here)[k] = Body(Here)[Off(Here) + k]
      /\ Len(Body(Here)) \in Nat /\ Size(Here) \in Nat
  <2>1. /\ Off(Here) \in Nat /\ Off(Here) + Size(Here) <= Len(Body(Here))
        /\ \A n \in 1 .. Size(Here) : Source(Here)[n] = Body(Here)[Off(Here) + n]
        /\ Body(Here) \in Seq(Actions)
    BY <1>1, Bodies
  <2>2. Size(Here) \in Nat
    BY SourceIs
  <2> QED
    BY <2>1, <2>2
<1>3. Off(Here) + k \in 1 .. Len(Body(Here))
  BY <1>2
<1>4. Place(top, Off(Here) + k) /\ Off(Here) + k # 0 /\ Off(Here) + k \in Nat
  BY <1>1, <1>2, <1>3 DEF Place, Here
<1> QED
  BY <1>1, <1>2, <1>3, <1>4, AtIs DEF Here

LEMMA CountsStay ==
  ASSUME doc' = doc, call' = call, records' = records
  PROVE  /\ \A i, k : N(i, k)' = N(i, k)
         /\ \A i : Passed(i)' = Passed(i)
         /\ InBudget => InBudget'
<1>1. \A i, k : N(i, k)' = N(i, k)
  BY DEF N, At
<1>2. \A i : Rounds(doc.steps[i])' = Rounds(doc.steps[i])
  BY DEF Rounds
<1>3. \A i : Passed(i)' = Passed(i)
  BY <1>1, <1>2 DEF Passed
<1>4. InBudget => InBudget'
  BY <1>1, <1>2 DEF InBudget, Place
<1> QED
  BY <1>1, <1>3, <1>4

LEMMA CountsGrow ==
  ASSUME Typed, WellFormed(doc), doc' = doc, NEW j \in Nat, NEW l \in Nat, Place(j, l),
         NEW st \in {"succeeded", "failed"}, NEW e \in Errors,
         records' = Append(records, Record(At(j, l).id, st, e))
  PROVE  \A i, k \in Nat : Place(i, k) =>
           N(i, k)' = N(i, k) + (IF i = j /\ k = l THEN 1 ELSE 0) /\ N(i, k) \in Nat
<1>1. doc \in Document /\ records \in Seq(RecordType)
  BY DocumentAssumption DEF Typed, Task, Reports
<1>2. At(j, l).id \in STRING
  BY <1>1, StepsHaveIds, StepsAtPlaces DEF At, Place
<1> DEFINE r == Record(At(j, l).id, st, e)
<1>3. r \in RecordType /\ r.id = At(j, l).id
  BY <1>2 DEF Record, RecordType
<1> HIDE DEF r
<1> SUFFICES ASSUME NEW i \in Nat, NEW k \in Nat, Place(i, k)
             PROVE  /\ N(i, k)' = N(i, k) + (IF i = j /\ k = l THEN 1 ELSE 0)
                    /\ N(i, k) \in Nat
  OBVIOUS
<1> DEFINE id == At(i, k).id
<1>4. N(i, k) = Count(records, id) /\ N(i, k)' = Count(Append(records, r), id)
  BY DEF N, At, r
<1> HIDE DEF id
<1>5. Count(Append(records, r), id) = Count(records, id) + IF r.id = id THEN 1 ELSE 0
  BY <1>1, <1>3, CountAppend
<1>6. Count(records, id) \in Nat
  BY <1>1, CountIsNat
<1>7. (r.id = id) <=> (i = j /\ k = l)
  <2>1. r.id = id => i = j /\ k = l
    BY <1>1, <1>3, Apart DEF id
  <2> QED
    BY <1>3, <2>1 DEF id
<1> QED
  BY <1>4, <1>5, <1>6, <1>7

\* What the interpreter went past keeps its records.
LEMMA PassedStays ==
  ASSUME Typed, WellFormed(doc), doc' = doc, call' = call,
         NEW l \in Nat, Place(top, l), NEW st \in {"succeeded", "failed"}, NEW e \in Errors,
         records' = Append(records, Record(At(top, l).id, st, e)),
         NEW i \in DOMAIN doc.steps, i < top, Passed(i)
  PROVE  Passed(i)'
<1>1. /\ doc \in Document /\ records \in Seq(RecordType) /\ top \in Nat /\ i \in Nat
      /\ Place(i, 0) /\ At(i, 0) = doc.steps[i] /\ Len(Body(doc.steps[i])) \in Nat
  BY DocumentAssumption, AtIs DEF Typed, Task, Reports, Interpreting
<1>2. \A k \in 0 .. Len(Body(doc.steps[i])) : N(i, k)' = N(i, k)
  <2> SUFFICES ASSUME NEW k \in 0 .. Len(Body(doc.steps[i])) PROVE N(i, k)' = N(i, k)
    OBVIOUS
  <2>1. Place(i, k) /\ k \in Nat /\ i # top
    BY <1>1 DEF Place
  <2> QED
    BY <1>1, <2>1, CountsGrow
<1>3. At(top, l).id # doc.steps[i].id
  BY <1>1, Apart
<1>4. \A n \in DOMAIN records' :
        records'[n].id = doc.steps[i].id => records'[n].status = "succeeded"
  <2> DEFINE r == Record(At(top, l).id, st, e)
  <2>1. r.id # doc.steps[i].id
    BY <1>3 DEF Record
  <2> HIDE DEF r
  <2>2. ASSUME NEW n \in DOMAIN Append(records, r) PROVE
          Append(records, r)[n] = r \/ (n \in DOMAIN records /\ Append(records, r)[n] = records[n])
    BY <1>1
  <2>3. records' = Append(records, r)
    BY DEF r
  <2> QED
    BY <2>1, <2>2, <2>3 DEF Passed
<1>5. Rounds(doc.steps[i])' = Rounds(doc.steps[i])
  BY DEF Rounds
<1>6. (doc.steps[i])' = doc.steps[i] /\ \A k \in 1 .. Len(Body(doc.steps[i])) : N(i, k)' = N(i, k)
  BY <1>1, <1>2
<1>7. N(i, 0)' = 1
  BY <1>1, <1>2 DEF Passed
<1> QED
  BY <1>4, <1>5, <1>6, <1>7 DEF Passed

LEMMA InBudgetStep == Typed /\ Admitted /\ Placed /\ Counted /\ InBudget /\ Next => InBudget'
<1> SUFFICES ASSUME Typed, Admitted, Placed, Counted, InBudget, Next PROVE InBudget'
  OBVIOUS
<1>0. doc' = doc /\ call' = call /\ top \in Nat /\ doc \in Document
  BY DocFixed, DocumentAssumption DEF Typed, Task, Interpreting
<1>r. \A i : Rounds(doc.steps[i])' = Rounds(doc.steps[i])
  BY <1>0 DEF Rounds
<1>s. ASSUME UNCHANGED records PROVE InBudget'
  BY <1>0, <1>s, CountsStay
\* A record of a step that is not in the body of a loop.
<1>o. ASSUME WellFormed(doc), top <= Len(doc.steps), NEW l \in Nat, Place(top, l),
             l = 0 \/ Here.type # "loop", NEW st \in {"succeeded", "failed"}, NEW e \in Errors,
             records' = Append(records, Record(At(top, l).id, st, e))
      PROVE  InBudget'
  <2> SUFFICES ASSUME NEW i \in Nat, NEW k \in Nat, Place(i, k), k # 0,
                      doc.steps[i].type = "loop", N(i, k)' # 0
               PROVE  N(i, k)' <= Rounds(doc.steps[i])
    BY <1>0, <1>r DEF InBudget, Place
  <2>1. ~(i = top /\ k = l)
    BY <1>o DEF Here
  <2>2. N(i, k)' = N(i, k)
    BY <1>0, <1>o, <2>1, CountsGrow
  <2> QED
    BY <2>2 DEF InBudget
\* A record of the step of a loop's body the interpreter is at.
<1>l. ASSUME WellFormed(doc), top <= Len(doc.steps), Here.type = "loop", pc \in Stepping,
             NEW st \in {"succeeded", "failed"}, NEW e \in Errors,
             records' = Append(records, Record(current.id, st, e))
      PROVE  InBudget'
  <2>1. Rest /\ Begun >= 1 /\ current = Source(Here)[Begun] /\ loop.rounds <= Rounds(Here)
    BY <1>l, HereIs DEF Placed, Running, Stepping
  <2>2. Begun \in 1 .. Size(Here) /\ Size(Here) \in Nat
    BY <1>l, <2>1, SourceIs DEF Begun, Rest
  <2> DEFINE l == Off(Here) + Begun
  <2>3. Place(top, l) /\ l \in Nat /\ current = At(top, l) /\
        l \in 1 .. Len(Body(Here)) /\ Off(Here) \in Nat
    BY <1>l, <2>1, <2>2, SourceAt
  <2>4. records' = Append(records, Record(At(top, l).id, st, e))
    BY <1>l, <2>3
  <2>5. N(top, l) = loop.rounds - 1 /\ loop.rounds \in Nat
    <3>1. N(top, l) = Expected(l)
      BY <1>l, <2>3 DEF Counted, Running, Stepping
    <3>2. Expected(l) = Full - 1
      BY <1>l, <2>2, <2>3 DEF Expected, Ran, Stepping
    <3> QED
      BY <1>l, <3>1, <3>2 DEF Full, Typed, Interpreting
  <2> SUFFICES ASSUME NEW i \in Nat, NEW k \in Nat, Place(i, k), k # 0,
                      doc.steps[i].type = "loop", N(i, k)' # 0
               PROVE  N(i, k)' <= Rounds(doc.steps[i])
    BY <1>0, <1>r DEF InBudget, Place
  <2>6. N(i, k)' = N(i, k) + IF i = top /\ k = l THEN 1 ELSE 0
    BY <1>0, <1>l, <2>3, <2>4, CountsGrow
  <2>7. CASE i = top /\ k = l
    BY <2>1, <2>5, <2>6, <2>7 DEF Here
  <2>8. CASE ~(i = top /\ k = l)
    <3>1. N(i, k)' = N(i, k)
      <4>1. N(i, k) \in Nat
        BY <1>0, <1>l, <2>3, <2>4, CountsGrow
      <4> QED
        BY <2>6, <2>8, <4>1
    <3> QED
      BY <3>1 DEF InBudget
  <2> QED
    BY <2>7, <2>8
<1>1. CASE Register \/ Submit \/ Start
  BY <1>s, <1>1 DEF Register, Submit, Offer, Start, Abort, Interpreter
<1>2. CASE Tick \/ Cancel
  BY <1>s, <1>2 DEF Tick, Cancel, Interpreter
<1>3. CASE Control
  <2>0. WellFormed(doc)
    BY <1>3 DEF Control, Admitted, Gated, Running
  <2>1. CASE UNCHANGED records
    BY <1>s, <2>1
  <2>2. CASE Leave("succeeded") /\ top <= Len(doc.steps)
    <3>1. Place(top, 0) /\ At(top, 0) = Here
      BY <1>0, <2>2, HereIs, AtIs DEF Here
    <3> QED
      BY <1>o, <2>0, <2>2, <3>1 DEF Leave, Errors
  <2> QED
    BY <1>3, <2>1, <2>2 DEF Control, EnterTop, Abort, Iterate, NextOfBody, EndOfBody, Interpreter,
       Placed, Running
<1>4. CASE Act \/ Dispatch \/ Verify
  <2>0. pc \in Stepping /\ WellFormed(doc) /\ top <= Len(doc.steps) /\ "none" \in Errors
    BY <1>4, StepMoves DEF Admitted, Gated, Placed, Running, Stepping, Errors
  <2>h. Place(top, 0) /\ At(top, 0) = Here
    BY <1>0, <2>0, HereIs, AtIs DEF Here
  \* The place of the current step.
  <2>c. ~IsAction(Here) => \E l \in Nat : Place(top, l) /\ current = At(top, l)
    <3> SUFFICES ASSUME ~IsAction(Here) PROVE \E l \in Nat : Place(top, l) /\ current = At(top, l)
      OBVIOUS
    <3>1. Here.type \in {"loop", "if"} /\ Rest /\ Begun >= 1 /\ current = Source(Here)[Begun]
      BY <2>0 DEF Placed, Stepping
    <3>2. Begun \in 1 .. Size(Here)
      BY <2>0, <3>1, SourceIs DEF Begun, Rest
    <3>3. Place(top, Off(Here) + Begun) /\ Off(Here) + Begun \in Nat /\
        current = At(top, Off(Here) + Begun)
      BY <2>0, <3>1, <3>2, SourceAt
    <3> QED
      BY <3>3
  \* One record of the current step.
  <2>1. ASSUME NEW st \in {"succeeded", "failed"}, NEW e \in Errors,
               records' = Append(records, Record(current.id, st, e))
        PROVE  InBudget'
    <3>1. CASE Here.type = "loop"
      BY <1>l, <2>0, <2>1, <3>1
    <3>2. CASE IsAction(Here)
      <4>1. current = Here
        BY <2>0, <3>2 DEF Placed, Stepping, IsAction
      <4> QED
        BY <1>o, <2>0, <2>1, <2>h, <4>1
    <3>3. CASE Here.type # "loop" /\ ~IsAction(Here)
      BY <1>o, <2>0, <2>1, <2>c, <3>3
    <3> QED
      BY <3>1, <3>2, <3>3
  <2>2. CASE UNCHANGED records
    BY <1>s, <2>2
  <2>3. CASE Success
    BY <2>0, <2>1, <2>3 DEF Success
  <2>4. ASSUME NEW e \in Errors, Failure(e) PROVE InBudget'
    <3>0. /\ records \in Seq(RecordType) /\ current.id \in STRING /\ Here.id \in STRING
      BY <2>0, CurrentIs, HereIs DEF Typed, Reports
    <3> DEFINE a == Record(current.id, "failed", e)
               b == Record(Here.id, "failed", e)
    <3>1. a \in RecordType /\ b \in RecordType
      BY <3>0 DEF Record, RecordType
    <3>2. \/ records' = Append(records, a)
          \/ records' = records \o <<a>> \o <<>>
          \/ Here.type = "if" /\ records' = records \o <<a>> \o <<b>>
      BY <2>4 DEF Failure
    <3> HIDE DEF a, b
    <3>3. CASE records' = Append(records, a) \/ records' = records \o <<a>> \o <<>>
      <4>1. records \o <<a>> \o <<>> = Append(records, a)
        BY <3>0, <3>1
      <4> QED
        BY <2>1, <3>3, <4>1 DEF a
    <3>4. CASE Here.type = "if" /\ records' = records \o <<a>> \o <<b>>
      <4> SUFFICES ASSUME NEW i \in Nat, NEW k \in Nat, Place(i, k), k # 0,
                          doc.steps[i].type = "loop", N(i, k)' # 0
                   PROVE  N(i, k)' <= Rounds(doc.steps[i])
        BY <1>0, <1>r DEF InBudget, Place
      <4>1. records' = Append(Append(records, a), b) /\ Append(records, a) \in Seq(RecordType)
        <5>1. records \o <<a>> \o <<b>> = Append(Append(records, a), b)
          BY <3>0, <3>1
        <5>2. Append(records, a) \in Seq(RecordType)
          BY <3>0, <3>1
        <5> QED
          BY <3>4, <5>1, <5>2
      <4>2. At(i, k).id # current.id /\ At(i, k).id # Here.id
        <5>1. i # top
          BY <3>4 DEF Here
        <5>2. ~IsAction(Here)
          BY <3>4 DEF IsAction
        <5> QED
          BY <1>0, <2>0, <2>h, <2>c, <5>1, <5>2, Apart
      <4> DEFINE id == At(i, k).id
      <4>3. a.id # id /\ b.id # id
        BY <4>2 DEF a, b, Record
      <4>4. N(i, k) = Count(records, id) /\ N(i, k)' = Count(Append(Append(records, a), b), id)
        BY <1>0, <4>1 DEF N, At
      <4> HIDE DEF id
      <4>5. /\ Count(Append(records, a), id) = Count(records, id) + 0
            /\ Count(Append(Append(records, a), b), id) = Count(Append(records, a), id) + 0
        BY <3>0, <3>1, <4>1, <4>3, CountAppend
      <4>6. Count(records, id) \in Nat
        BY <3>0, CountIsNat
      <4>7. N(i, k)' = N(i, k)
        BY <4>4, <4>5, <4>6
      <4> QED
        BY <4>7 DEF InBudget
    <3> QED
      BY <3>2, <3>3, <3>4
  <2> QED
    BY <1>4, <2>2, <2>3, <2>4, StepMoves DEF Interpreter
<1> QED
  BY <1>1, <1>2, <1>3, <1>4 DEF Next, Work

\* The interpreter has left the step it was at, with its record.
LEMMA CountedPast ==
  ASSUME Typed, WellFormed(doc), Counted, pc \in Running, doc' = doc, call' = call,
         top <= Len(doc.steps), top' = top + 1, pc' = "boundary",
         records' = Append(records, Record(Here.id, "succeeded", "none")),
         Here.type = "loop" => \A k \in 1 .. Len(Body(Here)) :
           /\ N(top, k) <= Rounds(Here)
           /\ \A l \in 1 .. Len(Body(Here)) : N(top, k) = N(top, l),
         Here.type = "if" => \A k \in 1 .. Len(Body(Here)) :
           N(top, k) = IF k \in (Off(Here) + 1) .. (Off(Here) + Size(Here)) THEN 1 ELSE 0
  PROVE  Counted'
<1>0. /\ doc \in Document /\ top \in DOMAIN doc.steps /\ top \in Nat /\ "none" \in Errors
      /\ Place(top, 0) /\ At(top, 0) = Here /\ records \in Seq(RecordType)
      /\ Len(Body(Here)) \in Nat
  BY HereIs, AtIs DEF Here, Errors, Typed, Reports
<1>1. records' = Append(records, Record(At(top, 0).id, "succeeded", "none"))
  BY <1>0
<1>2. \A i, k \in Nat : Place(i, k) =>
        N(i, k)' = N(i, k) + (IF i = top /\ k = 0 THEN 1 ELSE 0) /\ N(i, k) \in Nat
  BY <1>0, <1>1, CountsGrow
<1>3. N(top, 0) = 0
  BY <1>0 DEF Counted
<1>4. ASSUME NEW i \in DOMAIN doc.steps, i < top' PROVE Passed(i)'
  <2>0. i \in Nat
    BY DEF Document
  <2>1. CASE i < top
    <3>1. Passed(i)
      BY <2>1 DEF Counted
    <3> QED
      BY <1>0, <1>1, <2>1, <3>1, PassedStays
  <2>2. CASE i = top
    <3>1. N(i, 0)' = 1
      <4>1. Place(i, 0) /\ N(i, 0) = 0
        BY <1>0, <1>3, <2>2
      <4> QED
        BY <1>2, <2>0, <2>2, <4>1
    <3>2. \A k \in 1 .. Len(Body(Here)) : N(i, k)' = N(i, k)
      <4> SUFFICES ASSUME NEW k \in 1 .. Len(Body(Here)) PROVE N(i, k)' = N(i, k)
        OBVIOUS
      <4>1. Place(i, k) /\ k \in Nat /\ k # 0
        BY <1>0, <2>2 DEF Place, Here
      <4> QED
        BY <1>2, <2>0, <4>1
    <3>3. \A n \in DOMAIN records' : records'[n].id = Here.id => records'[n].status = "succeeded"
      <4>1. \A n \in DOMAIN records : records[n].id # Here.id
        <5>1. Count(records, Here.id) = 0
          BY <1>0, <1>3 DEF N
        <5> QED
          BY <1>0, <5>1, CountIsNat
      <4> DEFINE r == Record(Here.id, "succeeded", "none")
      <4>2. r.status = "succeeded"
        BY DEF Record
      <4> HIDE DEF r
      <4>3. ASSUME NEW n \in DOMAIN Append(records, r) PROVE
              Append(records, r)[n] = r
                \/ (n \in DOMAIN records /\ Append(records, r)[n] = records[n])
        BY <1>0
      <4>4. records' = Append(records, r)
        BY DEF r
      <4> QED
        BY <4>1, <4>2, <4>3, <4>4
    <3>5. doc'.steps[i] = Here /\ Rounds(doc.steps[i])' = Rounds(Here)
      BY <2>2 DEF Here, Rounds
    <3>6. \A k \in 1 .. Len(Body(Here)) : N(i, k)' = N(top, k)
      BY <2>2, <3>2
    <3> QED
      BY <3>1, <3>3, <3>5, <3>6 DEF Passed
  <2> QED
    BY <1>0, <1>4, <2>0, <2>1, <2>2
<1>5. ASSUME NEW i \in Nat, NEW k \in Nat, Place(i, k)', i > top' \/ i = top' PROVE N(i, k)' = 0
  <2>1. Place(i, k) /\ i > top
    BY <1>0, <1>5 DEF Place
  <2>2. N(i, k) = 0
    BY <2>1 DEF Counted
  <2> QED
    BY <1>0, <1>2, <2>1, <2>2
<1> QED
  BY <1>4, <1>5 DEF Counted

\* The interpreter stays at a step and records nothing.
LEMMA CountedSame ==
  ASSUME Typed, Counted, pc \in Running, doc' = doc, call' = call,
         top <= Len(doc.steps), top' = top, records' = records, pc' \in Running \ {"boundary"},
         pc # "boundary" => \A k \in 1 .. Len(Body(Here)) : Expected(k)' = Expected(k),
         pc = "boundary" => \A k \in 1 .. Len(Body(Here)) : Expected(k)' = 0
  PROVE  Counted'
<1>0. doc \in Document /\ top \in DOMAIN doc.steps /\ top \in Nat /\ Here' = Here
  BY HereIs, AtIs DEF Here
<1>1. /\ \A i, k : N(i, k)' = N(i, k) /\ Place(i, k)' = Place(i, k)
      /\ \A i : Passed(i)' = Passed(i)
  BY CountsStay DEF Place
<1>2. ASSUME NEW k \in 1 .. Len(Body(Here)) PROVE N(top, k)' = Expected(k)'
  <2>1. CASE pc = "boundary"
    <3>1. Place(top, k) /\ k \in Nat
      BY <1>0 DEF Place, Here
    <3>2. N(top, k) = 0
      BY <1>0, <2>1, <3>1 DEF Counted
    <3> QED
      BY <1>1, <2>1, <3>2
  <2>2. CASE pc # "boundary"
    BY <1>1, <2>2 DEF Counted
  <2> QED
    BY <2>1, <2>2
<1>3. ASSUME NEW i \in DOMAIN doc.steps, i < top PROVE Passed(i)'
  BY <1>1, <1>3 DEF Counted
<1>4. ASSUME NEW i \in Nat, NEW k \in Nat, Place(i, k), i > top \/ (i = top /\ k = 0)
      PROVE  N(i, k)' = 0
  BY <1>1, <1>4 DEF Counted
<1> QED
  BY <1>0, <1>1, <1>2, <1>3, <1>4 DEF Counted

\* The step of a body the interpreter is at ends, and the next one is due.
LEMMA CountedNext ==
  ASSUME Typed, WellFormed(doc), Placed, Counted, pc \in Stepping, doc' = doc, call' = call,
         ~IsAction(Here), pc' = "body", UNCHANGED <<top, todo, loop>>,
         NEW st \in {"succeeded", "failed"}, NEW e \in Errors,
         records' = Append(records, Record(current.id, st, e))
  PROVE  Counted'
<1>0. /\ doc \in Document /\ top \in DOMAIN doc.steps /\ top \in Nat /\ top <= Len(doc.steps)
      /\ Here' = Here /\ pc \in Running /\ pc \notin {"boundary", "iterate", "body"}
  BY HereIs, AtIs DEF Placed, Running, Stepping, Here
<1>1. Here.type \in {"loop", "if"} /\ Rest /\ Begun >= 1 /\ current = Source(Here)[Begun]
  BY DEF Placed, Stepping
<1>2. Begun \in 1 .. Size(Here) /\ Size(Here) \in Nat
  BY <1>0, <1>1, SourceIs DEF Begun, Rest
<1> DEFINE l == Off(Here) + Begun
<1>3. Place(top, l) /\ l \in Nat /\ l # 0 /\ current = At(top, l) /\ Off(Here) \in Nat
  BY <1>0, <1>1, <1>2, SourceAt
<1>4. records' = Append(records, Record(At(top, l).id, st, e))
  BY <1>3
<1>5. \A i, k \in Nat : Place(i, k) =>
        N(i, k)' = N(i, k) + (IF i = top /\ k = l THEN 1 ELSE 0) /\ N(i, k) \in Nat
  BY <1>0, <1>3, <1>4, CountsGrow
<1>6. ASSUME NEW i \in DOMAIN doc.steps, i < top PROVE Passed(i)'
  <2>1. Passed(i)
    BY <1>0, <1>6 DEF Counted
  <2> QED
    BY <1>3, <1>4, <1>6, <2>1, PassedStays
<1>7. ASSUME NEW i \in Nat, NEW k \in Nat, Place(i, k), i > top \/ (i = top /\ k = 0)
      PROVE  N(i, k)' = 0
  <2>1. N(i, k) = 0
    BY <1>0, <1>7 DEF Counted
  <2>2. ~(i = top /\ k = l)
    BY <1>0, <1>3, <1>7
  <2> QED
    BY <1>5, <1>7, <2>1, <2>2
<1>8. ASSUME NEW k \in 1 .. Len(Body(Here)) PROVE N(top, k)' = Expected(k)'
  <2>1. Place(top, k) /\ k \in Nat
    BY <1>0 DEF Place, Here
  <2>2. N(top, k) = Expected(k)
    BY <1>0 DEF Counted
  <2>3. N(top, k)' = Expected(k) + (IF k = l THEN 1 ELSE 0)
    BY <1>0, <1>5, <2>1, <2>2
  <2>4. Full \in Nat /\ Full' = Full /\ Begun' = Begun
    BY <1>0 DEF Full, Begun, Size, Source, Typed, Interpreting
  <2>5. Ran' = Begun /\ Ran = Begun - 1 /\ Off(Here)' = Off(Here) /\ Size(Here)' = Size(Here)
    BY <1>0, <2>4 DEF Ran, Off, Size, Source
  <2>6. Expected(k)' = IF k \notin (Off(Here) + 1) .. (Off(Here) + Size(Here)) THEN 0
                       ELSE IF k <= Off(Here) + Begun THEN Full ELSE Full - 1
    BY <2>4, <2>5 DEF Expected
  <2>7. Expected(k) = IF k \notin (Off(Here) + 1) .. (Off(Here) + Size(Here)) THEN 0
                      ELSE IF k <= Off(Here) + (Begun - 1) THEN Full ELSE Full - 1
    BY <1>0, <2>5 DEF Expected
  <2> HIDE DEF l
  <2>8. l = Off(Here) + Begun
    BY DEF l
  <2> QED
    BY <1>2, <1>3, <2>3, <2>4, <2>6, <2>7, <2>8
<1> QED
  BY <1>0, <1>6, <1>7, <1>8 DEF Counted, Place

LEMMA CountedStep == Typed /\ Admitted /\ Placed /\ Counted /\ Next => Counted'
<1> SUFFICES ASSUME Typed, Admitted, Placed, Counted, Next PROVE Counted'
  OBVIOUS
<1>0. doc' = doc /\ call' = call /\ top \in Nat /\ doc \in Document
  BY DocFixed, DocumentAssumption DEF Typed, Task, Interpreting
<1>1. CASE pc' \notin Running
  BY <1>1 DEF Counted
<1>2. CASE Register \/ Submit
  BY <1>1, <1>2 DEF Register, Submit, Offer, Finish, Running, Stepping
<1>3. CASE Start /\ pc' \in Running
  <2>1. pc' = "boundary" /\ top' = 1 /\ records' = <<>>
    BY <1>3 DEF Start, Abort, Finish, Running, Stepping, Interpreter, Admitted, Early
  <2>2. \A i, k : N(i, k)' = 0
    BY <2>1, CountNone DEF N
  <2>3. ~\E i \in DOMAIN doc'.steps : i < top'
    BY <1>0, <2>1 DEF Document
  <2> QED
    BY <2>1, <2>2, <2>3 DEF Counted
<1>4. CASE Tick \/ Cancel
  <2>1. pc' = pc /\ UNCHANGED Interpreter
    BY <1>4 DEF Tick, Cancel
  <2>2. /\ \A i, k : N(i, k)' = N(i, k) /\ Place(i, k)' = Place(i, k)
        /\ \A i : Passed(i)' = Passed(i) /\ At(i, 0)' = At(i, 0)
    BY <1>0, <2>1, CountsStay DEF Place, At, Interpreter
  <2>3. \A k : Expected(k)' = Expected(k)
    BY <1>0, <2>1 DEF Expected, Full, Ran, Begun, Here, Off, Size, Source, Interpreter
  <2>4. top' = top /\ Here' = Here
    BY <1>0, <2>1 DEF Interpreter, Here
  <2> QED
    BY <1>0, <2>1, <2>2, <2>3, <2>4 DEF Counted
<1>5. CASE pc = "boundary" /\ EnterTop /\ pc' \in Running
  <2>0. /\ pc \in Running /\ WellFormed(doc) /\ top <= Len(doc.steps) /\ Here' = Here
        /\ top' = top /\ records' = records /\ Off(Here)' = Off(Here) /\ Size(Here)' = Size(Here)
    BY <1>0, <1>5 DEF Admitted, Gated, Running, Stepping, EnterTop, Abort, Finish, Here, Off, Size,
       Source
  <2>1. CASE IsAction(Here) /\ pc' = "act"
    <3>1. Len(Body(Here)) = 0
      <4>1. Here \in Actions \cup Loops \cup Ifs
        BY <2>0, HereIs
      <4>2. Body(Here) = <<>>
        BY <2>1, <4>1, Bodies
      <4> QED
        BY <4>2
    <3>2. 1 .. Len(Body(Here)) = {}
      BY <3>1
    <3> QED
      BY <1>0, <2>0, <2>1, <3>2, CountedSame DEF Running, Stepping
  <2>2. CASE Here.type = "loop" /\ pc' = "iterate" /\
        loop' = [rounds |-> 0, until |-> clock + Duration(Here)]
    <3>1. Full' = 0
      BY <2>0, <2>2 DEF Full
    <3>2. \A k : Expected(k)' = 0
      BY <2>2, <3>1 DEF Expected
    <3> QED
      BY <1>0, <1>5, <2>0, <2>2, <3>2, CountedSame DEF Running, Stepping
  <2>3. CASE Here.type = "if" /\ pc' = "body" /\ todo' = Branch(Here)
    <3>1. todo' = Source(Here) /\ Size(Here) = Len(Source(Here)) /\ Size(Here) \in Nat
      BY <1>5, <2>0, <2>3, BranchIsSource, SourceIs
    <3>2. Begun' = 0 /\ Ran' = 0 /\ Full' = 1
      BY <2>0, <2>3, <3>1 DEF Begun, Ran, Full
    <3>3. Off(Here) \in Nat
      BY <2>0, <2>3, HereIs, Bodies
    <3>4. ASSUME NEW k \in 1 .. Len(Body(Here)) PROVE Expected(k)' = 0
      BY <2>0, <2>3, <3>1, <3>2, <3>3 DEF Expected
    <3> QED
      BY <1>0, <1>5, <2>0, <2>3, <3>4, CountedSame DEF Running, Stepping
  <2> QED
    BY <1>5, <2>1, <2>2, <2>3 DEF EnterTop, Abort, Finish, Begin, Running, Stepping
<1>6. CASE pc = "iterate" /\ Iterate /\ pc' \in Running
  <2>0. /\ pc \in Running /\ WellFormed(doc) /\ top <= Len(doc.steps) /\ Here.type = "loop"
        /\ loop \in [rounds : Nat, until : Nat] /\ loop.rounds <= Rounds(Here)
    BY <1>6 DEF Admitted, Gated, Placed, Running, Typed, Interpreting
  <2>1. /\ Source(Here) \in Seq(Actions) /\ Size(Here) = Len(Source(Here)) /\ Size(Here) \in Nat
        /\ Source(Here) = Here.body /\ Off(Here) = 0 /\ Body(Here) = Source(Here)
    BY <2>0, HereIs, SourceIs, Bodies
  <2>2. \A k \in 1 .. Len(Body(Here)) : N(top, k) = loop.rounds /\ Expected(k) = loop.rounds
    <3> SUFFICES ASSUME NEW k \in 1 .. Len(Body(Here))
                 PROVE  N(top, k) = loop.rounds /\ Expected(k) = loop.rounds
      OBVIOUS
    <3>1. N(top, k) = Expected(k)
      BY <1>6, <2>0 DEF Counted
    <3>2. Expected(k) = loop.rounds
      BY <1>6, <2>0, <2>1 DEF Expected, Full
    <3> QED
      BY <3>1, <3>2
  <2>3. CASE Leave("succeeded")
    BY <1>0, <2>0, <2>2, <2>3, CountedPast DEF Leave
  <2>4. CASE pc' = "body" /\ loop' = [loop EXCEPT !.rounds = @ + 1] /\ todo' = Here.body
             /\ top' = top /\ records' = records
    <3>1. Here' = Here /\ loop'.rounds = loop.rounds + 1 /\ loop.rounds \in Nat
      BY <1>0, <2>0, <2>4 DEF Here
    <3>2. /\ Begun' = 0 /\ Ran' = 0 /\ Full' = loop.rounds + 1
          /\ Off(Here)' = 0 /\ Size(Here)' = Size(Here)
      BY <2>0, <2>1, <2>4, <3>1 DEF Begun, Ran, Full, Off, Size, Source
    <3>3. ASSUME NEW k \in 1 .. Len(Body(Here)) PROVE Expected(k)' = Expected(k)
      <4>1. Expected(k)' = loop.rounds
        BY <2>1, <2>4, <3>1, <3>2 DEF Expected
      <4> QED
        BY <2>2, <4>1
    <3> QED
      BY <1>0, <1>6, <2>0, <2>4, <3>3, CountedSame DEF Running, Stepping
  <2> QED
    BY <1>6, <2>3, <2>4 DEF Iterate, Abort, Finish, Running, Stepping
<1>7. CASE pc = "body" /\ NextOfBody /\ pc' \in Running
  <2>0. /\ pc \in Running /\ top <= Len(doc.steps) /\ Here.type \in {"loop", "if"} /\ Rest
    BY <1>7 DEF Placed, Running
  <2>1. /\ todo # <<>> /\ pc' = "act" /\ todo' = Tail(todo)
        /\ top' = top /\ loop' = loop /\ records' = records /\ Here' = Here
    BY <1>0, <1>7 DEF NextOfBody, Begin, Abort, Finish, Running, Stepping, Here
  <2>2. /\ Size(Here) \in Nat /\ todo \in Seq(ActionSteps(doc)) /\ Len(todo) \in Nat
    BY <2>0, SourceIs
  <2>3. Len(todo') = Len(todo) - 1
    BY <2>1, <2>2
  <2>4. /\ Begun' = Begun + 1 /\ Begun \in Int /\ Off(Here)' = Off(Here) /\ Size(Here)' = Size(Here)
        /\ Full' = Full
    BY <2>1, <2>2, <2>3 DEF Begun, Off, Size, Source, Full
  <2>5. Ran' = Ran
    BY <1>7, <2>1, <2>4 DEF Ran
  <2>6. \A k : Expected(k)' = Expected(k)
    BY <1>7, <2>1, <2>4, <2>5 DEF Expected
  <2> QED
    BY <1>0, <1>7, <2>0, <2>1, <2>6, CountedSame DEF Running, Stepping
<1>8. CASE pc = "body" /\ EndOfBody /\ pc' \in Running
  <2>0. /\ pc \in Running /\ top <= Len(doc.steps) /\ Here.type \in {"loop", "if"} /\ Rest
        /\ WellFormed(doc) /\ todo = <<>>
    BY <1>8 DEF Placed, Running, Admitted, Gated, EndOfBody
  <2>1. Size(Here) \in Nat /\ Begun = Size(Here) /\ Ran = Size(Here) /\ Off(Here) \in Nat
    <3>1. Here \in Actions \cup Loops \cup Ifs /\ ~IsAction(Here)
      BY <2>0, HereIs
    <3>2. Off(Here) \in Nat
      BY <3>1, Bodies
    <3>3. Size(Here) \in Nat /\ Begun = Size(Here)
      BY <2>0, SourceIs DEF Begun
    <3> QED
      BY <1>8, <3>2, <3>3 DEF Ran
  <2>2. \A k \in 1 .. Len(Body(Here)) :
          Expected(k) = IF k \in (Off(Here) + 1) .. (Off(Here) + Size(Here)) THEN Full ELSE 0
    BY <1>8, <2>1 DEF Expected
  <2>3. CASE Here.type = "if" /\ Leave("succeeded")
    <3>1. Full = 1
      BY <2>3 DEF Full
    <3>2. \A k \in 1 .. Len(Body(Here)) :
            N(top, k) = IF k \in (Off(Here) + 1) .. (Off(Here) + Size(Here)) THEN 1 ELSE 0
      BY <1>8, <2>0, <2>2, <3>1 DEF Counted
    <3> QED
      BY <1>0, <2>0, <2>3, <3>2, CountedPast DEF Leave
  <2>4. CASE Here.type = "loop" /\ pc' = "iterate" /\ UNCHANGED Interpreter
    <3>1. /\ Here' = Here /\ Full' = Full /\ Off(Here)' = Off(Here) /\ Size(Here)' = Size(Here)
          /\ top' = top /\ records' = records
      BY <1>0, <2>4 DEF Interpreter, Here, Full, Off, Size, Source
    <3>2. ASSUME NEW k \in 1 .. Len(Body(Here)) PROVE Expected(k)' = Expected(k)
      BY <2>2, <2>4, <3>1 DEF Expected
    <3> QED
      BY <1>0, <1>8, <2>0, <2>4, <3>1, <3>2, CountedSame DEF Running, Stepping
  <2> QED
    BY <1>8, <2>3, <2>4 DEF EndOfBody
<1>9. CASE (Act \/ Dispatch \/ Verify) /\ pc' \in Running
  <2>0. /\ pc \in Stepping /\ pc \in Running /\ WellFormed(doc) /\ top <= Len(doc.steps)
        /\ pc \notin {"boundary", "iterate", "body"} /\ "none" \in Errors
    BY <1>9, StepMoves DEF Admitted, Gated, Placed, Running, Stepping, Errors
  <2>1. CASE Success /\ IsAction(Here)
    <3>1. current = Here /\ Here.type \notin {"loop", "if"}
      BY <2>0, <2>1, HereIs DEF Placed
    <3> QED
      BY <1>0, <2>0, <2>1, <3>1, CountedPast DEF Success
  <2>2. CASE Success /\ ~IsAction(Here)
    BY <1>0, <2>0, <2>2, CountedNext DEF Success
  <2>3. CASE \E e \in Errors : Failure(e)
    <3>1. PICK e \in Errors : Failure(e)
      BY <2>3
    <3>2. ~IsAction(Here) /\ pc' = "body" /\ UNCHANGED <<top, todo, loop>>
          /\ records' = Append(records, Record(current.id, "failed", e))
      BY <1>9, <3>1 DEF Failure, Finish, Running, Stepping, IsAction
    <3> QED
      BY <1>0, <2>0, <3>2, CountedNext
  <2>4. CASE pc' \in {"dispatch", "verify"} /\ UNCHANGED <<Interpreter, result>>
    <3>1. Here' = Here /\ top' = top /\ records' = records
      BY <1>0, <2>4 DEF Interpreter, Here
    <3>2. \A k : Expected(k)' = Expected(k)
      BY <2>0, <2>4, <3>1 DEF Expected, Full, Ran, Begun, Off, Size, Source, Interpreter
    <3> QED
      BY <1>0, <2>0, <2>4, <3>1, <3>2, CountedSame DEF Running, Stepping
  <2> QED
    BY <1>9, <2>1, <2>2, <2>3, <2>4, StepMoves
<1> QED
  BY <1>1, <1>2, <1>3, <1>4, <1>5, <1>6, <1>7, <1>8, <1>9 DEF Next, Work, Control

LEMMA SuccessIsWholeStep ==
  Typed /\ Admitted /\ Counted /\ SuccessIsWhole /\ Next => SuccessIsWhole'
<1> SUFFICES ASSUME Typed, Admitted, Counted, SuccessIsWhole, Next, result'.status = "succeeded"
             PROVE  SuccessIsWhole'
  BY DEF SuccessIsWhole
<1>0. doc' = doc /\ call' = call /\ doc \in Document /\ records \in Seq(RecordType)
  BY DocFixed, DocumentAssumption DEF Typed, Task, Reports
<1>1. pc # "done" /\ result.status = "none"
  BY DEF Typed, Reports, Task, Next, Work, Register, Submit, Offer, Start, Control, Act, Dispatch,
     Verify, Tick, Cancel
<1>2. pc = "boundary" /\ top > Len(doc.steps) /\ UNCHANGED records
  <2>1. CASE Register \/ Submit \/ Start
    BY <1>1, <2>1 DEF Register, Submit, Offer, Start, Abort, Finish, Stop
  <2>2. CASE Tick \/ Cancel
    BY <1>1, <2>2 DEF Tick, Cancel
  <2>3. CASE Control
    BY <1>1, <2>3 DEF Control, EnterTop, Abort, Iterate, Leave, NextOfBody, EndOfBody, Finish, Stop,
       Interpreter
  <2>4. CASE Act \/ Dispatch \/ Verify
    <3>1. Success => result' = result
      BY DEF Success
    <3>2. \A e \in Errors : Failure(e) => result' = result \/ result'.status = "failed"
      BY DEF Failure, Finish
    <3> QED
      BY <1>1, <2>4, <3>1, <3>2, StepMoves
  <2> QED
    BY <2>1, <2>2, <2>3, <2>4 DEF Next, Work
<1>3. WellFormed(doc) /\ pc \in Running
  BY <1>2 DEF Admitted, Gated, Running
<1>4. \A i \in DOMAIN doc.steps : Passed(i)
  <2> SUFFICES ASSUME NEW i \in DOMAIN doc.steps PROVE Passed(i)
    OBVIOUS
  <2>1. i < top
    BY <1>0, <1>2 DEF Document, Typed, Interpreting
  <2> QED
    BY <1>3, <2>1 DEF Counted
\* Places and steps, and how often each was recorded.
<1>5. \A i \in DOMAIN doc.steps : \A k \in 1 .. Len(Body(doc.steps[i])) :
        /\ Place(i, k) /\ i \in Nat /\ k \in Nat /\ At(i, k) = Body(doc.steps[i])[k]
        /\ Times(Body(doc.steps[i])[k]) = N(i, k)
  <2> SUFFICES ASSUME NEW i \in DOMAIN doc.steps, NEW k \in 1 .. Len(Body(doc.steps[i]))
               PROVE  /\ Place(i, k) /\ i \in Nat /\ k \in Nat /\ At(i, k) = Body(doc.steps[i])[k]
                      /\ Times(Body(doc.steps[i])[k]) = N(i, k)
    OBVIOUS
  <2>1. Place(i, k) /\ i \in Nat /\ k \in Nat /\ k # 0
    BY <1>0, AtIs DEF Place
  <2>2. At(i, k) = Body(doc.steps[i])[k]
    BY <1>0, <2>1, AtIs
  <2> QED
    BY <2>1, <2>2 DEF Times, RecordsOf, N, Count
<1>6. ASSUME NEW i \in DOMAIN doc.steps
      PROVE  LET s == doc.steps[i]
             IN /\ Times(s) = 1
                /\ \A n \in RecordsOf(s) : records[n].status = "succeeded"
                /\ s.type = "loop" => \A a, b \in Range(s.body) : Times(a) = Times(b)
                /\ s.type = "if" =>
                     LET taken == IF \E n \in DOMAIN records : records[n].id = s.step
                                                              /\ records[n].status = s.equals
                                  THEN s.then ELSE s.else
                     IN \A a \in Range(Body(s)) : Times(a) = IF a \in Range(taken) THEN 1 ELSE 0
  <2> DEFINE s == doc.steps[i]
  <2>0. /\ Passed(i) /\ i \in Nat /\ Place(i, 0) /\ At(i, 0) = s
        /\ s \in Actions \cup Loops \cup Ifs /\ Body(s) \in Seq(Actions)
    BY <1>0, <1>4, AtIs, StepKinds, Bodies
  <2>1. Times(s) = 1 /\ \A n \in RecordsOf(s) : records[n].status = "succeeded"
    BY <2>0 DEF Passed, Times, RecordsOf, N, Count
  <2>2. ASSUME s.type = "loop", NEW a \in Range(s.body), NEW b \in Range(s.body)
        PROVE  Times(a) = Times(b)
    <3>1. s.body = Body(s)
      BY <2>0, <2>2, Bodies
    <3>2. PICK k \in 1 .. Len(Body(s)) : a = Body(s)[k]
      BY <2>0, <2>2, <3>1 DEF Range
    <3>3. PICK l \in 1 .. Len(Body(s)) : b = Body(s)[l]
      BY <2>0, <2>2, <3>1 DEF Range
    <3>4. N(i, k) = N(i, l)
      BY <2>0, <2>2 DEF Passed
    <3> QED
      BY <1>5, <3>2, <3>3, <3>4
  <2>3. ASSUME s.type = "if", NEW a \in Range(Body(s))
        PROVE  Times(a) = IF a \in Range(IF \E n \in DOMAIN records : records[n].id = s.step
                                                                    /\ records[n].status = s.equals
                                         THEN s.then ELSE s.else) THEN 1 ELSE 0
    <3>0. ~IsAction(s)
      BY <2>3 DEF IsAction
    <3>1. (\E n \in DOMAIN records : records[n].id = s.step /\ records[n].status = s.equals)
            <=> s.equals = "succeeded"
      <4>1. PICK j \in 1 .. (i - 1) : doc.steps[j].id = s.step
        BY <1>3, <2>3 DEF WellFormed
      <4>2. j \in DOMAIN doc.steps /\ j \in Nat
        BY <1>0, <2>0, <4>1 DEF Document
      <4>3. Passed(j) /\ At(j, 0).id = s.step
        BY <1>0, <1>4, <4>1, <4>2, AtIs
      <4>4. Count(records, s.step) = 1
        BY <4>3 DEF Passed, N
      <4>5. \E n \in DOMAIN records : records[n].id = s.step
        <5>1. Count(records, s.step) = 0 <=> \A n \in DOMAIN records : records[n].id # s.step
          BY <1>0, CountIsNat
        <5> QED
          BY <4>4, <5>1
      <4> QED
        BY <4>1, <4>3, <4>5 DEF Passed
    <3> DEFINE taken == IF \E n \in DOMAIN records : records[n].id = s.step
                                                    /\ records[n].status = s.equals
                        THEN s.then ELSE s.else
    <3>2. taken = Source(s)
      BY <2>3, <3>1 DEF Source
    <3>3. PICK k \in 1 .. Len(Body(s)) : a = Body(s)[k]
      BY <2>0, <2>3 DEF Range
    <3>4. Times(a) = IF k \in (Off(s) + 1) .. (Off(s) + Size(s)) THEN 1 ELSE 0
      BY <1>5, <2>0, <2>3, <3>3 DEF Passed
    <3>5. /\ Source(s) \in Seq(Actions) /\ Off(s) \in Nat /\ Size(s) = Len(Source(s))
          /\ Off(s) + Size(s) <= Len(Body(s))
          /\ \A m \in 1 .. Size(s) : Source(s)[m] = Body(s)[Off(s) + m]
      BY <2>0, <3>0, Bodies DEF Size
    <3>6. a \in Range(Source(s)) <=> k \in (Off(s) + 1) .. (Off(s) + Size(s))
      <4>1. ASSUME a \in Range(Source(s)) PROVE k \in (Off(s) + 1) .. (Off(s) + Size(s))
        <5>1. PICK m \in 1 .. Size(s) : a = Source(s)[m]
          BY <3>5, <4>1 DEF Range
        <5>2. Off(s) + m \in 1 .. Len(Body(s)) /\ Body(s)[Off(s) + m] = Body(s)[k]
          BY <2>0, <3>3, <3>5, <5>1
        <5>3. k = Off(s) + m
          BY <1>0, <1>3, <1>5, <3>3, <5>2, Apart
        <5> QED
          BY <3>5, <5>1, <5>3
      <4>2. ASSUME k \in (Off(s) + 1) .. (Off(s) + Size(s)) PROVE a \in Range(Source(s))
        <5> DEFINE m == k - Off(s)
        <5>1. m \in 1 .. Size(s) /\ Off(s) + m = k /\ m \in DOMAIN Source(s)
          BY <3>5, <4>2
        <5>2. Source(s)[m] = a
          BY <3>3, <3>5, <5>1
        <5> QED
          BY <5>1, <5>2 DEF Range
      <4> QED
        BY <4>1, <4>2
    <3> QED
      BY <3>2, <3>4, <3>6
  <2> QED
    BY <2>1, <2>2, <2>3
<1>7. \A s : Times(s)' = Times(s) /\ RecordsOf(s)' = RecordsOf(s)
  BY <1>2 DEF Times, RecordsOf
<1> QED
  BY <1>0, <1>2, <1>6, <1>7 DEF SuccessIsWhole

LEMMA InvStep == Inv /\ [Next]_vars => Inv'
<1> SUFFICES ASSUME Inv, [Next]_vars PROVE Inv'
  OBVIOUS
<1>1. CASE Next
  <2>1. Typed'
    BY <1>1, TaskStep, InterpretingStep, ReportsStep, HistoriesStep DEF Inv, Typed
  <2> QED
    BY <1>1, <2>1, AdmittedStep, PlacedStep, CountedStep, LateKnownStep, InBudgetStep,
       SuccessIsWholeStep DEF Inv
<1>2. CASE UNCHANGED vars
  <2>1. Typed' /\ Admitted' /\ LateKnown'
    BY <1>2 DEF vars, Inv, Typed, Task, Interpreting, Reports, Histories, Admitted, Gated,
       LateKnown, Stop
  <2>2. Placed'
    BY <1>2, StaysPlaced DEF vars, Inv, Interpreter
  <2>3. InBudget'
    BY <1>2, CountsStay DEF vars, Inv
  <2>4. Counted'
    <3>1. /\ \A i, k : N(i, k)' = N(i, k) /\ Place(i, k)' = Place(i, k)
          /\ \A i : Passed(i)' = Passed(i)
      BY <1>2, CountsStay DEF vars, Place
    <3>2. \A k : Expected(k)' = Expected(k)
      BY <1>2 DEF vars, Expected, Full, Ran, Begun, Here, Off, Size, Source
    <3>3. Here' = Here
      BY <1>2 DEF vars, Here
    <3> QED
      BY <1>2, <3>1, <3>2, <3>3 DEF vars, Inv, Counted
  <2>5. SuccessIsWhole'
    <3>1. \A s : Times(s)' = Times(s) /\ RecordsOf(s)' = RecordsOf(s)
      BY <1>2 DEF vars, Times, RecordsOf
    <3> QED
      BY <1>2, <3>1 DEF vars, Inv, SuccessIsWhole
  <2> QED
    BY <2>1, <2>2, <2>3, <2>4, <2>5 DEF Inv
<1> QED
  BY <1>1, <1>2

LEMMA InvHolds == Spec => []Inv
BY InitInv, InvStep, PTL DEF Spec
-----------------------------------------------------------------------------
(* Theorems.                                                                *)

\* Every task is well typed: a step is being run exactly while the task is inside
\* run_action_step, and records name steps of the document.
THEOREM TypeCorrect == Spec => []TypeOK
<1>1. Inv => TypeOK
  <2> SUFFICES ASSUME Inv PROVE TypeOK
    OBVIOUS
  <2>1. Task /\ Interpreting /\ Reports /\ Histories
    BY DEF Inv, Typed
  <2>2. \A n \in DOMAIN records : records[n].error \in Errors
    <3> SUFFICES ASSUME NEW n \in DOMAIN records PROVE records[n].error \in Errors
      OBVIOUS
    <3>1. records[n] \in RecordType
      BY <2>1 DEF Reports
    <3> QED
      BY <3>1 DEF RecordType
  <2>3. result.error \in Errors
    BY <2>1 DEF Reports, ResultType
  <2> QED
    BY <2>1, <2>2, <2>3 DEF TypeOK, Task, Interpreting, Reports, Histories, Early, Running, Stepping
<1> QED
  BY InvHolds, <1>1, PTL

\* A task that succeeded went through the whole document: every top-level step
\* succeeded once, every loop left whole rounds, every if the branch its step asked
\* for (run_dsl_skill).
THEOREM SuccessMeansWhole == Spec => []SuccessIsWhole
<1>1. Inv => SuccessIsWhole
  BY DEF Inv
<1> QED
  BY InvHolds, <1>1, PTL

\* After a cancel or the deadline at most one more step begins (boundary in
\* DslSkillTaskRunner.run).
THEOREM LateStepsBounded == Spec => []OneLateStep
<1>1. Inv => OneLateStep
  BY DEF Inv, LateKnown, OneLateStep
<1> QED
  BY InvHolds, <1>1, PTL

\* A loop stays within the rounds of its document and, in the official skill, of its
\* caller (_run_loop, _apply_requested_loop_budget).
THEOREM BudgetsKept == Spec => []BudgetKept
<1>1. Inv => BudgetKept
  <2> SUFFICES ASSUME Inv, NEW s \in Range(doc.steps), s.type = "loop", NEW a \in Range(s.body),
                      RecordsOf(a) # {}
               PROVE  Times(a) <= s.rounds /\ (doc.official => Times(a) <= call.budget.rounds)
    BY DEF BudgetKept
  <2>0. Typed /\ InBudget /\ doc \in Document /\ records \in Seq(RecordType)
    BY DocumentAssumption DEF Inv, Typed, Task, Reports
  <2>1. PICK i \in DOMAIN doc.steps : s = doc.steps[i]
    BY DEF Range
  <2>2. s \in Actions \cup Loops \cup Ifs /\ Body(s) = s.body /\ Body(s) \in Seq(Actions)
    BY <2>0, <2>1, StepKinds, Bodies
  <2>3. PICK k \in 1 .. Len(Body(s)) : a = Body(s)[k]
    BY <2>2 DEF Range
  <2>4. Place(i, k) /\ i \in Nat /\ k \in Nat /\ k # 0
    BY <2>0, <2>1, <2>2, <2>3, AtIs DEF Place
  <2>5. At(i, k) = a
    BY <2>0, <2>1, <2>3, <2>4, AtIs
  <2>6. Times(a) = N(i, k) /\ Times(a) = Count(records, a.id)
    BY <2>5 DEF Times, RecordsOf, N, Count
  <2>7. Times(a) \in Nat /\ Times(a) # 0
    <3>1. \E n \in DOMAIN records : records[n].id = a.id
      BY DEF RecordsOf
    <3> QED
      BY <2>0, <2>6, <3>1, CountIsNat
  <2>8. WellFormed(doc)
    <3>1. records # <<>>
      BY DEF RecordsOf
    <3> QED
      BY <3>1 DEF Inv, Admitted, Gated
  <2>9. Times(a) <= Rounds(s)
    BY <2>0, <2>1, <2>4, <2>6, <2>7 DEF InBudget
  <2>10. /\ Rounds(s) \in Nat /\ Rounds(s) <= s.rounds
         /\ doc.official => Rounds(s) <= call.budget.rounds
    BY <2>0, <2>1, <2>8, LoopBudgets
  <2>11. s.rounds \in Int /\ call.budget.rounds \in Nat
    BY <2>0, <2>1, StepKinds, BoundAssumption DEF Loops, Typed, Task
  <2> QED
    BY <2>7, <2>9, <2>10, <2>11
<1> QED
  BY InvHolds, <1>1, PTL

\* What the device was asked to do had a confirmation if its risk asks for one, and
\* was never of high risk, wherever in the document its step is (derive_skill_risk,
\* _enforce_policy_gate).
THEOREM DeviceActsAsConfirmed == Spec => []NothingUnconfirmed
<1>1. Inv => NothingUnconfirmed
  <2> SUFFICES ASSUME Inv, NEW i \in DOMAIN truth, NEW s \in ActionSteps(doc)
               PROVE  RiskOf(s) = 0 \/ (RiskOf(s) = 1 /\ call.confirmed)
    BY DEF NothingUnconfirmed
  <2>0. doc \in Document /\ RiskError(doc) = "none" /\ GateError(doc, call.confirmed) = "none"
    BY DocumentAssumption DEF Inv, Admitted, Gated, Typed, Task
  <2>1. \A t \in ActionSteps(doc) : RiskOf(t) \in {0, 1, 2}
    <3> SUFFICES ASSUME NEW t \in ActionSteps(doc) PROVE RiskOf(t) \in {0, 1, 2}
      OBVIOUS
    <3>1. t.type \in {"tool", "skill"}
      BY DEF ActionSteps, IsAction
    <3>2. CASE t.type = "tool"
      <4>1. t.name \in DOMAIN Registered
        BY <2>0, <3>2 DEF RiskError
      <4>2. t.name \in {"launch", "tap", "list", "install"}
        BY <4>1 DEF Registered
      <4> QED
        BY <3>2, <4>2 DEF RiskOf, Registered, Tool
    <3>3. CASE t.type = "skill"
      <4>1. t.name \in DOMAIN Whitelist
        BY <2>0, <3>1, <3>3 DEF RiskError
      <4>2. t.name \in {"snapshot", "logs"}
        BY <4>1 DEF Whitelist
      <4> QED
        BY <3>3, <4>2 DEF RiskOf, Whitelist
    <3> QED
      BY <3>1, <3>2, <3>3
  <2> DEFINE R == {0} \cup {RiskOf(t) : t \in ActionSteps(doc)}
  <2>2. R \subseteq {0, 1, 2} /\ 0 \in R /\ RiskOf(s) \in R
    BY <2>1
  <2> HIDE DEF R
  <2>3. \E m \in R : \A n \in R : m >= n
    BY <2>2
  <2>4. Max(R) \in R /\ \A n \in R : Max(R) >= n
    BY <2>3 DEF Max
  <2>5. DerivedRisk(doc) = Max(R)
    BY DEF DerivedRisk, R
  <2>6. DerivedRisk(doc) \in {0, 1, 2} /\ DerivedRisk(doc) >= RiskOf(s)
    BY <2>2, <2>4, <2>5
  <2>7. ~(DerivedRisk(doc) >= 2) /\ (DerivedRisk(doc) = 1 => call.confirmed)
    BY <2>0 DEF GateError
  <2> QED
    BY <2>1, <2>6, <2>7
<1> QED
  BY InvHolds, <1>1, PTL
=============================================================================
