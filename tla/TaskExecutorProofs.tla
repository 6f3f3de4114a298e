------------------------- MODULE TaskExecutorProofs -------------------------
(* Theorems about TaskExecutor, for any number of tasks, clients and keys    *)
(* and any bounds: types, terminal rows, keys and results first, then the    *)
(* invariant of the executor at work (WorkInv) and what follows from it, the *)
(* refinement of TaskLifecycle and the promise of TaskPromises among it.     *)
EXTENDS TaskPromises, TLAPS

-----------------------------------------------------------------------------
(* The helpers every action is built from keep the type.                     *)

\* A refused save changes nothing, an accepted one replaces one row.
LEMMA SaveKeepsType ==
  ASSUME StoreType, NEW t \in Tasks, NEW e \in Execution,
         Save(t, e) \/ UNCHANGED exec, UNCHANGED history
  PROVE  StoreType'
BY DEF Save, StoreType, history

LEMMA AppendedType ==
  ASSUME events \in [Tasks -> Seq(EventType)], NEW t \in Tasks,
         NEW e \in EventType, Append1(t, e) \/ UNCHANGED events
  PROVE  events' \in [Tasks -> Seq(EventType)]
<1>1. Append(events[t], e) \in Seq(EventType)
  OBVIOUS
<1> QED
  BY <1>1 DEF Append1

LEMMA AppendKeepsType ==
  ASSUME StoreType, NEW t \in Tasks, NEW e \in EventType,
         Append1(t, e) \/ UNCHANGED events,
         UNCHANGED <<exec, request, report, acted>>
  PROVE  StoreType'
BY AppendedType DEF StoreType

LEMMA FaultKeepsType ==
  ASSUME budget \in Budget, Fault
  PROVE  budget' \in Budget
<1>1. MaxFaults \in Nat
  BY BoundAssumption
<1> QED
  BY <1>1 DEF Fault, Spend, Budget

\* The row of a finished task is a row.
LEMMA FinishedType ==
  ASSUME NEW e \in Execution, NEW v \in Terminal
  PROVE  /\ Finished(e, v) \in Execution
         /\ Finished(e, v).status = v
         /\ Finished(e, v).result
BY DEF Finished, Execution, ErrorOf, Error, Terminal

LEMMA IdleType == Idle \in ClientState /\ Idle.pc = "idle"
BY DEF Idle, ClientState, ClientPC, Execution, Absent, Error

LEMMA ThreadType ==
  /\ Waiting \in WorkerState /\ Waiting.pc = "take"
  /\ NoThread \in WorkerState /\ NoThread.pc = "none"
BY DEF Waiting, NoThread, WorkerState, WorkerPC, Execution, Absent, Error

LEMMA InitType == Init => TypeOK
<1> SUFFICES ASSUME Init PROVE TypeOK
  OBVIOUS
<1>1. StoreType
  BY BoundAssumption DEF Init, StoreType, Execution, Absent, Error
<1>2. ExecutorType
  BY DEF Init, ExecutorType, Flags, NoFlags
<1>3. ClientType
  BY IdleType DEF Init, ClientType
<1>4. WorkerType
  BY ThreadType DEF Init, WorkerType
<1>5. budget \in Budget
  BY BoundAssumption DEF Init, Budget
<1> QED
  BY <1>1, <1>2, <1>3, <1>4, <1>5 DEF TypeOK
-----------------------------------------------------------------------------
(* The actions of the worker.                                                *)

\* Moving the worker on, when its task and what it carries stay as they are.
LEMMA RunKeepsType ==
  ASSUME WorkerType, NEW pc \in WorkerPC, Run(pc),
         pc \notin {"none", "take"} => worker.task \in Tasks,
         pc \in {"report", "read"} => worker.verdict \in Terminal,
         pc \in {"complete", "final", "exceptEvent", "exceptSave"} =>
           worker.snap.status \in Terminal
  PROVE  WorkerType'
BY DEF WorkerType, WorkerState, Run

LEMMA ConcludeKeepsType ==
  ASSUME WorkerType, NEW v \in Terminal, Conclude(v), worker.task \in Tasks
  PROVE  WorkerType'
BY DEF WorkerType, WorkerState, Conclude, WorkerPC

LEMMA BoundaryKeepsType ==
  ASSUME WorkerType, NEW t, Boundary(t), worker.task \in Tasks
  PROVE  WorkerType'
BY RunKeepsType, ConcludeKeepsType DEF Boundary, WorkerPC, Terminal

\* What an action leaves unchanged keeps its type.
LEMMA Frame ==
  /\ StoreType /\ UNCHANGED durable => StoreType'
  /\ ExecutorType /\ UNCHANGED executor => ExecutorType'
  /\ ClientType /\ UNCHANGED client => ClientType'
  /\ WorkerType /\ UNCHANGED worker => WorkerType'
BY DEF StoreType, durable, ExecutorType, executor, ClientType, WorkerType

LEMMA WorkerStepType ==
  TypeOK /\ (Worker \/ WorkerFault \/ DeadlinePasses) => TypeOK'
<1> SUFFICES ASSUME TypeOK, Worker \/ WorkerFault \/ DeadlinePasses
             PROVE  TypeOK'
  OBVIOUS
<1>a. StoreType /\ ExecutorType /\ ClientType /\ WorkerType /\ budget \in Budget
  BY DEF TypeOK
<1>b. worker.pc \notin {"none", "take"} => worker.task \in Tasks
  BY <1>a DEF WorkerType
<1>c. worker.task \in Tasks => exec[worker.task] \in Execution
  BY <1>a DEF StoreType
<1> USE DEF TypeOK
<1>1. CASE WorkerGet
  <2>1. queue \in Seq(Tasks) /\ queue # <<>>
    BY <1>1, <1>a DEF WorkerGet, ExecutorType
  <2>2. Head(queue) \in Tasks /\ Tail(queue) \in Seq(Tasks)
    BY <2>1
  <2>3. ExecutorType'
    BY <1>1, <1>a, <2>2 DEF WorkerGet, ExecutorType
  <2>4. WorkerType'
    BY <1>1, <1>a, <2>2 DEF WorkerGet, WorkerType, WorkerState, WorkerPC
  <2> QED
    BY <1>1, <1>a, <2>3, <2>4, Frame DEF WorkerGet
<1>2. CASE WorkerCheck
  <2>1. worker.task \in Tasks
    BY <1>2, <1>b DEF WorkerCheck, WorkerAt
  <2>2. ExecutorType'
    BY <1>2, <1>a, <2>1 DEF WorkerCheck, ExecutorType, Flags
  <2>3. WorkerType'
    <3>1. CASE Skips(worker.task)
      BY <3>1, <1>2, ThreadType DEF WorkerCheck, WorkerType
    <3>2. CASE ~Skips(worker.task)
      BY <3>2, <1>2, <1>a, <2>1, RunKeepsType DEF WorkerCheck, WorkerPC
    <3> QED
      BY <3>1, <3>2
  <2> QED
    BY <1>2, <1>a, <2>2, <2>3, Frame DEF WorkerCheck
<1>3. CASE WorkerStart
  <2>1. worker.task \in Tasks
    BY <1>3, <1>b DEF WorkerStart, WorkerAt
  <2>2. StoreType'
    <3>1. [exec[worker.task] EXCEPT !.status = "running", !.started = TRUE] \in Execution
      BY <2>1, <1>c DEF Execution, Live
    <3>2. /\ Save(worker.task, [exec[worker.task] EXCEPT !.status = "running",
                                                       !.started = TRUE])
             \/ UNCHANGED exec
          /\ UNCHANGED history
      BY <1>3 DEF WorkerStart
    <3> QED
      BY <1>a, <2>1, <3>1, <3>2, SaveKeepsType
  <2>3. WorkerType'
    BY <1>3, <1>a, <2>1, RunKeepsType DEF WorkerStart, WorkerPC
  <2> QED
    BY <1>3, <1>a, <2>2, <2>3, Frame DEF WorkerStart
<1>4. CASE WorkerStarted
  <2>1. worker.task \in Tasks
    BY <1>4, <1>b DEF WorkerStarted, WorkerAt
  <2>2. StoreType'
    BY <1>4, <1>a, <2>1, AppendKeepsType DEF WorkerStarted, EventType
  <2>3. WorkerType'
    BY <1>4, <1>a, <2>1, RunKeepsType DEF WorkerStarted, WorkerPC
  <2> QED
    BY <1>4, <1>a, <2>2, <2>3, Frame DEF WorkerStarted
<1>5. CASE WorkerBind
  <2>1. worker.task \in Tasks
    BY <1>5, <1>b DEF WorkerBind, WorkerAt
  <2>2. StoreType'
    <3>1. [exec[worker.task] EXCEPT !.bound = TRUE] \in Execution
      BY <2>1, <1>c DEF Execution
    <3>2. /\ Save(worker.task, [exec[worker.task] EXCEPT !.bound = TRUE])
             \/ UNCHANGED exec
          /\ UNCHANGED history
      BY <1>5 DEF WorkerBind
    <3> QED
      BY <1>a, <2>1, <3>1, <3>2, SaveKeepsType
  <2>3. WorkerType'
    <3>1. Run("round") \/ Conclude("failed")
      BY <1>5 DEF WorkerBind, Conclude
    <3> QED
      BY <1>a, <2>1, <3>1, RunKeepsType, ConcludeKeepsType DEF WorkerPC, Terminal
  <2> QED
    BY <1>5, <1>a, <2>2, <2>3, Frame DEF WorkerBind
<1>6. CASE WorkerProbe
  <2>1. worker.task \in Tasks
    BY <1>6, <1>b DEF WorkerProbe, WorkerAt
  <2>2. StoreType'
    <3>1. [exec[worker.task] EXCEPT !.status = "paused"] \in Execution
      BY <2>1, <1>c DEF Execution, Live
    <3>2. /\ Save(worker.task, [exec[worker.task] EXCEPT !.status = "paused"])
             \/ UNCHANGED exec
          /\ UNCHANGED history
      BY <1>6 DEF WorkerProbe
    <3> QED
      BY <1>a, <2>1, <3>1, <3>2, SaveKeepsType
  <2>3. WorkerType'
    <3>1. Run("engaged") \/ Boundary(worker.task)
      BY <1>6 DEF WorkerProbe
    <3> QED
      BY <1>a, <2>1, <3>1, RunKeepsType, BoundaryKeepsType DEF WorkerPC
  <2> QED
    BY <1>6, <1>a, <2>2, <2>3, Frame DEF WorkerProbe
<1>7. CASE WorkerEngaged
  <2>1. worker.task \in Tasks
    BY <1>7, <1>b DEF WorkerEngaged, WorkerAt
  <2>2. StoreType'
    BY <1>7, <1>a, <2>1, AppendKeepsType DEF WorkerEngaged, EventType
  <2>3. WorkerType'
    BY <1>7, <1>a, <2>1, RunKeepsType DEF WorkerEngaged, WorkerPC
  <2> QED
    BY <1>7, <1>a, <2>2, <2>3, Frame DEF WorkerEngaged
<1>8. CASE WorkerWake
  <2>1. worker.task \in Tasks
    BY <1>8, <1>b DEF WorkerWake, WorkerAt
  <2>2. ExecutorType'
    BY <1>8, <1>a, <2>1 DEF WorkerWake, ExecutorType, Flags
  <2>3. WorkerType'
    BY <1>8, <1>a, <2>1, RunKeepsType DEF WorkerWake, WorkerPC
  <2> QED
    BY <1>8, <1>a, <2>2, <2>3, Frame DEF WorkerWake
<1>9. CASE WorkerDisengage
  <2>1. worker.task \in Tasks
    BY <1>9, <1>b DEF WorkerDisengage, WorkerAt
  <2>2. StoreType'
    <3>1. [exec[worker.task] EXCEPT !.status = "running", !.pauseReq = FALSE]
            \in Execution
      BY <2>1, <1>c DEF Execution, Live
    <3>2. /\ Save(worker.task, [exec[worker.task] EXCEPT !.status = "running",
                                                       !.pauseReq = FALSE])
             \/ UNCHANGED exec
          /\ UNCHANGED history
      BY <1>9 DEF WorkerDisengage
    <3> QED
      BY <1>a, <2>1, <3>1, <3>2, SaveKeepsType
  <2>3. WorkerType'
    BY <1>9, <1>a, <2>1, RunKeepsType DEF WorkerDisengage, WorkerPC
  <2> QED
    BY <1>9, <1>a, <2>2, <2>3, Frame DEF WorkerDisengage
<1>10. CASE WorkerResumed
  <2>1. worker.task \in Tasks
    BY <1>10, <1>b DEF WorkerResumed, WorkerAt
  <2>2. StoreType'
    BY <1>10, <1>a, <2>1, AppendKeepsType DEF WorkerResumed, EventType
  <2>3. WorkerType'
    BY <1>10, <1>a, <2>1, BoundaryKeepsType DEF WorkerResumed
  <2> QED
    BY <1>10, <1>a, <2>2, <2>3, Frame DEF WorkerResumed
<1>11. CASE WorkerAct
  <2>1. worker.task \in Tasks
    BY <1>11, <1>b DEF WorkerAct, WorkerAt
  <2>2. StoreType'
    <3>1. acted' \in [Tasks -> 0..MaxSteps]
      BY <1>11, <1>a, <2>1, BoundAssumption DEF WorkerAct, RoundsLeft, StoreType
    <3>2. Append1(worker.task, "step") \/ UNCHANGED events
      BY <1>11 DEF WorkerAct
    <3>3. events' \in [Tasks -> Seq(EventType)]
      BY <1>a, <2>1, <3>2, AppendedType DEF StoreType, EventType
    <3> QED
      BY <1>11, <1>a, <3>1, <3>3 DEF WorkerAct, StoreType
  <2>3. WorkerType'
    BY <1>11, <1>a, <2>1, RunKeepsType, ConcludeKeepsType
    DEF WorkerAct, WorkerPC, Terminal
  <2>4. budget' \in Budget
    BY <1>11, <1>a, FaultKeepsType DEF WorkerAct
  <2> QED
    BY <1>11, <1>a, <2>2, <2>3, <2>4, Frame DEF WorkerAct
<1>12. CASE WorkerFinish
  <2>1. worker.task \in Tasks
    BY <1>12, <1>b DEF WorkerFinish
  <2>2. StoreType'
    <3>1. /\ Append1(worker.task, "step") \/ UNCHANGED events
          /\ UNCHANGED <<exec, request, report, acted>>
      BY <1>12 DEF WorkerFinish
    <3> QED
      BY <1>a, <2>1, <3>1, AppendKeepsType DEF EventType
  <2>3. WorkerType'
    <3>1. Conclude("succeeded") \/ Conclude("failed")
      BY <1>12 DEF WorkerFinish
    <3> QED
      BY <1>a, <2>1, <3>1, ConcludeKeepsType DEF Terminal
  <2> QED
    BY <1>12, <1>a, <2>2, <2>3, Frame DEF WorkerFinish
<1>13. CASE WorkerReport
  <2>1. worker.task \in Tasks
    BY <1>13, <1>b DEF WorkerReport, WorkerAt
  <2>2. worker.verdict \in Terminal
    BY <1>13, <1>a DEF WorkerReport, WorkerAt, WorkerType
  <2>3. StoreType'
    BY <1>13, <1>a, <2>1, <2>2 DEF WorkerReport, StoreType
  <2>4. WorkerType'
    BY <1>13, <1>a, <2>1, <2>2, RunKeepsType DEF WorkerReport, WorkerPC
  <2> QED
    BY <1>13, <1>a, <2>3, <2>4, Frame DEF WorkerReport
<1>14. CASE WorkerRead
  <2>1. worker.task \in Tasks
    BY <1>14, <1>b DEF WorkerRead, WorkerAt
  <2>2. worker.verdict \in Terminal
    BY <1>14, <1>a DEF WorkerRead, WorkerAt, WorkerType
  <2>3. WorkerType'
    BY <1>14, <1>a, <1>c, <2>1, <2>2, FinishedType
    DEF WorkerRead, WorkerType, WorkerState, WorkerPC
  <2> QED
    BY <1>14, <1>a, <2>3, Frame DEF WorkerRead
<1>15. CASE WorkerCompleted
  <2>1. worker.task \in Tasks /\ worker.snap.status \in Terminal
    BY <1>15, <1>a, <1>b DEF WorkerCompleted, WorkerType
  <2>2. StoreType'
    BY <1>15, <1>a, <2>1, AppendKeepsType DEF WorkerCompleted, EventType
  <2>3. WorkerType'
    BY <1>15, <1>a, <2>1, RunKeepsType DEF WorkerCompleted, WorkerPC
  <2> QED
    BY <1>15, <1>a, <2>2, <2>3, Frame DEF WorkerCompleted
<1>16. CASE WorkerSave
  <2>1. worker.task \in Tasks /\ worker.snap \in Execution
    BY <1>16, <1>a, <1>b DEF WorkerSave, WorkerType, WorkerState
  <2>2. StoreType'
    <3>1. /\ Save(worker.task, worker.snap) \/ UNCHANGED exec
          /\ UNCHANGED history
      BY <1>16 DEF WorkerSave
    <3> QED
      BY <1>a, <2>1, <3>1, SaveKeepsType
  <2>3. WorkerType'
    <3>1. Run("cleanup") \/ Run("except") \/ Run("dying")
      BY <1>16 DEF WorkerSave
    <3> QED
      BY <1>a, <2>1, <3>1, RunKeepsType DEF WorkerPC
  <2> QED
    BY <1>16, <1>a, <2>2, <2>3, Frame DEF WorkerSave
<1>17. CASE WorkerExcept
  <2>1. worker.task \in Tasks
    BY <1>17, <1>b DEF WorkerExcept, WorkerAt
  <2>2. WorkerType'
    <3>1. CASE exec[worker.task].status \in Terminal
      BY <3>1, <1>17, <1>a, <2>1, RunKeepsType DEF WorkerExcept, WorkerPC
    <3>2. CASE exec[worker.task].status \notin Terminal
      <4> DEFINE e == [exec[worker.task] EXCEPT !.status = "failed",
                                                !.error = "internal"]
      <4>1. e \in Execution /\ e.status \in Terminal
        BY <2>1, <1>c DEF Execution, Error, Terminal
      <4>2. worker' = [worker EXCEPT !.pc = "exceptEvent", !.snap = e]
        BY <3>2, <1>17 DEF WorkerExcept
      <4> QED
        BY <1>a, <2>1, <4>1, <4>2 DEF WorkerType, WorkerState, WorkerPC
    <3> QED
      BY <3>1, <3>2
  <2> QED
    BY <1>17, <1>a, <2>2, Frame DEF WorkerExcept
<1>18. CASE WorkerCleanup
  <2>1. worker.task \in Tasks
    BY <1>18, <1>b DEF WorkerCleanup
  <2>2. ExecutorType'
    BY <1>18, <1>a, <2>1 DEF WorkerCleanup, ExecutorType, Flags, Forget
  <2>3. WorkerType'
    BY <1>18, <1>a, ThreadType DEF WorkerCleanup, WorkerType
  <2> QED
    BY <1>18, <1>a, <2>2, <2>3, Frame DEF WorkerCleanup
<1>19. CASE WorkerFault
  <2>1. WorkerType'
    <3>1. CASE worker' = NoThread
      BY <3>1, ThreadType DEF WorkerType
    <3>2. CASE /\ worker.pc \notin {"none", "take"}
               /\ Run("except") \/ Conclude("failed") \/ Run("dying")
      BY <3>2, <1>a, <1>b, RunKeepsType, ConcludeKeepsType DEF WorkerPC, Terminal
    <3> QED
      BY <1>19, <3>1, <3>2 DEF WorkerFault
  <2>2. budget' \in Budget
    BY <1>19, <1>a, FaultKeepsType DEF WorkerFault
  <2> QED
    BY <1>19, <1>a, <2>1, <2>2, Frame DEF WorkerFault
<1>20. CASE DeadlinePasses
  <2>1. WorkerType'
    BY <1>20, <1>a DEF DeadlinePasses, WorkerType, WorkerState
  <2> QED
    BY <1>20, <1>a, <2>1, Frame DEF DeadlinePasses
<1> QED
  BY <1>1, <1>2, <1>3, <1>4, <1>5, <1>6, <1>7, <1>8, <1>9, <1>10, <1>11,
     <1>12, <1>13, <1>14, <1>15, <1>16, <1>17, <1>18, <1>19, <1>20 DEF
     Worker
-----------------------------------------------------------------------------
(* The actions of the API threads.                                           *)

LEMMA EnterKeepsType ==
  ASSUME TypeOK, NEW c \in Clients, NEW t \in Tasks, NEW pc \in ClientPC,
         Enter(c, t, pc)
  PROVE  TypeOK'
<1>1. /\ StoreType /\ ExecutorType /\ ClientType /\ WorkerType
      /\ budget \in Budget
  BY DEF TypeOK
<1>2. exec[t] \in Execution
  BY <1>1 DEF StoreType
<1>3. ClientType'
  BY <1>1, <1>2 DEF Enter, ClientType, ClientState
<1>4. budget' \in Budget
  BY <1>1, BoundAssumption DEF Enter, Spend, Budget
<1>5. ExecutorType'
  BY <1>1 DEF Enter, ExecutorType
<1> QED
  BY <1>1, <1>3, <1>4, <1>5, Frame DEF Enter, TypeOK

\* Moving an API thread on, inside its call or out of it.
LEMMA MoveKeepsType ==
  ASSUME ClientType, NEW c \in Clients, NEW pc \in ClientPC,
         client[c].pc # "idle", Goto(c, pc) \/ Return(c)
  PROVE  ClientType'
<1>1. CASE Goto(c, pc)
  BY <1>1 DEF Goto, ClientType, ClientState
<1>2. CASE Return(c)
  BY <1>2, IdleType DEF Return, ClientType
<1> QED
  BY <1>1, <1>2

LEMMA SaveLockedKeepsType ==
  ASSUME TypeOK, NEW c \in Clients, client[c].pc # "idle",
         NEW e \in Execution, NEW pc \in ClientPC,
         SaveLocked(c, e, pc), UNCHANGED history
  PROVE  StoreType' /\ ClientType' /\ budget' \in Budget
<1>1. StoreType /\ ClientType /\ budget \in Budget
  BY DEF TypeOK
<1>2. client[c].task \in Tasks
  BY <1>1 DEF ClientType
<1>3. Save(client[c].task, e) \/ UNCHANGED exec
  BY DEF SaveLocked
<1>4. StoreType'
  BY <1>1, <1>2, <1>3, SaveKeepsType
<1>5. budget' \in Budget
  BY <1>1, FaultKeepsType DEF SaveLocked
<1>6. ClientType'
  <2>1. CASE client' = [client EXCEPT ![c] =
               IF pc = "idle" THEN Idle ELSE [@ EXCEPT !.pc = pc, !.snap = e]]
    <3>1. CASE pc = "idle"
      BY <2>1, <3>1, <1>1, IdleType DEF ClientType
    <3>2. CASE pc # "idle"
      BY <2>1, <3>2, <1>1, <1>2 DEF ClientType, ClientState
    <3> QED
      BY <3>1, <3>2
  <2>2. CASE Return(c)
    BY <2>2, <1>1, MoveKeepsType
  <2> QED
    BY <2>1, <2>2 DEF SaveLocked
<1> QED
  BY <1>4, <1>5, <1>6

LEMMA AppendEventKeepsType ==
  ASSUME TypeOK, NEW c \in Clients, NEW pc, pc # "idle",
         NEW e \in EventType, NEW next \in ClientPC,
         AppendEvent(c, pc, e, next)
  PROVE  TypeOK'
<1>1. /\ StoreType /\ ExecutorType /\ ClientType /\ WorkerType
      /\ budget \in Budget
  BY DEF TypeOK
<1>2. client[c].pc # "idle" /\ client[c].task \in Tasks
  BY <1>1 DEF AppendEvent, At, ClientType
<1>3. Append1(client[c].task, e) \/ UNCHANGED events
  BY DEF AppendEvent
<1>4. StoreType'
  BY <1>1, <1>2, <1>3, AppendKeepsType DEF AppendEvent
<1>5. Goto(c, next) \/ Return(c)
  BY DEF AppendEvent
<1>6. ClientType'
  BY <1>1, <1>2, <1>5, MoveKeepsType
<1>7. budget' \in Budget
  BY <1>1, FaultKeepsType DEF AppendEvent
<1> QED
  BY <1>1, <1>4, <1>6, <1>7, Frame DEF AppendEvent, TypeOK

LEMMA SubmitKeepsType ==
  ASSUME TypeOK, NEW c \in Clients, Submit(c)
  PROVE  TypeOK'
<1>1. /\ StoreType /\ ExecutorType /\ ClientType /\ WorkerType
      /\ budget \in Budget
  BY DEF TypeOK
<1>2. ASSUME NEW t \in Tasks, NEW k \in Keys \cup {None}, SubmitCreate(c, t, k)
      PROVE  TypeOK'
  <2>1. exec[t] \in Execution
    BY <1>1 DEF StoreType
  <2>2. StoreType'
    <3>1. [exec[t] EXCEPT !.status = "queued"] \in Execution
      BY <2>1 DEF Execution, Live
    <3>2. exec' = [exec EXCEPT ![t] = [exec[t] EXCEPT !.status = "queued"]]
          \/ UNCHANGED exec
      BY <1>2 DEF SubmitCreate
    <3>3. exec' \in [Tasks -> Execution]
      BY <1>1, <3>1, <3>2 DEF StoreType
    <3>4. request' \in [Tasks -> Keys \cup {None}]
      BY <1>1, <1>2 DEF SubmitCreate, StoreType
    <3> QED
      BY <1>1, <1>2, <3>3, <3>4 DEF SubmitCreate, StoreType
  <2>3. exec'[t] \in Execution
    BY <2>2 DEF StoreType
  <2>4. ClientType'
    BY <1>1, <1>2, <2>3 DEF SubmitCreate, ClientType, ClientState, ClientPC
  <2>5. ExecutorType'
    BY <1>1, <1>2 DEF SubmitCreate, ExecutorType
  <2>6. budget' \in Budget
    <3>1. MaxCalls \in Nat /\ MaxFaults \in Nat
      BY BoundAssumption
    <3>2. CASE Spend("calls")
      BY <1>1, <1>2, <3>1, <3>2 DEF SubmitCreate, Spend, Budget
    <3>3. CASE /\ budget.faults < MaxFaults
               /\ budget' = [budget EXCEPT !.calls = @ + 1, !.faults = @ + 1]
      <4>1. /\ budget.calls \in 0..MaxCalls /\ budget.calls < MaxCalls
            /\ budget.faults \in 0..MaxFaults
        BY <1>1, <1>2 DEF SubmitCreate, Budget
      <4>2. budget.calls + 1 \in 0..MaxCalls /\ budget.faults + 1 \in 0..MaxFaults
        BY <4>1, <3>1, <3>3
      <4> QED
        BY <1>1, <3>3, <4>2 DEF Budget
    <3> QED
      BY <1>2, <3>2, <3>3 DEF SubmitCreate
  <2> QED
    BY <1>1, <1>2, <2>2, <2>4, <2>5, <2>6, Frame DEF SubmitCreate, TypeOK
<1>3. CASE SubmitEvent(c)
  BY <1>3, AppendEventKeepsType DEF SubmitEvent, EventType, ClientPC
<1>4. CASE SubmitEnsure(c)
  <2>1. WorkerType'
    BY <1>1, <1>4, ThreadType DEF SubmitEnsure, Ensured, WorkerType
  <2>2. ClientType'
    BY <1>1, <1>4, MoveKeepsType DEF SubmitEnsure, At, ClientPC
  <2> QED
    BY <1>1, <1>4, <2>1, <2>2, Frame DEF SubmitEnsure, TypeOK
<1>5. CASE SubmitPut(c)
  <2>1. client[c].task \in Tasks
    BY <1>1, <1>5 DEF SubmitPut, At, ClientType
  <2>2. queue' \in Seq(Tasks)
    BY <1>1, <1>5, <2>1 DEF SubmitPut, ExecutorType
  <2>3. ExecutorType'
    BY <1>1, <1>5, <2>2 DEF SubmitPut, ExecutorType
  <2>4. ClientType'
    BY <1>1, <1>5, MoveKeepsType DEF SubmitPut, At, ClientPC
  <2> QED
    BY <1>1, <1>5, <2>3, <2>4, Frame DEF SubmitPut, TypeOK
<1> QED
  BY <1>2, <1>3, <1>4, <1>5 DEF Submit

\* A call between its two steps: its task and the row it read.
LEMMA SnapType ==
  ASSUME TypeOK, NEW c \in Clients, client[c].pc # "idle"
  PROVE  client[c].task \in Tasks /\ client[c].snap \in Execution
BY DEF TypeOK, ClientType, ClientState

LEMMA CancelKeepsType ==
  ASSUME TypeOK, NEW c \in Clients, Cancel(c)
  PROVE  TypeOK'
<1>1. /\ StoreType /\ ExecutorType /\ ClientType /\ WorkerType
      /\ budget \in Budget
  BY DEF TypeOK
<1>2. ASSUME NEW t \in Tasks, CancelRead(c, t)
      PROVE  TypeOK'
  BY <1>2, EnterKeepsType DEF CancelRead, ClientPC
<1>3. CASE CancelQueued(c)
  <2>1. client[c].pc # "idle"
    BY <1>3 DEF CancelQueued, At
  <2>2. client[c].task \in Tasks /\ client[c].snap \in Execution
    BY <2>1, SnapType
  <2>3. ExecutorType'
    BY <1>1, <1>3, <2>2 DEF CancelQueued, ExecutorType, Flags, Forget
  <2>4. StoreType'
    BY <1>1, <1>3, <2>2 DEF CancelQueued, StoreType, Terminal
  <2>5. [Finished(client[c].snap, "cancelled") EXCEPT !.cancelReq = TRUE]
          \in Execution
    <3>1. Finished(client[c].snap, "cancelled") \in Execution
      BY <2>2, FinishedType DEF Terminal
    <3> QED
      BY <3>1 DEF Execution
  <2>6. ClientType'
    <3> DEFINE snap == [Finished(client[c].snap, "cancelled")
                          EXCEPT !.cancelReq = TRUE]
    <3>1. CASE client' = [client EXCEPT ![c] =
                            [@ EXCEPT !.pc = "cancelEvent", !.snap = snap]]
      <4>1. snap \in Execution
        BY <2>5
      <4> HIDE DEF snap
      <4> QED
        BY <1>1, <2>2, <3>1, <4>1 DEF ClientType, ClientState, ClientPC
    <3>2. CASE Return(c)
      BY <1>1, <2>1, <3>2, MoveKeepsType DEF ClientPC
    <3> QED
      BY <1>3, <3>1, <3>2 DEF CancelQueued
  <2>7. budget' \in Budget
    BY <1>1, <1>3, FaultKeepsType DEF CancelQueued
  <2> QED
    BY <1>1, <1>3, <2>3, <2>4, <2>6, <2>7, Frame DEF CancelQueued, TypeOK
<1>4. CASE CancelStarted(c)
  <2>1. client[c].pc # "idle"
    BY <1>4 DEF CancelStarted, At
  <2>2. client[c].task \in Tasks /\ client[c].snap \in Execution
    BY <2>1, SnapType
  <2>3. [client[c].snap EXCEPT !.status = "cancelling", !.cancelReq = TRUE]
          \in Execution
    BY <2>2 DEF Execution, Live
  <2>4. StoreType' /\ ClientType' /\ budget' \in Budget
    BY <1>4, <2>1, <2>3, SaveLockedKeepsType DEF CancelStarted, ClientPC
  <2>5. ExecutorType'
    BY <1>1, <1>4, <2>2 DEF CancelStarted, ExecutorType, Flags
  <2> QED
    BY <1>1, <1>4, <2>4, <2>5, Frame DEF CancelStarted, TypeOK
<1>5. CASE CancelEvent(c)
  BY <1>5, AppendEventKeepsType DEF CancelEvent, EventType, ClientPC
<1>6. CASE CancelCompleted(c)
  BY <1>6, AppendEventKeepsType DEF CancelCompleted, EventType, Terminal, ClientPC
<1>7. CASE CancelSave(c)
  <2>1. client[c].pc # "idle"
    BY <1>7 DEF CancelSave, At
  <2>2. client[c].snap \in Execution
    BY <2>1, SnapType
  <2>3. StoreType' /\ ClientType' /\ budget' \in Budget
    BY <1>7, <2>1, <2>2, SaveLockedKeepsType DEF CancelSave, ClientPC
  <2> QED
    BY <1>1, <1>7, <2>3, Frame DEF CancelSave, TypeOK
<1> QED
  BY <1>2, <1>3, <1>4, <1>5, <1>6, <1>7 DEF Cancel

LEMMA PauseKeepsType ==
  ASSUME TypeOK, NEW c \in Clients, Pause(c)
  PROVE  TypeOK'
<1>1. /\ StoreType /\ ExecutorType /\ ClientType /\ WorkerType
      /\ budget \in Budget
  BY DEF TypeOK
<1>2. ASSUME NEW t \in Tasks, PauseRead(c, t)
      PROVE  TypeOK'
  BY <1>2, EnterKeepsType DEF PauseRead, ClientPC
<1>3. CASE PauseSave(c)
  <2>1. client[c].pc # "idle"
    BY <1>3 DEF PauseSave, At
  <2>2. client[c].task \in Tasks /\ client[c].snap \in Execution
    BY <2>1, SnapType
  <2>3. [client[c].snap EXCEPT !.pauseReq = TRUE, !.status = PausedStatus(@)]
          \in Execution
    BY <2>2 DEF Execution, Live, PausedStatus
  <2>4. StoreType' /\ ClientType' /\ budget' \in Budget
    BY <1>3, <2>1, <2>3, SaveLockedKeepsType DEF PauseSave, ClientPC
  <2>5. ExecutorType'
    BY <1>1, <1>3, <2>2 DEF PauseSave, ExecutorType, Flags
  <2> QED
    BY <1>1, <1>3, <2>4, <2>5, Frame DEF PauseSave, TypeOK
<1>4. CASE PauseEvent(c)
  BY <1>4, AppendEventKeepsType DEF PauseEvent, EventType, ClientPC
<1>5. CASE PausedEvent(c)
  BY <1>5, AppendEventKeepsType DEF PausedEvent, EventType, ClientPC
<1> QED
  BY <1>2, <1>3, <1>4, <1>5 DEF Pause

LEMMA ResumeKeepsType ==
  ASSUME TypeOK, NEW c \in Clients, Resume(c)
  PROVE  TypeOK'
<1>1. /\ StoreType /\ ExecutorType /\ ClientType /\ WorkerType
      /\ budget \in Budget
  BY DEF TypeOK
<1>2. ASSUME NEW t \in Tasks, ResumeRead(c, t)
      PROVE  TypeOK'
  BY <1>2, EnterKeepsType DEF ResumeRead, ClientPC
<1>3. CASE ResumeQueued(c)
  <2>1. client[c].pc # "idle"
    BY <1>3 DEF ResumeQueued, At
  <2>2. client[c].task \in Tasks /\ client[c].snap \in Execution
    BY <2>1, SnapType
  <2>3. [client[c].snap EXCEPT !.status = "queued", !.pauseReq = FALSE]
          \in Execution
    BY <2>2 DEF Execution, Live
  <2>4. StoreType' /\ ClientType' /\ budget' \in Budget
    BY <1>3, <2>1, <2>3, SaveLockedKeepsType DEF ResumeQueued, ClientPC
  <2>5. Append(queue, client[c].task) \in Seq(Tasks)
    BY <1>1, <2>2 DEF ExecutorType
  <2>6. queue' \in {queue, Append(queue, client[c].task)}
    BY <1>3 DEF ResumeQueued, Requeued
  <2>7. ExecutorType'
    BY <1>1, <1>3, <2>2, <2>5, <2>6 DEF ResumeQueued, ExecutorType, Flags
  <2> QED
    BY <1>1, <1>3, <2>4, <2>7, Frame DEF ResumeQueued, TypeOK
<1>4. CASE ResumeStarted(c)
  <2>1. client[c].pc # "idle"
    BY <1>4 DEF ResumeStarted, At
  <2>2. client[c].task \in Tasks /\ client[c].snap \in Execution
    BY <2>1, SnapType
  <2>3. [client[c].snap EXCEPT !.pauseReq = FALSE] \in Execution
    BY <2>2 DEF Execution
  <2>4. StoreType' /\ ClientType' /\ budget' \in Budget
    BY <1>4, <2>1, <2>3, SaveLockedKeepsType DEF ResumeStarted, ClientPC
  <2>5. ExecutorType'
    BY <1>1, <1>4, <2>2 DEF ResumeStarted, ExecutorType, Flags
  <2> QED
    BY <1>1, <1>4, <2>4, <2>5, Frame DEF ResumeStarted, TypeOK
<1>5. CASE ResumedEvent(c)
  BY <1>5, AppendEventKeepsType DEF ResumedEvent, EventType, ClientPC
<1> QED
  BY <1>2, <1>3, <1>4, <1>5 DEF Resume
-----------------------------------------------------------------------------
(* Crash and restart.                                                        *)

LEMMA CrashKeepsType == TypeOK /\ Crash => TypeOK'
<1> SUFFICES ASSUME TypeOK, Crash PROVE TypeOK'
  OBVIOUS
<1>1. StoreType /\ ClientType /\ budget \in Budget
  BY DEF TypeOK
<1>2. ExecutorType'
  <2>1. /\ up' = FALSE /\ items' = {} /\ queue' = <<>>
        /\ flags' = NoFlags /\ lock' = None
    BY DEF Crash
  <2>2. NoFlags \in Flags
    BY DEF NoFlags, Flags
  <2>3. <<>> \in Seq(Tasks)
    OBVIOUS
  <2> QED
    BY <2>1, <2>2, <2>3 DEF ExecutorType
<1>3. ClientType'
  BY IdleType DEF Crash, ClientType
<1>4. WorkerType'
  BY ThreadType DEF Crash, WorkerType
<1>5. budget' \in Budget
  BY <1>1, BoundAssumption DEF Crash, Spend, Budget
<1> QED
  BY <1>1, <1>2, <1>3, <1>4, <1>5, Frame DEF Crash, TypeOK

LEMMA RecoveredType ==
  ASSUME StoreType, NEW t \in Tasks
  PROVE  /\ Recovered(t) \in Execution
         /\ Recovered(t).status \in Terminal
         /\ Recovered(t).result => report[t] # "none" \/ exec[t].result
<1>1. exec[t] \in Execution /\ report[t] \in Terminal \cup {"none"}
  BY DEF StoreType
<1>2. CASE report[t] # "none"
  BY <1>1, <1>2, FinishedType DEF Recovered
<1>3. CASE report[t] = "none"
  BY <1>1, <1>3 DEF Recovered, Interrupted, Execution, Error, Terminal
<1> QED
  BY <1>2, <1>3

LEMMA RecoverKeepsType == TypeOK /\ Recover => TypeOK'
<1> SUFFICES ASSUME TypeOK, Recover PROVE TypeOK'
  OBVIOUS
<1>1. /\ StoreType /\ ExecutorType /\ ClientType /\ WorkerType
      /\ budget \in Budget
  BY DEF TypeOK
<1>2. exec' \in [Tasks -> Execution]
  BY <1>1, RecoveredType DEF Recover, StoreType
<1>3. \A t \in Tasks : /\ events[t] \in Seq(EventType)
                       /\ Append(events[t], Recovered(t).status) \in Seq(EventType)
  BY <1>1, RecoveredType DEF StoreType, EventType
<1>4. events' \in [Tasks -> Seq(EventType)]
  BY <1>3 DEF Recover
<1>5. StoreType'
  BY <1>1, <1>2, <1>4 DEF Recover, StoreType
<1>6. ExecutorType'
  BY <1>1 DEF Recover, ExecutorType
<1> QED
  BY <1>1, <1>5, <1>6, Frame DEF Recover, TypeOK
-----------------------------------------------------------------------------
LEMMA StepKeepsType == TypeOK /\ [Next]_vars => TypeOK'
<1> SUFFICES ASSUME TypeOK, [Next]_vars PROVE TypeOK'
  OBVIOUS
<1>1. ASSUME NEW c \in Clients, Client(c) PROVE TypeOK'
  BY <1>1, SubmitKeepsType, CancelKeepsType, PauseKeepsType, ResumeKeepsType
  DEF Client
<1>2. CASE Worker \/ WorkerFault \/ DeadlinePasses
  BY <1>2, WorkerStepType
<1>3. CASE Crash \/ Recover
  BY <1>3, CrashKeepsType, RecoverKeepsType
<1>4. CASE UNCHANGED vars
  <2>1. UNCHANGED <<durable, executor, client, worker, budget>>
    BY <1>4 DEF vars, durable, executor
  <2> QED
    BY <2>1, Frame DEF TypeOK
<1> QED
  BY <1>1, <1>2, <1>3, <1>4 DEF Next

\* In every reachable state the stores, the executor, the API threads and the
\* worker hold what their code expects to find.
THEOREM TypeCorrect == Spec => []TypeOK
<1>1. Init => TypeOK
  BY InitType
<1>2. TypeOK /\ [Next]_vars => TypeOK'
  BY StepKeepsType
<1> QED
  BY <1>1, <1>2, PTL DEF Spec
-----------------------------------------------------------------------------
(* Terminal rows.                                                            *)

\* The store guard: whatever is saved, a terminal row stays as it is.
LEMMA SaveKeepsTerminal ==
  ASSUME StoreType, NEW t \in Tasks, NEW e,
         Save(t, e) \/ UNCHANGED exec,
         NEW u \in Tasks, IsTerminal(u)
  PROVE  exec'[u] = exec[u]
<1>1. CASE Save(t, e) /\ CanSave(t, e)
  BY <1>1 DEF Save, CanSave, IsTerminal, StoreType
<1>2. CASE Save(t, e) /\ ~CanSave(t, e)
  BY <1>2 DEF Save
<1> QED
  BY <1>1, <1>2

LEMMA StepKeepsTerminal ==
  ASSUME TypeOK, [Next]_vars, NEW u \in Tasks, IsTerminal(u)
  PROVE  exec'[u] = exec[u]
<1>1. StoreType
  BY DEF TypeOK
<1>2. ASSUME NEW c \in Clients, Client(c)
      PROVE  exec'[u] = exec[u]
  <2>1. CASE \E t \in Tasks, k \in Keys \cup {None} : SubmitCreate(c, t, k)
    BY <1>1, <2>1 DEF SubmitCreate, IsTerminal, Terminal, StoreType
  <2>2. ASSUME NEW e, NEW pc, SaveLocked(c, e, pc), client[c].pc # "idle"
        PROVE  exec'[u] = exec[u]
    <3>1. client[c].task \in Tasks
      BY <2>2 DEF TypeOK, ClientType
    <3>2. Save(client[c].task, e) \/ UNCHANGED exec
      BY <2>2 DEF SaveLocked
    <3> QED
      BY <1>1, <3>1, <3>2, SaveKeepsTerminal
  <2>3. CASE CancelStarted(c) \/ CancelSave(c) \/ PauseSave(c)
             \/ ResumeQueued(c) \/ ResumeStarted(c)
    BY <2>2, <2>3
    DEF CancelStarted, CancelSave, PauseSave, ResumeQueued, ResumeStarted, At
  <2>4. CASE SubmitEvent(c) \/ CancelEvent(c) \/ CancelCompleted(c)
             \/ PauseEvent(c) \/ PausedEvent(c) \/ ResumedEvent(c)
    BY <2>4 DEF SubmitEvent, CancelEvent, CancelCompleted, PauseEvent,
                PausedEvent, ResumedEvent, AppendEvent
  <2>5. CASE \E t \in Tasks : CancelRead(c, t) \/ PauseRead(c, t) \/ ResumeRead(c, t)
    BY <2>5 DEF CancelRead, PauseRead, ResumeRead, Enter, durable
  <2>6. CASE SubmitEnsure(c) \/ SubmitPut(c) \/ CancelQueued(c)
    BY <2>6 DEF SubmitEnsure, SubmitPut, CancelQueued, durable
  <2> QED
    BY <1>2, <2>1, <2>3, <2>4, <2>5, <2>6
    DEF Client, Submit, Cancel, Pause, Resume
<1>3. CASE Worker
  <2>1. ASSUME NEW e, Save(worker.task, e) \/ UNCHANGED exec,
               worker.pc \notin {"none", "take"}
        PROVE  exec'[u] = exec[u]
    <3>1. worker.task \in Tasks
      BY <2>1 DEF TypeOK, WorkerType
    <3> QED
      BY <1>1, <2>1, <3>1, SaveKeepsTerminal
  <2>2. CASE WorkerStart
    BY <2>1, <2>2 DEF WorkerStart, WorkerAt
  <2>3. CASE WorkerBind
    BY <2>1, <2>3 DEF WorkerBind, WorkerAt
  <2>4. CASE WorkerProbe
    BY <2>1, <2>4 DEF WorkerProbe, WorkerAt
  <2>5. CASE WorkerDisengage
    BY <2>1, <2>5 DEF WorkerDisengage, WorkerAt
  <2>6. CASE WorkerSave
    BY <2>1, <2>6 DEF WorkerSave
  <2>7. CASE UNCHANGED exec
    BY <2>7
  <2> QED
    BY <1>3, <2>2, <2>3, <2>4, <2>5, <2>6, <2>7
    DEF Worker, WorkerGet, WorkerCheck, WorkerStarted, WorkerEngaged, WorkerWake,
        WorkerResumed, WorkerAct, WorkerFinish, WorkerReport, WorkerRead,
        WorkerCompleted, WorkerExcept, WorkerCleanup, durable
<1>4. CASE WorkerFault \/ DeadlinePasses \/ Crash
  BY <1>4 DEF WorkerFault, DeadlinePasses, Crash, durable
<1>5. CASE Recover
  BY <1>5 DEF Recover, IsTerminal, Live, Terminal
<1>6. CASE UNCHANGED vars
  BY <1>6 DEF vars
<1> QED
  BY <1>2, <1>3, <1>4, <1>5, <1>6 DEF Next

\* A terminal row never changes again, whoever held an older copy of it.
THEOREM TerminalRowsImmutable == Spec => TerminalImmutable
<1>1. TypeOK /\ [Next]_vars =>
        [\A t \in Tasks : IsTerminal(t) => exec'[t] = exec[t]]_vars
  BY StepKeepsTerminal
<1> QED
  BY <1>1, TypeCorrect, PTL DEF Spec, TerminalImmutable
-----------------------------------------------------------------------------
(* Idempotency keys.                                                         *)

LEMMA RequestKept ==
  ASSUME [Next]_vars,
         ~ \E c \in Clients, t \in Tasks, k \in Keys \cup {None} :
             SubmitCreate(c, t, k)
  PROVE  UNCHANGED request
<1>1. ASSUME NEW c \in Clients, Client(c) PROVE UNCHANGED request
  BY <1>1
  DEF Client, Submit, SubmitEvent, SubmitEnsure, SubmitPut, Cancel, CancelRead,
      CancelQueued, CancelStarted, CancelEvent, CancelCompleted, CancelSave,
      Pause, PauseRead, PauseSave, PauseEvent, PausedEvent, Resume, ResumeRead,
      ResumeQueued, ResumeStarted, ResumedEvent, AppendEvent, Enter, durable,
      history
<1>2. CASE Worker
  BY <1>2
  DEF Worker, WorkerGet, WorkerCheck, WorkerStart, WorkerStarted, WorkerBind,
      WorkerProbe, WorkerEngaged, WorkerWake, WorkerDisengage, WorkerResumed,
      WorkerAct, WorkerFinish, WorkerReport, WorkerRead, WorkerCompleted,
      WorkerSave, WorkerExcept, WorkerCleanup, durable, history
<1>3. CASE WorkerFault \/ DeadlinePasses \/ Crash \/ Recover
  BY <1>3 DEF WorkerFault, DeadlinePasses, Crash, Recover, durable
<1>4. CASE UNCHANGED vars
  BY <1>4 DEF vars
<1> QED
  BY <1>1, <1>2, <1>3, <1>4 DEF Next

\* Two tasks never share an idempotency key, whatever calls race and however
\* often the process crashes.
THEOREM KeysIdentifyTasks == Spec => []OneTaskPerKey
<1>1. Init => OneTaskPerKey
  BY DEF Init, OneTaskPerKey
<1>2. ASSUME TypeOK, OneTaskPerKey, [Next]_vars
      PROVE  OneTaskPerKey'
  <2>1. CASE \E c \in Clients, t \in Tasks, k \in Keys \cup {None} :
               SubmitCreate(c, t, k)
    <3>1. PICK c \in Clients, t \in Tasks, k \in Keys \cup {None} :
            SubmitCreate(c, t, k)
      BY <2>1
    <3>2. /\ k # None => \A u \in Tasks : request[u] # k
          /\ request' = [request EXCEPT ![t] = k] \/ UNCHANGED request
      BY <3>1 DEF SubmitCreate, KeyUsed
    <3>3. request \in [Tasks -> Keys \cup {None}]
      BY <1>2 DEF TypeOK, StoreType
    <3> QED
      BY <1>2, <3>2, <3>3 DEF OneTaskPerKey
  <2>2. CASE UNCHANGED request
    BY <1>2, <2>2 DEF OneTaskPerKey
  <2> QED
    BY <1>2, <2>1, <2>2, RequestKept
<1> QED
  BY <1>1, <1>2, TypeCorrect, PTL DEF Spec
-----------------------------------------------------------------------------
(* Results.                                                                  *)

\* A copy of the row of t that offers a result was made when there was a report.
Backed(t, e) == e.result => report[t] # "none"

RowsBacked    == \A t \in Tasks : Backed(t, exec[t])
ClientsBacked == \A c \in Clients : client[c].pc # "idle" =>
                                    Backed(client[c].task, client[c].snap)
WorkerBacked  ==
  /\ worker.pc = "read" => report[worker.task] # "none"
  /\ worker.pc \in {"complete", "final", "exceptEvent", "exceptSave"} =>
       Backed(worker.task, worker.snap)

\* ResultIsBacked says this of the rows only, but a row is overwritten with
\* copies that API threads and the worker made earlier, so it is inductive
\* only together with what it says of those copies.
ResultInv == RowsBacked /\ ClientsBacked /\ WorkerBacked

\* A report is never withdrawn.
LEMMA ReportKept ==
  ASSUME TypeOK, [Next]_vars, NEW t \in Tasks, report[t] # "none"
  PROVE  report'[t] # "none"
<1>1. CASE UNCHANGED report
  BY <1>1
<1>2. CASE \E c \in Clients : CancelQueued(c)
  BY <1>2 DEF CancelQueued, TypeOK, StoreType
<1>3. CASE WorkerReport
  BY <1>3 DEF WorkerReport, WorkerAt, TypeOK, StoreType, WorkerType, Terminal
<1>4. ASSUME NEW c \in Clients, Client(c), ~CancelQueued(c)
      PROVE  UNCHANGED report
  BY <1>4
  DEF Client, Submit, SubmitCreate, SubmitEvent, SubmitEnsure, SubmitPut, Cancel,
      CancelRead, CancelStarted, CancelEvent, CancelCompleted, CancelSave,
      Pause, PauseRead, PauseSave, PauseEvent, PausedEvent, Resume, ResumeRead,
      ResumeQueued, ResumeStarted, ResumedEvent, AppendEvent, Enter, durable,
      history
<1>5. ASSUME Worker, ~WorkerReport
      PROVE  UNCHANGED report
  BY <1>5
  DEF Worker, WorkerGet, WorkerCheck, WorkerStart, WorkerStarted, WorkerBind,
      WorkerProbe, WorkerEngaged, WorkerWake, WorkerDisengage, WorkerResumed,
      WorkerAct, WorkerFinish, WorkerRead, WorkerCompleted,
      WorkerSave, WorkerExcept, WorkerCleanup, durable, history
<1>6. CASE WorkerFault \/ DeadlinePasses \/ Crash \/ Recover \/ UNCHANGED vars
  BY <1>6 DEF WorkerFault, DeadlinePasses, Crash, Recover, durable, vars
<1> QED
  BY <1>1, <1>2, <1>3, <1>4, <1>5, <1>6 DEF Next

\* Copies stay backed; so do the rows after a save of a backed copy.
LEMMA BackedKept ==
  ASSUME TypeOK, [Next]_vars, NEW t \in Tasks, NEW e, Backed(t, e)
  PROVE  e.result => report'[t] # "none"
BY ReportKept DEF Backed

LEMMA SaveKeepsBacked ==
  ASSUME TypeOK, ResultInv, [Next]_vars, NEW t \in Tasks, NEW e, Backed(t, e),
         Save(t, e) \/ UNCHANGED exec
  PROVE  \A u \in Tasks : Backed(u, exec[u])'
<1>1. exec \in [Tasks -> Execution]
  BY DEF TypeOK, StoreType
<1>2. \A u \in Tasks : exec'[u] = exec[u] \/ (u = t /\ exec'[u] = e)
  BY <1>1 DEF Save
<1> QED
  BY <1>2, ReportKept DEF ResultInv, RowsBacked, ClientsBacked, Backed

LEMMA RowsFrame ==
  ASSUME TypeOK, ResultInv, [Next]_vars, UNCHANGED exec
  PROVE  RowsBacked'
BY ReportKept DEF ResultInv, RowsBacked, Backed

LEMMA ClientsFrame ==
  ASSUME TypeOK, ResultInv, [Next]_vars, UNCHANGED client
  PROVE  ClientsBacked'
<1>1. \A c \in Clients : client[c].pc # "idle" => client[c].task \in Tasks
  BY DEF TypeOK, ClientType
<1> QED
  BY <1>1, ReportKept DEF ResultInv, ClientsBacked, Backed

LEMMA WorkerFrame ==
  ASSUME TypeOK, ResultInv, [Next]_vars, UNCHANGED worker
  PROVE  WorkerBacked'
<1>1. worker.pc \notin {"none", "take"} => worker.task \in Tasks
  BY DEF TypeOK, WorkerType
<1> QED
  BY <1>1, ReportKept DEF ResultInv, WorkerBacked, Backed

\* An API thread changes only its own copy, and for a backed one.
LEMMA ClientMoves ==
  ASSUME TypeOK, ResultInv, [Next]_vars, NEW c \in Clients, NEW s,
         client' = [client EXCEPT ![c] = s],
         s.pc # "idle" /\ s.snap.result => report'[s.task] # "none"
  PROVE  ClientsBacked'
<1>1. /\ client \in [Clients -> ClientState]
      /\ \A d \in Clients : client[d].pc # "idle" => client[d].task \in Tasks
  BY DEF TypeOK, ClientType
<1>2. \A d \in Clients : client'[d] = IF d = c THEN s ELSE client[d]
  BY <1>1
<1>3. \A d \in Clients : client[d].pc # "idle" /\ client[d].snap.result =>
                           report'[client[d].task] # "none"
  BY <1>1, ReportKept DEF ResultInv, ClientsBacked, Backed
<1> QED
  BY <1>2, <1>3 DEF ClientsBacked, Backed

LEMMA ClientReturns ==
  ASSUME TypeOK, ResultInv, [Next]_vars, NEW c \in Clients, Return(c)
  PROVE  ClientsBacked'
BY ClientMoves, IdleType DEF Return

LEMMA ClientGoesOn ==
  ASSUME TypeOK, ResultInv, [Next]_vars, NEW c \in Clients, NEW pc,
         client[c].pc # "idle", Goto(c, pc)
  PROVE  ClientsBacked'
<1> DEFINE s == [client[c] EXCEPT !.pc = pc]
<1>1. client[c] \in ClientState /\ client[c].task \in Tasks
  BY DEF TypeOK, ClientType
<1>2. s.snap = client[c].snap /\ s.task = client[c].task
  BY <1>1 DEF ClientState
<1>3. client[c].snap.result => report'[client[c].task] # "none"
  BY <1>1, ReportKept DEF ResultInv, ClientsBacked, Backed
<1>4. client' = [client EXCEPT ![c] = s]
  BY DEF Goto, TypeOK, ClientType
<1> HIDE DEF s
<1> QED
  BY <1>2, <1>3, <1>4, ClientMoves

LEMMA ClientTakes ==
  ASSUME TypeOK, ResultInv, [Next]_vars, NEW c \in Clients, NEW pc,
         NEW t \in Tasks, NEW e \in Execution, e.result => report'[t] # "none",
         client' = [client EXCEPT ![c] = [pc |-> pc, task |-> t, snap |-> e]]
  PROVE  ClientsBacked'
BY ClientMoves

LEMMA ClientReplaces ==
  ASSUME TypeOK, ResultInv, [Next]_vars, NEW c \in Clients, NEW pc,
         NEW e \in Execution, e.result => report'[client[c].task] # "none",
         client' = [client EXCEPT ![c] = [@ EXCEPT !.pc = pc, !.snap = e]]
  PROVE  ClientsBacked'
<1> DEFINE s == [client[c] EXCEPT !.pc = pc, !.snap = e]
<1>1. client[c] \in ClientState
  BY DEF TypeOK, ClientType
<1>2. s.snap = e /\ s.task = client[c].task
  BY <1>1 DEF ClientState
<1>3. client' = [client EXCEPT ![c] = s]
  BY DEF TypeOK, ClientType
<1> HIDE DEF s
<1> QED
  BY <1>2, <1>3, ClientMoves

LEMMA ClientKeepsResult ==
  ASSUME TypeOK, ResultInv, [Next]_vars, NEW c \in Clients, Client(c)
  PROVE  ResultInv'
<1>1. ASSUME client[c].pc # "idle"
      PROVE  /\ client[c].task \in Tasks /\ client[c].snap \in Execution
             /\ Backed(client[c].task, client[c].snap)
  BY <1>1, SnapType DEF ResultInv, ClientsBacked
<1>2. ASSUME NEW t \in Tasks
      PROVE  exec[t] \in Execution /\ Backed(t, exec[t])
  BY DEF TypeOK, StoreType, ResultInv, RowsBacked
<1>3. ASSUME Goto(c, client'[c].pc) \/ Return(c) \/ UNCHANGED client,
             client[c].pc # "idle"
      PROVE  ClientsBacked'
  BY <1>3, ClientGoesOn, ClientReturns, ClientsFrame
<1>4. ASSUME NEW t \in Tasks, NEW pc \in ClientPC, Enter(c, t, pc)
      PROVE  ResultInv'
  <2>1. exec[t] \in Execution /\ (exec[t].result => report'[t] # "none")
    BY <1>2, ReportKept DEF Backed
  <2>2. ClientsBacked'
    <3>1. client' = [client EXCEPT ![c] = [pc |-> pc, task |-> t, snap |-> exec[t]]]
      BY <1>4 DEF Enter
    <3> QED
      BY <2>1, <3>1, ClientTakes
  <2> QED
    BY <1>4, <2>2, RowsFrame, WorkerFrame DEF Enter, ResultInv, durable
<1>5. ASSUME NEW e \in Execution, NEW pc \in ClientPC, SaveLocked(c, e, pc),
             client[c].pc # "idle", e.result = client[c].snap.result,
             UNCHANGED worker
      PROVE  ResultInv'
  <2>1. Backed(client[c].task, e) /\ client[c].task \in Tasks
    BY <1>1, <1>5 DEF Backed
  <2>2. Save(client[c].task, e) \/ UNCHANGED exec
    BY <1>5 DEF SaveLocked
  <2>3. RowsBacked'
    BY <2>1, <2>2, SaveKeepsBacked DEF RowsBacked
  <2>4. e.result => report'[client[c].task] # "none"
    BY <2>1, BackedKept
  <2>5. \/ Return(c)
        \/ client' = [client EXCEPT ![c] = [@ EXCEPT !.pc = pc, !.snap = e]]
    BY <1>5 DEF SaveLocked, Return
  <2>6. ClientsBacked'
    <3>1. CASE Return(c)
      BY <3>1, ClientReturns
    <3>2. CASE client' = [client EXCEPT ![c] = [@ EXCEPT !.pc = pc, !.snap = e]]
      BY <1>5, <2>4, <3>2, ClientReplaces
    <3> QED
      BY <2>5, <3>1, <3>2
  <2> QED
    BY <1>5, <2>3, <2>6, WorkerFrame DEF ResultInv
<1>6. ASSUME NEW pc, pc # "idle", NEW event, NEW next,
             AppendEvent(c, pc, event, next)
      PROVE  ResultInv'
  <2>1. client[c].pc # "idle" /\ (Goto(c, next) \/ Return(c))
    BY <1>6 DEF AppendEvent, At
  <2>2. ClientsBacked'
    BY <2>1, ClientGoesOn, ClientReturns
  <2> QED
    BY <1>6, <2>2, RowsFrame, WorkerFrame DEF AppendEvent, ResultInv
<1>7. ASSUME NEW t \in Tasks, NEW k \in Keys \cup {None}, SubmitCreate(c, t, k)
      PROVE  ResultInv'
  <2> DEFINE e == [exec[t] EXCEPT !.status = "queued"]
  <2>1. e \in Execution /\ Backed(t, e)
    BY <1>2 DEF Execution, Live, Backed
  <2>2. exec' = [exec EXCEPT ![t] = e] \/ UNCHANGED exec
    BY <1>7 DEF SubmitCreate
  <2>3. RowsBacked'
    <3>1. \A u \in Tasks : exec'[u] = exec[u] \/ (u = t /\ exec'[u] = e)
      BY <2>2 DEF TypeOK, StoreType
    <3> HIDE DEF e
    <3> QED
      BY <3>1, <2>1, <1>2, ReportKept DEF RowsBacked, Backed
  <2>4. \/ UNCHANGED client
        \/ client' = [client EXCEPT ![c] =
                        [pc |-> "submitEvent", task |-> t, snap |-> e]]
    <3>1. exec \in [Tasks -> Execution]
      BY DEF TypeOK, StoreType
    <3> QED
      BY <1>7, <3>1 DEF SubmitCreate
  <2>5. e.result => report'[t] # "none"
    BY <2>1, BackedKept
  <2>6. ClientsBacked'
    <3> HIDE DEF e
    <3> QED
      BY <2>1, <2>4, <2>5, ClientsFrame, ClientTakes
  <2> QED
    BY <1>7, <2>3, <2>6, WorkerFrame DEF SubmitCreate, ResultInv
<1>8. CASE SubmitEnsure(c)
  <2>1. client[c].pc # "idle" /\ Goto(c, "submitPut")
    BY <1>8 DEF SubmitEnsure, At
  <2>2. ClientsBacked'
    BY <2>1, ClientGoesOn
  <2>3. worker' = Waiting \/ UNCHANGED worker
    BY <1>8 DEF SubmitEnsure, Ensured
  <2>4. WorkerBacked'
    BY <2>3, ThreadType, WorkerFrame DEF WorkerBacked
  <2> QED
    BY <1>8, <2>2, <2>4, RowsFrame DEF SubmitEnsure, ResultInv, durable
<1>9. CASE SubmitPut(c)
  <2>1. ClientsBacked'
    BY <1>9, ClientReturns DEF SubmitPut
  <2> QED
    BY <1>9, <2>1, RowsFrame, WorkerFrame DEF SubmitPut, ResultInv, durable
<1>10. CASE CancelQueued(c)
  <2> DEFINE t == client[c].task
             e == [Finished(client[c].snap, "cancelled") EXCEPT !.cancelReq = TRUE]
  <2>1. client[c].pc # "idle" /\ t \in Tasks
    BY <1>1, <1>10 DEF CancelQueued, At
  <2>2. e \in Execution
    <3>1. Finished(client[c].snap, "cancelled") \in Execution
      BY <1>1, <2>1, FinishedType DEF Terminal
    <3> QED
      BY <3>1 DEF Execution
  <2>3. \/ Return(c)
        \/ /\ report' = [report EXCEPT ![t] = "cancelled"]
           /\ client' = [client EXCEPT ![c] =
                           [@ EXCEPT !.pc = "cancelEvent", !.snap = e]]
    BY <1>10 DEF CancelQueued
  <2>4. report' = [report EXCEPT ![t] = "cancelled"] => report'[t] # "none"
    BY <2>1 DEF TypeOK, StoreType
  <2>5. ClientsBacked'
    <3>1. CASE Return(c)
      BY <3>1, ClientReturns
    <3>2. CASE /\ report' = [report EXCEPT ![t] = "cancelled"]
               /\ client' = [client EXCEPT ![c] =
                               [@ EXCEPT !.pc = "cancelEvent", !.snap = e]]
      <4> HIDE DEF e
      <4> QED
        BY <2>2, <2>4, <3>2, ClientReplaces
    <3> QED
      BY <2>3, <3>1, <3>2
  <2> QED
    BY <1>10, <2>5, RowsFrame, WorkerFrame DEF CancelQueued, ResultInv
<1>11. CASE CancelStarted(c)
  <2> DEFINE e == [client[c].snap EXCEPT !.status = "cancelling", !.cancelReq = TRUE]
  <2>1. client[c].pc # "idle"
    BY <1>11 DEF CancelStarted, At
  <2>2. e \in Execution /\ e.result = client[c].snap.result
    BY <1>1, <2>1 DEF Execution, Live
  <2> QED
    BY <1>5, <1>11, <2>1, <2>2 DEF CancelStarted, ClientPC
<1>12. CASE CancelSave(c)
  <2>1. client[c].pc # "idle"
    BY <1>12 DEF CancelSave, At
  <2> QED
    BY <1>1, <1>5, <1>12, <2>1 DEF CancelSave, ClientPC
<1>13. CASE PauseSave(c)
  <2> DEFINE e == [client[c].snap EXCEPT !.pauseReq = TRUE,
                                         !.status = PausedStatus(@)]
  <2>1. client[c].pc # "idle"
    BY <1>13 DEF PauseSave, At
  <2>2. e \in Execution /\ e.result = client[c].snap.result
    BY <1>1, <2>1 DEF Execution, Live, PausedStatus
  <2> QED
    BY <1>5, <1>13, <2>1, <2>2 DEF PauseSave, ClientPC
<1>14. CASE ResumeQueued(c)
  <2> DEFINE e == [client[c].snap EXCEPT !.status = "queued", !.pauseReq = FALSE]
  <2>1. client[c].pc # "idle"
    BY <1>14 DEF ResumeQueued, At
  <2>2. e \in Execution /\ e.result = client[c].snap.result
    BY <1>1, <2>1 DEF Execution, Live
  <2> QED
    BY <1>5, <1>14, <2>1, <2>2 DEF ResumeQueued, ClientPC
<1>15. CASE ResumeStarted(c)
  <2> DEFINE e == [client[c].snap EXCEPT !.pauseReq = FALSE]
  <2>1. client[c].pc # "idle"
    BY <1>15 DEF ResumeStarted, At
  <2>2. e \in Execution /\ e.result = client[c].snap.result
    BY <1>1, <2>1 DEF Execution
  <2> QED
    BY <1>5, <1>15, <2>1, <2>2 DEF ResumeStarted, ClientPC
<1>16. CASE SubmitEvent(c) \/ CancelEvent(c) \/ CancelCompleted(c)
            \/ PauseEvent(c) \/ PausedEvent(c) \/ ResumedEvent(c)
  BY <1>6, <1>16 DEF SubmitEvent, CancelEvent, CancelCompleted, PauseEvent,
                     PausedEvent, ResumedEvent
<1>17. CASE \E t \in Tasks : CancelRead(c, t) \/ PauseRead(c, t) \/ ResumeRead(c, t)
  BY <1>4, <1>17 DEF CancelRead, PauseRead, ResumeRead, ClientPC
<1> QED
  BY <1>7, <1>8, <1>9, <1>10, <1>11, <1>12, <1>13, <1>14, <1>15, <1>16, <1>17
  DEF Client, Submit, Cancel, Pause, Resume

LEMMA WorkerKeepsResult ==
  ASSUME TypeOK, ResultInv, [Next]_vars, Worker \/ WorkerFault \/ DeadlinePasses
  PROVE  ResultInv'
<1>1. worker \in WorkerState
  BY DEF TypeOK, WorkerType
<1>2. worker.pc \notin {"none", "take"} => worker.task \in Tasks
  BY DEF TypeOK, WorkerType
<1>3. worker.pc \notin {"none", "take"} =>
        exec[worker.task] \in Execution /\ Backed(worker.task, exec[worker.task])
  BY <1>2 DEF TypeOK, StoreType, ResultInv, RowsBacked
<1>4. ASSUME worker'.pc \notin {"read", "complete", "final", "exceptEvent",
                               "exceptSave"}
      PROVE  WorkerBacked'
  BY <1>4 DEF WorkerBacked
<1>5. ASSUME NEW e, worker.pc \notin {"none", "take"}, UNCHANGED client,
             Backed(worker.task, e), Save(worker.task, e) \/ UNCHANGED exec,
             WorkerBacked'
      PROVE  ResultInv'
  BY <1>2, <1>5, SaveKeepsBacked, ClientsFrame DEF ResultInv, RowsBacked
<1>6. ASSUME UNCHANGED <<exec, client>>, WorkerBacked'
      PROVE  ResultInv'
  BY <1>6, RowsFrame, ClientsFrame DEF ResultInv
<1>7. ASSUME NEW pc, Run(pc) PROVE worker'.pc = pc
  BY <1>1, <1>7 DEF Run, WorkerState
<1>8. ASSUME NEW v, Conclude(v) PROVE worker'.pc = "report"
  BY <1>1, <1>8 DEF Conclude, WorkerState
<1>9. ASSUME NEW t, Boundary(t) PROVE worker'.pc \in {"report", "act"}
  BY <1>7, <1>8, <1>9 DEF Boundary
<1>10. CASE WorkerGet
  <2>1. worker'.pc = "check"
    BY <1>1, <1>10 DEF WorkerGet, WorkerState
  <2> QED
    BY <1>4, <1>6, <1>10, <2>1 DEF WorkerGet, durable
<1>11. CASE WorkerCheck
  <2>1. worker'.pc \in {"take", "start"}
    BY <1>7, <1>11, ThreadType DEF WorkerCheck
  <2> QED
    BY <1>4, <1>6, <1>11, <2>1 DEF WorkerCheck, durable
<1>12. CASE WorkerStart
  <2> DEFINE e == [exec[worker.task] EXCEPT !.status = "running", !.started = TRUE]
  <2>1. worker.pc = "start" /\ worker'.pc \in {"cleanup", "started"}
    BY <1>7, <1>12 DEF WorkerStart, WorkerAt
  <2>2. Backed(worker.task, e)
    BY <1>3, <2>1 DEF Backed, Execution
  <2>3. Save(worker.task, e) \/ UNCHANGED exec
    BY <1>12 DEF WorkerStart
  <2> QED
    BY <1>4, <1>5, <1>12, <2>1, <2>2, <2>3 DEF WorkerStart
<1>13. CASE WorkerBind
  <2> DEFINE e == [exec[worker.task] EXCEPT !.bound = TRUE]
  <2>1. worker.pc = "prepare" /\ worker'.pc \in {"round", "report"}
    BY <1>1, <1>7, <1>13 DEF WorkerBind, WorkerAt, WorkerState
  <2>2. Backed(worker.task, e)
    BY <1>3, <2>1 DEF Backed, Execution
  <2>3. Save(worker.task, e) \/ UNCHANGED exec
    BY <1>13 DEF WorkerBind
  <2> QED
    BY <1>4, <1>5, <1>13, <2>1, <2>2, <2>3 DEF WorkerBind
<1>14. CASE WorkerProbe
  <2> DEFINE e == [exec[worker.task] EXCEPT !.status = "paused"]
  <2>1. worker.pc = "round" /\ worker'.pc \in {"engaged", "report", "act"}
    BY <1>7, <1>9, <1>14 DEF WorkerProbe, WorkerAt
  <2>2. Backed(worker.task, e)
    BY <1>3, <2>1 DEF Backed, Execution
  <2>3. Save(worker.task, e) \/ UNCHANGED exec
    BY <1>14 DEF WorkerProbe
  <2> QED
    BY <1>4, <1>5, <1>14, <2>1, <2>2, <2>3 DEF WorkerProbe
<1>15. CASE WorkerDisengage
  <2> DEFINE e == [exec[worker.task] EXCEPT !.status = "running", !.pauseReq = FALSE]
  <2>1. worker.pc = "waking" /\ worker'.pc = "woken"
    BY <1>7, <1>15 DEF WorkerDisengage, WorkerAt
  <2>2. Backed(worker.task, e)
    BY <1>3, <2>1 DEF Backed, Execution
  <2>3. Save(worker.task, e) \/ UNCHANGED exec
    BY <1>15 DEF WorkerDisengage
  <2> QED
    BY <1>4, <1>5, <1>15, <2>1, <2>2, <2>3 DEF WorkerDisengage
<1>16. CASE WorkerStarted \/ WorkerEngaged \/ WorkerWake \/ WorkerAct
  <2>1. worker'.pc \in {"prepare", "paused", "waking", "round", "report"}
    BY <1>7, <1>8, <1>16 DEF WorkerStarted, WorkerEngaged, WorkerWake, WorkerAct
  <2> QED
    BY <1>4, <1>6, <1>16, <2>1
    DEF WorkerStarted, WorkerEngaged, WorkerWake, WorkerAct, durable
<1>17. CASE WorkerResumed \/ WorkerFinish
  <2>1. worker'.pc \in {"report", "act"}
    BY <1>8, <1>9, <1>17 DEF WorkerResumed, WorkerFinish
  <2> QED
    BY <1>4, <1>6, <1>17, <2>1 DEF WorkerResumed, WorkerFinish
<1>18. CASE WorkerReport
  <2>1. worker.pc = "report" /\ worker.task \in Tasks /\ worker.verdict # "none"
    BY <1>2, <1>18 DEF WorkerReport, WorkerAt, TypeOK, WorkerType, Terminal
  <2>2. CASE Run("read") /\ report' = [report EXCEPT ![worker.task] = worker.verdict]
    <3>1. report'[worker.task] # "none"
      BY <2>1, <2>2 DEF TypeOK, StoreType
    <3>2. worker'.pc = "read" /\ worker'.task = worker.task
      BY <1>1, <2>2 DEF Run, WorkerState
    <3>3. WorkerBacked'
      BY <3>1, <3>2 DEF WorkerBacked
    <3> QED
      BY <1>6, <1>18, <3>3 DEF WorkerReport
  <2>3. CASE Run("except")
    BY <1>4, <1>6, <1>7, <1>18, <2>3 DEF WorkerReport
  <2> QED
    BY <1>18, <2>2, <2>3 DEF WorkerReport
<1>19. CASE WorkerRead
  <2>1. worker.pc = "read" /\ worker.task \in Tasks
    BY <1>2, <1>19 DEF WorkerRead, WorkerAt
  <2>2. report'[worker.task] # "none"
    BY <2>1, ReportKept DEF ResultInv, WorkerBacked
  <2>3. worker'.task = worker.task /\ worker'.pc = "complete"
    BY <1>1, <1>19 DEF WorkerRead, WorkerState
  <2>4. WorkerBacked'
    BY <2>2, <2>3 DEF WorkerBacked, Backed
  <2> QED
    BY <1>6, <1>19, <2>4 DEF WorkerRead, durable
<1>20. CASE WorkerCompleted
  <2>1. /\ worker.pc \in {"complete", "exceptEvent"} /\ worker.task \in Tasks
        /\ Run("final") \/ Run("exceptSave")
    BY <1>2, <1>20 DEF WorkerCompleted
  <2>2. worker.snap.result => report'[worker.task] # "none"
    BY <2>1, ReportKept DEF ResultInv, WorkerBacked, Backed
  <2>3. /\ worker'.pc \in {"final", "exceptSave"}
        /\ worker'.task = worker.task /\ worker'.snap = worker.snap
    BY <1>1, <2>1 DEF Run, WorkerState
  <2>4. WorkerBacked'
    BY <2>2, <2>3 DEF WorkerBacked, Backed
  <2> QED
    BY <1>6, <1>20, <2>4 DEF WorkerCompleted
<1>21. CASE WorkerSave
  <2>1. worker.pc \in {"final", "exceptSave"} /\ Backed(worker.task, worker.snap)
    BY <1>21 DEF WorkerSave, ResultInv, WorkerBacked
  <2>2. worker'.pc \in {"cleanup", "except", "dying"}
    BY <1>7, <1>21 DEF WorkerSave
  <2>3. Save(worker.task, worker.snap) \/ UNCHANGED exec
    BY <1>21 DEF WorkerSave
  <2> QED
    BY <1>4, <1>5, <1>21, <2>1, <2>2, <2>3 DEF WorkerSave
<1>22. CASE WorkerExcept
  <2> DEFINE e == [exec[worker.task] EXCEPT !.status = "failed", !.error = "internal"]
  <2>1. worker.pc = "except" /\ worker.task \in Tasks
    BY <1>2, <1>22 DEF WorkerExcept, WorkerAt
  <2>2. e.result => report'[worker.task] # "none"
    BY <1>3, <2>1, ReportKept DEF Backed, Execution
  <2>3. CASE Run("cleanup")
    BY <1>4, <1>6, <1>7, <1>22, <2>3 DEF WorkerExcept, durable
  <2>4. CASE worker' = [worker EXCEPT !.pc = "exceptEvent", !.snap = e]
    <3> HIDE DEF e
    <3>1. worker'.task = worker.task /\ worker'.snap = e /\ worker'.pc = "exceptEvent"
      BY <1>1, <2>4 DEF WorkerState
    <3>2. WorkerBacked'
      BY <2>2, <3>1 DEF WorkerBacked, Backed
    <3> QED
      BY <1>6, <1>22, <3>2 DEF WorkerExcept, durable
  <2> QED
    BY <1>22, <2>3, <2>4 DEF WorkerExcept
<1>23. CASE WorkerCleanup
  <2>1. worker'.pc \in {"take", "none"}
    BY <1>23, ThreadType DEF WorkerCleanup
  <2> QED
    BY <1>4, <1>6, <1>23, <2>1 DEF WorkerCleanup, durable
<1>24. CASE WorkerFault
  <2>1. worker'.pc \in {"none", "except", "report", "dying"}
    BY <1>7, <1>8, <1>24, ThreadType DEF WorkerFault
  <2> QED
    BY <1>4, <1>6, <1>24, <2>1 DEF WorkerFault, durable
<1>25. CASE DeadlinePasses
  <2>1. worker'.pc = worker.pc
    BY <1>1, <1>25 DEF DeadlinePasses, WorkerState
  <2> QED
    BY <1>4, <1>6, <1>25, <2>1 DEF DeadlinePasses, durable
<1> QED
  BY <1>10, <1>11, <1>12, <1>13, <1>14, <1>15, <1>16, <1>17, <1>18, <1>19,
     <1>20, <1>21, <1>22, <1>23, <1>24, <1>25 DEF Worker

LEMMA StepKeepsResult == TypeOK /\ ResultInv /\ [Next]_vars => ResultInv'
<1> SUFFICES ASSUME TypeOK, ResultInv, [Next]_vars PROVE ResultInv'
  OBVIOUS
<1>1. CASE \E c \in Clients : Client(c)
  BY <1>1, ClientKeepsResult
<1>2. CASE Worker \/ WorkerFault \/ DeadlinePasses
  BY <1>2, WorkerKeepsResult
<1>3. CASE Crash
  <2>1. ClientsBacked'
    BY <1>3, IdleType DEF Crash, ClientsBacked
  <2>2. WorkerBacked'
    BY <1>3, ThreadType DEF Crash, WorkerBacked
  <2> QED
    BY <1>3, <2>1, <2>2, RowsFrame DEF Crash, ResultInv, durable
<1>4. CASE Recover
  <2>1. \A t \in Tasks : /\ exec[t].result => report[t] # "none"
                         /\ Recovered(t).result => report[t] # "none"
    BY RecoveredType DEF TypeOK, ResultInv, RowsBacked, Backed
  <2>2. \A t \in Tasks : exec'[t] \in {exec[t], Recovered(t)}
    BY <1>4 DEF Recover
  <2>3. RowsBacked'
    BY <1>4, <2>1, <2>2 DEF RowsBacked, Backed, Recover
  <2> QED
    BY <1>4, <2>3, ClientsFrame, WorkerFrame DEF Recover, ResultInv
<1>5. CASE UNCHANGED vars
  BY <1>5, RowsFrame, ClientsFrame, WorkerFrame DEF vars, ResultInv
<1> QED
  BY <1>1, <1>2, <1>3, <1>4, <1>5 DEF Next

\* Whatever storage faults and crashes happen and however calls race, a row
\* offers a result only when there is a report to show for it.
THEOREM ResultsAreBacked == Spec => []ResultIsBacked
<1>1. Init => ResultInv
  BY IdleType, ThreadType
  DEF Init, ResultInv, RowsBacked, ClientsBacked, WorkerBacked, Backed, Absent
<1>2. TypeOK /\ ResultInv /\ [Next]_vars => ResultInv'
  BY StepKeepsResult
<1>3. ResultInv => ResultIsBacked
  BY DEF ResultInv, RowsBacked, Backed, ResultIsBacked
<1> QED
  BY <1>1, <1>2, <1>3, TypeCorrect, PTL DEF Spec
-----------------------------------------------------------------------------
(* The executor at work: where a work item is, what its row says meanwhile,  *)
(* and what a call or the worker holds of it.                                *)

Locked  == {"cancel", "pause", "resume"}
Submits == {"submitEvent", "submitEnsure", "submitPut"}
Working == {"started", "prepare", "round", "engaged", "paused", "waking",
            "woken", "act", "report"}
Ending  == {"read", "complete", "final"}
Broken  == {"except", "exceptEvent", "exceptSave", "dying"}

\* A call between the two halves of its locked section owns the lock.
Owners == \A c \in Clients : client[c].pc \in Locked <=> lock = c

InQueue(t)       == \E i \in DOMAIN queue : queue[i] = t
Submitting(c, t) == client[c].pc \in Submits /\ client[c].task = t
InHand(t)        == worker.task = t /\ worker.pc \in {"check", "start"}
Waits(t)         == \/ InQueue(t) \/ InHand(t)
                    \/ \E c \in Clients : Submitting(c, t)

\* A work item is in at most one place: OnePlace without counting.
Single ==
  /\ \A i, j \in DOMAIN queue : queue[i] = queue[j] => i = j
  /\ \A t \in Tasks : InQueue(t) => worker.task # t /\ t \notin flags.parked
  /\ worker.task \notin flags.parked
  /\ \A c \in Clients, t \in Tasks : Submitting(c, t) =>
       worker.task # t /\ ~InQueue(t) /\ t \notin flags.parked
  /\ \A c, d \in Clients, t \in Tasks : Submitting(c, t) /\ Submitting(d, t) => c = d

\* What is in a place is registered.
Registered ==
  /\ \A t \in Tasks : InQueue(t) \/ worker.task = t \/ t \in flags.parked => t \in items
  /\ \A c \in Clients, t \in Tasks : Submitting(c, t) => t \in items

\* An item that waits for the worker has not started; once it has a report, or
\* a terminal row, the worker will find its cancel event set.
WaitingRow(t) ==
  /\ ~exec[t].started
  /\ exec[t].status \in {"queued", "paused"} \cup Terminal
  /\ IsTerminal(t) => report[t] # "none"
  /\ report[t] # "none" => t \in flags.cancel
ParkedRow(t) == exec[t].status = "paused" /\ ~exec[t].started /\ report[t] = "none"

Unstarted ==
  /\ \A t \in Tasks : Waits(t) => WaitingRow(t)
  /\ \A t \in flags.parked : ParkedRow(t)

Row(t) ==
  /\ exec[t].status \in {"absent", "queued"} => ~exec[t].started
  /\ exec[t].status \in {"running", "cancelling"} => exec[t].started
  /\ exec[t].status \notin Terminal => exec[t].error = "none" /\ ~exec[t].result
  /\ exec[t].status = "absent" => report[t] = "none"
  /\ acted[t] > 0 => exec[t].started
  /\ exec[t].error = "interrupted_known" => acted[t] = 0
Rows == \A t \in Tasks : Row(t)

\* What a call read in its locked section is still the row, unless the row
\* became terminal meanwhile (CancelSave and the worker's last save need no lock).
FreshCopy(c) ==
  LET t == client[c].task
      e == client[c].snap IN
  /\ e.status \in Live
  /\ client[c].pc = "pause" => e.status \in {"queued", "running"}
  /\ client[c].pc = "resume" => e.status \in {"paused", "running"}
  /\ exec[t].started = e.started
  /\ e.status = "queued" => ~e.started
  /\ e.status \in {"running", "cancelling"} => e.started
  /\ exec[t] = e \/ (IsTerminal(t) /\ (Faulty \/ report[t] # "none"))
Fresh == \A c \in Clients : client[c].pc \in Locked => FreshCopy(c)

\* The rest of a cancel that reported the task itself.
Cancels(c) == \/ client[c].pc \in {"cancelCompleted", "cancelSave"}
              \/ client[c].pc = "cancelEvent" /\ client[c].snap.status = "cancelled"
CancelCopy(c) ==
  LET t == client[c].task
      e == client[c].snap IN
  /\ report[t] = "cancelled" /\ ~exec[t].started /\ ~e.started
  /\ e.status = "cancelled" /\ e.result /\ e.error = ErrorOf("cancelled")
Cancelled == \A c \in Clients : Cancels(c) => CancelCopy(c)

\* The task in the worker's hands has started, is live and has the report the
\* worker thinks it has.
AtWork ==
  LET t == worker.task
      e == worker.snap IN
  /\ worker.pc \in Working \cup Ending => exec[t].status \in Live /\ exec[t].started
  /\ worker.pc \in {"started", "prepare", "round", "woken", "act"} =>
       exec[t].status # "paused"
  /\ worker.pc \in Working => report[t] = "none"
  /\ worker.pc \in Working /\ exec[t].status = "cancelling" => t \in flags.cancel
  /\ worker.pc \in Ending => report[t] = worker.verdict
  /\ worker.pc \in {"complete", "final"} =>
       e.status = worker.verdict /\ e.result /\ e.error = ErrorOf(worker.verdict)
  /\ worker.pc \in {"complete", "final", "exceptEvent", "exceptSave"} =>
       e.started = exec[t].started
  /\ worker.pc \in {"exceptEvent", "exceptSave"} => e.error = "internal"

PausedFlagged(t) ==
  t \in items /\ exec[t].status = "paused" /\ ~exec[t].started => t \in flags.pause

\* While storage works nothing leaves the normal course.
Healthy == ~Faulty =>
  /\ worker.pc \notin Broken
  /\ ReportAgrees
  /\ \A t \in Tasks : PausedFlagged(t)

WorkInv == /\ Owners /\ Single /\ Registered /\ Unstarted /\ Rows
           /\ Fresh /\ Cancelled /\ AtWork /\ Healthy

-----------------------------------------------------------------------------
(* What a step must leave alone for each part to stay.                       *)

LEMMA OwnersKept ==
  ASSUME Owners, lock' = lock,
         \A c \in Clients : client'[c].pc = client[c].pc \/
                            {client[c].pc, client'[c].pc} \cap Locked = {}
  PROVE  Owners'
BY DEF Owners, Locked

\* The owner leaves its locked section.
LEMMA OwnersReleased ==
  ASSUME Owners, NEW c \in Clients, client[c].pc \in Locked, lock' = None,
         \A d \in Clients \ {c} : client'[d] = client[d], client'[c].pc \notin Locked
  PROVE  Owners'
BY NoneAssumption DEF Owners

\* A work item only moves on to where nothing can meet it.
LEMMA PlacesKept ==
  ASSUME Single, Registered,
         queue' = queue, items \subseteq items', flags'.parked \subseteq flags.parked,
         worker'.task = worker.task \/ worker'.task \notin Tasks,
         flags.parked \subseteq Tasks,
         \A c \in Clients, t \in Tasks : Submitting(c, t)' => Submitting(c, t)
  PROVE  Single' /\ Registered'
<1>1. \A t \in Tasks : InQueue(t)' <=> InQueue(t)
  BY DEF InQueue
<1>2. \A t \in Tasks : worker'.task = t => worker.task = t
  OBVIOUS
<1>3. worker'.task \notin flags'.parked
  BY DEF Single
<1>4. Single'
  BY <1>1, <1>2, <1>3 DEF Single
<1>5. Registered'
  BY <1>1, <1>2 DEF Registered
<1> QED
  BY <1>4, <1>5

LEMMA WaitsKept ==
  ASSUME queue' = queue,
         worker'.pc \in {"check", "start"} =>
           worker'.task = worker.task /\ worker.pc \in {"check", "start"},
         \A c \in Clients, t \in Tasks : Submitting(c, t)' => Submitting(c, t)
  PROVE  \A t \in Tasks : Waits(t)' => Waits(t)
BY DEF Waits, InQueue, InHand

LEMMA UnstartedKept ==
  ASSUME Unstarted, flags.parked \subseteq Tasks,
         flags'.parked \subseteq flags.parked,
         \A t \in Tasks : Waits(t)' => Waits(t) /\ (t \in flags.cancel => t \in flags'.cancel),
         \A t \in Tasks : Waits(t)' \/ t \in flags'.parked =>
                            exec'[t] = exec[t] /\ report'[t] = report[t]
  PROVE  Unstarted'
<1>1. ASSUME NEW t \in Tasks, Waits(t)' PROVE WaitingRow(t)'
  BY <1>1 DEF Unstarted, WaitingRow, IsTerminal
<1>2. ASSUME NEW t \in flags'.parked PROVE ParkedRow(t)'
  BY <1>2 DEF Unstarted, ParkedRow
<1> QED
  BY <1>1, <1>2 DEF Unstarted

LEMMA RowsKept ==
  ASSUME Rows, UNCHANGED acted,
         \A t \in Tasks : exec'[t] = exec[t],
         \A t \in Tasks : report'[t] = report[t] \/ exec[t].status # "absent"
  PROVE  Rows'
BY DEF Rows, Row

\* Written reports stay.
ReportsStay == \A t \in Tasks : report[t] # "none" => report'[t] = report[t]

LEMMA FreshKept ==
  ASSUME Fresh, ReportsStay, Faulty => Faulty',
         \A c \in Clients : client'[c].pc \in Locked =>
           client'[c] = client[c] /\ client[c].task \in Tasks,
         \A t \in Tasks : \/ exec'[t] = exec[t]
                          \/ /\ IsTerminal(t)' /\ (Faulty' \/ report'[t] # "none")
                             /\ exec'[t].started = exec[t].started
  PROVE  Fresh'
<1> SUFFICES ASSUME NEW c \in Clients, client'[c].pc \in Locked
             PROVE  FreshCopy(c)'
  BY DEF Fresh
<1>1. client'[c] = client[c] /\ client[c].task \in Tasks /\ FreshCopy(c)
  BY DEF Fresh
<1> QED
  BY <1>1 DEF FreshCopy, IsTerminal, ReportsStay

LEMMA CancelledKept ==
  ASSUME Cancelled, ReportsStay,
         \A c \in Clients : Cancels(c)' =>
           /\ Cancels(c) /\ client[c].task \in Tasks
           /\ client'[c].task = client[c].task /\ client'[c].snap = client[c].snap,
         \A t \in Tasks : report[t] # "none" => exec'[t].started = exec[t].started
  PROVE  Cancelled'
<1> SUFFICES ASSUME NEW c \in Clients, Cancels(c)'
             PROVE  CancelCopy(c)'
  BY DEF Cancelled
<1>1. /\ client[c].task \in Tasks /\ CancelCopy(c)
      /\ client'[c].task = client[c].task /\ client'[c].snap = client[c].snap
  BY DEF Cancelled
<1> QED
  BY <1>1 DEF CancelCopy, ReportsStay

LEMMA HealthyKept ==
  ASSUME Healthy, Faulty => Faulty', worker'.pc \notin Broken \/ worker'.pc = worker.pc,
         \A t \in Tasks : exec'[t] = exec[t],
         \A t \in Tasks : IsTerminal(t) => report'[t] = report[t] \/ Faulty',
         \A t \in Tasks : PausedFlagged(t) => PausedFlagged(t)'
  PROVE  Healthy'
<1> SUFFICES ASSUME ~Faulty' PROVE /\ worker'.pc \notin Broken
                                   /\ ReportAgrees'
                                   /\ \A t \in Tasks : PausedFlagged(t)'
  BY DEF Healthy
<1>1. /\ worker.pc \notin Broken /\ ReportAgrees
      /\ \A t \in Tasks : PausedFlagged(t)
  BY DEF Healthy
<1>2. ReportAgrees'
  BY <1>1 DEF ReportAgrees, IsTerminal
<1> QED
  BY <1>1, <1>2

\* What the worker relies on, when the worker does not move.
LEMMA AtWorkKept ==
  ASSUME TypeOK, AtWork, worker' = worker,
         worker.pc \notin {"none", "take"} =>
           LET t == worker.task IN
           /\ exec'[t].started = exec[t].started
           /\ exec[t].status \in Live => exec'[t].status \in Live
           /\ exec'[t].status = "paused" => exec[t].status = "paused" \/ ~exec[t].started
           /\ exec'[t].status = "cancelling" /\ exec[t].status # "cancelling" =>
                t \in flags'.cancel
           /\ t \in flags.cancel => t \in flags'.cancel
           /\ worker.pc \in Working \cup Ending => report'[t] = report[t]
  PROVE  AtWork'
<1>1. worker.pc \in Working \cup Ending \cup {"exceptEvent", "exceptSave"} =>
        worker.pc \notin {"none", "take"}
  BY DEF Working, Ending
<1> DEFINE t == worker.task
<1>2. worker.pc \in Working \cup Ending => exec'[t].status \in Live /\ exec'[t].started
  BY <1>1 DEF AtWork
<1>3. worker.pc \in {"started", "prepare", "round", "woken", "act"} => exec'[t].status # "paused"
  BY <1>1 DEF AtWork, Working
<1>4. worker.pc \in Working => report'[t] = "none"
  BY <1>1 DEF AtWork
<1>5. worker.pc \in Working /\ exec'[t].status = "cancelling" => t \in flags'.cancel
  BY <1>1 DEF AtWork
<1>6. worker.pc \in Ending => report'[t] = worker.verdict
  BY <1>1 DEF AtWork
<1>7. worker.pc \in {"complete", "final", "exceptEvent", "exceptSave"} =>
        worker.snap.started = exec'[t].started
  BY <1>1 DEF AtWork, Ending
<1> HIDE DEF t
<1> QED
  BY <1>2, <1>3, <1>4, <1>5, <1>6, <1>7 DEF AtWork, t

\* The two steps that write a report.
LEMMA ReportWrites ==
  ASSUME [Next]_vars
  PROVE  UNCHANGED report \/ WorkerReport \/ \E c \in Clients : CancelQueued(c)
<1>1. ASSUME NEW c \in Clients, Client(c), ~CancelQueued(c)
      PROVE  UNCHANGED report
  BY <1>1
  DEF Client, Submit, SubmitCreate, SubmitEvent, SubmitEnsure, SubmitPut, Cancel,
      CancelRead, CancelStarted, CancelEvent, CancelCompleted, CancelSave,
      Pause, PauseRead, PauseSave, PauseEvent, PausedEvent, Resume, ResumeRead,
      ResumeQueued, ResumeStarted, ResumedEvent, AppendEvent, Enter, durable,
      history
<1>2. ASSUME Worker, ~WorkerReport
      PROVE  UNCHANGED report
  BY <1>2
  DEF Worker, WorkerGet, WorkerCheck, WorkerStart, WorkerStarted, WorkerBind,
      WorkerProbe, WorkerEngaged, WorkerWake, WorkerDisengage, WorkerResumed,
      WorkerAct, WorkerFinish, WorkerRead, WorkerCompleted,
      WorkerSave, WorkerExcept, WorkerCleanup, durable, history
<1>3. CASE WorkerFault \/ DeadlinePasses \/ Crash \/ Recover \/ UNCHANGED vars
  BY <1>3 DEF WorkerFault, DeadlinePasses, Crash, Recover, durable, vars
<1> QED
  BY <1>1, <1>2, <1>3 DEF Next

LEMMA WorkerAway ==
  ASSUME worker'.pc \notin Working \cup Ending \cup {"exceptEvent", "exceptSave"}
  PROVE  AtWork'
BY DEF AtWork, Working, Ending

\* A report is written once.
LEMMA ReportsStayed ==
  ASSUME TypeOK, [Next]_vars
  PROVE  ReportsStay
<1> SUFFICES ASSUME NEW t \in Tasks, report[t] # "none"
             PROVE  report'[t] = report[t]
  BY DEF ReportsStay
<1>1. CASE UNCHANGED report
  BY <1>1
<1>2. CASE \E c \in Clients : CancelQueued(c)
  BY <1>2 DEF CancelQueued, TypeOK, StoreType
<1>3. CASE WorkerReport
  BY <1>3 DEF WorkerReport, TypeOK, StoreType
<1> QED
  BY <1>1, <1>2, <1>3, ReportWrites

\* Storage that failed has failed.
LEMMA FaultStays ==
  ASSUME TypeOK, [Next]_vars
  PROVE  Faulty => Faulty'
<1>1. budget.faults \in 0..MaxFaults /\ budget \in Budget /\ MaxFaults \in Nat
  BY BoundAssumption DEF TypeOK, Budget
<1>2. CASE UNCHANGED budget
  BY <1>2 DEF Faulty
<1>3. ASSUME NEW w \in {"calls", "faults", "crashes"}, Spend(w)
      PROVE  Faulty => Faulty'
  BY <1>1, <1>3 DEF Spend, Faulty, Budget
<1>4. ASSUME budget' = [budget EXCEPT !.calls = @ + 1, !.faults = @ + 1]
      PROVE  Faulty => Faulty'
  BY <1>1, <1>4 DEF Faulty, Budget
<1>5. ASSUME NEW c \in Clients, Client(c)
      PROVE  \/ UNCHANGED budget \/ Spend("calls") \/ Spend("faults")
             \/ budget' = [budget EXCEPT !.calls = @ + 1, !.faults = @ + 1]
  BY <1>5
  DEF Client, Submit, SubmitCreate, SubmitEvent, SubmitEnsure, SubmitPut, Cancel, CancelRead,
      CancelQueued, CancelStarted, CancelEvent, CancelCompleted, CancelSave,
      Pause, PauseRead, PauseSave, PauseEvent, PausedEvent, Resume, ResumeRead,
      ResumeQueued, ResumeStarted, ResumedEvent, AppendEvent, Enter, SaveLocked, Fault
<1>6. CASE Worker
  <2>1. UNCHANGED budget \/ Spend("faults")
    BY <1>6
    DEF Worker, WorkerGet, WorkerCheck, WorkerStart, WorkerStarted, WorkerBind,
      WorkerProbe, WorkerEngaged, WorkerWake, WorkerDisengage, WorkerResumed,
      WorkerAct, WorkerFinish, WorkerReport, WorkerRead, WorkerCompleted,
      WorkerSave, WorkerExcept, WorkerCleanup, Fault
  <2> QED
    BY <1>2, <1>3, <2>1
<1>7. CASE WorkerFault \/ DeadlinePasses \/ Crash \/ Recover
  BY <1>2, <1>3, <1>7 DEF WorkerFault, DeadlinePasses, Crash, Recover, Fault
<1>8. CASE UNCHANGED vars
  BY <1>2, <1>8 DEF vars
<1> QED
  BY <1>2, <1>3, <1>4, <1>5, <1>6, <1>7, <1>8 DEF Next

-----------------------------------------------------------------------------
(* The steps of the API threads.                                             *)

\* A call goes on outside its locked section, and touches nothing but events.
LEMMA CallGoesOn ==
  ASSUME TypeOK, WorkInv, [Next]_vars, UNCHANGED <<exec, report, acted, executor>>,
         worker' = worker \/ (worker.pc = "none" /\ worker' = Waiting),
         NEW c \in Clients, \A d \in Clients \ {c} : client'[d] = client[d],
         client[c].pc \notin Locked, client'[c].pc \notin Locked,
         \A t \in Tasks : Submitting(c, t)' => Submitting(c, t),
         Cancels(c)' => /\ Cancels(c) /\ client[c].task \in Tasks
                        /\ client'[c].task = client[c].task
                        /\ client'[c].snap = client[c].snap
  PROVE  WorkInv'
<1>1. /\ Faulty => Faulty'
      /\ ReportsStay
      /\ UNCHANGED <<items, queue, flags, lock>>
  BY FaultStays, ReportsStayed DEF executor
<1>2. /\ flags.parked \subseteq Tasks /\ None \notin Tasks
      /\ \A d \in Clients : client[d].pc # "idle" => client[d].task \in Tasks
  BY NoneAssumption DEF TypeOK, ExecutorType, Flags, ClientType
<1>3. Waiting.pc = "take" /\ Waiting.task = None
  BY DEF Waiting
<1>4. \A d \in Clients, t \in Tasks : Submitting(d, t)' => Submitting(d, t)
  BY DEF Submitting
<1>5. \A d \in Clients : Cancels(d)' =>
         /\ Cancels(d) /\ client[d].task \in Tasks
         /\ client'[d].task = client[d].task /\ client'[d].snap = client[d].snap
  BY <1>2 DEF Cancels
<1>6. \A d \in Clients : client'[d].pc \in Locked =>
         client'[d] = client[d] /\ client[d].task \in Tasks
  BY <1>2 DEF Locked
<1>7. Owners'
  BY <1>1, OwnersKept DEF WorkInv
<1>8. Single' /\ Registered'
  BY <1>1, <1>2, <1>3, <1>4, PlacesKept DEF WorkInv
<1>9. Unstarted'
  <2>1. worker'.pc \in {"check", "start"} =>
           worker'.task = worker.task /\ worker.pc \in {"check", "start"}
    BY <1>3
  <2>2. \A t \in Tasks : Waits(t)' => Waits(t)
    BY <1>1, <1>4, <2>1, WaitsKept
  <2> QED
    BY <1>1, <1>2, <2>2, UnstartedKept DEF WorkInv
<1>10. Rows' /\ Fresh' /\ Cancelled'
  BY <1>1, <1>5, <1>6, RowsKept, FreshKept, CancelledKept DEF WorkInv
<1>11. AtWork'
  <2>1. CASE worker' = worker
    BY <1>1, <2>1, AtWorkKept DEF WorkInv
  <2>2. CASE worker' = Waiting
    BY <1>3, <2>2, WorkerAway DEF Working, Ending
  <2> QED
    BY <2>1, <2>2
<1>12. Healthy'
  <2>1. \A t \in Tasks : PausedFlagged(t) => PausedFlagged(t)'
    BY <1>1 DEF PausedFlagged
  <2> QED
    BY <1>1, <1>3, <2>1, HealthyKept DEF WorkInv, Broken
<1> QED
  BY <1>7, <1>8, <1>9, <1>10, <1>11, <1>12 DEF WorkInv

LEMMA EventAppended ==
  ASSUME TypeOK, WorkInv, [Next]_vars, NEW c \in Clients, NEW pc, NEW event, NEW next,
         AppendEvent(c, pc, event, next),
         pc \notin Locked \cup {"idle"}, next \notin Locked \cup {"cancelEvent"},
         next \in Submits => pc \in Submits,
         next \in {"cancelCompleted", "cancelSave"} => Cancels(c)
  PROVE  WorkInv'
<1>1. /\ client[c].pc = pc /\ pc # "idle"
      /\ Goto(c, next) \/ Return(c)
      /\ UNCHANGED <<exec, report, acted, executor, worker>>
  BY DEF AppendEvent, At
<1>2. /\ client \in [Clients -> ClientState] /\ client[c] \in ClientState
      /\ client[c].task \in Tasks
  BY <1>1 DEF TypeOK, ClientType
<1>3. \/ client'[c] = Idle
      \/ /\ client'[c].pc = next
         /\ client'[c].task = client[c].task /\ client'[c].snap = client[c].snap
  BY <1>1, <1>2 DEF Goto, Return, ClientState
<1>4. \A d \in Clients \ {c} : client'[d] = client[d]
  BY <1>1, <1>2 DEF Goto, Return
<1>5. Idle.pc = "idle"
  BY DEF Idle
<1>6. client'[c].pc \notin Locked /\ client[c].pc \notin Locked
  BY <1>1, <1>3, <1>5 DEF Locked
<1>7. \A t \in Tasks : Submitting(c, t)' => Submitting(c, t)
  BY <1>1, <1>3, <1>5 DEF Submitting, Submits
<1>8. Cancels(c)' => /\ Cancels(c) /\ client'[c].task = client[c].task
                     /\ client'[c].snap = client[c].snap
  BY <1>3, <1>5 DEF Cancels
<1> QED
  BY <1>1, <1>2, <1>4, <1>6, <1>7, <1>8, CallGoesOn

LEMMA EventsKeep ==
  ASSUME TypeOK, WorkInv, [Next]_vars, NEW c \in Clients,
         \/ SubmitEvent(c) \/ CancelEvent(c) \/ CancelCompleted(c)
         \/ PauseEvent(c) \/ PausedEvent(c) \/ ResumedEvent(c)
  PROVE  WorkInv'
<1>1. CASE SubmitEvent(c)
  BY <1>1, EventAppended DEF SubmitEvent, Locked, Submits
<1>2. CASE CancelEvent(c)
  <2>1. client[c].snap.status = "cancelled" => Cancels(c)
    BY <1>2 DEF CancelEvent, AppendEvent, At, Cancels
  <2> QED
    BY <1>2, <2>1, EventAppended DEF CancelEvent, Locked, Submits
<1>3. CASE CancelCompleted(c)
  <2>1. Cancels(c)
    BY <1>3 DEF CancelCompleted, AppendEvent, At, Cancels
  <2> QED
    BY <1>3, <2>1, EventAppended DEF CancelCompleted, Locked, Submits
<1>4. CASE PauseEvent(c)
  BY <1>4, EventAppended DEF PauseEvent, Locked, Submits
<1>5. CASE PausedEvent(c) \/ ResumedEvent(c)
  BY <1>5, EventAppended DEF PausedEvent, ResumedEvent, Locked, Submits
<1> QED
  BY <1>1, <1>2, <1>3, <1>4, <1>5

LEMMA EnsureKeeps ==
  ASSUME TypeOK, WorkInv, [Next]_vars, NEW c \in Clients, SubmitEnsure(c)
  PROVE  WorkInv'
<1>1. /\ client[c].pc = "submitEnsure" /\ Goto(c, "submitPut")
      /\ UNCHANGED <<exec, report, acted, executor>>
      /\ worker' = worker \/ (worker.pc = "none" /\ worker' = Waiting)
  BY DEF SubmitEnsure, At, durable, Ensured
<1>2. client \in [Clients -> ClientState] /\ client[c] \in ClientState
  BY DEF TypeOK, ClientType
<1>3. client'[c].pc = "submitPut" /\ client'[c].task = client[c].task
  BY <1>1, <1>2 DEF Goto, ClientState
<1>4. \A d \in Clients \ {c} : client'[d] = client[d]
  BY <1>1, <1>2 DEF Goto
<1>5. client'[c].pc \notin Locked /\ client[c].pc \notin Locked /\ ~Cancels(c)'
  BY <1>1, <1>3 DEF Locked, Cancels
<1>6. \A t \in Tasks : Submitting(c, t)' => Submitting(c, t)
  BY <1>1, <1>3 DEF Submitting, Submits
<1> QED
  BY <1>1, <1>4, <1>5, <1>6, CallGoesOn

LEMMA EnterKeeps ==
  ASSUME TypeOK, WorkInv, [Next]_vars, NEW c \in Clients, NEW t \in Tasks, NEW pc \in Locked,
         Enter(c, t, pc), exec[t].status \in Live,
         pc = "pause" => exec[t].status \in {"queued", "running"},
         pc = "resume" => exec[t].status \in {"paused", "running"}
  PROVE  WorkInv'
<1>1. /\ lock = None /\ lock' = c /\ client[c].pc = "idle"
      /\ UNCHANGED <<exec, report, acted, items, queue, flags, worker>>
      /\ client' = [client EXCEPT ![c] = [pc |-> pc, task |-> t, snap |-> exec[t]]]
  BY DEF Enter, At, durable
<1>2. /\ client \in [Clients -> ClientState] /\ flags.parked \subseteq Tasks
      /\ \A d \in Clients : client[d].pc # "idle" => client[d].task \in Tasks
  BY DEF TypeOK, ClientType, ExecutorType, Flags
<1>3. /\ client'[c].pc = pc /\ client'[c].task = t /\ client'[c].snap = exec[t]
      /\ \A d \in Clients \ {c} : client'[d] = client[d]
  BY <1>1, <1>2
<1>4. \A d \in Clients : client[d].pc \notin Locked
  BY <1>1, NoneAssumption DEF WorkInv, Owners
<1>5. Owners'
  BY <1>1, <1>3, <1>4 DEF Owners
<1>6. \A d \in Clients, u \in Tasks : Submitting(d, u)' => Submitting(d, u)
  BY <1>3 DEF Submitting, Locked, Submits
<1>7. Single' /\ Registered'
  BY <1>1, <1>2, <1>6, PlacesKept DEF WorkInv
<1>8. Unstarted'
  <2>1. \A u \in Tasks : Waits(u)' => Waits(u)
    BY <1>1, <1>6, WaitsKept
  <2> QED
    BY <1>1, <1>2, <2>1, UnstartedKept DEF WorkInv
<1>9. Rows'
  BY <1>1, RowsKept DEF WorkInv
<1>10. Fresh'
  BY <1>1, <1>3, <1>4 DEF WorkInv, Rows, Row, Fresh, FreshCopy
<1>11. Cancelled'
  <2>1. \A d \in Clients : Cancels(d)' => d # c /\ Cancels(d)
    BY <1>3 DEF Cancels, Locked
  <2>2. \A d \in Clients : Cancels(d) => client[d].task \in Tasks
    BY <1>2 DEF Cancels
  <2> QED
    BY <1>1, <1>3, <2>1, <2>2, ReportsStayed, CancelledKept DEF WorkInv
<1>12. AtWork' /\ Healthy'
  <2>1. AtWork'
    BY <1>1, AtWorkKept DEF WorkInv
  <2>2. \A u \in Tasks : PausedFlagged(u) => PausedFlagged(u)'
    BY <1>1 DEF PausedFlagged
  <2>3. Healthy'
    BY <1>1, <2>2, FaultStays, HealthyKept DEF WorkInv
  <2> QED
    BY <2>1, <2>3
<1> QED
  BY <1>5, <1>7, <1>8, <1>9, <1>10, <1>11, <1>12 DEF WorkInv

LEMMA ReadsKeep ==
  ASSUME TypeOK, WorkInv, [Next]_vars, NEW c \in Clients, NEW t \in Tasks,
         CancelRead(c, t) \/ PauseRead(c, t) \/ ResumeRead(c, t)
  PROVE  WorkInv'
BY EnterKeeps DEF CancelRead, PauseRead, ResumeRead, Locked, Live

LEMMA CreateKeeps ==
  ASSUME TypeOK, WorkInv, [Next]_vars, NEW c \in Clients, NEW t \in Tasks,
         NEW k \in Keys \cup {None}, SubmitCreate(c, t, k)
  PROVE  WorkInv'
<1> DEFINE e == [exec[t] EXCEPT !.status = "queued"]
<1>1. /\ lock = None /\ client[c].pc = "idle" /\ exec[t].status = "absent"
      /\ t \notin items /\ items' = items \cup {t}
      /\ UNCHANGED <<report, acted, queue, flags, lock, worker>>
  BY DEF SubmitCreate, At
<1>2. /\ client \in [Clients -> ClientState] /\ flags.parked \subseteq Tasks
      /\ exec \in [Tasks -> Execution] /\ exec[t] \in Execution
      /\ \A d \in Clients : client[d].pc # "idle" => client[d].task \in Tasks
  BY DEF TypeOK, StoreType, ClientType, ExecutorType, Flags
<1>3. /\ e.status = "queued" /\ e.started = exec[t].started
      /\ e.error = exec[t].error /\ e.result = exec[t].result
  BY <1>2 DEF Execution
<1>4. /\ \A u \in Tasks \ {t} : exec'[u] = exec[u]
      /\ \/ exec'[t] = e
         \/ exec'[t] = exec[t] /\ UNCHANGED client
      /\ \A d \in Clients \ {c} : client'[d] = client[d]
      /\ \/ client'[c] = client[c]
         \/ client'[c].pc = "submitEvent" /\ client'[c].task = t /\ exec'[t] = e
  BY <1>2 DEF SubmitCreate
<1> HIDE DEF e
<1>5. \A d \in Clients : client[d].pc \notin Locked /\ client'[d].pc \notin Locked
  BY <1>1, <1>4, NoneAssumption DEF WorkInv, Owners, Locked
<1>6. Owners'
  BY <1>1, <1>5, OwnersKept DEF WorkInv
<1>7. /\ ~InQueue(t) /\ worker.task # t /\ t \notin flags.parked
      /\ \A d \in Clients : ~Submitting(d, t)
  BY <1>1 DEF WorkInv, Registered
<1>8. \A d \in Clients, u \in Tasks : Submitting(d, u)' => Submitting(d, u) \/ (d = c /\ u = t)
  BY <1>1, <1>4 DEF Submitting, Submits
<1>9. \A u \in Tasks : InQueue(u)' <=> InQueue(u)
  BY <1>1 DEF InQueue
<1>10. Single'
  <2>1. Single
    BY DEF WorkInv
  <2>2. \A d \in Clients, u \in Tasks : Submitting(d, u)' =>
          worker.task # u /\ ~InQueue(u) /\ u \notin flags.parked
    BY <1>7, <1>8, <2>1 DEF Single
  <2>3. \A d, f \in Clients, u \in Tasks : Submitting(d, u)' /\ Submitting(f, u)' => d = f
    BY <1>7, <1>8, <2>1 DEF Single
  <2> QED
    BY <1>1, <1>9, <2>1, <2>2, <2>3 DEF Single
<1>11. Registered'
  BY <1>1, <1>8, <1>9 DEF WorkInv, Registered
<1>12. /\ ~exec[t].started /\ report[t] = "none" /\ exec[t].error = "none"
       /\ ~exec[t].result /\ Row(t)
  BY <1>1 DEF WorkInv, Rows, Row, Terminal
<1>13. Unstarted'
  <2>1. \A u \in Tasks : Waits(u)' => Waits(u) \/ (u = t /\ exec'[t] = e)
    BY <1>1, <1>4, <1>8, <1>9 DEF Waits, InHand, Submitting, Submits
  <2>2. ~Waits(t)
    BY <1>7 DEF Waits, InHand
  <2>3. ASSUME NEW u \in Tasks, Waits(u)' PROVE WaitingRow(u)'
    <3>1. CASE u = t
      BY <1>1, <1>3, <1>12, <2>1, <2>2, <2>3, <3>1 DEF WaitingRow, IsTerminal, Terminal
    <3>2. CASE u # t
      BY <1>1, <1>4, <2>1, <2>3, <3>2 DEF WorkInv, Unstarted, WaitingRow, IsTerminal
    <3> QED
      BY <3>1, <3>2
  <2>4. ASSUME NEW u \in flags'.parked PROVE ParkedRow(u)'
    BY <1>1, <1>2, <1>4, <1>7, <2>4 DEF WorkInv, Unstarted, ParkedRow
  <2> QED
    BY <2>3, <2>4 DEF Unstarted
<1>14. Rows'
  <2>1. Row(t)'
    BY <1>1, <1>3, <1>4, <1>12 DEF Row, Terminal
  <2>2. \A u \in Tasks \ {t} : Row(u)'
    BY <1>1, <1>4 DEF WorkInv, Rows, Row
  <2> QED
    BY <2>1, <2>2 DEF Rows
<1>15. Fresh'
  BY <1>5 DEF Fresh
<1>16. Cancelled'
  <2>1. \A d \in Clients : Cancels(d)' => Cancels(d) /\ client'[d] = client[d]
    BY <1>4 DEF Cancels
  <2>2. \A d \in Clients : Cancels(d) => client[d].task \in Tasks
    BY <1>2 DEF Cancels
  <2>3. \A u \in Tasks : exec'[u].started = exec[u].started
    BY <1>3, <1>4
  <2> QED
    BY <2>1, <2>2, <2>3, ReportsStayed, CancelledKept DEF WorkInv
<1>17. AtWork'
  <2>1. worker.pc \notin {"none", "take"} => exec'[worker.task] = exec[worker.task]
    BY <1>4, <1>7 DEF TypeOK, WorkerType
  <2> QED
    BY <1>1, <2>1, AtWorkKept DEF WorkInv
<1>18. Healthy'
  <2> SUFFICES ASSUME ~Faulty' PROVE /\ worker'.pc \notin Broken
                                     /\ ReportAgrees'
                                     /\ \A u \in Tasks : PausedFlagged(u)'
    BY DEF Healthy
  <2>1. /\ worker.pc \notin Broken /\ ReportAgrees
        /\ \A u \in Tasks : PausedFlagged(u)
    BY FaultStays DEF WorkInv, Healthy
  <2>2. ~IsTerminal(t)' /\ exec'[t].status # "paused"
    BY <1>1, <1>3, <1>4 DEF IsTerminal, Terminal
  <2>3. ReportAgrees'
    BY <1>1, <1>4, <2>1, <2>2 DEF ReportAgrees, IsTerminal
  <2>4. \A u \in Tasks : PausedFlagged(u)'
    BY <1>1, <1>4, <2>1, <2>2 DEF PausedFlagged
  <2> QED
    BY <1>1, <2>1, <2>3, <2>4
<1> QED
  BY <1>6, <1>10, <1>11, <1>13, <1>14, <1>15, <1>16, <1>17, <1>18 DEF WorkInv

\* What the queue holds after a put and after a get.
LEMMA Appended ==
  ASSUME queue \in Seq(Tasks), NEW t \in Tasks, queue' = Append(queue, t)
  PROVE  /\ \A u : InQueue(u)' <=> InQueue(u) \/ u = t
         /\ (\A i, j \in DOMAIN queue : queue[i] = queue[j] => i = j) /\ ~InQueue(t) =>
              \A i, j \in DOMAIN queue' : queue'[i] = queue'[j] => i = j
<1>1. /\ Len(queue) \in Nat /\ DOMAIN queue = 1..Len(queue)
      /\ DOMAIN queue' = 1..(Len(queue) + 1)
      /\ \A i \in 1..Len(queue) : queue'[i] = queue[i]
      /\ queue'[Len(queue) + 1] = t
  OBVIOUS
<1>2. \A i \in DOMAIN queue' : i \in DOMAIN queue \/ i = Len(queue) + 1
  BY <1>1
<1>3. DOMAIN queue \subseteq DOMAIN queue' /\ Len(queue) + 1 \in DOMAIN queue'
  BY <1>1
<1>4. \A i \in DOMAIN queue : queue'[i] = queue[i]
  BY <1>1
<1>5. queue'[Len(queue) + 1] = t
  BY <1>1
<1>6. \A u : InQueue(u)' <=> InQueue(u) \/ u = t
  BY <1>2, <1>3, <1>4, <1>5 DEF InQueue
<1>7. ASSUME \A i, j \in DOMAIN queue : queue[i] = queue[j] => i = j, ~InQueue(t),
             NEW i \in DOMAIN queue', NEW j \in DOMAIN queue', queue'[i] = queue'[j]
      PROVE  i = j
  BY <1>2, <1>4, <1>5, <1>7 DEF InQueue
<1> QED
  BY <1>6, <1>7

LEMMA PutKeeps ==
  ASSUME TypeOK, WorkInv, [Next]_vars, NEW c \in Clients, SubmitPut(c)
  PROVE  WorkInv'
<1> DEFINE t == client[c].task
<1>1. /\ client[c].pc = "submitPut" /\ Return(c) /\ queue' = Append(queue, t)
      /\ UNCHANGED <<exec, report, acted, items, flags, lock, worker>>
  BY DEF SubmitPut, At, durable
<1>2. /\ client \in [Clients -> ClientState] /\ flags.parked \subseteq Tasks
      /\ queue \in Seq(Tasks) /\ t \in Tasks
      /\ \A d \in Clients : client[d].pc # "idle" => client[d].task \in Tasks
  BY <1>1 DEF TypeOK, ClientType, ExecutorType, Flags
<1>3. /\ client'[c].pc = "idle"
      /\ \A d \in Clients \ {c} : client'[d] = client[d]
  BY <1>1, <1>2 DEF Return, Idle
<1>4. /\ Submitting(c, t)
      /\ \A d \in Clients, u \in Tasks : Submitting(d, u)' => Submitting(d, u) /\ d # c
  BY <1>1, <1>3 DEF Submitting, Submits
<1>5. /\ ~InQueue(t) /\ worker.task # t /\ t \notin flags.parked /\ t \in items
      /\ \A d \in Clients : Submitting(d, t) => d = c
  BY <1>2, <1>4 DEF WorkInv, Single, Registered
<1>6. /\ \A u : InQueue(u)' <=> InQueue(u) \/ u = t
      /\ \A i, j \in DOMAIN queue' : queue'[i] = queue'[j] => i = j
  BY <1>1, <1>2, <1>5, Appended DEF WorkInv, Single
<1> HIDE DEF t
<1>7. Owners'
  BY <1>1, <1>3, OwnersKept DEF WorkInv, Locked
<1>8. Single' /\ Registered'
  <2>1. Single
    BY DEF WorkInv
  <2>2. \A u \in Tasks : InQueue(u)' => worker'.task # u /\ u \notin flags'.parked
    BY <1>1, <1>5, <1>6, <2>1 DEF Single
  <2>3. \A d \in Clients, u \in Tasks : Submitting(d, u)' =>
           worker'.task # u /\ ~InQueue(u)' /\ u \notin flags'.parked
    BY <1>1, <1>4, <1>5, <1>6, <2>1 DEF Single
  <2>4. \A d, f \in Clients, u \in Tasks : Submitting(d, u)' /\ Submitting(f, u)' => d = f
    BY <1>4, <2>1 DEF Single
  <2>5. Single'
    BY <1>1, <1>6, <2>1, <2>2, <2>3, <2>4 DEF Single
  <2>6. Registered'
    BY <1>1, <1>4, <1>5, <1>6 DEF WorkInv, Registered
  <2> QED
    BY <2>5, <2>6
<1>9. Unstarted'
  <2>1. \A u \in Tasks : Waits(u)' => Waits(u)
    BY <1>1, <1>4, <1>6 DEF Waits, InHand
  <2> QED
    BY <1>1, <1>2, <2>1, UnstartedKept DEF WorkInv
<1>10. Rows' /\ Fresh'
  <2>1. \A d \in Clients : client'[d].pc \in Locked =>
          client'[d] = client[d] /\ client[d].task \in Tasks
    BY <1>2, <1>3 DEF Locked
  <2> QED
    BY <1>1, <2>1, RowsKept, FreshKept, ReportsStayed, FaultStays DEF WorkInv
<1>11. Cancelled'
  <2>1. \A d \in Clients : Cancels(d)' => Cancels(d) /\ client'[d] = client[d]
    BY <1>3 DEF Cancels
  <2>2. \A d \in Clients : Cancels(d) => client[d].task \in Tasks
    BY <1>2 DEF Cancels
  <2> QED
    BY <1>1, <2>1, <2>2, ReportsStayed, CancelledKept DEF WorkInv
<1>12. AtWork'
  BY <1>1, AtWorkKept DEF WorkInv
<1>13. Healthy'
  <2>1. \A u \in Tasks : PausedFlagged(u) => PausedFlagged(u)'
    BY <1>1 DEF PausedFlagged
  <2> QED
    BY <1>1, <2>1, FaultStays, HealthyKept DEF WorkInv
<1> QED
  BY <1>7, <1>8, <1>9, <1>10, <1>11, <1>12, <1>13 DEF WorkInv

LEMMA CancelQueuedKeeps ==
  ASSUME TypeOK, WorkInv, [Next]_vars, NEW c \in Clients, CancelQueued(c)
  PROVE  WorkInv'
<1> DEFINE t == client[c].task
           e == client[c].snap
           f == [Finished(e, "cancelled") EXCEPT !.cancelReq = TRUE]
<1>1. /\ client[c].pc = "cancel" /\ lock' = None /\ NeverStarted(e)
      /\ UNCHANGED <<exec, acted, queue, worker>>
      /\ \/ t \in flags.parked /\ items' = items \ {t} /\ flags' = Forget(t)
         \/ /\ t \notin flags.parked /\ items' = items
            /\ flags' = [flags EXCEPT !.cancel = @ \cup {t}]
  BY DEF CancelQueued, At
<1>2. /\ client \in [Clients -> ClientState] /\ flags \in Flags /\ flags.parked \subseteq Tasks
      /\ report \in [Tasks -> Terminal \cup {"none"}]
      /\ t \in Tasks /\ e \in Execution
      /\ \A d \in Clients : client[d].pc # "idle" => client[d].task \in Tasks
  BY <1>1, SnapType DEF TypeOK, StoreType, ClientType, ExecutorType, Flags
<1>3. /\ f.status = "cancelled" /\ f.result /\ f.error = ErrorOf("cancelled")
      /\ f.started = e.started
  BY <1>2 DEF Finished, Execution
<1>4. /\ \/ client'[c].pc = "idle" /\ report' = report
         \/ /\ report[t] = "none" /\ report' = [report EXCEPT ![t] = "cancelled"]
            /\ client'[c].pc = "cancelEvent" /\ client'[c].task = t /\ client'[c].snap = f
      /\ \A d \in Clients \ {c} : client'[d] = client[d]
  <2>1. CASE Return(c) /\ UNCHANGED report
    BY <1>2, <2>1 DEF Return, Idle
  <2>2. CASE /\ report[t] = "none" /\ report' = [report EXCEPT ![t] = "cancelled"]
             /\ client' = [client EXCEPT ![c] = [@ EXCEPT !.pc = "cancelEvent", !.snap = f]]
    <3> HIDE DEF f
    <3> QED
      BY <1>2, <2>2 DEF ClientState
  <2> QED
    BY <2>1, <2>2 DEF CancelQueued
<1>5. FreshCopy(c) /\ client[c].pc \in Locked
  BY <1>1 DEF WorkInv, Fresh, Locked
<1>6. /\ e.status \in Live /\ exec[t].started = e.started
      /\ exec[t] = e \/ (IsTerminal(t) /\ (Faulty \/ report[t] # "none"))
  BY <1>5 DEF FreshCopy
<1>7. ~e.started
  BY <1>1, <1>5 DEF FreshCopy, NeverStarted
<1> HIDE DEF t, e, f
<1>8. Owners'
  BY <1>1, <1>4, <1>5, OwnersReleased DEF WorkInv, Locked
<1>9. /\ flags'.parked = flags.parked \ {t} /\ items \ {t} \subseteq items'
      /\ t \in items' => t \notin flags.parked
      /\ \A u \in Tasks \ {t} : /\ u \in flags'.cancel <=> u \in flags.cancel
                                /\ u \in flags'.pause <=> u \in flags.pause
      /\ t \notin flags.parked => t \in flags'.cancel /\ flags'.pause = flags.pause
  <2>1. CASE t \in flags.parked /\ items' = items \ {t} /\ flags' = Forget(t)
    <3>1. /\ flags'.parked = flags.parked \ {t} /\ flags'.cancel = flags.cancel \ {t}
          /\ flags'.pause = flags.pause \ {t}
      BY <1>2, <2>1 DEF Forget, Flags
    <3> QED
      BY <2>1, <3>1
  <2>2. CASE /\ t \notin flags.parked /\ items' = items
             /\ flags' = [flags EXCEPT !.cancel = @ \cup {t}]
    <3>1. /\ flags'.parked = flags.parked /\ flags'.cancel = flags.cancel \cup {t}
          /\ flags'.pause = flags.pause
      BY <1>2, <2>2 DEF Flags
    <3> QED
      BY <2>2, <3>1
  <2> QED
    BY <1>1, <2>1, <2>2
<1>10. \A d \in Clients, u \in Tasks : Submitting(d, u)' => Submitting(d, u)
  BY <1>4 DEF Submitting, Submits
<1>11. \A u \in Tasks : Waits(u)' => Waits(u)
  BY <1>1, <1>10, WaitsKept
<1>12. t \in flags.parked => ~Waits(t)
  BY <1>2 DEF WorkInv, Single, Waits, InHand
<1>13. Single' /\ Registered'
  <2>1. \A u \in Tasks : InQueue(u)' <=> InQueue(u)
    BY <1>1 DEF InQueue
  <2>2. Single /\ Registered
    BY DEF WorkInv
  <2>3. Single'
    BY <1>1, <1>9, <1>10, <2>1, <2>2 DEF Single
  <2>4. t \in flags.parked => ~InQueue(t) /\ worker.task # t /\ \A d \in Clients : ~Submitting(d, t)
    BY <1>2, <2>2 DEF Single
  <2>5. Registered'
    BY <1>1, <1>2, <1>9, <1>10, <2>1, <2>2, <2>4 DEF Registered
  <2> QED
    BY <2>3, <2>5
<1>14. \A u \in Tasks \ {t} : report'[u] = report[u]
  BY <1>2, <1>4
<1>15. report'[t] # "none" \/ report'[t] = report[t]
  BY <1>2, <1>4
<1>16. Unstarted'
  <2>1. ASSUME NEW u \in Tasks, Waits(u)' PROVE WaitingRow(u)'
    <3>1. WaitingRow(u)
      BY <1>11, <2>1 DEF WorkInv, Unstarted
    <3>2. CASE u = t
      BY <1>1, <1>9, <1>11, <1>12, <1>15, <2>1, <3>1, <3>2 DEF WaitingRow, IsTerminal
    <3>3. CASE u # t
      BY <1>1, <1>9, <1>14, <3>1, <3>3 DEF WaitingRow, IsTerminal
    <3> QED
      BY <3>2, <3>3
  <2>2. ASSUME NEW u \in flags'.parked PROVE ParkedRow(u)'
    BY <1>1, <1>2, <1>9, <1>14, <2>2 DEF WorkInv, Unstarted, ParkedRow
  <2> QED
    BY <2>1, <2>2 DEF Unstarted
<1>17. Rows'
  <2>1. exec[t].status # "absent"
    BY <1>6 DEF Live, IsTerminal, Terminal
  <2> QED
    BY <1>1, <1>14, <2>1, RowsKept DEF WorkInv
<1>18. Fresh'
  <2>1. \A d \in Clients : client'[d].pc \in Locked =>
          client'[d] = client[d] /\ client[d].task \in Tasks
    BY <1>2, <1>4 DEF Locked
  <2> QED
    BY <1>1, <2>1, FreshKept, ReportsStayed, FaultStays DEF WorkInv
<1>19. Cancelled'
  <2>1. ASSUME NEW d \in Clients, Cancels(d)' PROVE CancelCopy(d)'
    <3>1. CASE d = c
      <4>1. client'[c].pc = "cancelEvent"
        BY <1>4, <2>1, <3>1 DEF Cancels
      <4>2. /\ client'[c].task = t /\ client'[c].snap = f /\ report'[t] = "cancelled"
        BY <1>2, <1>4, <4>1
      <4>3. ~exec'[t].started
        BY <1>1, <1>6, <1>7
      <4> QED
        BY <1>3, <1>7, <3>1, <4>2, <4>3 DEF CancelCopy
    <3>2. CASE d # c
      <4>1. Cancels(d) /\ client'[d] = client[d] /\ client[d].task \in Tasks
        BY <1>2, <1>4, <2>1, <3>2 DEF Cancels
      <4>2. CancelCopy(d)
        BY <4>1 DEF WorkInv, Cancelled
      <4>3. report'[client[d].task] = "cancelled"
        BY <4>1, <4>2, ReportsStayed DEF CancelCopy, ReportsStay
      <4> QED
        BY <1>1, <4>1, <4>2, <4>3 DEF CancelCopy
    <3> QED
      BY <3>1, <3>2
  <2> QED
    BY <2>1 DEF Cancelled
<1>20. AtWork'
  <2>1. ASSUME worker.task = t PROVE worker.pc \notin Working \cup Ending
    BY <1>6, <1>7, <2>1 DEF WorkInv, AtWork
  <2>2. worker.pc \notin {"none", "take"} => worker.task \in Tasks
    BY DEF TypeOK, WorkerType
  <2>3. worker.pc \notin {"none", "take"} /\ worker.task \in flags.cancel =>
          worker.task \in flags'.cancel
    <3>1. t \in flags.parked => worker.task # t
      BY <1>2 DEF WorkInv, Single
    <3> QED
      BY <1>9, <2>2, <3>1
  <2> QED
    BY <1>1, <1>14, <2>1, <2>2, <2>3, AtWorkKept DEF WorkInv
<1>21. Healthy'
  <2>1. ASSUME IsTerminal(t), ~Faulty' PROVE report'[t] = report[t]
    <3>1. report[t] # "none"
      BY <1>6, <2>1, FaultStays DEF IsTerminal, Live, Terminal
    <3> QED
      BY <1>4, <3>1
  <2>2. ASSUME NEW u \in Tasks, PausedFlagged(u) PROVE PausedFlagged(u)'
    <3>1. items' \subseteq items
      BY <1>1
    <3> QED
      BY <1>1, <1>9, <2>2, <3>1 DEF PausedFlagged
  <2> QED
    BY <1>1, <1>14, <2>1, <2>2, FaultStays, HealthyKept DEF WorkInv
<1> QED
  BY <1>8, <1>13, <1>16, <1>17, <1>18, <1>19, <1>20, <1>21 DEF WorkInv

\* The end of a locked section: the copy replaces the row it was read from, or
\* the row became terminal or storage failed and nothing is saved.
LEMMA SavedOrNot ==
  ASSUME TypeOK, WorkInv, NEW c \in Clients, client[c].pc \in Locked,
         NEW e \in Execution, e.status \in Live,
         NEW pc \in {"idle", "cancelEvent", "pauseEvent", "resumedEvent"},
         SaveLocked(c, e, pc)
  PROVE  /\ \/ exec' = exec /\ (IsTerminal(client[c].task) \/ Faulty')
            \/ /\ ~IsTerminal(client[c].task) /\ exec[client[c].task] = client[c].snap
               /\ exec' = [exec EXCEPT ![client[c].task] = e]
         /\ \A d \in Clients \ {c} : client'[d] = client[d]
         /\ client'[c].pc \notin Locked \cup Submits
         /\ ~Cancels(c)'
<1> DEFINE t == client[c].task
<1>1. /\ client \in [Clients -> ClientState] /\ client[c] \in ClientState /\ t \in Tasks
      /\ budget.faults \in Nat /\ budget \in Budget
  BY BoundAssumption DEF TypeOK, ClientType, Locked, Budget
<1>2. FreshCopy(c)
  BY DEF WorkInv, Fresh
<1>3. Idle.pc = "idle"
  BY DEF Idle
<1>4. CASE CanSave(t, e) /\ Save(t, e)
           /\ client' = [client EXCEPT ![c] =
                IF pc = "idle" THEN Idle ELSE [@ EXCEPT !.pc = pc, !.snap = e]]
  <2>1. ~IsTerminal(t)
    BY <1>4 DEF CanSave, IsTerminal, Live, Terminal
  <2>2. exec[t] = client[c].snap /\ exec' = [exec EXCEPT ![t] = e]
    BY <1>2, <1>4, <2>1 DEF FreshCopy, Save
  <2>3. /\ \A d \in Clients \ {c} : client'[d] = client[d]
        /\ \/ client'[c] = Idle
           \/ pc # "idle" /\ client'[c].pc = pc /\ client'[c].snap = e
    BY <1>1, <1>4 DEF ClientState
  <2>4. client'[c].pc \notin Locked \cup Submits
    BY <1>3, <2>3 DEF Locked, Submits
  <2>5. ~Cancels(c)'
    BY <1>3, <2>3 DEF Cancels, Live
  <2> QED
    BY <2>1, <2>2, <2>3, <2>4, <2>5
<1>5. ASSUME Return(c)
      PROVE  /\ \A d \in Clients \ {c} : client'[d] = client[d]
             /\ client'[c].pc \notin Locked \cup Submits
             /\ ~Cancels(c)'
  <2>1. client'[c].pc = "idle" /\ \A d \in Clients \ {c} : client'[d] = client[d]
    BY <1>1, <1>3, <1>5 DEF Return
  <2> QED
    BY <2>1 DEF Locked, Submits, Cancels
<1>6. CASE ~CanSave(t, e) /\ Return(c) /\ exec' = exec
  BY <1>5, <1>6 DEF CanSave, IsTerminal
<1>7. CASE Fault /\ Return(c) /\ exec' = exec
  <2>1. Faulty'
    BY <1>1, <1>7 DEF Fault, Spend, Faulty, Budget
  <2> QED
    BY <1>5, <1>7, <2>1
<1> QED
  BY <1>4, <1>6, <1>7 DEF SaveLocked

LEMMA LockedSaveKeeps ==
  ASSUME TypeOK, WorkInv, [Next]_vars, NEW c \in Clients, client[c].pc \in Locked,
         NEW t, t = client[c].task, NEW s, s = client[c].snap,
         NEW e \in Execution, e.status \in Live,
         NEW pc \in {"idle", "cancelEvent", "pauseEvent", "resumedEvent"},
         SaveLocked(c, e, pc), lock' = None,
         UNCHANGED <<report, acted, items, worker>>,
         \* the copy moves the status, in the ways a call may
         e.started = s.started, e.error = s.error, e.result = s.result,
         e.status = "queued" => ~s.started,
         e.status = "paused" => s.status = "paused" \/ ~s.started,
         e.status \in {"running", "cancelling"} => s.started,
         \* the events of the work item follow
         flags' \in Flags, flags'.parked = flags.parked \ {t},
         flags.cancel \subseteq flags'.cancel,
         e.status = "cancelling" => t \in flags'.cancel,
         \A u \in Tasks \ {t} : u \in flags.pause => u \in flags'.pause,
         e.status = "paused" /\ ~e.started => t \in flags'.pause,
         \* only a saved resume puts a parked item back
         \/ queue' = queue
         \/ t \in flags.parked /\ queue' = Append(queue, t) /\ exec'[t] = e
  PROVE  WorkInv'
<1>1. /\ \/ exec' = exec /\ (IsTerminal(t) \/ Faulty')
         \/ ~IsTerminal(t) /\ exec[t] = s /\ exec' = [exec EXCEPT ![t] = e]
      /\ \A d \in Clients \ {c} : client'[d] = client[d]
      /\ client'[c].pc \notin Locked \cup Submits
      /\ ~Cancels(c)'
  BY SavedOrNot
<1>2. /\ t \in Tasks /\ queue \in Seq(Tasks) /\ flags.parked \subseteq Tasks
      /\ exec \in [Tasks -> Execution]
      /\ \A d \in Clients : client[d].pc # "idle" => client[d].task \in Tasks
  BY DEF TypeOK, StoreType, ExecutorType, ClientType, Flags, Locked
<1>3. \A u \in Tasks \ {t} : exec'[u] = exec[u]
  BY <1>1, <1>2
<1>4. \/ exec'[t] = exec[t] /\ (IsTerminal(t) \/ Faulty')
      \/ ~IsTerminal(t) /\ exec[t] = s /\ exec'[t] = e
  BY <1>1, <1>2
<1>5. exec'[t].started = exec[t].started
  BY <1>4
<1>6. Row(t)
  BY <1>2 DEF WorkInv, Rows
<1>7. Owners'
  BY <1>1, OwnersReleased DEF WorkInv
<1>8. \A d \in Clients, u \in Tasks : Submitting(d, u)' => Submitting(d, u)
  BY <1>1 DEF Submitting
<1>9. t \in flags.parked => /\ ~InQueue(t) /\ worker.task # t /\ t \in items
                            /\ \A d \in Clients : ~Submitting(d, t)
  BY <1>2 DEF WorkInv, Single, Registered
<1>10. /\ \A i, j \in DOMAIN queue' : queue'[i] = queue'[j] => i = j
       /\ \A u \in Tasks : InQueue(u)' => InQueue(u) \/ (u = t /\ t \in flags.parked /\ exec'[t] = e)
  <2>1. CASE queue' = queue
    BY <2>1 DEF WorkInv, Single, InQueue
  <2>2. CASE t \in flags.parked /\ queue' = Append(queue, t) /\ exec'[t] = e
    BY <1>2, <1>9, <2>2, Appended DEF WorkInv, Single
  <2> QED
    BY <2>1, <2>2
<1>11. Single' /\ Registered'
  <2>1. Single /\ Registered
    BY DEF WorkInv
  <2>2. \A u \in Tasks : InQueue(u)' => worker'.task # u /\ u \notin flags'.parked
    BY <1>9, <1>10, <2>1 DEF Single
  <2>3. \A d \in Clients, u \in Tasks : Submitting(d, u)' =>
           worker'.task # u /\ ~InQueue(u)' /\ u \notin flags'.parked
    BY <1>8, <1>9, <1>10, <2>1 DEF Single
  <2>4. \A d, f \in Clients, u \in Tasks : Submitting(d, u)' /\ Submitting(f, u)' => d = f
    BY <1>8, <2>1 DEF Single
  <2>5. Single'
    BY <1>10, <2>1, <2>2, <2>3, <2>4 DEF Single
  <2>6. Registered'
    BY <1>8, <1>9, <1>10, <2>1 DEF Registered
  <2> QED
    BY <2>5, <2>6
<1>12. Unstarted'
  <2>1. ASSUME NEW u \in Tasks, Waits(u)' PROVE WaitingRow(u)'
    <3>1. Waits(u) \/ (u = t /\ t \in flags.parked /\ exec'[t] = e)
      BY <1>8, <1>10, <2>1 DEF Waits, InHand
    <3>2. CASE u # t
      BY <1>3, <3>1, <3>2 DEF WorkInv, Unstarted, WaitingRow, IsTerminal
    <3>3. CASE u = t /\ Waits(t)
      <4>1. WaitingRow(t)
        BY <1>2, <3>3 DEF WorkInv, Unstarted
      <4>2. exec'[t].status \in {"queued", "paused"} \cup Terminal
        BY <1>4, <4>1 DEF WaitingRow, Live
      <4>3. IsTerminal(t)' => IsTerminal(t)
        BY <1>4 DEF IsTerminal, Live, Terminal
      <4> QED
        BY <1>5, <3>3, <4>1, <4>2, <4>3 DEF WaitingRow
    <3>4. CASE u = t /\ t \in flags.parked /\ exec'[t] = e
      <4>1. ParkedRow(t)
        BY <3>4 DEF WorkInv, Unstarted
      <4> QED
        BY <1>5, <3>4, <4>1 DEF ParkedRow, WaitingRow, IsTerminal, Live, Terminal
    <3> QED
      BY <3>1, <3>2, <3>3, <3>4
  <2>2. ASSUME NEW u \in flags'.parked PROVE ParkedRow(u)'
    BY <1>2, <1>3, <2>2 DEF WorkInv, Unstarted, ParkedRow
  <2> QED
    BY <2>1, <2>2 DEF Unstarted
<1>13. Rows'
  <2>1. Row(t)'
    BY <1>4, <1>6 DEF Row, IsTerminal, Live, Terminal
  <2>2. \A u \in Tasks \ {t} : Row(u)'
    BY <1>3 DEF WorkInv, Rows, Row
  <2> QED
    BY <2>1, <2>2 DEF Rows
<1>14. Fresh'
  <2>1. \A d \in Clients : client'[d].pc \notin Locked
    BY <1>1, <1>7, NoneAssumption DEF Owners
  <2> QED
    BY <2>1 DEF Fresh
<1>15. Cancelled'
  <2>1. \A d \in Clients : Cancels(d)' => Cancels(d) /\ client'[d] = client[d]
    BY <1>1 DEF Cancels
  <2>2. \A d \in Clients : Cancels(d) => client[d].task \in Tasks
    BY <1>2 DEF Cancels
  <2>3. \A u \in Tasks : exec'[u].started = exec[u].started
    BY <1>3, <1>5
  <2> QED
    BY <2>1, <2>2, <2>3, ReportsStayed, CancelledKept DEF WorkInv
<1>16. AtWork'
  <2>1. worker.pc \notin {"none", "take"} => worker.task \in Tasks
    BY DEF TypeOK, WorkerType
  <2>2. exec[t].status \in Live => exec'[t].status \in Live
    BY <1>4
  <2>3. exec'[t].status = "paused" => exec[t].status = "paused" \/ ~exec[t].started
    BY <1>4
  <2>4. exec'[t].status = "cancelling" /\ exec[t].status # "cancelling" => t \in flags'.cancel
    BY <1>4
  <2> QED
    BY <1>3, <1>5, <2>1, <2>2, <2>3, <2>4, AtWorkKept DEF WorkInv
<1>17. Healthy'
  <2> SUFFICES ASSUME ~Faulty' PROVE /\ worker'.pc \notin Broken
                                     /\ ReportAgrees'
                                     /\ \A u \in Tasks : PausedFlagged(u)'
    BY DEF Healthy
  <2>1. /\ worker.pc \notin Broken /\ ReportAgrees
        /\ \A u \in Tasks : PausedFlagged(u)
    BY FaultStays DEF WorkInv, Healthy
  <2>2. ReportAgrees'
    BY <1>3, <1>4, <2>1 DEF ReportAgrees, IsTerminal, Live, Terminal
  <2>3. PausedFlagged(t)'
    BY <1>4 DEF PausedFlagged, IsTerminal, Terminal
  <2>4. \A u \in Tasks \ {t} : PausedFlagged(u)'
    BY <1>3, <2>1 DEF PausedFlagged
  <2> QED
    BY <2>1, <2>2, <2>3, <2>4
<1> QED
  BY <1>7, <1>11, <1>12, <1>13, <1>14, <1>15, <1>16, <1>17 DEF WorkInv

\* What the call knows when it is about to leave its locked section.
LEMMA LockedCopy ==
  ASSUME TypeOK, WorkInv, NEW c \in Clients, client[c].pc \in Locked
  PROVE  /\ client[c].task \in Tasks /\ client[c].snap \in Execution
         /\ FreshCopy(c) /\ flags \in Flags /\ flags.parked \subseteq Tasks
         /\ client[c].task \in flags.parked =>
              client[c].snap.status = "paused" /\ ~client[c].snap.started
<1>1. client[c].task \in Tasks /\ client[c].snap \in Execution
  BY SnapType DEF Locked
<1>2. FreshCopy(c) /\ flags \in Flags
  BY DEF WorkInv, Fresh, TypeOK, ExecutorType
<1>3. ASSUME client[c].task \in flags.parked
      PROVE  client[c].snap.status = "paused" /\ ~client[c].snap.started
  <2>1. ParkedRow(client[c].task)
    BY <1>3 DEF WorkInv, Unstarted
  <2> QED
    BY <1>2, <2>1 DEF ParkedRow, FreshCopy, IsTerminal, Terminal
<1> QED
  BY <1>1, <1>2, <1>3 DEF Flags

LEMMA CancelStartedKeeps ==
  ASSUME TypeOK, WorkInv, [Next]_vars, NEW c \in Clients, CancelStarted(c)
  PROVE  WorkInv'
<1> DEFINE t == client[c].task
           s == client[c].snap
           e == [s EXCEPT !.status = "cancelling", !.cancelReq = TRUE]
<1>1. /\ client[c].pc \in Locked /\ ~NeverStarted(s) /\ lock' = None
      /\ flags' = [flags EXCEPT !.cancel = @ \cup {t}]
      /\ SaveLocked(c, e, "cancelEvent")
      /\ UNCHANGED <<report, acted, items, queue, worker>>
  BY DEF CancelStarted, At, Locked, history
<1>2. /\ t \in Tasks /\ s \in Execution /\ FreshCopy(c) /\ flags \in Flags
      /\ t \in flags.parked => s.status = "paused" /\ ~s.started
  BY <1>1, LockedCopy
<1>3. /\ e \in Execution /\ e.status = "cancelling" /\ e.started = s.started
      /\ e.error = s.error /\ e.result = s.result
  BY <1>2 DEF Execution, Live
<1> HIDE DEF e
<1>4. s.started /\ t \notin flags.parked
  BY <1>1, <1>2 DEF NeverStarted, FreshCopy, Live
<1>5. /\ flags' \in Flags /\ flags'.parked = flags.parked \ {t}
      /\ flags'.cancel = flags.cancel \cup {t} /\ flags'.pause = flags.pause
  BY <1>1, <1>2, <1>4 DEF Flags
<1> QED
  BY <1>1, <1>3, <1>4, <1>5, LockedSaveKeeps DEF Live

LEMMA PauseSaveKeeps ==
  ASSUME TypeOK, WorkInv, [Next]_vars, NEW c \in Clients, PauseSave(c)
  PROVE  WorkInv'
<1> DEFINE t == client[c].task
           s == client[c].snap
           e == [s EXCEPT !.pauseReq = TRUE, !.status = PausedStatus(@)]
<1>1. /\ client[c].pc = "pause" /\ client[c].pc \in Locked /\ lock' = None
      /\ flags' = [flags EXCEPT !.pause = @ \cup {t}]
      /\ SaveLocked(c, e, "pauseEvent")
      /\ UNCHANGED <<report, acted, items, queue, worker>>
  BY DEF PauseSave, At, Locked, history
<1>2. /\ t \in Tasks /\ s \in Execution /\ FreshCopy(c) /\ flags \in Flags
      /\ t \in flags.parked => s.status = "paused" /\ ~s.started
  BY <1>1, LockedCopy
<1>3. /\ s.status \in {"queued", "running"}
      /\ s.status = "queued" => ~s.started
      /\ s.status = "running" => s.started
  BY <1>1, <1>2 DEF FreshCopy
<1>4. PausedStatus(s.status) = IF s.status = "queued" THEN "paused" ELSE s.status
  BY DEF PausedStatus
<1>5. /\ e \in Execution /\ e.started = s.started
      /\ e.status = IF s.status = "queued" THEN "paused" ELSE s.status
      /\ e.error = s.error /\ e.result = s.result
  <2>1. PausedStatus(s.status) \in Live
    BY <1>3, <1>4 DEF Live
  <2>2. e.status = PausedStatus(s.status)
    BY <1>2 DEF Execution
  <2>3. e \in Execution /\ e.started = s.started /\ e.error = s.error /\ e.result = s.result
    BY <1>2, <2>1 DEF Execution
  <2> QED
    BY <1>4, <2>2, <2>3
<1> HIDE DEF e
<1>6. /\ flags' \in Flags /\ flags'.parked = flags.parked \ {t}
      /\ flags'.cancel = flags.cancel /\ flags'.pause = flags.pause \cup {t}
  BY <1>1, <1>2, <1>3 DEF Flags
<1> QED
  BY <1>1, <1>3, <1>5, <1>6, LockedSaveKeeps DEF Live

LEMMA ResumeStartedKeeps ==
  ASSUME TypeOK, WorkInv, [Next]_vars, NEW c \in Clients, ResumeStarted(c)
  PROVE  WorkInv'
<1> DEFINE t == client[c].task
           s == client[c].snap
           e == [s EXCEPT !.pauseReq = FALSE]
<1>1. /\ client[c].pc = "resume" /\ client[c].pc \in Locked /\ lock' = None
      /\ ~(s.status = "paused" /\ ~s.started)
      /\ flags' = [flags EXCEPT !.pause = @ \ {t}]
      /\ SaveLocked(c, e, "idle")
      /\ UNCHANGED <<report, acted, items, queue, worker>>
  BY DEF ResumeStarted, At, Locked, history
<1>2. /\ t \in Tasks /\ s \in Execution /\ FreshCopy(c) /\ flags \in Flags
      /\ t \in flags.parked => s.status = "paused" /\ ~s.started
  BY <1>1, LockedCopy
<1>3. s.status \in {"paused", "running"} /\ s.started
  BY <1>1, <1>2 DEF FreshCopy
<1>4. /\ e \in Execution /\ e.status = s.status /\ e.started = s.started
      /\ e.error = s.error /\ e.result = s.result
  BY <1>2 DEF Execution
<1> HIDE DEF e
<1>5. /\ flags' \in Flags /\ flags'.parked = flags.parked \ {t}
      /\ flags'.cancel = flags.cancel /\ flags'.pause = flags.pause \ {t}
  BY <1>1, <1>2, <1>3 DEF Flags
<1> QED
  BY <1>1, <1>3, <1>4, <1>5, LockedSaveKeeps DEF Live

LEMMA ResumeQueuedKeeps ==
  ASSUME TypeOK, WorkInv, [Next]_vars, NEW c \in Clients, ResumeQueued(c)
  PROVE  WorkInv'
<1> DEFINE t == client[c].task
           s == client[c].snap
           e == [s EXCEPT !.status = "queued", !.pauseReq = FALSE]
<1>1. /\ client[c].pc = "resume" /\ client[c].pc \in Locked /\ lock' = None
      /\ s.status = "paused" /\ ~s.started
      /\ flags' = [flags EXCEPT !.pause = @ \ {t}, !.parked = @ \ {t}]
      /\ SaveLocked(c, e, "resumedEvent")
      /\ UNCHANGED <<report, acted, items, worker>>
      /\ \/ queue' = queue
         \/ t \in flags.parked /\ queue' = Append(queue, t) /\ exec'[t] = e
  BY DEF ResumeQueued, At, Locked, history, Requeued
<1>2. /\ t \in Tasks /\ s \in Execution /\ flags \in Flags
  BY <1>1, LockedCopy
<1>3. /\ e \in Execution /\ e.status = "queued" /\ e.started = s.started
      /\ e.error = s.error /\ e.result = s.result
  BY <1>2 DEF Execution, Live
<1> HIDE DEF e
<1>4. /\ flags' \in Flags /\ flags'.parked = flags.parked \ {t}
      /\ flags'.cancel = flags.cancel /\ flags'.pause = flags.pause \ {t}
  BY <1>1, <1>2 DEF Flags
<1> QED
  BY <1>1, <1>3, <1>4, LockedSaveKeeps DEF Live

LEMMA CancelSaveKeeps ==
  ASSUME TypeOK, WorkInv, [Next]_vars, NEW c \in Clients, CancelSave(c)
  PROVE  WorkInv'
<1> DEFINE t == client[c].task
           e == client[c].snap
<1>1. /\ client[c].pc = "cancelSave" /\ Cancels(c) /\ SaveLocked(c, e, "idle")
      /\ UNCHANGED <<report, acted, items, queue, flags, lock, worker>>
  BY DEF CancelSave, At, Cancels, history, executor
<1>2. /\ client \in [Clients -> ClientState] /\ exec \in [Tasks -> Execution]
      /\ t \in Tasks /\ e \in Execution /\ flags.parked \subseteq Tasks
      /\ \A d \in Clients : client[d].pc # "idle" => client[d].task \in Tasks
  BY <1>1, SnapType DEF TypeOK, StoreType, ClientType, ExecutorType, Flags
<1>3. CancelCopy(c)
  BY <1>1 DEF WorkInv, Cancelled
<1>4. /\ report[t] = "cancelled" /\ ~exec[t].started /\ ~e.started
      /\ e.status = "cancelled" /\ e.result /\ e.error = ErrorOf("cancelled")
  BY <1>3 DEF CancelCopy
<1>5. /\ client'[c].pc = "idle"
      /\ \A d \in Clients \ {c} : client'[d] = client[d]
  BY <1>1, <1>2 DEF SaveLocked, Return, Idle
<1>6. exec' = exec \/ exec' = [exec EXCEPT ![t] = e]
  BY <1>1 DEF SaveLocked, Save
<1>7. /\ \A u \in Tasks \ {t} : exec'[u] = exec[u]
      /\ exec'[t] = exec[t] \/ exec'[t] = e
  BY <1>2, <1>6
<1> HIDE DEF t, e
<1>8. /\ \A u \in Tasks : exec'[u].started = exec[u].started
      /\ \A u \in Tasks : \/ exec'[u] = exec[u]
                          \/ u = t /\ exec'[u] = e /\ IsTerminal(u)' /\ report[u] # "none"
  <2>1. exec[t].started = FALSE /\ e.started = FALSE
    BY <1>2, <1>4 DEF Execution
  <2> QED
    BY <1>4, <1>7, <2>1 DEF IsTerminal, Terminal
<1>9. Owners'
  BY <1>1, <1>5, OwnersKept DEF WorkInv, Locked
<1>10. \A d \in Clients, u \in Tasks : Submitting(d, u)' => Submitting(d, u)
  BY <1>5 DEF Submitting, Submits
<1>11. Single' /\ Registered'
  BY <1>1, <1>2, <1>10, PlacesKept DEF WorkInv
<1>12. Unstarted'
  <2>1. \A u \in Tasks : Waits(u)' => Waits(u)
    BY <1>1, <1>10, WaitsKept
  <2>2. ASSUME NEW u \in Tasks, Waits(u)' PROVE WaitingRow(u)'
    BY <1>1, <1>8, <2>1, <2>2 DEF WorkInv, Unstarted, WaitingRow, IsTerminal
  <2>3. ASSUME NEW u \in flags'.parked PROVE ParkedRow(u)'
    BY <1>1, <1>2, <1>8, <2>3 DEF WorkInv, Unstarted, ParkedRow
  <2> QED
    BY <2>2, <2>3 DEF Unstarted
<1>13. Rows'
  <2>1. ASSUME NEW u \in Tasks, u = t PROVE Row(u)'
    <3>1. Row(u)
      BY DEF WorkInv, Rows
    <3>2. e.error # "interrupted_known"
      BY <1>4 DEF ErrorOf
    <3> QED
      BY <1>1, <1>4, <1>7, <2>1, <3>1, <3>2 DEF Row, Terminal
  <2>2. \A u \in Tasks \ {t} : Row(u)'
    BY <1>1, <1>7 DEF WorkInv, Rows, Row
  <2> QED
    BY <2>1, <2>2 DEF Rows
<1>14. Fresh'
  <2>1. \A d \in Clients : client'[d].pc \in Locked =>
          client'[d] = client[d] /\ client[d].task \in Tasks
    BY <1>2, <1>5 DEF Locked
  <2> QED
    BY <1>1, <1>8, <2>1, FreshKept, ReportsStayed, FaultStays DEF WorkInv
<1>15. Cancelled'
  <2>1. \A d \in Clients : Cancels(d)' => Cancels(d) /\ client'[d] = client[d]
    BY <1>5 DEF Cancels
  <2>2. \A d \in Clients : Cancels(d) => client[d].task \in Tasks
    BY <1>2 DEF Cancels
  <2> QED
    BY <1>8, <2>1, <2>2, ReportsStayed, CancelledKept DEF WorkInv
<1>16. AtWork'
  <2>1. worker.pc \notin {"none", "take"} => worker.task \in Tasks
    BY DEF TypeOK, WorkerType
  <2>2. ASSUME worker.task = t PROVE worker.pc \notin Working \cup Ending
    BY <1>4, <2>2 DEF WorkInv, AtWork
  <2>3. CASE worker.pc \notin {"none", "take"} => exec'[worker.task] = exec[worker.task]
    BY <1>1, <2>3, AtWorkKept DEF WorkInv
  <2>4. CASE worker.task = t
    BY <1>1, <1>8, <1>2, <2>2, <2>4 DEF WorkInv, AtWork, Working, Ending
  <2> QED
    BY <1>7, <2>1, <2>3, <2>4
<1>17. Healthy'
  <2> SUFFICES ASSUME ~Faulty' PROVE /\ worker'.pc \notin Broken
                                     /\ ReportAgrees'
                                     /\ \A u \in Tasks : PausedFlagged(u)'
    BY DEF Healthy
  <2>1. /\ worker.pc \notin Broken /\ ReportAgrees
        /\ \A u \in Tasks : PausedFlagged(u)
    BY FaultStays DEF WorkInv, Healthy
  <2>2. ReportAgrees'
    BY <1>1, <1>4, <1>7, <2>1 DEF ReportAgrees, IsTerminal
  <2>3. \A u \in Tasks : PausedFlagged(u)'
    BY <1>1, <1>4, <1>7, <2>1 DEF PausedFlagged
  <2> QED
    BY <1>1, <2>1, <2>2, <2>3
<1> QED
  BY <1>9, <1>11, <1>12, <1>13, <1>14, <1>15, <1>16, <1>17 DEF WorkInv

LEMMA ClientKeepsInv ==
  ASSUME TypeOK, WorkInv, [Next]_vars, NEW c \in Clients, Client(c)
  PROVE  WorkInv'
<1>1. CASE Submit(c)
  BY <1>1, CreateKeeps, EventsKeep, EnsureKeeps, PutKeeps DEF Submit
<1>2. CASE Cancel(c)
  BY <1>2, ReadsKeep, EventsKeep, CancelQueuedKeeps, CancelStartedKeeps, CancelSaveKeeps
  DEF Cancel
<1>3. CASE Pause(c)
  BY <1>3, ReadsKeep, EventsKeep, PauseSaveKeeps DEF Pause
<1>4. CASE Resume(c)
  BY <1>4, ReadsKeep, EventsKeep, ResumeQueuedKeeps, ResumeStartedKeeps DEF Resume
<1> QED
  BY <1>1, <1>2, <1>3, <1>4 DEF Client

-----------------------------------------------------------------------------
(* The worker keeps the invariant.                                           *)

LEMMA WorkerTyped ==
  ASSUME TypeOK
  PROVE  /\ worker \in WorkerState
         /\ worker.pc \notin {"none", "take"} => worker.task \in Tasks
         /\ exec \in [Tasks -> Execution] /\ report \in [Tasks -> Terminal \cup {"none"}]
         /\ acted \in [Tasks -> 0..MaxSteps] /\ flags \in Flags /\ flags.parked \subseteq Tasks
         /\ \A c \in Clients : client[c].pc # "idle" => client[c].task \in Tasks
BY DEF TypeOK, WorkerType, StoreType, ExecutorType, Flags, ClientType

\* The worker goes on with a task it has taken: nothing else refers to the
\* task's item, and a caller's copy of its row ages only under the lock or when
\* the row becomes terminal.
LEMMA WorkerMoves ==
  ASSUME TypeOK, WorkInv, [Next]_vars, NEW t \in Tasks, t = worker.task,
         UNCHANGED <<items, queue, lock, client>>,
         flags'.cancel = flags.cancel, flags'.parked = flags.parked,
         worker'.task = t \/ worker'.task = None,
         worker'.pc \notin {"check", "start"},
         \A u \in Tasks \ {t} :
           exec'[u] = exec[u] /\ report'[u] = report[u] /\ acted'[u] = acted[u],
         Row(t)',
         exec'[t].started = exec[t].started \/ report[t] = "none",
         \/ exec'[t] = exec[t] \/ lock = None
         \/ IsTerminal(t)' /\ (Faulty' \/ report'[t] # "none")
                           /\ exec'[t].started = exec[t].started
  PROVE  Owners' /\ Single' /\ Registered' /\ Unstarted' /\ Rows' /\ Fresh' /\ Cancelled'
<1>1. /\ flags.parked \subseteq Tasks /\ ReportsStay /\ (Faulty => Faulty')
      /\ \A c \in Clients : client[c].pc # "idle" => client[c].task \in Tasks
      /\ Owners /\ Single /\ Registered /\ Unstarted /\ Rows /\ Fresh /\ Cancelled
  BY WorkerTyped, ReportsStayed, FaultStays DEF WorkInv
<1>2. Owners'
  BY <1>1, OwnersKept
<1>3. \A c \in Clients, u \in Tasks : Submitting(c, u)' => Submitting(c, u)
  BY DEF Submitting
<1>4. Single' /\ Registered'
  <2>1. worker'.task = worker.task \/ worker'.task \notin Tasks
    BY NoneAssumption
  <2> QED
    BY <1>1, <1>3, <2>1, PlacesKept
<1>5. Unstarted'
  <2>1. \A u \in Tasks : Waits(u)' => Waits(u)
    BY <1>3, WaitsKept
  <2>2. \A u \in Tasks : Waits(u)' => u # t
    BY <1>1, <1>3 DEF Waits, InHand, InQueue, Single
  <2>3. t \notin flags'.parked
    BY <1>1 DEF Single
  <2> QED
    BY <1>1, <2>1, <2>2, <2>3, UnstartedKept
<1>6. Rows'
  <2>1. ASSUME NEW u \in Tasks, u # t PROVE Row(u)'
    BY <1>1, <2>1 DEF Rows, Row
  <2> QED
    BY <2>1 DEF Rows
<1>7. Fresh'
  <2>1. CASE lock = None
    BY <1>1, <2>1, NoneAssumption DEF Owners, Fresh
  <2>2. CASE lock # None
    <3>1. \A u \in Tasks : \/ exec'[u] = exec[u]
                           \/ /\ IsTerminal(u)' /\ (Faulty' \/ report'[u] # "none")
                              /\ exec'[u].started = exec[u].started
      BY <2>2
    <3>2. \A c \in Clients : client'[c].pc \in Locked =>
            client'[c] = client[c] /\ client[c].task \in Tasks
      BY <1>1 DEF Locked
    <3> QED
      BY <1>1, <3>1, <3>2, FreshKept
  <2> QED
    BY <2>1, <2>2
<1>8. Cancelled'
  <2>1. \A c \in Clients : Cancels(c)' =>
          /\ Cancels(c) /\ client[c].task \in Tasks
          /\ client'[c].task = client[c].task /\ client'[c].snap = client[c].snap
    BY <1>1 DEF Cancels
  <2>2. \A u \in Tasks : report[u] # "none" => exec'[u].started = exec[u].started
    OBVIOUS
  <2> QED
    BY <1>1, <2>1, <2>2, CancelledKept
<1> QED
  BY <1>2, <1>4, <1>5, <1>6, <1>7, <1>8

\* A step that writes neither row nor report.
LEMMA WorkerOnly ==
  ASSUME TypeOK, WorkInv, [Next]_vars, worker.pc \notin {"none", "take"},
         UNCHANGED <<exec, report, items, queue, lock, client>>,
         flags'.cancel = flags.cancel, flags'.parked = flags.parked,
         worker'.task = worker.task \/ worker'.task = None,
         worker'.pc \notin {"check", "start"},
         \A u \in Tasks :
           \/ acted'[u] = acted[u]
           \/ u = worker.task /\ exec[u].started /\ exec[u].error = "none",
         AtWork', Healthy'
  PROVE  WorkInv'
<1> DEFINE t == worker.task
<1>1. t \in Tasks /\ Rows
  BY WorkerTyped DEF WorkInv
<1>2. ASSUME NEW u \in Tasks, u = t PROVE Row(u)'
  BY <1>1, <1>2 DEF Rows, Row
<1>3. \A u \in Tasks \ {t} : exec'[u] = exec[u] /\ report'[u] = report[u] /\ acted'[u] = acted[u]
  OBVIOUS
<1> HIDE DEF t
<1>4. Owners' /\ Single' /\ Registered' /\ Unstarted' /\ Rows' /\ Fresh' /\ Cancelled'
  BY <1>1, <1>2, <1>3, WorkerMoves DEF t
<1> QED
  BY <1>4 DEF WorkInv

\* Health when neither rows nor reports nor the events of items change.
LEMMA StaysHealthy ==
  ASSUME TypeOK, WorkInv, [Next]_vars, UNCHANGED <<exec, report, items, flags>>,
         worker'.pc \notin Broken \/ worker.pc \in Broken
  PROVE  Healthy'
<1>1. (Faulty => Faulty') /\ Healthy
  BY FaultStays DEF WorkInv
<1> SUFFICES ASSUME ~Faulty' PROVE /\ worker'.pc \notin Broken
                                   /\ ReportAgrees'
                                   /\ \A t \in Tasks : PausedFlagged(t)'
  BY DEF Healthy
<1>2. /\ worker.pc \notin Broken /\ ReportAgrees
      /\ \A t \in Tasks : PausedFlagged(t)
  BY <1>1 DEF Healthy
<1>3. ReportAgrees'
  BY <1>2 DEF ReportAgrees, IsTerminal
<1>4. \A t \in Tasks : PausedFlagged(t)'
  BY <1>2 DEF PausedFlagged
<1> QED
  BY <1>2, <1>3, <1>4

LEMMA BoundaryMoves ==
  ASSUME TypeOK, NEW t, Boundary(t)
  PROVE  /\ worker'.task = worker.task
         /\ worker'.pc \in {"act", "report"}
BY WorkerTyped DEF Boundary, Conclude, Run, WorkerState

\* The worker at its work: steps that write neither row nor report.
LEMMA AtWorkMoves ==
  ASSUME TypeOK, WorkInv, UNCHANGED <<exec, report>>, flags'.cancel = flags.cancel,
         worker'.task = worker.task, worker.pc \in Working, worker'.pc \in Working,
         worker'.pc \in {"started", "prepare", "round", "woken", "act"} =>
           exec[worker.task].status # "paused"
  PROVE  AtWork'
<1> DEFINE t == worker.task
<1>1. /\ exec[t].status \in Live /\ exec[t].started /\ report[t] = "none"
      /\ exec[t].status = "cancelling" => t \in flags.cancel
  BY DEF WorkInv, AtWork
<1>2. /\ worker'.pc \in Working \cup Ending => exec'[t].status \in Live /\ exec'[t].started
      /\ worker'.pc \in {"started", "prepare", "round", "woken", "act"} =>
           exec'[t].status # "paused"
      /\ worker'.pc \in Working => report'[t] = "none"
      /\ worker'.pc \in Working /\ exec'[t].status = "cancelling" => t \in flags'.cancel
  BY <1>1
<1>3. worker'.pc \notin Ending \cup {"exceptEvent", "exceptSave"}
  BY DEF Working, Ending
<1>4. worker'.task = t
  OBVIOUS
<1> HIDE DEF t
<1> QED
  BY <1>2, <1>3, <1>4 DEF AtWork, Ending

LEMMA PlainStepsKeep ==
  ASSUME TypeOK, WorkInv, [Next]_vars,
         \/ WorkerStarted \/ WorkerEngaged \/ WorkerWake \/ WorkerResumed
         \/ WorkerFinish \/ DeadlinePasses
  PROVE  WorkInv'
<1>1. /\ worker \in WorkerState /\ flags \in Flags
      /\ worker.pc \notin {"none", "take"} => worker.task \in Tasks
  BY WorkerTyped
<1>2. /\ UNCHANGED <<exec, report, acted, items, queue, lock, client>>
      /\ flags'.cancel = flags.cancel /\ flags'.parked = flags.parked
      /\ worker.pc \in Working /\ worker'.pc \in Working
      /\ worker'.task = worker.task
      /\ worker'.pc \in {"started", "prepare", "round", "woken", "act"} =>
           worker.pc \in {"started", "prepare", "round", "woken", "act"}
      /\ flags' = flags \/ flags'.pause = flags.pause \ {worker.task}
  <2>1. CASE WorkerStarted
    BY <1>1, <2>1 DEF WorkerStarted, WorkerAt, Run, WorkerState, executor, Working
  <2>2. CASE WorkerEngaged
    BY <1>1, <2>2 DEF WorkerEngaged, WorkerAt, Run, WorkerState, executor, Working
  <2>3. CASE WorkerWake
    BY <1>1, <2>3 DEF WorkerWake, WorkerAt, Run, WorkerState, durable, Working, Flags
  <2>4. CASE WorkerResumed
    BY <1>1, <2>4, BoundaryMoves DEF WorkerResumed, WorkerAt, executor, Working
  <2>5. CASE WorkerFinish
    BY <1>1, <2>5 DEF WorkerFinish, WorkerAt, Conclude, WorkerState, executor, Working
  <2>6. CASE DeadlinePasses
    BY <1>1, <2>6 DEF DeadlinePasses, WorkerState, durable, executor, Working
  <2> QED
    BY <2>1, <2>2, <2>3, <2>4, <2>5, <2>6
<1>3. worker.task \in Tasks /\ worker.pc \notin {"none", "take"} /\ AtWork
  BY <1>1, <1>2 DEF Working, WorkInv
<1>4. AtWork'
  BY <1>2, <1>3, AtWorkMoves DEF AtWork
<1>5. Healthy'
  <2>1. worker'.pc \notin Broken
    BY <1>2 DEF Working, Broken
  <2>2. CASE flags' = flags
    BY <1>2, <2>1, <2>2, StaysHealthy
  <2>3. CASE flags'.pause = flags.pause \ {worker.task}
    <3>1. exec[worker.task].started
      BY <1>2, <1>3 DEF AtWork
    <3>2. \A t \in Tasks : PausedFlagged(t) => PausedFlagged(t)'
      BY <1>2, <2>3, <3>1 DEF PausedFlagged
    <3>3. Healthy /\ (Faulty => Faulty')
      BY FaultStays DEF WorkInv
    <3> QED
      BY <1>2, <2>1, <3>2, <3>3, HealthyKept
  <2> QED
    BY <1>2, <2>2, <2>3
<1>6. worker'.pc \notin {"check", "start"}
  BY <1>2 DEF Working
<1> QED
  BY <1>2, <1>3, <1>4, <1>5, <1>6, WorkerOnly

LEMMA ActKeeps ==
  ASSUME TypeOK, WorkInv, [Next]_vars, WorkerAct
  PROVE  WorkInv'
<1>1. /\ worker \in WorkerState /\ worker.pc = "act" /\ worker.task \in Tasks
      /\ acted \in [Tasks -> 0..MaxSteps]
  BY WorkerTyped DEF WorkerAct, WorkerAt
<1>2. /\ UNCHANGED <<exec, report, items, queue, flags, lock, client>>
      /\ acted' = [acted EXCEPT ![worker.task] = @ + 1]
      /\ worker'.task = worker.task /\ worker'.pc \in {"round", "report"}
  BY <1>1 DEF WorkerAct, Run, Conclude, WorkerState, executor
<1>3. /\ worker.pc \in Working /\ worker'.pc \in Working
      /\ worker'.pc \notin {"check", "start"} /\ worker'.pc \notin Broken
  BY <1>1, <1>2 DEF Working, Broken
<1>4. /\ exec[worker.task].status # "paused" /\ exec[worker.task].started
      /\ exec[worker.task].status \in Live
  BY <1>1, <1>3 DEF WorkInv, AtWork
<1>5. exec[worker.task].error = "none"
  BY <1>1, <1>4 DEF WorkInv, Rows, Row, Live, Terminal
<1>6. AtWork'
  BY <1>2, <1>3, <1>4, AtWorkMoves
<1>7. Healthy'
  BY <1>2, <1>3, StaysHealthy
<1>8. \A u \in Tasks :
        \/ acted'[u] = acted[u]
        \/ u = worker.task /\ exec[u].started /\ exec[u].error = "none"
  BY <1>1, <1>2, <1>4, <1>5
<1> QED
  BY <1>1, <1>2, <1>3, <1>6, <1>7, <1>8, WorkerOnly

\* The copies the worker ends a task with.
LEMMA WorkerReadKeeps ==
  ASSUME TypeOK, WorkInv, [Next]_vars, WorkerRead \/ WorkerCompleted \/ WorkerExcept
  PROVE  WorkInv'
<1> DEFINE t == worker.task
           e == exec[t]
<1>1. /\ worker \in WorkerState
      /\ worker.pc \in {"read", "complete", "except", "exceptEvent"}
      /\ UNCHANGED <<exec, report, acted, items, queue, flags, lock, client>>
  BY WorkerTyped DEF WorkerRead, WorkerCompleted, WorkerExcept, WorkerAt, durable, executor
<1>2. t \in Tasks /\ e \in Execution
  BY <1>1, WorkerTyped
<1>3. /\ worker'.task = t
      /\ worker'.pc \in {"complete", "final", "exceptEvent", "exceptSave", "cleanup"}
      /\ worker'.pc \notin Broken \/ worker.pc \in Broken
  BY <1>1 DEF WorkerRead, WorkerCompleted, WorkerExcept, WorkerAt, Run, WorkerState, Broken
<1>4. AtWork
  BY DEF WorkInv
<1>5. AtWork'
  <2>1. CASE WorkerRead
    <3>1. /\ worker.pc = "read" /\ worker'.pc = "complete"
          /\ worker'.verdict = worker.verdict /\ worker'.snap = Finished(e, worker.verdict)
      BY <1>1, <2>1 DEF WorkerRead, WorkerAt, WorkerState
    <3>2. e.status \in Live /\ e.started /\ report[t] = worker.verdict
      BY <1>4, <3>1 DEF AtWork, Ending
    <3>3. /\ worker'.snap.status = worker.verdict /\ worker'.snap.result
          /\ worker'.snap.error = ErrorOf(worker.verdict) /\ worker'.snap.started = e.started
      BY <1>2, <3>1 DEF Finished, Execution
    <3> QED
      BY <1>1, <1>3, <3>1, <3>2, <3>3 DEF AtWork, Working, Ending
  <2>2. CASE WorkerCompleted
    <3>1. /\ \/ worker.pc = "complete" /\ worker'.pc = "final"
             \/ worker.pc = "exceptEvent" /\ worker'.pc = "exceptSave"
          /\ worker'.verdict = worker.verdict /\ worker'.snap = worker.snap
      BY <1>1, <2>2 DEF WorkerCompleted, Run, WorkerState
    <3> QED
      BY <1>1, <1>3, <1>4, <3>1 DEF AtWork, Working, Ending
  <2>3. CASE WorkerExcept /\ e.status \in Terminal
    <3>1. worker'.pc = "cleanup"
      BY <1>1, <2>3 DEF WorkerExcept, Run, WorkerState
    <3> QED
      BY <3>1, WorkerAway DEF Working, Ending
  <2>4. CASE WorkerExcept /\ e.status \notin Terminal
    <3>1. /\ worker'.pc = "exceptEvent"
          /\ worker'.snap = [e EXCEPT !.status = "failed", !.error = "internal"]
      BY <1>1, <2>4 DEF WorkerExcept, WorkerState
    <3>2. worker'.snap.started = e.started /\ worker'.snap.error = "internal"
      BY <1>2, <3>1 DEF Execution
    <3> QED
      BY <1>1, <1>3, <3>1, <3>2 DEF AtWork, Working, Ending
  <2> QED
    BY <2>1, <2>2, <2>3, <2>4
<1>6. Healthy'
  BY <1>1, <1>3, StaysHealthy
<1>7. worker'.pc \notin {"check", "start"} /\ worker.pc \notin {"none", "take"}
  BY <1>1, <1>3
<1> QED
  BY <1>1, <1>3, <1>5, <1>6, <1>7, WorkerOnly

\* A fault takes the worker to a failed run, to its handler or out of the loop.
LEMMA FaultKeeps ==
  ASSUME TypeOK, WorkInv, [Next]_vars, WorkerFault
  PROVE  WorkInv'
<1>1. /\ worker \in WorkerState /\ budget \in Budget /\ MaxFaults \in Nat
      /\ UNCHANGED <<exec, report, acted, items, queue, flags, lock, client>>
      /\ worker.pc \notin {"none", "take"}
  BY WorkerTyped, BoundAssumption DEF WorkerFault, durable, executor, TypeOK
<1>2. Faulty'
  BY <1>1 DEF WorkerFault, Fault, Spend, Budget, Faulty
<1>3. Healthy'
  BY <1>2 DEF Healthy
<1>4. \/ worker' = NoThread
      \/ worker'.task = worker.task /\ worker'.pc \in {"except", "dying"}
      \/ /\ worker'.task = worker.task /\ worker'.pc = "report"
         /\ worker.pc \in {"round", "engaged", "waking", "woken"}
  BY <1>1 DEF WorkerFault, Run, Conclude, WorkerState
<1>5. /\ worker'.task = worker.task \/ worker'.task = None
      /\ worker'.pc \notin {"check", "start"}
  BY <1>4 DEF NoThread, Waiting
<1>6. AtWork'
  <2>1. CASE worker' = NoThread \/ worker'.pc \in {"except", "dying"}
    BY <2>1, ThreadType, WorkerAway DEF Working, Ending
  <2>2. CASE /\ worker'.task = worker.task /\ worker'.pc = "report"
             /\ worker.pc \in {"round", "engaged", "waking", "woken"}
    BY <1>1, <2>2, AtWorkMoves DEF Working
  <2> QED
    BY <1>4, <2>1, <2>2
<1> QED
  BY <1>1, <1>3, <1>5, <1>6, WorkerOnly

\* The worker writes the row of its task under the lock.
LEMMA WorkRowKeeps ==
  ASSUME TypeOK, WorkInv, [Next]_vars, NEW t \in Tasks, t = worker.task,
         lock = None, report[t] = "none", exec[t].status \in Live,
         NEW e \in Execution, exec' = [exec EXCEPT ![t] = e],
         e.started, e.status \in Live \ {"queued"},
         e.error = exec[t].error, e.result = exec[t].result,
         e.status = "cancelling" => t \in flags.cancel,
         UNCHANGED <<report, acted, items, queue, flags, lock, client>>,
         worker'.task = t, worker'.pc \in Working,
         worker'.pc \in {"started", "prepare", "round", "woken", "act"} => e.status # "paused"
  PROVE  WorkInv'
<1>1. exec'[t] = e /\ \A u \in Tasks \ {t} : exec'[u] = exec[u]
  BY WorkerTyped
<1>2. Rows /\ Healthy /\ (Faulty => Faulty')
  BY FaultStays DEF WorkInv
<1>3. exec[t].error = "none" /\ ~exec[t].result /\ exec[t].status \notin Terminal
  BY <1>2 DEF Rows, Row, Live, Terminal
<1>4. e.status \notin Terminal \cup {"absent", "queued"}
  BY DEF Live, Terminal
<1>5. Row(t)'
  BY <1>1, <1>3, <1>4 DEF Row
<1>6. worker'.pc \notin {"check", "start"}
  BY DEF Working
<1>7. Owners' /\ Single' /\ Registered' /\ Unstarted' /\ Rows' /\ Fresh' /\ Cancelled'
  BY <1>1, <1>5, <1>6, WorkerMoves
<1>8. AtWork'
  BY <1>1 DEF AtWork, Working, Ending
<1>9. Healthy'
  <2> SUFFICES ASSUME ~Faulty' PROVE /\ worker'.pc \notin Broken
                                     /\ ReportAgrees'
                                     /\ \A u \in Tasks : PausedFlagged(u)'
    BY DEF Healthy
  <2>1. /\ ReportAgrees
        /\ \A u \in Tasks : PausedFlagged(u)
    BY <1>2 DEF Healthy
  <2>2. worker'.pc \notin Broken
    BY DEF Working, Broken
  <2>3. ReportAgrees'
    BY <1>1, <1>4, <2>1 DEF ReportAgrees, IsTerminal
  <2>4. ASSUME NEW u \in Tasks PROVE PausedFlagged(u)'
    BY <1>1, <2>1 DEF PausedFlagged
  <2> QED
    BY <2>2, <2>3, <2>4
<1> QED
  BY <1>7, <1>8, <1>9 DEF WorkInv

\* An item whose task was reported while it waited is discarded.
LEMMA StartKeeps ==
  ASSUME TypeOK, WorkInv, [Next]_vars, WorkerStart
  PROVE  WorkInv'
<1> DEFINE t == worker.task
           e == [exec[t] EXCEPT !.status = "running", !.started = TRUE]
<1>1. /\ worker \in WorkerState /\ worker.pc = "start" /\ t \in Tasks
      /\ exec[t] \in Execution /\ lock = None
      /\ UNCHANGED <<report, acted, items, queue, flags, lock, client>>
  BY WorkerTyped DEF WorkerStart, WorkerAt, Unlocked, history, executor
<1>2. CASE Discards(t)
  <2>1. worker'.task = t /\ worker'.pc = "cleanup" /\ UNCHANGED exec
    BY <1>1, <1>2 DEF WorkerStart, Run, WorkerState
  <2>2. AtWork'
    BY <2>1, WorkerAway DEF Working, Ending
  <2>3. Healthy'
    BY <1>1, <2>1, StaysHealthy DEF Broken
  <2> QED
    BY <1>1, <2>1, <2>2, <2>3, WorkerOnly
<1>3. CASE ~Discards(t)
  <2>1. worker'.task = t /\ worker'.pc = "started" /\ Save(t, e)
    BY <1>1, <1>3 DEF WorkerStart, Run, WorkerState
  <2>2. WaitingRow(t)
    BY <1>1 DEF WorkInv, Unstarted, Waits, InHand
  <2>3. report[t] = "none" /\ exec[t].status \in Live
    BY <1>3, <2>2 DEF WaitingRow, Discards, IsTerminal, Live
  <2>4. exec' = [exec EXCEPT ![t] = e]
    BY <2>1, <2>3 DEF Save, CanSave, Live, Terminal
  <2>5. /\ e \in Execution /\ e.started /\ e.status = "running"
        /\ e.error = exec[t].error /\ e.result = exec[t].result
    BY <1>1 DEF Execution, Live
  <2>6. worker'.pc \in Working
    BY <2>1 DEF Working
  <2> HIDE DEF e, t
  <2> QED
    BY <1>1, <2>1, <2>3, <2>4, <2>5, <2>6, WorkRowKeeps DEF Live, t
<1> QED
  BY <1>2, <1>3

\* The locked sections of a run.
LEMMA RunSectionsKeep ==
  ASSUME TypeOK, WorkInv, [Next]_vars, WorkerBind \/ WorkerProbe \/ WorkerDisengage
  PROVE  WorkInv'
<1> DEFINE t == worker.task
           r == exec[t]
<1>1. /\ worker \in WorkerState /\ worker.pc \in {"prepare", "round", "waking"}
      /\ worker.pc \in Working /\ t \in Tasks
      /\ r \in Execution /\ lock = None
      /\ UNCHANGED <<report, acted, items, queue, flags, lock, client>>
  BY WorkerTyped
  DEF WorkerBind, WorkerProbe, WorkerDisengage, WorkerAt, Unlocked, history, executor, Working
<1>2. /\ r.status \in Live /\ r.started /\ report[t] = "none"
      /\ r.status = "cancelling" => t \in flags.cancel
      /\ worker.pc \in {"prepare", "round"} => r.status # "paused"
  BY <1>1 DEF WorkInv, AtWork
<1>3. r.status # "queued" /\ r.status \notin Terminal
  BY <1>2, <1>1 DEF WorkInv, Rows, Row, Live, Terminal
\* Either the row is left alone, or it is saved with a status of a task at work.
<1>4. ASSUME UNCHANGED exec, worker'.task = t, worker'.pc \in {"woken", "act", "report"},
             worker'.pc \in {"woken", "act"} => r.status # "paused"
      PROVE  WorkInv'
  <2>1. worker'.pc \in Working /\ worker'.pc \notin Broken \cup {"check", "start"}
    BY <1>4 DEF Working, Broken
  <2>2. AtWork'
    BY <1>1, <1>4, <2>1, AtWorkMoves
  <2>3. Healthy'
    BY <1>1, <1>4, <2>1, StaysHealthy
  <2> QED
    BY <1>1, <1>4, <2>1, <2>2, <2>3, WorkerOnly
<1>5. ASSUME NEW e \in Execution, Save(t, e), worker'.task = t,
             e.started, e.error = r.error, e.result = r.result,
             \/ worker'.pc = "round" /\ e.status = r.status
             \/ worker'.pc = "engaged" /\ e.status = "paused"
             \/ worker'.pc = "woken" /\ e.status = "running"
      PROVE  WorkInv'
  <2>1. exec' = [exec EXCEPT ![t] = e]
    BY <1>3, <1>5 DEF Save, CanSave
  <2>2. worker'.pc \in Working /\ e.status \in Live \ {"queued"}
    BY <1>2, <1>3, <1>5 DEF Working, Live
  <2>3. e.status = "cancelling" => t \in flags.cancel
    BY <1>2, <1>5
  <2>4. worker'.pc \in {"started", "prepare", "round", "woken", "act"} => e.status # "paused"
    <3>1. worker'.pc = "round" => r.status # "paused"
      BY <1>1, <1>2, <1>5 DEF WorkerBind, WorkerProbe, WorkerDisengage, WorkerAt, Run,
        Boundary, Conclude, WorkerState
    <3> QED
      BY <1>5, <3>1
  <2> HIDE DEF t
  <2> QED
    BY <1>1, <1>2, <1>5, <2>1, <2>2, <2>3, <2>4, WorkRowKeeps DEF t
<1>6. CASE WorkerBind
  <2> DEFINE e == [r EXCEPT !.bound = TRUE]
  <2>1. /\ e \in Execution /\ e.started /\ e.error = r.error /\ e.result = r.result
        /\ e.status = r.status
    BY <1>1, <1>2 DEF Execution
  <2>2. r.status \in {"running", "cancelling"}
    BY <1>2, <1>3, <1>6 DEF Live, WorkerBind, WorkerAt
  <2>3. Save(t, e) /\ worker'.task = t /\ worker'.pc = "round"
    BY <1>1, <1>6, <2>2 DEF WorkerBind, Run, WorkerState
  <2> HIDE DEF e
  <2> QED
    BY <1>5, <2>1, <2>3
<1>7. CASE WorkerProbe
  <2> DEFINE e == [r EXCEPT !.status = "paused"]
  <2>1. /\ e \in Execution /\ e.started /\ e.error = r.error /\ e.result = r.result
        /\ e.status = "paused"
    BY <1>1, <1>2 DEF Execution, Live
  <2>2. \/ Save(t, e) /\ worker'.task = t /\ worker'.pc = "engaged"
        \/ Boundary(t) /\ UNCHANGED exec
    BY <1>1, <1>7 DEF WorkerProbe, Run, WorkerState
  <2> HIDE DEF e
  <2>3. r.status # "paused"
    BY <1>2, <1>7 DEF WorkerProbe, WorkerAt
  <2> QED
    BY <1>4, <1>5, <2>1, <2>2, <2>3, BoundaryMoves
<1>8. CASE WorkerDisengage
  <2> DEFINE e == [r EXCEPT !.status = "running", !.pauseReq = FALSE]
  <2>1. /\ e \in Execution /\ e.started /\ e.error = r.error /\ e.result = r.result
        /\ e.status = "running"
    BY <1>1, <1>2 DEF Execution, Live
  <2>2. /\ worker'.task = t /\ worker'.pc = "woken"
        /\ Save(t, e) \/ (UNCHANGED exec /\ r.status # "paused")
    BY <1>1, <1>8 DEF WorkerDisengage, Run, WorkerState
  <2> HIDE DEF e
  <2> QED
    BY <1>4, <1>5, <2>1, <2>2
<1> QED
  BY <1>6, <1>7, <1>8

LEMMA ReportKeeps ==
  ASSUME TypeOK, WorkInv, [Next]_vars, WorkerReport
  PROVE  WorkInv'
<1>a. worker.task \in Tasks
  BY WorkerTyped DEF WorkerReport, WorkerAt
<1>b. PICK t \in Tasks : t = worker.task
  BY <1>a
<1>1. /\ worker \in WorkerState /\ worker.pc = "report" /\ worker.pc \in Working
      /\ report \in [Tasks -> Terminal \cup {"none"}]
      /\ UNCHANGED <<exec, acted, items, queue, flags, lock, client>>
  BY WorkerTyped DEF WorkerReport, WorkerAt, executor, Working
<1>2. exec[t].status \in Live /\ exec[t].started /\ report[t] = "none" /\ Rows
  BY <1>b, <1>1 DEF WorkInv, AtWork
<1>3. /\ report' = [report EXCEPT ![t] = worker.verdict]
      /\ worker'.task = t /\ worker'.pc = "read" /\ worker'.verdict = worker.verdict
  BY <1>b, <1>1, <1>2 DEF WorkerReport, Run, WorkerState
<1>4. report'[t] = worker.verdict /\ \A u \in Tasks \ {t} : report'[u] = report[u]
  BY <1>1, <1>3
<1>5. exec[t].status \notin Terminal \cup {"absent"}
  BY <1>2 DEF Live, Terminal
<1>6. Row(t)'
  BY <1>1, <1>2, <1>5 DEF Rows, Row
<1>7. Owners' /\ Single' /\ Registered' /\ Unstarted' /\ Rows' /\ Fresh' /\ Cancelled'
  BY <1>b, <1>1, <1>3, <1>4, <1>6, WorkerMoves
<1>8. AtWork'
  BY <1>1, <1>2, <1>3, <1>4 DEF AtWork, Working, Ending
<1>9. Healthy'
  <2>1. (Faulty => Faulty') /\ Healthy
    BY FaultStays DEF WorkInv
  <2>2. \A u \in Tasks : IsTerminal(u) => report'[u] = report[u] \/ Faulty'
    BY <1>4, <1>5 DEF IsTerminal
  <2>3. \A u \in Tasks : PausedFlagged(u) => PausedFlagged(u)'
    BY <1>1 DEF PausedFlagged
  <2>4. worker'.pc \notin Broken
    BY <1>3 DEF Broken
  <2> QED
    BY <1>1, <2>1, <2>2, <2>3, <2>4, HealthyKept
<1> QED
  BY <1>7, <1>8, <1>9 DEF WorkInv

\* The last save of a run says what the report says; the handler's last save
\* says nothing of the report, but storage has failed by then.
LEMMA SaveKeeps ==
  ASSUME TypeOK, WorkInv, [Next]_vars, WorkerSave
  PROVE  WorkInv'
<1>a. worker.task \in Tasks
  BY WorkerTyped DEF WorkerSave
<1>b. PICK t \in Tasks : t = worker.task
  BY <1>a
<1> DEFINE e == worker.snap
<1>1. /\ worker \in WorkerState /\ worker.pc \in {"final", "exceptSave"}
      /\ e \in Execution /\ e.status \in Terminal
      /\ exec \in [Tasks -> Execution]
      /\ UNCHANGED <<report, acted, items, queue, flags, lock, client>>
  BY WorkerTyped DEF WorkerSave, history, executor, TypeOK, WorkerType, WorkerState
<1>2. /\ Faulty => Faulty'
      /\ AtWork /\ Rows /\ Healthy /\ Row(t)
  BY <1>1, FaultStays DEF WorkInv, Rows
<1>3. /\ e.started = exec[t].started
      /\ worker.pc = "final" => /\ exec[t].status \in Live
                                /\ report[t] = e.status /\ e.result
                                /\ e.error = ErrorOf(e.status)
      /\ worker.pc = "exceptSave" => e.error = "internal" /\ Faulty'
  BY <1>b, <1>1, <1>2 DEF AtWork, Ending, Healthy, Broken
<1>4. CASE ~CanSave(t, e)
  <2>1. worker'.task = t /\ worker'.pc \in {"except", "dying"} /\ UNCHANGED exec
    BY <1>b, <1>1, <1>4 DEF WorkerSave, Run, WorkerState
  <2>2. worker.pc = "exceptSave"
    BY <1>1, <1>3, <1>4 DEF CanSave, Live, Terminal
  <2>3. AtWork'
    BY <2>1, WorkerAway DEF Working, Ending
  <2>4. Healthy'
    BY <1>3, <2>2 DEF Healthy
  <2> QED
    BY <1>b, <1>1, <2>1, <2>3, <2>4, WorkerOnly
<1>5. CASE CanSave(t, e)
  <2>1. /\ worker'.task = t /\ worker'.pc = "cleanup"
        /\ exec' = [exec EXCEPT ![t] = e]
    BY <1>b, <1>1, <1>5 DEF WorkerSave, Run, WorkerState, Save
  <2>2. exec'[t] = e /\ \A u \in Tasks \ {t} : exec'[u] = exec[u]
    BY <1>1, <2>1
  <2>3. Row(t)'
    <3>1. e.status \notin {"absent", "queued", "running", "cancelling"}
      BY <1>1 DEF Terminal
    <3>2. e.error # "interrupted_known"
      BY <1>1, <1>3 DEF ErrorOf
    <3> QED
      BY <1>1, <1>2, <1>3, <2>2, <3>1, <3>2 DEF Row
  <2>4. IsTerminal(t)' /\ (Faulty' \/ report'[t] # "none") /\ exec'[t].started = exec[t].started
    BY <1>1, <1>3, <2>2 DEF IsTerminal, Terminal
  <2>5. Owners' /\ Single' /\ Registered' /\ Unstarted' /\ Rows' /\ Fresh' /\ Cancelled'
    BY <1>b, <1>1, <2>1, <2>2, <2>3, <2>4, WorkerMoves
  <2>6. AtWork'
    BY <2>1, WorkerAway DEF Working, Ending
  <2>7. Healthy'
    <3> SUFFICES ASSUME ~Faulty' PROVE /\ worker'.pc \notin Broken
                                       /\ ReportAgrees'
                                       /\ \A u \in Tasks : PausedFlagged(u)'
      BY DEF Healthy
    <3>1. /\ ReportAgrees
          /\ \A u \in Tasks : PausedFlagged(u)
      BY <1>2 DEF Healthy
    <3>2. /\ exec'[t].result /\ report'[t] # "none" /\ exec'[t].status = report'[t]
          /\ exec'[t].error = ErrorOf(report'[t])
      BY <1>1, <1>3, <2>2 DEF Terminal
    <3>3. ReportAgrees'
      BY <1>1, <2>2, <3>1, <3>2 DEF ReportAgrees, IsTerminal
    <3>4. \A u \in Tasks : PausedFlagged(u)'
      BY <1>1, <2>2, <3>1 DEF PausedFlagged, Terminal
    <3>5. worker'.pc \notin Broken
      BY <2>1 DEF Broken
    <3> QED
      BY <3>3, <3>4, <3>5
  <2> QED
    BY <2>5, <2>6, <2>7 DEF WorkInv
<1> QED
  BY <1>4, <1>5

\* Steps that only move the item.
LEMMA RowsLeftAlone ==
  ASSUME TypeOK, WorkInv, [Next]_vars, UNCHANGED <<exec, report, acted, lock, client>>
  PROVE  Owners' /\ Rows' /\ Fresh' /\ Cancelled'
<1>1. /\ ReportsStay /\ (Faulty => Faulty')
      /\ \A c \in Clients : client[c].pc # "idle" => client[c].task \in Tasks
      /\ Owners /\ Rows /\ Fresh /\ Cancelled
  BY WorkerTyped, ReportsStayed, FaultStays DEF WorkInv
<1>2. Owners'
  BY <1>1, OwnersKept
<1>3. Rows'
  BY <1>1, RowsKept
<1>4. \A c \in Clients : client'[c].pc \in Locked =>
        client'[c] = client[c] /\ client[c].task \in Tasks
  BY <1>1 DEF Locked
<1>5. Fresh'
  BY <1>1, <1>4, FreshKept
<1>6. \A c \in Clients : Cancels(c)' =>
        /\ Cancels(c) /\ client[c].task \in Tasks
        /\ client'[c].task = client[c].task /\ client'[c].snap = client[c].snap
  BY <1>1 DEF Cancels
<1>7. Cancelled'
  BY <1>1, <1>6, CancelledKept
<1> QED
  BY <1>2, <1>3, <1>5, <1>7

\* The queue without its head.
LEMMA Taken ==
  ASSUME queue \in Seq(Tasks), queue # <<>>, queue' = Tail(queue),
         NEW h, h = Head(queue)
  PROVE  /\ h \in Tasks /\ InQueue(h)
         /\ \A u : InQueue(u)' => InQueue(u)
         /\ (\A i, j \in DOMAIN queue : queue[i] = queue[j] => i = j) =>
              /\ ~InQueue(h)'
              /\ \A i, j \in DOMAIN queue' : queue'[i] = queue'[j] => i = j
<1>1. /\ Len(queue) \in Nat /\ Len(queue) > 0 /\ DOMAIN queue = 1..Len(queue)
      /\ DOMAIN queue' = 1..(Len(queue) - 1)
      /\ \A i \in 1..(Len(queue) - 1) : queue'[i] = queue[i + 1]
      /\ h = queue[1] /\ queue[1] \in Tasks
  OBVIOUS
<1>2. \A i \in DOMAIN queue' : i + 1 \in DOMAIN queue /\ i + 1 # 1 /\ queue'[i] = queue[i + 1]
  BY <1>1
<1>3. 1 \in DOMAIN queue
  BY <1>1
<1>4. InQueue(h) /\ \A u : InQueue(u)' => InQueue(u)
  BY <1>1, <1>2, <1>3 DEF InQueue
<1>5. ASSUME \A i, j \in DOMAIN queue : queue[i] = queue[j] => i = j
      PROVE  /\ ~InQueue(h)'
             /\ \A i, j \in DOMAIN queue' : queue'[i] = queue'[j] => i = j
  <2>1. \A i \in DOMAIN queue' : queue'[i] # queue[1]
    BY <1>2, <1>3, <1>5
  <2>2. ASSUME NEW i \in DOMAIN queue', NEW j \in DOMAIN queue', queue'[i] = queue'[j]
        PROVE  i = j
    <3>1. i + 1 = j + 1
      BY <1>2, <1>5, <2>2
    <3> QED
      BY <1>1, <3>1
  <2>3. ~InQueue(h)'
    <3> SUFFICES ASSUME NEW i \in DOMAIN queue', queue'[i] = h PROVE FALSE
      BY DEF InQueue
    <3> QED
      BY <1>1, <2>1
  <2> QED
    BY <2>2, <2>3
<1> QED
  BY <1>1, <1>4, <1>5

LEMMA GetKeeps ==
  ASSUME TypeOK, WorkInv, [Next]_vars, WorkerGet
  PROVE  WorkInv'
<1>1. /\ worker \in WorkerState /\ queue \in Seq(Tasks) /\ queue # <<>> /\ queue' = Tail(queue)
      /\ UNCHANGED <<exec, report, acted, items, flags, lock, client>>
  BY WorkerTyped DEF WorkerGet, durable, TypeOK, ExecutorType
<1>2. PICK h : h = Head(queue)
  OBVIOUS
<1>3. worker'.task = h /\ worker'.pc = "check"
  BY <1>1, <1>2 DEF WorkerGet, WorkerState
<1>4. Single /\ Registered /\ Unstarted
  BY DEF WorkInv
<1>5. /\ h \in Tasks /\ InQueue(h) /\ ~InQueue(h)'
      /\ \A u \in Tasks : InQueue(u)' => InQueue(u)
      /\ \A i, j \in DOMAIN queue' : queue'[i] = queue'[j] => i = j
  BY <1>1, <1>2, <1>4, Taken DEF Single
<1>6. \A c \in Clients, u \in Tasks : Submitting(c, u)' <=> Submitting(c, u)
  BY <1>1 DEF Submitting
<1>7. Single'
  <2>1. \A u \in Tasks : InQueue(u)' => worker'.task # u /\ u \notin flags'.parked
    BY <1>1, <1>3, <1>4, <1>5 DEF Single
  <2>2. worker'.task \notin flags'.parked
    BY <1>1, <1>3, <1>4, <1>5 DEF Single
  <2>3. \A c \in Clients, u \in Tasks : Submitting(c, u)' =>
          worker'.task # u /\ ~InQueue(u)' /\ u \notin flags'.parked
    BY <1>1, <1>3, <1>4, <1>5, <1>6 DEF Single
  <2>4. \A c, d \in Clients, u \in Tasks : Submitting(c, u)' /\ Submitting(d, u)' => c = d
    BY <1>4, <1>6 DEF Single
  <2> QED
    BY <1>5, <2>1, <2>2, <2>3, <2>4 DEF Single
<1>8. Registered'
  BY <1>1, <1>3, <1>4, <1>5, <1>6 DEF Registered
<1>9. Unstarted'
  <2>1. \A u \in Tasks : Waits(u)' => Waits(u)
    BY <1>3, <1>5, <1>6 DEF Waits, InHand
  <2> QED
    BY <1>1, <1>4, <2>1, WorkerTyped, UnstartedKept
<1>10. Owners' /\ Rows' /\ Fresh' /\ Cancelled'
  BY <1>1, RowsLeftAlone
<1>11. AtWork'
  BY <1>3, WorkerAway DEF Working, Ending
<1>12. Healthy'
  BY <1>1, <1>3, StaysHealthy DEF Broken
<1> QED
  BY <1>7, <1>8, <1>9, <1>10, <1>11, <1>12 DEF WorkInv

LEMMA CheckKeeps ==
  ASSUME TypeOK, WorkInv, [Next]_vars, WorkerCheck
  PROVE  WorkInv'
<1>a. worker.task \in Tasks /\ worker.pc = "check"
  BY WorkerTyped DEF WorkerCheck, WorkerAt
<1>b. PICK t \in Tasks : t = worker.task
  BY <1>a
<1>1. /\ worker \in WorkerState /\ flags \in Flags /\ flags.parked \subseteq Tasks
      /\ UNCHANGED <<exec, report, acted, items, queue, lock, client>>
  BY WorkerTyped DEF WorkerCheck, durable
<1>2. Single /\ Registered /\ Unstarted /\ Healthy
  BY DEF WorkInv
<1>3. \A c \in Clients, u \in Tasks : Submitting(c, u)' <=> Submitting(c, u)
  BY <1>1 DEF Submitting
<1>4. \A u \in Tasks : InQueue(u)' <=> InQueue(u)
  BY <1>1 DEF InQueue
<1>5. Owners' /\ Rows' /\ Fresh' /\ Cancelled'
  BY <1>1, RowsLeftAlone
<1>6. CASE Skips(t)
  <2>1. /\ flags'.cancel = flags.cancel /\ flags'.pause = flags.pause
        /\ flags'.parked = flags.parked \cup {t}
        /\ worker' = Waiting /\ worker'.task = None /\ worker'.pc = "take"
    BY <1>b, <1>1, <1>6 DEF WorkerCheck, Flags, Waiting
  <2>2. WaitingRow(t)
    BY <1>a, <1>b, <1>2 DEF Unstarted, Waits, InHand
  <2>3. Single'
    <3>1. \A u \in Tasks : InQueue(u)' => worker'.task # u /\ u \notin flags'.parked
      BY <1>b, <1>2, <1>4, <2>1, NoneAssumption DEF Single
    <3>2. worker'.task \notin flags'.parked
      BY <1>1, <2>1, NoneAssumption
    <3>3. \A c \in Clients, u \in Tasks : Submitting(c, u)' =>
            worker'.task # u /\ ~InQueue(u)' /\ u \notin flags'.parked
      BY <1>b, <1>2, <1>3, <1>4, <2>1, NoneAssumption DEF Single
    <3> QED
      BY <1>1, <1>2, <1>3, <3>1, <3>2, <3>3 DEF Single
  <2>4. Registered'
    BY <1>b, <1>1, <1>2, <1>3, <1>4, <2>1, NoneAssumption DEF Registered
  <2>5. Unstarted'
    <3>1. ASSUME NEW u \in Tasks, Waits(u)' PROVE WaitingRow(u)'
      <4>1. Waits(u)
        BY <1>3, <1>4, <2>1, <3>1 DEF Waits, InHand
      <4> QED
        BY <1>1, <1>2, <2>1, <4>1 DEF Unstarted, WaitingRow, IsTerminal
    <3>2. ASSUME NEW u \in flags'.parked PROVE ParkedRow(u)'
      <4>1. ParkedRow(t)
        BY <1>6, <2>2 DEF Skips, WaitingRow, ParkedRow
      <4> QED
        BY <1>1, <1>2, <2>1, <3>2, <4>1 DEF Unstarted, ParkedRow
    <3> QED
      BY <3>1, <3>2 DEF Unstarted
  <2>6. AtWork'
    BY <2>1, WorkerAway DEF Working, Ending
  <2>7. Healthy'
    <3>1. \A u \in Tasks : PausedFlagged(u) => PausedFlagged(u)'
      BY <1>1, <2>1 DEF PausedFlagged
    <3>2. worker'.pc \notin Broken
      BY <2>1 DEF Broken
    <3> QED
      BY <1>1, <1>2, <3>1, <3>2, FaultStays, HealthyKept
  <2> QED
    BY <1>5, <2>3, <2>4, <2>5, <2>6, <2>7 DEF WorkInv
<1>7. CASE ~Skips(t)
  <2>1. worker'.task = worker.task /\ worker'.pc = "start" /\ flags' = flags
    BY <1>b, <1>1, <1>7 DEF WorkerCheck, Run, WorkerState
  <2>2. Single' /\ Registered'
    BY <1>1, <1>2, <1>3, <2>1, PlacesKept
  <2>3. Unstarted'
    <3>1. \A u \in Tasks : Waits(u)' => Waits(u)
      BY <1>a, <1>1, <1>3, <2>1, WaitsKept
    <3> QED
      BY <1>1, <1>2, <2>1, <3>1, UnstartedKept
  <2>4. AtWork'
    BY <2>1, WorkerAway DEF Working, Ending
  <2>5. Healthy'
    BY <1>1, <2>1, StaysHealthy DEF Broken
  <2> QED
    BY <1>5, <2>2, <2>3, <2>4, <2>5 DEF WorkInv
<1> QED
  BY <1>6, <1>7

LEMMA CleanupKeeps ==
  ASSUME TypeOK, WorkInv, [Next]_vars, WorkerCleanup
  PROVE  WorkInv'
<1>a. worker.task \in Tasks
  BY WorkerTyped DEF WorkerCleanup
<1>b. PICK t \in Tasks : t = worker.task
  BY <1>a
<1>1. /\ worker \in WorkerState /\ flags \in Flags /\ flags.parked \subseteq Tasks
      /\ worker.pc \in {"cleanup", "dying"}
      /\ items' = items \ {t} /\ flags' = Forget(t)
      /\ worker' = IF worker.pc = "cleanup" THEN Waiting ELSE NoThread
      /\ UNCHANGED <<exec, report, acted, queue, lock, client>>
  BY <1>b, WorkerTyped DEF WorkerCleanup, durable
<1>2. /\ flags'.cancel = flags.cancel \ {t} /\ flags'.pause = flags.pause \ {t}
      /\ flags'.parked = flags.parked \ {t}
      /\ worker'.task = None /\ worker'.pc \in {"take", "none"}
  BY <1>1 DEF Forget, Flags, Waiting, NoThread
<1>3. Single /\ Registered /\ Unstarted /\ Healthy
  BY DEF WorkInv
<1>4. \A c \in Clients, u \in Tasks : Submitting(c, u)' <=> Submitting(c, u)
  BY <1>1 DEF Submitting
<1>5. \A u \in Tasks : InQueue(u)' <=> InQueue(u)
  BY <1>1 DEF InQueue
<1>6. Owners' /\ Rows' /\ Fresh' /\ Cancelled'
  BY <1>1, RowsLeftAlone
<1>7. Single'
  <2>1. \A u \in Tasks : InQueue(u)' => worker'.task # u /\ u \notin flags'.parked
    BY <1>2, <1>3, <1>5, NoneAssumption DEF Single
  <2>2. worker'.task \notin flags'.parked
    BY <1>1, <1>2, NoneAssumption
  <2>3. \A c \in Clients, u \in Tasks : Submitting(c, u)' =>
          worker'.task # u /\ ~InQueue(u)' /\ u \notin flags'.parked
    BY <1>2, <1>3, <1>4, <1>5, NoneAssumption DEF Single
  <2> QED
    BY <1>1, <1>3, <1>4, <2>1, <2>2, <2>3 DEF Single
<1>8. \A u \in Tasks : Waits(u)' => Waits(u) /\ u # t
  BY <1>b, <1>2, <1>3, <1>4, <1>5 DEF Waits, InHand, Single
<1>9. Registered'
  <2>1. \A u \in Tasks : InQueue(u)' \/ worker'.task = u \/ u \in flags'.parked => u \in items'
    BY <1>b, <1>1, <1>2, <1>3, <1>5, NoneAssumption DEF Registered, Single
  <2>2. \A c \in Clients, u \in Tasks : Submitting(c, u)' => u \in items'
    BY <1>b, <1>1, <1>3, <1>4 DEF Registered, Single
  <2> QED
    BY <2>1, <2>2 DEF Registered
<1>10. Unstarted'
  BY <1>1, <1>2, <1>3, <1>8, UnstartedKept
<1>11. AtWork'
  BY <1>2, WorkerAway DEF Working, Ending
<1>12. Healthy'
  <2>1. \A u \in Tasks : PausedFlagged(u) => PausedFlagged(u)'
    BY <1>1, <1>2 DEF PausedFlagged
  <2>2. worker'.pc \notin Broken
    BY <1>2 DEF Broken
  <2> QED
    BY <1>1, <1>3, <2>1, <2>2, FaultStays, HealthyKept
<1> QED
  BY <1>6, <1>7, <1>9, <1>10, <1>11, <1>12 DEF WorkInv

LEMMA WorkerKeepsInv ==
  ASSUME TypeOK, WorkInv, [Next]_vars, Worker \/ WorkerFault \/ DeadlinePasses
  PROVE  WorkInv'
BY PlainStepsKeep, ActKeeps, WorkerReadKeeps, FaultKeeps, StartKeeps, RunSectionsKeep,
   ReportKeeps, SaveKeeps, GetKeeps, CheckKeeps, CleanupKeeps DEF Worker
-----------------------------------------------------------------------------
(* Crash and restart.                                                        *)

\* Nothing of the executor is left, not even a lock.
Gone == /\ items = {} /\ queue = <<>> /\ flags = NoFlags /\ lock = None
        /\ client = [c \in Clients |-> Idle] /\ worker = NoThread
Down == ~up => Gone

LEMMA StepKeepsDown == Down /\ [Next]_vars => Down'
<1> SUFFICES ASSUME Down, [Next]_vars PROVE Down'
  OBVIOUS
<1>1. ASSUME NEW c \in Clients, Client(c) PROVE up /\ up' = up
  BY <1>1
  DEF Client, Submit, SubmitCreate, SubmitEvent, SubmitEnsure, SubmitPut, Cancel, CancelRead,
      CancelQueued, CancelStarted, CancelEvent, CancelCompleted, CancelSave,
      Pause, PauseRead, PauseSave, PauseEvent, PausedEvent, Resume, ResumeRead,
      ResumeQueued, ResumeStarted, ResumedEvent, AppendEvent, Enter, executor
<1>2. CASE Worker
  BY <1>2
  DEF Worker, WorkerAt, WorkerGet, WorkerCheck, WorkerStart, WorkerStarted, WorkerBind,
      WorkerProbe, WorkerEngaged, WorkerWake, WorkerDisengage, WorkerResumed,
      WorkerAct, WorkerFinish, WorkerReport, WorkerRead, WorkerCompleted,
      WorkerSave, WorkerExcept, WorkerCleanup, executor, Down
<1>3. CASE WorkerFault \/ DeadlinePasses
  BY <1>3 DEF WorkerFault, DeadlinePasses, executor, Down
<1>4. CASE Crash
  BY <1>4 DEF Crash, Down, Gone
<1>5. CASE Recover
  BY <1>5 DEF Recover, Down
<1>6. CASE UNCHANGED vars
  BY <1>6 DEF vars, Down, Gone
<1> QED
  BY <1>1, <1>2, <1>3, <1>4, <1>5, <1>6 DEF Next, Down

\* Without calls, queue and worker only the rows and the reports are left.
LEMMA OnlyRowsLeft ==
  ASSUME Gone', Rows', ~Faulty' => ReportAgrees'
  PROVE  WorkInv'
<1>1. \A c \in Clients : client'[c] = Idle /\ client'[c].pc = "idle"
  BY DEF Gone, Idle
<1>2. /\ items' = {} /\ queue' = <<>> /\ lock' = None
      /\ flags'.parked = {} /\ worker'.task = None /\ worker'.pc = "none"
  BY DEF Gone, NoFlags, NoThread, Waiting
<1>3. Owners'
  BY <1>1, <1>2, NoneAssumption DEF Owners, Locked
<1>4. \A t \in Tasks : ~InQueue(t)' /\ ~InHand(t)' /\ \A c \in Clients : ~Submitting(c, t)'
  BY <1>1, <1>2 DEF InQueue, InHand, Submitting, Submits
<1>5. Single' /\ Registered'
  BY <1>2, <1>4, NoneAssumption DEF Single, Registered
<1>6. Unstarted'
  BY <1>2, <1>4 DEF Unstarted, Waits
<1>7. Fresh' /\ Cancelled'
  BY <1>1 DEF Fresh, Cancelled, Cancels, Locked
<1>8. AtWork'
  BY <1>2, WorkerAway DEF Working, Ending
<1>9. Healthy'
  BY <1>2 DEF Healthy, Broken, PausedFlagged
<1> QED
  BY <1>3, <1>5, <1>6, <1>7, <1>8, <1>9 DEF WorkInv

LEMMA InitWorkInv == Init => WorkInv /\ Down
<1> SUFFICES ASSUME Init PROVE WorkInv /\ Down
  OBVIOUS
<1>1. \A c \in Clients : client[c] = Idle /\ client[c].pc = "idle"
  BY DEF Init, Idle
<1>2. /\ items = {} /\ queue = <<>> /\ lock = None /\ up
      /\ flags.parked = {} /\ worker.task = None /\ worker.pc = "none"
  BY DEF Init, NoFlags, NoThread, Waiting
<1>3. Owners
  BY <1>1, <1>2, NoneAssumption DEF Owners, Locked
<1>4. \A t \in Tasks : ~InQueue(t) /\ ~InHand(t) /\ \A c \in Clients : ~Submitting(c, t)
  BY <1>1, <1>2 DEF InQueue, InHand, Submitting, Submits
<1>5. Single /\ Registered
  BY <1>2, <1>4, NoneAssumption DEF Single, Registered
<1>6. Unstarted
  BY <1>2, <1>4 DEF Unstarted, Waits
<1>7. Fresh /\ Cancelled
  BY <1>1 DEF Fresh, Cancelled, Cancels, Locked
<1>8. AtWork
  BY <1>2 DEF AtWork, Working, Ending
<1>9. Healthy /\ Rows
  BY <1>2 DEF Init, Healthy, Broken, PausedFlagged, ReportAgrees, IsTerminal, Terminal,
              Rows, Row, Absent
<1> QED
  BY <1>2, <1>3, <1>5, <1>6, <1>7, <1>8, <1>9 DEF WorkInv, Down

LEMMA CrashKeepsInv ==
  ASSUME TypeOK, WorkInv, [Next]_vars, Crash
  PROVE  WorkInv'
<1>1. UNCHANGED <<exec, report, acted>> /\ Gone'
  BY DEF Crash, durable, Gone
<1>2. (Faulty => Faulty') /\ Rows /\ Healthy
  BY FaultStays DEF WorkInv
<1>3. Rows'
  BY <1>1, <1>2, RowsKept
<1>4. ~Faulty' => ReportAgrees'
  BY <1>1, <1>2 DEF Healthy, ReportAgrees, IsTerminal
<1> QED
  BY <1>1, <1>3, <1>4, OnlyRowsLeft

\* Recovery closes every live row on its report, or on an interruption.
LEMMA RecoverKeepsInv ==
  ASSUME TypeOK, WorkInv, Down, [Next]_vars, Recover
  PROVE  WorkInv'
<1>1. Gone' /\ UNCHANGED <<report, acted>>
  BY DEF Recover, Down, Gone
<1>2. /\ (Faulty => Faulty') /\ Rows /\ Healthy
      /\ exec \in [Tasks -> Execution] /\ report \in [Tasks -> Terminal \cup {"none"}]
  BY FaultStays, WorkerTyped DEF WorkInv
<1>3. \A t \in Tasks : exec'[t] = IF exec[t].status \in Live THEN Recovered(t) ELSE exec[t]
  BY DEF Recover
<1>4. ASSUME NEW t \in Tasks, exec[t].status \in Live
      PROVE  /\ exec'[t].status \in Terminal /\ exec'[t].started = exec[t].started
             /\ exec'[t].error = "interrupted_known" =>
                  exec[t].status = "queued"
             /\ exec'[t].result <=> report[t] # "none"
             /\ report[t] # "none" => /\ exec'[t].status = report[t]
                                      /\ exec'[t].error = ErrorOf(report[t])
  <2>1. exec'[t] = Recovered(t) /\ exec[t] \in Execution
    BY <1>2, <1>3, <1>4
  <2>2. CASE report[t] # "none"
    <3>1. exec'[t] = Finished(exec[t], report[t]) /\ report[t] \in Terminal
      BY <1>2, <2>1, <2>2 DEF Recovered
    <3>2. /\ exec'[t].status = report[t] /\ exec'[t].result
          /\ exec'[t].error = ErrorOf(report[t]) /\ exec'[t].started = exec[t].started
      BY <2>1, <3>1 DEF Finished, Execution
    <3> QED
      BY <2>2, <3>1, <3>2 DEF ErrorOf
  <2>3. CASE report[t] = "none"
    <3>1. ~exec[t].result
      BY <1>2, <1>4 DEF Rows, Row, Live, Terminal
    <3> DEFINE err == IF exec[t].status = "queued" THEN "interrupted_known"
                                                   ELSE "interrupted_unknown"
    <3>2. exec'[t] = [exec[t] EXCEPT !.status = "failed", !.error = err]
      BY <2>1, <2>3 DEF Recovered, Interrupted
    <3>3. /\ exec'[t].status = "failed" /\ exec'[t].error = err
          /\ exec'[t].started = exec[t].started /\ exec'[t].result = exec[t].result
      BY <2>1, <3>2 DEF Execution
    <3> QED
      BY <2>3, <3>1, <3>3 DEF Terminal
  <2> QED
    BY <2>2, <2>3
<1>5. Rows'
  <2> SUFFICES ASSUME NEW t \in Tasks PROVE Row(t)'
    BY DEF Rows
  <2>1. Row(t)
    BY <1>2 DEF Rows
  <2>2. CASE exec[t].status \in Live
    <3>1. exec'[t].status \notin {"absent", "queued", "running", "cancelling"}
      BY <1>4, <2>2 DEF Terminal
    <3>2. exec'[t].error = "interrupted_known" => acted[t] = 0
      <4>1. acted[t] \in Nat
        BY WorkerTyped, BoundAssumption
      <4> QED
        BY <1>4, <2>1, <2>2, <4>1 DEF Row
    <3> QED
      BY <1>1, <1>4, <2>1, <2>2, <3>1, <3>2 DEF Row
  <2>3. CASE exec[t].status \notin Live
    BY <1>1, <1>3, <2>1, <2>3 DEF Row
  <2> QED
    BY <2>2, <2>3
<1>6. ~Faulty' => ReportAgrees'
  <2> SUFFICES ASSUME ~Faulty', NEW t \in Tasks, IsTerminal(t)'
               PROVE  /\ exec'[t].result <=> report'[t] # "none"
                      /\ report'[t] # "none" => /\ exec'[t].status = report'[t]
                                                /\ exec'[t].error = ErrorOf(report'[t])
    BY DEF ReportAgrees
  <2>1. CASE exec[t].status \in Live
    BY <1>1, <1>4, <2>1
  <2>2. CASE exec[t].status \notin Live
    <3>1. IsTerminal(t) /\ exec'[t] = exec[t]
      BY <1>3, <2>2 DEF IsTerminal
    <3> QED
      BY <1>1, <1>2, <3>1 DEF Healthy, ReportAgrees
  <2> QED
    BY <2>1, <2>2
<1> QED
  BY <1>1, <1>5, <1>6, OnlyRowsLeft

LEMMA IdleKeepsInv ==
  ASSUME WorkInv, UNCHANGED vars
  PROVE  WorkInv'
<1>1. UNCHANGED <<exec, report, acted, items, queue, flags, lock, client, worker, budget>>
  BY DEF vars
<1>2. Owners' /\ Single' /\ Registered'
  BY <1>1 DEF WorkInv, Owners, Single, Registered, InQueue, Submitting
<1>3. Unstarted' /\ Rows'
  BY <1>1 DEF WorkInv, Unstarted, Waits, InQueue, InHand, Submitting, WaitingRow, ParkedRow,
              Rows, Row, IsTerminal
<1>4. Fresh' /\ Cancelled'
  BY <1>1 DEF WorkInv, Fresh, FreshCopy, Cancelled, Cancels, CancelCopy, IsTerminal, Faulty
<1>5. AtWork' /\ Healthy'
  BY <1>1 DEF WorkInv, AtWork, Healthy, Faulty, ReportAgrees, PausedFlagged, IsTerminal
<1> QED
  BY <1>2, <1>3, <1>4, <1>5 DEF WorkInv

LEMMA StepKeepsWorkInv == TypeOK /\ WorkInv /\ Down /\ [Next]_vars => WorkInv'
<1> SUFFICES ASSUME TypeOK, WorkInv, Down, [Next]_vars PROVE WorkInv'
  OBVIOUS
<1>1. CASE \E c \in Clients : Client(c)
  BY <1>1, ClientKeepsInv
<1>2. CASE Worker \/ WorkerFault \/ DeadlinePasses
  BY <1>2, WorkerKeepsInv
<1>3. CASE Crash
  BY <1>3, CrashKeepsInv
<1>4. CASE Recover
  BY <1>4, RecoverKeepsInv
<1>5. CASE UNCHANGED vars
  BY <1>5, IdleKeepsInv
<1> QED
  BY <1>1, <1>2, <1>3, <1>4, <1>5 DEF Next

LEMMA WorkInvHolds == Spec => [](TypeOK /\ WorkInv)
<1>1. Init => WorkInv /\ Down
  BY InitWorkInv
<1>2. TypeOK /\ WorkInv /\ Down /\ [Next]_vars => WorkInv' /\ Down'
  BY StepKeepsWorkInv, StepKeepsDown
<1> QED
  BY <1>1, <1>2, TypeCorrect, PTL DEF Spec

-----------------------------------------------------------------------------
(* The moves of the lifecycle.                                               *)

\* A report of a task that may already be closed, and a row that closes
\* without heeding the report: what a storage fault makes of two of the moves.
Reports(u) ==
  /\ exec'[u].status = exec[u].status /\ exec'[u].started = exec[u].started
  /\ report[u] = "none" /\ report'[u] # "none"
  /\ ~Faulty' => L!Report(u)
Closes(u) ==
  /\ exec[u].status \notin Terminal /\ exec'[u].status \in Terminal
  /\ exec'[u].started = exec[u].started /\ report'[u] = report[u]
  /\ ~Faulty' => L!Close(u)

Moves(u) ==
  \/ L!Submit(u) \/ L!Reorder(u) \/ L!Begin(u) \/ L!Takeover(u)
  \/ Reports(u) \/ Closes(u) \/ L!Stay(u)

LEMMA View ==
  ASSUME NEW u \in Tasks
  PROVE  /\ StatusOf[u] = exec[u].status /\ BegunOf[u] = exec[u].started
         /\ StatusOf'[u] = exec'[u].status /\ BegunOf'[u] = exec'[u].started
BY DEF StatusOf, BegunOf

LEMMA StayMoves ==
  ASSUME NEW u \in Tasks, exec'[u].status = exec[u].status,
         exec'[u].started = exec[u].started, report'[u] = report[u]
  PROVE  Moves(u)
BY View DEF Moves, L!Stay, L!Keeps

LEMMA CloseMoves ==
  ASSUME NEW u \in Tasks, exec[u].status \notin Terminal, exec'[u].status \in Terminal,
         exec'[u].started = exec[u].started, report'[u] = report[u],
         ~Faulty' => /\ exec[u].status \in Live
                     /\ exec'[u].status = IF report[u] = "none" THEN "failed" ELSE report[u]
  PROVE  Moves(u)
<1>1. ~Faulty' => L!Close(u)
  BY View DEF L!Close, L!Keeps, L!Becomes, L!Live, Live
<1> QED
  BY <1>1 DEF Moves, Closes

\* A step of one task.
LEMMA OneRow ==
  ASSUME TypeOK, NEW t \in Tasks, NEW e, exec' = exec \/ exec' = [exec EXCEPT ![t] = e],
         report' = report, Moves(t)
  PROVE  \A u \in Tasks : Moves(u)
<1>1. \A u \in Tasks \ {t} : exec'[u] = exec[u]
  BY WorkerTyped
<1> QED
  BY <1>1, StayMoves

\* The locked saves of a call move the row it read.
LEMMA LockedSaveMoves ==
  ASSUME TypeOK, WorkInv, NEW c \in Clients, client[c].pc \in Locked,
         NEW t, t = client[c].task, NEW s, s = client[c].snap,
         NEW e \in Execution, e.status \in Live, e.started = s.started,
         NEW pc \in {"idle", "cancelEvent", "pauseEvent", "resumedEvent"},
         SaveLocked(c, e, pc), report' = report,
         \/ e.status = s.status
         \/ ~s.started /\ {s.status, e.status} = {"queued", "paused"}
         \/ s.started /\ s.status # "queued" /\ e.status = "cancelling"
  PROVE  \A u \in Tasks : Moves(u)
<1>1. /\ t \in Tasks /\ s \in Execution /\ FreshCopy(c)
      /\ exec \in [Tasks -> Execution]
  BY LockedCopy, WorkerTyped
<1>2. \/ exec' = exec
      \/ exec[t] = s /\ exec' = [exec EXCEPT ![t] = e]
  BY SavedOrNot
<1>3. CASE exec' = exec
  BY <1>3, StayMoves
<1>4. CASE exec[t] = s /\ exec' = [exec EXCEPT ![t] = e]
  <2>1. exec'[t] = e
    BY <1>1, <1>4
  <2>2. Moves(t)
    <3>1. CASE e.status = s.status
      BY <1>1, <1>4, <2>1, <3>1, StayMoves
    <3>2. CASE ~s.started /\ {s.status, e.status} = {"queued", "paused"}
      <4>1. \/ s.status = "queued" /\ e.status = "paused"
            \/ s.status = "paused" /\ e.status = "queued"
        BY <3>2
      <4>2. L!Reorder(t)
        BY <1>1, <1>4, <2>1, <3>2, <4>1, View DEF L!Reorder, L!Keeps, L!Becomes
      <4> QED
        BY <4>2 DEF Moves
    <3>3. CASE s.started /\ s.status # "queued" /\ e.status = "cancelling"
      <4>1. s.status \in {"running", "paused", "cancelling"}
        BY <1>1, <3>3 DEF FreshCopy, Live
      <4>2. L!Takeover(t)
        BY <1>1, <1>4, <2>1, <3>3, <4>1, View DEF L!Takeover, L!Keeps, L!Becomes
      <4> QED
        BY <4>2 DEF Moves
    <3> QED
      BY <3>1, <3>2, <3>3
  <2> QED
    BY <1>1, <1>4, <2>2, OneRow
<1> QED
  BY <1>2, <1>3, <1>4

LEMMA SubmitMoves ==
  ASSUME TypeOK, WorkInv, NEW c \in Clients, Submit(c)
  PROVE  \A u \in Tasks : Moves(u)
<1>1. ASSUME NEW t \in Tasks, NEW k \in Keys \cup {None}, SubmitCreate(c, t, k)
      PROVE  \A u \in Tasks : Moves(u)
  <2>1. exec[t] \in Execution /\ exec \in [Tasks -> Execution]
    BY WorkerTyped
  <2>2. /\ report' = report /\ exec[t].status = "absent"
        /\ exec' = exec \/ exec' = [exec EXCEPT ![t] = [exec[t] EXCEPT !.status = "queued"]]
    BY <1>1 DEF SubmitCreate
  <2>3. CASE exec' = exec
    BY <2>2, <2>3, StayMoves
  <2>4. CASE exec' = [exec EXCEPT ![t] = [exec[t] EXCEPT !.status = "queued"]]
    <3>1. exec'[t].status = "queued" /\ exec'[t].started = exec[t].started
      BY <2>1, <2>4 DEF Execution
    <3>2. L!Submit(t)
      BY <2>2, <3>1, View DEF L!Submit, L!Keeps, L!Becomes
    <3> QED
      BY <2>2, <2>4, <3>2, OneRow DEF Moves
  <2> QED
    BY <2>2, <2>3, <2>4
<1>2. CASE SubmitEvent(c) \/ SubmitEnsure(c) \/ SubmitPut(c)
  <2>1. exec' = exec /\ report' = report
    BY <1>2 DEF SubmitEvent, AppendEvent, SubmitEnsure, SubmitPut, durable
  <2> QED
    BY <2>1, StayMoves
<1> QED
  BY <1>1, <1>2 DEF Submit

\* A cancel reports a task that never started, or asks one at work to stop.
LEMMA CancelMoves ==
  ASSUME TypeOK, WorkInv, NEW c \in Clients, Faulty => Faulty', Cancel(c)
  PROVE  \A u \in Tasks : Moves(u)
<1> DEFINE t == client[c].task
           s == client[c].snap
<1>1. CASE (\E u \in Tasks : CancelRead(c, u)) \/ CancelEvent(c) \/ CancelCompleted(c)
  <2>1. exec' = exec /\ report' = report
    BY <1>1 DEF CancelRead, Enter, CancelEvent, CancelCompleted, AppendEvent, durable
  <2> QED
    BY <2>1, StayMoves
<1>2. CASE CancelQueued(c)
  <2>1. /\ client[c].pc = "cancel" /\ client[c].pc \in Locked /\ NeverStarted(s) /\ exec' = exec
        /\ \/ report' = report
           \/ report[t] = "none" /\ report' = [report EXCEPT ![t] = "cancelled"]
    BY <1>2 DEF CancelQueued, At, Locked
  <2>2. /\ t \in Tasks /\ s \in Execution /\ FreshCopy(c)
        /\ report \in [Tasks -> Terminal \cup {"none"}]
    BY <2>1, LockedCopy, WorkerTyped
  <2>3. CASE report' = report
    BY <2>1, <2>3, StayMoves
  <2>4. CASE report[t] = "none" /\ report' = [report EXCEPT ![t] = "cancelled"]
    <3>1. report'[t] = "cancelled" /\ \A u \in Tasks \ {t} : report'[u] = report[u]
      BY <2>2, <2>4
    <3>2. ~exec[t].started
      BY <2>1, <2>2 DEF NeverStarted, FreshCopy
    <3>3. ~Faulty' => exec[t].status \in Live
      BY <2>2, <2>4 DEF FreshCopy
    <3>4. ~Faulty' => L!Report(t)
      BY <2>1, <2>2, <2>4, <3>1, <3>2, <3>3, View DEF L!Report, L!Live, Live
    <3>5. Moves(t)
      BY <2>1, <2>4, <3>1, <3>4 DEF Moves, Reports
    <3> QED
      BY <2>1, <3>1, <3>5, StayMoves
  <2> QED
    BY <2>1, <2>3, <2>4
<1>3. CASE CancelStarted(c)
  <2> DEFINE e == [s EXCEPT !.status = "cancelling", !.cancelReq = TRUE]
  <2>1. /\ client[c].pc \in Locked /\ ~NeverStarted(s)
        /\ SaveLocked(c, e, "cancelEvent") /\ report' = report
    BY <1>3 DEF CancelStarted, At, Locked, history
  <2>2. s \in Execution /\ FreshCopy(c)
    BY <2>1, LockedCopy
  <2>3. e \in Execution /\ e.status = "cancelling" /\ e.started = s.started
    BY <2>2 DEF Execution, Live
  <2> HIDE DEF e
  <2>4. s.started /\ s.status # "queued"
    BY <2>1, <2>2 DEF NeverStarted, FreshCopy, Live
  <2> QED
    BY <2>1, <2>3, <2>4, LockedSaveMoves DEF Live
<1>4. CASE CancelSave(c)
  <2>1. /\ client[c].pc = "cancelSave" /\ Cancels(c) /\ SaveLocked(c, s, "idle")
        /\ report' = report
    BY <1>4 DEF CancelSave, At, Cancels, history
  <2>2. t \in Tasks /\ s \in Execution /\ CancelCopy(c) /\ exec \in [Tasks -> Execution]
    BY <2>1, SnapType, WorkerTyped DEF WorkInv, Cancelled
  <2>3. \/ exec' = exec
        \/ ~IsTerminal(t) /\ exec' = [exec EXCEPT ![t] = s]
    BY <2>1, <2>2 DEF SaveLocked, Save, CanSave, IsTerminal
  <2>4. CASE exec' = exec
    BY <2>1, <2>4, StayMoves
  <2>5. CASE ~IsTerminal(t) /\ exec' = [exec EXCEPT ![t] = s]
    <3>1. exec'[t] = s
      BY <2>2, <2>5
    <3>2. exec[t].started = FALSE /\ s.started = FALSE /\ s.status = "cancelled"
          /\ report[t] = "cancelled"
      BY <2>2 DEF CancelCopy, Execution
    <3>3. exec[t].status \in Live
      <4>1. exec[t] \in Execution /\ exec[t].status # "absent"
        BY <2>2, <3>2 DEF WorkInv, Rows, Row
      <4> QED
        BY <2>5, <4>1 DEF Execution, IsTerminal
    <3>4. Moves(t)
      <4> HIDE DEF t, s
      <4>1. t \in Tasks
        BY <2>2
      <4> QED
        BY <2>1, <3>1, <3>2, <3>3, <4>1, CloseMoves DEF Terminal, Live
    <3> HIDE DEF s
    <3> QED
      BY <2>1, <2>2, <2>5, <3>4, OneRow
  <2> QED
    BY <2>3, <2>4, <2>5
<1> QED
  BY <1>1, <1>2, <1>3, <1>4 DEF Cancel

LEMMA PauseResumeMoves ==
  ASSUME TypeOK, WorkInv, NEW c \in Clients, Pause(c) \/ Resume(c)
  PROVE  \A u \in Tasks : Moves(u)
<1> DEFINE s == client[c].snap
<1>1. CASE \/ \E u \in Tasks : PauseRead(c, u) \/ ResumeRead(c, u)
           \/ PauseEvent(c) \/ PausedEvent(c) \/ ResumedEvent(c)
  <2>1. exec' = exec /\ report' = report
    BY <1>1 DEF PauseRead, ResumeRead, Enter, PauseEvent, PausedEvent, ResumedEvent,
                AppendEvent, durable
  <2> QED
    BY <2>1, StayMoves
<1>2. CASE PauseSave(c)
  <2> DEFINE e == [s EXCEPT !.pauseReq = TRUE, !.status = PausedStatus(@)]
  <2>1. /\ client[c].pc = "pause" /\ client[c].pc \in Locked
        /\ SaveLocked(c, e, "pauseEvent") /\ report' = report
    BY <1>2 DEF PauseSave, At, Locked, history
  <2>2. s \in Execution /\ FreshCopy(c)
    BY <2>1, LockedCopy
  <2>3. s.status \in {"queued", "running"} /\ (s.status = "queued" => ~s.started)
    BY <2>1, <2>2 DEF FreshCopy
  <2>4. PausedStatus(s.status) = IF s.status = "queued" THEN "paused" ELSE s.status
    BY DEF PausedStatus
  <2>5. e.status = PausedStatus(s.status) /\ e.started = s.started
    BY <2>2 DEF Execution
  <2>6. e \in Execution
    BY <2>2, <2>3, <2>4 DEF Execution, Live
  <2> HIDE DEF e
  <2>7. \/ s.status = "queued" /\ e.status = "paused"
        \/ e.status = "running" /\ e.status = s.status
    BY <2>3, <2>4, <2>5
  <2> QED
    BY <2>1, <2>3, <2>5, <2>6, <2>7, LockedSaveMoves DEF Live
<1>3. CASE ResumeQueued(c)
  <2> DEFINE e == [s EXCEPT !.status = "queued", !.pauseReq = FALSE]
  <2>1. /\ client[c].pc \in Locked /\ s.status = "paused" /\ ~s.started
        /\ SaveLocked(c, e, "resumedEvent") /\ report' = report
    BY <1>3 DEF ResumeQueued, At, Locked, history
  <2>2. s \in Execution
    BY <2>1, LockedCopy
  <2>3. e \in Execution /\ e.status = "queued" /\ e.started = s.started
    BY <2>2 DEF Execution, Live
  <2> HIDE DEF e
  <2> QED
    BY <2>1, <2>3, LockedSaveMoves DEF Live
<1>4. CASE ResumeStarted(c)
  <2> DEFINE e == [s EXCEPT !.pauseReq = FALSE]
  <2>1. client[c].pc \in Locked /\ SaveLocked(c, e, "idle") /\ report' = report
    BY <1>4 DEF ResumeStarted, At, Locked, history
  <2>2. s \in Execution /\ FreshCopy(c)
    BY <2>1, LockedCopy
  <2>3. e \in Execution /\ e.status = s.status /\ e.started = s.started /\ e.status \in Live
    BY <2>2 DEF Execution, FreshCopy
  <2> HIDE DEF e
  <2> QED
    BY <2>1, <2>3, LockedSaveMoves
<1> QED
  BY <1>1, <1>2, <1>3, <1>4 DEF Pause, Resume

\* Work begins in WorkerStart only; the rest moves a task that is at work.
LEMMA WorkerMovesRows ==
  ASSUME TypeOK, WorkInv, Faulty => Faulty', Worker \/ WorkerFault \/ DeadlinePasses
  PROVE  \A u \in Tasks : Moves(u)
<1>1. CASE \/ WorkerGet \/ WorkerCheck \/ WorkerStarted \/ WorkerEngaged \/ WorkerWake
           \/ WorkerResumed \/ WorkerAct \/ WorkerFinish \/ WorkerRead \/ WorkerCompleted
           \/ WorkerExcept \/ WorkerCleanup \/ WorkerFault \/ DeadlinePasses
  <2>1. exec' = exec /\ report' = report
    BY <1>1 DEF WorkerGet, WorkerCheck, WorkerStarted, WorkerEngaged, WorkerWake,
      WorkerResumed, WorkerAct, WorkerFinish, WorkerRead, WorkerCompleted, WorkerExcept,
      WorkerCleanup, WorkerFault, DeadlinePasses, durable
  <2> QED
    BY <2>1, StayMoves
<1>2. ASSUME \/ WorkerStart \/ WorkerBind \/ WorkerProbe \/ WorkerDisengage
             \/ WorkerReport \/ WorkerSave
      PROVE  \A u \in Tasks : Moves(u)
  <2>a. worker.task \in Tasks
    BY <1>2, WorkerTyped DEF WorkerStart, WorkerBind, WorkerProbe, WorkerDisengage,
       WorkerReport, WorkerSave, WorkerAt
  <2>b. PICK t \in Tasks : t = worker.task
    BY <2>a
  <2>c. /\ exec \in [Tasks -> Execution] /\ exec[t] \in Execution
        /\ worker \in WorkerState /\ AtWork
        /\ report \in [Tasks -> Terminal \cup {"none"}]
    BY WorkerTyped DEF WorkInv
  <2>1. CASE WorkerStart
    <3> DEFINE e == [exec[t] EXCEPT !.status = "running", !.started = TRUE]
    <3>1. /\ worker.pc = "start" /\ report' = report
          /\ exec' = exec \/ (~Discards(t) /\ Save(t, e))
      BY <2>b, <2>1 DEF WorkerStart, WorkerAt, history
    <3>2. WaitingRow(t)
      BY <2>b, <3>1 DEF WorkInv, Unstarted, Waits, InHand
    <3>3. CASE exec' = exec
      BY <3>1, <3>3, StayMoves
    <3>4. CASE ~Discards(t) /\ Save(t, e)
      <4>1. report[t] = "none" /\ exec[t].status \in {"queued", "paused"} /\ ~exec[t].started
        BY <3>2, <3>4 DEF WaitingRow, Discards, IsTerminal
      <4>2. exec' = [exec EXCEPT ![t] = e]
        BY <3>4, <4>1 DEF Save, CanSave, Terminal
      <4>3. exec'[t].status = "running" /\ exec'[t].started
        BY <2>c, <4>2 DEF Execution
      <4>4. L!Begin(t)
        BY <3>1, <4>1, <4>3, View DEF L!Begin, L!Becomes
      <4> HIDE DEF e
      <4> QED
        BY <3>1, <4>2, <4>4, OneRow DEF Moves
    <3> QED
      BY <3>1, <3>3, <3>4
  <2>2. CASE WorkerBind
    <3> DEFINE e == [exec[t] EXCEPT !.bound = TRUE]
    <3>1. report' = report /\ (exec' = exec \/ exec' = [exec EXCEPT ![t] = e])
      BY <2>b, <2>2 DEF WorkerBind, history, Save
    <3>2. e.status = exec[t].status /\ e.started = exec[t].started
      BY <2>c DEF Execution
    <3>3. exec'[t] = exec[t] \/ exec'[t] = e
      BY <2>c, <3>1
    <3> HIDE DEF e
    <3>4. Moves(t)
      BY <3>1, <3>2, <3>3, StayMoves
    <3> QED
      BY <3>1, <3>4, OneRow
  <2>3. CASE WorkerProbe
    <3> DEFINE e == [exec[t] EXCEPT !.status = "paused"]
    <3>1. /\ worker.pc \in Working /\ report' = report
          /\ exec' = exec \/ (exec[t].status = "running" /\ Save(t, e))
      BY <2>b, <2>3 DEF WorkerProbe, WorkerAt, history, Working
    <3>2. CASE exec' = exec
      BY <3>1, <3>2, StayMoves
    <3>3. CASE exec[t].status = "running" /\ Save(t, e)
      <4>1. exec' = [exec EXCEPT ![t] = e]
        BY <3>3 DEF Save, CanSave, Terminal
      <4>2. exec'[t].status = "paused" /\ exec'[t].started = exec[t].started
        BY <2>c, <4>1 DEF Execution
      <4>3. exec[t].started
        BY <2>b, <2>c, <3>1 DEF AtWork
      <4>4. L!Takeover(t)
        BY <3>1, <3>3, <4>2, <4>3, View DEF L!Takeover, L!Keeps, L!Becomes
      <4> HIDE DEF e
      <4> QED
        BY <3>1, <4>1, <4>4, OneRow DEF Moves
    <3> QED
      BY <3>1, <3>2, <3>3
  <2>4. CASE WorkerDisengage
    <3> DEFINE e == [exec[t] EXCEPT !.status = "running", !.pauseReq = FALSE]
    <3>1. /\ worker.pc \in Working /\ report' = report
          /\ exec' = exec \/ (exec[t].status = "paused" /\ Save(t, e))
      BY <2>b, <2>4 DEF WorkerDisengage, WorkerAt, history, Working
    <3>2. CASE exec' = exec
      BY <3>1, <3>2, StayMoves
    <3>3. CASE exec[t].status = "paused" /\ Save(t, e)
      <4>1. exec' = [exec EXCEPT ![t] = e]
        BY <3>3 DEF Save, CanSave, Terminal
      <4>2. exec'[t].status = "running" /\ exec'[t].started = exec[t].started
        BY <2>c, <4>1 DEF Execution
      <4>3. exec[t].started
        BY <2>b, <2>c, <3>1 DEF AtWork
      <4>4. L!Takeover(t)
        BY <3>1, <3>3, <4>2, <4>3, View DEF L!Takeover, L!Keeps, L!Becomes
      <4> HIDE DEF e
      <4> QED
        BY <3>1, <4>1, <4>4, OneRow DEF Moves
    <3> QED
      BY <3>1, <3>2, <3>3
  <2>5. CASE WorkerReport
    <3>1. worker.pc = "report" /\ worker.pc \in Working /\ exec' = exec
      BY <2>5 DEF WorkerReport, WorkerAt, Working
    <3>2. /\ exec[t].status \in Live /\ exec[t].started /\ report[t] = "none"
          /\ worker.verdict \in Terminal
      BY <2>b, <2>c, <3>1 DEF AtWork, TypeOK, WorkerType
    <3>3. report' = [report EXCEPT ![t] = worker.verdict]
      BY <2>b, <2>5, <3>2 DEF WorkerReport
    <3>4. report'[t] = worker.verdict /\ \A u \in Tasks \ {t} : report'[u] = report[u]
      BY <2>c, <3>3
    <3>5. L!Report(t) /\ report'[t] # "none"
      BY <3>1, <3>2, <3>4, View DEF L!Report, L!Live, Live, L!Terminal, Terminal
    <3>6. Moves(t)
      BY <3>1, <3>2, <3>5 DEF Moves, Reports
    <3> QED
      BY <3>1, <3>4, <3>6, StayMoves
  <2>6. CASE WorkerSave
    <3> DEFINE e == worker.snap
    <3>1. /\ worker.pc \in {"final", "exceptSave"} /\ report' = report
          /\ exec' = exec \/ (exec' = [exec EXCEPT ![t] = e] /\ CanSave(t, e))
          /\ e.status \in Terminal
      BY <2>b, <2>6 DEF WorkerSave, Save, history, TypeOK, WorkerType
    <3>2. /\ e.started = exec[t].started
          /\ worker.pc = "final" => exec[t].status \in Live /\ report[t] = e.status
          /\ worker.pc = "exceptSave" => Faulty'
      BY <2>b, <2>c, <3>1 DEF AtWork, Ending, WorkInv, Healthy, Broken
    <3>3. CASE exec' = exec
      BY <3>1, <3>3, StayMoves
    <3>4. CASE exec' = [exec EXCEPT ![t] = e] /\ CanSave(t, e)
      <4>1. exec'[t] = e
        BY <2>c, <3>4
      <4>2. CASE exec[t] = e
        BY <2>b, <3>1, <3>4, <4>1, <4>2, StayMoves, OneRow
      <4>3. CASE exec[t].status \notin Terminal
        <5>1. Moves(t)
          BY <3>1, <3>2, <4>1, <4>3, CloseMoves DEF Terminal
        <5> HIDE DEF e
        <5> QED
          BY <3>1, <3>4, <5>1, OneRow
      <4> QED
        BY <3>4, <4>2, <4>3 DEF CanSave
    <3> QED
      BY <3>1, <3>3, <3>4
  <2> QED
    BY <1>2, <2>1, <2>2, <2>3, <2>4, <2>5, <2>6
<1> QED
  BY <1>1, <1>2 DEF Worker

\* Recovery closes live rows; a crash moves nothing.
LEMMA RecoverMoves ==
  ASSUME TypeOK, WorkInv, Recover
  PROVE  \A u \in Tasks : Moves(u)
<1> SUFFICES ASSUME NEW t \in Tasks PROVE Moves(t)
  OBVIOUS
<1>1. /\ exec[t] \in Execution /\ report[t] \in Terminal \cup {"none"} /\ report' = report
      /\ exec'[t] = IF exec[t].status \in Live THEN Recovered(t) ELSE exec[t]
  BY WorkerTyped DEF Recover
<1>2. CASE exec[t].status \notin Live
  BY <1>1, <1>2, StayMoves
<1>3. CASE exec[t].status \in Live
  <2>1. /\ exec'[t].status = IF report[t] = "none" THEN "failed" ELSE report[t]
        /\ exec'[t].started = exec[t].started
    <3>1. CASE report[t] # "none"
      <4>1. exec'[t] = Finished(exec[t], report[t])
        BY <1>1, <1>3, <3>1 DEF Recovered
      <4> QED
        BY <1>1, <3>1, <4>1 DEF Finished, Execution
    <3>2. CASE report[t] = "none"
      <4> DEFINE err == IF exec[t].status = "queued" THEN "interrupted_known"
                                                     ELSE "interrupted_unknown"
      <4>1. exec'[t] = [exec[t] EXCEPT !.status = "failed", !.error = err]
        BY <1>1, <1>3, <3>2 DEF Recovered, Interrupted
      <4> QED
        BY <1>1, <3>2, <4>1 DEF Execution
    <3> QED
      BY <3>1, <3>2
  <2>2. exec'[t].status \in Terminal /\ exec[t].status \notin Terminal
    BY <1>1, <1>3, <2>1 DEF Terminal, Live
  <2> QED
    BY <1>1, <1>3, <2>1, <2>2, CloseMoves
<1> QED
  BY <1>2, <1>3

LEMMA StepMoves == TypeOK /\ WorkInv /\ [Next]_vars => \A u \in Tasks : Moves(u)
<1> SUFFICES ASSUME TypeOK, WorkInv, [Next]_vars PROVE \A u \in Tasks : Moves(u)
  OBVIOUS
<1>1. Faulty => Faulty'
  BY FaultStays
<1>2. CASE \E c \in Clients : Client(c)
  BY <1>1, <1>2, SubmitMoves, CancelMoves, PauseResumeMoves DEF Client
<1>3. CASE Worker \/ WorkerFault \/ DeadlinePasses
  BY <1>1, <1>3, WorkerMovesRows
<1>4. CASE Recover
  BY <1>4, RecoverMoves
<1>5. CASE Crash \/ UNCHANGED vars
  <2>1. exec' = exec /\ report' = report
    BY <1>5 DEF Crash, durable, vars
  <2> QED
    BY <2>1, StayMoves
<1> QED
  BY <1>2, <1>3, <1>4, <1>5 DEF Next

\* Only the worker acts, on a task at work that is not paused.
LEMMA ActsAtWork ==
  ASSUME TypeOK, WorkInv, [Next]_vars
  PROVE  \/ acted' = acted
         \/ /\ WorkerAct /\ worker.pc = "act" /\ worker.task \in Tasks
            /\ \A u \in Tasks \ {worker.task} : acted'[u] = acted[u]
            /\ exec[worker.task].started /\ exec[worker.task].status \in Live \ {"paused"}
            /\ report[worker.task] = "none"
<1>1. ASSUME NEW c \in Clients, Client(c) PROVE acted' = acted
  BY <1>1
  DEF Client, Submit, SubmitCreate, SubmitEvent, SubmitEnsure, SubmitPut, Cancel,
      CancelRead, CancelQueued, CancelStarted, CancelEvent, CancelCompleted, CancelSave,
      Pause, PauseRead, PauseSave, PauseEvent, PausedEvent, Resume, ResumeRead,
      ResumeQueued, ResumeStarted, ResumedEvent, AppendEvent, Enter, durable,
      history
<1>2. ASSUME Worker, ~WorkerAct PROVE acted' = acted
  BY <1>2
  DEF Worker, WorkerGet, WorkerCheck, WorkerStart, WorkerStarted, WorkerBind,
      WorkerProbe, WorkerEngaged, WorkerWake, WorkerDisengage, WorkerResumed,
      WorkerReport, WorkerFinish, WorkerRead, WorkerCompleted,
      WorkerSave, WorkerExcept, WorkerCleanup, durable, history
<1>3. CASE WorkerFault \/ DeadlinePasses \/ Crash \/ Recover \/ UNCHANGED vars
  BY <1>3 DEF WorkerFault, DeadlinePasses, Crash, Recover, durable, vars
<1>4. ASSUME WorkerAct
      PROVE  /\ worker.pc = "act" /\ worker.task \in Tasks
             /\ \A u \in Tasks \ {worker.task} : acted'[u] = acted[u]
             /\ exec[worker.task].started /\ exec[worker.task].status \in Live \ {"paused"}
             /\ report[worker.task] = "none"
  <2>1. worker.pc = "act" /\ worker.pc \in Working /\ worker.task \in Tasks
    BY <1>4, WorkerTyped DEF WorkerAct, WorkerAt, Working
  <2>2. \A u \in Tasks \ {worker.task} : acted'[u] = acted[u]
    BY <1>4, WorkerTyped DEF WorkerAct
  <2> QED
    BY <2>1, <2>2 DEF WorkInv, AtWork
<1> QED
  BY <1>1, <1>2, <1>3, <1>4 DEF Next
-----------------------------------------------------------------------------
(* No accepted task is lost.                                                 *)

\* A task that waits for its start, and the places it waits in.
Open(t) == /\ exec[t].status \in {"queued", "paused"}
           /\ ~exec[t].started /\ report[t] = "none"
Held(t) == Waits(t) \/ (exec[t].status = "paused" /\ t \in flags.parked)

\* A cancel event of a task that never started comes with its report: the worker
\* does not discard a task that nobody has reported.
CancelsReported ==
  ~Faulty => \A t \in flags.cancel : report[t] # "none" \/ exec[t].started
AllHeld == up /\ ~Faulty => \A t \in Tasks : Open(t) => Held(t)
HeldInv == CancelsReported /\ AllHeld

LEMMA FaultIsFaulty == ASSUME TypeOK, Fault PROVE Faulty'
<1>1. budget.faults \in Nat /\ budget \in Budget
  BY BoundAssumption DEF TypeOK, Budget
<1>2. budget'.faults = budget.faults + 1
  BY <1>1 DEF Fault, Spend, Budget
<1> QED
  BY <1>1, <1>2 DEF Faulty

\* What begun, stays begun; what is open, was open or has just been created.
LEMMA BegunStays ==
  ASSUME TypeOK, WorkInv, [Next]_vars, NEW t \in Tasks
  PROVE  /\ exec[t].started => exec'[t].started
         /\ Open(t)' => Open(t) \/ exec[t].status = "absent"
<1>1. Moves(t) /\ exec[t].started \in BOOLEAN /\ exec'[t].started \in BOOLEAN
  <2>1. TypeOK'
    BY StepKeepsType
  <2> QED
    BY <2>1, StepMoves DEF TypeOK, StoreType, Execution
<1>2. exec[t].started => exec'[t].started
  BY <1>1, View
  DEF Moves, Reports, Closes, L!Submit, L!Reorder, L!Begin, L!Takeover, L!Stay, L!Keeps
<1>3. ASSUME Open(t)' PROVE Open(t) \/ exec[t].status = "absent"
  <2>1. CASE L!Submit(t)
    BY <2>1, View DEF L!Submit, L!Becomes
  <2>2. CASE L!Reorder(t)
    BY <1>3, <2>2, View DEF L!Reorder, L!Becomes, L!Keeps, Open
  <2>3. CASE L!Begin(t) \/ L!Takeover(t)
    BY <1>3, <2>3, View DEF L!Begin, L!Takeover, L!Keeps, Open
  <2>4. CASE Reports(t) \/ Closes(t)
    BY <1>3, <2>4 DEF Reports, Closes, Open, Terminal
  <2>5. CASE L!Stay(t)
    BY <1>3, <2>5, View DEF L!Stay, L!Keeps, Open
  <2> QED
    BY <1>1, <2>1, <2>2, <2>3, <2>4, <2>5 DEF Moves
<1> QED
  BY <1>2, <1>3

\* The saves of a call that is in its locked section.
LEMMA LockedSaves ==
  ASSUME TypeOK, WorkInv, NEW c \in Clients, Client(c), client[c].pc \in Locked
  PROVE  \/ exec' = exec
         \/ /\ exec[client[c].task].status \in Live
            /\ \A u \in Tasks \ {client[c].task} : exec'[u] = exec[u]
<1> DEFINE t == client[c].task
           s == client[c].snap
<1>1. t \in Tasks /\ FreshCopy(c) /\ exec \in [Tasks -> Execution]
  BY LockedCopy, WorkerTyped
<1>2. CASE CancelQueued(c)
  BY <1>2 DEF CancelQueued
<1>3. ASSUME NEW e, NEW pc, SaveLocked(c, e, pc)
      PROVE  \/ exec' = exec
             \/ exec' = [exec EXCEPT ![t] = e] /\ exec[t].status \notin Terminal
             \/ exec' = [exec EXCEPT ![t] = e] /\ exec[t] = e
  BY <1>3 DEF SaveLocked, Save, CanSave
<1>4. CASE CancelStarted(c) \/ PauseSave(c) \/ ResumeQueued(c) \/ ResumeStarted(c)
  <2>1. \E e, pc : SaveLocked(c, e, pc)
    BY <1>4 DEF CancelStarted, PauseSave, ResumeQueued, ResumeStarted
  <2>2. PICK e : \/ exec' = exec
                 \/ exec' = [exec EXCEPT ![t] = e] /\ exec[t].status \notin Terminal
                 \/ exec' = [exec EXCEPT ![t] = e] /\ exec[t] = e
    BY <1>3, <2>1
  <2>3. exec[t].status \notin Terminal => exec[t].status \in Live
    BY <1>1 DEF FreshCopy, IsTerminal
  <2>4. CASE exec' = [exec EXCEPT ![t] = e] /\ exec[t] = e
    BY <1>1, <2>4
  <2> QED
    BY <1>1, <2>2, <2>3, <2>4
<1> QED
  BY <1>2, <1>4
  DEF Client, Submit, SubmitCreate, SubmitEvent, SubmitEnsure, SubmitPut, Cancel,
      CancelRead, CancelEvent, CancelCompleted, CancelSave, Pause, PauseRead,
      PauseEvent, PausedEvent, Resume, ResumeRead, ResumedEvent, AppendEvent, Enter,
      At, Locked

\* An open row that was absent was created by a call that still has it in hand.
LEMMA OnlySubmitCreates ==
  ASSUME TypeOK, WorkInv, [Next]_vars, NEW t \in Tasks, Open(t)',
         exec[t].status = "absent"
  PROVE  Waits(t)'
<1>a. exec \in [Tasks -> Execution] /\ client \in [Clients -> ClientState]
  BY DEF TypeOK, StoreType, ClientType
<1>b. exec'[t] # exec[t]
  BY DEF Open
<1>1. ASSUME NEW c \in Clients, Client(c) PROVE Waits(t)'
  <2>1. ASSUME NEW u \in Tasks, NEW k \in Keys \cup {None}, SubmitCreate(c, u, k)
        PROVE  Waits(t)'
    <3>1. u = t
      BY <1>a, <1>b, <2>1 DEF SubmitCreate
    <3>2. client'[c].pc = "submitEvent" /\ client'[c].task = t
      <4>1. client' = [client EXCEPT ![c] =
                         [pc |-> "submitEvent", task |-> t, snap |-> exec'[t]]]
        BY <1>b, <2>1, <3>1 DEF SubmitCreate
      <4> QED
        BY <1>a, <4>1
    <3> QED
      BY <3>2 DEF Waits, Submitting, Submits
  <2>2. CASE client[c].pc \in Locked
    BY <1>1, <1>b, <2>2, LockedSaves DEF Live
  <2>3. CASE CancelSave(c)
    <3>1. report[client[c].task] = "cancelled" /\ client[c].task \in Tasks
      BY <2>3, WorkerTyped DEF CancelSave, At, WorkInv, Cancelled, CancelCopy, Cancels
    <3>2. report' = report
      BY <2>3 DEF CancelSave, history
    <3>3. client[c].task # t
      BY <3>1, <3>2 DEF Open
    <3>4. exec'[t] = exec[t]
      BY <1>a, <2>3, <3>1, <3>3 DEF CancelSave, SaveLocked, Save
    <3> QED
      BY <1>b, <3>4
  <2>4. CASE exec' = exec
    BY <1>b, <2>4
  <2> QED
    BY <1>1, <2>1, <2>2, <2>3, <2>4
    DEF Client, Submit, SubmitEvent, SubmitEnsure, SubmitPut, Cancel,
        CancelRead, CancelQueued, CancelStarted, CancelEvent, CancelCompleted, Pause,
        PauseRead, PauseSave, PauseEvent, PausedEvent, Resume, ResumeRead, ResumeQueued,
        ResumeStarted, ResumedEvent, AppendEvent, Enter, durable, At, Locked
<1>2. CASE WorkerStart \/ WorkerBind \/ WorkerProbe \/ WorkerDisengage
  <2>1. exec' = exec \/ \E e : Save(worker.task, e)
    BY <1>2 DEF WorkerStart, WorkerBind, WorkerProbe, WorkerDisengage
  <2>2. worker.pc \in {"start"} \cup Working /\ worker.task \in Tasks
    BY <1>2, WorkerTyped
    DEF WorkerStart, WorkerBind, WorkerProbe, WorkerDisengage, WorkerAt, Working
  <2>3. worker.pc = "start" => WaitingRow(worker.task)
    BY <2>2 DEF WorkInv, Unstarted, Waits, InHand
  <2>4. exec[worker.task].status # "absent"
    BY <2>2, <2>3 DEF WorkInv, AtWork, WaitingRow, Live, Terminal
  <2>5. exec'[t] = exec[t]
    BY <1>a, <2>1, <2>2, <2>4 DEF Save
  <2> QED
    BY <1>b, <2>5
<1>3. CASE WorkerSave
  <2>1. worker.task \in Tasks /\ worker.snap.status \in Terminal
    BY <1>3 DEF WorkerSave, TypeOK, WorkerType
  <2>2. exec' = exec \/ exec' = [exec EXCEPT ![worker.task] = worker.snap]
    BY <1>3 DEF WorkerSave, Save
  <2>3. worker.task = t
    BY <1>a, <1>b, <2>1, <2>2
  <2>4. exec'[t].status \in Terminal
    BY <1>a, <1>b, <2>1, <2>2, <2>3
  <2> QED
    BY <2>4 DEF Open, Terminal
<1>4. ASSUME Worker, ~(WorkerStart \/ WorkerBind \/ WorkerProbe \/ WorkerDisengage),
             ~WorkerSave
      PROVE  exec' = exec
  BY <1>4
  DEF Worker, WorkerGet, WorkerCheck, WorkerStarted, WorkerEngaged, WorkerWake,
      WorkerResumed, WorkerAct, WorkerFinish, WorkerReport, WorkerRead, WorkerCompleted,
      WorkerExcept, WorkerCleanup, durable
<1>5. CASE WorkerFault \/ DeadlinePasses \/ Crash \/ UNCHANGED vars
  BY <1>5, <1>b DEF WorkerFault, DeadlinePasses, Crash, durable, vars
<1>6. CASE Recover
  BY <1>6, <1>b DEF Recover, Live
<1> QED
  BY <1>1, <1>2, <1>3, <1>4, <1>5, <1>6, <1>b DEF Next

\* A task keeps a place when the step leaves the queue, the worker's hand and the
\* parking set as they are or moves the task between them.
LEMMA HeldKept ==
  ASSUME WorkInv', NEW t \in Tasks, Held(t),
         InQueue(t) => Waits(t)', InHand(t) => Held(t)',
         \A c \in Clients : Submitting(c, t) => Waits(t)',
         t \in flags.parked => t \in flags'.parked \/ Waits(t)'
  PROVE  Held(t)'
<1>1. t \in flags'.parked => exec'[t].status = "paused"
  BY DEF WorkInv, Unstarted, ParkedRow
<1> QED
  BY <1>1 DEF Held, Waits

\* A call that touches neither queue nor worker and holds no new task.
LEMMA CallKeepsHeld ==
  ASSUME WorkInv', NEW t \in Tasks, Held(t), queue' = queue, worker' = worker,
         NEW c \in Clients, \A d \in Clients \ {c} : client'[d] = client[d],
         Submitting(c, t) => Waits(t)',
         t \in flags.parked => t \in flags'.parked \/ Waits(t)'
  PROVE  Held(t)'
<1>1. InQueue(t) => Waits(t)'
  BY DEF InQueue, Waits
<1>2. InHand(t) => Held(t)'
  BY DEF InHand, Waits, Held
<1>3. \A d \in Clients : Submitting(d, t) => Waits(t)'
  BY DEF Submitting, Waits
<1> QED
  BY <1>1, <1>2, <1>3, HeldKept

LEMMA SubmitKeepsHeld ==
  ASSUME TypeOK, WorkInv', ~Faulty', NEW t \in Tasks, Held(t),
         NEW c \in Clients, Submit(c)
  PROVE  Held(t)'
<1>a. client \in [Clients -> ClientState] /\ queue \in Seq(Tasks)
  BY DEF TypeOK, ClientType, ExecutorType
<1>1. ASSUME NEW u \in Tasks, NEW k \in Keys \cup {None}, SubmitCreate(c, u, k)
      PROVE  Held(t)'
  <2>1. /\ UNCHANGED <<queue, worker, flags>> /\ client[c].pc = "idle"
        /\ \A d \in Clients \ {c} : client'[d] = client[d]
    BY <1>1, <1>a DEF SubmitCreate, At
  <2> QED
    BY <2>1, CallKeepsHeld DEF Submitting, Submits
<1>2. CASE SubmitEvent(c)
  <2>1. /\ UNCHANGED <<queue, worker, flags>> /\ client[c].pc = "submitEvent"
        /\ \/ Fault
           \/ client' = [client EXCEPT ![c].pc = "submitEnsure"]
    BY <1>2 DEF SubmitEvent, AppendEvent, At, Goto, executor
  <2>2. client' = [client EXCEPT ![c].pc = "submitEnsure"]
    BY <2>1, FaultIsFaulty
  <2>3. /\ \A d \in Clients \ {c} : client'[d] = client[d]
        /\ client'[c].pc = "submitEnsure" /\ client'[c].task = client[c].task
    BY <1>a, <2>2 DEF ClientState
  <2>4. Submitting(c, t) => Waits(t)'
    BY <2>3 DEF Submitting, Submits, Waits
  <2> QED
    BY <2>1, <2>3, <2>4, CallKeepsHeld
<1>3. CASE SubmitEnsure(c)
  <2>1. /\ UNCHANGED <<queue, flags>> /\ client[c].pc = "submitEnsure"
        /\ client' = [client EXCEPT ![c].pc = "submitPut"]
        /\ worker' = worker \/ worker.pc = "none"
    BY <1>3 DEF SubmitEnsure, At, Goto, executor, Ensured
  <2>2. /\ \A d \in Clients \ {c} : client'[d] = client[d]
        /\ client'[c].pc = "submitPut" /\ client'[c].task = client[c].task
    BY <1>a, <2>1 DEF ClientState
  <2>3. \A d \in Clients : Submitting(d, t) => Waits(t)'
    BY <2>2 DEF Submitting, Submits, Waits
  <2>4. InQueue(t) => Waits(t)'
    BY <2>1 DEF InQueue, Waits
  <2>5. InHand(t) => Held(t)'
    BY <2>1 DEF InHand, Waits, Held
  <2> QED
    BY <2>1, <2>3, <2>4, <2>5, HeldKept
<1>4. CASE SubmitPut(c)
  <2>1. /\ UNCHANGED <<flags, worker>> /\ client[c].pc = "submitPut"
        /\ queue' = Append(queue, client[c].task)
        /\ client' = [client EXCEPT ![c] = Idle]
    BY <1>4 DEF SubmitPut, At, Return
  <2>2. \A d \in Clients \ {c} : client'[d] = client[d]
    BY <1>a, <2>1
  <2>3. client[c].task \in Tasks
    BY <2>1 DEF TypeOK, ClientType
  <2>4. InQueue(t) => InQueue(t)'
    BY <1>a, <2>1, <2>3 DEF InQueue
  <2>5. client[c].task = t => InQueue(t)'
    <3>1. Len(queue) + 1 \in DOMAIN queue' /\ queue'[Len(queue) + 1] = client[c].task
      BY <1>a, <2>1, <2>3
    <3> QED
      BY <3>1 DEF InQueue
  <2>6. \A d \in Clients : Submitting(d, t) => Waits(t)'
    BY <2>2, <2>5 DEF Submitting, Waits
  <2>7. InHand(t) => Held(t)'
    BY <2>1 DEF InHand, Waits, Held
  <2> QED
    BY <2>1, <2>4, <2>6, <2>7, HeldKept DEF Waits
<1> QED
  BY <1>1, <1>2, <1>3, <1>4 DEF Submit

\* Cancel, pause and resume only move a task they are about: one that is reported,
\* or one that goes from the parking set back into the queue.
LEMMA ControlKeepsHeld ==
  ASSUME TypeOK, WorkInv, [Next]_vars, WorkInv', ~Faulty', NEW t \in Tasks,
         Open(t), Open(t)', Held(t),
         NEW c \in Clients, Cancel(c) \/ Pause(c) \/ Resume(c)
  PROVE  Held(t)'
<1>a. /\ client \in [Clients -> ClientState] /\ queue \in Seq(Tasks)
      /\ flags \in Flags
  BY DEF TypeOK, ClientType, ExecutorType
<1>b. /\ client[c].pc \notin Submits
      /\ \A d \in Clients \ {c} : client'[d] = client[d]
      /\ worker' = worker
  <2>1. client[c].pc \notin Submits /\ worker' = worker
    BY DEF Cancel, CancelRead, CancelQueued, CancelStarted, CancelEvent, CancelCompleted,
           CancelSave, Pause, PauseRead, PauseSave, PauseEvent, PausedEvent, Resume,
           ResumeRead, ResumeQueued, ResumeStarted, ResumedEvent, AppendEvent, Enter,
           At, Submits
  <2>2. \E x : client' = [client EXCEPT ![c] = x] \/ client' = [client EXCEPT ![c].pc = x]
    BY DEF Cancel, CancelRead, CancelQueued, CancelStarted, CancelEvent, CancelCompleted,
           CancelSave, Pause, PauseRead, PauseSave, PauseEvent, PausedEvent, Resume,
           ResumeRead, ResumeQueued, ResumeStarted, ResumedEvent, AppendEvent, Enter,
           SaveLocked, Return, Goto
  <2> QED
    BY <1>a, <2>1, <2>2
<1>c. ~Submitting(c, t)
  BY <1>b DEF Submitting
<1>1. CASE CancelQueued(c)
  <2>1. /\ queue' = queue /\ client[c].pc \in Locked
        /\ client[c].task \in flags.parked => flags' = Forget(client[c].task)
        /\ client[c].task \notin flags.parked => flags'.parked = flags.parked
    BY <1>1, <1>a DEF CancelQueued, At, Locked, Flags
  <2>2. client[c].task # t
    <3> SUFFICES ASSUME client[c].task = t PROVE FALSE
      OBVIOUS
    <3>1. report[t] = "none" /\ report'[t] = "none" /\ report \in [Tasks -> Terminal \cup {"none"}]
      BY WorkerTyped DEF Open
    <3>2. report' = [report EXCEPT ![t] = "cancelled"] \/ Fault
      BY <1>1, <3>1 DEF CancelQueued
    <3> QED
      BY <3>1, <3>2, FaultIsFaulty
  <2>3. t \in flags.parked => t \in flags'.parked
    BY <1>a, <2>1, <2>2 DEF Forget, Flags
  <2> QED
    BY <1>b, <1>c, <2>1, <2>3, CallKeepsHeld
<1>2. CASE ResumeQueued(c)
  <2> DEFINE u == client[c].task
             e == [client[c].snap EXCEPT !.status = "queued", !.pauseReq = FALSE]
  <2>1. /\ client[c].pc \in Locked
        /\ flags' = [flags EXCEPT !.pause = @ \ {u}, !.parked = @ \ {u}]
        /\ SaveLocked(c, e, "resumedEvent")
        /\ queue' = IF exec'[u] = e THEN Requeued(u) ELSE queue
    BY <1>2 DEF ResumeQueued, At, Locked
  <2>2. u \in Tasks /\ client[c].snap \in Execution
    BY <2>1, LockedCopy
  <2>3. flags'.parked = flags.parked \ {u}
    BY <1>a, <2>1 DEF Flags
  <2>4. InQueue(t) => InQueue(t)'
    BY <1>a, <2>1, <2>2 DEF InQueue, Requeued
  <2>5. t = u /\ t \in flags.parked => InQueue(t)'
    <3> SUFFICES ASSUME t = u, t \in flags.parked PROVE InQueue(t)'
      OBVIOUS
    <3>1. e \in Execution /\ e.status = "queued"
      BY <2>2 DEF Execution, Live
    <3> HIDE DEF e
    <3>2. exec' = [exec EXCEPT ![t] = e]
      BY <2>1, <3>1, SavedOrNot DEF Live, Open, IsTerminal, Terminal
    <3>3. exec'[t] = e
      BY <3>2, WorkerTyped
    <3>4. queue' = Append(queue, t)
      BY <2>1, <3>3 DEF Requeued
    <3>5. Len(queue) + 1 \in DOMAIN queue' /\ queue'[Len(queue) + 1] = t
      BY <1>a, <3>4
    <3> QED
      BY <3>5 DEF InQueue
  <2> HIDE DEF e, u
  <2>6. t \in flags.parked => t \in flags'.parked \/ Waits(t)'
    BY <2>3, <2>5 DEF Waits
  <2>7. \A d \in Clients : Submitting(d, t) => Waits(t)'
    BY <1>b, <1>c DEF Submitting, Waits
  <2>8. InHand(t) => Held(t)'
    BY <1>b DEF InHand, Waits, Held
  <2> QED
    BY <2>4, <2>6, <2>7, <2>8, HeldKept DEF Waits
<1>3. CASE ~CancelQueued(c) /\ ~ResumeQueued(c)
  <2>1. queue' = queue
    BY <1>3 DEF Cancel, CancelRead, CancelStarted, CancelEvent, CancelCompleted,
           CancelSave, Pause, PauseRead, PauseSave, PauseEvent, PausedEvent, Resume,
           ResumeRead, ResumeStarted, ResumedEvent, AppendEvent, Enter, executor
  <2>2. flags'.parked = flags.parked
    BY <1>3, <1>a DEF Cancel, CancelRead, CancelStarted, CancelEvent, CancelCompleted,
           CancelSave, Pause, PauseRead, PauseSave, PauseEvent, PausedEvent, Resume,
           ResumeRead, ResumeStarted, ResumedEvent, AppendEvent, Enter, executor, Flags
  <2> QED
    BY <1>b, <1>c, <2>1, <2>2, CallKeepsHeld
<1> QED
  BY <1>1, <1>2, <1>3

\* The worker takes a task out of the queue, sets a paused one aside, starts it, or
\* discards it - but only a task that somebody has reported.
LEMMA WorkerKeepsHeld ==
  ASSUME TypeOK, WorkInv, WorkInv', ~Faulty, CancelsReported, NEW t \in Tasks,
         Open(t), Open(t)', Held(t), Worker
  PROVE  Held(t)'
<1>a. /\ queue \in Seq(Tasks) /\ flags \in Flags /\ worker \in WorkerState
      /\ client' = client
  <2>1. client' = client
    BY DEF Worker, WorkerGet, WorkerCheck, WorkerStart, WorkerStarted, WorkerBind,
      WorkerProbe, WorkerEngaged, WorkerWake, WorkerDisengage, WorkerResumed,
      WorkerAct, WorkerFinish, WorkerReport, WorkerRead, WorkerCompleted,
      WorkerSave, WorkerExcept, WorkerCleanup
  <2> QED
    BY <2>1 DEF TypeOK, ExecutorType, WorkerType
<1>b. \A c \in Clients : Submitting(c, t) => Waits(t)'
  BY <1>a DEF Submitting, Waits
<1>1. CASE WorkerGet
  <2>1. /\ worker.pc = "take" /\ queue # <<>> /\ queue' = Tail(queue) /\ flags' = flags
        /\ worker' = [worker EXCEPT !.pc = "check", !.task = Head(queue)]
    BY <1>1 DEF WorkerGet, WorkerAt
  <2>2. worker'.pc = "check" /\ worker'.task = Head(queue)
    BY <1>a, <2>1 DEF WorkerState
  <2>3. ASSUME NEW i \in DOMAIN queue, queue[i] = t PROVE Waits(t)'
    <3>1. CASE i = 1
      BY <2>1, <2>2, <2>3, <3>1, <1>a DEF Waits, InHand
    <3>2. CASE i # 1
      <4>1. i - 1 \in DOMAIN queue' /\ queue'[i - 1] = t
        BY <1>a, <2>1, <2>3, <3>2
      <4> QED
        BY <4>1 DEF Waits, InQueue
    <3> QED
      BY <3>1, <3>2
  <2>4. InQueue(t) => Waits(t)'
    BY <2>3 DEF InQueue
  <2>5. ~InHand(t)
    BY <2>1 DEF InHand
  <2> QED
    BY <1>b, <2>1, <2>4, <2>5, HeldKept
<1>2. CASE WorkerCheck
  <2>1. /\ worker.pc = "check" /\ queue' = queue /\ exec' = exec
        /\ \/ /\ exec[worker.task].status = "paused"
              /\ flags' = [flags EXCEPT !.parked = @ \cup {worker.task}]
           \/ flags' = flags /\ worker' = [worker EXCEPT !.pc = "start"]
    BY <1>2 DEF WorkerCheck, WorkerAt, Skips, Run, durable
  <2>2. \/ worker.task \in flags'.parked /\ exec[worker.task].status = "paused"
        \/ worker'.pc = "start" /\ worker'.task = worker.task
    BY <1>a, <2>1 DEF Flags, WorkerState
  <2>3. InHand(t) => Held(t)'
    BY <2>1, <2>2 DEF InHand, Held, Waits
  <2>4. InQueue(t) => Waits(t)'
    BY <2>1 DEF InQueue, Waits
  <2>5. t \in flags.parked => t \in flags'.parked
    BY <1>a, <2>1 DEF Flags
  <2> QED
    BY <1>b, <2>3, <2>4, <2>5, HeldKept
<1>3. CASE WorkerStart
  <2>1. worker.pc = "start" /\ queue' = queue /\ flags' = flags
    BY <1>3 DEF WorkerStart, WorkerAt, executor
  <2>2. worker.task # t
    <3> SUFFICES ASSUME worker.task = t PROVE FALSE
      OBVIOUS
    <3>1. ~Discards(t)
      BY DEF Discards, CancelsReported, Open
    <3>2. Save(t, [exec[t] EXCEPT !.status = "running", !.started = TRUE])
      BY <1>3, <3>1 DEF WorkerStart
    <3>3. exec' = [exec EXCEPT ![t] = [exec[t] EXCEPT !.status = "running", !.started = TRUE]]
      BY <3>2 DEF Save, CanSave, Open, Terminal
    <3>4. exec'[t].started
      BY <3>3, WorkerTyped DEF Execution
    <3> QED
      BY <3>4 DEF Open
  <2>3. InQueue(t) => Waits(t)'
    BY <2>1 DEF InQueue, Waits
  <2> QED
    BY <1>b, <2>1, <2>2, <2>3, HeldKept DEF InHand
<1>4. CASE WorkerCleanup
  <2>1. /\ worker.pc \in {"cleanup", "dying"} /\ queue' = queue
        /\ flags' = Forget(worker.task)
    BY <1>4 DEF WorkerCleanup
  <2>2. flags'.parked = flags.parked \ {worker.task}
    BY <1>a, <2>1 DEF Forget, Flags
  <2>3. worker.task \notin flags.parked
    BY DEF WorkInv, Single
  <2>4. InQueue(t) => Waits(t)'
    BY <2>1 DEF InQueue, Waits
  <2> QED
    BY <1>b, <2>1, <2>2, <2>3, <2>4, HeldKept DEF InHand
<1>5. CASE ~(WorkerGet \/ WorkerCheck \/ WorkerStart \/ WorkerCleanup)
  <2>1. worker.pc \notin {"check", "start"} /\ queue' = queue
    BY <1>5 DEF Worker, WorkerStarted, WorkerBind, WorkerProbe, WorkerEngaged, WorkerWake,
      WorkerDisengage, WorkerResumed, WorkerAct, WorkerFinish, WorkerReport, WorkerRead,
      WorkerCompleted, WorkerSave, WorkerExcept, WorkerAt, executor
  <2>2. flags'.parked = flags.parked
    BY <1>5, <1>a DEF Worker, WorkerStarted, WorkerBind, WorkerProbe, WorkerEngaged,
      WorkerWake, WorkerDisengage, WorkerResumed, WorkerAct, WorkerFinish, WorkerReport,
      WorkerRead, WorkerCompleted, WorkerSave, WorkerExcept, executor, Flags
  <2>3. InQueue(t) => Waits(t)'
    BY <2>1 DEF InQueue, Waits
  <2> QED
    BY <1>b, <2>1, <2>2, <2>3, HeldKept DEF InHand
<1> QED
  BY <1>1, <1>2, <1>3, <1>4, <1>5

LEMMA StepKeepsReported ==
  ASSUME TypeOK, WorkInv, [Next]_vars, CancelsReported
  PROVE  CancelsReported'
<1> SUFFICES ASSUME ~Faulty', NEW t \in Tasks, t \in flags'.cancel
             PROVE  report'[t] # "none" \/ exec'[t].started
  <2>1. TypeOK'
    BY StepKeepsType
  <2>2. \A t \in flags'.cancel : t \in Tasks
    BY <2>1 DEF TypeOK, ExecutorType, Flags
  <2> QED
    BY <2>2 DEF CancelsReported
<1>1. ~Faulty /\ ReportsStay /\ (exec[t].started => exec'[t].started)
  BY FaultStays, ReportsStayed, BegunStays
<1>2. CASE t \in flags.cancel
  BY <1>1, <1>2 DEF CancelsReported, ReportsStay
<1>3. ASSUME t \notin flags.cancel, NEW c \in Clients, CancelQueued(c)
      PROVE  report'[t] # "none"
  <2>1. t = client[c].task
    BY <1>3 DEF CancelQueued, Forget, TypeOK, ExecutorType, Flags
  <2>2. \/ report[t] = "none" /\ report' = [report EXCEPT ![t] = "cancelled"]
        \/ report[t] # "none"
        \/ Fault
    BY <1>3, <2>1 DEF CancelQueued
  <2> QED
    BY <1>1, <2>2, FaultIsFaulty, WorkerTyped DEF ReportsStay
<1>4. ASSUME t \notin flags.cancel, NEW c \in Clients, CancelStarted(c)
      PROVE  exec[t].started
  <2>1. t = client[c].task
    BY <1>4 DEF CancelStarted, TypeOK, ExecutorType, Flags
  <2>2. FreshCopy(c) /\ ~NeverStarted(client[c].snap)
    BY <1>4, LockedCopy DEF CancelStarted, At, Locked
  <2> QED
    BY <2>1, <2>2 DEF FreshCopy, NeverStarted, Live
<1>5. CASE /\ \A c \in Clients : ~CancelQueued(c) /\ ~CancelStarted(c)
           /\ t \notin flags.cancel
  <2>1. flags \in Flags
    BY DEF TypeOK, ExecutorType
  <2>2. ASSUME NEW c \in Clients, Client(c) PROVE flags'.cancel \subseteq flags.cancel
    BY <1>5, <2>1, <2>2
    DEF Client, Submit, SubmitCreate, SubmitEvent, SubmitEnsure, SubmitPut, Cancel,
      CancelRead, CancelEvent, CancelCompleted, CancelSave,
      Pause, PauseRead, PauseSave, PauseEvent, PausedEvent, Resume, ResumeRead,
      ResumeQueued, ResumeStarted, ResumedEvent, AppendEvent, Enter, executor, Flags
  <2>3. ASSUME Worker PROVE flags'.cancel \subseteq flags.cancel
    BY <2>1, <2>3
    DEF Worker, WorkerGet, WorkerCheck, WorkerStart, WorkerStarted, WorkerBind,
      WorkerProbe, WorkerEngaged, WorkerWake, WorkerDisengage, WorkerResumed,
      WorkerAct, WorkerFinish, WorkerReport, WorkerRead, WorkerCompleted,
      WorkerSave, WorkerExcept, WorkerCleanup, executor, Forget, Flags
  <2>4. CASE WorkerFault \/ DeadlinePasses \/ Crash \/ Recover \/ UNCHANGED vars
    BY <1>5, <2>4 DEF WorkerFault, DeadlinePasses, Crash, Recover, executor, vars, NoFlags
  <2> QED
    BY <1>5, <2>2, <2>3, <2>4 DEF Next
<1> QED
  BY <1>1, <1>2, <1>3, <1>4, <1>5

LEMMA StepKeepsHeld ==
  TypeOK /\ WorkInv /\ WorkInv' /\ HeldInv /\ [Next]_vars => HeldInv'
<1> SUFFICES ASSUME TypeOK, WorkInv, WorkInv', HeldInv, [Next]_vars PROVE HeldInv'
  OBVIOUS
<1>1. CancelsReported'
  BY StepKeepsReported DEF HeldInv
<1>2. ASSUME up', ~Faulty', NEW t \in Tasks, Open(t)' PROVE Held(t)'
  <2>1. ~Faulty
    BY <1>2, FaultStays
  <2>2. CASE exec[t].status = "absent"
    BY <1>2, <2>2, OnlySubmitCreates DEF Held
  <2>3. CASE ~up
    <3>1. Recover \/ UNCHANGED vars
      <4>1. \A c \in Clients : ~Client(c)
        BY <2>3 DEF Client, Submit, SubmitCreate, SubmitEvent, SubmitEnsure, SubmitPut,
          Cancel, CancelRead, CancelQueued, CancelStarted, CancelEvent, CancelCompleted,
          CancelSave, Pause, PauseRead, PauseSave, PauseEvent, PausedEvent, Resume,
          ResumeRead, ResumeQueued, ResumeStarted, ResumedEvent, AppendEvent, Enter
      <4>2. ~Worker /\ ~WorkerFault /\ ~DeadlinePasses /\ ~Crash
        BY <2>3 DEF Worker, WorkerGet, WorkerCheck, WorkerStart, WorkerStarted,
          WorkerBind, WorkerProbe, WorkerEngaged, WorkerWake, WorkerDisengage,
          WorkerResumed, WorkerAct, WorkerFinish, WorkerReport, WorkerRead,
          WorkerCompleted, WorkerSave, WorkerExcept, WorkerCleanup, WorkerAt,
          WorkerFault, DeadlinePasses, Crash
      <4> QED
        BY <4>1, <4>2 DEF Next
    <3>2. CASE UNCHANGED vars
      BY <1>2, <2>3, <3>2 DEF vars
    <3>3. CASE Recover
      <4>1. exec[t].status \in Live =>
              exec'[t] = Recovered(t) /\ exec[t] \in Execution
        BY <3>3, WorkerTyped DEF Recover
      <4>2. exec[t].status \notin Live => exec'[t] = exec[t]
        BY <3>3 DEF Recover
      <4>3. exec[t].status \in Live => Recovered(t).status \in Terminal
        BY <4>1, WorkerTyped DEF Recovered, Finished, Interrupted, Execution, Terminal
      <4> QED
        BY <1>2, <4>1, <4>2, <4>3 DEF Open, Live, Terminal
    <3> QED
      BY <3>1, <3>2, <3>3
  <2>4. CASE up /\ exec[t].status # "absent"
    <3>1. Open(t) /\ Held(t)
      BY <1>2, <2>1, <2>4, BegunStays DEF HeldInv, AllHeld
    <3>2. ASSUME NEW c \in Clients, Client(c) PROVE Held(t)'
      BY <1>2, <3>1, <3>2, SubmitKeepsHeld, ControlKeepsHeld DEF Client
    <3>3. CASE Worker
      BY <1>2, <2>1, <3>1, <3>3, WorkerKeepsHeld DEF HeldInv
    <3>4. CASE WorkerFault
      BY <1>2, <3>4, FaultIsFaulty DEF WorkerFault
    <3>5. CASE DeadlinePasses \/ UNCHANGED vars
      <4>1. UNCHANGED <<exec, queue, client, flags>>
        BY <3>5 DEF DeadlinePasses, durable, executor, vars
      <4>2. InHand(t) => InHand(t)'
        BY <3>5 DEF DeadlinePasses, InHand, vars
      <4> QED
        BY <3>1, <4>1, <4>2 DEF Held, Waits, InQueue, Submitting
    <3>6. CASE Crash
      BY <1>2, <3>6 DEF Crash
    <3>7. CASE Recover
      BY <2>4, <3>7 DEF Recover
    <3> QED
      BY <3>2, <3>3, <3>4, <3>5, <3>6, <3>7 DEF Next
  <2> QED
    BY <2>2, <2>3, <2>4
<1> QED
  BY <1>1, <1>2 DEF HeldInv, AllHeld

\* While storage works no accepted task is lost, whatever callers, worker, crash and
\* recovery do in between: what waits for its start is with its submitter, in the
\* queue, with the worker, or paused and parked (submit, the worker's two locked
\* sections, and what cancel, pause and resume do to a task that never started).
THEOREM NoTaskLost == Spec => [](~Faulty => QueuedIsEnqueued)
<1>1. Init => HeldInv
  <2> SUFFICES ASSUME Init PROVE HeldInv
    OBVIOUS
  <2>1. flags.cancel = {} /\ \A t \in Tasks : exec[t].status = "absent"
    BY DEF Init, NoFlags, Absent
  <2> QED
    BY <2>1 DEF HeldInv, CancelsReported, AllHeld, Open
<1>2. HeldInv => (~Faulty => QueuedIsEnqueued)
  <2> SUFFICES ASSUME HeldInv, ~Faulty, up, NEW t \in Tasks,
                      exec[t].status \in {"queued", "paused"},
                      ~exec[t].started, report[t] = "none"
               PROVE  \/ \E i \in DOMAIN queue : queue[i] = t
                      \/ \E c \in Clients :
                           /\ client[c].task = t
                           /\ client[c].pc \in {"submitEvent", "submitEnsure", "submitPut"}
                      \/ worker.task = t
                      \/ exec[t].status = "paused" /\ t \in flags.parked
    BY DEF QueuedIsEnqueued
  <2>1. Held(t)
    BY DEF HeldInv, AllHeld, Open
  <2> QED
    BY <2>1 DEF Held, Waits, InQueue, InHand, Submitting, Submits
<1> QED
  BY <1>1, <1>2, StepKeepsHeld, WorkInvHolds, PTL DEF Spec

-----------------------------------------------------------------------------
(* The device session a task acted in stays on its record.                   *)

Bound(t) == acted[t] > 0 => exec[t].bound
BoundAtWork ==
  worker.pc \in {"round", "engaged", "paused", "waking", "woken", "act"} =>
    exec[worker.task].bound
\* The worker's copy was read after the last round.
BoundCopy ==
  worker.pc \in {"complete", "final", "exceptEvent", "exceptSave"} =>
    (acted[worker.task] > 0 => worker.snap.bound)
BoundInv == (\A t \in Tasks : Bound(t)) /\ BoundAtWork /\ BoundCopy

\* Of a task that has started only the worker's last save replaces the binding:
\* what the calls save under the lock is what they read there, and the rest of a
\* cancel is of a task that never started.
LEMMA CallKeepsBound ==
  ASSUME TypeOK, WorkInv, NEW c \in Clients, Client(c), NEW t \in Tasks,
         exec[t].started, exec[t].bound
  PROVE  exec'[t].bound
<1>a. /\ exec \in [Tasks -> Execution] /\ exec[t] \in Execution
      /\ client \in [Clients -> ClientState]
  BY DEF TypeOK, StoreType, ClientType
<1>1. CASE CancelStarted(c) \/ PauseSave(c) \/ ResumeQueued(c) \/ ResumeStarted(c)
  <2> DEFINE s == client[c].snap
             u == client[c].task
  <2>1. client[c].pc \in Locked
    BY <1>1 DEF CancelStarted, PauseSave, ResumeQueued, ResumeStarted, At, Locked
  <2>2. u \in Tasks /\ s \in Execution /\ FreshCopy(c)
    BY <2>1, LockedCopy
  <2>3. \E e, pc : SaveLocked(c, e, pc) /\ e.bound = s.bound
    <3>1. [s EXCEPT !.status = "cancelling", !.cancelReq = TRUE].bound = s.bound
      BY <2>2 DEF Execution
    <3>2. [s EXCEPT !.pauseReq = TRUE, !.status = PausedStatus(@)].bound = s.bound
      BY <2>2 DEF Execution
    <3>3. [s EXCEPT !.status = "queued", !.pauseReq = FALSE].bound = s.bound
      BY <2>2 DEF Execution
    <3>4. [s EXCEPT !.pauseReq = FALSE].bound = s.bound
      BY <2>2 DEF Execution
    <3> QED
      BY <1>1, <3>1, <3>2, <3>3, <3>4
      DEF CancelStarted, PauseSave, ResumeQueued, ResumeStarted
  <2>4. PICK e : /\ e.bound = s.bound
                 /\ \/ exec' = exec
                    \/ exec' = [exec EXCEPT ![u] = e] /\ ~IsTerminal(u)
                    \/ exec' = [exec EXCEPT ![u] = e] /\ exec[u] = e
    BY <2>3 DEF SaveLocked, Save, CanSave, IsTerminal
  <2>5. ~IsTerminal(u) => exec[u] = s
    BY <2>2 DEF FreshCopy
  <2> HIDE DEF s, u
  <2>6. CASE exec' = exec
    BY <2>6
  <2>7. CASE exec' = [exec EXCEPT ![u] = e] /\ ~IsTerminal(u)
    BY <1>a, <2>2, <2>4, <2>5, <2>7
  <2>8. CASE exec' = [exec EXCEPT ![u] = e] /\ exec[u] = e
    BY <1>a, <2>8
  <2> QED
    BY <2>4, <2>6, <2>7, <2>8
<1>2. CASE CancelSave(c)
  <2>1. client[c].task \in Tasks /\ ~exec[client[c].task].started
    BY <1>2, WorkerTyped DEF CancelSave, At, WorkInv, Cancelled, CancelCopy, Cancels
  <2>2. exec' = exec \/ exec' = [exec EXCEPT ![client[c].task] = client[c].snap]
    BY <1>2 DEF CancelSave, SaveLocked, Save
  <2> QED
    BY <1>a, <2>1, <2>2
<1>3. ASSUME NEW u \in Tasks, NEW k \in Keys \cup {None}, SubmitCreate(c, u, k)
      PROVE  exec'[t].bound
  <2>1. exec' = exec \/ exec' = [exec EXCEPT ![u].status = "queued"]
    BY <1>3 DEF SubmitCreate
  <2>2. CASE exec' = [exec EXCEPT ![u].status = "queued"]
    BY <1>a, <2>2 DEF Execution
  <2> QED
    BY <2>1, <2>2
<1>4. CASE exec' = exec
  BY <1>4
<1> QED
  BY <1>1, <1>2, <1>3, <1>4
  DEF Client, Submit, SubmitEvent, SubmitEnsure, SubmitPut, Cancel,
      CancelRead, CancelQueued, CancelEvent, CancelCompleted, Pause, PauseRead,
      PauseEvent, PausedEvent, Resume, ResumeRead, ResumedEvent, AppendEvent, Enter, durable

LEMMA WorkerKeepsBound ==
  ASSUME TypeOK, WorkInv, Worker, ~WorkerSave, NEW t \in Tasks, exec[t].bound
  PROVE  exec'[t].bound
<1>a. exec \in [Tasks -> Execution] /\ exec[t] \in Execution
  BY DEF TypeOK, StoreType
<1>1. CASE WorkerStart \/ WorkerBind \/ WorkerProbe \/ WorkerDisengage
  <2> DEFINE u == worker.task
  <2>1. u \in Tasks
    BY <1>1, WorkerTyped DEF WorkerStart, WorkerBind, WorkerProbe, WorkerDisengage, WorkerAt
  <2>2. exec[u] \in Execution
    BY <1>a, <2>1
  <2>3. /\ [exec[u] EXCEPT !.status = "running", !.started = TRUE].bound = exec[u].bound
        /\ [exec[u] EXCEPT !.bound = TRUE].bound = TRUE
        /\ [exec[u] EXCEPT !.status = "paused"].bound = exec[u].bound
        /\ [exec[u] EXCEPT !.status = "running", !.pauseReq = FALSE].bound = exec[u].bound
    BY <2>2 DEF Execution
  <2>4. exec' = exec \/ \E e : exec' = [exec EXCEPT ![u] = e] /\ (exec[u].bound => e.bound)
    BY <1>1, <2>3 DEF WorkerStart, WorkerBind, WorkerProbe, WorkerDisengage, Save
  <2> HIDE DEF u
  <2> QED
    BY <1>a, <2>1, <2>4
<1>2. CASE exec' = exec
  BY <1>2
<1> QED
  BY <1>1, <1>2
  DEF Worker, WorkerGet, WorkerCheck, WorkerStarted, WorkerEngaged, WorkerWake,
      WorkerResumed, WorkerAct, WorkerFinish, WorkerReport, WorkerRead, WorkerCompleted,
      WorkerExcept, WorkerCleanup, durable

LEMMA StepKeepsBinding ==
  ASSUME TypeOK, WorkInv, [Next]_vars, ~WorkerSave, NEW t \in Tasks,
         exec[t].started, exec[t].bound
  PROVE  exec'[t].bound
<1>1. CASE WorkerFault \/ DeadlinePasses \/ Crash \/ UNCHANGED vars
  BY <1>1 DEF WorkerFault, DeadlinePasses, Crash, durable, vars
<1>2. CASE Recover
  <2>1. exec' = [u \in Tasks |-> IF exec[u].status \in Live THEN Recovered(u) ELSE exec[u]]
    BY <1>2 DEF Recover
  <2>2. exec[t] \in Execution
    BY WorkerTyped
  <2>3. Recovered(t).bound = exec[t].bound
    BY <2>2 DEF Recovered, Finished, Interrupted, Execution
  <2> QED
    BY <2>1, <2>3
<1> QED
  BY <1>1, <1>2, CallKeepsBound, WorkerKeepsBound DEF Next

\* Where the worker is after a step, in terms of where it was.
LEMMA WorkerGoes ==
  ASSUME TypeOK, [Next]_vars
  PROVE  \/ worker' = worker
         \/ worker'.pc \notin {"round", "engaged", "paused", "waking", "woken", "act",
                               "complete", "final", "exceptEvent", "exceptSave"}
         \/ /\ worker'.task = worker.task /\ worker.pc \notin {"none", "take"}
            /\ worker'.pc \in {"round", "engaged", "paused", "waking", "woken", "act"}
            /\ \/ worker.pc \in {"round", "engaged", "paused", "waking", "woken", "act"}
               \/ WorkerBind
         \/ /\ worker'.task = worker.task /\ worker'.snap = worker.snap
            /\ worker'.pc \in {"final", "exceptSave"}
            /\ worker.pc \in {"complete", "exceptEvent"}
         \/ WorkerRead \/ WorkerExcept
<1>a. worker \in WorkerState
  BY DEF TypeOK, WorkerType
<1>1. ASSUME NEW c \in Clients, Client(c)
      PROVE  worker' = worker \/ worker' = Waiting
  BY <1>1
  DEF Client, Submit, SubmitCreate, SubmitEvent, SubmitEnsure, SubmitPut, Cancel, CancelRead,
      CancelQueued, CancelStarted, CancelEvent, CancelCompleted, CancelSave,
      Pause, PauseRead, PauseSave, PauseEvent, PausedEvent, Resume, ResumeRead,
      ResumeQueued, ResumeStarted, ResumedEvent, AppendEvent, Enter, Ensured
<1>2. Waiting.pc = "take" /\ NoThread.pc = "none"
  BY DEF Waiting, NoThread
<1>3. CASE WorkerBind
  <2>1. worker.pc = "prepare" /\ (worker' = [worker EXCEPT !.pc = "round"] \/
                                  worker' = [worker EXCEPT !.pc = "report", !.verdict = "failed"])
    BY <1>3 DEF WorkerBind, WorkerAt, Run
  <2> QED
    BY <1>3, <1>a, <2>1 DEF WorkerState
<1>4. CASE WorkerProbe \/ WorkerEngaged \/ WorkerWake \/ WorkerDisengage \/ WorkerResumed
           \/ WorkerAct
  <2>1. /\ worker.pc \in {"round", "engaged", "paused", "waking", "woken", "act"}
        /\ \/ \E pc \in {"round", "engaged", "paused", "waking", "woken", "act"} :
                worker' = [worker EXCEPT !.pc = pc]
           \/ \E v : worker' = [worker EXCEPT !.pc = "report", !.verdict = v]
    BY <1>4 DEF WorkerProbe, WorkerEngaged, WorkerWake, WorkerDisengage, WorkerResumed,
                WorkerAct, WorkerAt, Run, Conclude, Boundary
  <2> QED
    BY <1>a, <2>1 DEF WorkerState
<1>5. CASE DeadlinePasses
  <2>1. /\ worker.pc \in {"prepare", "round", "engaged", "paused", "waking", "woken", "act"}
        /\ worker' = [worker EXCEPT !.due = TRUE]
    BY <1>5 DEF DeadlinePasses
  <2> QED
    BY <1>a, <2>1 DEF WorkerState
<1>6. CASE WorkerCompleted
  <2>1. \/ worker.pc = "complete" /\ worker' = [worker EXCEPT !.pc = "final"]
        \/ worker.pc = "exceptEvent" /\ worker' = [worker EXCEPT !.pc = "exceptSave"]
    BY <1>6 DEF WorkerCompleted, Run
  <2> QED
    BY <1>a, <2>1 DEF WorkerState
<1>7. CASE WorkerGet \/ WorkerCheck \/ WorkerStart \/ WorkerStarted \/ WorkerFinish
           \/ WorkerReport \/ WorkerSave \/ WorkerCleanup \/ WorkerFault \/ Crash
  <2>1. \/ worker' = Waiting \/ worker' = NoThread
        \/ \E pc \in {"check", "start", "cleanup", "started", "prepare", "report", "read",
                      "except", "dying"} :
             \/ worker' = [worker EXCEPT !.pc = pc]
             \/ \E x : \/ worker' = [worker EXCEPT !.pc = pc, !.task = x]
                       \/ worker' = [worker EXCEPT !.pc = pc, !.verdict = x]
    BY <1>7 DEF WorkerGet, WorkerCheck, WorkerStart, WorkerStarted, WorkerFinish,
                WorkerReport, WorkerSave, WorkerCleanup, WorkerFault, Crash, Run, Conclude
  <2> QED
    BY <1>a, <1>2, <2>1 DEF WorkerState
<1>8. CASE Recover \/ UNCHANGED vars
  BY <1>8 DEF Recover, vars
<1> QED
  BY <1>1, <1>2, <1>3, <1>4, <1>5, <1>6, <1>7, <1>8 DEF Next, Worker

LEMMA StepKeepsBound ==
  TypeOK /\ WorkInv /\ BoundInv /\ [Next]_vars => BoundInv'
<1> SUFFICES ASSUME TypeOK, WorkInv, BoundInv, [Next]_vars PROVE BoundInv'
  OBVIOUS
<1> DEFINE w == worker.task
           Holding == {"round", "engaged", "paused", "waking", "woken", "act"}
           Copying == {"complete", "final", "exceptEvent", "exceptSave"}
<1>a. /\ worker \in WorkerState /\ exec \in [Tasks -> Execution]
      /\ acted \in [Tasks -> 0..MaxSteps] /\ MaxSteps \in Nat
      /\ worker.pc \notin {"none", "take"} => w \in Tasks
  BY WorkerTyped, BoundAssumption
<1>b. \A t \in Tasks : acted[t] > 0 => exec[t].started /\ exec[t].bound
  BY DEF WorkInv, Rows, Row, BoundInv, Bound
<1>c. worker.pc \in Holding => w \in Tasks /\ exec[w].started /\ exec[w].bound
  BY <1>a DEF WorkInv, AtWork, Working, BoundInv, BoundAtWork
<1>d. \/ acted' = acted
      \/ /\ WorkerAct
         /\ worker.pc = "act"
         /\ \A u \in Tasks \ {w} : acted'[u] = acted[u]
  BY ActsAtWork
<1>e. WorkerSave => /\ worker.pc \in {"final", "exceptSave"} /\ acted' = acted
                    /\ worker'.pc \notin Holding \cup Copying
                    /\ \/ exec' = exec
                       \/ exec' = [exec EXCEPT ![w] = worker.snap]
  <2> SUFFICES ASSUME WorkerSave
               PROVE  /\ worker.pc \in {"final", "exceptSave"} /\ acted' = acted
                      /\ worker'.pc \notin Holding \cup Copying
                      /\ \/ exec' = exec
                         \/ exec' = [exec EXCEPT ![w] = worker.snap]
    OBVIOUS
  <2>1. /\ worker.pc \in {"final", "exceptSave"} /\ acted' = acted
        /\ \/ exec' = exec
           \/ exec' = [exec EXCEPT ![w] = worker.snap]
        /\ \E pc \in {"cleanup", "except", "dying"} : worker' = [worker EXCEPT !.pc = pc]
    BY DEF WorkerSave, Save, Run, history
  <2> QED
    BY <1>a, <2>1 DEF WorkerState
<1>1. ASSUME NEW t \in Tasks PROVE Bound(t)'
  <2>1. CASE WorkerSave
    <3>1. CASE t = w
      <4>1. acted[t] > 0 => worker.snap.bound
        BY <1>e, <2>1, <3>1 DEF BoundInv, BoundCopy
      <4>2. exec'[t] = exec[t] \/ exec'[t] = worker.snap
        BY <1>a, <1>e, <2>1, <3>1
      <4> QED
        BY <1>b, <1>e, <2>1, <4>1, <4>2 DEF Bound
    <3>2. CASE t # w
      BY <1>a, <1>b, <1>e, <2>1, <3>2 DEF Bound
    <3> QED
      BY <3>1, <3>2
  <2>2. CASE ~WorkerSave /\ acted'[t] = acted[t]
    BY <1>b, <2>2, StepKeepsBinding DEF Bound
  <2>3. CASE ~WorkerSave /\ t = w /\ worker.pc \in Holding
    BY <1>c, <2>3, StepKeepsBinding DEF Bound
  <2> QED
    BY <1>d, <2>1, <2>2, <2>3
<1>2. BoundAtWork'
  <2> SUFFICES ASSUME worker'.pc \in Holding PROVE exec'[worker'.task].bound
    BY DEF BoundAtWork
  <2>1. ~WorkerSave
    BY <1>e
  <2>2. CASE \/ worker' = worker
             \/ worker'.task = w /\ worker.pc \in Holding
    BY <1>c, <2>1, <2>2, StepKeepsBinding
  <2>3. CASE WorkerBind
    <3>1. worker.pc = "prepare" /\ w \in Tasks
      BY <1>a, <2>3 DEF WorkerBind, WorkerAt
    <3>2. exec[w].status \in {"running", "cancelling"}
      BY <1>a, <2>3 DEF WorkerBind, WorkerState
    <3>3. /\ exec' = [exec EXCEPT ![w] = [exec[w] EXCEPT !.bound = TRUE]]
          /\ worker' = [worker EXCEPT !.pc = "round"]
      BY <2>3, <3>2 DEF WorkerBind, Save, CanSave, Terminal, Run
    <3> QED
      BY <1>a, <3>1, <3>3 DEF Execution, WorkerState
  <2>4. CASE WorkerRead \/ WorkerExcept
    <3>1. \/ \E x : worker' = [worker EXCEPT !.pc = "complete", !.snap = x]
          \/ \E x : worker' = [worker EXCEPT !.pc = "exceptEvent", !.snap = x]
          \/ worker' = [worker EXCEPT !.pc = "cleanup"]
      BY <2>4 DEF WorkerRead, WorkerExcept, Run
    <3> QED
      BY <1>a, <3>1 DEF WorkerState
  <2> QED
    BY <2>2, <2>3, <2>4, WorkerGoes
<1>3. BoundCopy'
  <2> SUFFICES ASSUME worker'.pc \in Copying, acted'[worker'.task] > 0
               PROVE  worker'.snap.bound
    BY DEF BoundCopy
  <2>1. CASE worker' = worker \/ (worker'.task = w /\ worker'.snap = worker.snap
                                  /\ worker.pc \in {"complete", "exceptEvent"})
    BY <1>d, <2>1 DEF BoundInv, BoundCopy
  <2>2. CASE WorkerRead \/ WorkerExcept
    <3>1. \/ worker' = [worker EXCEPT !.pc = "complete",
                                      !.snap = Finished(exec[w], worker.verdict)]
          \/ worker' = [worker EXCEPT !.pc = "exceptEvent",
                                      !.snap = [exec[w] EXCEPT !.status = "failed",
                                                               !.error = "internal"]]
          \/ worker' = [worker EXCEPT !.pc = "cleanup"]
      BY <2>2 DEF WorkerRead, WorkerExcept, Run
    <3>2. worker.pc \in {"read", "except"} /\ w \in Tasks /\ exec[w] \in Execution
      BY <1>a, <2>2 DEF WorkerRead, WorkerExcept, WorkerAt
    <3>3. /\ Finished(exec[w], worker.verdict).bound = exec[w].bound
          /\ [exec[w] EXCEPT !.status = "failed", !.error = "internal"].bound
               = exec[w].bound
      BY <3>2 DEF Finished, Execution
    <3>4. \/ worker'.snap = Finished(exec[w], worker.verdict)
          \/ worker'.snap = [exec[w] EXCEPT !.status = "failed", !.error = "internal"]
      BY <1>a, <3>1 DEF WorkerState
    <3>5. worker'.task = w
      BY <1>a, <3>1 DEF WorkerState
    <3>6. acted'[w] = acted[w]
      BY <1>d, <3>2
    <3> QED
      BY <1>b, <3>2, <3>3, <3>4, <3>5, <3>6
  <2> QED
    BY <2>1, <2>2, WorkerGoes
<1> QED
  BY <1>1, <1>2, <1>3 DEF BoundInv

\* Whatever callers, worker, faults, crashes and recoveries save, and from whichever
\* older copy of the row: a task that acted keeps its device session on record.
THEOREM ActedStaysBound == Spec => []ActedIsBound
<1>1. Init => BoundInv
  <2> SUFFICES ASSUME Init PROVE BoundInv
    OBVIOUS
  <2>1. worker.pc = "none" /\ \A t \in Tasks : acted[t] = 0
    BY DEF Init, NoThread, Waiting
  <2> QED
    BY <2>1 DEF BoundInv, Bound, BoundAtWork, BoundCopy
<1>2. BoundInv => ActedIsBound
  BY DEF BoundInv, Bound, ActedIsBound
<1> QED
  BY <1>1, <1>2, StepKeepsBound, WorkInvHolds, PTL DEF Spec

\* No unlocked save of a caller ends the row of a task the worker is busy with: the
\* only such save is the rest of a cancel, of a task the worker then discards.
THEOREM RowsLiveAtWork == Spec => []RowLiveAtWork
<1>1. WorkInv => RowLiveAtWork
  BY DEF WorkInv, AtWork, Working, Ending, RowLiveAtWork
<1> QED
  BY <1>1, WorkInvHolds, PTL

-----------------------------------------------------------------------------
(* What the invariant is for.                                                *)

\* While storage works a terminal row says what the report says and offers a
\* result exactly when there is one: the unlocked last saves of cancel and of
\* the worker, and recovery, each write the row after the report it repeats.
THEOREM ReportsAgree == Spec => [](~Faulty => ReportAgrees)
<1>1. WorkInv => (~Faulty => ReportAgrees)
  BY DEF WorkInv, Healthy
<1> QED
  BY <1>1, WorkInvHolds, PTL

\* Whatever fails, recovery calls the outcome of a task known only if the task
\* never touched the device.
THEOREM KnownFailuresAreKnown == Spec => []KnownFailureIsKnown
<1>1. WorkInv => KnownFailureIsKnown
  BY DEF WorkInv, Rows, Row, KnownFailureIsKnown
<1> QED
  BY <1>1, WorkInvHolds, PTL

\* While storage works, the items the worker set aside are those of paused tasks
\* that never started, and their pause event is set: resume and cancel find them.
THEOREM ParkedArePaused == Spec => [](~Faulty => ParkedIsPaused)
<1>1. TypeOK /\ WorkInv => (~Faulty => ParkedIsPaused)
  <2> SUFFICES ASSUME TypeOK, WorkInv, ~Faulty, NEW t \in flags.parked
               PROVE  exec[t].status = "paused" /\ ~exec[t].started /\ t \in flags.pause
    BY DEF ParkedIsPaused
  <2>1. t \in Tasks /\ ParkedRow(t) /\ t \in items
    BY WorkerTyped DEF WorkInv, Unstarted, Registered
  <2> QED
    BY <2>1 DEF WorkInv, Healthy, PausedFlagged, ParkedRow
<1> QED
  BY <1>1, WorkInvHolds, PTL

\* A task that is reported neither starts nor acts any more, whatever fails: the
\* worker that already holds a task cancelled in the queue discards it.
THEOREM ReportsEndWork == Spec => ReportEndsWork
<1>1. TypeOK /\ WorkInv /\ [Next]_vars =>
        [\A t \in Tasks : report[t] # "none" =>
           acted'[t] = acted[t] /\ exec'[t].started = exec[t].started]_vars
  <2> SUFFICES ASSUME TypeOK, WorkInv, [Next]_vars, NEW t \in Tasks, report[t] # "none"
               PROVE  acted'[t] = acted[t] /\ exec'[t].started = exec[t].started
    OBVIOUS
  <2>1. acted'[t] = acted[t]
    BY ActsAtWork
  <2>2. Moves(t)
    BY StepMoves
  <2>3. exec'[t].started = exec[t].started
    BY <2>2, View
    DEF Moves, Reports, Closes, L!Submit, L!Reorder, L!Begin, L!Takeover, L!Stay, L!Keeps
  <2> QED
    BY <2>1, <2>3
<1> QED
  BY <1>1, WorkInvHolds, PTL DEF Spec, ReportEndsWork

\* No device step is taken while the row says paused.
THEOREM PausedTasksRest == Spec => NoStepWhilePaused
<1>1. TypeOK /\ WorkInv /\ [Next]_vars =>
        [\A t \in Tasks : exec[t].status = "paused" => acted'[t] = acted[t]]_vars
  BY ActsAtWork
<1> QED
  BY <1>1, WorkInvHolds, PTL DEF Spec, NoStepWhilePaused

\* While storage works every step of the executor, of any number of callers, of
\* the worker, of crash and recovery, is a move of the lifecycle: the executor
\* implements TaskLifecycle.
THEOREM LifecycleImplemented == Spec /\ [](~Faulty) => ImplementsLifecycle
<1>1. Init => L!Init
  BY DEF Init, L!Init, StatusOf, BegunOf, Absent
<1>2. TypeOK /\ WorkInv /\ (~Faulty)' /\ [Next]_vars => [L!Next]_(L!vars)
  <2> SUFFICES ASSUME TypeOK, WorkInv, ~Faulty', [Next]_vars, NEW t \in Tasks
               PROVE  L!Move(t)
    BY DEF L!Next
  <2>1. Moves(t)
    BY StepMoves
  <2> QED
    BY <2>1 DEF Moves, Reports, Closes, L!Move
<1> QED
  BY <1>1, <1>2, WorkInvHolds, PTL DEF Spec, ImplementsLifecycle

-----------------------------------------------------------------------------
(* Cancellation is cooperative.                                              *)

LateType == late \in [Tasks -> Nat]

\* Steps of the worker from which the next device step needs no boundary.
Committed == {"act", "engaged", "paused", "waking", "woken"}

\* A task that took its late step is still being cancelled, or over, and the
\* worker has a boundary before it.
LateOnce ==
  \A t \in Tasks : late[t] > 0 =>
    /\ late[t] = 1
    /\ exec[t].status \in Terminal \cup {"cancelling"}
    /\ worker.task = t => worker.pc \notin Committed

LateInv == LateType /\ LateOnce

\* A persisted cancel is not taken back.
LEMMA CancellingStays ==
  ASSUME TypeOK, WorkInv, [Next]_vars, NEW t \in Tasks,
         exec[t].status \in Terminal \cup {"cancelling"}
  PROVE  exec'[t].status \in Terminal \cup {"cancelling"}
<1>1. CASE exec[t].status \in Terminal
  BY <1>1, StepKeepsTerminal DEF IsTerminal
<1>2. CASE exec[t].status = "cancelling"
  <2>1. Moves(t)
    BY StepMoves
  <2> QED
    BY <1>2, <2>1, View
    DEF Moves, Reports, Closes, L!Submit, L!Reorder, L!Begin, L!Takeover, L!Stay, L!Becomes
<1> QED
  BY <1>1, <1>2

\* The worker passes a boundary with a task only if nobody cancelled it.
LEMMA BoundaryNeeded ==
  ASSUME TypeOK, WorkInv, [Next]_vars, NEW t \in Tasks,
         exec[t].status \in Terminal \cup {"cancelling"},
         worker'.task = t, worker'.pc \in Committed
  PROVE  worker.task = t /\ worker.pc \in Committed
<1>1. worker \in WorkerState /\ (worker.pc \notin {"none", "take"} => worker.task \in Tasks)
  BY WorkerTyped
<1>2. ASSUME NEW c \in Clients, Client(c)
      PROVE  worker' = worker \/ worker' = Waiting
  BY <1>2
  DEF Client, Submit, SubmitCreate, SubmitEvent, SubmitEnsure, SubmitPut, Ensured, Cancel,
      CancelRead, CancelQueued, CancelStarted, CancelEvent, CancelCompleted, CancelSave,
      Pause, PauseRead, PauseSave, PauseEvent, PausedEvent, Resume, ResumeRead,
      ResumeQueued, ResumeStarted, ResumedEvent, AppendEvent, Enter
<1>3. CASE \E c \in Clients : Client(c)
  BY <1>2, <1>3 DEF Waiting, Committed
<1>4. CASE \/ WorkerGet \/ WorkerCheck \/ WorkerStart \/ WorkerStarted \/ WorkerBind
           \/ WorkerFinish \/ WorkerReport \/ WorkerRead
  <2>1. worker'.pc \in {"check", "start", "take", "cleanup", "started", "prepare", "round",
                        "report", "read", "except", "complete"}
    <3>1. CASE WorkerGet \/ WorkerCheck \/ WorkerStart
      BY <1>1, <3>1, ThreadType DEF WorkerGet, WorkerCheck, WorkerStart, Run, WorkerState
    <3>2. CASE WorkerStarted \/ WorkerBind \/ WorkerFinish
      BY <1>1, <3>2 DEF WorkerStarted, WorkerBind, WorkerFinish, Run, Conclude, WorkerState
    <3>3. CASE WorkerReport \/ WorkerRead
      BY <1>1, <3>3 DEF WorkerReport, WorkerRead, Run, WorkerState
    <3> QED
      BY <1>4, <3>1, <3>2, <3>3
  <2> QED
    BY <2>1 DEF Committed
<1>5. CASE \/ WorkerCompleted \/ WorkerSave \/ WorkerExcept \/ WorkerCleanup \/ WorkerFault
           \/ WorkerAct
  <2>1. worker'.pc \in {"none", "take", "final", "exceptSave", "cleanup", "except", "dying",
                        "exceptEvent", "report", "round"}
    <3>1. CASE WorkerCompleted \/ WorkerSave \/ WorkerExcept
      BY <1>1, <3>1 DEF WorkerCompleted, WorkerSave, WorkerExcept, Run, WorkerState
    <3>2. CASE WorkerCleanup
      BY <1>1, <3>2, ThreadType DEF WorkerCleanup
    <3>3. CASE WorkerFault \/ WorkerAct
      BY <1>1, <3>3, ThreadType DEF WorkerFault, WorkerAct, Run, Conclude, WorkerState
    <3> QED
      BY <1>5, <3>1, <3>2, <3>3
  <2> QED
    BY <2>1 DEF Committed
<1>6. CASE WorkerEngaged \/ WorkerWake \/ WorkerDisengage \/ DeadlinePasses
  BY <1>1, <1>6
  DEF WorkerEngaged, WorkerWake, WorkerDisengage, DeadlinePasses, WorkerAt, Run, WorkerState,
      Committed
<1>7. CASE WorkerProbe \/ WorkerResumed
  <2>1. worker.pc \in {"round", "woken"} /\ worker.pc \in Working
    BY <1>7 DEF WorkerProbe, WorkerResumed, WorkerAt, Working
  <2>2. worker'.task = worker.task
    BY <1>1, <1>7, BoundaryMoves DEF WorkerProbe, WorkerResumed, Run, WorkerState
  <2>3. exec[t].status = "cancelling" /\ t \in flags.cancel
    BY <2>1, <2>2 DEF WorkInv, AtWork, Live, Terminal
  <2>4. CASE WorkerResumed
    BY <2>1, <2>2, <2>4 DEF WorkerResumed, WorkerAt, Committed
  <2>5. CASE WorkerProbe
    BY <1>1, <2>2, <2>3, <2>5 DEF WorkerProbe, Boundary, Conclude, WorkerState, Committed
  <2> QED
    BY <1>7, <2>4, <2>5
<1>8. CASE Crash \/ Recover \/ UNCHANGED vars
  BY <1>8 DEF Crash, Recover, vars, NoThread, Waiting, Committed
<1> QED
  BY <1>3, <1>4, <1>5, <1>6, <1>7, <1>8 DEF Next, Worker

LEMMA StepKeepsLate == TypeOK /\ WorkInv /\ LateInv /\ PStep => LateInv'
<1> SUFFICES ASSUME TypeOK, WorkInv, LateInv, PStep PROVE LateInv'
  OBVIOUS
<1>1. /\ [Next]_vars /\ late \in [Tasks -> Nat]
      /\ late' = [t \in Tasks |->
           IF acted'[t] # acted[t] /\ exec[t].status = "cancelling"
           THEN late[t] + 1 ELSE late[t]]
  BY DEF PStep, LateInv, LateType
<1>2. LateType'
  BY <1>1 DEF LateType
<1>3. ASSUME NEW t \in Tasks, late'[t] > 0
      PROVE  /\ late'[t] = 1
             /\ exec'[t].status \in Terminal \cup {"cancelling"}
             /\ worker'.task = t => worker'.pc \notin Committed
  <2>1. CASE acted'[t] # acted[t] /\ exec[t].status = "cancelling"
    <3>1. WorkerAct /\ worker.pc = "act" /\ worker.task = t
      BY <1>1, <2>1, ActsAtWork
    <3>2. late[t] = 0
      BY <1>1, <3>1 DEF LateInv, LateOnce, Committed
    <3>3. worker'.pc \in {"round", "report"}
      BY <3>1, WorkerTyped DEF WorkerAct, Run, Conclude, WorkerState
    <3>4. exec'[t].status \in Terminal \cup {"cancelling"}
      BY <1>1, <2>1, CancellingStays
    <3> QED
      BY <1>1, <2>1, <3>2, <3>3, <3>4 DEF Committed
  <2>2. CASE ~(acted'[t] # acted[t] /\ exec[t].status = "cancelling")
    <3>1. late'[t] = late[t]
      BY <1>1, <2>2
    <3>2. /\ late[t] = 1 /\ exec[t].status \in Terminal \cup {"cancelling"}
          /\ worker.task = t => worker.pc \notin Committed
      BY <1>3, <3>1 DEF LateInv, LateOnce
    <3> QED
      BY <1>1, <3>1, <3>2, CancellingStays, BoundaryNeeded
  <2> QED
    BY <2>1, <2>2
<1> QED
  BY <1>2, <1>3 DEF LateInv, LateOnce

\* A repeated pause changes nothing but the number of calls.
LEMMA AgainKeeps ==
  ASSUME TypeOK, WorkInv, Down, LateInv, NEW c \in Clients, NEW t \in Tasks,
         PauseAgain(c, t)
  PROVE  TypeOK' /\ WorkInv' /\ Down' /\ LateInv'
<1>1. /\ UNCHANGED <<exec, request, report, events, acted, up, items, queue, flags, lock,
                     client, worker, late>>
      /\ budget.calls < MaxCalls /\ Spend("calls")
  BY DEF PauseAgain, durable, executor
<1>2. budget \in Budget /\ MaxCalls \in Nat
  BY BoundAssumption DEF TypeOK
<1>3. budget' \in Budget /\ budget'.faults = budget.faults
  BY <1>1, <1>2 DEF Spend, Budget
<1>4. TypeOK'
  BY <1>1, <1>3 DEF TypeOK, StoreType, ExecutorType, ClientType, WorkerType
<1>5. WorkInv'
  <2>1. Owners' /\ Single' /\ Registered'
    BY <1>1 DEF WorkInv, Owners, Single, Registered, InQueue, Submitting
  <2>2. Unstarted' /\ Rows'
    BY <1>1 DEF WorkInv, Unstarted, Waits, InQueue, InHand, Submitting, WaitingRow, ParkedRow,
                Rows, Row, IsTerminal
  <2>3. Fresh' /\ Cancelled'
    BY <1>1, <1>3 DEF WorkInv, Fresh, FreshCopy, Cancelled, Cancels, CancelCopy, IsTerminal,
                      Faulty
  <2>4. AtWork' /\ Healthy'
    BY <1>1, <1>3 DEF WorkInv, AtWork, Healthy, Faulty, ReportAgrees, PausedFlagged, IsTerminal
  <2> QED
    BY <2>1, <2>2, <2>3, <2>4 DEF WorkInv
<1>6. Down'
  BY <1>1 DEF Down, Gone
<1>7. LateInv'
  BY <1>1 DEF LateInv, LateType, LateOnce
<1> QED
  BY <1>4, <1>5, <1>6, <1>7

\* Whatever fails, a task takes at most one device step after its cancel is
\* persisted: the one whose boundary the worker had already passed.
THEOREM LateStepsBounded == PSpec => []AtMostOneLateStep
<1> DEFINE PInv == TypeOK /\ WorkInv /\ Down /\ LateInv
<1>1. PInit => PInv
  BY InitType, InitWorkInv DEF PInit, LateInv, LateType, LateOnce
<1>2. PInv /\ [PNext]_<<vars, promises>> => PInv'
  <2> SUFFICES ASSUME PInv, [PNext]_<<vars, promises>> PROVE PInv'
    OBVIOUS
  <2>1. CASE PStep
    <3>1. [Next]_vars
      BY <2>1 DEF PStep
    <3> QED
      BY <2>1, <3>1, StepKeepsType, StepKeepsWorkInv, StepKeepsDown, StepKeepsLate
  <2>2. CASE \E c \in Clients, t \in Tasks : PauseAgain(c, t)
    BY <2>2, AgainKeeps
  <2>3. CASE UNCHANGED <<vars, promises>>
    <3>1. UNCHANGED vars /\ UNCHANGED <<exec, worker, late>>
      BY <2>3 DEF vars, promises
    <3>2. LateInv'
      BY <3>1 DEF LateInv, LateType, LateOnce
    <3> QED
      BY <3>1, <3>2, StepKeepsType, StepKeepsWorkInv, StepKeepsDown
  <2> QED
    BY <2>1, <2>2, <2>3 DEF PNext
<1>3. PInv => AtMostOneLateStep
  BY DEF LateInv, LateType, LateOnce, AtMostOneLateStep
<1> QED
  BY <1>1, <1>2, <1>3, PTL DEF PSpec
=============================================================================
