-------------------------- MODULE TaskWorkerProofs --------------------------
(* What holds of TaskWorker for every value of its constants.               *)
EXTENDS TaskWorker, FiniteSetTheorems, TLAPS

-----------------------------------------------------------------------------
(* Type correctness.                                                        *)

\* Spending a disturbance leaves the budgets natural numbers, and lowers none
\* but its own.
LEMMA SpendStep ==
    ASSUME budget \in [Disturbances -> Nat], NEW d \in Disturbances, Spend(d)
    PROVE  /\ budget' \in [Disturbances -> Nat]
           /\ budget'[d] = budget[d] - 1
           /\ \A e \in Disturbances : budget'[e] <= budget[e]
  BY DEF Spend

\* A reset leaves every status a known one.
LEMMA ResetType ==
    ASSUME status \in [Tasks -> Statuses], budget \in [Disturbances -> Nat],
           ResetRunningTasks
    PROVE  status' \in [Tasks -> Statuses] /\ budget' \in [Disturbances -> Nat]
<1>1. "fault" \in Disturbances
  BY DEF Disturbances
<1>2. QED
  BY <1>1, SpendStep DEF ResetRunningTasks, Reset, Fault, Statuses

\* A status write, which may fail, keeps the types.
LEMMA SetStatusType ==
    ASSUME status \in [Tasks -> Statuses], budget \in [Disturbances -> Nat],
           NEW t, NEW s \in Statuses, SetStatus(t, s)
    PROVE  status' \in [Tasks -> Statuses] /\ budget' \in [Disturbances -> Nat]
<1>1. "fault" \in Disturbances
  BY DEF Disturbances
<1>2. QED
  BY <1>1, SpendStep DEF SetStatus, Fault

\* An insert keeps the types of the table.
LEMMA CreateTaskType ==
    ASSUME TypeOK, NEW k \in Kinds, NEW st \in Statuses, NEW n \in 0..MaxItems,
           NEW p \in Nat, NEW o \in 0..MaxTasks, CreateTask(k, st, n, p, o)
    PROVE  /\ rows' \in 0..MaxTasks
           /\ job' \in [Tasks -> Jobs]
           /\ status' \in [Tasks -> Statuses]
           /\ payload' \in [Tasks -> Payloads]
<1>1. MaxTasks \in Nat
  BY BoundsAssumption
<1>2. rows \in 0..MaxTasks /\ rows' \in 0..MaxTasks
  BY <1>1 DEF TypeOK, CreateTask
<1>3. [kind |-> k, parent |-> p, of |-> o] \in Jobs
  BY DEF Jobs
<1>4. [next |-> 0, size |-> n, tenant |-> TRUE] \in Payloads
  BY DEF Payloads
<1>5. QED
  BY <1>2, <1>3, <1>4 DEF TypeOK, CreateTask

\* The last write of a runner keeps the types.
LEMMA FinishType ==
    ASSUME TypeOK, NEW r \in Runners, NEW s \in Statuses, Finish(r, s)
    PROVE  TypeOK'
<1>1. "fault" \in Disturbances /\ "completed" \in Statuses /\ "running" \in Statuses
  BY DEF Disturbances, Statuses
<1>2. status' \in [Tasks -> Statuses] /\ budget' \in [Disturbances -> Nat]
  BY <1>1, SpendStep DEF TypeOK, Finish, maybeUpdateParent, Fault
<1>3. run' \in [Runners -> RunnerRecords]
  BY BoundsAssumption DEF TypeOK, Finish, Leave, FreeRunner, RunnerRecords, RunnerStates
<1>4. QED
  BY <1>2, <1>3 DEF TypeOK, Finish

\* A checkpoint write keeps the types.
LEMMA saveCheckpointType ==
    ASSUME TypeOK, NEW r \in Runners, NEW k \in Nat, saveCheckpoint(r, k)
    PROVE  payload' \in [Tasks -> Payloads] /\ budget' \in [Disturbances -> Nat]
<1>1. "fault" \in Disturbances
  BY DEF Disturbances
<1>2. [next |-> k, size |-> run[r].size, tenant |-> run[r].tenant] \in Payloads
  BY DEF TypeOK, Payloads, RunnerRecords
<1>3. QED
  BY <1>1, <1>2, SpendStep DEF TypeOK, saveCheckpoint, Fault

\* Moving a runner on keeps the types of the runners.
LEMMA GotoType ==
    ASSUME run \in [Runners -> RunnerRecords], NEW r \in Runners, NEW p \in RunnerStates, Goto(r, p)
    PROVE  run' \in [Runners -> RunnerRecords]
  BY DEF RunnerRecords, Goto

\* A runner that returns keeps the types of the runners.
LEMMA LeaveType ==
    ASSUME run \in [Runners -> RunnerRecords], NEW r \in Runners, Leave(r)
    PROVE  run' \in [Runners -> RunnerRecords]
  BY BoundsAssumption DEF Leave, FreeRunner, RunnerRecords, RunnerStates

\* A restart keeps the types.
LEMMA RestartedType ==
    ASSUME TypeOK, Restarted, budget' \in [Disturbances -> Nat]
    PROVE  TypeOK'
<1>1. NoFan \in Fans
  BY BoundsAssumption DEF NoFan, Fans
<1>2. FreeRunner \in RunnerRecords
  BY BoundsAssumption DEF FreeRunner, RunnerRecords, RunnerStates
<1>3. QED
  BY <1>1, <1>2 DEF TypeOK, Restarted, dbVars

\* Every step of the worker keeps the type invariant.
LEMMA TypeStep == TypeOK /\ [Next]_vars => TypeOK'
<1> SUFFICES ASSUME TypeOK, [Next]_vars PROVE TypeOK'
  OBVIOUS
<1>a. /\ MaxTasks \in Nat \ {0} /\ MaxItems \in Nat \ {0} /\ MaxTenants \in Nat \ {0}
      /\ Sizes \subseteq 0..MaxItems /\ Tasks \subseteq 0..MaxTasks
  BY BoundsAssumption DEF Sizes, Tasks
<1>b. /\ {"pending", "running", "paused", "cancelled", "failed", "completed"} \subseteq Statuses
      /\ {"batch_start", "batch_create", "batch_create_multi"} \subseteq Kinds
      /\ {"user", "resume", "edit", "panic", "wpanic", "fault", "crash", "shutdown"}
           \subseteq Disturbances
      /\ {"prepare", "loop", "check", "mark", "call", "save", "park", "yield", "sem",
          "report", "sleep"} \subseteq RunnerStates
  BY DEF Statuses, Kinds, Disturbances, RunnerStates
<1>c. run \in [Runners -> RunnerRecords]
  BY DEF TypeOK
<1>1. ASSUME NEW n \in Sizes, BatchStart(n) \/ BatchCreateSingle(n) PROVE TypeOK'
  BY <1>1, <1>a, <1>b, CreateTaskType DEF BatchStart, BatchCreateSingle, procVars, TypeOK
<1>3. ASSUME NEW n \in Sizes, NEW k \in 1..MaxTenants, BatchCreateMulti(n, k)
      PROVE TypeOK'
  <2>1. CreateTask("batch_create_multi", "running", n, 0, 0)
    BY <1>3 DEF BatchCreateMulti
  <2>2. rows + 1 \in 0..MaxTasks
    BY <2>1, <1>a DEF CreateTask, TypeOK
  <2>3. fan' \in Fans
    BY <1>3, <2>2, <1>a DEF BatchCreateMulti, CreatedID, Fans
  <2>4. QED
    BY <1>3, <2>1, <2>3, <1>a, <1>b, CreateTaskType DEF BatchCreateMulti, TypeOK
<1>4. CASE FanOut
  <2>1. CreateTask("batch_create", "pending", fan.size, fan.parent, fan.of)
    BY <1>4 DEF FanOut
  <2>2. fan' \in Fans
    <3>1. fan.left \in Nat /\ fan.left > 0
      BY <1>4 DEF FanOut, TypeOK, Fans
    <3>2. fan.left - 1 \in Nat
      BY <3>1
    <3>3. NoFan \in Fans
      BY <1>a DEF NoFan, Fans
    <3>4. [fan EXCEPT !.left = fan.left - 1] \in Fans
      BY <3>2 DEF TypeOK, Fans
    <3>5. QED
      BY <1>4, <3>3, <3>4 DEF FanOut
  <2>3. fan.size \in 0..MaxItems /\ fan.parent \in Nat /\ fan.of \in 0..MaxTasks
    BY DEF TypeOK, Fans
  <2>4. QED
    BY <1>4, <2>1, <2>2, <2>3, <1>b, CreateTaskType DEF FanOut, TypeOK
<1>5. CASE FanOutFails
  <2>1. fan' \in Fans
    BY <1>5, <1>a DEF FanOutFails, NoFan, Fans
  <2>2. QED
    BY <1>5, <2>1, <1>b, SpendStep DEF FanOutFails, Fault, TypeOK, dbVars
<1>6. ASSUME NEW t \in Tasks, Stop(t) \/ Pause(t) \/ Resume(t) PROVE TypeOK'
  <2>1. budget' \in [Disturbances -> Nat]
    BY <1>6, <1>b, SpendStep DEF Stop, Pause, Resume, TypeOK
  <2>2. status' \in [Tasks -> Statuses]
    BY <1>6, <1>b DEF Stop, Pause, Resume, UserWrites, TypeOK
  <2>3. QED
    BY <1>6, <2>1, <2>2 DEF Stop, Pause, Resume, UserWrites, TypeOK, procVars
<1>9. ASSUME NEW t \in Tasks, NEW n \in Sizes, NEW b \in BOOLEAN, Edit(t, n, b)
      PROVE TypeOK'
  <2>1. [next |-> 0, size |-> n, tenant |-> b] \in Payloads
    BY <1>a DEF Payloads
  <2>2. budget' \in [Disturbances -> Nat]
    BY <1>9, <1>b, SpendStep DEF Edit, TypeOK
  <2>3. QED
    BY <1>9, <2>1, <2>2 DEF Edit, TypeOK, procVars
<1>10. CASE Boot
  BY <1>10, ResetType DEF Boot, TypeOK
<1>11. CASE Scan
  <2>1. ListPendingTasks \subseteq [task : Tasks, payload : Payloads]
    <3>1. \A t \in Tasks : payload[t] \in Payloads
      BY DEF TypeOK
    <3>2. QED
      <4>1. SUFFICES ASSUME NEW e \in ListPendingTasks
                     PROVE  e \in [task : Tasks, payload : Payloads]
        OBVIOUS
      <4>2. PICK t \in Tasks : e = [task |-> t, payload |-> payload[t]]
        BY DEF ListPendingTasks, Pending
      <4>3. QED
        BY <3>1, <4>2
  <2>2. QED
    BY <1>11, <2>1 DEF Scan, TypeOK, dbVars
<1>12. CASE Claim
  <2> PICK e \in scan : \/ ClaimMisses(e)
                        \/ ClaimFails
                        \/ \E r \in Runners : ClaimBatch(e, r)
                        \/ ClaimParent(e)
    BY <1>12 DEF Claim
  <2>e. e.task \in Tasks /\ e.payload \in Payloads
    BY DEF TypeOK
  <2>1. CASE ClaimMisses(e)
    BY <2>1 DEF ClaimMisses, TypeOK, dbVars
  <2>2. CASE ClaimFails
    BY <2>2, <1>b, SpendStep DEF ClaimFails, Fault, TypeOK, dbVars
  <2>3. ASSUME NEW r \in Runners, ClaimBatch(e, r) PROVE TypeOK'
    <3>1. run' \in [Runners -> RunnerRecords]
      BY <2>3, <2>e, <1>b, <1>a, <1>c DEF ClaimBatch, RunnerRecords, Payloads, StartIndex
    <3>2. status' \in [Tasks -> Statuses]
      BY <2>3, <2>e, <1>b DEF ClaimBatch, Claimed, TypeOK
    <3>3. QED
      BY <2>3, <3>1, <3>2, <1>c DEF ClaimBatch, TypeOK
  <2>4. CASE ClaimParent(e)
    BY <2>4, <2>e, <1>b DEF ClaimParent, Claimed, TypeOK
  <2>5. QED
    BY <2>1, <2>2, <2>3, <2>4
<1>13. CASE MarkParent
  BY <1>13, <1>b, SetStatusType DEF MarkParent, TypeOK
<1>14. CASE WorkerStop
  BY <1>14 DEF WorkerStop, TypeOK, dbVars
<1>15. CASE WorkerPanic
  BY <1>15, <1>b, SpendStep DEF WorkerPanic, TypeOK, dbVars
<1>16. CASE ShutdownSignal
  BY <1>16, <1>b, SpendStep DEF ShutdownSignal, TypeOK, dbVars
<1>17. CASE ShutdownReset
  BY <1>17, ResetType DEF ShutdownReset, TypeOK
<1>18. CASE Exit
  BY <1>18, RestartedType DEF Exit, TypeOK
<1>19. CASE Crash
  <2>1. budget' \in [Disturbances -> Nat]
    BY <1>19, <1>b, SpendStep DEF Crash, TypeOK
  <2>2. QED
    BY <1>19, <2>1, RestartedType DEF Crash
<1>20. ASSUME NEW r \in Runners, RunnerStep(r) PROVE TypeOK'
  <2>1. CASE Acquire(r) \/ Prepare(r) \/ Sleep(r)
    BY <2>1, <1>b, <1>c, GotoType DEF Acquire, Prepare, Sleep, TypeOK, dbVars
  <2>2. CASE PrepareFails(r)
    BY <2>2, <1>b, FinishType DEF PrepareFails
  <2>3. CASE NextItem(r) \/ taskIsActive(r)
    <3>1. budget' \in [Disturbances -> Nat]
      BY <2>3, <1>b, SpendStep DEF NextItem, taskIsActive, Fault, TypeOK
    <3>2. run' \in [Runners -> RunnerRecords]
      BY <2>3, <1>b, <1>c, GotoType DEF NextItem, taskIsActive
    <3>3. QED
      BY <2>3, <3>1, <3>2, <1>c DEF NextItem, taskIsActive, TypeOK, dbVars
  <2>4. CASE Complete(r)
    BY <2>4, <1>b, FinishType DEF Complete
  <2>5. CASE Mark(r)
    BY <2>5, <1>b, <1>c, GotoType, SetStatusType DEF Mark, TypeOK
  <2>6. ASSUME NEW ok \in BOOLEAN, Call(r, ok) PROVE TypeOK'
    <3>1. handled' \in [Tasks -> [Items -> Nat]]
      <4>1. handled \in [Tasks -> [Items -> Nat]]
        BY DEF TypeOK
      <4>2. \A t \in Tasks, i \in Items :
              (IF handled[t][i] < MaxTries THEN handled[t][i] + 1 ELSE handled[t][i]) \in Nat
        BY <4>1
      <4>3. QED
        BY <2>6, <4>1, <4>2 DEF Call
    <3>2. run' \in [Runners -> RunnerRecords]
      BY <2>6, <1>b, <1>c DEF Call, RunnerRecords
    <3>3. QED
      BY <2>6, <3>1, <3>2, <1>c DEF Call, TypeOK, dbVars
  <2>7. CASE Report(r)
    BY <2>7, <1>b, <1>c, GotoType, SetStatusType DEF Report, TypeOK
  <2>8. CASE Save(r)
    <3>1. run[r].idx \in Nat
      BY <1>c DEF RunnerRecords
    <3>2. run' \in [Runners -> RunnerRecords]
      BY <2>8, <1>b, <1>c, <3>1 DEF Save, RunnerRecords
    <3>3. payload' \in [Tasks -> Payloads] /\ budget' \in [Disturbances -> Nat]
      BY <2>8, <3>1, saveCheckpointType DEF Save
    <3>4. QED
      BY <2>8, <3>2, <3>3, <1>c DEF Save, TypeOK
  <2>9. CASE Park(r)
    <3>1. run[r].idx \in Nat
      BY <1>c DEF RunnerRecords
    <3>2. payload' \in [Tasks -> Payloads] /\ budget' \in [Disturbances -> Nat]
      BY <2>9, <3>1, saveCheckpointType DEF Park
    <3>3. QED
      BY <2>9, <3>2, <1>b, <1>c, GotoType DEF Park, TypeOK
  <2>10. CASE Yield(r)
    BY <2>10, <1>b, <1>c, LeaveType, SetStatusType DEF Yield, TypeOK
  <2>11. QED
    BY <1>20, <2>1, <2>2, <2>3, <2>4, <2>5, <2>6, <2>7, <2>8, <2>9, <2>10
    DEF RunnerStep
<1>21. ASSUME NEW r \in Runners, RunnerPanic(r) PROVE TypeOK'
  <2>1. budget' \in [Disturbances -> Nat]
    BY <1>21, <1>b, SpendStep DEF RunnerPanic, TypeOK
  <2>2. status' \in [Tasks -> Statuses]
    BY <1>21, <1>b DEF RunnerPanic, TypeOK
  <2>3. QED
    BY <1>21, <2>1, <2>2, <1>c, LeaveType DEF RunnerPanic, TypeOK
<1>22. CASE UNCHANGED vars
  BY <1>22 DEF vars, TypeOK
<1>23. QED
  BY <1>1, <1>3, <1>4, <1>5, <1>6, <1>9, <1>10, <1>11, <1>12,
     <1>13, <1>14, <1>15, <1>16, <1>17, <1>18, <1>19, <1>20, <1>21, <1>22
  DEF Next, Submit, User, WorkerStep, ProcessStep

\* TypeOK, the type invariant of the worker, holds in every reachable state.
THEOREM TypeCorrect == Spec => []TypeOK
<1>1. Init => TypeOK
  BY BoundsAssumption, BudgetAssumption
  DEF Init, TypeOK, Tasks, Jobs, Kinds, Statuses, Payloads, RunnerRecords, RunnerStates,
      Fans, NoJob, NoPayload, FreeRunner, NoFan
<1>2. QED
  BY <1>1, TypeStep, PTL DEF Spec

-----------------------------------------------------------------------------
(* Rows and budgets.                                                        *)

\* What one step may do to the budgets.
LEMMA BudgetStep ==
    TypeOK /\ [Next]_vars =>
        \A d \in Disturbances : budget'[d] <= budget[d]
<1> SUFFICES ASSUME TypeOK, [Next]_vars
             PROVE  \A d \in Disturbances : budget'[d] <= budget[d]
  OBVIOUS
<1>1. budget \in [Disturbances -> Nat]
  BY DEF TypeOK
<1>2. {"user", "resume", "edit", "panic", "wpanic", "fault", "crash", "shutdown"}
        \subseteq Disturbances
  BY DEF Disturbances
<1>3. UNCHANGED budget \/ \E d \in Disturbances : Spend(d)
  <2>1. CASE Submit \/ FanOut \/ FanOutFails
    BY <2>1, <1>2 DEF Submit, FanOut, FanOutFails, BatchStart, BatchCreateSingle,
       BatchCreateMulti, Fault
  <2>2. CASE User
    BY <2>2, <1>2 DEF User, Stop, Pause, Resume, Edit
  <2>3. CASE Boot \/ WorkerStep \/ WorkerPanic
    BY <2>3, <1>2 DEF Boot, WorkerStep, WorkerPanic, Scan, Claim, ClaimMisses, ClaimFails,
       ClaimBatch, ClaimParent, MarkParent, WorkerStop, ResetRunningTasks, SetStatus, Fault
  <2>4. ASSUME NEW r \in Runners, RunnerStep(r) \/ RunnerPanic(r)
        PROVE  UNCHANGED budget \/ \E d \in Disturbances : Spend(d)
    BY <2>4, <1>2 DEF RunnerStep, RunnerPanic, Acquire, Prepare, PrepareFails, NextItem, taskIsActive,
       Complete, Mark, Call, Report, Save, Sleep, Park, Yield, Finish, SetStatus,
       saveCheckpoint, Fault
  <2>5. CASE ProcessStep
    BY <2>5, <1>2 DEF ProcessStep, ShutdownSignal, ShutdownReset, Exit, Crash,
       ResetRunningTasks, Fault
  <2>6. CASE UNCHANGED vars
    BY <2>6 DEF vars
  <2>7. QED
    BY <2>1, <2>2, <2>3, <2>4, <2>5, <2>6 DEF Next
<1>4. QED
  BY <1>1, <1>3, SpendStep

\* Without a child of a real parent, maybeUpdateParent returns at once.
LEMMA NoParent ==
    ASSUME NEW st PROVE maybeUpdateParent(0, st) = st
  BY DEF maybeUpdateParent

\* What the last write of a runner does to the statuses.
LEMMA FinishStatus ==
    ASSUME TypeOK, RowsKnown, NEW r \in Runners, NEW s \in Statuses, Finish(r, s),
           run[r].pc # "free"
    PROVE  /\ run[r].task \in Tasks
           /\ \/ status' = [status EXCEPT ![run[r].task] = s] /\ UNCHANGED budget
              \/ UNCHANGED status /\ Fault
<1>1. run[r].task \in Tasks
  BY BoundsAssumption DEF TypeOK, RowsKnown, Tasks
<1>2. job[run[r].task].parent = 0
  BY <1>1 DEF RowsKnown
<1>3. maybeUpdateParent(job[run[r].task].parent, [status EXCEPT ![run[r].task] = s])
        = [status EXCEPT ![run[r].task] = s]
  BY <1>2, NoParent
<1>4. QED
  BY <1>1, <1>3 DEF Finish

\* What a runner's step leaves alone: the other runners, the other tasks, and
\* everything of the worker, the handlers and the process.
LEMMA RunnerFrame ==
    ASSUME TypeOK, RowsKnown, NEW r \in Runners, RunnerStep(r) \/ RunnerPanic(r)
    PROVE  /\ run[r].pc # "free" /\ run[r].task \in Tasks /\ run[r].task <= rows
           /\ \A q \in Runners \ {r} : run'[q] = run[q]
           /\ \/ run'[r] = FreeRunner
              \/ /\ run'[r].pc # "free"
                 /\ run'[r].task = run[r].task /\ run'[r].size = run[r].size
           /\ \A t \in Tasks \ {run[r].task} :
                 status'[t] = status[t] /\ payload'[t] = payload[t] /\ handled'[t] = handled[t]
           /\ UNCHANGED <<rows, job, wpc, scan, shut, fan>>
<1> DEFINE Goal ==
           /\ \A q \in Runners \ {r} : run'[q] = run[q]
           /\ \/ run'[r] = FreeRunner
              \/ /\ run'[r].pc # "free"
                 /\ run'[r].task = run[r].task /\ run'[r].size = run[r].size
           /\ \A t \in Tasks \ {run[r].task} :
                 status'[t] = status[t] /\ payload'[t] = payload[t] /\ handled'[t] = handled[t]
           /\ UNCHANGED <<rows, job, wpc, scan, shut, fan>>
<1>a. /\ run \in [Runners -> RunnerRecords] /\ status \in [Tasks -> Statuses]
      /\ payload \in [Tasks -> Payloads] /\ handled \in [Tasks -> [Items -> Nat]]
  BY DEF TypeOK
<1>b. run[r].pc # "free"
  BY DEF RunnerStep, RunnerPanic, Acquire, Prepare, PrepareFails, NextItem, taskIsActive, Complete,
         Mark, Call, Report, Save, Sleep, Park, Yield
<1>c. run[r].task \in Tasks /\ run[r].task <= rows
  BY <1>b, BoundsAssumption DEF TypeOK, RowsKnown, Tasks
<1>d. ASSUME NEW p, Goto(r, p), p # "free"
      PROVE  /\ \A q \in Runners \ {r} : run'[q] = run[q]
             /\ run'[r].pc # "free" /\ run'[r].task = run[r].task /\ run'[r].size = run[r].size
  BY <1>a, <1>d DEF Goto, RunnerRecords
<1>e. ASSUME Leave(r)
      PROVE  run'[r] = FreeRunner /\ \A q \in Runners \ {r} : run'[q] = run[q]
  BY <1>a, <1>e DEF Leave
<1> SUFFICES Goal
  BY <1>b, <1>c
<1> HIDE DEF Goal
<1>1. CASE Acquire(r)
  BY <1>1, <1>d DEF Acquire, Goal, dbVars
<1>2. CASE Prepare(r)
  BY <1>2, <1>d DEF Prepare, Goal, dbVars
<1>3. CASE PrepareFails(r) \/ Complete(r)
  <2>1. PICK s \in Statuses : Finish(r, s)
    BY <1>3 DEF PrepareFails, Complete, Statuses
  <2>2. \A t \in Tasks \ {run[r].task} : status'[t] = status[t]
    BY <2>1, <1>a, <1>b, FinishStatus
  <2>3. QED
    BY <2>1, <2>2, <1>e DEF Finish, Goal
<1>4. CASE NextItem(r) \/ taskIsActive(r)
  BY <1>4, <1>d DEF NextItem, taskIsActive, Goal, dbVars
<1>5. CASE Mark(r)
  BY <1>5, <1>a, <1>d DEF Mark, SetStatus, Goal
<1>6. ASSUME NEW ok \in BOOLEAN, Call(r, ok) PROVE Goal
  <2>1. \A q \in Runners \ {r} : run'[q] = run[q]
    BY <1>6, <1>a DEF Call
  <2>2. run'[r].pc # "free" /\ run'[r].task = run[r].task /\ run'[r].size = run[r].size
    BY <1>6, <1>a DEF Call, RunnerRecords
  <2>3. \A t \in Tasks \ {run[r].task} : handled'[t] = handled[t]
    BY <1>6, <1>a DEF Call
  <2>4. QED
    BY <1>6, <2>1, <2>2, <2>3 DEF Call, Goal, dbVars
<1>7. CASE Report(r)
  BY <1>7, <1>a, <1>d DEF Report, SetStatus, Goal
<1>8. CASE Save(r)
  <2>1. \A q \in Runners \ {r} : run'[q] = run[q]
    BY <1>8, <1>a DEF Save
  <2>2. run'[r].pc # "free" /\ run'[r].task = run[r].task /\ run'[r].size = run[r].size
    BY <1>8, <1>a DEF Save, RunnerRecords
  <2>3. \A t \in Tasks \ {run[r].task} : payload'[t] = payload[t]
    BY <1>8, <1>a DEF Save, saveCheckpoint
  <2>4. QED
    BY <1>8, <2>1, <2>2, <2>3 DEF Save, Goal
<1>9. CASE Sleep(r)
  BY <1>9, <1>d DEF Sleep, Goal, dbVars
<1>10. CASE Park(r)
  BY <1>10, <1>a, <1>d DEF Park, saveCheckpoint, Goal
<1>11. CASE Yield(r)
  BY <1>11, <1>a, <1>e DEF Yield, SetStatus, Goal
<1>12. CASE RunnerPanic(r)
  BY <1>12, <1>a, <1>e DEF RunnerPanic, Goal
<1>13. QED
  BY <1>1, <1>2, <1>3, <1>4, <1>5, <1>6, <1>7, <1>8, <1>9, <1>10, <1>11, <1>12
  DEF RunnerStep

\* Every step keeps the book-keeping of rows, parents and budgets.
LEMMA RowsStep == TypeOK /\ RowsKnown /\ [Next]_vars => RowsKnown'
<1> SUFFICES ASSUME TypeOK, RowsKnown, [Next]_vars PROVE RowsKnown'
  OBVIOUS
<1>a. MaxTasks \in Nat /\ rows \in 0..MaxTasks /\ Tasks = 1..MaxTasks
  BY BoundsAssumption DEF TypeOK, Tasks
<1>b. \A d \in Disturbances : budget'[d] <= Budget[d]
  <2>1. \A d \in Disturbances :
          budget'[d] <= budget[d] /\ budget[d] <= Budget[d]
    BY BudgetStep DEF RowsKnown
  <2>2. \A d \in Disturbances : budget'[d] \in Int /\ budget[d] \in Int /\ Budget[d] \in Int
    BY TypeStep, BudgetAssumption DEF TypeOK
  <2>3. QED
    BY <2>1, <2>2
<1>c. status \in [Tasks -> Statuses] /\ job \in [Tasks -> Jobs]
      /\ run \in [Runners -> RunnerRecords] /\ \A e \in scan : e.task \in Tasks
  BY DEF TypeOK
<1>d. ASSUME NEW k, NEW st, NEW n, NEW o, CreateTask(k, st, n, 0, o)
      PROVE  /\ \A t \in Tasks : t > rows' => status'[t] = "absent"
             /\ \A t \in Tasks : job'[t].parent = 0
             /\ rows' = rows + 1
  BY <1>d, <1>a, <1>c DEF CreateTask, RowsKnown
<1>1. ASSUME NEW n \in Sizes, BatchStart(n) \/ BatchCreateSingle(n) PROVE RowsKnown'
  <2>1. PICK k \in Kinds : CreateTask(k, "pending", n, 0, 0)
    BY <1>1 DEF BatchStart, BatchCreateSingle, Kinds
  <2>2. QED
    BY <1>1, <2>1, <1>a, <1>b, <1>c, <1>d DEF BatchStart, BatchCreateSingle, procVars, RowsKnown
<1>2. ASSUME NEW n \in Sizes, NEW k \in 1..MaxTenants, BatchCreateMulti(n, k)
      PROVE RowsKnown'
  <2>1. CreateTask("batch_create_multi", "running", n, 0, 0)
    BY <1>2 DEF BatchCreateMulti
  <2>2. QED
    BY <1>2, <2>1, <1>a, <1>b, <1>c, <1>d DEF BatchCreateMulti, CreatedID, RowsKnown
<1>3. CASE FanOut
  <2>1. fan.parent = 0 /\ fan'.parent = 0
    BY <1>3 DEF FanOut, NoFan, RowsKnown, TypeOK, Fans
  <2>2. QED
    <3>1. CreateTask("batch_create", "pending", fan.size, 0, fan.of)
      BY <1>3, <2>1 DEF FanOut
    <3>2. QED
      BY <1>3, <2>1, <3>1, <1>a, <1>b, <1>c, <1>d DEF FanOut, RowsKnown
<1>4. CASE FanOutFails
  BY <1>4, <1>b DEF FanOutFails, NoFan, RowsKnown, dbVars
<1>5. CASE User
  BY <1>5, <1>a, <1>b, <1>c DEF User, Stop, Pause, Resume, Edit, UserWrites, RowsKnown, procVars
<1>6. CASE Boot \/ ShutdownReset
  BY <1>6, <1>a, <1>b, <1>c DEF Boot, ShutdownReset, ResetRunningTasks, Reset, RowsKnown
<1>7. CASE Scan
  <2>1. ASSUME NEW e \in ListPendingTasks
        PROVE  e.task \in Tasks /\ status[e.task] = "pending"
    <3>1. PICK t \in Pending : e = [task |-> t, payload |-> payload[t]]
      BY DEF ListPendingTasks
    <3>2. QED
      BY <3>1 DEF Pending
  <2>2. QED
    BY <1>7, <2>1, <1>a, <1>b DEF Scan, RowsKnown, dbVars
<1>8. CASE Claim
  <2> PICK e \in scan : \/ ClaimMisses(e)
                        \/ ClaimFails
                        \/ \E r \in Runners : ClaimBatch(e, r)
                        \/ ClaimParent(e)
    BY <1>8 DEF Claim
  <2>e. e.task \in Tasks /\ e.task <= rows
    BY DEF TypeOK, RowsKnown
  <2>1. CASE ClaimMisses(e) \/ ClaimFails
    BY <2>1, <1>b DEF ClaimMisses, ClaimFails, RowsKnown, dbVars
  <2>2. ASSUME NEW r \in Runners, ClaimBatch(e, r) PROVE RowsKnown'
    BY <2>2, <2>e, <1>a, <1>b, <1>c DEF ClaimBatch, Claimed, RowsKnown
  <2>3. CASE ClaimParent(e)
    BY <2>3, <2>e, <1>a, <1>b, <1>c DEF ClaimParent, Claimed, RowsKnown
  <2>4. QED
    BY <2>1, <2>2, <2>3
<1>9. CASE MarkParent
  <2> PICK e \in scan : SetStatus(e.task, "running") /\ scan' = scan \ {e}
    BY <1>9 DEF MarkParent
  <2>e. e.task \in Tasks /\ e.task <= rows
    BY DEF TypeOK, RowsKnown
  <2>1. QED
    BY <1>9, <2>e, <1>a, <1>b, <1>c DEF MarkParent, SetStatus, RowsKnown
<1>10. CASE WorkerStop \/ WorkerPanic \/ ShutdownSignal
  BY <1>10, <1>b DEF WorkerStop, WorkerPanic, ShutdownSignal, RowsKnown, dbVars
<1>11. CASE Exit \/ Crash
  BY <1>11, <1>b DEF Exit, Crash, Restarted, FreeRunner, NoFan, RowsKnown, dbVars
<1>12. ASSUME NEW r \in Runners, RunnerStep(r) \/ RunnerPanic(r) PROVE RowsKnown'
  BY <1>12, <1>a, <1>b, RunnerFrame DEF RowsKnown, FreeRunner
<1>13. CASE UNCHANGED vars
  BY <1>13, <1>b DEF vars, RowsKnown
<1>14. QED
  BY <1>1, <1>2, <1>3, <1>4, <1>5, <1>6, <1>7, <1>8, <1>9, <1>10, <1>11, <1>12, <1>13
  DEF Next, Submit, WorkerStep, ProcessStep

-----------------------------------------------------------------------------
(* Checkpoints.                                                             *)

\* An instance that was taken to OCI stays taken.
LEMMA HandledGrows ==
    ASSUME TypeOK, [Next]_vars, NEW t \in Tasks, NEW i \in Items, handled[t][i] > 0
    PROVE  handled'[t][i] > 0
<1>a. handled \in [Tasks -> [Items -> Nat]] /\ handled[t][i] \in Nat
  BY DEF TypeOK
<1>1. CASE \E r \in Runners, ok \in BOOLEAN : Call(r, ok)
  <2>1. PICK r \in Runners : handled' = [handled EXCEPT ![run[r].task][run[r].idx] =
                                           IF @ < MaxTries THEN @ + 1 ELSE @]
    BY <1>1 DEF Call
  <2>2. QED
    BY <2>1, <1>a
<1>2. CASE ~\E r \in Runners, ok \in BOOLEAN : Call(r, ok)
  <2>1. UNCHANGED handled
    <3>1. CASE Submit \/ FanOut \/ FanOutFails \/ User
      BY <3>1 DEF Submit, FanOut, FanOutFails, BatchStart, BatchCreateSingle, BatchCreateMulti,
         User, Stop, Pause, Resume, Edit, UserWrites
    <3>2. CASE Boot \/ WorkerStep \/ WorkerPanic \/ ProcessStep
      BY <3>2 DEF Boot, WorkerStep, WorkerPanic, Scan, Claim, ClaimMisses, ClaimFails,
         ClaimBatch, ClaimParent, MarkParent, WorkerStop, ProcessStep, ShutdownSignal,
         ShutdownReset, Exit, Crash, Restarted
    <3>3. ASSUME NEW r \in Runners, RunnerStep(r) \/ RunnerPanic(r) PROVE UNCHANGED handled
      BY <1>2, <3>3 DEF RunnerStep, RunnerPanic, Acquire, Prepare, PrepareFails, NextItem, taskIsActive,
         Complete, Mark, Report, Save, Sleep, Park, Yield, Finish
    <3>4. CASE UNCHANGED vars
      BY <3>4 DEF vars
    <3>5. QED
      BY <3>1, <3>2, <3>3, <3>4 DEF Next
  <2>2. QED
    BY <2>1
<1>3. QED
  BY <1>1, <1>2

\* CheckpointHonest with what the runners carry between OCI and the table.
HonestInv == CheckpointHonest /\ RunnersBacked

\* A runner's step keeps all checkpoints honest.
LEMMA HonestRunner ==
    ASSUME TypeOK, TypeOK', RowsKnown, HonestInv, [Next]_vars,
           NEW r \in Runners, RunnerStep(r) \/ RunnerPanic(r)
    PROVE  HonestInv'
<1> DEFINE t == run[r].task
           i == run[r].idx
<1>a. /\ run \in [Runners -> RunnerRecords] /\ payload \in [Tasks -> Payloads]
      /\ handled \in [Tasks -> [Items -> Nat]] /\ i \in Nat /\ run[r].size \in 0..MaxItems
      /\ MaxItems \in Nat /\ MaxTries \in Nat \ {0}
  BY BoundsAssumption DEF TypeOK, RunnerRecords
<1>b. /\ run[r].pc # "free" /\ t \in Tasks
      /\ \A q \in Runners \ {r} : run'[q] = run[q]
      /\ run'[r] = FreeRunner \/ (run'[r].pc # "free" /\ run'[r].task = t)
      /\ \A u \in Tasks \ {t} : payload'[u] = payload[u]
      /\ scan' = scan
  BY RunnerFrame
<1>c. \A u \in Tasks, j \in Items : handled[u][j] > 0 => handled'[u][j] > 0
  BY HandledGrows
<1>d. HandledUpTo(handled, t, i) /\ HandledUpTo(handled, t, payload[t].next)
  BY <1>b DEF HonestInv, CheckpointHonest
<1>k. \A u \in Tasks : \A k : HandledUpTo(handled, u, k) => HandledUpTo(handled', u, k)
  BY <1>c DEF HandledUpTo
<1>e. /\ \A e \in scan : e.task \in Tasks
      /\ \A q \in Runners : run[q].pc # "free" => run[q].task \in Tasks
  BY BoundsAssumption DEF TypeOK, RowsKnown, Tasks
<1>f. SUFFICES /\ HandledUpTo(handled', t, payload'[t].next)
               /\ \/ run'[r] = FreeRunner
                  \/ /\ HandledUpTo(handled', t, run'[r].idx)
                     /\ run'[r].pc \in {"check", "mark", "call"} => run'[r].idx < run'[r].size
                     /\ run'[r].pc \in {"report", "save"} => HandledUpTo(handled', t, run'[r].idx + 1)
  BY <1>b, <1>k, <1>e DEF HonestInv, CheckpointHonest, RunnersBacked, FreeRunner
<1>g. HandledUpTo(handled', t, i)
  BY <1>b, <1>d, <1>k
<1>h. payload' = payload => HandledUpTo(handled', t, payload'[t].next)
  BY <1>b, <1>d, <1>k
<1>1. CASE Acquire(r) \/ Prepare(r) \/ Sleep(r) \/ NextItem(r) \/ taskIsActive(r)
  <2>1. /\ payload' = payload
        /\ run'[r].idx = i /\ run'[r].size = run[r].size
        /\ run'[r].pc \in {"prepare", "loop", "park", "check", "mark"}
        /\ run'[r].pc \in {"check", "mark"} => run[r].idx < run[r].size
    BY <1>1, <1>a DEF HonestInv, RunnersBacked, Acquire, Prepare, Sleep, NextItem, taskIsActive, Exhausted, Goto, dbVars, RunnerRecords
  <2>2. QED
    BY <2>1, <1>g, <1>h
<1>2. CASE PrepareFails(r) \/ Complete(r) \/ RunnerPanic(r)
  BY <1>2, <1>a, <1>h DEF PrepareFails, Complete, Finish, RunnerPanic, Leave
<1>3. CASE Mark(r)
  <2>1. /\ payload' = payload
        /\ run'[r].idx = i /\ run'[r].size = run[r].size /\ run'[r].pc = "call"
        /\ run[r].pc = "mark"
    BY <1>3, <1>a DEF Mark, Goto, RunnerRecords
  <2>2. i < run[r].size
    BY <2>1 DEF HonestInv, RunnersBacked
  <2>3. QED
    BY <2>1, <2>2, <1>g, <1>h
<1>4. ASSUME NEW ok \in BOOLEAN, Call(r, ok)
      PROVE  /\ HandledUpTo(handled', t, payload'[t].next)
             /\ HandledUpTo(handled', t, run'[r].idx)
             /\ run'[r].pc \in {"report", "save"} /\ HandledUpTo(handled', t, run'[r].idx + 1)
  <2>1. /\ payload' = payload /\ run'[r].idx = i
        /\ run'[r].pc \in {"report", "save"} /\ run[r].pc = "call"
    BY <1>4, <1>a DEF Call, dbVars, RunnerRecords
  <2>2. i \in Items
    BY <2>1, <1>a DEF HonestInv, RunnersBacked, Items
  <2>3. handled'[t][i] = IF handled[t][i] < MaxTries THEN handled[t][i] + 1 ELSE handled[t][i]
    BY <1>4, <1>a, <1>b, <2>2 DEF Call
  <2>4. handled'[t][i] > 0
    BY <2>2, <2>3, <1>a, <1>b
  <2>5. HandledUpTo(handled', t, i + 1)
    <3>1. \A j \in Items : j < i + 1 => j < i \/ j = i
      BY <1>a DEF Items
    <3>2. QED
      BY <3>1, <2>4, <1>g DEF HandledUpTo
  <2>6. QED
    BY <2>1, <2>5, <1>g, <1>h
<1>5. CASE Report(r)
  <2>1. payload' = payload /\ run'[r].idx = i /\ run'[r].pc = "save" /\ run[r].pc = "report"
    BY <1>5, <1>a DEF Report, Goto, RunnerRecords
  <2>2. HandledUpTo(handled, t, i + 1)
    BY <2>1 DEF HonestInv, RunnersBacked
  <2>3. HandledUpTo(handled', t, i + 1)
    BY <2>2, <1>b, <1>k
  <2>4. QED
    BY <2>1, <2>3, <1>g, <1>h
<1>6. CASE Save(r)
  <2>1. HandledUpTo(handled, t, i + 1)
    BY <1>6 DEF Save, HonestInv, RunnersBacked
  <2>2. HandledUpTo(handled', t, i + 1)
    BY <2>1, <1>b, <1>k
  <2>3. payload'[t].next = i + 1 \/ payload' = payload
    BY <1>6, <1>a, <1>b DEF Save, saveCheckpoint
  <2>4. run'[r].idx = i + 1 /\ run'[r].pc \in {"sleep", "loop"}
    BY <1>6, <1>a DEF Save, RunnerRecords
  <2>5. QED
    BY <2>2, <2>3, <2>4, <1>h
<1>7. CASE Park(r)
  <2>1. payload'[t].next = i \/ payload' = payload
    BY <1>7, <1>a, <1>b DEF Park, saveCheckpoint
  <2>2. run'[r].idx = i /\ run'[r].pc = "yield"
    BY <1>7, <1>a DEF Park, Goto, RunnerRecords
  <2>3. QED
    BY <2>1, <2>2, <1>g, <1>h
<1>8. CASE Yield(r)
  BY <1>8, <1>a, <1>h DEF Yield, Leave
<1>9. QED
  BY <1>1, <1>2, <1>3, <1>4, <1>5, <1>6, <1>7, <1>8 DEF RunnerStep

\* Every step keeps all checkpoints honest.
LEMMA HonestStep ==
    TypeOK /\ RowsKnown /\ HonestInv /\ [Next]_vars => HonestInv'
<1> SUFFICES ASSUME TypeOK, RowsKnown, HonestInv, [Next]_vars PROVE HonestInv'
  OBVIOUS
<1>a. TypeOK' /\ rows \in Nat
  BY TypeStep DEF TypeOK
<1>b. /\ payload \in [Tasks -> Payloads] /\ run \in [Runners -> RunnerRecords]
      /\ \A e \in scan : e.task \in Tasks
      /\ \A q \in Runners : run[q].pc # "free" => run[q].task \in Tasks
  BY BoundsAssumption DEF TypeOK, RowsKnown, Tasks
<1>c. \A u \in Tasks, j \in Items : handled[u][j] > 0 => handled'[u][j] > 0
  BY HandledGrows
<1>k. \A u \in Tasks : \A k : HandledUpTo(handled, u, k) => HandledUpTo(handled', u, k)
  BY <1>c DEF HandledUpTo
<1>d. ASSUME \A u \in Tasks : payload'[u] = payload[u] \/ payload'[u].next = 0,
             \A e \in scan' : e \in scan \/ (e.task \in Tasks /\ e.payload = payload[e.task]),
             \A q \in Runners :
                \/ run'[q] = run[q] \/ run'[q] = FreeRunner
                \/ \E e \in scan : /\ run'[q].pc = "sem"
                                   /\ run'[q].task = e.task /\ run'[q].idx = e.payload.next
      PROVE  HonestInv'
  <2>0. \A u : HandledUpTo(handled', u, 0)
    BY DEF Items, HandledUpTo
  <2>1. \A u \in Tasks : HandledUpTo(handled', u, payload'[u].next)
    BY <2>0, <1>k, <1>d DEF HonestInv, CheckpointHonest
  <2>2. \A e \in scan' : HandledUpTo(handled', e.task, e.payload.next)
    BY <1>b, <1>k, <1>d DEF HonestInv, CheckpointHonest
  <2>3. ASSUME NEW q \in Runners
        PROVE  /\ run'[q].pc # "free" => HandledUpTo(handled', run'[q].task, run'[q].idx)
               /\ run'[q].pc \in {"check", "mark", "call"} => run'[q].idx < run'[q].size
               /\ run'[q].pc \in {"report", "save"}
                     => HandledUpTo(handled', run'[q].task, run'[q].idx + 1)
    <3>1. CASE run'[q] = run[q]
      BY <3>1, <1>b, <1>k DEF HonestInv, CheckpointHonest, RunnersBacked
    <3>2. CASE run'[q] = FreeRunner
      BY <3>2 DEF FreeRunner
    <3>3. ASSUME NEW e \in scan, run'[q].pc = "sem", run'[q].task = e.task,
                 run'[q].idx = e.payload.next
          PROVE  HandledUpTo(handled', run'[q].task, run'[q].idx)
      BY <3>3, <1>b, <1>k DEF HonestInv, CheckpointHonest
    <3>4. QED
      BY <1>d, <3>1, <3>2, <3>3
  <2>4. QED
    BY <2>1, <2>2, <2>3 DEF HonestInv, CheckpointHonest, RunnersBacked
<1>1. CASE Submit \/ FanOut
  <2>1. PICK k, st, n, o :
           /\ k \in Kinds /\ st \in Statuses
           /\ CreateTask(k, st, n, fan.parent, o) \/ CreateTask(k, st, n, 0, o)
    BY <1>1 DEF Submit, FanOut, BatchStart, BatchCreateSingle, BatchCreateMulti, Kinds, Statuses
  <2>2. \A u \in Tasks : payload'[u] = payload[u] \/ payload'[u].next = 0
    BY <2>1, <1>b DEF CreateTask
  <2>3. UNCHANGED <<scan, run>>
    BY <1>1 DEF Submit, FanOut, BatchStart, BatchCreateSingle, BatchCreateMulti, procVars
  <2>4. QED
    BY <2>2, <2>3, <1>d
<1>2. CASE FanOutFails \/ Boot \/ WorkerStop \/ ShutdownSignal \/ ShutdownReset
  BY <1>2, <1>d DEF FanOutFails, Boot, WorkerStop, ShutdownSignal, ShutdownReset, dbVars
<1>3. ASSUME NEW u \in Tasks, Stop(u) \/ Pause(u) \/ Resume(u) PROVE HonestInv'
  BY <1>3, <1>d DEF Stop, Pause, Resume, UserWrites, procVars
<1>4. ASSUME NEW u \in Tasks, NEW n \in Sizes, NEW b \in BOOLEAN, Edit(u, n, b)
      PROVE  HonestInv'
  BY <1>4, <1>b, <1>d DEF Edit, procVars
<1>5. CASE Scan
  <2>1. ASSUME NEW e \in ListPendingTasks
        PROVE  e.task \in Tasks /\ e.payload = payload[e.task]
    <3>1. PICK u \in Tasks : e = [task |-> u, payload |-> payload[u]]
      BY DEF ListPendingTasks, Pending
    <3>2. QED
      BY <3>1
  <2>2. QED
    BY <1>5, <2>1, <1>d DEF Scan, dbVars
<1>6. CASE Claim
  <2> PICK e \in scan : \/ ClaimMisses(e)
                        \/ ClaimFails
                        \/ \E r \in Runners : ClaimBatch(e, r)
                        \/ ClaimParent(e)
    BY <1>6 DEF Claim
  <2>1. CASE ClaimMisses(e) \/ ClaimFails \/ ClaimParent(e)
    BY <2>1, <1>d DEF ClaimMisses, ClaimFails, ClaimParent, dbVars
  <2>2. ASSUME NEW r \in Runners, ClaimBatch(e, r) PROVE HonestInv'
    <3>1. /\ \A q \in Runners \ {r} : run'[q] = run[q]
          /\ run'[r].pc = "sem" /\ run'[r].task = e.task /\ run'[r].idx = e.payload.next
          /\ payload' = payload /\ scan' \subseteq scan
      BY <2>2, <1>b DEF ClaimBatch, StartIndex
    <3>2. QED
      BY <3>1, <1>d
  <2>3. QED
    BY <2>1, <2>2
<1>7. CASE MarkParent \/ WorkerPanic
  BY <1>7, <1>d DEF MarkParent, WorkerPanic, dbVars
<1>8. CASE Exit \/ Crash
  BY <1>8, <1>d DEF Exit, Crash, Restarted, dbVars
<1>9. ASSUME NEW r \in Runners, RunnerStep(r) \/ RunnerPanic(r) PROVE HonestInv'
  BY <1>9, <1>a, HonestRunner
<1>10. CASE UNCHANGED vars
  BY <1>10, <1>d DEF vars
<1>11. QED
  BY <1>1, <1>2, <1>3, <1>4, <1>5, <1>6, <1>7, <1>8, <1>9, <1>10
  DEF Next, User, WorkerStep, ProcessStep

-----------------------------------------------------------------------------
(* Completed batches.                                                       *)

\* Every step keeps the copies of the size in agreement, as long as no user
\* has edited a payload.
LEMMA SizesStep ==
    TypeOK /\ RowsKnown /\ SizesAgree /\ [Next]_vars => SizesAgree'
<1> SUFFICES ASSUME TypeOK, RowsKnown, SizesAgree, [Next]_vars, (Spent("edit") = 0)'
             PROVE  /\ \A e \in scan' : e.payload.size = payload'[e.task].size
                    /\ \A r \in Runners : run'[r].pc # "free"
                                            => run'[r].size = payload'[run'[r].task].size
  BY DEF SizesAgree
<1>a. /\ payload \in [Tasks -> Payloads] /\ run \in [Runners -> RunnerRecords]
      /\ \A e \in scan : e.task \in Tasks /\ e.task <= rows
      /\ \A q \in Runners : run[q].pc # "free" => run[q].task \in Tasks /\ run[q].task <= rows
      /\ rows \in 0..MaxTasks /\ MaxTasks \in Nat
  BY BoundsAssumption DEF TypeOK, RowsKnown, Tasks
<1>b. Spent("edit") = 0 /\ budget'["edit"] = budget["edit"]
  <2>1. "edit" \in Disturbances
    BY DEF Disturbances
  <2>2. budget'["edit"] <= budget["edit"] /\ budget["edit"] <= Budget["edit"]
    BY <2>1, BudgetStep DEF RowsKnown
  <2>3. budget'["edit"] \in Int /\ budget["edit"] \in Int /\ Budget["edit"] \in Int
    BY <2>1, TypeStep, BudgetAssumption DEF TypeOK
  <2>4. Budget["edit"] - budget'["edit"] = 0
    BY DEF Spent
  <2>5. QED
    BY <2>2, <2>3, <2>4 DEF Spent
<1>c. /\ \A e \in scan : e.payload.size = payload[e.task].size
      /\ \A r \in Runners : run[r].pc # "free" => run[r].size = payload[run[r].task].size
  BY <1>b DEF SizesAgree
<1>d. ASSUME \A u \in Tasks : u <= rows => payload'[u].size = payload[u].size,
             \A e \in scan' : e \in scan \/ (e.task \in Tasks /\ e.task <= rows
                                             /\ e.payload = payload[e.task]),
             \A q \in Runners :
                \/ run'[q] = FreeRunner
                \/ /\ run[q].pc # "free"
                   /\ run'[q].size = run[q].size /\ run'[q].task = run[q].task
                \/ run'[q] = run[q]
                \/ \E e \in scan : run'[q].task = e.task /\ run'[q].size = e.payload.size
      PROVE  /\ \A e \in scan' : e.payload.size = payload'[e.task].size
             /\ \A r \in Runners : run'[r].pc # "free"
                                     => run'[r].size = payload'[run'[r].task].size
  <2>1. \A e \in scan' : e.payload.size = payload'[e.task].size
    BY <1>a, <1>c, <1>d
  <2>2. ASSUME NEW q \in Runners, run'[q].pc # "free"
        PROVE  run'[q].size = payload'[run'[q].task].size
    <3>1. CASE run'[q] = FreeRunner
      BY <3>1, <2>2 DEF FreeRunner
    <3>2. CASE run[q].pc # "free" /\ run'[q].size = run[q].size /\ run'[q].task = run[q].task
      BY <3>2, <1>a, <1>c, <1>d
    <3>3. CASE run'[q] = run[q]
      BY <3>3, <2>2, <1>a, <1>c, <1>d
    <3>4. CASE \E e \in scan : run'[q].task = e.task /\ run'[q].size = e.payload.size
      BY <3>4, <1>a, <1>c, <1>d
    <3>5. QED
      BY <1>d, <3>1, <3>2, <3>3, <3>4
  <2>3. QED
    BY <2>1, <2>2
<1>1. CASE Submit \/ FanOut
  <2>1. PICK k, st, n, o :
           /\ k \in Kinds /\ st \in Statuses
           /\ CreateTask(k, st, n, fan.parent, o) \/ CreateTask(k, st, n, 0, o)
    BY <1>1 DEF Submit, FanOut, BatchStart, BatchCreateSingle, BatchCreateMulti, Kinds, Statuses
  <2>2. \A u \in Tasks : u <= rows => payload'[u] = payload[u]
    BY <2>1, <1>a DEF CreateTask
  <2>3. UNCHANGED <<scan, run>>
    BY <1>1 DEF Submit, FanOut, BatchStart, BatchCreateSingle, BatchCreateMulti, procVars
  <2>4. QED
    BY <2>2, <2>3, <1>d
<1>2. CASE FanOutFails \/ Boot \/ WorkerStop \/ ShutdownSignal \/ ShutdownReset
  BY <1>2, <1>d DEF FanOutFails, Boot, WorkerStop, ShutdownSignal, ShutdownReset, dbVars
<1>3. CASE User
  <2>1. ASSUME NEW u \in Tasks, NEW n \in Sizes, NEW b \in BOOLEAN, Edit(u, n, b)
        PROVE  FALSE
    <3>1. "edit" \in Disturbances
      BY DEF Disturbances
    <3>2. budget \in [Disturbances -> Nat]
      BY DEF TypeOK
    <3>3. budget'["edit"] = budget["edit"] - 1
      BY <2>1, <3>1, <3>2, SpendStep DEF Edit
    <3>4. QED
      BY <3>1, <3>2, <3>3, <1>b
  <2>2. UNCHANGED <<payload, scan, run>>
    BY <1>3, <2>1 DEF User, Stop, Pause, Resume, UserWrites, procVars
  <2>3. QED
    BY <2>2, <1>d
<1>5. CASE Scan
  <2>1. ASSUME NEW e \in ListPendingTasks
        PROVE  e.task \in Tasks /\ e.task <= rows /\ e.payload = payload[e.task]
    <3>1. PICK u \in Pending : e = [task |-> u, payload |-> payload[u]]
      BY DEF ListPendingTasks
    <3>2. u \in Tasks /\ u <= rows
      BY <1>a DEF Pending, RowsKnown, Tasks
    <3>3. QED
      BY <3>1, <3>2
  <2>2. QED
    BY <1>5, <2>1, <1>d DEF Scan, dbVars
<1>6. CASE Claim
  <2> PICK e \in scan : \/ ClaimMisses(e)
                        \/ ClaimFails
                        \/ \E r \in Runners : ClaimBatch(e, r)
                        \/ ClaimParent(e)
    BY <1>6 DEF Claim
  <2>1. CASE ClaimMisses(e) \/ ClaimFails \/ ClaimParent(e)
    BY <2>1, <1>d DEF ClaimMisses, ClaimFails, ClaimParent, dbVars
  <2>2. ASSUME NEW r \in Runners, ClaimBatch(e, r)
        PROVE  /\ \A f \in scan' : f.payload.size = payload'[f.task].size
               /\ \A q \in Runners : run'[q].pc # "free"
                                       => run'[q].size = payload'[run'[q].task].size
    <3>1. /\ \A q \in Runners \ {r} : run'[q] = run[q]
          /\ run'[r].task = e.task /\ run'[r].size = e.payload.size
          /\ payload' = payload /\ scan' \subseteq scan
      BY <2>2, <1>a DEF ClaimBatch
    <3>2. QED
      BY <3>1, <1>d
  <2>3. QED
    BY <2>1, <2>2
<1>7. CASE MarkParent \/ WorkerPanic
  BY <1>7, <1>d DEF MarkParent, WorkerPanic, dbVars
<1>8. CASE Exit \/ Crash
  BY <1>8, <1>d DEF Exit, Crash, Restarted, dbVars
<1>9. ASSUME NEW r \in Runners, RunnerStep(r) \/ RunnerPanic(r)
      PROVE  /\ \A e \in scan' : e.payload.size = payload'[e.task].size
             /\ \A q \in Runners : run'[q].pc # "free"
                                     => run'[q].size = payload'[run'[q].task].size
  <2>1. /\ run[r].pc # "free" /\ run[r].task \in Tasks /\ run[r].task <= rows
        /\ \A q \in Runners \ {r} : run'[q] = run[q]
        /\ \/ run'[r] = FreeRunner
           \/ /\ run'[r].pc # "free"
              /\ run'[r].task = run[r].task /\ run'[r].size = run[r].size
        /\ \A t \in Tasks \ {run[r].task} : payload'[t] = payload[t]
        /\ scan' = scan
    BY <1>9, RunnerFrame
  <2>2. payload'[run[r].task].size = payload[run[r].task].size
    <3>1. CASE Save(r) \/ Park(r)
      <4>1. PICK k : saveCheckpoint(r, k)
        BY <3>1 DEF Save, Park
      <4>2. run[r].size = payload[run[r].task].size
        BY <2>1, <1>c
      <4>3. QED
        BY <4>1, <4>2, <2>1, <1>a DEF saveCheckpoint
    <3>2. CASE ~(Save(r) \/ Park(r))
      <4>1. payload' = payload
        BY <3>2, <1>9 DEF RunnerStep, RunnerPanic, Acquire, Prepare, PrepareFails, NextItem, taskIsActive,
           Complete, Mark, Call, Report, Sleep, Yield, Finish, dbVars
      <4>2. QED
        BY <4>1
    <3>3. QED
      BY <3>1, <3>2
  <2>3. QED
    BY <2>1, <2>2, <1>d
<1>10. CASE UNCHANGED vars
  BY <1>10, <1>d DEF vars
<1>11. QED
  BY <1>1, <1>2, <1>3, <1>5, <1>6, <1>7, <1>8, <1>9, <1>10
  DEF Next, WorkerStep, ProcessStep

\* Every step keeps CompletedMeansAllHandled.
LEMMA CompletedStep ==
    TypeOK /\ RowsKnown /\ HonestInv /\ SizesAgree /\ CompletedMeansAllHandled /\ [Next]_vars
        => CompletedMeansAllHandled'
<1> SUFFICES ASSUME TypeOK, RowsKnown, HonestInv, SizesAgree, CompletedMeansAllHandled,
                    [Next]_vars, (Spent("edit") = 0)',
                    NEW t \in Tasks, IsBatch(t)', status'[t] = "completed"
             PROVE  HandledUpTo(handled', t, payload'[t].size)
  BY DEF CompletedMeansAllHandled
<1>a. /\ payload \in [Tasks -> Payloads] /\ run \in [Runners -> RunnerRecords]
      /\ status \in [Tasks -> Statuses] /\ job \in [Tasks -> Jobs]
      /\ rows \in 0..MaxTasks /\ MaxTasks \in Nat
  BY BoundsAssumption DEF TypeOK
<1>b. Spent("edit") = 0 /\ budget'["edit"] = budget["edit"]
  <2>1. "edit" \in Disturbances
    BY DEF Disturbances
  <2>2. budget'["edit"] <= budget["edit"] /\ budget["edit"] <= Budget["edit"]
    BY <2>1, BudgetStep DEF RowsKnown
  <2>3. budget'["edit"] \in Int /\ budget["edit"] \in Int /\ Budget["edit"] \in Int
    BY <2>1, TypeStep, BudgetAssumption DEF TypeOK
  <2>4. Budget["edit"] - budget'["edit"] = 0
    BY DEF Spent
  <2>5. QED
    BY <2>2, <2>3, <2>4 DEF Spent
<1>c. \A k : HandledUpTo(handled, t, k) => HandledUpTo(handled', t, k)
  BY HandledGrows DEF HandledUpTo
<1>d. IsBatch(t) /\ status[t] = "completed" => HandledUpTo(handled', t, payload[t].size)
  BY <1>b, <1>c DEF CompletedMeansAllHandled
<1>1. CASE Submit \/ FanOut
  <2>1. PICK k, st, n, p, o :
           /\ k \in Kinds /\ st \in {"pending", "running"}
           /\ CreateTask(k, st, n, p, o)
    BY <1>1 DEF Submit, FanOut, BatchStart, BatchCreateSingle, BatchCreateMulti, Kinds
  <2>2. t # rows + 1
    BY <2>1, <1>a DEF CreateTask
  <2>3. QED
    BY <2>1, <2>2, <1>a, <1>d DEF CreateTask, IsBatch
<1>2. CASE FanOutFails \/ Scan \/ WorkerStop \/ WorkerPanic \/ ShutdownSignal \/ Exit \/ Crash
           \/ UNCHANGED vars
  BY <1>2, <1>d DEF FanOutFails, Scan, WorkerStop, WorkerPanic, ShutdownSignal, Exit, Crash,
     Restarted, dbVars, vars, IsBatch
<1>3. ASSUME NEW u \in Tasks, Stop(u) \/ Pause(u) \/ Resume(u)
      PROVE  HandledUpTo(handled', t, payload'[t].size)
  BY <1>3, <1>a, <1>d DEF Stop, Pause, Resume, UserWrites, IsBatch
<1>4. ASSUME NEW u \in Tasks, NEW n \in Sizes, NEW b \in BOOLEAN, Edit(u, n, b)
      PROVE  FALSE
  <2>1. "edit" \in Disturbances
    BY DEF Disturbances
  <2>2. budget \in [Disturbances -> Nat]
    BY DEF TypeOK
  <2>3. budget'["edit"] = budget["edit"] - 1
    BY <1>4, <2>1, <2>2, SpendStep DEF Edit
  <2>4. QED
    BY <2>1, <2>2, <2>3, <1>b
<1>5. CASE Boot \/ ShutdownReset
  BY <1>5, <1>a, <1>d DEF Boot, ShutdownReset, ResetRunningTasks, Reset, IsBatch
<1>6. CASE Claim \/ MarkParent
  BY <1>6, <1>a, <1>d DEF Claim, ClaimMisses, ClaimFails, ClaimBatch, ClaimParent, Claimed,
     MarkParent, SetStatus, dbVars, IsBatch
<1>7. ASSUME NEW r \in Runners, RunnerStep(r) \/ RunnerPanic(r)
      PROVE  HandledUpTo(handled', t, payload'[t].size)
  <2>1. /\ run[r].pc # "free" /\ run[r].task \in Tasks
        /\ \A u \in Tasks \ {run[r].task} : status'[u] = status[u] /\ payload'[u] = payload[u]
        /\ job' = job
    BY <1>7, RunnerFrame
  <2>2. CASE t # run[r].task
    BY <2>1, <2>2, <1>d DEF IsBatch
  <2>3. CASE t = run[r].task /\ Complete(r)
    <3>1. run[r].idx >= run[r].size /\ run[r].idx \in Nat /\ run[r].size \in 0..MaxItems
      BY <2>3, <1>a, BoundsAssumption DEF Complete, Exhausted, RunnerRecords
    <3>2. HandledUpTo(handled, t, run[r].idx) /\ run[r].size = payload[t].size
      BY <2>1, <2>3, <1>b DEF HonestInv, CheckpointHonest, SizesAgree
    <3>3. HandledUpTo(handled, t, payload[t].size)
      BY <3>1, <3>2, BoundsAssumption DEF HandledUpTo, Items
    <3>4. payload' = payload
      BY <2>3 DEF Complete, Finish
    <3>5. QED
      BY <3>3, <3>4, <1>c
  <2>4. CASE t = run[r].task /\ ~Complete(r)
    <3>1. CASE PrepareFails(r)
      <4>1. status'[t] # "completed" \/ (status' = status /\ payload' = payload)
        BY <2>1, <2>4, <3>1, <1>a, FinishStatus DEF PrepareFails, Finish, Statuses
      <4>2. QED
        BY <2>1, <4>1, <3>1, <1>d DEF IsBatch, PrepareFails, Finish
    <3>2. CASE Save(r) \/ Park(r)
      <4>1. status' = status
        BY <3>2 DEF Save, Park
      <4>2. payload'[t].size = payload[t].size
        <5>1. PICK k : saveCheckpoint(r, k)
          BY <3>2 DEF Save, Park
        <5>2. run[r].size = payload[t].size
          BY <2>1, <2>4, <1>b DEF SizesAgree
        <5>3. QED
          BY <5>1, <5>2, <2>1, <2>4, <1>a DEF saveCheckpoint
      <4>3. QED
        BY <4>1, <4>2, <2>1, <1>d DEF IsBatch
    <3>3. CASE ~(PrepareFails(r) \/ Save(r) \/ Park(r))
      <4>1. payload' = payload
        BY <1>7, <2>4, <3>3 DEF RunnerStep, RunnerPanic, Acquire, Prepare, NextItem, taskIsActive, Mark, Call,
           Report, Sleep, Yield, dbVars
      <4>2. status' = status
        BY <1>7, <2>1, <2>4, <3>3, <1>a DEF RunnerStep, RunnerPanic, Acquire, Prepare, NextItem, taskIsActive, Mark,
           Call, Report, Sleep, Yield, SetStatus, dbVars
      <4>3. QED
        BY <4>1, <4>2, <2>1, <1>d DEF IsBatch
    <3>4. QED
      BY <3>1, <3>2, <3>3
  <2>5. QED
    BY <2>2, <2>3, <2>4
<1>8. QED
  BY <1>1, <1>2, <1>3, <1>4, <1>5, <1>6, <1>7
  DEF Next, User, WorkerStep, ProcessStep


\* Every step keeps the parent row at the head of the scan until it is marked.
LEMMA ParentStep ==
    TypeOK /\ RowsKnown /\ ParentClaimed /\ [Next]_vars => ParentClaimed'
<1> SUFFICES ASSUME TypeOK, RowsKnown, ParentClaimed, [Next]_vars, wpc' = "parent",
                    NEW e \in scan', Front(e)'
             PROVE  job'[e.task].kind = "batch_create_multi"
  BY DEF ParentClaimed, IsBatch
<1>a. /\ scan \subseteq [task : Tasks, payload : Payloads] /\ job \in [Tasks -> Jobs]
      /\ rows \in Nat /\ Tasks \subseteq Nat
  BY BoundsAssumption DEF TypeOK, Tasks
<1>1. ASSUME scan' = scan, wpc' = wpc
      PROVE  e \in scan /\ job[e.task].kind = "batch_create_multi" /\ e.task <= rows /\ e.task \in Tasks
  <2>1. e \in scan /\ Front(e)
    BY <1>1 DEF Front
  <2>2. QED
    BY <1>1, <1>a, <2>1 DEF ParentClaimed, IsBatch, RowsKnown
<1>2. ASSUME scan' = scan, wpc' = wpc, job' = job
      PROVE  job'[e.task].kind = "batch_create_multi"
  BY <1>1, <1>2
<1>3. CASE Submit \/ FanOut
  <2>1. PICK k, st, n, p, o : CreateTask(k, st, n, p, o)
    BY <1>3 DEF Submit, FanOut, BatchStart, BatchCreateSingle, BatchCreateMulti
  <2>2. scan' = scan /\ wpc' = wpc
    BY <1>3 DEF Submit, FanOut, BatchStart, BatchCreateSingle, BatchCreateMulti, procVars
  <2>3. e.task # rows + 1
    BY <2>2, <1>1, <1>a
  <2>4. QED
    BY <2>1, <2>2, <2>3, <1>1, <1>a DEF CreateTask
<1>4. CASE FanOutFails \/ User \/ ShutdownSignal \/ ShutdownReset \/ UNCHANGED vars
  BY <1>4, <1>2 DEF FanOutFails, User, Stop, Pause, Resume, Edit, UserWrites, ShutdownSignal,
     ShutdownReset, dbVars, procVars, vars
<1>5. CASE Boot \/ Scan \/ MarkParent \/ WorkerStop \/ WorkerPanic \/ Exit \/ Crash
  BY <1>5 DEF Boot, Scan, MarkParent, WorkerStop, WorkerPanic, Exit, Crash, Restarted
<1>6. CASE Claim
  <2>1. PICK f \in scan : Front(f) /\ ClaimParent(f)
    BY <1>6 DEF Claim, ClaimMisses, ClaimFails, ClaimBatch
  <2>2. scan' = scan /\ job' = job
    BY <2>1 DEF ClaimParent
  <2>3. e \in scan /\ e.task <= f.task /\ f.task <= e.task
    BY <2>1, <2>2 DEF Front
  <2>4. e.task \in Nat /\ f.task \in Nat
    BY <2>1, <2>3, <1>a
  <2>5. e.task = f.task
    BY <2>3, <2>4
  <2>6. QED
    BY <2>1, <2>2, <2>5 DEF ClaimParent
<1>7. ASSUME NEW r \in Runners, RunnerStep(r) \/ RunnerPanic(r)
      PROVE  job'[e.task].kind = "batch_create_multi"
  BY <1>7, <1>2, RunnerFrame
<1>8. QED
  BY <1>3, <1>4, <1>5, <1>6, <1>7 DEF Next, WorkerStep, ProcessStep

\* Every step keeps NoOrphan.
LEMMA OrphanStep ==
    TypeOK /\ RowsKnown /\ ParentClaimed /\ NoOrphan /\ [Next]_vars => NoOrphan'
<1> SUFFICES ASSUME TypeOK, RowsKnown, ParentClaimed, NoOrphan, [Next]_vars,
                    wpc' # "boot", (Spent("fault") = 0)',
                    NEW t \in Tasks, IsBatch(t)', status'[t] = "running"
             PROVE  \E r \in Runners : run'[r].pc # "free" /\ run'[r].task = t
  BY DEF NoOrphan, RunnersOf
<1> DEFINE Backed == \E r \in Runners : run'[r].pc # "free" /\ run'[r].task = t
<1>a. /\ run \in [Runners -> RunnerRecords] /\ status \in [Tasks -> Statuses]
      /\ job \in [Tasks -> Jobs] /\ rows \in 0..MaxTasks /\ MaxTasks \in Nat
      /\ scan \subseteq [task : Tasks, payload : Payloads]
  BY BoundsAssumption DEF TypeOK
<1>b. Spent("fault") = 0 /\ ~Fault
  <2>1. "fault" \in Disturbances
    BY DEF Disturbances
  <2>2. budget'["fault"] <= budget["fault"] /\ budget["fault"] <= Budget["fault"]
    BY <2>1, BudgetStep DEF RowsKnown
  <2>3. budget'["fault"] \in Int /\ budget["fault"] \in Int /\ Budget["fault"] \in Int
    BY <2>1, TypeStep, BudgetAssumption DEF TypeOK
  <2>4. Budget["fault"] - budget'["fault"] = 0
    BY DEF Spent
  <2>5. budget["fault"] = budget'["fault"]
    BY <2>2, <2>3, <2>4
  <2>6. ~Fault
    BY <2>1, <2>3, <2>5, SpendStep DEF Fault, TypeOK
  <2>7. QED
    BY <2>4, <2>5, <2>6 DEF Spent
<1>c. ASSUME wpc # "boot", IsBatch(t), status[t] = "running"
      PROVE  \E r \in Runners : run[r].pc # "free" /\ run[r].task = t
  BY <1>b, <1>c DEF NoOrphan, RunnersOf
<1>d. ASSUME wpc # "boot", job'[t] = job[t], status'[t] = status[t], run' = run
      PROVE  Backed
  BY <1>c, <1>d DEF IsBatch
<1>1. CASE Submit \/ FanOut
  <2>1. PICK k, st, n, p, o :
            CreateTask(k, st, n, p, o) /\ (st = "pending" \/ k = "batch_create_multi")
    <3>1. CASE FanOut
      BY <3>1 DEF FanOut
    <3>2. ASSUME NEW n \in Sizes, BatchStart(n) PROVE CreateTask("batch_start", "pending", n, 0, 0)
      BY <3>2 DEF BatchStart
    <3>3. ASSUME NEW n \in Sizes, BatchCreateSingle(n)
          PROVE  CreateTask("batch_create", "pending", n, 0, 0)
      BY <3>3 DEF BatchCreateSingle
    <3>4. ASSUME NEW n \in Sizes, NEW m, BatchCreateMulti(n, m)
          PROVE  CreateTask("batch_create_multi", "running", n, 0, 0)
      BY <3>4 DEF BatchCreateMulti
    <3>5. QED
      BY <1>1, <3>1, <3>2, <3>3, <3>4 DEF Submit
  <2>2. run' = run /\ wpc' = wpc
    BY <1>1 DEF Submit, FanOut, BatchStart, BatchCreateSingle, BatchCreateMulti, procVars
  <2>3. t # rows + 1
    BY <2>1, <1>a DEF CreateTask, IsBatch, Tasks
  <2>4. QED
    BY <2>1, <2>2, <2>3, <1>a, <1>d DEF CreateTask
<1>2. CASE FanOutFails \/ Scan \/ WorkerStop \/ ShutdownSignal \/ UNCHANGED vars
  BY <1>2, <1>b, <1>d DEF FanOutFails, Scan, WorkerStop, ShutdownSignal, dbVars, vars
<1>3. ASSUME NEW u \in Tasks, NEW s \in {"cancelled", "paused", "pending"}, UserWrites(u, s)
      PROVE  Backed
  <2>1. u # t /\ status'[t] = status[t]
    BY <1>3, <1>a DEF UserWrites
  <2>2. QED
    BY <1>3, <2>1, <1>d DEF UserWrites, procVars
<1>4. ASSUME NEW u \in Tasks, NEW n \in Sizes, NEW b \in BOOLEAN, Edit(u, n, b)
      PROVE  Backed
  BY <1>4, <1>d DEF Edit, procVars
<1>5. CASE Boot \/ ShutdownReset
  <2>1. status' = Reset(status)
    BY <1>5, <1>b DEF Boot, ShutdownReset, ResetRunningTasks
  <2>2. QED
    BY <2>1, <1>a DEF Reset
<1>6. CASE WorkerPanic \/ Exit \/ Crash
  BY <1>6 DEF WorkerPanic, Exit, Crash, Restarted
<1>7. CASE Claim
  <2>1. PICK e \in scan : Front(e) /\ (\/ ClaimMisses(e) \/ ClaimParent(e)
                                       \/ \E r \in Runners : ClaimBatch(e, r))
    BY <1>7, <1>b DEF Claim, ClaimFails
  <2>2. CASE ClaimMisses(e)
    BY <2>2, <1>d DEF ClaimMisses, dbVars
  <2>3. CASE ClaimParent(e)
    <3>1. e.task # t
      BY <2>3 DEF ClaimParent, IsBatch
    <3>2. QED
      BY <2>3, <3>1, <1>a, <1>d, <1>7 DEF ClaimParent, Claimed, Claim
  <2>4. ASSUME NEW r \in Runners, ClaimBatch(e, r) PROVE Backed
    <3>1. CASE e.task = t
      BY <2>4, <3>1, <1>a DEF ClaimBatch
    <3>2. CASE e.task # t
      <4>1. wpc # "boot" /\ job' = job /\ status'[t] = status[t]
        BY <2>4, <3>2, <1>a, <1>7 DEF ClaimBatch, Claimed, Claim
      <4>2. PICK q \in Runners : run[q].pc # "free" /\ run[q].task = t
        BY <4>1, <1>c DEF IsBatch
      <4>3. run'[q] = run[q]
        BY <4>2, <2>4, <1>a DEF ClaimBatch
      <4>4. QED
        BY <4>2, <4>3
    <3>3. QED
      BY <3>1, <3>2
  <2>5. QED
    BY <2>1, <2>2, <2>3, <2>4
<1>8. CASE MarkParent
  <2>1. PICK e \in scan : Front(e) /\ SetStatus(e.task, "running")
    BY <1>8 DEF MarkParent
  <2>2. e.task # t
    BY <1>8, <2>1 DEF MarkParent, ParentClaimed, IsBatch
  <2>3. status'[t] = status[t]
    BY <2>1, <2>2, <1>a DEF SetStatus
  <2>4. QED
    BY <1>8, <2>3, <1>d DEF MarkParent
<1>9. ASSUME NEW r \in Runners, RunnerStep(r) \/ RunnerPanic(r)
      PROVE  Backed
  <2>1. /\ run[r].pc # "free" /\ run[r].task \in Tasks
        /\ \A q \in Runners \ {r} : run'[q] = run[q]
        /\ \/ run'[r] = FreeRunner
           \/ run'[r].pc # "free" /\ run'[r].task = run[r].task
        /\ \A u \in Tasks \ {run[r].task} : status'[u] = status[u]
        /\ job' = job /\ wpc' = wpc
    BY <1>9, RunnerFrame
  <2>2. CASE run[r].task # t
    <3>1. PICK q \in Runners : run[q].pc # "free" /\ run[q].task = t
      BY <2>1, <2>2, <1>c DEF IsBatch
    <3>2. QED
      BY <2>1, <2>2, <3>1
  <2>3. CASE run[r].task = t /\ run'[r].pc # "free"
    BY <2>1, <2>3 DEF FreeRunner
  <2>4. CASE run[r].task = t /\ run'[r] = FreeRunner
    <3>1. CASE PrepareFails(r) \/ Complete(r)
      <4>1. PICK s \in Statuses : Finish(r, s) /\ s # "running"
        BY <3>1 DEF PrepareFails, Complete, Statuses
      <4>2. status'[t] = s
        BY <4>1, <2>1, <2>4, <1>a, <1>b, FinishStatus
      <4>3. QED
        BY <4>1, <4>2
    <3>2. CASE Yield(r)
      BY <3>2, <2>4, <1>a, <1>b DEF Yield, SetStatus
    <3>3. CASE RunnerPanic(r)
      BY <3>3, <2>4, <1>a DEF RunnerPanic
    <3>4. CASE ~(PrepareFails(r) \/ Complete(r) \/ Yield(r) \/ RunnerPanic(r))
      <4>1. run'[r].pc # "free"
        <5>1. ASSUME NEW q, Goto(r, q), q # "free" PROVE run'[r].pc # "free"
          BY <5>1, <1>a DEF Goto, RunnerRecords
        <5>2. ASSUME NEW ok, Call(r, ok) PROVE run'[r].pc # "free"
          BY <5>2, <1>a DEF Call, RunnerRecords
        <5>3. CASE Save(r)
          BY <5>3, <1>a DEF Save, RunnerRecords
        <5>4. QED
          BY <1>9, <3>4, <5>1, <5>2, <5>3 DEF RunnerStep, Acquire, Prepare, NextItem, taskIsActive, Mark,
             Report, Sleep, Park
      <4>2. QED
        BY <4>1, <2>4 DEF FreeRunner
    <3>5. QED
      BY <3>1, <3>2, <3>3, <3>4
  <2>5. QED
    BY <2>1, <2>2, <2>3, <2>4
<1>10. QED
  BY <1>1, <1>2, <1>3, <1>4, <1>5, <1>6, <1>7, <1>8, <1>9
  DEF Next, User, WorkerStep, ProcessStep, Stop, Pause, Resume

\* No step but a user's write moves a paused or stopped batch that no
\* goroutine works on.
LEMMA IdleStep ==
    ASSUME TypeOK, RowsKnown, ParentClaimed, [Next]_vars,
           NEW t \in Tasks, IsBatch(t), status[t] \in {"paused", "cancelled"},
           RunnersOf(t) = {}, status'[t] # status[t]
    PROVE  budget'["user"] # budget["user"] \/ budget'["resume"] # budget["resume"]
<1>a. /\ status \in [Tasks -> Statuses] /\ budget \in [Disturbances -> Nat]
      /\ rows \in 0..MaxTasks /\ MaxTasks \in Nat /\ t \in 1..MaxTasks
      /\ {"user", "resume"} \subseteq Disturbances
  BY BoundsAssumption DEF TypeOK, Tasks, Disturbances
<1>1. CASE Submit \/ FanOut
  <2>1. PICK k, st, n, p, o : CreateTask(k, st, n, p, o)
    BY <1>1 DEF Submit, FanOut, BatchStart, BatchCreateSingle, BatchCreateMulti
  <2>2. t # rows + 1
    BY <1>a DEF RowsKnown
  <2>3. QED
    BY <2>1, <2>2, <1>a DEF CreateTask
<1>2. CASE Boot \/ ShutdownReset
  BY <1>2, <1>a DEF Boot, ShutdownReset, ResetRunningTasks, Reset
<1>3. CASE Claim
  BY <1>3, <1>a DEF Claim, ClaimMisses, ClaimFails, ClaimBatch, ClaimParent, Claimable, Claimed, dbVars
<1>4. CASE MarkParent
  BY <1>4, <1>a DEF MarkParent, ParentClaimed, SetStatus
<1>5. ASSUME NEW u \in Tasks, Stop(u) \/ Pause(u) PROVE budget'["user"] # budget["user"]
  <2>1. budget'["user"] = budget["user"] - 1
    BY <1>5, <1>a, SpendStep DEF Stop, Pause
  <2>2. QED
    BY <2>1, <1>a
<1>6. ASSUME NEW u \in Tasks, Resume(u) PROVE budget'["resume"] # budget["resume"]
  <2>1. budget'["resume"] = budget["resume"] - 1
    BY <1>6, <1>a, SpendStep DEF Resume
  <2>2. QED
    BY <2>1, <1>a
<1>7. ASSUME NEW r \in Runners, RunnerStep(r) \/ RunnerPanic(r) PROVE FALSE
  <2>1. /\ run[r].pc # "free"
        /\ \A u \in Tasks \ {run[r].task} : status'[u] = status[u]
    BY <1>7, RunnerFrame
  <2>2. run[r].task # t
    BY <2>1 DEF RunnersOf
  <2>3. QED
    BY <2>1, <2>2
<1>8. QED
  BY <1>1, <1>2, <1>3, <1>4, <1>5, <1>6, <1>7
  DEF Next, User, Edit, FanOutFails, WorkerStep, Scan, WorkerStop, WorkerPanic, ProcessStep,
      ShutdownSignal, Exit, Crash, Restarted, dbVars, vars

-----------------------------------------------------------------------------
(* One goroutine per row.                                                   *)

\* Until somebody resumes a row, the worker panics or a shutdown begins, no
\* row with a goroutine is pending, so that no scan can claim it again; and
\* the worker boots only when no goroutine is left.
Calm == Spent("resume") = 0 /\ Spent("wpanic") = 0 /\ shut = "no"

NotPending == \A r \in Runners : run[r].pc # "free" => status[run[r].task] # "pending"

Distinct ==
    \A r, q \in Runners :
        run[r].pc # "free" /\ run[q].pc # "free" /\ run[r].task = run[q].task => r = q

BootsAlone == wpc = "boot" => \A r \in Runners : run[r].pc = "free"

Exclusive == Calm => NotPending /\ Distinct /\ BootsAlone

\* What is calm now was calm before, unless the process has been restarted,
\* and nobody resumed a row or panicked in this step.
LEMMA CalmBefore ==
    ASSUME TypeOK, RowsKnown, [Next]_vars, Calm'
    PROVE  /\ Spent("resume") = 0 /\ Spent("wpanic") = 0
           /\ ~Spend("resume") /\ ~Spend("wpanic")
           /\ shut = "no" \/ Restarted
<1>a. {"resume", "wpanic"} \subseteq Disturbances /\ budget \in [Disturbances -> Nat]
  BY DEF Disturbances, TypeOK
<1>1. ASSUME NEW d \in {"resume", "wpanic"}
      PROVE  Spent(d) = 0 /\ ~Spend(d)
  <2>1. budget'[d] <= budget[d] /\ budget[d] <= Budget[d]
    BY <1>a, BudgetStep DEF RowsKnown
  <2>2. budget'[d] \in Nat /\ budget[d] \in Nat /\ Budget[d] \in Nat
    BY <1>a, TypeStep, BudgetAssumption DEF TypeOK
  <2>3. Budget[d] - budget'[d] = 0
    BY DEF Calm, Spent
  <2>4. budget[d] = Budget[d] /\ budget'[d] = budget[d]
    BY <2>1, <2>2, <2>3
  <2>5. ~Spend(d)
    BY <1>a, <2>2, <2>4, SpendStep
  <2>6. QED
    BY <2>2, <2>4, <2>5 DEF Spent
<1>2. shut = "no" \/ Restarted
  <2>1. shut' = "no"
    BY DEF Calm
  <2>2. ASSUME NEW r \in Runners, RunnerStep(r) \/ RunnerPanic(r) PROVE shut' = shut
    BY <2>2, RunnerFrame
  <2>3. QED
    BY <2>1, <2>2 DEF Next, Submit, BatchStart, BatchCreateSingle, BatchCreateMulti, FanOut,
       FanOutFails, User, Stop, Pause, Resume, UserWrites, Edit, Boot, WorkerStep, Scan, Claim,
       ClaimMisses, ClaimFails, ClaimBatch, ClaimParent, MarkParent, WorkerStop, WorkerPanic,
       ProcessStep, ShutdownSignal, ShutdownReset, Exit, Crash, procVars, vars
<1>3. QED
  BY <1>1, <1>2

\* A runner's task is a row of the table.
LEMMA TaskKnown ==
    ASSUME TypeOK, RowsKnown, NEW q \in Runners, run[q].pc # "free"
    PROVE  run[q].task \in Tasks /\ run[q].task <= rows
<1>1. run[q].task \in 1..rows /\ rows \in 0..MaxTasks /\ MaxTasks \in Nat
  BY BoundsAssumption DEF RowsKnown, TypeOK
<1>2. QED
  BY <1>1 DEF Tasks

\* Where the runners stay as they are, it is enough that none of their rows
\* becomes pending and the worker does not go back to its boot.
LEMMA RunnersStay ==
    ASSUME Exclusive, Calm, run' = run, wpc' = wpc \/ wpc' # "boot",
           \A r \in Runners : run[r].pc # "free" => status'[run[r].task] # "pending"
    PROVE  Exclusive'
<1>1. NotPending' /\ Distinct' /\ BootsAlone'
  BY DEF Exclusive, NotPending, Distinct, BootsAlone
<1>2. QED
  BY <1>1 DEF Exclusive

\* A step of a runner: its row becomes pending only when it leaves.
LEMMA RunnerExclusive ==
    ASSUME TypeOK, RowsKnown, Exclusive, Calm, NEW r \in Runners, RunnerStep(r) \/ RunnerPanic(r)
    PROVE  Exclusive'
<1> DEFINE t == run[r].task
<1>a. /\ run \in [Runners -> RunnerRecords] /\ status \in [Tasks -> Statuses]
      /\ NotPending /\ Distinct /\ BootsAlone
  BY DEF TypeOK, Exclusive
<1>1. /\ run[r].pc # "free" /\ t \in Tasks
      /\ \A q \in Runners \ {r} : run'[q] = run[q]
      /\ \/ run'[r] = FreeRunner
         \/ run'[r].pc # "free" /\ run'[r].task = t
      /\ \A u \in Tasks \ {t} : status'[u] = status[u]
      /\ wpc' = wpc
  BY RunnerFrame
<1>2. \A q \in Runners : run[q].pc # "free" => run[q].task \in Tasks
  BY TaskKnown
<1>3. Distinct'
  BY <1>1, <1>a DEF Distinct, FreeRunner
<1>4. BootsAlone'
  BY <1>1, <1>a DEF BootsAlone
<1>5. run'[r].pc # "free" => status'[t] # "pending"
  <2>0. status[t] # "pending"
    BY <1>1, <1>a DEF NotPending
  <2>1. CASE Mark(r) \/ Report(r)
    BY <2>0, <2>1, <1>1, <1>a DEF Mark, Report, SetStatus
  <2>2. CASE Yield(r)
    BY <2>2, <1>a DEF Yield, Leave, FreeRunner
  <2>3. CASE PrepareFails(r) \/ Complete(r)
    BY <2>3, <1>a DEF PrepareFails, Complete, Finish, Leave, FreeRunner
  <2>4. CASE RunnerPanic(r)
    BY <2>4, <1>a DEF RunnerPanic, Leave, FreeRunner
  <2>5. CASE ~(Mark(r) \/ Report(r) \/ Yield(r) \/ PrepareFails(r) \/ Complete(r) \/ RunnerPanic(r))
    <3>1. status' = status
      BY <2>5 DEF RunnerStep, Acquire, Prepare, NextItem, taskIsActive, Call, Save, Sleep, Park, dbVars
    <3>2. QED
      BY <2>0, <3>1
  <2>6. QED
    BY <2>1, <2>2, <2>3, <2>4, <2>5
<1>6. NotPending'
  <2>1. ASSUME NEW q \in Runners \ {r}, run'[q].pc # "free" PROVE status'[run'[q].task] # "pending"
    <3>1. run'[q] = run[q] /\ run[q].pc # "free"
      BY <2>1, <1>1
    <3>2. run[q].task # t /\ run[q].task \in Tasks
      BY <3>1, <1>1, <1>2, <1>a DEF Distinct
    <3>3. QED
      BY <3>1, <3>2, <1>1, <1>a DEF NotPending
  <2>2. QED
    BY <2>1, <1>1, <1>5 DEF NotPending, FreeRunner
<1>7. QED
  BY <1>3, <1>4, <1>6 DEF Exclusive

\* A claim gives its goroutine a row that no other works on.
LEMMA ClaimExclusive ==
    ASSUME TypeOK, RowsKnown, Exclusive, Calm, Claim
    PROVE  Exclusive'
<1>a. /\ run \in [Runners -> RunnerRecords] /\ status \in [Tasks -> Statuses]
      /\ NotPending /\ Distinct /\ scan \subseteq [task : Tasks, payload : Payloads]
      /\ wpc = "ready"
  BY DEF TypeOK, Exclusive, Claim
<1>b. \A q \in Runners : run[q].pc # "free" => run[q].task \in Tasks
  BY TaskKnown
<1> PICK e \in scan : \/ ClaimMisses(e)
                      \/ ClaimFails
                      \/ \E r \in Runners : ClaimBatch(e, r)
                      \/ ClaimParent(e)
  BY DEF Claim
<1>c. e.task \in Tasks
  BY <1>a
<1>1. CASE ClaimMisses(e) \/ ClaimFails
  BY <1>1, <1>a, RunnersStay DEF ClaimMisses, ClaimFails, NotPending, dbVars
<1>2. CASE ClaimParent(e)
  <2>1. \A u \in Tasks : status'[u] = status[u] \/ status'[u] = "running"
    BY <1>2, <1>a, <1>c DEF ClaimParent, Claimed
  <2>2. run' = run /\ wpc' = "parent"
    BY <1>2 DEF ClaimParent
  <2>3. QED
    BY <2>1, <2>2, <1>a, <1>b, RunnersStay DEF NotPending
<1>3. ASSUME NEW r \in Runners, ClaimBatch(e, r) PROVE Exclusive'
  <2>1. status[e.task] = "pending" /\ run[r].pc = "free" /\ wpc' = wpc
        /\ status' = [status EXCEPT ![e.task] = "running"]
    BY <1>3 DEF ClaimBatch, Claimable, Claimed
  <2>2. run'[r].task = e.task /\ \A q \in Runners \ {r} : run'[q] = run[q]
    BY <1>3, <1>a DEF ClaimBatch
  <2>3. \A q \in Runners \ {r} : run'[q].pc # "free" => run'[q].task # e.task /\ run'[q].task \in Tasks
    BY <2>1, <2>2, <1>a, <1>b DEF NotPending
  <2>4. NotPending'
    BY <2>1, <2>2, <2>3, <1>a, <1>c DEF NotPending
  <2>5. Distinct'
    BY <2>2, <2>3, <1>a DEF Distinct
  <2>6. QED
    BY <2>1, <2>4, <2>5, <1>a DEF Exclusive, BootsAlone
<1>4. QED
  BY <1>1, <1>2, <1>3

\* Every step keeps a row's one goroutine alone with it, as long as it is calm.
LEMMA ExclusiveStep == TypeOK /\ RowsKnown /\ Exclusive /\ [Next]_vars => Exclusive'
<1> SUFFICES ASSUME TypeOK, RowsKnown, Exclusive, [Next]_vars, Calm' PROVE Exclusive'
  BY DEF Exclusive
<1>a. ~Spend("resume") /\ ~Spend("wpanic") /\ (Calm \/ Restarted)
  BY CalmBefore DEF Calm
<1>b. status \in [Tasks -> Statuses] /\ rows \in 0..MaxTasks /\ MaxTasks \in Nat
  BY BoundsAssumption DEF TypeOK
<1>c. \A q \in Runners : run[q].pc # "free" => run[q].task \in Tasks /\ run[q].task <= rows
  BY TaskKnown
<1>1. CASE Restarted
  <2>1. \A r \in Runners : run'[r].pc = "free"
    BY <1>1 DEF Restarted, FreeRunner
  <2>2. QED
    BY <2>1 DEF Exclusive, NotPending, Distinct, BootsAlone
<1> SUFFICES ASSUME Calm PROVE Exclusive'
  BY <1>1, <1>a
<1>d. NotPending /\ BootsAlone
  BY DEF Exclusive
<1>2. CASE Submit \/ FanOut
  <2>1. PICK k, st, n, p, o : CreateTask(k, st, n, p, o)
    BY <1>2 DEF Submit, FanOut, BatchStart, BatchCreateSingle, BatchCreateMulti
  <2>2. run' = run /\ wpc' = wpc
    BY <1>2 DEF Submit, FanOut, BatchStart, BatchCreateSingle, BatchCreateMulti, procVars
  <2>3. \A u \in Tasks : u <= rows => status'[u] = status[u]
    BY <2>1, <1>b DEF CreateTask, Tasks
  <2>4. QED
    BY <2>2, <2>3, <1>c, <1>d, RunnersStay DEF NotPending
<1>3. ASSUME NEW u \in Tasks, NEW s \in {"cancelled", "paused"}, UserWrites(u, s) PROVE Exclusive'
  <2>1. \A v \in Tasks : status'[v] = status[v] \/ status'[v] # "pending"
    BY <1>3, <1>b DEF UserWrites
  <2>2. QED
    BY <1>3, <2>1, <1>c, <1>d, RunnersStay DEF UserWrites, NotPending, procVars
<1>4. ASSUME UNCHANGED <<status, run>>, wpc' = wpc \/ wpc' # "boot" PROVE Exclusive'
  BY <1>4, <1>d, RunnersStay DEF NotPending
<1>5. CASE Boot
  BY <1>5, <1>d, RunnersStay DEF Boot, BootsAlone
<1>6. CASE MarkParent
  <2>1. PICK e \in scan : SetStatus(e.task, "running")
    BY <1>6 DEF MarkParent
  <2>2. \A v \in Tasks : status'[v] = status[v] \/ status'[v] # "pending"
    BY <2>1, <1>b DEF SetStatus
  <2>3. QED
    BY <1>6, <2>2, <1>c, <1>d, RunnersStay DEF MarkParent, NotPending
<1>7. CASE ShutdownReset
  BY <1>7 DEF ShutdownReset, Calm
<1>8. CASE Exit \/ Crash
  BY <1>8, <1>1 DEF Exit, Crash
<1>9. ASSUME NEW r \in Runners, RunnerStep(r) \/ RunnerPanic(r) PROVE Exclusive'
  BY <1>9, RunnerExclusive
<1>10. CASE WorkerPanic \/ \E u \in Tasks : Resume(u)
  BY <1>10, <1>a DEF WorkerPanic, Resume
<1>11. CASE FanOutFails \/ Scan \/ WorkerStop \/ ShutdownSignal \/ UNCHANGED vars
            \/ \E u \in Tasks, n \in Sizes, b \in BOOLEAN : Edit(u, n, b)
  BY <1>11, <1>4 DEF FanOutFails, Scan, WorkerStop, ShutdownSignal, Edit, dbVars, procVars, vars
<1>12. QED
  BY <1>2, <1>3, <1>5, <1>6, <1>7, <1>8, <1>9, <1>10, <1>11, ClaimExclusive
  DEF Next, User, Stop, Pause, WorkerStep, ProcessStep

\* At most one runner works on a row where two would be the same.
LEMMA AtMostOne == IInv /\ Exclusive => OneRunnerPerTask
<1> SUFFICES ASSUME IInv, Exclusive, Spent("resume") + Spent("wpanic") = 0, shut = "no",
                    NEW t \in Tasks
             PROVE  Cardinality(RunnersOf(t)) <= 1
  BY DEF OneRunnerPerTask
<1>1. Calm
  <2>1. {"resume", "wpanic"} \subseteq Disturbances
    BY DEF Disturbances
  <2>2. \A d \in {"resume", "wpanic"} :
           budget[d] \in Nat /\ Budget[d] \in Nat /\ budget[d] <= Budget[d]
    BY <2>1, BudgetAssumption DEF IInv, TypeOK, RowsKnown
  <2>3. QED
    BY <2>2 DEF Calm, Spent
<1>2. \A r, q \in RunnersOf(t) : r = q
  BY <1>1 DEF Exclusive, Distinct, RunnersOf
<1>3. CASE RunnersOf(t) = {}
  BY <1>3, FS_EmptySet
<1>4. ASSUME NEW r \in RunnersOf(t) PROVE Cardinality(RunnersOf(t)) <= 1
  <2>1. RunnersOf(t) = {r}
    BY <1>2, <1>4
  <2>2. QED
    BY <2>1, FS_Singleton
<1>5. QED
  BY <1>3, <1>4

-----------------------------------------------------------------------------
(* Repetitions.                                                             *)

Unmeddled == Spent("resume") = 0 /\ Spent("edit") = 0 /\ Spent("wpanic") = 0

\* What a runner that starts at instance k would have done twice at its end:
\* what was done twice already, and once what is done already from k on.
DueFrom(h, t, k) ==
    {p \in Items \X (1..MaxTries) : p[2] <= h[t][p[1]] /\ (p[2] >= 2 \/ p[1] >= k)}

\* Before and after the call to OCI for its current instance.
Calling(t) == \E r \in RunnersOf(t) : run[r].pc \in {"check", "mark", "call"}
Called(t)  == \E r \in RunnersOf(t) : run[r].pc \in {"report", "save"}

\* No copy of the payload lies behind instance k.
CopiesFrom(t, k) ==
    /\ payload[t].next >= k
    /\ \A e \in scan : e.task = t => e.payload.next >= k
    /\ \A r \in RunnersOf(t) : run[r].idx >= k

\* While the process runs, one instance may be called and not saved; once it
\* is being shut down, that one is paid for, even if it is still to be called.
Debit(t)  == IF shut # "no" /\ Calling(t) THEN 1 ELSE 0
Credit(t) == IF shut = "no" /\ Called(t) THEN 1 ELSE 0
Covered(t, k) == Cardinality(DueFrom(handled, t, k)) + Debit(t) <= Losses + Credit(t)

Paid(t) == \E k \in Nat : /\ CopiesFrom(t, k) /\ Covered(t, k)
                          /\ shut = "no" => k = payload[t].next

AtItem     == {"check", "mark", "call", "report", "save"}
ListedOnce == \A e, f \in scan : e.task = f.task => e = f
FreshRows  == \A t \in Tasks : t > rows => payload[t].next = 0 /\ payload[t].size = 0
Within     == \A r \in Runners : run[r].pc \in {"report", "save"} => run[r].idx < run[r].size
ListedFree == shut = "no" => \A e \in scan : RunnersOf(e.task) = {}
OneCall    == \A r, q \in Runners :
    run[r].pc \in AtItem /\ run[q].pc \in AtItem /\ run[r].task = run[q].task => r = q

Balanced == Unmeddled => ListedFree /\ OneCall /\ \A t \in Tasks : Paid(t)

\* What is due is a finite number of instances.
LEMMA DueFinite ==
    ASSUME NEW h, NEW t, NEW k
    PROVE  IsFiniteSet(DueFrom(h, t, k)) /\ Cardinality(DueFrom(h, t, k)) \in Nat
<1>1. MaxItems \in Nat /\ MaxTries \in Nat
  BY BoundsAssumption
<1>2. IsFiniteSet(Items) /\ IsFiniteSet(1..MaxTries)
  BY <1>1, FS_Interval DEF Items
<1>3. IsFiniteSet(Items \X (1..MaxTries))
  BY <1>2, FS_Product
<1>4. DueFrom(h, t, k) \subseteq Items \X (1..MaxTries)
  BY DEF DueFrom
<1>5. QED
  BY <1>3, <1>4, FS_Subset, FS_CardinalityType

\* Later starts and unchanged counts leave no more due.
LEMMA DueShrinks ==
    ASSUME NEW t, NEW k \in Nat, NEW j \in Nat, k <= j, handled'[t] = handled[t]
    PROVE  Cardinality(DueFrom(handled', t, j)) <= Cardinality(DueFrom(handled, t, k))
<1>1. \A i \in Items : i \in Int
  BY BoundsAssumption DEF Items
<1>2. DueFrom(handled', t, j) \subseteq DueFrom(handled, t, k)
  BY <1>1 DEF DueFrom
<1>3. QED
  BY <1>2, DueFinite, FS_Subset

\* The losses are counted and never taken back.
LEMMA LossesStep ==
    ASSUME TypeOK, RowsKnown, [Next]_vars
    PROVE  /\ Losses \in Nat /\ Losses' \in Nat /\ Losses' >= Losses
           /\ Spend("crash") \/ Spend("shutdown") \/ Fault => Losses' >= Losses + 1
           /\ Unmeddled' => Unmeddled /\ ~Spend("resume") /\ ~Spend("edit") /\ ~Spend("wpanic")
<1> DEFINE D == {"resume", "edit", "wpanic", "crash", "shutdown", "fault"}
<1>1. D \subseteq Disturbances
  BY DEF Disturbances
<1>2. \A d \in D : /\ budget[d] \in Nat /\ budget'[d] \in Nat /\ Budget[d] \in Nat
                   /\ budget'[d] <= budget[d] /\ budget[d] <= Budget[d]
  BY <1>1, TypeStep, BudgetStep, BudgetAssumption DEF TypeOK, RowsKnown
<1>3. \A d \in D : Spend(d) => budget'[d] = budget[d] - 1
  BY <1>1, SpendStep DEF TypeOK
<1>4. \A d \in D : Spent(d) \in Nat /\ Spent(d)' \in Nat /\ Spent(d)' >= Spent(d)
                   /\ (Spend(d) => Spent(d)' = Spent(d) + 1)
  BY <1>2, <1>3 DEF Spent
<1>5. QED
  BY <1>4 DEF Losses, Unmeddled, Fault

\* A step that does nothing to the counts, the row and the process keeps a task
\* paid for, if its goroutines go on from where they were or from the scan.
LEMMA PaidKept ==
    ASSUME TypeOK, RowsKnown, [Next]_vars, NEW t \in Tasks, Paid(t),
           handled'[t] = handled[t], payload'[t].next = payload[t].next,
           shut' = "no" <=> shut = "no",
           \A e \in scan' : e.task = t => e \in scan \/ e.payload = payload[t],
           \A r \in RunnersOf(t)' :
              \/ r \in RunnersOf(t) /\ run'[r].idx = run[r].idx
              \/ \E e \in scan : e.task = t /\ run'[r].idx = e.payload.next,
           shut = "no" /\ Called(t) => Called(t)',
           shut # "no" /\ Calling(t)' => Calling(t)
    PROVE  Paid(t)'
<1>1. PICK k \in Nat : /\ CopiesFrom(t, k) /\ Covered(t, k)
                       /\ shut = "no" => k = payload[t].next
  BY DEF Paid
<1>2. CopiesFrom(t, k)'
  BY <1>1 DEF CopiesFrom
<1>3. Covered(t, k)'
  <2>1. Cardinality(DueFrom(handled', t, k)) <= Cardinality(DueFrom(handled, t, k))
    BY DueShrinks
  <2>2. Cardinality(DueFrom(handled, t, k)) \in Nat /\ Cardinality(DueFrom(handled', t, k)) \in Nat
    BY DueFinite
  <2>3. /\ Debit(t) \in {0, 1} /\ Debit(t)' \in {0, 1} /\ Debit(t)' <= Debit(t)
        /\ Credit(t) \in {0, 1} /\ Credit(t)' \in {0, 1} /\ Credit(t)' >= Credit(t)
    BY DEF Debit, Credit
  <2>4. QED
    BY <1>1, <2>1, <2>2, <2>3, LossesStep DEF Covered
<1>4. QED
  BY <1>1, <1>2, <1>3 DEF Paid

\* So it does where the goroutines rest.
LEMMA PaidAtRest ==
    ASSUME TypeOK, RowsKnown, [Next]_vars, NEW t \in Tasks, Paid(t),
           UNCHANGED <<handled, run>>, payload'[t].next = payload[t].next,
           shut' = "no" <=> shut = "no",
           \A e \in scan' : e \in scan \/ e.payload = payload[e.task]
    PROVE  Paid(t)'
<1>1. RunnersOf(t)' = RunnersOf(t)
  BY DEF RunnersOf
<1>2. Called(t)' = Called(t) /\ Calling(t)' = Calling(t)
  BY <1>1 DEF Called, Calling
<1>3. QED
  BY <1>1, <1>2, PaidKept

\* A claim starts a goroutine from what the scan read.
LEMMA PaidByClaim ==
    ASSUME TypeOK, RowsKnown, [Next]_vars, NEW t \in Tasks, Paid(t),
           NEW e \in scan, NEW r \in Runners, ClaimBatch(e, r)
    PROVE  Paid(t)'
<1>1. /\ run[r].pc = "free" /\ run'[r].pc = "sem" /\ run'[r].task = e.task
      /\ run'[r].idx = e.payload.next
      /\ \A q \in Runners \ {r} : run'[q] = run[q]
      /\ UNCHANGED <<handled, payload, shut>> /\ scan' \subseteq scan
  BY DEF ClaimBatch, StartIndex, TypeOK
<1>2. r \notin RunnersOf(t) /\ \A q \in RunnersOf(t) : q \in RunnersOf(t)' /\ run'[q] = run[q]
  BY <1>1 DEF RunnersOf
<1>3. \A q \in RunnersOf(t)' :
        \/ q \in RunnersOf(t) /\ run'[q] = run[q]
        \/ q = r /\ e.task = t
  BY <1>1 DEF RunnersOf
<1>4. (Called(t) => Called(t)') /\ (Calling(t)' => Calling(t))
  BY <1>1, <1>2, <1>3 DEF Called, Calling
<1>5. QED
  BY <1>1, <1>3, <1>4, PaidKept

\* The signal to shut down pays for the instance that is with OCI or about to
\* be: there is one at most, as there is one goroutine at most.
LEMMA PaidByShutdown ==
    ASSUME TypeOK, RowsKnown, Exclusive, Unmeddled, [Next]_vars, NEW t \in Tasks, Paid(t),
           ShutdownSignal
    PROVE  Paid(t)'
<1>1. shut = "no" /\ shut' = "closing" /\ UNCHANGED <<run, scan, payload, handled>>
  BY DEF ShutdownSignal, dbVars
<1>2. Losses \in Nat /\ Losses' \in Nat /\ Losses' >= Losses + 1
  BY LossesStep DEF ShutdownSignal
<1>3. RunnersOf(t)' = RunnersOf(t)
  BY <1>1 DEF RunnersOf
<1>4. PICK k \in Nat : CopiesFrom(t, k) /\ Covered(t, k)
  BY DEF Paid
<1>5. CopiesFrom(t, k)'
  BY <1>1, <1>3, <1>4 DEF CopiesFrom
<1>6. ~(Called(t) /\ Calling(t))
  <2>1. Distinct
    BY <1>1 DEF Exclusive, Calm, Unmeddled
  <2>2. QED
    BY <2>1 DEF Distinct, Called, Calling, RunnersOf
<1>7. Calling(t)' = Calling(t)
  BY <1>1, <1>3 DEF Calling
<1>8. Covered(t, k)'
  <2>1. Cardinality(DueFrom(handled', t, k)) = Cardinality(DueFrom(handled, t, k))
    BY <1>1
  <2>2. Cardinality(DueFrom(handled, t, k)) \in Nat
    BY DueFinite
  <2>3. Debit(t) = 0 /\ Credit(t) = (IF Called(t) THEN 1 ELSE 0)
    BY <1>1 DEF Debit, Credit
  <2>4. Debit(t)' = (IF Calling(t) THEN 1 ELSE 0) /\ Credit(t)' = 0
    BY <1>1, <1>7 DEF Debit, Credit
  <2>5. QED
    BY <1>2, <1>4, <1>6, <2>1, <2>2, <2>3, <2>4 DEF Covered
<1>9. QED
  BY <1>1, <1>5, <1>8 DEF Paid

\* A restart begins at the checkpoint.  If it is a crash it pays for the
\* instance that was with OCI; after a shutdown that is paid already.
LEMMA PaidByRestart ==
    ASSUME TypeOK, RowsKnown, [Next]_vars, NEW t \in Tasks, Paid(t), Exit \/ Crash
    PROVE  Paid(t)'
<1> DEFINE n == payload[t].next
<1>1. /\ scan' = {} /\ shut' = "no" /\ UNCHANGED <<payload, handled>>
      /\ \A r \in Runners : run'[r].pc = "free"
  BY DEF Exit, Crash, Restarted, FreeRunner, dbVars
<1>2. RunnersOf(t)' = {}
  BY <1>1 DEF RunnersOf
<1>3. n \in Nat
  BY DEF TypeOK, Payloads
<1>4. PICK k \in Nat : CopiesFrom(t, k) /\ Covered(t, k)
  BY DEF Paid
<1>5. k <= n
  BY <1>4 DEF CopiesFrom
<1>6. PICK j \in Nat : j = n
  BY <1>3
<1>7. CopiesFrom(t, j)'
  BY <1>1, <1>2, <1>3, <1>6 DEF CopiesFrom
<1>8. Covered(t, j)'
  <2>1. Cardinality(DueFrom(handled', t, j)) <= Cardinality(DueFrom(handled, t, k))
    BY <1>1, <1>4, <1>5, <1>6, DueShrinks
  <2>2. Cardinality(DueFrom(handled', t, j)) \in Nat /\ Cardinality(DueFrom(handled, t, k)) \in Nat
    BY DueFinite
  <2>3. Debit(t)' = 0 /\ Credit(t)' = 0 /\ Debit(t) \in {0, 1} /\ Credit(t) \in {0, 1}
    BY <1>1, <1>2 DEF Debit, Credit, Called
  <2>4. Losses \in Nat /\ Losses' \in Nat /\ (Losses' >= Losses + 1 \/ (Losses' >= Losses /\ shut # "no"))
    BY LossesStep DEF Exit, Crash
  <2>5. shut # "no" => Credit(t) = 0
    BY DEF Credit
  <2>6. QED
    BY <1>4, <2>1, <2>2, <2>3, <2>4, <2>5 DEF Covered
<1>9. QED
  BY <1>1, <1>6, <1>7, <1>8 DEF Paid

\* What a goroutine does is nothing to the other tasks.
LEMMA PaidElsewhere ==
    ASSUME TypeOK, RowsKnown, [Next]_vars, NEW r \in Runners, RunnerStep(r) \/ RunnerPanic(r),
           NEW t \in Tasks, t # run[r].task, Paid(t)
    PROVE  Paid(t)'
<1>1. /\ \A q \in Runners \ {r} : run'[q] = run[q]
      /\ run'[r].pc = "free" \/ run'[r].task = run[r].task
      /\ payload'[t] = payload[t] /\ handled'[t] = handled[t]
      /\ shut' = shut /\ scan' = scan
  BY RunnerFrame DEF FreeRunner
<1>2. RunnersOf(t)' = RunnersOf(t) /\ \A q \in RunnersOf(t) : run'[q] = run[q]
  BY <1>1 DEF RunnersOf
<1>3. Called(t)' = Called(t) /\ Calling(t)' = Calling(t)
  BY <1>2 DEF Called, Calling
<1>4. QED
  BY <1>1, <1>2, <1>3, PaidKept

\* A goroutine that calls nothing and saves nothing leaves its task paid for.
LEMMA PaidByMoving ==
    ASSUME TypeOK, RowsKnown, [Next]_vars, NEW r \in Runners,
           \/ Acquire(r) \/ Prepare(r) \/ PrepareFails(r) \/ NextItem(r) \/ taskIsActive(r) \/ Complete(r)
           \/ Mark(r) \/ Report(r) \/ Sleep(r) \/ Yield(r) \/ RunnerPanic(r),
           NEW t \in Tasks, t = run[r].task, Paid(t)
    PROVE  Paid(t)'
<1>a. run \in [Runners -> RunnerRecords]
  BY DEF TypeOK
<1>1. UNCHANGED <<payload, handled, scan, shut>>
  BY DEF Acquire, Prepare, PrepareFails, NextItem, taskIsActive, Complete, Mark, Report, Sleep, Yield,
     RunnerPanic, Finish, dbVars
<1>2. \A q \in Runners \ {r} : run'[q] = run[q]
  BY RunnerFrame DEF RunnerStep
<1>3. \/ run'[r].pc = "free"
      \/ run'[r].pc # "free" /\ run'[r].task = t /\ run'[r].idx = run[r].idx
  BY <1>a DEF Acquire, Prepare, PrepareFails, NextItem, taskIsActive, Complete, Mark, Report, Sleep, Yield,
     RunnerPanic, Finish, Goto, Leave, FreeRunner, RunnerRecords
<1>4. run[r].pc # "free"
  BY DEF Acquire, Prepare, PrepareFails, NextItem, taskIsActive, Complete, Mark, Report, Sleep, Yield, RunnerPanic
<1>5. /\ run[r].pc \in {"report", "save"} => run'[r].pc = "save"
      /\ run'[r].pc \in {"check", "mark", "call"}
           => shut = "no" \/ run[r].pc \in {"check", "mark"}
  BY <1>a DEF Acquire, Prepare, PrepareFails, NextItem, taskIsActive, Interrupted, Complete, Mark, Report, Sleep,
     Yield, RunnerPanic, Finish, Goto, Leave, FreeRunner, RunnerRecords
<1>6. \A q \in RunnersOf(t)' : q \in RunnersOf(t) /\ run'[q].idx = run[q].idx
  BY <1>2, <1>3, <1>4 DEF RunnersOf
<1>7. Called(t) => Called(t)'
  <2>1. ASSUME NEW q \in RunnersOf(t), run[q].pc \in {"report", "save"} PROVE Called(t)'
    BY <2>1, <1>2, <1>3, <1>5 DEF RunnersOf, Called
  <2>2. QED
    BY <2>1 DEF Called
<1>8. shut # "no" /\ Calling(t)' => Calling(t)
  <2>1. ASSUME shut # "no", NEW q \in RunnersOf(t)', run'[q].pc \in {"check", "mark", "call"}
        PROVE  Calling(t)
    BY <2>1, <1>2, <1>5, <1>6 DEF RunnersOf, Calling
  <2>2. QED
    BY <2>1 DEF Calling
<1>9. QED
  BY <1>1, <1>6, <1>7, <1>8, PaidKept

\* What is due grows by one instance at most when one is called.
LEMMA DueGrows ==
    ASSUME NEW h, NEW h2, NEW t, NEW k \in Nat, NEW i \in Items,
           h[t] \in [Items -> Nat],
           h2[t] = [h[t] EXCEPT ![i] = IF @ < MaxTries THEN @ + 1 ELSE @]
    PROVE  Cardinality(DueFrom(h2, t, k)) <= Cardinality(DueFrom(h, t, k)) + 1
<1> DEFINE p == <<i, h[t][i] + 1>>
<1>1. DueFrom(h2, t, k) \subseteq DueFrom(h, t, k) \cup {p}
  <2>1. ASSUME NEW x \in DueFrom(h2, t, k), x \notin DueFrom(h, t, k) PROVE x = p
    <3>1. PICK j \in Items, m \in 1..MaxTries : x = <<j, m>> /\ m <= h2[t][j] /\ ~(m <= h[t][j])
      BY <2>1 DEF DueFrom
    <3>2. j = i
      BY <3>1
    <3>3. m = h[t][i] + 1
      <4>1. h[t][i] \in Nat /\ h2[t][i] = (IF h[t][i] < MaxTries THEN h[t][i] + 1 ELSE h[t][i])
        OBVIOUS
      <4>2. QED
        BY <3>1, <3>2, <4>1, BoundsAssumption
    <3>4. QED
      BY <3>1, <3>2, <3>3
  <2>2. QED
    BY <2>1
<1>2. IsFiniteSet(DueFrom(h, t, k)) /\ Cardinality(DueFrom(h, t, k)) \in Nat
  BY DueFinite
<1>3. /\ IsFiniteSet(DueFrom(h, t, k) \cup {p})
      /\ Cardinality(DueFrom(h, t, k) \cup {p}) <= Cardinality(DueFrom(h, t, k)) + 1
  <2> DEFINE D == DueFrom(h, t, k)
  <2>1. IsFiniteSet(D) /\ Cardinality(D) \in Nat
    BY <1>2
  <2> HIDE DEF D, p
  <2>2. /\ IsFiniteSet(D \cup {p})
        /\ Cardinality(D \cup {p}) = IF p \in D THEN Cardinality(D) ELSE Cardinality(D) + 1
    BY <2>1, FS_AddElement
  <2>3. QED
    BY <2>1, <2>2 DEF D
<1>4. /\ Cardinality(DueFrom(h2, t, k)) <= Cardinality(DueFrom(h, t, k) \cup {p})
      /\ Cardinality(DueFrom(h2, t, k)) \in Nat
  BY <1>1, <1>3, FS_Subset, DueFinite
<1>5. Cardinality(DueFrom(h, t, k) \cup {p}) \in Nat
  BY <1>3, FS_CardinalityType
<1>6. QED
  BY <1>2, <1>3, <1>4, <1>5

\* What is due shrinks by one instance at least when it is saved.
LEMMA DueSaved ==
    ASSUME NEW h, NEW t, NEW k \in Nat, NEW i \in Items, k <= i,
           h[t] \in [Items -> Nat], h[t][i] > 0
    PROVE  Cardinality(DueFrom(h, t, i + 1)) + 1 <= Cardinality(DueFrom(h, t, k))
<1> DEFINE p == <<i, 1>>
<1>a. Items \subseteq Nat /\ MaxTries \in Nat \ {0}
  BY BoundsAssumption DEF Items
<1>1. p \in DueFrom(h, t, k) /\ p \notin DueFrom(h, t, i + 1)
  BY <1>a DEF DueFrom
<1>2. DueFrom(h, t, i + 1) \subseteq DueFrom(h, t, k)
  <2>1. \A j \in Items : j >= i + 1 => j >= k
    BY <1>a
  <2>2. QED
    BY <2>1 DEF DueFrom
<1>3. /\ IsFiniteSet(DueFrom(h, t, i + 1)) /\ Cardinality(DueFrom(h, t, i + 1)) \in Nat
      /\ IsFiniteSet(DueFrom(h, t, k)) /\ Cardinality(DueFrom(h, t, k)) \in Nat
  BY DueFinite
<1>4. Cardinality(DueFrom(h, t, i + 1) \cup {p}) = Cardinality(DueFrom(h, t, i + 1)) + 1
  BY <1>1, <1>3, FS_AddElement
<1>5. Cardinality(DueFrom(h, t, i + 1) \cup {p}) <= Cardinality(DueFrom(h, t, k))
  BY <1>1, <1>2, <1>3, FS_Subset
<1>6. QED
  BY <1>4, <1>5

\* The call for an instance makes at most one more due.  It is credited while
\* the process runs, and is paid for when it is being shut down.
LEMMA PaidByCall ==
    ASSUME TypeOK, RowsKnown, Exclusive, RunnersBacked, OneCall, Unmeddled, [Next]_vars,
           NEW r \in Runners, NEW ok \in BOOLEAN, Call(r, ok),
           NEW t \in Tasks, t = run[r].task, Paid(t)
    PROVE  Paid(t)'
<1>a. /\ run \in [Runners -> RunnerRecords] /\ handled[t] \in [Items -> Nat]
      /\ handled \in [Tasks -> [Items -> Nat]]
  BY DEF TypeOK
<1>1. PICK i : i = run[r].idx
  OBVIOUS
<1>2. i \in Items
  <2>1. i \in Nat /\ i < run[r].size /\ run[r].size \in 0..MaxItems
    BY <1>1, <1>a DEF RunnersBacked, Call, RunnerRecords
  <2>2. QED
    BY <2>1, BoundsAssumption DEF Items
<1>3. /\ UNCHANGED <<payload, scan, shut, budget>>
      /\ run[r].pc = "call" /\ run'[r].pc \in {"report", "save"}
      /\ run'[r].task = t /\ run'[r].idx = i
      /\ handled'[t] = [handled[t] EXCEPT ![i] = IF @ < MaxTries THEN @ + 1 ELSE @]
  BY <1>a, <1>1 DEF Call, dbVars, RunnerRecords
<1>4. \A q \in Runners \ {r} : run'[q] = run[q]
  BY <1>a DEF Call
<1>5. /\ RunnersOf(t)' = RunnersOf(t) /\ r \in RunnersOf(t)
      /\ \A q \in RunnersOf(t) : run'[q].idx = run[q].idx
  BY <1>1, <1>3, <1>4 DEF RunnersOf
<1>6. PICK k \in Nat : /\ CopiesFrom(t, k) /\ Covered(t, k)
                       /\ shut = "no" => k = payload[t].next
  BY DEF Paid
<1>7. CopiesFrom(t, k)'
  BY <1>3, <1>5, <1>6 DEF CopiesFrom
<1>8. Covered(t, k)'
  <2>1. Cardinality(DueFrom(handled', t, k)) <= Cardinality(DueFrom(handled, t, k)) + 1
    BY <1>2, <1>3, <1>a, DueGrows
  <2>2. Cardinality(DueFrom(handled', t, k)) \in Nat /\ Cardinality(DueFrom(handled, t, k)) \in Nat
    BY DueFinite
  <2>3. Losses \in Nat /\ Losses' = Losses
    BY <1>3, LossesStep DEF Losses, Spent
  <2>4. CASE shut = "no"
    <3>1. Called(t)'
      BY <1>3, <1>5 DEF Called
    <3>2. ~Called(t)
      <4>1. Distinct
        BY <2>4 DEF Exclusive, Calm, Unmeddled
      <4>2. QED
        BY <4>1, <1>3, <1>5 DEF Distinct, Called, RunnersOf
    <3>3. Debit(t) = 0 /\ Debit(t)' = 0 /\ Credit(t) = 0 /\ Credit(t)' = 1
      BY <2>4, <3>1, <3>2, <1>3 DEF Debit, Credit
    <3>4. QED
      BY <1>6, <2>1, <2>2, <2>3, <3>3 DEF Covered
  <2>5. CASE shut # "no"
    <3>1. Calling(t)
      BY <1>3, <1>5 DEF Calling
    <3>2. ~Calling(t)'
      <4>1. ASSUME NEW q \in RunnersOf(t), run'[q].pc \in {"check", "mark", "call"} PROVE FALSE
        <5>1. q # r /\ run[q].pc \in {"check", "mark", "call"} /\ run[q].task = run[r].task
          BY <4>1, <1>3, <1>4 DEF RunnersOf
        <5>2. QED
          BY <5>1, <1>3 DEF OneCall, AtItem, RunnersOf
      <4>2. QED
        BY <4>1, <1>5 DEF Calling
    <3>3. Debit(t) = 1 /\ Debit(t)' = 0 /\ Credit(t) = 0 /\ Credit(t)' = 0
      BY <2>5, <3>1, <3>2, <1>3 DEF Debit, Credit
    <3>4. QED
      BY <1>6, <2>1, <2>2, <2>3, <3>3 DEF Covered
  <2>6. QED
    BY <2>4, <2>5
<1>9. QED
  BY <1>3, <1>6, <1>7, <1>8 DEF Paid

\* A checkpoint: the one goroutine of a running process moves all copies there
\* are of the payload; one of a process that is shut down never moves a copy
\* back behind what is paid for.
LEMMA PaidBySave ==
    ASSUME TypeOK, RowsKnown, Exclusive, RunnersBacked, Within, ListedFree, Unmeddled,
           [Next]_vars, NEW r \in Runners, Save(r) \/ Park(r),
           NEW t \in Tasks, t = run[r].task, Paid(t)
    PROVE  Paid(t)'
<1>a. /\ run \in [Runners -> RunnerRecords] /\ payload \in [Tasks -> Payloads]
      /\ handled[t] \in [Items -> Nat]
  BY DEF TypeOK
<1>1. PICK i \in Nat : i = run[r].idx
  BY <1>a DEF RunnerRecords
<1>2. PICK n \in Nat : n = IF Save(r) THEN i + 1 ELSE i
  BY <1>1
<1>3. /\ run[r].pc \in {"save", "park"} /\ UNCHANGED <<scan, shut, handled>>
      /\ run'[r].pc \in {"sleep", "loop", "yield"} /\ run'[r].task = t /\ run'[r].idx = n
  BY <1>a, <1>1, <1>2 DEF Save, Park, Goto, RunnerRecords
<1>4. \A q \in Runners \ {r} : run'[q] = run[q]
  BY <1>a DEF Save, Park, Goto
<1>5. \/ payload'[t].next = n
      \/ payload'[t] = payload[t] /\ Fault
  BY <1>a, <1>1, <1>2 DEF Save, Park, saveCheckpoint
<1>6. RunnersOf(t)' = RunnersOf(t) /\ r \in RunnersOf(t)
  BY <1>1, <1>3, <1>4 DEF RunnersOf
<1>7. PICK k \in Nat : /\ CopiesFrom(t, k) /\ Covered(t, k)
                       /\ shut = "no" => k = payload[t].next
  BY DEF Paid
<1>8. k <= i /\ i <= n
  BY <1>1, <1>2, <1>6, <1>7 DEF CopiesFrom
<1>9. CopiesFrom(t, k)'
  <2>1. ASSUME NEW q \in RunnersOf(t)' PROVE run'[q].idx >= k
    <3>1. CASE q = r
      BY <3>1, <1>3, <1>8
    <3>2. CASE q # r
      <4>1. run'[q] = run[q] /\ q \in RunnersOf(t)
        BY <3>2, <1>4, <1>6 DEF RunnersOf
      <4>2. QED
        BY <4>1, <1>7 DEF CopiesFrom
    <3>3. QED
      BY <3>1, <3>2
  <2>2. payload'[t].next >= k
    BY <1>5, <1>7, <1>8 DEF CopiesFrom
  <2>3. QED
    BY <2>1, <2>2, <1>3, <1>7 DEF CopiesFrom
<1>b. /\ Losses \in Nat /\ Losses' \in Nat /\ Losses' >= Losses
      /\ Fault => Losses' >= Losses + 1
  BY LossesStep
<1>c. /\ Cardinality(DueFrom(handled', t, k)) = Cardinality(DueFrom(handled, t, k))
      /\ Cardinality(DueFrom(handled, t, k)) \in Nat
  BY <1>3, DueFinite
<1>10. CASE shut # "no"
  <2>1. Calling(t)' => Calling(t)
    BY <1>3, <1>4, <1>6 DEF Calling, RunnersOf
  <2>2. /\ Debit(t)' \in {0, 1} /\ Debit(t) \in {0, 1} /\ Debit(t)' <= Debit(t)
        /\ Credit(t) = 0 /\ Credit(t)' = 0
    BY <1>3, <1>10, <2>1 DEF Debit, Credit
  <2>3. Covered(t, k)'
    BY <1>7, <1>b, <1>c, <2>2 DEF Covered
  <2>4. QED
    BY <1>3, <1>9, <1>10, <2>3 DEF Paid
<1>11. CASE shut = "no" /\ payload'[t] = payload[t] /\ Fault
  <2>1. Debit(t) = 0 /\ Debit(t)' = 0 /\ Credit(t) \in {0, 1} /\ Credit(t)' \in {0, 1}
    BY <1>3, <1>11 DEF Debit, Credit
  <2>2. Covered(t, k)'
    BY <1>7, <1>11, <1>b, <1>c, <2>1 DEF Covered
  <2>3. QED
    BY <1>7, <1>9, <1>11, <2>2 DEF Paid
<1>12. CASE shut = "no" /\ payload'[t].next = n
  <2>1. \A q \in RunnersOf(t) : q = r
    <3>1. Distinct
      BY <1>12 DEF Exclusive, Calm, Unmeddled
    <3>2. QED
      BY <3>1, <1>6 DEF Distinct, RunnersOf
  <2>2. \A e \in scan : e.task # t
    BY <1>6, <1>12 DEF ListedFree
  <2>3. CopiesFrom(t, n)'
    BY <2>1, <2>2, <1>3, <1>6, <1>12 DEF CopiesFrom
  <2>4. Debit(t) = 0 /\ Debit(t)' = 0 /\ Credit(t) \in {0, 1} /\ Credit(t)' \in {0, 1}
    BY <1>3, <1>12 DEF Debit, Credit
  <2>5. Cardinality(DueFrom(handled', t, n)) \in Nat
    BY DueFinite
  <2>6. Cardinality(DueFrom(handled', t, n)) + Credit(t) <= Cardinality(DueFrom(handled, t, k))
    <3>1. CASE Save(r)
      <4>1. i < run[r].size /\ run[r].size \in 0..MaxItems /\ HandledUpTo(handled, t, i + 1)
        BY <3>1, <1>1, <1>a DEF Save, Within, RunnersBacked, RunnerRecords
      <4>2. i \in Items /\ handled[t][i] > 0
        BY <4>1, BoundsAssumption DEF Items, HandledUpTo
      <4>3. Cardinality(DueFrom(handled, t, i + 1)) + 1 <= Cardinality(DueFrom(handled, t, k))
        BY <4>2, <1>8, <1>a, DueSaved
      <4>4. Cardinality(DueFrom(handled', t, n)) + 1 <= Cardinality(DueFrom(handled, t, k))
        BY <4>3, <3>1, <1>2, <1>3
      <4>5. QED
        BY <4>4, <2>4, <2>5, <1>c
    <3>2. CASE Park(r)
      <4>1. ~Called(t)
        BY <3>2, <2>1 DEF Park, Called
      <4>2. Credit(t) = 0
        BY <4>1 DEF Credit
      <4>3. QED
        BY <4>2, <1>3, <1>8, <1>c, <2>5, DueShrinks
    <3>3. QED
      BY <3>1, <3>2
  <2>7. Covered(t, n)'
    BY <1>7, <1>b, <1>c, <2>4, <2>5, <2>6 DEF Covered
  <2>8. QED
    BY <1>12, <2>3, <2>7 DEF Paid
<1>13. QED
  BY <1>5, <1>10, <1>11, <1>12

\* What a scan lists.
LEMMA Listed ==
    ASSUME NEW e \in ListPendingTasks
    PROVE  status[e.task] = "pending" /\ e = [task |-> e.task, payload |-> payload[e.task]]
<1>1. PICK u \in Pending : e = [task |-> u, payload |-> payload[u]]
  BY DEF ListPendingTasks
<1>2. QED
  BY <1>1 DEF Pending

\* What else the argument needs: a scan lists a row once, rows that are not
\* inserted have no progress, and an instance that was called is one of the batch.
Orderly == ListedOnce /\ FreshRows /\ Within

\* Every step keeps them.
LEMMA OrderlyStep ==
    TypeOK /\ RowsKnown /\ RunnersBacked /\ Orderly /\ [Next]_vars => Orderly'
<1> SUFFICES ASSUME TypeOK, RowsKnown, RunnersBacked, Orderly, [Next]_vars PROVE Orderly'
  OBVIOUS
<1>a. /\ run \in [Runners -> RunnerRecords] /\ payload \in [Tasks -> Payloads]
      /\ rows \in 0..MaxTasks /\ MaxTasks \in Nat
  BY BoundsAssumption DEF TypeOK
<1>1. ASSUME scan' \subseteq scan \/ scan' = ListPendingTasks,
             rows' >= rows /\ rows' \in Nat,
             \A t \in Tasks : t > rows' => payload'[t] = payload[t],
             \A r \in Runners :
                \/ run'[r] = run[r] \/ run'[r].pc \notin {"report", "save"}
                \/ run'[r].idx < run'[r].size
      PROVE  Orderly'
  <2>1. ListedOnce'
    <3>1. CASE scan' \subseteq scan
      BY <3>1 DEF Orderly, ListedOnce
    <3>2. CASE scan' = ListPendingTasks
      <4>1. \A e \in scan' : e = [task |-> e.task, payload |-> payload[e.task]]
        BY <3>2, Listed
      <4>2. QED
        BY <4>1 DEF ListedOnce
    <3>3. QED
      BY <1>1, <3>1, <3>2
  <2>2. FreshRows'
    <3>1. \A t \in Tasks : t > rows' => t > rows
      BY <1>1, <1>a DEF Tasks
    <3>2. QED
      BY <3>1, <1>1 DEF Orderly, FreshRows
  <2>3. Within'
    BY <1>1 DEF Orderly, Within
  <2>4. QED
    BY <2>1, <2>2, <2>3 DEF Orderly
<1>2. CASE Submit \/ FanOut
  <2>1. PICK k, st, n, p, o : CreateTask(k, st, n, p, o)
    BY <1>2 DEF Submit, FanOut, BatchStart, BatchCreateSingle, BatchCreateMulti
  <2>2. run' = run /\ scan' = scan
    BY <1>2 DEF Submit, FanOut, BatchStart, BatchCreateSingle, BatchCreateMulti, procVars
  <2>3. rows' >= rows /\ rows' \in Nat
    BY <2>1, <1>a DEF CreateTask
  <2>4. \A t \in Tasks : t > rows' => payload'[t] = payload[t]
    BY <2>1, <1>a DEF CreateTask, Tasks
  <2>5. QED
    BY <1>1, <2>2, <2>3, <2>4
<1>3. ASSUME UNCHANGED <<rows, payload, run>>, scan' \subseteq scan \/ scan' = ListPendingTasks
      PROVE  Orderly'
  BY <1>1, <1>3, <1>a
<1>4. ASSUME NEW u \in Tasks, Stop(u) \/ Pause(u) \/ Resume(u) PROVE Orderly'
  BY <1>3, <1>4 DEF Stop, Pause, Resume, UserWrites, procVars
<1>5. ASSUME NEW u \in Tasks, NEW n \in Sizes, NEW b \in BOOLEAN, Edit(u, n, b)
      PROVE  Orderly'
  <2>1. UNCHANGED <<rows, run, scan>> /\ u <= rows
    BY <1>5 DEF Edit, procVars
  <2>2. \A t \in Tasks : t > rows => payload'[t] = payload[t]
    BY <1>5, <2>1, <1>a DEF Edit, Tasks
  <2>3. QED
    BY <2>1, <2>2, <1>1, <1>a
<1>6. CASE Claim
  <2> PICK e \in scan : \/ ClaimMisses(e)
                        \/ ClaimFails
                        \/ \E r \in Runners : ClaimBatch(e, r)
                        \/ ClaimParent(e)
    BY <1>6 DEF Claim
  <2>1. CASE ClaimMisses(e) \/ ClaimFails \/ ClaimParent(e)
    BY <2>1, <1>3 DEF ClaimMisses, ClaimFails, ClaimParent, dbVars
  <2>2. ASSUME NEW r \in Runners, ClaimBatch(e, r) PROVE Orderly'
    <3>1. /\ \A q \in Runners \ {r} : run'[q] = run[q]
          /\ run'[r].pc = "sem"
          /\ UNCHANGED <<rows, payload>> /\ scan' \subseteq scan
      BY <2>2, <1>a DEF ClaimBatch
    <3>2. QED
      BY <3>1, <1>1, <1>a
  <2>3. QED
    BY <2>1, <2>2
<1>7. CASE Exit \/ Crash
  BY <1>1, <1>7, <1>a DEF Exit, Crash, Restarted, FreeRunner, dbVars
<1>8. ASSUME NEW r \in Runners, RunnerStep(r) \/ RunnerPanic(r) PROVE Orderly'
  <2>1. /\ \A q \in Runners \ {r} : run'[q] = run[q]
        /\ run[r].task \in Tasks /\ run[r].task <= rows
        /\ run'[r] = FreeRunner \/ run'[r].size = run[r].size
        /\ \A t \in Tasks \ {run[r].task} : payload'[t] = payload[t]
        /\ UNCHANGED <<rows, scan>>
    BY <1>8, RunnerFrame
  <2>2. \A t \in Tasks : t > rows' => payload'[t] = payload[t]
    BY <2>1, <1>a DEF Tasks
  <2>3. run'[r].pc \in {"report", "save"}
           => run'[r].idx = run[r].idx /\ run[r].pc \in {"call", "report"}
    <3>1. CASE \E ok \in BOOLEAN : Call(r, ok)
      BY <3>1, <1>a DEF Call, RunnerRecords
    <3>2. CASE Report(r)
      BY <3>2, <1>a DEF Report, Goto, RunnerRecords
    <3>3. CASE Acquire(r) \/ Prepare(r) \/ NextItem(r) \/ taskIsActive(r) \/ Mark(r) \/ Sleep(r) \/ Park(r)
      BY <3>3, <1>a DEF Acquire, Prepare, NextItem, taskIsActive, Mark, Sleep, Park, Goto, RunnerRecords
    <3>4. CASE PrepareFails(r) \/ Complete(r) \/ Yield(r) \/ RunnerPanic(r)
      BY <3>4, <1>a DEF PrepareFails, Complete, Yield, RunnerPanic, Finish, Leave, FreeRunner
    <3>5. CASE Save(r)
      BY <3>5, <1>a DEF Save
    <3>6. QED
      BY <1>8, <3>1, <3>2, <3>3, <3>4, <3>5 DEF RunnerStep
  <2>4. run'[r].pc \in {"report", "save"} => run'[r].idx < run'[r].size
    BY <2>1, <2>3 DEF RunnersBacked, Orderly, Within, FreeRunner
  <2>5. QED
    BY <2>1, <2>2, <2>4, <1>1, <1>a
<1>9. CASE UNCHANGED vars
  BY <1>3, <1>9 DEF vars
<1>10. CASE MarkParent \/ Scan
  BY <1>3, <1>10 DEF MarkParent, Scan, dbVars
<1>11. CASE FanOutFails \/ Boot \/ WorkerStop \/ WorkerPanic \/ ShutdownSignal \/ ShutdownReset
  BY <1>3, <1>11 DEF FanOutFails, Boot, WorkerStop, WorkerPanic, ShutdownSignal, ShutdownReset,
     dbVars
<1>12. QED
  BY <1>2, <1>4, <1>5, <1>6, <1>7, <1>8, <1>9, <1>10, <1>11
  DEF Next, User, WorkerStep, ProcessStep

\* What a step is to the tasks' balance.
Rests ==
    /\ UNCHANGED <<handled, run>>
    /\ \A t \in Tasks : payload'[t].next = payload[t].next
    /\ shut' = "no" <=> shut = "no"
    /\ scan' \subseteq scan \/ Scan

\* Every step but an edit rests, claims, signals a shutdown, restarts or is a
\* goroutine's.
LEMMA StepKinds ==
    ASSUME TypeOK, RowsKnown, Orderly, [Next]_vars, ~Spend("edit")
    PROVE  \/ Rests
           \/ \E e \in scan, r \in Runners : ClaimBatch(e, r)
           \/ ShutdownSignal
           \/ Exit \/ Crash
           \/ \E r \in Runners : RunnerStep(r) \/ RunnerPanic(r)
<1>a. /\ payload \in [Tasks -> Payloads] /\ rows \in 0..MaxTasks /\ MaxTasks \in Nat
  BY BoundsAssumption DEF TypeOK
<1>1. ASSUME UNCHANGED <<handled, run, payload>>, shut' = "no" <=> shut = "no",
             scan' \subseteq scan \/ Scan
      PROVE  Rests
  BY <1>1 DEF Rests
<1>2. CASE Submit \/ FanOut
  <2>1. PICK k, st, n, p, o : CreateTask(k, st, n, p, o)
    BY <1>2 DEF Submit, FanOut, BatchStart, BatchCreateSingle, BatchCreateMulti
  <2>2. UNCHANGED <<run, scan, shut, handled>>
    BY <1>2 DEF Submit, FanOut, BatchStart, BatchCreateSingle, BatchCreateMulti, procVars
  <2>3. \A t \in Tasks : t # rows + 1 => payload'[t] = payload[t]
    BY <2>1, <1>a DEF CreateTask
  <2>4. rows + 1 \in Tasks /\ payload'[rows + 1].next = 0 /\ payload[rows + 1].next = 0
    BY <2>1, <1>a DEF CreateTask, Tasks, Orderly, FreshRows
  <2>5. QED
    BY <2>2, <2>3, <2>4 DEF Rests
<1>3. ASSUME NEW u \in Tasks, Stop(u) \/ Pause(u) \/ Resume(u) PROVE Rests
  BY <1>3, <1>1 DEF Stop, Pause, Resume, UserWrites, procVars
<1>4. ASSUME NEW u \in Tasks, NEW n \in Sizes, NEW b \in BOOLEAN, Edit(u, n, b) PROVE FALSE
  BY <1>4 DEF Edit
<1>5. CASE MarkParent \/ Scan
  BY <1>1, <1>5 DEF MarkParent, Scan, dbVars
<1>6. CASE FanOutFails \/ Boot \/ WorkerStop \/ WorkerPanic \/ ShutdownReset
  BY <1>1, <1>6 DEF FanOutFails, Boot, WorkerStop, WorkerPanic, ShutdownReset, dbVars
<1>7. ASSUME NEW e \in scan, ClaimMisses(e) \/ ClaimFails \/ ClaimParent(e) PROVE Rests
  BY <1>1, <1>7 DEF ClaimMisses, ClaimFails, ClaimParent, dbVars
<1>8. CASE UNCHANGED vars
  BY <1>1, <1>8 DEF vars
<1>9. QED
  BY <1>2, <1>3, <1>4, <1>5, <1>6, <1>7, <1>8 DEF Next, User, WorkerStep, Claim, ProcessStep

\* What a scan lists while the process runs has no goroutine.
LEMMA ListedFreeStep ==
    ASSUME TypeOK, RowsKnown, Exclusive, Orderly, ListedFree, Unmeddled, Unmeddled', [Next]_vars
    PROVE  ListedFree'
<1> SUFFICES ASSUME shut' = "no" PROVE \A e \in scan' : RunnersOf(e.task)' = {}
  BY DEF ListedFree
<1>a. shut = "no" \/ Restarted
  BY CalmBefore DEF Calm, Unmeddled
<1>1. CASE Restarted
  BY <1>1 DEF Restarted
<1> SUFFICES ASSUME shut = "no" PROVE \A e \in scan' : RunnersOf(e.task)' = {}
  BY <1>a, <1>1
<1>b. NotPending /\ \A e \in scan : RunnersOf(e.task) = {}
  BY DEF Exclusive, Calm, Unmeddled, ListedFree
<1>2. CASE Rests /\ scan' \subseteq scan
  BY <1>2, <1>b DEF Rests, RunnersOf
<1>3. CASE Scan
  <2>1. \A e \in scan' : status[e.task] = "pending"
    BY <1>3, Listed DEF Scan
  <2>2. QED
    BY <1>3, <2>1, <1>b DEF Scan, NotPending, RunnersOf
<1>4. ASSUME NEW e \in scan, NEW r \in Runners, ClaimBatch(e, r)
      PROVE  \A f \in scan' : RunnersOf(f.task)' = {}
  <2>1. /\ scan' = scan \ {e} /\ run'[r].task = e.task
        /\ \A q \in Runners \ {r} : run'[q] = run[q]
    BY <1>4 DEF ClaimBatch, TypeOK
  <2>2. \A f \in scan' : f.task # e.task
    BY <2>1 DEF Orderly, ListedOnce
  <2>3. QED
    BY <2>1, <2>2, <1>b DEF RunnersOf
<1>5. CASE ShutdownSignal
  BY <1>5 DEF ShutdownSignal
<1>6. CASE Exit \/ Crash
  BY <1>6, <1>1 DEF Exit, Crash
<1>7. ASSUME NEW r \in Runners, RunnerStep(r) \/ RunnerPanic(r)
      PROVE  \A f \in scan' : RunnersOf(f.task)' = {}
  <2>1. /\ \A q \in Runners \ {r} : run'[q] = run[q]
        /\ run[r].pc # "free" /\ scan' = scan
        /\ run'[r].pc = "free" \/ run'[r].task = run[r].task
    BY <1>7, RunnerFrame DEF FreeRunner
  <2>2. QED
    BY <2>1, <1>b DEF RunnersOf
<1>8. QED
  BY <1>2, <1>3, <1>4, <1>5, <1>6, <1>7, StepKinds, LossesStep DEF Rests

\* One goroutine at most is at the call for a task: while the process runs
\* because it is the only one, and afterwards because none comes there.
LEMMA OneCallStep ==
    ASSUME TypeOK, RowsKnown, Exclusive, Orderly, OneCall, Unmeddled', [Next]_vars
    PROVE  OneCall'
<1>1. CASE shut' = "no"
  <2>1. Distinct'
    BY <1>1, ExclusiveStep DEF Exclusive, Calm, Unmeddled
  <2>2. QED
    BY <2>1 DEF Distinct, OneCall, AtItem
<1>2. ASSUME \A q \in Runners : run'[q].pc \in AtItem
                => run[q].pc \in AtItem /\ run'[q].task = run[q].task
      PROVE  OneCall'
  BY <1>2 DEF OneCall
<1>3. CASE Rests \/ ShutdownSignal
  BY <1>2, <1>3 DEF Rests, ShutdownSignal
<1>4. ASSUME NEW e \in scan, NEW r \in Runners, ClaimBatch(e, r) PROVE OneCall'
  BY <1>2, <1>4 DEF ClaimBatch, TypeOK, AtItem
<1>5. CASE Exit \/ Crash
  BY <1>2, <1>5 DEF Exit, Crash, Restarted, FreeRunner, AtItem
<1>6. ASSUME NEW r \in Runners, RunnerStep(r) \/ RunnerPanic(r), shut' # "no" PROVE OneCall'
  <2>1. /\ \A q \in Runners \ {r} : run'[q] = run[q]
        /\ run'[r].pc = "free" \/ run'[r].task = run[r].task
        /\ shut # "no"
    BY <1>6, RunnerFrame DEF FreeRunner
  <2>2. run'[r].pc \in AtItem => run[r].pc \in AtItem
    <3>1. run \in [Runners -> RunnerRecords]
      BY DEF TypeOK
    <3>2. CASE Acquire(r) \/ Prepare(r) \/ NextItem(r) \/ taskIsActive(r) \/ Mark(r) \/ Report(r) \/ Sleep(r) \/ Park(r)
      BY <2>1, <3>1, <3>2 DEF Acquire, Prepare, NextItem, taskIsActive, Interrupted, Mark, Report, Sleep, Park, Goto, RunnerRecords,
         AtItem
    <3>3. CASE PrepareFails(r) \/ Complete(r) \/ Yield(r) \/ RunnerPanic(r)
      BY <3>1, <3>3 DEF PrepareFails, Complete, Yield, RunnerPanic, Finish, Leave, FreeRunner,
         AtItem
    <3>4. CASE Save(r) \/ \E ok \in BOOLEAN : Call(r, ok)
      BY <3>1, <3>4 DEF Save, Call, RunnerRecords, AtItem
    <3>5. QED
      BY <1>6, <3>2, <3>3, <3>4 DEF RunnerStep
  <2>3. QED
    BY <1>2, <2>1, <2>2 DEF FreeRunner, AtItem
<1>7. QED
  BY <1>1, <1>3, <1>4, <1>5, <1>6, StepKinds, LossesStep

\* Every step keeps the balance.
LEMMA BalancedStep ==
    TypeOK /\ RowsKnown /\ RunnersBacked /\ Exclusive /\ Orderly /\ Balanced /\ [Next]_vars
        => Balanced'
<1> SUFFICES ASSUME TypeOK, RowsKnown, RunnersBacked, Exclusive, Orderly, Balanced, [Next]_vars,
                    Unmeddled'
             PROVE  ListedFree' /\ OneCall' /\ \A t \in Tasks : Paid(t)'
  BY DEF Balanced
<1>1. Unmeddled /\ ~Spend("edit")
  BY LossesStep
<1>2. ListedFree /\ OneCall /\ \A t \in Tasks : Paid(t)
  BY <1>1 DEF Balanced
<1>3. ListedFree' /\ OneCall'
  BY <1>1, <1>2, ListedFreeStep, OneCallStep
<1> SUFFICES ASSUME NEW t \in Tasks, Paid(t) PROVE Paid(t)'
  BY <1>2, <1>3
<1>4. CASE Rests
  <2>1. \A e \in scan' : e \in scan \/ e.payload = payload[e.task]
    BY <1>4, Listed DEF Rests, Scan
  <2>2. QED
    BY <1>4, <2>1, PaidAtRest DEF Rests
<1>5. ASSUME NEW e \in scan, NEW r \in Runners, ClaimBatch(e, r) PROVE Paid(t)'
  BY <1>5, PaidByClaim
<1>6. CASE ShutdownSignal
  BY <1>1, <1>6, PaidByShutdown
<1>7. CASE Exit \/ Crash
  BY <1>7, PaidByRestart
<1>8. ASSUME NEW r \in Runners, RunnerStep(r) \/ RunnerPanic(r) PROVE Paid(t)'
  <2>1. CASE t # run[r].task
    BY <1>8, <2>1, PaidElsewhere
  <2>2. CASE t = run[r].task
    <3>1. ASSUME NEW ok \in BOOLEAN, Call(r, ok) PROVE Paid(t)'
      BY <1>1, <1>2, <2>2, <3>1, PaidByCall
    <3>2. CASE Save(r) \/ Park(r)
      BY <1>1, <1>2, <2>2, <3>2, PaidBySave DEF Orderly
    <3>3. CASE \/ Acquire(r) \/ Prepare(r) \/ PrepareFails(r) \/ NextItem(r) \/ taskIsActive(r) \/ Complete(r)
               \/ Mark(r) \/ Report(r) \/ Sleep(r) \/ Yield(r) \/ RunnerPanic(r)
      BY <2>2, <3>3, PaidByMoving
    <3>4. QED
      BY <1>8, <3>1, <3>2, <3>3 DEF RunnerStep
  <2>3. QED
    BY <2>1, <2>2
<1>9. QED
  BY <1>1, <1>4, <1>5, <1>6, <1>7, <1>8, StepKinds

\* What is paid for is no more than the losses: the instance that is credited
\* was done once and counts as due, but not as a repetition.
LEMMA WithinLosses ==
    TypeOK /\ RowsKnown /\ RunnersBacked /\ Orderly /\ Balanced => RepetitionsBounded
<1> SUFFICES ASSUME TypeOK, RowsKnown, RunnersBacked, Orderly, Balanced,
                    Spent("resume") + Spent("edit") + Spent("wpanic") = 0, NEW t \in Tasks
             PROVE  Cardinality(Redone(t)) <= Losses
  BY DEF RepetitionsBounded
<1>1. /\ \A d \in {"resume", "edit", "wpanic", "crash", "shutdown", "fault"} : Spent(d) \in Nat
      /\ Losses \in Nat
  <2>1. \A d \in Disturbances : Spent(d) \in Nat
    BY BudgetAssumption DEF TypeOK, RowsKnown, Spent
  <2>2. {"resume", "edit", "wpanic", "crash", "shutdown", "fault"} \subseteq Disturbances
    BY DEF Disturbances
  <2>3. QED
    BY <2>1, <2>2 DEF Losses
<1>2. Unmeddled
  BY <1>1 DEF Unmeddled
<1>3. PICK k \in Nat : CopiesFrom(t, k) /\ Covered(t, k)
  BY <1>2 DEF Balanced, Paid
<1>4. /\ IsFiniteSet(DueFrom(handled, t, k)) /\ Cardinality(DueFrom(handled, t, k)) \in Nat
      /\ Debit(t) \in {0, 1} /\ Credit(t) \in {0, 1}
  BY DueFinite DEF Debit, Credit
<1>5. Redone(t) \subseteq DueFrom(handled, t, k)
  BY BoundsAssumption DEF Redone, DueFrom
<1>6. CASE Credit(t) = 0
  <2>1. Cardinality(Redone(t)) <= Cardinality(DueFrom(handled, t, k)) /\ Cardinality(Redone(t)) \in Nat
    BY <1>4, <1>5, FS_Subset, FS_CardinalityType
  <2>2. QED
    BY <1>1, <1>3, <1>4, <1>6, <2>1 DEF Covered
<1>7. CASE Credit(t) = 1
  <2>1. PICK r \in RunnersOf(t) : run[r].pc \in {"report", "save"}
    BY <1>7 DEF Credit, Called
  <2>2. PICK i : i = run[r].idx
    OBVIOUS
  <2>3. /\ i \in Nat /\ i < run[r].size /\ run[r].size \in 0..MaxItems /\ i >= k
        /\ HandledUpTo(handled, t, i + 1)
    BY <2>1, <2>2, <1>3 DEF TypeOK, RunnerRecords, Orderly, Within, CopiesFrom, RunnersOf, RunnersBacked
  <2>4. i \in Items /\ handled[t][i] > 0 /\ handled[t] \in [Items -> Nat]
    BY <2>3, BoundsAssumption DEF Items, HandledUpTo, TypeOK
  <2>5. Cardinality(DueFrom(handled, t, i + 1)) + 1 <= Cardinality(DueFrom(handled, t, k))
    BY <2>3, <2>4, DueSaved
  <2>6. Redone(t) \subseteq DueFrom(handled, t, i + 1)
    BY BoundsAssumption DEF Redone, DueFrom
  <2>7. /\ Cardinality(Redone(t)) <= Cardinality(DueFrom(handled, t, i + 1))
        /\ Cardinality(Redone(t)) \in Nat /\ Cardinality(DueFrom(handled, t, i + 1)) \in Nat
    BY <2>6, DueFinite, FS_Subset, FS_CardinalityType
  <2>8. QED
    BY <1>1, <1>3, <1>4, <1>7, <2>5, <2>7 DEF Covered
<1>8. QED
  BY <1>4, <1>6, <1>7

-----------------------------------------------------------------------------
(* The contract.                                                            *)

\* No copy of the payload is ahead of instance k.
CopiesUpTo(t, k) ==
    /\ payload[t].next <= k
    /\ \A e \in scan : e.task = t => e.payload.next <= k
    /\ \A r \in RunnersOf(t) : run[r].idx <= k

\* While an instance is to be taken, nothing that is or will be at work on the
\* task is ahead of it, and nothing reports the task completed once its status
\* was read.
NotOvertaken ==
    \A r \in Runners :
        /\ run[r].pc \in {"check", "mark", "call"} => CopiesUpTo(run[r].task, run[r].idx)
        /\ run[r].pc \in {"mark", "call"} => status[run[r].task] # "completed"

\* A row says completed because a goroutine completed it.
LEMMA CompletedBy ==
    ASSUME TypeOK, RowsKnown, [Next]_vars, NEW t \in Tasks, status'[t] = "completed"
    PROVE  status[t] = "completed" \/ \E r \in Runners : Complete(r) /\ run[r].task = t
<1>a. /\ status \in [Tasks -> Statuses] /\ rows \in 0..MaxTasks /\ MaxTasks \in Nat
  BY BoundsAssumption DEF TypeOK
<1>1. CASE Submit \/ FanOut
  <2>1. PICK k, st, n, p, o : st \in {"pending", "running"} /\ CreateTask(k, st, n, p, o)
    BY <1>1 DEF Submit, FanOut, BatchStart, BatchCreateSingle, BatchCreateMulti
  <2>2. QED
    BY <2>1, <1>a DEF CreateTask
<1>2. CASE FanOutFails \/ Scan \/ WorkerStop \/ WorkerPanic \/ ShutdownSignal \/ Exit \/ Crash
           \/ UNCHANGED vars
  BY <1>2 DEF FanOutFails, Scan, WorkerStop, WorkerPanic, ShutdownSignal, Exit, Crash,
     Restarted, dbVars, vars
<1>3. ASSUME NEW u \in Tasks, Stop(u) \/ Pause(u) \/ Resume(u) PROVE status[t] = "completed"
  BY <1>3, <1>a DEF Stop, Pause, Resume, UserWrites
<1>4. ASSUME NEW u \in Tasks, NEW n \in Sizes, NEW b \in BOOLEAN, Edit(u, n, b)
      PROVE  status[t] = "completed"
  BY <1>4 DEF Edit
<1>5. CASE Boot \/ ShutdownReset
  BY <1>5, <1>a DEF Boot, ShutdownReset, ResetRunningTasks, Reset
<1>6. CASE Claim \/ MarkParent
  BY <1>6, <1>a DEF Claim, ClaimMisses, ClaimFails, ClaimBatch, ClaimParent, Claimed,
     MarkParent, SetStatus, dbVars
<1>7. ASSUME NEW r \in Runners, RunnerStep(r) \/ RunnerPanic(r)
      PROVE  status[t] = "completed" \/ (Complete(r) /\ run[r].task = t)
  <2>1. /\ run[r].pc # "free" /\ run[r].task \in Tasks
        /\ \A u \in Tasks \ {run[r].task} : status'[u] = status[u]
    BY <1>7, RunnerFrame
  <2>2. CASE PrepareFails(r)
    BY <2>1, <2>2, <1>a, FinishStatus DEF PrepareFails, Statuses
  <2>3. CASE ~(PrepareFails(r) \/ Complete(r))
    BY <1>7, <2>3, <2>1, <1>a DEF RunnerStep, RunnerPanic, Acquire, Prepare, NextItem, taskIsActive, Mark,
       Call, Report, Save, Sleep, Park, Yield, SetStatus, dbVars
  <2>4. QED
    BY <2>1, <2>2, <2>3
<1>8. QED
  BY <1>1, <1>2, <1>3, <1>4, <1>5, <1>6, <1>7 DEF Next, User, WorkerStep, ProcessStep

\* No goroutine completes a task while another is to take an instance of it:
\* it is not ahead of that one.
LEMMA NotCompleted ==
    ASSUME TypeOK, RowsKnown, RunnersBacked, SizesAgree, NotOvertaken, Unmeddled, [Next]_vars,
           NEW r \in Runners, run[r].pc \in {"mark", "call"}
    PROVE  status'[run[r].task] # "completed"
<1> SUFFICES ASSUME status'[run[r].task] = "completed" PROVE FALSE
  OBVIOUS
<1>1. run[r].task \in Tasks
  BY TaskKnown
<1>2. PICK t \in Tasks : t = run[r].task
  BY <1>1
<1>3. CopiesUpTo(t, run[r].idx) /\ status[t] # "completed"
  BY <1>2 DEF NotOvertaken
<1>4. PICK q \in Runners : Complete(q) /\ run[q].task = t
  BY <1>2, <1>3, CompletedBy
<1>5. run[q].idx <= run[r].idx
  BY <1>3, <1>4 DEF CopiesUpTo, RunnersOf, Complete
<1>6. run[r].idx < run[r].size /\ run[q].idx >= run[q].size
  BY <1>4 DEF RunnersBacked, Complete, Exhausted
<1>7. run[r].size = run[q].size
  BY <1>2, <1>4 DEF SizesAgree, Unmeddled, Complete
<1>8. /\ run[r].idx \in Nat /\ run[q].idx \in Nat
      /\ run[r].size \in 0..MaxItems /\ MaxItems \in Nat
  BY BoundsAssumption DEF TypeOK, RunnerRecords
<1>9. QED
  BY <1>5, <1>6, <1>7, <1>8

\* A goroutine goes to an instance only while it is the one that is at work on
\* the task, and it is at the checkpoint or ahead of it.
LEMMA AheadOnEntry ==
    ASSUME TypeOK, RowsKnown, Exclusive, ListedFree, Unmeddled, NEW r \in Runners,
           NEW t \in Tasks, t = run[r].task, Paid(t), NextItem(r), run'[r].pc = "check"
    PROVE  CopiesUpTo(run[r].task, run[r].idx)'
<1>1. /\ run'[r].task = t /\ run'[r].idx = run[r].idx /\ run[r].pc = "loop"
      /\ \A q \in Runners \ {r} : run'[q] = run[q]
      /\ shut = "no"
      /\ UNCHANGED <<payload, scan>>
  BY DEF NextItem, Interrupted, Goto, TypeOK, RunnerRecords, dbVars
<1>2. payload[t].next <= run[r].idx
  BY <1>1 DEF Paid, CopiesFrom, RunnersOf
<1>3. \A e \in scan : e.task # t
  BY <1>1 DEF ListedFree, RunnersOf
<1>4. \A q \in RunnersOf(t)' : q = r
  <2>1. Distinct
    BY <1>1 DEF Exclusive, Calm, Unmeddled
  <2>2. QED
    BY <2>1, <1>1 DEF Distinct, RunnersOf
<1>5. run[r].idx \in Nat
  BY DEF TypeOK, RunnerRecords
<1>6. QED
  BY <1>1, <1>2, <1>3, <1>4, <1>5 DEF CopiesUpTo

\* What happens while a goroutine is to take an instance leaves the copies of
\* the payload behind it.
LEMMA BehindKept ==
    ASSUME TypeOK, RowsKnown, Orderly, OneCall, [Next]_vars, ~Spend("edit"),
           NEW r \in Runners, run[r].pc \in {"check", "mark", "call"},
           run'[r].pc \in {"check", "mark", "call"},
           NEW t, NEW k, t = run[r].task, k = run[r].idx, CopiesUpTo(t, k)
    PROVE  run'[r].task = t /\ run'[r].idx = k /\ CopiesUpTo(t, k)'
<1> DEFINE Goal == /\ run'[r].task = t /\ run'[r].idx = k
                   /\ payload'[t].next <= k
                   /\ \A e \in scan' : e.task = t => e.payload.next <= k
                   /\ \A q \in RunnersOf(t)' : run'[q].idx <= k
<1>a. /\ run \in [Runners -> RunnerRecords] /\ payload \in [Tasks -> Payloads]
      /\ t \in Tasks /\ k \in Nat
  BY TaskKnown DEF TypeOK, RunnerRecords
<1>b. /\ payload[t].next <= k
      /\ \A e \in scan : e.task = t => e.payload.next <= k
      /\ \A q \in RunnersOf(t) : run[q].idx <= k
  BY DEF CopiesUpTo
<1> SUFFICES Goal
  BY DEF CopiesUpTo
<1>1. CASE Rests
  <2>1. \A e \in scan' : e \in scan \/ e.payload = payload[e.task]
    BY <1>1, Listed DEF Rests, Scan
  <2>2. QED
    BY <1>1, <2>1, <1>a, <1>b DEF Rests, RunnersOf
<1>2. ASSUME NEW e \in scan, NEW q \in Runners, ClaimBatch(e, q) PROVE Goal
  <2>1. /\ run[q].pc = "free" /\ run'[q].task = e.task /\ run'[q].idx = e.payload.next
        /\ \A p \in Runners \ {q} : run'[p] = run[p]
        /\ scan' \subseteq scan /\ payload' = payload
    BY <1>2, <1>a DEF ClaimBatch, StartIndex
  <2>2. QED
    BY <2>1, <1>a, <1>b DEF RunnersOf
<1>3. CASE ShutdownSignal
  BY <1>3, <1>b DEF ShutdownSignal, RunnersOf, dbVars
<1>4. CASE Exit \/ Crash
  BY <1>4 DEF Exit, Crash, Restarted, FreeRunner
<1>5. ASSUME NEW q \in Runners, RunnerStep(q) \/ RunnerPanic(q) PROVE Goal
  <2>1. /\ \A p \in Runners \ {q} : run'[p] = run[p]
        /\ run[q].pc # "free" /\ scan' = scan
        /\ run'[q].pc = "free" \/ run'[q].task = run[q].task
        /\ \A u \in Tasks \ {run[q].task} : payload'[u] = payload[u]
    BY <1>5, RunnerFrame DEF FreeRunner
  <2>2. CASE q = r
    <3>1. CASE Mark(r) \/ taskIsActive(r)
      <4>1. run'[r].task = t /\ run'[r].idx = k /\ payload' = payload
        BY <3>1, <1>a DEF Mark, taskIsActive, Goto, RunnerRecords, dbVars
      <4>2. QED
        BY <2>1, <2>2, <4>1, <1>a, <1>b DEF RunnersOf
    <3>2. CASE \E ok \in BOOLEAN : Call(r, ok)
      BY <3>2, <1>a DEF Call, RunnerRecords
    <3>3. CASE RunnerPanic(r)
      BY <3>3, <1>a DEF RunnerPanic, Leave, FreeRunner
    <3>4. QED
      BY <1>5, <2>2, <3>1, <3>2, <3>3 DEF RunnerStep, Acquire, Prepare, PrepareFails, NextItem, taskIsActive,
         Complete, Report, Save, Sleep, Park, Yield
  <2>3. CASE q # r /\ run[q].task # t
    BY <2>1, <2>3, <1>a, <1>b DEF RunnersOf
  <2>4. CASE q # r /\ run[q].task = t
    <3>1. run[q].pc \notin AtItem
      BY <2>4 DEF OneCall, AtItem
    <3>2. run[q].idx <= k
      BY <2>1, <2>4, <1>b DEF RunnersOf
    <3>3. CASE Acquire(q) \/ Prepare(q) \/ NextItem(q) \/ taskIsActive(q) \/ Sleep(q) \/ Park(q)
      <4>1. run'[q].idx = run[q].idx
        BY <3>3, <1>a DEF Acquire, Prepare, NextItem, taskIsActive, Sleep, Park, Goto, RunnerRecords
      <4>2. payload'[t] = payload[t] \/ payload'[t].next = run[q].idx
        BY <2>4, <3>3, <1>a DEF Acquire, Prepare, NextItem, taskIsActive, Sleep, Park, saveCheckpoint, dbVars
      <4>3. QED
        BY <2>1, <2>4, <3>2, <4>1, <4>2, <1>b DEF RunnersOf
    <3>4. CASE PrepareFails(q) \/ Complete(q) \/ Yield(q) \/ RunnerPanic(q)
      <4>1. run'[q].pc = "free" /\ payload' = payload
        BY <3>4, <1>a DEF PrepareFails, Complete, Yield, RunnerPanic, Finish, Leave, FreeRunner
      <4>2. QED
        BY <2>1, <2>4, <4>1, <1>b DEF RunnersOf
    <3>5. QED
      BY <1>5, <3>1, <3>3, <3>4 DEF RunnerStep, Mark, Call, Report, Save, AtItem
  <2>5. QED
    BY <2>2, <2>3, <2>4
<1>6. QED
  BY <1>1, <1>2, <1>3, <1>4, <1>5, StepKinds

\* A goroutine comes to an instance through the head of the loop, and to the
\* call through the read of the status.
LEMMA EntryStep ==
    ASSUME TypeOK, RowsKnown, Orderly, [Next]_vars, ~Spend("edit"), NEW r \in Runners
    PROVE  /\ /\ run'[r].pc \in {"check", "mark", "call"}
              /\ run[r].pc \notin {"check", "mark", "call"}
              => NextItem(r) /\ run'[r].pc = "check"
           /\ run'[r].pc \in {"mark", "call"} /\ run[r].pc \notin {"mark", "call"}
              => taskIsActive(r) /\ run'[r].pc = "mark"
<1> DEFINE Same == run'[r].pc = run[r].pc \/ run'[r].pc \notin {"check", "mark", "call"}
           Goal == \/ Same
                   \/ NextItem(r) /\ run'[r].pc = "check"
                   \/ taskIsActive(r) /\ run'[r].pc = "mark"
                   \/ run[r].pc = "mark" /\ run'[r].pc = "call"
<1>a. run \in [Runners -> RunnerRecords]
  BY DEF TypeOK
<1>1. ASSUME Rests \/ ShutdownSignal PROVE Same
  BY <1>1 DEF Rests, ShutdownSignal
<1>2. ASSUME NEW e \in scan, NEW q \in Runners, ClaimBatch(e, q) PROVE Same
  BY <1>2, <1>a DEF ClaimBatch
<1>3. ASSUME Exit \/ Crash PROVE Same
  BY <1>3 DEF Exit, Crash, Restarted, FreeRunner
<1>4. ASSUME NEW q \in Runners, RunnerStep(q) \/ RunnerPanic(q) PROVE Goal
  <2>1. CASE q # r
    BY <1>4, <2>1, RunnerFrame
  <2>2. CASE q = r
    <3>1. CASE PrepareFails(r) \/ Complete(r) \/ Yield(r) \/ RunnerPanic(r)
      BY <1>a, <3>1 DEF PrepareFails, Complete, Yield, RunnerPanic, Finish, Leave, FreeRunner
    <3>2. CASE Acquire(r) \/ Prepare(r) \/ Report(r) \/ Sleep(r) \/ Park(r)
      BY <1>a, <3>2 DEF Acquire, Prepare, Report, Sleep, Park, Goto, RunnerRecords
    <3>3. CASE Save(r)
      <4>1. run'[r].pc \in {"sleep", "loop"}
        BY <1>a, <3>3 DEF Save, RunnerRecords
      <4>2. QED
        BY <4>1
    <3>0. ASSUME NEW ok \in BOOLEAN, Call(r, ok) PROVE Goal
      <4>1. run'[r].pc \in {"save", "report"}
        BY <1>a, <3>0 DEF Call, RunnerRecords
      <4>2. QED
        BY <4>1
    <3>4. CASE NextItem(r)
      BY <1>a, <3>4 DEF NextItem, Goto, RunnerRecords
    <3>5. CASE taskIsActive(r)
      BY <1>a, <3>5 DEF taskIsActive, Goto, RunnerRecords
    <3>6. CASE Mark(r)
      BY <1>a, <3>6 DEF Mark, Goto, RunnerRecords
    <3>7. QED
      BY <1>4, <2>2, <3>0, <3>1, <3>2, <3>3, <3>4, <3>5, <3>6 DEF RunnerStep
  <2>3. QED
    BY <2>1, <2>2
<1>5. Goal
  BY <1>1, <1>2, <1>3, <1>4, StepKinds
<1>6. QED
  BY <1>5 DEF NextItem, taskIsActive

\* Every step keeps the goroutine that is to take an instance ahead.
LEMMA OvertakenStep ==
    ASSUME TypeOK, RowsKnown, RunnersBacked, SizesAgree, Exclusive, Orderly, ListedFree, OneCall,
           NotOvertaken, \A t \in Tasks : Paid(t), Unmeddled, Unmeddled', [Next]_vars
    PROVE  NotOvertaken'
<1>a. ~Spend("edit") /\ run \in [Runners -> RunnerRecords]
  BY LossesStep DEF TypeOK
<1>1. ASSUME NEW r \in Runners, run'[r].pc \in {"check", "mark", "call"}
      PROVE  CopiesUpTo(run[r].task, run[r].idx)'
  <2>1. CASE run[r].pc \in {"check", "mark", "call"}
    <3>1. PICK t, k : t = run[r].task /\ k = run[r].idx
      OBVIOUS
    <3>2. CopiesUpTo(t, k)
      BY <2>1, <3>1 DEF NotOvertaken
    <3>3. run'[r].task = t /\ run'[r].idx = k /\ CopiesUpTo(t, k)'
      BY <1>1, <1>a, <2>1, <3>1, <3>2, BehindKept
    <3>4. QED
      BY <3>3
  <2>2. CASE run[r].pc \notin {"check", "mark", "call"}
    <3>1. NextItem(r) /\ run'[r].pc = "check"
      BY <1>1, <1>a, <2>2, EntryStep
    <3>2. PICK t \in Tasks : t = run[r].task
      BY <3>1, TaskKnown DEF NextItem
    <3>3. QED
      BY <3>1, <3>2, AheadOnEntry
  <2>3. QED
    BY <2>1, <2>2
<1>2. ASSUME NEW r \in Runners, run'[r].pc \in {"mark", "call"}
      PROVE  status'[run'[r].task] # "completed"
  <2>1. CASE run[r].pc \in {"mark", "call"}
    <3>1. PICK t, k : t = run[r].task /\ k = run[r].idx
      OBVIOUS
    <3>2. CopiesUpTo(t, k)
      BY <2>1, <3>1 DEF NotOvertaken
    <3>3. run'[r].task = t
      BY <1>2, <1>a, <2>1, <3>1, <3>2, BehindKept
    <3>4. QED
      BY <2>1, <3>1, <3>3, NotCompleted
  <2>2. CASE run[r].pc \notin {"mark", "call"}
    <3>1. taskIsActive(r) /\ run'[r].pc = "mark"
      BY <1>2, <1>a, <2>2, EntryStep
    <3>2. run'[r].task = run[r].task /\ status[run[r].task] = "running" /\ status' = status
      BY <3>1, <1>a DEF taskIsActive, Goto, RunnerRecords, dbVars
    <3>3. QED
      BY <3>2
  <2>3. QED
    BY <2>1, <2>2
<1>3. QED
  BY <1>1, <1>2 DEF NotOvertaken

\* Unmeddled is what the contract calls neither edited nor rerun.
LEMMA UnmeddledIs ==
    ASSUME TypeOK, RowsKnown
    PROVE  /\ Unmeddled <=> ~Edited /\ ~Rerun
           /\ Spent("edit") = 0 <=> ~Edited
           /\ Losses \in Nat
<1> DEFINE D == {"resume", "edit", "wpanic", "crash", "shutdown", "fault"}
<1>1. D \subseteq Disturbances
  BY DEF Disturbances
<1>2. \A d \in D : Spent(d) \in Nat
  BY <1>1, BudgetAssumption DEF TypeOK, RowsKnown, Spent
<1>3. QED
  BY <1>2 DEF Unmeddled, Edited, Rerun, Losses

\* Which of the contract's counters a disturbance moves.
LEMMA SpentKinds ==
    ASSUME TypeOK, RowsKnown
    PROVE  /\ UNCHANGED budget => UNCHANGED <<Losses, Edited, Rerun>>
           /\ Spend("user") \/ Spend("panic") => UNCHANGED <<Losses, Edited, Rerun>>
           /\ Spend("edit") => UNCHANGED <<Losses, Rerun>> /\ Edited'
           /\ Spend("resume") \/ Spend("wpanic") => UNCHANGED <<Losses, Edited>> /\ Rerun'
           /\ Fault \/ Spend("crash") \/ Spend("shutdown")
                 => UNCHANGED <<Edited, Rerun>> /\ Losses' = Losses + 1
<1> DEFINE D == {"resume", "edit", "wpanic", "crash", "shutdown", "fault"}
<1>1. D \subseteq Disturbances /\ "user" \in Disturbances /\ "panic" \in Disturbances
  BY DEF Disturbances
<1>2. \A d \in D : Spent(d) \in Nat
  BY <1>1, BudgetAssumption DEF TypeOK, RowsKnown, Spent
<1>3. \A d \in D : budget[d] \in Nat /\ Budget[d] \in Nat
  BY <1>1, BudgetAssumption DEF TypeOK
<1>4. \A d \in Disturbances : Spend(d) => /\ budget'[d] = budget[d] - 1
                                        /\ \A c \in D \ {d} : budget'[c] = budget[c]
  BY <1>1 DEF Spend, TypeOK
<1>5. \A d \in D : Spend(d) => /\ Spent(d)' = Spent(d) + 1
                             /\ \A c \in D \ {d} : Spent(c)' = Spent(c)
  BY <1>1, <1>3, <1>4 DEF Spent
<1>6. UNCHANGED budget => \A c \in D : Spent(c)' = Spent(c)
  BY DEF Spent
<1>7. Spend("user") \/ Spend("panic") => \A c \in D : Spent(c)' = Spent(c)
  BY <1>1, <1>4 DEF Spent
<1>8. QED
  BY <1>2, <1>5, <1>6, <1>7 DEF Losses, Edited, Rerun, Fault

\* A step that moves nothing the contract speaks of.
LEMMA NoStep ==
    ASSUME UNCHANGED <<handled, SizeOf, Completed, Losses, Edited, Rerun>>
    PROVE  [Contract!Next]_(Contract!cvars)
  BY DEF Contract!cvars, Again, Redone

\* Something is lost, and nothing else happens.
LEMMA LossStep ==
    ASSUME UNCHANGED <<handled, SizeOf, Completed, Edited, Rerun>>, Losses' = Losses + 1
    PROVE  [Contract!Next]_(Contract!cvars)
  BY DEF Contract!Next, Contract!Lose, Again, Redone

\* A task is no longer reported completed, if it was.
LEMMA WithdrawStep ==
    ASSUME UNCHANGED <<handled, SizeOf, Losses, Edited, Rerun>>, NEW t \in Tasks,
           Completed' = Completed \ {t}
    PROVE  [Contract!Next]_(Contract!cvars)
  BY DEF Contract!Next, Contract!Withdraw, Again, Redone

\* The columns the contract looks at.
LEMMA SameColumns ==
    ASSUME UNCHANGED <<job, status>>
    PROVE  Completed' = Completed
  BY DEF Completed, IsBatch

\* What overwrites a status withdraws a report.
LEMMA Overwritten ==
    ASSUME status \in [Tasks -> Statuses], NEW t \in Tasks, NEW s, s # "completed",
           status' = [status EXCEPT ![t] = s], job' = job
    PROVE  Completed' = Completed \ {t}
  BY DEF Completed, IsBatch

\* An insert submits a task that had no instances.
LEMMA SubmitStep ==
    ASSUME TypeOK, RowsKnown, Orderly, NEW k, NEW st \in {"pending", "running"},
           NEW n \in 0..MaxItems, NEW p, NEW o, CreateTask(k, st, n, p, o),
           UNCHANGED <<handled, budget>>
    PROVE  [Contract!Next]_(Contract!cvars)
<1>1. PICK u \in Tasks : u = rows + 1 /\ u > rows
  BY BoundsAssumption DEF CreateTask, TypeOK, Tasks
<1>2. SizeOf[u] = 0 /\ SizeOf' = [SizeOf EXCEPT ![u] = n]
  BY <1>1 DEF SizeOf, Orderly, FreshRows, CreateTask, TypeOK
<1>3. Completed' = Completed
  <2>1. status[u] = "absent" /\ status' = [status EXCEPT ![u] = st]
    BY <1>1 DEF RowsKnown, CreateTask
  <2>2. \A t \in Tasks \ {u} : job'[t] = job[t] /\ status'[t] = status[t]
    BY <1>1 DEF CreateTask, TypeOK
  <2>3. u \notin Completed /\ u \notin Completed'
    BY <2>1, <1>1 DEF Completed, TypeOK
  <2>4. QED
    BY <2>2, <2>3 DEF Completed, IsBatch
<1>4. UNCHANGED <<Losses, Edited, Rerun>>
  BY SpentKinds
<1>5. CASE n = 0
  <2>1. SizeOf' = SizeOf
    BY <1>2, <1>5 DEF SizeOf
  <2>2. QED
    BY <2>1, <1>3, <1>4, NoStep
<1>6. CASE n # 0
  <2>1. n \in Nat \ {0} /\ SizeOf'[u] = n
    BY <1>1, <1>2, <1>6, BoundsAssumption DEF SizeOf
  <2>2. Contract!Submit(u)
    BY <2>1, <1>2, <1>3, <1>4 DEF Contract!Submit, Again, Redone
  <2>3. QED
    BY <2>2 DEF Contract!Next
<1>7. QED
  BY <1>5, <1>6

\* What was done again is finite.
LEMMA RedoneFinite ==
    ASSUME NEW t PROVE IsFiniteSet(Redone(t)) /\ Cardinality(Redone(t)) \in Nat
<1>1. Redone(t) \subseteq DueFrom(handled, t, 0)
  BY BoundsAssumption DEF Redone, DueFrom
<1>2. QED
  BY <1>1, DueFinite, FS_Subset, FS_CardinalityType

\* Taking an instance again is one more repetition of its task, and the first
\* time is none.
LEMMA AgainGrows ==
    ASSUME TypeOK, NEW t \in Tasks, NEW i \in Items, handled[t][i] < MaxTries,
           handled' = [handled EXCEPT ![t][i] = @ + 1]
    PROVE  /\ handled[t][i] = 0 => Again' = Again
           /\ handled[t][i] > 0 => Again' = [Again EXCEPT ![t] = @ + 1]
<1> DEFINE p == <<i, handled[t][i] + 1>>
<1>a. /\ handled \in [Tasks -> [Items -> Nat]] /\ handled[t][i] \in Nat
      /\ handled' \in [Tasks -> [Items -> Nat]]
  BY DEF TypeOK
<1>1. \A u \in Tasks \ {t} : Redone(u)' = Redone(u)
  BY <1>a DEF Redone
<1>2. \A q \in Items \X (2..MaxTries) :
         q[2] <= handled'[t][q[1]] <=> q[2] <= handled[t][q[1]] \/ q = p
  <2> SUFFICES ASSUME NEW j \in Items, NEW m \in 2..MaxTries
               PROVE  m <= handled'[t][j] <=> m <= handled[t][j] \/ (j = i /\ m = handled[t][i] + 1)
    OBVIOUS
  <2>1. m \in Nat /\ handled[t][j] \in Nat
    BY <1>a, BoundsAssumption
  <2>2. handled'[t][j] = IF j = i THEN handled[t][j] + 1 ELSE handled[t][j]
    BY <1>a
  <2>3. QED
    BY <2>1, <2>2
<1>3. ASSUME handled[t][i] = 0 PROVE Redone(t)' = Redone(t)
  <2>1. p \notin Items \X (2..MaxTries)
    BY <1>3, BoundsAssumption
  <2>2. QED
    BY <1>2, <2>1 DEF Redone
<1>4. ASSUME handled[t][i] > 0 PROVE Cardinality(Redone(t)') = Cardinality(Redone(t)) + 1
  <2>1. p \in Items \X (2..MaxTries) /\ ~(p[2] <= handled[t][p[1]])
    BY <1>4, <1>a, BoundsAssumption
  <2>2. Redone(t)' = Redone(t) \cup {p} /\ p \notin Redone(t)
    BY <1>2, <2>1 DEF Redone
  <2>3. QED
    BY <2>2, RedoneFinite, FS_AddElement
<1>5. \A u \in Tasks \ {t} : Again'[u] = Again[u]
  BY <1>1 DEF Again
<1>6. QED
  BY <1>3, <1>4, <1>5 DEF Again

\* The call to OCI takes an instance, in its turn.
LEMMA TakeStep ==
    ASSUME TypeOK, RowsKnown, CheckpointHonest, RunnersBacked, SizesAgree,
           Unmeddled => NotOvertaken, RepetitionsBounded',
           NEW r \in Runners, NEW ok \in BOOLEAN, Call(r, ok)
    PROVE  [Contract!Next]_(Contract!cvars)
<1>1. run[r].pc = "call" /\ run[r].task \in Tasks
  BY TaskKnown DEF Call
<1>2. PICK t \in Tasks : t = run[r].task
  BY <1>1
<1>3. PICK i \in Nat : i = run[r].idx /\ i < run[r].size /\ run[r].size \in 0..MaxItems
  BY <1>1 DEF TypeOK, RunnerRecords, RunnersBacked
<1>4. i \in Items
  BY <1>3, BoundsAssumption DEF Items
<1>5. /\ handled' = [handled EXCEPT ![t][i] = IF @ < MaxTries THEN @ + 1 ELSE @]
      /\ UNCHANGED <<job, status, payload, budget>>
  BY <1>2, <1>3 DEF Call, dbVars
<1>6. UNCHANGED <<SizeOf, Completed, Losses, Edited, Rerun>>
  BY <1>5, SameColumns, SpentKinds DEF SizeOf
<1>a. handled \in [Tasks -> [Items -> Nat]]
  BY DEF TypeOK
<1>7. CASE ~(handled[t][i] < MaxTries)
  <2>1. handled' = handled
    BY <1>4, <1>5, <1>7, <1>a
  <2>2. QED
    BY <2>1, <1>6, NoStep
<1>8. CASE handled[t][i] < MaxTries
  <2>1. handled' = [handled EXCEPT ![t][i] = @ + 1]
    BY <1>4, <1>5, <1>8, <1>a
  <2>2. Edited \/ Rerun \/ t \notin Completed
    BY <1>1, <1>2, UnmeddledIs DEF NotOvertaken, Completed
  <2>3. Edited \/ i < SizeOf[t]
    BY <1>1, <1>2, <1>3, UnmeddledIs DEF SizesAgree, SizeOf
  <2>4. \A j \in Items : j < i => handled[t][j] > 0
    BY <1>1, <1>2, <1>3 DEF CheckpointHonest, HandledUpTo
  <2>5. Contract!Take(t, i)
    BY <2>1, <2>2, <2>3, <2>4, <1>6 DEF Contract!Take
  <2>6. CASE handled[t][i] = 0
    <3>1. Again' = Again
      BY <1>4, <1>8, <2>1, <2>6, AgainGrows
    <3>2. Contract!TakeFirst(t, i)
      BY <2>5, <2>6, <3>1 DEF Contract!TakeFirst
    <3>3. QED
      BY <3>2, <1>4 DEF Contract!Next
  <2>7. CASE handled[t][i] > 0
    <3>1. Again' = [Again EXCEPT ![t] = @ + 1]
      BY <1>4, <1>8, <2>1, <2>7, AgainGrows
    <3>2. Edited \/ Rerun \/ Again[t] < Losses
      <4>1. CASE Unmeddled
        <5>1. (Spent("resume") + Spent("edit") + Spent("wpanic") = 0)'
          BY <1>5, <4>1 DEF Unmeddled, Spent
        <5>2. Again'[t] <= Losses'
          BY <5>1 DEF RepetitionsBounded, Again
        <5>3. Again[t] \in Nat /\ Losses \in Nat
          BY RedoneFinite, UnmeddledIs DEF Again
        <5>4. Again'[t] = Again[t] + 1
          BY <3>1 DEF Again
        <5>5. QED
          BY <5>2, <5>3, <5>4, <1>6
      <4>2. QED
        BY <4>1, UnmeddledIs
    <3>3. Contract!TakeAgain(t, i)
      BY <2>5, <2>7, <3>1, <3>2 DEF Contract!TakeAgain
    <3>4. QED
      BY <3>3, <1>4 DEF Contract!Next
  <2>8. QED
    BY <2>6, <2>7, <1>4, <1>a
<1>9. QED
  BY <1>7, <1>8

\* A goroutine that has come to the end reports its batch completed.
LEMMA ReportStep ==
    ASSUME TypeOK, RowsKnown, CheckpointHonest, SizesAgree, NEW r \in Runners, Complete(r)
    PROVE  [Contract!Next]_(Contract!cvars)
<1>1. run[r].pc = "loop" /\ run[r].task \in Tasks
  BY TaskKnown DEF Complete
<1>2. PICK t \in Tasks : t = run[r].task
  BY <1>1
<1>3. UNCHANGED <<job, payload, handled>>
  BY DEF Complete, Finish
<1>4. UNCHANGED SizeOf
  BY <1>3 DEF SizeOf
<1>5. \/ status' = [status EXCEPT ![t] = "completed"] /\ UNCHANGED budget
      \/ UNCHANGED status /\ Fault
  BY <1>1, <1>2, FinishStatus DEF Complete, Statuses
<1>6. CASE UNCHANGED status /\ Fault
  BY <1>3, <1>4, <1>6, SameColumns, SpentKinds, LossStep
<1>7. CASE status' = [status EXCEPT ![t] = "completed"] /\ UNCHANGED budget
  <2>1. UNCHANGED <<Losses, Edited, Rerun>>
    BY <1>7, SpentKinds
  <2>2. Completed' = IF IsBatch(t) THEN Completed \cup {t} ELSE Completed
    BY <1>3, <1>7 DEF Completed, IsBatch, TypeOK
  <2>3. Edited \/ \A i \in Items : i < SizeOf[t] => handled[t][i] > 0
    <3>1. run[r].idx >= run[r].size /\ run[r].idx \in Nat /\ run[r].size \in 0..MaxItems
      BY DEF Complete, Exhausted, TypeOK, RunnerRecords
    <3>2. HandledUpTo(handled, t, run[r].idx)
      BY <1>1, <1>2 DEF CheckpointHonest
    <3>3. Edited \/ run[r].size = SizeOf[t]
      BY <1>1, <1>2, UnmeddledIs DEF SizesAgree, SizeOf
    <3>4. QED
      BY <3>1, <3>2, <3>3, BoundsAssumption DEF HandledUpTo, Items
  <2>4. CASE IsBatch(t)
    <3>1. Contract!Report(t)
      BY <1>3, <1>4, <2>1, <2>2, <2>3, <2>4 DEF Contract!Report, Again, Redone
    <3>2. QED
      BY <3>1 DEF Contract!Next
  <2>5. CASE ~IsBatch(t)
    BY <1>3, <1>4, <2>1, <2>2, <2>5, NoStep
  <2>6. QED
    BY <2>4, <2>5
<1>8. QED
  BY <1>5, <1>6, <1>7

\* A payload written to a task's row gives it another size, if it was edited.
LEMMA ResizeStep ==
    ASSUME TypeOK, NEW t \in Tasks, NEW w \in Payloads, payload' = [payload EXCEPT ![t] = w],
           Edited' \/ w.size = payload[t].size,
           UNCHANGED <<handled, Completed, Losses, Rerun>>, Edited' \/ UNCHANGED Edited
    PROVE  [Contract!Next]_(Contract!cvars)
<1>1. SizeOf' = [SizeOf EXCEPT ![t] = w.size] /\ SizeOf'[t] = w.size
  BY DEF SizeOf, TypeOK
<1>2. CASE Edited'
  <2>1. w.size \in Nat
    BY BoundsAssumption DEF Payloads
  <2>2. Contract!Resize(t)
    BY <1>1, <1>2, <2>1 DEF Contract!Resize, Again, Redone
  <2>3. QED
    BY <2>2 DEF Contract!Next
<1>3. CASE w.size = payload[t].size /\ UNCHANGED Edited
  <2>1. SizeOf' = SizeOf
    BY <1>1, <1>3 DEF SizeOf
  <2>2. QED
    BY <1>3, <2>1, NoStep
<1>4. QED
  BY <1>2, <1>3

\* A checkpoint leaves the size alone, unless a user edited it in between.
LEMMA CheckpointStep ==
    ASSUME TypeOK, RowsKnown, SizesAgree, NEW r \in Runners, Save(r) \/ Park(r)
    PROVE  [Contract!Next]_(Contract!cvars)
<1>1. run[r].pc # "free" /\ run[r].task \in Tasks
  BY TaskKnown DEF Save, Park
<1>2. PICK t \in Tasks : t = run[r].task
  BY <1>1
<1>3. PICK k \in Nat : saveCheckpoint(r, k)
  BY DEF Save, Park, TypeOK, RunnerRecords
<1>4. UNCHANGED <<job, status, handled>>
  BY DEF Save, Park
<1>5. UNCHANGED Completed
  BY <1>4, SameColumns
<1>6. CASE UNCHANGED payload /\ Fault
  <2>1. UNCHANGED SizeOf
    BY <1>6 DEF SizeOf
  <2>2. QED
    BY <1>4, <1>5, <1>6, <2>1, SpentKinds, LossStep
<1>7. ASSUME NEW w, w = [next |-> k, size |-> run[r].size, tenant |-> run[r].tenant],
             payload' = [payload EXCEPT ![t] = w], UNCHANGED budget
      PROVE  [Contract!Next]_(Contract!cvars)
  <2>1. w \in Payloads
    BY <1>7 DEF TypeOK, RunnerRecords, Payloads
  <2>2. UNCHANGED <<Losses, Edited, Rerun>>
    BY <1>7, SpentKinds
  <2>3. Edited \/ w.size = payload[t].size
    BY <1>1, <1>2, <1>7, UnmeddledIs DEF SizesAgree
  <2>4. QED
    BY <1>4, <1>5, <1>7, <2>1, <2>2, <2>3, ResizeStep
<1>8. QED
  BY <1>2, <1>3, <1>6, <1>7 DEF saveCheckpoint

\* What a user writes withdraws a report, gives a task another size, or starts
\* it again.
LEMMA UserContract ==
    ASSUME TypeOK, RowsKnown, NEW t \in Tasks,
           \/ Stop(t) \/ Pause(t) \/ Resume(t)
           \/ \E n \in Sizes, b \in BOOLEAN : Edit(t, n, b)
    PROVE  [Contract!Next]_(Contract!cvars)
<1>a. status \in [Tasks -> Statuses] /\ "edit" \in Disturbances
  BY DEF TypeOK, Disturbances
<1>1. ASSUME NEW s, s # "completed", UserWrites(t, s)
      PROVE  UNCHANGED <<handled, SizeOf>> /\ Completed' = Completed \ {t}
  BY <1>a, <1>1, Overwritten DEF UserWrites, SizeOf
<1>2. CASE Stop(t) \/ Pause(t)
  BY <1>1, <1>2, SpentKinds, WithdrawStep DEF Stop, Pause
<1>3. CASE Resume(t)
  <2>1. UNCHANGED <<handled, SizeOf, Losses, Edited>> /\ Rerun' /\ Completed' \subseteq Completed
    BY <1>1, <1>3, SpentKinds DEF Resume
  <2>2. Contract!StartAgain
    BY <2>1 DEF Contract!StartAgain, Again, Redone
  <2>3. QED
    BY <2>2 DEF Contract!Next
<1>4. ASSUME NEW n \in Sizes, NEW b \in BOOLEAN, Edit(t, n, b)
      PROVE  [Contract!Next]_(Contract!cvars)
  <2>1. PICK w \in Payloads : payload' = [payload EXCEPT ![t] = w]
    <3>1. [next |-> 0, size |-> n, tenant |-> b] \in Payloads
      BY BoundsAssumption DEF Payloads, Sizes
    <3>2. QED
      BY <1>4, <3>1 DEF Edit
  <2>2. UNCHANGED <<job, status, handled>> /\ Spend("edit")
    BY <1>4 DEF Edit
  <2>3. UNCHANGED <<Losses, Rerun>> /\ Edited'
    BY <2>2, SpentKinds
  <2>4. QED
    BY <2>1, <2>2, <2>3, SameColumns, ResizeStep
<1>5. QED
  BY <1>2, <1>3, <1>4

\* Every step of the worker is one of the contract, or none.
LEMMA ContractStep ==
    ASSUME IInv, Orderly, Unmeddled => NotOvertaken, RepetitionsBounded', [Next]_vars
    PROVE  [Contract!Next]_(Contract!cvars)
<1> DEFINE Goal == [Contract!Next]_(Contract!cvars)
<1> USE DEF IInv
<1>a. status \in [Tasks -> Statuses]
  BY DEF TypeOK
<1>1. ASSUME UNCHANGED <<job, status, payload, handled>>, UNCHANGED budget \/ Spend("panic")
      PROVE  Goal
  <2>1. UNCHANGED <<SizeOf, Completed, Losses, Edited, Rerun>>
    BY <1>1, SameColumns, SpentKinds DEF SizeOf
  <2>2. QED
    BY <1>1, <2>1, NoStep
<1>2. ASSUME UNCHANGED <<job, status, payload, handled>>,
             Fault \/ Spend("crash") \/ Spend("shutdown")
      PROVE  Goal
  <2>1. UNCHANGED <<SizeOf, Completed, Edited, Rerun>> /\ Losses' = Losses + 1
    BY <1>2, SameColumns, SpentKinds DEF SizeOf
  <2>2. QED
    BY <1>2, <2>1, LossStep
<1>3. ASSUME UNCHANGED <<job, payload, handled>>, UNCHANGED budget \/ Spend("panic"),
             NEW t \in Tasks, NEW s, s # "completed", status' = [status EXCEPT ![t] = s]
      PROVE  Goal
  <2>1. UNCHANGED <<SizeOf, Losses, Edited, Rerun>> /\ Completed' = Completed \ {t}
    BY <1>3, <1>a, Overwritten, SpentKinds DEF SizeOf
  <2>2. QED
    BY <1>3, <2>1, WithdrawStep
<1>4. ASSUME UNCHANGED <<job, payload, handled>>, ResetRunningTasks PROVE Goal
  <2>1. CASE Fault /\ UNCHANGED status
    BY <1>2, <1>4, <2>1
  <2>2. CASE status' = Reset(status) /\ UNCHANGED budget
    <3>1. UNCHANGED <<SizeOf, Completed, Losses, Edited, Rerun>>
      BY <1>4, <2>2, <1>a, SpentKinds DEF SizeOf, Completed, IsBatch, Reset
    <3>2. QED
      BY <1>4, <3>1, NoStep
  <2>3. QED
    BY <1>4, <2>1, <2>2 DEF ResetRunningTasks
<1>5. CASE Submit \/ FanOut
  <2>1. PICK k, p, o : \E st \in {"pending", "running"}, n \in 0..MaxItems : CreateTask(k, st, n, p, o)
    <3>1. Sizes \subseteq 0..MaxItems /\ fan.size \in 0..MaxItems
      BY BoundsAssumption DEF Sizes, TypeOK, Fans
    <3>2. QED
      BY <1>5, <3>1 DEF Submit, FanOut, BatchStart, BatchCreateSingle, BatchCreateMulti
  <2>2. UNCHANGED <<handled, budget>>
    BY <1>5 DEF Submit, FanOut, BatchStart, BatchCreateSingle, BatchCreateMulti
  <2>3. QED
    BY <2>1, <2>2, SubmitStep
<1>6. CASE User
  BY <1>6, UserContract DEF User
<1>7. CASE FanOutFails \/ ShutdownSignal \/ Crash
  BY <1>2, <1>7 DEF FanOutFails, ShutdownSignal, Crash, Restarted, dbVars
<1>8. CASE Boot \/ ShutdownReset
  BY <1>4, <1>8 DEF Boot, ShutdownReset
<1>9. CASE Scan \/ WorkerStop \/ Exit \/ UNCHANGED vars
  BY <1>1, <1>9 DEF Scan, WorkerStop, Exit, Restarted, dbVars, vars
<1>10. CASE WorkerPanic
  <2>1. UNCHANGED <<handled, SizeOf, Completed, Losses, Edited>> /\ Rerun'
    BY <1>10, SameColumns, SpentKinds DEF WorkerPanic, SizeOf, dbVars
  <2>2. Contract!StartAgain
    BY <2>1 DEF Contract!StartAgain, Again, Redone
  <2>3. QED
    BY <2>2 DEF Contract!Next
<1>11. ASSUME NEW e \in scan, ClaimMisses(e) \/ ClaimFails \/ ClaimParent(e)
                                \/ \E r \in Runners : ClaimBatch(e, r)
       PROVE  Goal
  <2>1. e.task \in Tasks
    BY DEF TypeOK
  <2>2. CASE ClaimMisses(e)
    BY <1>1, <2>2 DEF ClaimMisses, dbVars
  <2>3. CASE ClaimFails
    BY <1>2, <2>3 DEF ClaimFails, dbVars
  <2>4. CASE ClaimParent(e) \/ \E r \in Runners : ClaimBatch(e, r)
    BY <1>3, <2>1, <2>4 DEF ClaimParent, ClaimBatch, Claimed
  <2>5. QED
    BY <1>11, <2>2, <2>3, <2>4
<1>12. CASE MarkParent
  <2>1. PICK e \in scan : SetStatus(e.task, "running") /\ UNCHANGED <<job, payload, handled>>
    BY <1>12 DEF MarkParent
  <2>2. e.task \in Tasks
    BY DEF TypeOK
  <2>3. QED
    BY <1>2, <1>3, <2>1, <2>2 DEF SetStatus
<1>13. ASSUME NEW r \in Runners, RunnerStep(r) \/ RunnerPanic(r) PROVE Goal
  <2>1. run[r].task \in Tasks /\ run[r].pc # "free"
    BY <1>13, RunnerFrame
  <2>2. CASE Acquire(r) \/ Prepare(r) \/ Sleep(r)
    BY <1>1, <2>2 DEF Acquire, Prepare, Sleep, dbVars
  <2>3. CASE NextItem(r) \/ taskIsActive(r)
    BY <1>1, <1>2, <2>3 DEF NextItem, taskIsActive, dbVars
  <2>4. CASE PrepareFails(r)
    <3>1. \/ status' = [status EXCEPT ![run[r].task] = "failed"] /\ UNCHANGED budget
          \/ UNCHANGED status /\ Fault
      BY <2>1, <2>4, FinishStatus DEF PrepareFails, Statuses
    <3>2. QED
      BY <1>2, <1>3, <2>1, <2>4, <3>1 DEF PrepareFails, Finish
  <2>5. CASE Complete(r)
    BY <2>5, ReportStep
  <2>6. CASE Mark(r) \/ Report(r) \/ Yield(r)
    BY <1>2, <1>3, <2>1, <2>6 DEF Mark, Report, Yield, SetStatus
  <2>7. ASSUME NEW ok \in BOOLEAN, Call(r, ok) PROVE Goal
    BY <2>7, TakeStep
  <2>8. CASE Save(r) \/ Park(r)
    BY <2>8, CheckpointStep
  <2>9. CASE RunnerPanic(r)
    BY <1>3, <2>1, <2>9 DEF RunnerPanic
  <2>10. QED
    BY <1>13, <2>2, <2>3, <2>4, <2>5, <2>6, <2>7, <2>8, <2>9 DEF RunnerStep
<1>14. QED
  BY <1>5, <1>6, <1>7, <1>8, <1>9, <1>10, <1>11, <1>12, <1>13
  DEF Next, WorkerStep, Claim, ProcessStep

-----------------------------------------------------------------------------
(* The theorems.                                                            *)

\* The inductive invariant holds of every behaviour: the worker, the runners,
\* the handlers, crashes and restarts together keep each of its parts.
THEOREM Inductive == Spec => []IInv
<1>1. Init => IInv
  <2> SUFFICES ASSUME Init PROVE IInv
    OBVIOUS
  <2>1. TypeOK
    BY BoundsAssumption, BudgetAssumption
    DEF Init, TypeOK, Tasks, Jobs, Kinds, Statuses, Payloads, RunnerRecords, RunnerStates,
        Fans, NoJob, NoPayload, FreeRunner, NoFan
  <2>2. RowsKnown
    BY BudgetAssumption DEF Init, RowsKnown, NoJob, NoFan, FreeRunner
  <2>3. CheckpointHonest
    BY DEF Init, CheckpointHonest, HandledUpTo, Items, NoPayload, FreeRunner
  <2>4. RunnersBacked /\ SizesAgree /\ ParentClaimed
    BY DEF Init, RunnersBacked, SizesAgree, ParentClaimed, FreeRunner
  <2>5. CompletedMeansAllHandled /\ NoOrphan
    BY DEF Init, CompletedMeansAllHandled, NoOrphan
  <2>6. QED
    BY <2>1, <2>2, <2>3, <2>4, <2>5 DEF IInv
<1>2. IInv /\ [Next]_vars => IInv'
  BY TypeStep, RowsStep, ParentStep, HonestStep, SizesStep, CompletedStep, OrphanStep
  DEF IInv, HonestInv
<1>3. QED
  BY <1>1, <1>2, PTL DEF Spec

\* A checkpoint (CompletedIndex in the row, in the worker's scan or in a
\* runner) never claims an instance that was not taken to OCI.
THEOREM CheckpointsHonest == Spec => []CheckpointHonest
<1>1. IInv => CheckpointHonest
  BY DEF IInv
<1>2. QED
  BY <1>1, Inductive, PTL

\* Unless payloads are edited, "completed" is written to a batch only when
\* each of its instances was taken to OCI.
THEOREM CompletedIsComplete == Spec => []CompletedMeansAllHandled
<1>1. IInv => CompletedMeansAllHandled
  BY DEF IInv
<1>2. QED
  BY <1>1, Inductive, PTL

\* As long as no statement fails, a batch row that says running has a
\* goroutine working on it whenever the worker is up.
THEOREM NoOrphanedRow == Spec => []NoOrphan
<1>1. IInv => NoOrphan
  BY DEF IInv
<1>2. QED
  BY <1>1, Inductive, PTL

\* What a user paused or stopped stays so once its runner is gone: no stale
\* scan, boot or shutdown brings it back.
THEOREM StoppedStays == Spec => IdleStaysStopped
<1>1. IInv /\ [Next]_vars =>
        [\A t \in Tasks :
           /\ IsBatch(t)
           /\ status[t] \in {"paused", "cancelled"}
           /\ RunnersOf(t) = {}
           /\ status'[t] # status[t]
           => budget'["user"] # budget["user"] \/ budget'["resume"] # budget["resume"]]_vars
  BY IdleStep DEF IInv
<1>2. QED
  BY <1>1, Inductive, PTL DEF Spec, IdleStaysStopped

\* Two goroutines never work on one row, until somebody resumes a row, the
\* worker goroutine panics or a shutdown begins.
THEOREM OneRunner == Spec => []OneRunnerPerTask
<1>1. Init => Exclusive
  BY DEF Init, Exclusive, NotPending, Distinct, BootsAlone, FreeRunner
<1>2. IInv /\ Exclusive /\ [Next]_vars => Exclusive'
  BY ExclusiveStep DEF IInv
<1>3. QED
  BY <1>1, <1>2, AtMostOne, Inductive, PTL DEF Spec

\* Every behaviour keeps the balance between what is due and what was lost.
LEMMA Balance == Spec => [](Exclusive /\ Orderly /\ Balanced)
<1>1. Init => Exclusive /\ Orderly /\ Balanced
  <2> SUFFICES ASSUME Init PROVE Exclusive /\ Orderly /\ Balanced
    OBVIOUS
  <2>1. /\ scan = {} /\ shut = "no" /\ \A r \in Runners : run[r].pc = "free"
        /\ \A t \in Tasks : payload[t].next = 0 /\ payload[t].size = 0
        /\ \A t \in Tasks, i \in Items : handled[t][i] = 0
    BY DEF Init, FreeRunner, NoPayload
  <2>2. Exclusive /\ Orderly /\ ListedFree /\ OneCall
    BY <2>1 DEF Exclusive, NotPending, Distinct, BootsAlone, Orderly, ListedOnce, FreshRows,
       Within, ListedFree, OneCall, AtItem
  <2>3. ASSUME NEW t \in Tasks PROVE Paid(t)
    <3>1. CopiesFrom(t, 0)
      BY <2>1 DEF CopiesFrom, RunnersOf
    <3>2. DueFrom(handled, t, 0) = {}
      BY <2>1, BoundsAssumption DEF DueFrom
    <3>3. Cardinality(DueFrom(handled, t, 0)) = 0
      BY <3>2, FS_EmptySet
    <3>4. Debit(t) = 0 /\ Credit(t) = 0
      BY <2>1 DEF Debit, Credit, Called, RunnersOf
    <3>5. Losses = 0
      <4>1. {"crash", "shutdown", "fault"} \subseteq Disturbances
        BY DEF Disturbances
      <4>2. \A d \in {"crash", "shutdown", "fault"} : Budget[d] \in Nat /\ budget[d] = Budget[d]
        BY <4>1, BudgetAssumption DEF Init
      <4>3. QED
        BY <4>2 DEF Losses, Spent
    <3>6. QED
      BY <2>1, <3>1, <3>3, <3>4, <3>5 DEF Paid, Covered
  <2>4. QED
    BY <2>2, <2>3 DEF Balanced
<1>2. IInv /\ Exclusive /\ Orderly /\ Balanced /\ [Next]_vars => (Exclusive /\ Orderly /\ Balanced)'
  BY ExclusiveStep, OrderlyStep, BalancedStep DEF IInv
<1>3. QED
  BY <1>1, <1>2, Inductive, PTL DEF Spec

\* A batch that is interrupted repeats at most one instance for each crash, each
\* shutdown and each lost write, however often it is paused, stopped and claimed
\* again, unless a user resumes or edits it or the worker goroutine panics.
THEOREM RepetitionsPaidFor == Spec => []RepetitionsBounded
<1>1. IInv /\ Orderly /\ Balanced => RepetitionsBounded
  BY WithinLosses DEF IInv
<1>2. QED
  BY <1>1, Inductive, Balance, PTL

\* What the worker does with a batch keeps the contract: whoever sees only how
\* often its instances went to OCI, its size, whether it is reported completed,
\* and what was lost or meddled with, sees a behaviour of BatchContract.
THEOREM ContractKept == Spec => KeepsContract
<1>1. Init => Contract!Init
  <2> SUFFICES ASSUME Init PROVE Contract!Init
    OBVIOUS
  <2>1. \A d \in Disturbances : Spent(d) = 0
    BY BudgetAssumption DEF Init, Spent
  <2>2. Losses = 0 /\ ~Edited /\ ~Rerun
    BY <2>1 DEF Losses, Edited, Rerun, Disturbances
  <2>3. Completed = {} /\ SizeOf = [t \in Tasks |-> 0]
    BY DEF Init, Completed, SizeOf, NoPayload
  <2>4. Again = [t \in Tasks |-> 0]
    <3>1. ASSUME NEW t \in Tasks PROVE Redone(t) = {}
      BY BoundsAssumption DEF Init, Redone
    <3>2. QED
      BY <3>1, FS_EmptySet DEF Again
  <2>5. QED
    BY <2>2, <2>3, <2>4 DEF Init, Contract!Init
<1>2. Init => (Unmeddled => NotOvertaken)
  BY DEF Init, NotOvertaken, FreeRunner
<1>3. IInv /\ Exclusive /\ Orderly /\ Balanced /\ (Unmeddled => NotOvertaken) /\ [Next]_vars
        => (Unmeddled => NotOvertaken)'
  <2> SUFFICES ASSUME IInv, Exclusive, Orderly, Balanced, Unmeddled => NotOvertaken, [Next]_vars,
                      Unmeddled'
               PROVE  NotOvertaken'
    OBVIOUS
  <2>1. Unmeddled
    BY LossesStep DEF IInv
  <2>2. QED
    BY <2>1, OvertakenStep DEF Balanced, IInv
<1>4. IInv /\ Orderly /\ (Unmeddled => NotOvertaken) /\ RepetitionsBounded' /\ [Next]_vars
        => [Contract!Next]_(Contract!cvars)
  BY ContractStep
<1>5. QED
  BY <1>1, <1>2, <1>3, <1>4, Inductive, RepetitionsPaidFor, Balance, PTL
  DEF Spec, KeepsContract, Contract!Spec

=============================================================================
