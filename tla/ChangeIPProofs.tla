---------------------------- MODULE ChangeIPProofs ----------------------------
(* What holds of ChangeIP, alone and next to the two syncs of AddressSync,   *)
(* for every value of their constants.                                      *)
EXTENDS AddressSync, TLAPS

-----------------------------------------------------------------------------
(* Type correctness.                                                        *)

\* The bounds of the model and the budgets are what the types need.
LEMMA ConstantFacts ==
    /\ Tasks = ChangeTasks \cup ConfigTasks /\ Callers = ChangeTasks \cup Requests
    /\ Tasks \cap Requests = {}
    /\ MaxIPs \in Nat \ {0} /\ MaxRecords \in Nat \ {0}
    /\ IPs = 0..MaxIPs /\ NoIP = 0
    /\ Disturbances = {"pause", "stop", "refuse", "hidden", "fault", "kill"}
    /\ Budget \in [Disturbances -> Nat]
  BY ChangeIPAssumption DEF Tasks, Callers, IPs, NoIP, Disturbances

\* Spending a disturbance leaves the budgets natural numbers, and raises none.
LEMMA SpendStep ==
    ASSUME budget \in [Disturbances -> Nat], NEW d \in Disturbances, Spend(d)
    PROVE  /\ budget' \in [Disturbances -> Nat]
           /\ budget'[d] = budget[d] - 1
           /\ \A e \in Disturbances : budget'[e] <= budget[e]
  BY DEF Spend

\* A step within an attempt, and the end of one, keep the type of the attempts.
LEMMA GotoType ==
    ASSUME call \in [Callers -> Calls], NEW c \in Callers, NEW p \in Steps, Goto(c, p)
    PROVE  call' \in [Callers -> Calls]
  BY DEF Goto, Calls

LEMMA NoCallType == \A p \in Steps : [NoCall EXCEPT !.pc = p] \in Calls
  BY ConstantFacts DEF NoCall, Calls

LEMMA ReturnType ==
    ASSUME call \in [Callers -> Calls], NEW c \in Callers, Return(c)
    PROVE  call' \in [Callers -> Calls]
<1>1. (IF c \in Requests THEN "done" ELSE "idle") \in Steps
  BY DEF Steps
<1>2. QED
  BY <1>1, NoCallType DEF Return

\* So do the ways an attempt of a task may end, for the tasks.
LEMMA RestsType ==
    ASSUME task \in [Tasks -> TaskRecords], NEW t \in Tasks, Rests(t)
    PROVE  task' \in [Tasks -> TaskRecords]
  BY DEF Rests, TaskRecords, Loops

LEMMA FinishedType ==
    ASSUME task \in [Tasks -> TaskRecords], NEW t \in Tasks, Finished(t)
    PROVE  task' \in [Tasks -> TaskRecords]
  BY DEF Finished, TaskRecords, Loops

LEMMA EndType ==
    ASSUME call \in [Callers -> Calls], task \in [Tasks -> TaskRecords],
           NEW c \in Callers, Failed(c) \/ Succeeded(c)
    PROVE  call' \in [Callers -> Calls] /\ task' \in [Tasks -> TaskRecords]
<1>1. Return(c)
  BY DEF Failed, Succeeded
<1>2. CASE c \in Tasks
  BY <1>1, <1>2, ReturnType, RestsType, FinishedType DEF Failed, Succeeded
<1>3. CASE c \notin Tasks
  BY <1>1, <1>3, ReturnType DEF Failed, Succeeded
<1>4. QED
  BY <1>2, <1>3

\* The handlers and the loops of the tasks keep the types.
LEMMA TaskStepType ==
    ASSUME TypeOK, User \/ \E t \in Tasks : Loop(t) \/ LoopEnds(t)
    PROVE  TypeOK'
<1>a. {"pause", "stop", "refuse", "fault"} \subseteq Disturbances
  BY DEF Disturbances
<1>1. ASSUME NEW t \in Tasks, Add(t) PROVE TypeOK'
  BY <1>1 DEF TypeOK, Add, TaskRecords, Loops, cloud, dns
<1>2. ASSUME NEW t \in Tasks, NEW p \in BOOLEAN, SetPaused(t, p) PROVE TypeOK'
  BY <1>2, <1>a, SpendStep DEF TypeOK, SetPaused, TaskRecords, cloud, dns
<1>3. ASSUME NEW ts \in SUBSET Tasks, Cancel(ts) PROVE TypeOK'
  BY <1>3, <1>a, SpendStep DEF TypeOK, Cancel, Cancelled, TaskRecords, cloud, dns
<1>4. ASSUME NEW t \in Tasks, Attempt(t) PROVE TypeOK'
  <2>1. task' \in [Tasks -> TaskRecords]
    BY <1>4 DEF TypeOK, Attempt, TaskRecords, Loops
  <2>2. [NoCall EXCEPT !.pc = "look"] \in Calls
    BY NoCallType DEF Steps
  <2>3. call' \in [Callers -> Calls] /\ overlapped' \in BOOLEAN
    BY <1>4, <2>2 DEF TypeOK, Attempt
  <2>4. QED
    BY <1>4, <2>1, <2>3 DEF TypeOK, Attempt, cloud, dns
<1>5. ASSUME NEW t \in Tasks, SkipPaused(t) PROVE TypeOK'
  BY <1>5, RestsType DEF TypeOK, SkipPaused, cloud, dns
<1>6. ASSUME NEW t \in Tasks, LoopEnds(t) PROVE TypeOK'
  BY <1>6 DEF TypeOK, LoopEnds, TaskRecords, Loops, cloud, dns
<1>7. ASSUME NEW t \in Tasks, UpdateInstance(t) PROVE TypeOK'
  <2>1. task' \in [Tasks -> TaskRecords]
    BY <1>7, RestsType, FinishedType DEF TypeOK, UpdateInstance
  <2>2. budget' \in [Disturbances -> Nat]
    BY <1>7, <1>a, SpendStep DEF TypeOK, UpdateInstance
  <2>3. QED
    BY <1>7, <2>1, <2>2 DEF TypeOK, UpdateInstance, cloud, dns
<1>8. ASSUME User PROVE TypeOK'
  <2>1. \A t \in Tasks : {t} \in SUBSET Tasks
    OBVIOUS
  <2>2. {t \in ChangeTasks : task[t].state = "listed"} \in SUBSET Tasks
    BY DEF Tasks
  <2>3. QED
    BY <1>8, <2>1, <2>2, <1>1, <1>2, <1>3 DEF User, Delete, stopChangeIp
<1>9. QED
  BY <1>4, <1>5, <1>6, <1>7, <1>8 DEF Loop

\* The calls of an attempt to the cloud keep the types.
LEMMA AttemptType ==
    ASSUME TypeOK, NEW c \in Callers, Request(c) \/ ChangeInstanceIP(c)
    PROVE  TypeOK'
<1>a. {"refuse", "hidden", "fault"} \subseteq Disturbances
  BY DEF Disturbances
<1>b. {"look", "resolve", "delete", "wait", "create", "filter", "discard", "dns", "db"} \subseteq Steps
  BY DEF Steps
<1>c. call[c] \in Calls /\ NextIP \in IPs
  BY ConstantFacts DEF TypeOK, NextIP
<1>1. CASE Request(c)
  <2>1. call' \in [Callers -> Calls] /\ overlapped' \in BOOLEAN
    BY <1>1, <1>b DEF TypeOK, Request, Calls
  <2>2. QED
    BY <1>1, <2>1 DEF TypeOK, Request, cloud, dns
<1>2. CASE TenantMissing(c)
  BY <1>2, <1>a, SpendStep, EndType DEF TypeOK, TenantMissing, cloud, dns
<1>3. CASE CallFails(c)
  BY <1>3, <1>a, SpendStep, EndType DEF TypeOK, CallFails, cloud, dns
<1>4. CASE Look(c)
  BY <1>4, <1>b, GotoType DEF TypeOK, Look, cloud, dns
<1>5. CASE Resolve(c)
  <2>1. call' \in [Callers -> Calls] /\ task' \in [Tasks -> TaskRecords]
    BY <1>5, <1>b, <1>c, EndType DEF TypeOK, Resolve, Calls
  <2>2. QED
    BY <1>5, <2>1 DEF TypeOK, Resolve, cloud, dns
<1>6. CASE DeleteOld(c)
  <2>1. call' \in [Callers -> Calls] /\ releasing' \in BOOLEAN
    BY <1>6, <1>b, GotoType DEF TypeOK, DeleteOld
  <2>2. QED
    BY <1>6, <2>1 DEF TypeOK, DeleteOld, dns
<1>7. CASE Gone(c)
  BY <1>7, <1>b, GotoType DEF TypeOK, Gone, cloud, dns
<1>8. CASE WaitTimesOut(c)
  BY <1>8, <1>a, SpendStep, EndType DEF TypeOK, WaitTimesOut, cloud, dns
<1>9. CASE Create(c)
  <2>1. ip' \in IPs /\ releasing' \in BOOLEAN /\ issued' \in IPs
    BY <1>9, <1>c DEF TypeOK, Create, Assign, cloud
  <2>2. budget' \in [Disturbances -> Nat]
    BY <1>9, <1>a, SpendStep DEF TypeOK, Create
  <2>3. call' \in [Callers -> Calls] /\ task' \in [Tasks -> TaskRecords]
    <3>1. [call[c] EXCEPT !.pc = "filter", !.got = NextIP] \in Calls
      BY <1>b, <1>c DEF Calls
    <3>2. QED
      BY <1>9, <3>1, EndType DEF TypeOK, Create
  <2>4. QED
    BY <1>9, <2>1, <2>2, <2>3 DEF TypeOK, Create, dns
<1>10. CASE Accept(c)
  <2>1. (IF c \in WithDNS THEN "dns" ELSE "db") \in Steps
    BY <1>b
  <2>2. QED
    BY <1>10, <2>1, GotoType DEF TypeOK, Accept, cloud, dns
<1>11. CASE Discard(c)
  <2>1. call' \in [Callers -> Calls] /\ task' \in [Tasks -> TaskRecords] /\ releasing' \in BOOLEAN
    BY <1>11, <1>b, GotoType, EndType DEF TypeOK, Discard
  <2>2. budget' \in [Disturbances -> Nat]
    BY <1>11, <1>a, SpendStep DEF TypeOK, Discard
  <2>3. QED
    BY <1>11, <2>1, <2>2 DEF TypeOK, Discard, dns
<1>12. CASE Discarded(c)
  <2>1. budget' \in [Disturbances -> Nat]
    BY <1>12, <1>a, SpendStep DEF TypeOK, Discarded
  <2>2. QED
    BY <1>12, <2>1, EndType DEF TypeOK, Discarded, cloud, dns
<1>13. QED
  BY <1>1, <1>2, <1>3, <1>4, <1>5, <1>6, <1>7, <1>8, <1>9, <1>10, <1>11, <1>12
     DEF ChangeInstanceIP

\* Writes to the DNS keep the type of the records.
LEMMA CreateRecordType ==
    ASSUME records \subseteq Records, made \in 0..MaxRecords, NEW a \in IPs, CreateRecord(a)
    PROVE  records' \subseteq Records /\ made' \in 0..MaxRecords
<1>1. CASE UNCHANGED dns
  BY <1>1 DEF dns
<1>2. CASE made < MaxRecords /\ made' = made + 1
           /\ records' = records \cup {[id |-> made + 1, ip |-> a]}
  <2>1. made + 1 \in 1..MaxRecords
    BY <1>2, ConstantFacts
  <2>2. [id |-> made + 1, ip |-> a] \in Records
    BY <2>1 DEF Records
  <2>3. made' \in 0..MaxRecords
    BY <2>1, <1>2
  <2>4. QED
    BY <1>2, <2>2, <2>3
<1>3. QED
  BY <1>1, <1>2 DEF CreateRecord

LEMMA UpdateRecordType ==
    ASSUME records \subseteq Records, made \in 0..MaxRecords,
           NEW i \in 1..MaxRecords, NEW a \in IPs, UpdateRecord(i, a)
    PROVE  records' \subseteq Records /\ made' \in 0..MaxRecords
  BY ConstantFacts DEF UpdateRecord, Records

\* Publishing an address keeps the types.
LEMMA PublishType ==
    ASSUME TypeOK, NEW c \in Callers, Publish(c)
    PROVE  TypeOK'
<1>a. {"refuse", "fault"} \subseteq Disturbances
  BY DEF Disturbances
<1>b. {"unlink", "link", "put", "db"} \subseteq Steps
  BY DEF Steps
<1>c. call[c] \in Calls /\ call[c].got \in IPs /\ call[c].rec \in 0..MaxRecords
  BY DEF TypeOK, Calls
<1>1. CASE ListRecords(c)
  <2>1. PICK i \in 0..MaxRecords, p \in Steps : call' = [call EXCEPT ![c].rec = i, ![c].pc = p]
    BY <1>1, <1>b DEF ListRecords
  <2>2. call' \in [Callers -> Calls]
    BY <2>1 DEF TypeOK, Calls
  <2>3. QED
    BY <1>1, <2>2 DEF TypeOK, ListRecords, cloud, dns
<1>2. CASE Unlink(c)
  <2>1. (IF HasRecord(call[c].rec) THEN "link" ELSE "db") \in Steps
    BY <1>b
  <2>2. call' \in [Callers -> Calls] /\ records' \subseteq Records
    BY <1>2, <2>1, GotoType DEF TypeOK, Unlink
  <2>3. QED
    BY <1>2, <2>2 DEF TypeOK, Unlink, cloud
<1>3. CASE Link(c)
  BY <1>3, <1>b, <1>c, GotoType, CreateRecordType DEF TypeOK, Link, cloud
<1>4. CASE Put(c)
  <2>1. call' \in [Callers -> Calls]
    BY <1>4, <1>b, GotoType DEF TypeOK, Put
  <2>2. records' \subseteq Records /\ made' \in 0..MaxRecords
    <3>1. CASE call[c].rec = 0
      BY <1>4, <3>1, <1>c, CreateRecordType DEF TypeOK, Put
    <3>2. CASE call[c].rec # 0
      <4>1. call[c].rec \in 1..MaxRecords
        BY <3>2, <1>c, ConstantFacts
      <4>2. QED
        BY <1>4, <3>2, <4>1, <1>c, UpdateRecordType DEF TypeOK, Put
    <3>3. QED
      BY <3>1, <3>2
  <2>3. QED
    BY <1>4, <2>1, <2>2 DEF TypeOK, Put, cloud
<1>5. CASE DNSFails(c)
  BY <1>5, <1>a, <1>b, SpendStep, GotoType DEF TypeOK, DNSFails, cloud, dns
<1>6. CASE WriteDB(c)
  <2>1. db' \in IPs /\ budget' \in [Disturbances -> Nat]
    BY <1>6, <1>a, <1>c, SpendStep DEF TypeOK, WriteDB
  <2>2. QED
    BY <1>6, <2>1, EndType DEF TypeOK, WriteDB, cloud, dns
<1>7. QED
  BY <1>1, <1>2, <1>3, <1>4, <1>5, <1>6 DEF Publish

\* Panics and restarts keep the types, and so does the cloud.
LEMMA ProcessType ==
    ASSUME TypeOK, Release \/ Restart \/ \E c \in Callers : Panic(c)
    PROVE  TypeOK'
<1>a. "kill" \in Disturbances
  BY DEF Disturbances
<1>1. CASE Release
  <2>1. NoIP \in IPs
    BY ConstantFacts
  <2>2. QED
    BY <1>1, <2>1 DEF TypeOK, Release, dns
<1>2. CASE Restart
  <2>1. task' \in [Tasks -> TaskRecords]
    BY <1>2 DEF TypeOK, Restart, TaskRecords, Loops
  <2>2. NoCall \in Calls /\ [NoCall EXCEPT !.pc = "done"] \in Calls
    BY ConstantFacts DEF NoCall, Calls, Steps
  <2>3. call' \in [Callers -> Calls]
    BY <1>2, <2>2 DEF TypeOK, Restart
  <2>4. QED
    BY <1>2, <2>1, <2>3, <1>a, SpendStep DEF TypeOK, Restart, cloud, dns
<1>3. ASSUME NEW c \in Callers, Panic(c) PROVE TypeOK'
  <2>1. task' \in [Tasks -> TaskRecords]
    BY <1>3 DEF TypeOK, Panic, TaskRecords, Loops
  <2>2. QED
    BY <1>3, <2>1, <1>a, SpendStep, ReturnType DEF TypeOK, Panic, cloud, dns
<1>4. QED
  BY <1>1, <1>2, <1>3

LEMMA TypeStep == TypeOK /\ [Next]_vars => TypeOK'
<1>1. CASE UNCHANGED vars
  BY <1>1 DEF TypeOK, vars
<1>2. QED
  BY <1>1, TaskStepType, AttemptType, PublishType, ProcessType DEF Next, Running

-----------------------------------------------------------------------------
(* The budgets.                                                             *)

\* No step raises a budget.
LEMMA BudgetStep ==
    ASSUME TypeOK, [Next]_vars
    PROVE  \A d \in Disturbances : budget'[d] <= budget[d]
<1>a. {"pause", "stop", "refuse", "hidden", "fault", "kill"} \subseteq Disturbances
  BY DEF Disturbances
<1>b. UNCHANGED budget \/ \E d \in Disturbances : Spend(d)
  <2>1. ASSUME User PROVE UNCHANGED budget \/ \E d \in Disturbances : Spend(d)
    BY <2>1, <1>a DEF User, Add, SetPaused, Delete, stopChangeIp, Cancel
  <2>2. ASSUME NEW t \in Tasks, Loop(t) \/ LoopEnds(t)
        PROVE  UNCHANGED budget \/ \E d \in Disturbances : Spend(d)
    BY <2>2, <1>a DEF Loop, LoopEnds, Attempt, SkipPaused, UpdateInstance
  <2>3. ASSUME NEW c \in Callers, ChangeInstanceIP(c)
        PROVE  UNCHANGED budget \/ \E d \in Disturbances : Spend(d)
    BY <2>3, <1>a DEF ChangeInstanceIP, TenantMissing, CallFails, Look, Resolve,
       DeleteOld, Gone, WaitTimesOut, Create, Accept, Discard, Discarded
  <2>4. ASSUME NEW c \in Callers, Request(c) \/ Publish(c) \/ Panic(c)
        PROVE  UNCHANGED budget \/ \E d \in Disturbances : Spend(d)
    BY <2>4, <1>a DEF Request, Publish, ListRecords, Unlink, Link, Put, DNSFails,
       WriteDB, Panic
  <2>5. ASSUME Release \/ Restart \/ UNCHANGED vars
        PROVE  UNCHANGED budget \/ \E d \in Disturbances : Spend(d)
    BY <2>5, <1>a DEF Release, Restart, vars
  <2>6. QED
    BY <2>1, <2>2, <2>3, <2>4, <2>5 DEF Next, Running
<1>1. budget \in [Disturbances -> Nat]
  BY DEF TypeOK
<1>2. CASE UNCHANGED budget
  BY <1>1, <1>2
<1>3. QED
  BY <1>1, <1>2, <1>b, SpendStep

LEMMA WithinBudgetStep == TypeOK /\ WithinBudget /\ [Next]_vars => WithinBudget'
<1> SUFFICES ASSUME TypeOK, WithinBudget, [Next]_vars, NEW d \in Disturbances
             PROVE  budget'[d] <= Budget[d]
  BY DEF WithinBudget
<1>1. budget'[d] <= budget[d] /\ budget[d] <= Budget[d]
  BY BudgetStep DEF WithinBudget
<1>2. budget'[d] \in Nat /\ budget[d] \in Nat /\ Budget[d] \in Nat
  BY TypeStep, ConstantFacts DEF TypeOK
<1>3. QED
  BY <1>1, <1>2

\* What is undisturbed was undisturbed before.
LEMMA UntouchedBefore ==
    ASSUME TypeOK, WithinBudget, [Next]_vars, NEW ds \in SUBSET Disturbances, Untouched(ds)'
    PROVE  Untouched(ds) /\ \A d \in ds : budget'[d] = budget[d]
<1> SUFFICES ASSUME NEW d \in ds PROVE budget[d] = Budget[d] /\ budget'[d] = budget[d]
  BY DEF Untouched
<1>1. budget'[d] <= budget[d] /\ budget[d] <= Budget[d]
  BY BudgetStep DEF WithinBudget
<1>2. budget'[d] = Budget[d]
  BY DEF Untouched
<1>3. budget[d] \in Nat /\ Budget[d] \in Nat
  BY ConstantFacts DEF TypeOK
<1>4. QED
  BY <1>1, <1>2, <1>3

-----------------------------------------------------------------------------
(* A lone attempt is never refused.                                         *)

\* An attempt begins: if one is going on anywhere, the two overlap.
Begins(c) ==
    /\ overlapped' = (overlapped \/ \E d \in Callers : InProgress(d))
    /\ call' = [call EXCEPT ![c] = [NoCall EXCEPT !.pc = "look"]]

\* An attempt goes on or ends, and no other moves.
Proceeds(c) ==
    /\ InProgress(c) /\ overlapped' = overlapped
    /\ \A d \in Callers \ {c} : call'[d] = call[d]

\* No step of a task's loop or of the cloud touches an attempt, except the
\* beginning of one.
LEMMA LoopStep ==
    ASSUME User \/ \E t \in Tasks : Loop(t) \/ LoopEnds(t)
    PROVE  \/ UNCHANGED <<ip, releasing, call, overlapped>>
           \/ UNCHANGED <<ip, releasing>> /\ \E c \in ChangeTasks : Begins(c)
<1>1. ASSUME NEW t \in Tasks, Attempt(t)
      PROVE  \/ UNCHANGED <<ip, releasing, call, overlapped>>
             \/ UNCHANGED <<ip, releasing>> /\ \E c \in ChangeTasks : Begins(c)
  <2>1. CASE t \in ChangeTasks
    BY <1>1, <2>1 DEF Attempt, Begins, cloud
  <2>2. CASE t \notin ChangeTasks
    BY <1>1, <2>2 DEF Attempt, cloud
  <2>3. QED
    BY <2>1, <2>2
<1>2. ASSUME NEW t \in Tasks, SkipPaused(t) \/ UpdateInstance(t) \/ LoopEnds(t)
      PROVE  UNCHANGED <<ip, releasing, call, overlapped>>
  BY <1>2 DEF SkipPaused, UpdateInstance, LoopEnds, cloud
<1>3. ASSUME User PROVE UNCHANGED <<ip, releasing, call, overlapped>>
  BY <1>3 DEF User, Add, SetPaused, Delete, stopChangeIp, Cancel, cloud
<1>4. QED
  BY <1>1, <1>2, <1>3 DEF Loop

\* A manual request begins its attempt like a task.
LEMMA RequestStep ==
    ASSUME TypeOK, NEW c \in Callers, Request(c)
    PROVE  /\ UNCHANGED <<ip, releasing>>
           /\ overlapped' = (overlapped \/ \E d \in Callers : InProgress(d))
           /\ call'[c].pc = "look"
           /\ \A d \in Callers \ {c} : call'[d] = call[d]
  BY DEF TypeOK, Request, Calls, cloud

\* A step of an attempt touches no other.
LEMMA AttemptStep ==
    ASSUME TypeOK, NEW c \in Callers, ChangeInstanceIP(c) \/ Publish(c) \/ Panic(c)
    PROVE  Proceeds(c)
<1>1. call \in [Callers -> Calls]
  BY DEF TypeOK
<1>2. ASSUME ChangeInstanceIP(c) PROVE Proceeds(c)
  <2>1. InProgress(c) /\ overlapped' = overlapped
    BY <1>2 DEF ChangeInstanceIP, TenantMissing, CallFails, Look, Resolve, DeleteOld, Gone,
       WaitTimesOut, Create, Accept, Discard, Discarded, InProgress
  <2>2. \E v : call' = [call EXCEPT ![c] = v]
    BY <1>2 DEF ChangeInstanceIP, TenantMissing, CallFails, Look, Resolve, DeleteOld, Gone,
       WaitTimesOut, Create, Accept, Discard, Discarded, Goto, Failed, Succeeded, Return
  <2>3. QED
    BY <1>1, <2>1, <2>2 DEF Proceeds
<1>3. ASSUME Publish(c) \/ Panic(c) PROVE Proceeds(c)
  <2>1. InProgress(c) /\ overlapped' = overlapped
    BY <1>3 DEF Publish, ListRecords, Unlink, Link, Put, DNSFails, WriteDB, Panic, InProgress
  <2>2. \E v : call' = [call EXCEPT ![c] = v]
    BY <1>3 DEF Publish, ListRecords, Unlink, Link, Put, DNSFails, WriteDB, Panic,
       Goto, Succeeded, Return
  <2>3. QED
    BY <1>1, <2>1, <2>2 DEF Proceeds
<1>4. QED
  BY <1>2, <1>3

\* An attempt that began in this step is alone, or the two have overlapped.
LEMMA AloneAfterBegin ==
    ASSUME call \in [Callers -> Calls], NEW c \in Callers,
           overlapped' = (overlapped \/ \E d \in Callers : InProgress(d)),
           \A d \in Callers \ {c} : call'[d] = call[d]
    PROVE  Alone'
  BY DEF Alone, InProgress

LEMMA AloneStep == TypeOK /\ Alone /\ [Next]_vars => Alone'
<1> SUFFICES ASSUME TypeOK, Alone, [Next]_vars PROVE Alone'
  OBVIOUS
<1>a. call \in [Callers -> Calls]
  BY DEF TypeOK
<1>1. CASE UNCHANGED <<call, overlapped>>
  BY <1>1 DEF Alone, InProgress
<1>2. ASSUME NEW c \in Callers, Begins(c) PROVE Alone'
  BY <1>2, <1>a, AloneAfterBegin DEF Begins
<1>3. ASSUME NEW c \in Callers, Request(c) PROVE Alone'
  BY <1>3, <1>a, RequestStep, AloneAfterBegin
<1>4. ASSUME NEW c \in Callers, Proceeds(c) PROVE Alone'
  BY <1>4 DEF Alone, Proceeds, InProgress
<1>5. CASE Restart
  <2>1. \A c \in Callers : call'[c].pc \in {"idle", "done"}
    BY <1>5 DEF Restart, NoCall, InProgress
  <2>2. QED
    BY <2>1 DEF Alone, InProgress
<1>6. \A c \in ChangeTasks : c \in Callers
  BY DEF Callers
<1>7. QED
  BY <1>1, <1>2, <1>3, <1>4, <1>5, <1>6, LoopStep, AttemptStep
     DEF Next, Running, Release, vars

\* While nothing disturbs the attempts and c is under way, no other attempt
\* is, and an address is being released only because c waits for it.
LEMMA OnlyOne ==
    ASSUME Alone, CloudInStep, Undisturbed, NEW c \in Callers, InProgress(c)
    PROVE  /\ \A d \in Callers \ {c} : ~InProgress(d)
           /\ releasing => call[c].pc \in {"wait", "discard"}
           /\ InStep(c)
<1>1. \A d \in Callers \ {c} : ~InProgress(d)
  BY DEF Alone, Undisturbed
<1>2. \A d \in Callers : call[d].pc \in {"wait", "discard"} => InProgress(d)
  BY DEF InProgress
<1>3. QED
  BY <1>1, <1>2 DEF CloudInStep, Waiting

\* An attempt that is not under way supposes nothing.
LEMMA IdleInStep ==
    ASSUME NEW d \in Callers, call'[d].pc \in {"idle", "done", "look", "dns",
                                               "unlink", "link", "put", "db"}
    PROVE  InStep(d)'
  BY DEF InStep

\* So it is enough to look at the attempt that moves.
LEMMA OneMoves ==
    ASSUME Alone, CloudInStep, Undisturbed, NEW c \in Callers, Proceeds(c),
           InStep(c)', releasing' => call'[c].pc \in {"wait", "discard"}
    PROVE  CloudInStep'
<1>1. \A d \in Callers \ {c} : call'[d].pc \in {"idle", "done"}
  BY OnlyOne DEF Proceeds, InProgress
<1>2. \A d \in Callers : InStep(d)'
  BY <1>1, IdleInStep
<1>3. releasing' => Waiting'
  BY DEF Waiting
<1>4. QED
  BY <1>2, <1>3 DEF CloudInStep

\* An attempt that returns supposes nothing, and another caller's call stays.
LEMMA EndPC ==
    ASSUME TypeOK, NEW c \in Callers, Failed(c) \/ Succeeded(c)
    PROVE  call'[c].pc \in {"idle", "done"}
  BY DEF TypeOK, Failed, Succeeded, Return, NoCall

LEMMA GotoPC ==
    ASSUME TypeOK, NEW c \in Callers, NEW p, Goto(c, p)
    PROVE  call'[c].pc = p /\ call'[c].target = call[c].target /\ call'[c].got = call[c].got
  BY DEF TypeOK, Goto, Calls

\* The steps of an attempt keep the cloud in step with it.
LEMMA AttemptInStep ==
    ASSUME TypeOK, Alone, CloudInStep, Undisturbed,
           NEW c \in Callers, ChangeInstanceIP(c), Proceeds(c),
           \A d \in {"refuse", "hidden", "kill"} : ~Spend(d)
    PROVE  CloudInStep'
<1> SUFFICES InStep(c)' /\ (releasing' => call'[c].pc \in {"wait", "discard"})
  BY OneMoves
<1>a. /\ releasing => call[c].pc \in {"wait", "discard"}
      /\ InStep(c)
  BY OnlyOne DEF Proceeds
<1>b. /\ call[c] \in Calls /\ call \in [Callers -> Calls] /\ releasing \in BOOLEAN
  BY DEF TypeOK
<1>c. NextIP # NoIP
  BY ConstantFacts DEF NextIP, TypeOK
<1>1. CASE TenantMissing(c)
  BY <1>1, <1>a, EndPC, IdleInStep DEF TenantMissing, cloud
<1>2. CASE CallFails(c) \/ WaitTimesOut(c)
  BY <1>2 DEF CallFails, WaitTimesOut
<1>3. CASE Look(c)
  BY <1>3, <1>a, GotoPC DEF Look, InStep, cloud
<1>4. CASE Resolve(c)
  <2>1. CASE Failed(c)
    BY <1>4, <2>1, <1>a, EndPC, IdleInStep DEF Resolve, cloud
  <2>2. CASE ip # NoIP /\ call' = [call EXCEPT ![c].pc = "delete", ![c].target = ip]
    BY <1>4, <2>2, <1>a, <1>b DEF Resolve, InStep, Calls, cloud
  <2>3. QED
    BY <1>4, <2>1, <2>2 DEF Resolve
<1>5. CASE DeleteOld(c)
  <2>1. ip # NoIP /\ ip = call[c].target
    BY <1>5, <1>a DEF DeleteOld, InStep
  <2>2. ip' = ip /\ releasing' = TRUE /\ Goto(c, "wait")
    BY <1>5, <2>1 DEF DeleteOld
  <2>3. QED
    BY <2>1, <2>2, GotoPC DEF InStep, ReleasedOrHeld
<1>6. CASE Gone(c)
  <2>1. ~releasing /\ ip = NoIP /\ UNCHANGED <<ip, releasing>> /\ Goto(c, "create")
    BY <1>6, <1>a DEF Gone, InStep, ReleasedOrHeld, cloud
  <2>2. QED
    BY <2>1, GotoPC DEF InStep
<1>7. CASE Create(c)
  <2>1. ip = NoIP /\ ~releasing
    BY <1>7, <1>a DEF Create, InStep
  <2>2. ip' = NextIP /\ releasing' = releasing
        /\ call' = [call EXCEPT ![c].pc = "filter", ![c].got = NextIP]
    BY <1>7, <2>1 DEF Create, Assign
  <2>3. call'[c].pc = "filter" /\ call'[c].got = NextIP
    BY <2>2, <1>b DEF Calls
  <2>4. QED
    BY <2>1, <2>2, <2>3, <1>c DEF InStep
<1>8. CASE Accept(c)
  <2>1. call'[c].pc \in {"dns", "db"}
    BY <1>8, GotoPC DEF Accept
  <2>2. QED
    BY <1>8, <2>1, <1>a, IdleInStep DEF Accept, cloud
<1>9. CASE Discard(c)
  <2>1. ip # NoIP /\ ip = call[c].got
    BY <1>9, <1>a DEF Discard, InStep
  <2>2. ip' = ip /\ releasing' = TRUE /\ Goto(c, "discard")
    BY <1>9, <2>1 DEF Discard
  <2>3. QED
    BY <2>1, <2>2, GotoPC DEF InStep, ReleasedOrHeld
<1>10. CASE Discarded(c)
  <2>1. ~releasing /\ UNCHANGED <<ip, releasing>> /\ Failed(c)
    BY <1>10, <1>a DEF Discarded, InStep, ReleasedOrHeld, cloud
  <2>2. QED
    BY <2>1, EndPC, IdleInStep
<1>11. QED
  BY <1>1, <1>2, <1>3, <1>4, <1>5, <1>6, <1>7, <1>8, <1>9, <1>10 DEF ChangeInstanceIP

\* Publishing leaves the cloud alone.
LEMMA PublishInStep ==
    ASSUME TypeOK, Alone, CloudInStep, Undisturbed, NEW c \in Callers, Publish(c), Proceeds(c)
    PROVE  CloudInStep'
<1>1. UNCHANGED <<ip, releasing>> /\ call[c].pc \in {"dns", "unlink", "link", "put", "db"}
  BY DEF Publish, ListRecords, Unlink, Link, Put, DNSFails, WriteDB, cloud
<1>2. call'[c].pc \in {"idle", "done", "dns", "unlink", "link", "put", "db"}
  <2>1. ASSUME NEW i \in 0..MaxRecords, NEW p \in {"link", "unlink", "put", "db"},
               call' = [call EXCEPT ![c].rec = i, ![c].pc = p]
        PROVE  call'[c].pc = p
    BY <2>1 DEF TypeOK, Calls
  <2>2. CASE ListRecords(c)
    <3>1. PICK i \in 0..MaxRecords, p \in {"link", "unlink", "put", "db"} :
             call' = [call EXCEPT ![c].rec = i, ![c].pc = p]
      BY <2>2 DEF ListRecords
    <3>2. QED
      BY <3>1, <2>1
  <2>3. CASE Unlink(c) \/ Link(c) \/ Put(c) \/ DNSFails(c)
    BY <2>3, GotoPC DEF Unlink, Link, Put, DNSFails
  <2>4. CASE WriteDB(c)
    BY <2>4, EndPC DEF WriteDB
  <2>5. QED
    BY <2>2, <2>3, <2>4 DEF Publish
<1>3. ~releasing'
  BY <1>1, OnlyOne DEF Proceeds
<1>4. QED
  BY <1>2, <1>3, IdleInStep, OneMoves

\* An attempt that begins while none is under way finds the cloud at rest.
LEMMA BeginInStep ==
    ASSUME CloudInStep, Undisturbed, ~overlapped', NEW c \in Callers,
           UNCHANGED <<ip, releasing>>,
           overlapped' = (overlapped \/ \E d \in Callers : InProgress(d)),
           call'[c].pc = "look",
           \A d \in Callers \ {c} : call'[d] = call[d]
    PROVE  CloudInStep'
<1>1. \A d \in Callers : ~InProgress(d)
  OBVIOUS
<1>2. \A d \in Callers \ {c} : call'[d].pc \in {"idle", "done"}
  BY <1>1 DEF InProgress
<1>3. ~releasing'
  BY <1>1 DEF CloudInStep, Waiting, InProgress
<1>4. \A d \in Callers : InStep(d)'
  BY <1>2, IdleInStep
<1>5. QED
  BY <1>3, <1>4 DEF CloudInStep

LEMMA CloudInStepStep ==
    TypeOK /\ WithinBudget /\ Alone /\ CloudInStep /\ [Next]_vars => CloudInStep'
<1> SUFFICES ASSUME TypeOK, WithinBudget, Alone, CloudInStep, [Next]_vars, Undisturbed'
             PROVE  CloudInStep'
  BY DEF CloudInStep
<1> DEFINE ds == {"refuse", "hidden", "kill"}
<1>a. ds \subseteq Disturbances
  BY DEF Disturbances
<1>b. ~overlapped' /\ Untouched(ds) /\ \A d \in ds : budget'[d] = budget[d]
  BY <1>a, UntouchedBefore DEF Undisturbed
<1>c. \A d \in ds : ~Spend(d)
  <2> SUFFICES ASSUME NEW d \in ds, Spend(d) PROVE FALSE
    OBVIOUS
  <2>1. budget \in [Disturbances -> Nat] /\ d \in Disturbances
    BY <1>a DEF TypeOK
  <2>2. budget'[d] = budget[d] - 1 /\ budget[d] \in Nat
    BY <2>1, SpendStep
  <2>3. QED
    BY <2>2, <1>b
<1>d. call \in [Callers -> Calls] /\ overlapped \in BOOLEAN
  BY DEF TypeOK
<1>1. ASSUME ~overlapped, UNCHANGED <<ip, releasing, call>> PROVE CloudInStep'
  <2>1. Undisturbed
    BY <1>1, <1>b DEF Undisturbed
  <2>2. (releasing => Waiting) /\ \A c \in Callers : InStep(c)
    BY <2>1 DEF CloudInStep
  <2>3. QED
    BY <1>1, <2>2 DEF CloudInStep, Waiting, InStep, ReleasedOrHeld
<1>2. ASSUME NEW c \in Callers, UNCHANGED <<ip, releasing>>, Begins(c) PROVE CloudInStep'
  <2>1. call'[c].pc = "look" /\ \A d \in Callers \ {c} : call'[d] = call[d]
    BY <1>2, <1>d DEF Begins, NoCall
  <2>2. ~overlapped
    BY <1>2, <1>b DEF Begins
  <2>3. Undisturbed
    BY <2>2, <1>b DEF Undisturbed
  <2>4. QED
    BY <1>2, <1>b, <2>1, <2>3, BeginInStep DEF Begins
<1>3. ASSUME NEW c \in Callers, Request(c) PROVE CloudInStep'
  <2>1. ~overlapped
    BY <1>3, <1>b, RequestStep
  <2>2. Undisturbed
    BY <2>1, <1>b DEF Undisturbed
  <2>3. QED
    BY <1>3, <1>b, <2>2, RequestStep, BeginInStep
<1>4. ASSUME NEW c \in Callers, ChangeInstanceIP(c) \/ Publish(c) PROVE CloudInStep'
  <2>1. Proceeds(c)
    BY <1>4, AttemptStep
  <2>2. Undisturbed
    BY <2>1, <1>b DEF Undisturbed, Proceeds
  <2>3. QED
    BY <1>4, <1>c, <2>1, <2>2, AttemptInStep, PublishInStep
<1>5. ASSUME Release PROVE CloudInStep'
  <2>1. Undisturbed
    BY <1>5, <1>b DEF Undisturbed, Release
  <2>2. PICK c \in Callers : call[c].pc \in {"wait", "discard"}
    BY <1>5, <2>1 DEF Release, CloudInStep, Waiting
  <2>3. InProgress(c)
    BY <2>2 DEF InProgress
  <2>4. \A d \in Callers \ {c} : call[d].pc \in {"idle", "done"}
    BY <2>1, <2>3, OnlyOne DEF InProgress
  <2>5. InStep(c)
    BY <2>1, <2>3, OnlyOne
  <2>6. call' = call /\ ip' = NoIP /\ releasing' = FALSE
    BY <1>5 DEF Release
  <2>7. InStep(c)'
    BY <2>2, <2>5, <2>6 DEF InStep, ReleasedOrHeld
  <2>8. \A d \in Callers : InStep(d)'
    BY <2>4, <2>6, <2>7, IdleInStep
  <2>9. QED
    BY <2>6, <2>8 DEF CloudInStep
<1>6. ASSUME Restart \/ \E c \in Callers : Panic(c) PROVE CloudInStep'
  BY <1>6, <1>c DEF Restart, Panic
<1>7. ASSUME User \/ \E t \in Tasks : Loop(t) \/ LoopEnds(t) PROVE CloudInStep'
  <2>1. CASE UNCHANGED <<ip, releasing, call, overlapped>>
    BY <2>1, <1>1, <1>b
  <2>2. \A c \in ChangeTasks : c \in Callers
    BY DEF Callers
  <2>3. QED
    BY <1>7, <2>1, <2>2, <1>2, LoopStep
<1>8. CASE UNCHANGED vars
  BY <1>8, <1>1, <1>b DEF vars
<1>9. QED
  BY <1>3, <1>4, <1>5, <1>6, <1>7, <1>8 DEF Next, Running

-----------------------------------------------------------------------------
LEMMA InitHolds == Init => IInv
<1> SUFFICES ASSUME Init PROVE IInv
  OBVIOUS
<1>1. NoCall \in Calls
  BY ConstantFacts DEF NoCall, Calls, Steps
<1>2. \A c \in Callers : call[c] = NoCall /\ NoCall.pc = "idle"
  BY DEF Init, NoCall
<1>3. records \subseteq Records /\ made \in 0..MaxRecords
  <2>1. [id |-> 1, ip |-> 1] \in Records
    BY ConstantFacts DEF Records
  <2>2. QED
    BY <2>1, ConstantFacts DEF Init
<1>4. TypeOK
  <2>1. 1 \in IPs /\ Budget \in [Disturbances -> Nat]
    BY ConstantFacts
  <2>2. task \in [Tasks -> TaskRecords]
    BY DEF Init, TaskRecords, Loops
  <2>3. QED
    BY <1>1, <1>3, <2>1, <2>2 DEF Init, TypeOK
<1>5. WithinBudget
  BY ConstantFacts DEF Init, WithinBudget
<1>6. Alone
  BY <1>2 DEF Alone, InProgress
<1>7. CloudInStep
  BY <1>2 DEF Init, CloudInStep, InStep
<1>8. QED
  BY <1>4, <1>5, <1>6, <1>7 DEF IInv

\* The inductive invariant holds in every reachable state: the types, the
\* budgets, and the agreement of a lone attempt with the cloud.
THEOREM Inductive == Spec => []IInv
<1>1. IInv /\ [Next]_vars => IInv'
  BY TypeStep, WithinBudgetStep, AloneStep, CloudInStepStep DEF IInv
<1>2. QED
  BY <1>1, InitHolds, PTL DEF Spec

\* Every reachable state of the tasks, the attempts, the cloud and the records
\* has the declared types.
THEOREM TypeCorrect == Spec => []TypeOK
<1>1. IInv => TypeOK
  BY DEF IInv
<1>2. QED
  BY <1>1, Inductive, PTL

\* An attempt of ChangeInstanceIP that overlaps with no other asks for a new
\* address only when the old one has gone, unless a call failed before.
THEOREM LoneAttemptNotRefused == Spec => []NeverRefused
<1>1. IInv => NeverRefused
  BY DEF IInv, CloudInStep, InStep, Undisturbed, NeverRefused
<1>2. QED
  BY <1>1, Inductive, PTL

-----------------------------------------------------------------------------
(* An instance without an address has a task that goes on trying.           *)

\* Nobody stops a task, and none is lost.
Steady == Untouched({"stop", "fault", "kill"})

RequestsIdle == \A c \in Requests : call[c].pc = "idle"

\* Only an address is deleted, discarded or released.
AddressKnown ==
    /\ releasing => ip # NoIP
    /\ \A c \in Callers : /\ call[c].pc = "delete" => call[c].target # NoIP
                          /\ call[c].pc = "filter" => call[c].got # NoIP

\* The goroutines belong to listed tasks, and the attempts to busy ones.
GoesOn(t) ==
    /\ ~task[t].cancelled
    /\ task[t].loop # "none" => task[t].state = "listed"

TasksGoOn ==
    Steady => /\ \A t \in Tasks : GoesOn(t)
              /\ \A t \in ChangeTasks : InProgress(t) => task[t].loop = "busy"

\* The steps of an attempt that end in another attempt or in an address, and
\* those after it has one.
Seeking == {"look", "resolve", "delete", "wait", "create", "discard"}
Holding == {"filter", "dns", "unlink", "link", "put", "db"}

Tries(t) ==
    task[t].state = "listed" /\ (task[t].loop = "rest" \/ call[t].pc \in Seeking)

SomeoneTries ==
    (ip = NoIP \/ releasing) /\ Steady /\ RequestsIdle => \E t \in ChangeTasks : Tries(t)

\* What a step of an attempt comes to, for its task and for the cloud.
Outcome(c) ==
    \/ UNCHANGED task /\ call'[c].pc \in Seeking
    \/ Failed(c)
    \/ /\ call[c].pc \in Holding /\ UNCHANGED <<ip, releasing>>
       /\ Succeeded(c) \/ (UNCHANGED task /\ call'[c].pc \in Holding)
    \/ UNCHANGED task /\ call'[c].pc = "filter" /\ ip' # NoIP /\ ~releasing'

\* Where the attempt is after one step of ListRecords.
LEMMA ListPC ==
    ASSUME TypeOK, NEW c \in Callers, ListRecords(c)
    PROVE  call'[c].pc \in {"link", "unlink", "put", "db"}
<1>1. ASSUME NEW i \in 0..MaxRecords, NEW p \in {"link", "unlink", "put", "db"},
             call' = [call EXCEPT ![c].rec = i, ![c].pc = p]
      PROVE  call'[c].pc = p
  BY <1>1 DEF TypeOK, Calls
<1>2. PICK i \in 0..MaxRecords, p \in {"link", "unlink", "put", "db"} :
         call' = [call EXCEPT ![c].rec = i, ![c].pc = p]
  BY DEF ListRecords
<1>3. QED
  BY <1>1, <1>2

\* A step of an attempt that reads its tenant comes to one of the outcomes.
LEMMA StepOutcome ==
    ASSUME TypeOK, AddressKnown, NEW c \in Callers, ChangeInstanceIP(c) \/ Publish(c),
           ~Spend("fault")
    PROVE  Outcome(c)
<1>a. call[c] \in Calls /\ call \in [Callers -> Calls] /\ releasing \in BOOLEAN
  BY DEF TypeOK
<1>b. NextIP # NoIP
  BY ConstantFacts DEF NextIP, TypeOK
<1>1. CASE TenantMissing(c)
  BY <1>1 DEF TenantMissing
<1>2. CASE CallFails(c) \/ WaitTimesOut(c) \/ Discarded(c)
  BY <1>2 DEF CallFails, WaitTimesOut, Discarded, Outcome
<1>3. CASE Look(c) \/ DeleteOld(c) \/ Gone(c)
  BY <1>3, GotoPC DEF Look, DeleteOld, Gone, Outcome, Seeking
<1>4. CASE Resolve(c)
  <2>1. ASSUME call' = [call EXCEPT ![c].pc = "delete", ![c].target = ip]
        PROVE  call'[c].pc = "delete"
    BY <2>1, <1>a DEF Calls
  <2>2. QED
    BY <1>4, <2>1 DEF Resolve, Outcome, Seeking
<1>5. CASE Create(c)
  <2>1. ASSUME call' = [call EXCEPT ![c].pc = "filter", ![c].got = NextIP]
        PROVE  call'[c].pc = "filter"
    BY <2>1, <1>a DEF Calls
  <2>2. ASSUME Assign PROVE ip' # NoIP /\ ~releasing'
    BY <2>2, <1>b DEF Assign, AddressKnown
  <2>3. QED
    BY <1>5, <2>1, <2>2 DEF Create, Outcome
<1>6. CASE Accept(c)
  <2>1. call'[c].pc \in {"dns", "db"}
    BY <1>6, GotoPC DEF Accept
  <2>2. QED
    BY <1>6, <2>1 DEF Accept, Outcome, Holding, cloud
<1>7. CASE Discard(c)
  BY <1>7, GotoPC DEF Discard, Outcome, Seeking
<1>8. CASE ListRecords(c)
  BY <1>8, ListPC DEF ListRecords, Outcome, Holding, cloud
<1>9. CASE Unlink(c)
  <2>1. call'[c].pc \in {"link", "db"}
    BY <1>9, GotoPC DEF Unlink
  <2>2. QED
    BY <1>9, <2>1 DEF Unlink, Outcome, Holding, cloud
<1>10. CASE Link(c) \/ Put(c) \/ DNSFails(c)
  BY <1>10, GotoPC DEF Link, Put, DNSFails, Outcome, Holding, cloud
<1>11. CASE WriteDB(c)
  BY <1>11 DEF WriteDB, Outcome, Holding, cloud
<1>12. QED
  BY <1>1, <1>2, <1>3, <1>4, <1>5, <1>6, <1>7, <1>8, <1>9, <1>10, <1>11
     DEF ChangeInstanceIP, Publish

\* The attempt of a task that failed rests, that of one that succeeded is over,
\* and the other tasks are as they were.
LEMMA EndTask ==
    ASSUME TypeOK, NEW c \in Tasks, Failed(c) \/ Succeeded(c)
    PROVE  /\ \A t \in Tasks \ {c} : task'[t] = task[t]
           /\ Failed(c) => task'[c] = [task[c] EXCEPT !.loop = "rest"]
           /\ Succeeded(c) => task'[c] = [task[c] EXCEPT !.loop = "none", !.state = "gone"]
  BY DEF TypeOK, Failed, Succeeded, Rests, Finished

\* A manual request that has begun is never idle again.
LEMMA RequestMoves ==
    ASSUME TypeOK, NEW c \in Requests, Outcome(c)
    PROVE  call'[c].pc # "idle"
<1>1. ASSUME Failed(c) \/ Succeeded(c) PROVE call'[c].pc = "done"
  BY <1>1 DEF TypeOK, Callers, Failed, Succeeded, Return, NoCall
<1>2. QED
  BY <1>1 DEF Outcome, Seeking, Holding

\* An address that is deleted, discarded or released is one.
LEMMA AddressKnownStep == TypeOK /\ AddressKnown /\ [Next]_vars => AddressKnown'
<1> SUFFICES ASSUME TypeOK, AddressKnown, [Next]_vars PROVE AddressKnown'
  OBVIOUS
<1> DEFINE Known(d) == /\ call[d].pc = "delete" => call[d].target # NoIP
                       /\ call[d].pc = "filter" => call[d].got # NoIP
<1>a. call \in [Callers -> Calls] /\ releasing \in BOOLEAN /\ NextIP # NoIP
  BY ConstantFacts DEF TypeOK, NextIP
<1>b. \A d \in Callers : Known(d)
  BY DEF AddressKnown
<1>1. ASSUME releasing' => ip' # NoIP, NEW c \in Callers, Known(c)',
             \A d \in Callers \ {c} : call'[d] = call[d]
      PROVE  AddressKnown'
  <2>1. \A d \in Callers : Known(d)'
    BY <1>1, <1>b
  <2>2. QED
    BY <2>1, <1>1 DEF AddressKnown
<1>2. ASSUME UNCHANGED <<ip, releasing, call>> PROVE AddressKnown'
  BY <1>2 DEF AddressKnown
<1>3. ASSUME NEW c \in Callers, ChangeInstanceIP(c) \/ Publish(c) PROVE AddressKnown'
  <2>1. \A d \in Callers \ {c} : call'[d] = call[d]
    BY <1>3, AttemptStep DEF Proceeds
  <2> SUFFICES (releasing' => ip' # NoIP) /\ Known(c)'
    BY <2>1, <1>1
  <2>a. Known(c) /\ (releasing => ip # NoIP)
    BY <1>b DEF AddressKnown
  <2>2. ASSUME UNCHANGED cloud, call'[c].pc \notin {"delete", "filter"}
        PROVE  (releasing' => ip' # NoIP) /\ Known(c)'
    BY <2>2, <2>a DEF cloud
  <2>3. ASSUME TenantMissing(c) \/ CallFails(c) \/ WaitTimesOut(c) \/ Discarded(c) \/ WriteDB(c)
        PROVE  (releasing' => ip' # NoIP) /\ Known(c)'
    BY <2>3, <2>2, EndPC DEF TenantMissing, CallFails, WaitTimesOut, Discarded, WriteDB
  <2>4. ASSUME Look(c) \/ Gone(c) \/ Accept(c) \/ Unlink(c) \/ Link(c) \/ Put(c) \/ DNSFails(c)
        PROVE  (releasing' => ip' # NoIP) /\ Known(c)'
    <3>1. \E p \in {"resolve", "create", "dns", "db", "link"} : Goto(c, p)
      BY <2>4 DEF Look, Gone, Accept, Unlink, Link, Put, DNSFails
    <3>2. UNCHANGED cloud
      BY <2>4 DEF Look, Gone, Accept, Unlink, Link, Put, DNSFails
    <3>3. QED
      BY <3>1, <3>2, <2>2, GotoPC
  <2>5. ASSUME ListRecords(c) PROVE (releasing' => ip' # NoIP) /\ Known(c)'
    BY <2>5, <2>2, ListPC DEF ListRecords
  <2>6. ASSUME Resolve(c) PROVE (releasing' => ip' # NoIP) /\ Known(c)'
    <3>1. CASE Failed(c)
      BY <2>6, <3>1, <2>2, EndPC DEF Resolve
    <3>2. CASE ip # NoIP /\ call' = [call EXCEPT ![c].pc = "delete", ![c].target = ip]
      <4>1. call'[c].pc = "delete" /\ call'[c].target = ip
        BY <3>2, <1>a DEF Calls
      <4>2. QED
        BY <2>6, <3>2, <4>1, <2>a DEF Resolve, cloud
    <3>3. QED
      BY <2>6, <3>1, <3>2 DEF Resolve
  <2>7. ASSUME DeleteOld(c) PROVE (releasing' => ip' # NoIP) /\ Known(c)'
    <3>1. call'[c].pc \in {"wait", "create"}
      BY <2>7, GotoPC DEF DeleteOld
    <3>2. QED
      BY <2>7, <3>1, <2>a DEF DeleteOld
  <2>8. ASSUME Create(c) PROVE (releasing' => ip' # NoIP) /\ Known(c)'
    <3>1. CASE Assign /\ call' = [call EXCEPT ![c].pc = "filter", ![c].got = NextIP]
      <4>1. call'[c].pc = "filter" /\ call'[c].got = NextIP
        BY <3>1, <1>a DEF Calls
      <4>2. QED
        BY <3>1, <4>1, <1>a DEF Assign
    <3>2. CASE Assign /\ Failed(c)
      BY <3>2, <1>a, EndPC DEF Assign
    <3>3. CASE Failed(c) /\ UNCHANGED cloud
      BY <3>3, <2>2, EndPC
    <3>4. QED
      BY <2>8, <3>1, <3>2, <3>3 DEF Create
  <2>9. ASSUME Discard(c) PROVE (releasing' => ip' # NoIP) /\ Known(c)'
    <3>1. call'[c].pc \in {"discard", "idle", "done"}
      BY <2>9, GotoPC, EndPC DEF Discard
    <3>2. call[c].got # NoIP /\ ip' = ip
      BY <2>9, <2>a DEF Discard
    <3>3. releasing' => releasing \/ ip = call[c].got
      BY <2>9 DEF Discard
    <3>4. QED
      BY <3>1, <3>2, <3>3, <2>a
  <2>10. QED
    BY <1>3, <2>3, <2>4, <2>5, <2>6, <2>7, <2>8, <2>9 DEF ChangeInstanceIP, Publish
<1>4. ASSUME NEW c \in Callers, Panic(c) PROVE AddressKnown'
  <2>1. call'[c].pc \in {"idle", "done"}
    BY <1>4, <1>a DEF Panic, Return, NoCall
  <2>2. \A d \in Callers \ {c} : call'[d] = call[d]
    BY <1>4, AttemptStep DEF Proceeds
  <2>3. QED
    BY <1>4, <2>1, <2>2, <1>1 DEF Panic, AddressKnown, cloud
<1>5. ASSUME NEW c \in Callers, Begins(c), UNCHANGED <<ip, releasing>> PROVE AddressKnown'
  <2>1. call'[c].pc = "look" /\ \A d \in Callers \ {c} : call'[d] = call[d]
    BY <1>5, <1>a DEF Begins, NoCall
  <2>2. QED
    BY <1>5, <2>1, <1>1 DEF AddressKnown
<1>6. ASSUME NEW c \in Callers, Request(c) PROVE AddressKnown'
  BY <1>6, RequestStep, <1>1 DEF AddressKnown
<1>7. ASSUME User \/ \E t \in Tasks : Loop(t) \/ LoopEnds(t) PROVE AddressKnown'
  <2>1. \A c \in ChangeTasks : c \in Callers
    BY DEF Callers
  <2>2. QED
    BY <1>7, <2>1, <1>2, <1>5, LoopStep
<1>8. ASSUME Release PROVE AddressKnown'
  BY <1>8 DEF Release, AddressKnown
<1>9. ASSUME Restart PROVE AddressKnown'
  <2>1. \A d \in Callers : call'[d].pc \in {"idle", "done"}
    BY <1>9 DEF Restart, NoCall, InProgress
  <2>2. QED
    BY <1>9, <2>1 DEF Restart, AddressKnown, cloud
<1>10. QED
  BY <1>2, <1>3, <1>4, <1>6, <1>7, <1>8, <1>9 DEF Next, Running, vars

\* Nothing stops, fails or kills a task in a step after which it is so.
LEMMA SteadyBefore ==
    ASSUME TypeOK, WithinBudget, [Next]_vars, Steady'
    PROVE  Steady /\ ~Spend("stop") /\ ~Spend("fault") /\ ~Spend("kill")
<1>1. {"stop", "fault", "kill"} \in SUBSET Disturbances
  BY DEF Disturbances
<1>2. Steady /\ \A d \in {"stop", "fault", "kill"} : budget'[d] = budget[d]
  BY <1>1, UntouchedBefore DEF Steady
<1>3. ASSUME NEW d \in {"stop", "fault", "kill"}, Spend(d) PROVE FALSE
  <2>1. budget \in [Disturbances -> Nat] /\ d \in Disturbances
    BY <1>1 DEF TypeOK
  <2>2. budget'[d] = budget[d] - 1 /\ budget[d] \in Nat
    BY <1>3, <2>1, SpendStep
  <2>3. QED
    BY <2>2, <1>2
<1>4. QED
  BY <1>2, <1>3

\* The steps that are left to the handlers and the loops, with what they do to
\* the tasks and the attempts.
LoopMoves(t) ==
    \/ /\ Add(t) \/ SkipPaused(t) \/ \E p \in BOOLEAN : SetPaused(t, p)
       /\ UNCHANGED call
    \/ Attempt(t)
    \/ UpdateInstance(t) /\ UNCHANGED call

\* Nothing but these steps is left of the handlers and the loops.
LEMMA HandlerStep ==
    ASSUME User \/ \E t \in Tasks : Loop(t) \/ LoopEnds(t), ~Spend("stop"),
           \A t \in Tasks : GoesOn(t)
    PROVE  (\E t \in Tasks : LoopMoves(t)) /\ UNCHANGED <<ip, releasing>>
<1>1. ASSUME NEW t \in Tasks, Add(t) \/ SkipPaused(t) \/ UpdateInstance(t)
      PROVE  LoopMoves(t) /\ UNCHANGED <<ip, releasing>>
  BY <1>1 DEF Add, SkipPaused, UpdateInstance, LoopMoves, cloud
<1>2. ASSUME NEW t \in Tasks, NEW p \in BOOLEAN, SetPaused(t, p)
      PROVE  LoopMoves(t) /\ UNCHANGED <<ip, releasing>>
  BY <1>2 DEF SetPaused, LoopMoves, cloud
<1>3. ASSUME NEW t \in Tasks, Attempt(t) PROVE LoopMoves(t) /\ UNCHANGED <<ip, releasing>>
  BY <1>3 DEF Attempt, LoopMoves, cloud
<1>4. ASSUME NEW t \in Tasks, LoopEnds(t) PROVE FALSE
  BY <1>4 DEF LoopEnds, GoesOn
<1>5. ASSUME NEW ts, Cancel(ts) PROVE FALSE
  BY <1>5 DEF Cancel
<1>6. QED
  BY <1>1, <1>2, <1>3, <1>4, <1>5 DEF User, Loop, Delete, stopChangeIp

\* What such a step leaves of the tasks.
LEMMA LoopMovesFacts ==
    ASSUME TypeOK, NEW t \in Tasks, LoopMoves(t), GoesOn(t),
           t \in ChangeTasks /\ InProgress(t) => task[t].loop = "busy",
           ~Spend("fault")
    PROVE  /\ \A u \in Tasks \ {t} : task'[u] = task[u]
           /\ \A c \in Callers \ {t} : call'[c] = call[c]
           /\ GoesOn(t)'
           /\ t \in ChangeTasks => /\ InProgress(t)' => task'[t].loop = "busy"
                                   /\ Tries(t) => Tries(t)'
<1>a. /\ task \in [Tasks -> TaskRecords] /\ call \in [Callers -> Calls]
      /\ t \in ChangeTasks => t \in Callers
  BY DEF TypeOK, Callers
<1>b. task[t] \in TaskRecords
  BY <1>a
<1>1. CASE Add(t) /\ UNCHANGED call
  BY <1>1, <1>a, <1>b DEF Add, GoesOn, Tries, InProgress, TaskRecords
<1>2. CASE SkipPaused(t) /\ UNCHANGED call
  BY <1>2, <1>a, <1>b DEF SkipPaused, Rests, GoesOn, Tries, InProgress, TaskRecords
<1>3. ASSUME NEW p \in BOOLEAN, SetPaused(t, p), UNCHANGED call
      PROVE  /\ \A u \in Tasks \ {t} : task'[u] = task[u]
             /\ \A c \in Callers \ {t} : call'[c] = call[c]
             /\ GoesOn(t)'
             /\ t \in ChangeTasks => /\ InProgress(t)' => task'[t].loop = "busy"
                                     /\ Tries(t) => Tries(t)'
  BY <1>3, <1>a, <1>b DEF SetPaused, GoesOn, Tries, InProgress, TaskRecords
<1>4. CASE Attempt(t)
  <2>1. task'[t] = [task[t] EXCEPT !.loop = "busy"] /\ \A u \in Tasks \ {t} : task'[u] = task[u]
    BY <1>4, <1>a DEF Attempt
  <2>2. task[t].loop # "none" /\ task'[t].loop = "busy"
        /\ task'[t].state = task[t].state /\ task'[t].cancelled = task[t].cancelled
    BY <1>4, <1>b, <2>1 DEF Attempt, TaskRecords
  <2>3. \A c \in Callers \ {t} : call'[c] = call[c]
    BY <1>4, <1>a DEF Attempt
  <2>4. t \in ChangeTasks => call'[t].pc = "look"
    BY <1>4, <1>a DEF Attempt, NoCall
  <2>5. QED
    BY <2>1, <2>2, <2>3, <2>4 DEF GoesOn, Tries, Seeking
<1>5. CASE UpdateInstance(t) /\ UNCHANGED call
  <2>1. t \notin ChangeTasks
    BY <1>5, ChangeIPAssumption DEF UpdateInstance
  <2>2. task[t].loop = "busy" /\ (Rests(t) \/ Finished(t))
    BY <1>5 DEF UpdateInstance
  <2>3. GoesOn(t)' /\ \A u \in Tasks \ {t} : task'[u] = task[u]
    BY <2>2, <1>a, <1>b DEF Rests, Finished, GoesOn, TaskRecords
  <2>4. QED
    BY <1>5, <2>1, <2>3
<1>6. QED
  BY <1>1, <1>2, <1>3, <1>4, <1>5 DEF LoopMoves

\* What a step of an attempt leaves of the tasks, when none is stopped, fails
\* to read or is killed.
LEMMA OutcomeFacts ==
    ASSUME TypeOK, TasksGoOn, Steady, NEW c \in ChangeTasks, InProgress(c), Outcome(c)
    PROVE  /\ \A u \in Tasks \ {c} : task'[u] = task[u]
           /\ GoesOn(c)'
           /\ InProgress(c)' => task'[c].loop = "busy"
           /\ call'[c].pc \in Seeking \/ Failed(c) => Tries(c)'
<1>a. /\ c \in Tasks /\ c \in Callers /\ task[c] \in TaskRecords
      /\ GoesOn(c) /\ task[c].loop = "busy" /\ task[c].state = "listed"
  BY DEF TypeOK, Tasks, Callers, TasksGoOn, GoesOn
<1>1. CASE Failed(c)
  <2>1. task'[c] = [task[c] EXCEPT !.loop = "rest"] /\ \A u \in Tasks \ {c} : task'[u] = task[u]
    BY <1>1, <1>a, EndTask
  <2>2. task'[c].loop = "rest" /\ task'[c].state = "listed"
        /\ task'[c].cancelled = task[c].cancelled
    BY <2>1, <1>a DEF TaskRecords
  <2>3. ~InProgress(c)'
    BY <1>1, <1>a, EndPC DEF InProgress
  <2>4. QED
    BY <2>1, <2>2, <2>3, <1>a DEF GoesOn, Tries
<1>2. CASE Succeeded(c)
  <2>1. task'[c] = [task[c] EXCEPT !.loop = "none", !.state = "gone"]
        /\ \A u \in Tasks \ {c} : task'[u] = task[u]
    BY <1>2, <1>a, EndTask
  <2>2. task'[c].loop = "none" /\ task'[c].cancelled = task[c].cancelled
    BY <2>1, <1>a DEF TaskRecords
  <2>3. call'[c].pc \in {"idle", "done"}
    BY <1>2, <1>a, EndPC
  <2>4. ~Failed(c)
    <3>1. ASSUME Failed(c) PROVE FALSE
      <4>1. task'[c] = [task[c] EXCEPT !.loop = "rest"]
        BY <3>1, <1>a, EndTask
      <4>2. QED
        BY <4>1, <2>2, <1>a DEF TaskRecords
    <3>2. QED
      BY <3>1
  <2>5. QED
    BY <2>1, <2>2, <2>3, <2>4, <1>a DEF GoesOn, InProgress, Seeking
<1>3. CASE UNCHANGED task
  BY <1>3, <1>1, <1>a DEF GoesOn, Tries
<1>4. QED
  BY <1>1, <1>2, <1>3 DEF Outcome

\* The goroutines of the tasks stay with tasks that are listed.
LEMMA TasksGoOnStep ==
    TypeOK /\ WithinBudget /\ AddressKnown /\ TasksGoOn /\ [Next]_vars => TasksGoOn'
<1> SUFFICES ASSUME TypeOK, WithinBudget, AddressKnown, TasksGoOn, [Next]_vars, Steady'
             PROVE  /\ \A t \in Tasks : GoesOn(t)'
                    /\ \A t \in ChangeTasks : InProgress(t)' => task'[t].loop = "busy"
  BY DEF TasksGoOn
<1>a. Steady /\ ~Spend("stop") /\ ~Spend("fault") /\ ~Spend("kill")
  BY SteadyBefore
<1>b. /\ \A t \in Tasks : GoesOn(t)
      /\ \A t \in ChangeTasks : InProgress(t) => task[t].loop = "busy"
  BY <1>a DEF TasksGoOn
<1>c. \A t \in ChangeTasks : t \in Tasks /\ t \in Callers
  BY DEF Tasks, Callers
<1>1. CASE UNCHANGED <<task, call>>
  BY <1>1, <1>b DEF GoesOn, InProgress
<1>2. ASSUME NEW t \in Tasks, LoopMoves(t)
      PROVE  /\ \A u \in Tasks : GoesOn(u)'
             /\ \A u \in ChangeTasks : InProgress(u)' => task'[u].loop = "busy"
  <2>1. /\ \A u \in Tasks \ {t} : task'[u] = task[u]
        /\ \A c \in Callers \ {t} : call'[c] = call[c]
        /\ GoesOn(t)'
        /\ t \in ChangeTasks => (InProgress(t)' => task'[t].loop = "busy")
    BY <1>2, <1>a, <1>b, LoopMovesFacts
  <2>2. \A u \in Tasks : GoesOn(u)'
    BY <2>1, <1>b DEF GoesOn
  <2>3. \A u \in ChangeTasks : InProgress(u)' => task'[u].loop = "busy"
    BY <2>1, <1>b, <1>c DEF InProgress
  <2>4. QED
    BY <2>2, <2>3
<1>3. ASSUME NEW c \in Callers, ChangeInstanceIP(c) \/ Publish(c)
      PROVE  /\ \A u \in Tasks : GoesOn(u)'
             /\ \A u \in ChangeTasks : InProgress(u)' => task'[u].loop = "busy"
  <2>1. InProgress(c) /\ \A d \in Callers \ {c} : call'[d] = call[d]
    BY <1>3, AttemptStep DEF Proceeds
  <2>2. Outcome(c)
    BY <1>3, <1>a, StepOutcome
  <2>3. CASE c \in ChangeTasks
    <3>1. /\ \A u \in Tasks \ {c} : task'[u] = task[u]
          /\ GoesOn(c)'
          /\ InProgress(c)' => task'[c].loop = "busy"
      BY <2>1, <2>2, <2>3, <1>a, OutcomeFacts
    <3>2. \A u \in Tasks : GoesOn(u)'
      BY <3>1, <1>b DEF GoesOn
    <3>3. \A u \in ChangeTasks : InProgress(u)' => task'[u].loop = "busy"
      BY <3>1, <2>1, <1>b, <1>c DEF InProgress
    <3>4. QED
      BY <3>2, <3>3
  <2>4. CASE c \notin ChangeTasks
    <3>1. c \in Requests /\ c \notin Tasks
      BY <2>4, ConstantFacts
    <3>2. UNCHANGED task
      BY <3>1, <2>2 DEF Outcome, Failed, Succeeded
    <3>3. QED
      BY <3>1, <3>2, <2>1, <2>4, <1>b, <1>c DEF GoesOn, InProgress
  <2>5. QED
    BY <2>3, <2>4
<1>4. ASSUME NEW c \in Callers, Request(c)
      PROVE  /\ \A u \in Tasks : GoesOn(u)'
             /\ \A u \in ChangeTasks : InProgress(u)' => task'[u].loop = "busy"
  <2>1. c \notin ChangeTasks /\ UNCHANGED task
    BY <1>4, ConstantFacts DEF Request
  <2>2. \A d \in Callers \ {c} : call'[d] = call[d]
    BY <1>4, RequestStep
  <2>3. QED
    BY <2>1, <2>2, <1>b, <1>c DEF GoesOn, InProgress
<1>5. ASSUME Restart \/ \E c \in Callers : Panic(c) PROVE FALSE
  BY <1>5, <1>a DEF Restart, Panic
<1>6. CASE Release \/ UNCHANGED vars
  BY <1>6, <1>1 DEF Release, vars
<1>7. CASE User \/ \E t \in Tasks : Loop(t) \/ LoopEnds(t)
  BY <1>7, <1>a, <1>b, <1>2, HandlerStep
<1>8. QED
  BY <1>3, <1>4, <1>5, <1>6, <1>7 DEF Next, Running

\* The attempt of a task that gives way to another leaves that one trying.
LEMMA SomeoneTriesStep ==
    TypeOK /\ WithinBudget /\ AddressKnown /\ TasksGoOn /\ SomeoneTries /\ [Next]_vars
        => SomeoneTries'
<1> SUFFICES ASSUME TypeOK, WithinBudget, AddressKnown, TasksGoOn, SomeoneTries, [Next]_vars,
                    ip' = NoIP \/ releasing', Steady', RequestsIdle'
             PROVE  \E t \in ChangeTasks : Tries(t)'
  BY DEF SomeoneTries
<1>a. Steady /\ ~Spend("stop") /\ ~Spend("fault") /\ ~Spend("kill")
  BY SteadyBefore
<1>b. /\ \A t \in Tasks : GoesOn(t)
      /\ \A t \in ChangeTasks : InProgress(t) => task[t].loop = "busy"
  BY <1>a DEF TasksGoOn
<1>c. /\ \A t \in ChangeTasks : t \in Tasks /\ t \in Callers
      /\ \A c \in Requests : c \in Callers /\ c \notin Tasks
  BY ConstantFacts
<1>1. ASSUME ip = NoIP \/ releasing, UNCHANGED <<task, call>>
      PROVE  \E t \in ChangeTasks : Tries(t)'
  BY <1>1, <1>a DEF SomeoneTries, RequestsIdle, Tries
<1>2. ASSUME NEW t \in Tasks, LoopMoves(t), UNCHANGED <<ip, releasing>>
      PROVE  \E u \in ChangeTasks : Tries(u)'
  <2>1. /\ \A u \in Tasks \ {t} : task'[u] = task[u]
        /\ \A c \in Callers \ {t} : call'[c] = call[c]
        /\ t \in ChangeTasks => (Tries(t) => Tries(t)')
    BY <1>2, <1>a, <1>b, LoopMovesFacts
  <2>2. RequestsIdle
    BY <2>1, <1>c DEF RequestsIdle
  <2>3. PICK u \in ChangeTasks : Tries(u)
    BY <2>2, <1>2, <1>a DEF SomeoneTries
  <2>4. CASE u = t
    BY <2>1, <2>3, <2>4
  <2>5. CASE u # t
    BY <2>1, <2>3, <2>5, <1>c DEF Tries
  <2>6. QED
    BY <2>4, <2>5
<1>3. ASSUME NEW c \in Callers, ChangeInstanceIP(c) \/ Publish(c)
      PROVE  \E t \in ChangeTasks : Tries(t)'
  <2>1. InProgress(c) /\ \A d \in Callers \ {c} : call'[d] = call[d]
    BY <1>3, AttemptStep DEF Proceeds
  <2>2. Outcome(c)
    BY <1>3, <1>a, StepOutcome
  <2>3. c \in ChangeTasks
    <3>1. ASSUME c \in Requests PROVE FALSE
      BY <3>1, <2>2, RequestMoves DEF RequestsIdle
    <3>2. QED
      BY <3>1, ConstantFacts
  <2>4. /\ \A u \in Tasks \ {c} : task'[u] = task[u]
        /\ call'[c].pc \in Seeking \/ Failed(c) => Tries(c)'
    BY <2>1, <2>2, <2>3, <1>a, OutcomeFacts
  <2>5. CASE call'[c].pc \in Seeking \/ Failed(c)
    BY <2>3, <2>4, <2>5
  <2>6. CASE call[c].pc \in Holding /\ UNCHANGED <<ip, releasing>>
    <3>1. RequestsIdle
      BY <2>1, <2>3, <1>c DEF RequestsIdle
    <3>2. PICK u \in ChangeTasks : Tries(u)
      BY <3>1, <2>6, <1>a DEF SomeoneTries
    <3>3. u # c
      <4>1. task[c].loop = "busy" /\ call[c].pc \notin Seeking
        BY <2>1, <2>3, <2>6, <1>b DEF Holding, Seeking
      <4>2. QED
        BY <4>1, <3>2 DEF Tries
    <3>4. QED
      BY <3>2, <3>3, <2>1, <2>4, <1>c DEF Tries
  <2>7. CASE ip' # NoIP /\ ~releasing'
    BY <2>7
  <2>8. QED
    BY <2>2, <2>5, <2>6, <2>7 DEF Outcome
<1>4. ASSUME NEW c \in Callers, Request(c) PROVE FALSE
  <2>1. c \in Requests /\ call'[c].pc = "look"
    BY <1>4, RequestStep DEF Request
  <2>2. QED
    BY <2>1 DEF RequestsIdle
<1>5. ASSUME Restart \/ \E c \in Callers : Panic(c) PROVE FALSE
  BY <1>5, <1>a DEF Restart, Panic
<1>6. CASE Release
  BY <1>6, <1>1 DEF Release
<1>7. CASE UNCHANGED vars
  BY <1>7, <1>1 DEF vars
<1>8. CASE User \/ \E t \in Tasks : Loop(t) \/ LoopEnds(t)
  BY <1>8, <1>a, <1>b, <1>2, HandlerStep
<1>9. QED
  BY <1>3, <1>4, <1>5, <1>6, <1>7, <1>8 DEF Next, Running

\* As long as nobody stops, fails or kills a task and no manual request
\* interferes, an instance without an address has a task that goes on trying,
\* whatever the tasks that compete for it do to each other.
THEOREM SomeoneGoesOnTrying == Spec => []NotStranded
<1> DEFINE GoOn == AddressKnown /\ TasksGoOn /\ SomeoneTries
<1>1. Init => GoOn
  <2> SUFFICES ASSUME Init PROVE GoOn
    OBVIOUS
  <2>1. \A c \in Callers : call[c].pc = "idle"
    BY DEF Init, NoCall
  <2>2. \A t \in ChangeTasks : t \in Callers
    BY DEF Callers
  <2>3. AddressKnown
    BY <2>1 DEF Init, AddressKnown
  <2>4. TasksGoOn
    BY <2>1, <2>2 DEF Init, TasksGoOn, GoesOn, InProgress
  <2>5. ip # NoIP /\ ~releasing
    BY DEF Init, NoIP
  <2>6. QED
    BY <2>3, <2>4, <2>5 DEF SomeoneTries
<1>2. IInv /\ GoOn /\ [Next]_vars => GoOn'
  BY AddressKnownStep, TasksGoOnStep, SomeoneTriesStep DEF IInv
<1>3. GoOn => NotStranded
  <2> SUFFICES ASSUME SomeoneTries, ip = NoIP, Resting, Steady, RequestsIdle
               PROVE  \E t \in ChangeTasks : task[t].state = "listed" /\ task[t].loop = "rest"
    BY DEF NotStranded, Steady, RequestsIdle
  <2>1. PICK t \in ChangeTasks : Tries(t)
    BY DEF SomeoneTries
  <2>2. call[t].pc \notin Seeking
    BY DEF Resting, InProgress, Seeking, Callers
  <2>3. QED
    BY <2>1, <2>2 DEF Tries
<1>4. QED
  BY <1>1, <1>2, <1>3, Inductive, PTL DEF Spec

-----------------------------------------------------------------------------
(* Between attempts that never overlapped the store and the DNS agree.      *)

Clean == ~overlapped /\ Untouched({"refuse", "hidden", "fault", "kill"})

AllUpdate == WithDNS = Callers

Publishing == {"dns", "unlink", "link", "put", "db"}

\* Attempts that all publish leave one record at most.
OneRecord == AllUpdate => \A r, s \in records : r = s

Agreed ==
    /\ ip \in Wanted \cup {1} /\ db = ip
    /\ AllUpdate => \A r \in records : r.ip = ip

\* What an attempt that publishes an address has of the cloud and the DNS.
Publishes(c) ==
    /\ call[c].pc \in Publishing => ip = call[c].got /\ call[c].got \in Wanted
    /\ AllUpdate =>
        /\ call[c].pc = "link"   => records = {}
        /\ call[c].pc = "unlink" => HasRecord(call[c].rec)
        /\ call[c].pc = "put"    => IF call[c].rec = 0 THEN records = {}
                                    ELSE HasRecord(call[c].rec)
        /\ call[c].pc = "db"     => \A r \in records : r.ip = call[c].got

InAgreement ==
    /\ OneRecord
    /\ Resting => ip = NoIP \/ Agreed
    /\ \A c \in Callers : Publishes(c)

Stored == Clean => InAgreement

\* It is enough to look at the attempt that moves.
LEMMA OneStores ==
    ASSUME TypeOK, Alone, CloudInStep, Undisturbed, NEW c \in Callers, Proceeds(c),
           OneRecord', Publishes(c)',
           call'[c].pc \in {"idle", "done"} => ip' = NoIP \/ Agreed'
    PROVE  InAgreement'
<1>1. \A d \in Callers \ {c} : call'[d].pc \in {"idle", "done"}
  BY OnlyOne DEF Proceeds, InProgress
<1>2. \A d \in Callers : Publishes(d)'
  BY <1>1 DEF Publishes, Publishing
<1>3. Resting' => ip' = NoIP \/ Agreed'
  BY DEF Resting, InProgress
<1>4. QED
  BY <1>2, <1>3 DEF InAgreement

\* The calls of an attempt to the cloud, up to the address it may publish.
LEMMA AttemptStores ==
    ASSUME TypeOK, Alone, CloudInStep, Undisturbed, InAgreement,
           NEW c \in Callers, ChangeInstanceIP(c), Proceeds(c),
           \A d \in {"refuse", "hidden", "fault", "kill"} : ~Spend(d)
    PROVE  InAgreement'
<1>a. /\ releasing => call[c].pc \in {"wait", "discard"}
      /\ InStep(c)
  BY OnlyOne DEF Proceeds
<1>b. OneRecord' /\ UNCHANGED <<db, records>>
  <2>1. UNCHANGED <<db, dns>>
    BY DEF ChangeInstanceIP, TenantMissing, CallFails, Look, Resolve,
       DeleteOld, Gone, WaitTimesOut, Create, Accept, Discard, Discarded
  <2>2. QED
    BY <2>1 DEF OneRecord, InAgreement, dns
<1>c. call \in [Callers -> Calls] /\ NextIP # NoIP
  BY ConstantFacts DEF TypeOK, NextIP
<1>1. ASSUME call'[c].pc \notin Publishing \cup {"idle", "done"} PROVE InAgreement'
  BY <1>1, <1>b, OneStores DEF Publishes, Publishing
<1>2. CASE TenantMissing(c) \/ CallFails(c) \/ WaitTimesOut(c)
  BY <1>2 DEF TenantMissing, CallFails, WaitTimesOut
<1>3. CASE Look(c) \/ DeleteOld(c) \/ Gone(c)
  <2>1. call'[c].pc \in {"resolve", "create", "wait"}
    BY <1>3, GotoPC DEF Look, DeleteOld, Gone
  <2>2. QED
    BY <2>1, <1>1 DEF Publishing
<1>4. CASE Resolve(c)
  <2>1. call' = [call EXCEPT ![c].pc = "delete", ![c].target = ip]
    BY <1>4, <1>a DEF Resolve, InStep
  <2>2. call'[c].pc = "delete"
    BY <2>1, <1>c DEF Calls
  <2>3. QED
    BY <2>2, <1>1 DEF Publishing
<1>5. CASE Create(c)
  <2>1. call' = [call EXCEPT ![c].pc = "filter", ![c].got = NextIP]
    BY <1>5, <1>a DEF Create, InStep
  <2>2. call'[c].pc = "filter"
    BY <2>1, <1>c DEF Calls
  <2>3. QED
    BY <2>2, <1>1 DEF Publishing
<1>6. CASE Accept(c)
  <2>1. /\ call'[c].pc = (IF c \in WithDNS THEN "dns" ELSE "db")
        /\ call'[c].got = call[c].got
    BY <1>6, GotoPC DEF Accept
  <2>2. ip = call[c].got /\ call[c].got \in Wanted /\ ip' = ip
    BY <1>6, <1>a DEF Accept, Matches, InStep, cloud
  <2>3. AllUpdate => call'[c].pc = "dns"
    BY <2>1 DEF AllUpdate
  <2>4. Publishes(c)'
    BY <2>1, <2>2, <2>3 DEF Publishes, AllUpdate
  <2>5. call'[c].pc \notin {"idle", "done"}
    BY <2>1
  <2>6. QED
    BY <2>4, <2>5, <1>b, OneStores
<1>7. CASE Discard(c)
  <2>1. call'[c].pc = "discard"
    BY <1>7, GotoPC DEF Discard
  <2>2. QED
    BY <2>1, <1>1 DEF Publishing
<1>8. CASE Discarded(c)
  <2>1. ip = NoIP /\ ip' = ip /\ Failed(c)
    BY <1>8, <1>a DEF Discarded, InStep, ReleasedOrHeld, cloud
  <2>2. call'[c].pc \in {"idle", "done"}
    BY <2>1, EndPC
  <2>3. Publishes(c)'
    BY <2>2 DEF Publishes, Publishing
  <2>4. QED
    BY <2>1, <2>3, <1>b, OneStores
<1>9. QED
  BY <1>2, <1>3, <1>4, <1>5, <1>6, <1>7, <1>8 DEF ChangeInstanceIP

\* A record made or changed for an address is the only one there is.
LEMMA RecordMade ==
    ASSUME NEW a, CreateRecord(a), records = {}
    PROVE  (\A r, s \in records' : r = s) /\ \A r \in records' : r.ip = a
  BY DEF CreateRecord, Shown

\* So is one that is changed in place of the only one.
LEMMA RecordUpdated ==
    ASSUME NEW a, NEW i, UpdateRecord(i, a), HasRecord(i), \A r, s \in records : r = s
    PROVE  (\A r, s \in records' : r = s) /\ \A r \in records' : r.ip = a
<1>1. CASE Shown(a)
  BY <1>1 DEF UpdateRecord, Shown
<1>2. CASE ~Shown(a)
  <2>1. {r \in records : r.id # i} = {}
    BY DEF HasRecord
  <2>2. records' = {[id |-> i, ip |-> a]}
    BY <1>2, <2>1 DEF UpdateRecord
  <2>3. QED
    BY <2>2
<1>3. QED
  BY <1>1, <1>2

\* Publishing, up to the write to the store that ends the attempt.
LEMMA PublishStores ==
    ASSUME TypeOK, Alone, CloudInStep, Undisturbed, InAgreement,
           NEW c \in Callers, Publish(c), Proceeds(c),
           \A d \in {"refuse", "hidden", "fault", "kill"} : ~Spend(d)
    PROVE  InAgreement'
<1>a. /\ Publishes(c) /\ OneRecord /\ call[c] \in Calls /\ call \in [Callers -> Calls]
      /\ records \subseteq Records
  BY DEF InAgreement, TypeOK
<1>b. ip' = ip /\ ip = call[c].got /\ call[c].got \in Wanted
  BY <1>a DEF Publish, ListRecords, Unlink, Link, Put, DNSFails, WriteDB, cloud,
     Publishes, Publishing
<1>1. CASE ListRecords(c)
  <2>1. PICK i \in 0..MaxRecords : Found(i) /\ call' = [call EXCEPT ![c].rec = i, ![c].pc =
             CASE Bound /\ [id |-> i, ip |-> call[c].got] \in records -> "db"
               [] Bound /\ [id |-> i, ip |-> call[c].got] \notin records -> "put"
               [] ~Bound /\ i = 0 -> "link"
               [] OTHER -> "unlink"]
    BY <1>1 DEF ListRecords
  <2>2. /\ call'[c].rec = i /\ call'[c].got = call[c].got
        /\ call'[c].pc = CASE Bound /\ [id |-> i, ip |-> call[c].got] \in records -> "db"
               [] Bound /\ [id |-> i, ip |-> call[c].got] \notin records -> "put"
               [] ~Bound /\ i = 0 -> "link"
               [] OTHER -> "unlink"
    BY <2>1, <1>a DEF Calls
  <2>3. UNCHANGED records
    BY <1>1 DEF ListRecords, dns
  <2>4. i = 0 => records = {}
    BY <2>1, <1>a DEF Found, HasRecord, Records
  <2>5. i # 0 => HasRecord(i)
    BY <2>1 DEF Found
  <2>6. /\ call'[c].pc \in {"db", "put", "link", "unlink"}
        /\ call'[c].pc = "db" => [id |-> i, ip |-> call[c].got] \in records
        /\ call'[c].pc = "link" => i = 0
        /\ call'[c].pc = "unlink" => i # 0
    BY <2>2, ChangeIPAssumption
  <2>7. OneRecord'
    BY <2>3, <1>a DEF OneRecord, AllUpdate
  <2>8. AllUpdate /\ call'[c].pc = "db" => \A r \in records : r.ip = call[c].got
    BY <2>6, <1>a DEF OneRecord
  <2>9. Publishes(c)'
    BY <2>2, <2>3, <2>4, <2>5, <2>6, <2>8, <1>b DEF Publishes, AllUpdate, HasRecord
  <2>10. QED
    BY <2>6, <2>7, <2>9, OneStores
<1>2. CASE Unlink(c)
  <2>1. /\ call'[c].pc = (IF HasRecord(call[c].rec) THEN "link" ELSE "db")
        /\ call'[c].got = call[c].got
        /\ records' = {r \in records : r.id # call[c].rec}
    BY <1>2, GotoPC DEF Unlink
  <2>2. AllUpdate => call'[c].pc = "link" /\ records' = {}
    <3>1. AllUpdate => HasRecord(call[c].rec) /\ \A r, s \in records : r = s
      BY <1>2, <1>a DEF Unlink, Publishes, OneRecord
    <3>2. QED
      BY <2>1, <3>1 DEF HasRecord
  <2>3. Publishes(c)' /\ OneRecord'
    BY <2>1, <2>2, <1>b DEF Publishes, OneRecord, AllUpdate
  <2>4. call'[c].pc \notin {"idle", "done"}
    BY <2>1
  <2>5. QED
    BY <2>3, <2>4, OneStores
<1>3. CASE Link(c) \/ Put(c)
  <2>1. call'[c].pc = "db" /\ call'[c].got = call[c].got
    BY <1>3, GotoPC DEF Link, Put
  <2>2. ASSUME AllUpdate
        PROVE  (\A r, s \in records' : r = s) /\ \A r \in records' : r.ip = call[c].got
    <3>1. CASE Link(c)
      BY <3>1, <2>2, <1>a, RecordMade DEF Link, Publishes
    <3>2. CASE Put(c) /\ call[c].rec = 0
      BY <3>2, <2>2, <1>a, RecordMade DEF Put, Publishes
    <3>3. CASE Put(c) /\ call[c].rec # 0
      BY <3>3, <2>2, <1>a, RecordUpdated DEF Put, Publishes, OneRecord
    <3>4. QED
      BY <1>3, <3>1, <3>2, <3>3
  <2>3. Publishes(c)' /\ OneRecord'
    BY <2>1, <2>2, <1>b DEF Publishes, OneRecord, AllUpdate
  <2>4. QED
    BY <2>1, <2>3, OneStores
<1>4. CASE DNSFails(c)
  BY <1>4 DEF DNSFails
<1>5. CASE WriteDB(c)
  <2>1. db' = call[c].got /\ UNCHANGED records /\ call'[c].pc \in {"idle", "done"}
    BY <1>5, EndPC DEF WriteDB, dns
  <2>2. AllUpdate => \A r \in records : r.ip = call[c].got
    BY <1>5, <1>a DEF WriteDB, Publishes
  <2>3. Agreed'
    BY <2>1, <2>2, <1>b DEF Agreed, AllUpdate
  <2>4. Publishes(c)' /\ OneRecord'
    BY <2>1, <1>a DEF Publishes, Publishing, OneRecord, AllUpdate
  <2>5. QED
    BY <2>3, <2>4, OneStores
<1>6. QED
  BY <1>1, <1>2, <1>3, <1>4, <1>5 DEF Publish

\* An attempt that begins while none is under way has published nothing yet.
LEMMA BeginStores ==
    ASSUME InAgreement, ~overlapped', NEW c \in Callers, UNCHANGED records,
           overlapped' = (overlapped \/ \E d \in Callers : InProgress(d)),
           call'[c].pc = "look",
           \A d \in Callers \ {c} : call'[d] = call[d]
    PROVE  InAgreement'
<1>1. \A d \in Callers : call'[d].pc \in {"idle", "done", "look"}
  BY DEF InProgress
<1>2. ~Resting'
  BY DEF Resting, InProgress
<1>3. \A d \in Callers : Publishes(d)'
  BY <1>1 DEF Publishes, Publishing
<1>4. QED
  BY <1>2, <1>3 DEF InAgreement, OneRecord, AllUpdate

\* Nothing but the attempt that is under way touches the records or the store.
LEMMA StoredStep ==
    TypeOK /\ WithinBudget /\ Alone /\ CloudInStep /\ Stored /\ [Next]_vars => Stored'
<1> SUFFICES ASSUME TypeOK, WithinBudget, Alone, CloudInStep, Stored, [Next]_vars, Clean'
             PROVE  InAgreement'
  BY DEF Stored
<1> DEFINE ds == {"refuse", "hidden", "fault", "kill"}
<1>a. ds \subseteq Disturbances
  BY DEF Disturbances
<1>b. ~overlapped' /\ Untouched(ds) /\ \A d \in ds : budget'[d] = budget[d]
  BY <1>a, UntouchedBefore DEF Clean
<1>c. \A d \in ds : ~Spend(d)
  <2> SUFFICES ASSUME NEW d \in ds, Spend(d) PROVE FALSE
    OBVIOUS
  <2>1. budget \in [Disturbances -> Nat] /\ d \in Disturbances
    BY <1>a DEF TypeOK
  <2>2. budget'[d] = budget[d] - 1 /\ budget[d] \in Nat
    BY <2>1, SpendStep
  <2>3. QED
    BY <2>2, <1>b
<1>d. ASSUME ~overlapped PROVE Undisturbed /\ InAgreement
  BY <1>d, <1>b DEF Undisturbed, Untouched, Clean, Stored
<1>e. \A c \in ChangeTasks : c \in Callers
  BY DEF Callers
<1>1. ASSUME ~overlapped, UNCHANGED <<ip, db, records, call>> PROVE InAgreement'
  <2>1. InAgreement
    BY <1>1, <1>d
  <2>2. Resting' = Resting /\ Agreed' = Agreed /\ OneRecord' = OneRecord
    BY <1>1 DEF Resting, InProgress, Agreed, OneRecord, AllUpdate
  <2>3. \A c \in Callers : Publishes(c)'
    BY <2>1, <1>1 DEF InAgreement, Publishes, AllUpdate, HasRecord
  <2>4. QED
    BY <2>1, <2>2, <2>3, <1>1 DEF InAgreement
<1>2. ASSUME NEW c \in Callers, Begins(c), UNCHANGED records PROVE InAgreement'
  <2>1. call'[c].pc = "look" /\ \A d \in Callers \ {c} : call'[d] = call[d]
    BY <1>2 DEF TypeOK, Begins, NoCall
  <2>2. InAgreement
    BY <1>2, <1>b, <1>d DEF Begins
  <2>3. QED
    BY <1>2, <1>b, <2>1, <2>2, BeginStores DEF Begins
<1>3. ASSUME NEW c \in Callers, Request(c) PROVE InAgreement'
  <2>1. InAgreement /\ UNCHANGED records
    BY <1>3, <1>b, <1>d, RequestStep DEF Request, dns
  <2>2. QED
    BY <1>3, <1>b, <2>1, RequestStep, BeginStores
<1>4. ASSUME NEW c \in Callers, ChangeInstanceIP(c) \/ Publish(c) PROVE InAgreement'
  <2>1. Proceeds(c)
    BY <1>4, AttemptStep
  <2>2. Undisturbed /\ InAgreement
    BY <2>1, <1>b, <1>d DEF Proceeds
  <2>3. QED
    BY <1>4, <1>c, <2>1, <2>2, AttemptStores, PublishStores
<1>5. ASSUME Release PROVE InAgreement'
  <2>1. Undisturbed /\ InAgreement
    BY <1>5, <1>b, <1>d DEF Release
  <2>2. PICK c \in Callers : call[c].pc \in {"wait", "discard"}
    BY <1>5, <2>1 DEF Release, CloudInStep, Waiting
  <2>3. InProgress(c)
    BY <2>2 DEF InProgress
  <2>4. \A d \in Callers : call[d].pc \in {"idle", "done", "wait", "discard"}
    BY <2>1, <2>2, <2>3, OnlyOne DEF InProgress
  <2>5. call' = call /\ UNCHANGED records
    BY <1>5 DEF Release, dns
  <2>6. ~Resting' /\ OneRecord'
    BY <2>1, <2>3, <2>5 DEF Resting, InProgress, InAgreement, OneRecord, AllUpdate
  <2>7. \A d \in Callers : Publishes(d)'
    BY <2>4, <2>5 DEF Publishes, Publishing
  <2>8. QED
    BY <2>6, <2>7 DEF InAgreement
<1>6. ASSUME Restart \/ \E c \in Callers : Panic(c) PROVE InAgreement'
  BY <1>6, <1>c DEF Restart, Panic
<1>7. ASSUME User \/ \E t \in Tasks : Loop(t) \/ LoopEnds(t) PROVE InAgreement'
  <2>1. UNCHANGED <<ip, db, records>>
    BY <1>7 DEF User, Add, SetPaused, Delete, stopChangeIp, Cancel, Loop, Attempt, SkipPaused,
       LoopEnds, UpdateInstance, cloud, dns
  <2>2. CASE UNCHANGED <<ip, releasing, call, overlapped>>
    BY <2>1, <2>2, <1>1, <1>b
  <2>3. QED
    BY <1>7, <2>1, <2>2, <1>2, <1>e, LoopStep
<1>8. CASE UNCHANGED vars
  BY <1>8, <1>1, <1>b DEF vars
<1>9. QED
  BY <1>3, <1>4, <1>5, <1>6, <1>7, <1>8 DEF Next, Running

\* Between attempts of which no two ever overlapped, and while no call failed,
\* an instance that has an address has one that the ranges admit, and the store
\* and the DNS show it.
THEOREM SettlesInAgreement == Spec => []Settled
<1>1. Init => Stored
  <2> SUFFICES ASSUME Init PROVE InAgreement
    BY DEF Stored
  <2>1. \A c \in Callers : call[c].pc = "idle"
    BY DEF Init, NoCall
  <2>2. OneRecord /\ Agreed
    BY DEF Init, OneRecord, Agreed
  <2>3. \A c \in Callers : Publishes(c)
    BY <2>1 DEF Publishes, Publishing
  <2>4. QED
    BY <2>2, <2>3 DEF InAgreement
<1>2. IInv /\ Stored /\ [Next]_vars => Stored'
  BY StoredStep DEF IInv
<1>3. Stored => Settled
  BY DEF Stored, Clean, InAgreement, Agreed, AllUpdate, Settled
<1>4. QED
  BY <1>1, <1>2, <1>3, Inductive, PTL DEF Spec

-----------------------------------------------------------------------------
(* The two syncs next to the callers.                                       *)

\* A step of the callers, the tasks or the cloud is one of ChangeIP.
LEMMA RunningStep == Running \/ Restart \/ UNCHANGED vars => [Next]_vars
  BY DEF Next

\* The steps of the two syncs that touch what ChangeIP has.
LEMMA SyncSteps ==
    ASSUME handleSync \/ runDNSAutoSync \/ AutoPanic
    PROVE  /\ UNCHANGED <<cloud, task, call, overlapped>>
           /\ UNCHANGED budget \/ Spend("refuse") \/ Spend("fault") \/ Spend("kill")
<1>1. CASE handleSync
  BY <1>1 DEF handleSync, UpsertInstances, GetInstanceVNICs, UpsertVNIC
<1>2. CASE runDNSAutoSync
  BY <1>2 DEF runDNSAutoSync, ListInstances, FindRecord, WriteRecord, AutoFails,
     UpdateInstanceDNSIP, vars, cloud
<1>3. CASE AutoPanic
  BY <1>3 DEF AutoPanic
<1>4. QED
  BY <1>1, <1>2, <1>3

\* The beginnings and ends of the runs have their types.
LEMMA SyncEndsType == sync \in Syncs /\ SyncEnds => sync' \in Syncs
<1>1. NoIP \in IPs
  BY ConstantFacts
<1>2. QED
  BY <1>1 DEF SyncEnds, Syncs

\* Nor does a run that ends or errs leave its type.
LEMMA AutoIdleType == AutoIdle \in Autos
  BY ConstantFacts DEF AutoIdle, Autos

\* See AutoIdleType.
LEMMA ErredType == auto \in Autos /\ Erred => auto' \in Autos
  BY AutoIdleType DEF Erred, Autos

\* The sync of the instances keeps the types.
LEMMA HandleSyncType ==
    ASSUME ATypeOK, handleSync
    PROVE  ATypeOK'
<1>a. {"refuse", "fault"} \subseteq Disturbances /\ NoIP \in IPs
  BY ConstantFacts DEF Disturbances
<1>b. TypeOK /\ last \in IPs /\ sync \in Syncs /\ auto \in Autos
  BY DEF ATypeOK
<1>1. CASE UpsertInstances
  <2>1. sync' \in Syncs
    <3>1. sync.left \in 0..MaxSyncs /\ sync.left - 1 \in 0..MaxSyncs
      BY <1>1, <1>b, AddressSyncAssumption DEF UpsertInstances, Syncs
    <3>2. QED
      BY <1>1, <1>b, <3>1 DEF UpsertInstances, Syncs
  <2>2. QED
    BY <1>1, <1>a, <1>b, <2>1 DEF UpsertInstances, ATypeOK, TypeOK, cloud, dns
<1>2. CASE GetInstanceVNICs
  <2>1. sync' \in Syncs
    <3>1. CASE SyncEnds
      BY <3>1, <1>b, SyncEndsType
    <3>2. CASE \E a \in {ip} \cup (IF releasing THEN {NoIP} ELSE {}) :
                  sync' = [sync EXCEPT !.pc = "upsert", !.seen = a]
      <4>1. PICK a \in IPs : sync' = [sync EXCEPT !.pc = "upsert", !.seen = a]
        BY <3>2, <1>a, <1>b DEF TypeOK
      <4>2. QED
        BY <4>1, <1>b DEF Syncs
    <3>3. QED
      BY <1>2, <3>1, <3>2 DEF GetInstanceVNICs
  <2>2. budget' \in [Disturbances -> Nat]
    BY <1>2, <1>a, <1>b, SpendStep DEF GetInstanceVNICs, TypeOK
  <2>3. QED
    BY <1>2, <1>b, <2>1, <2>2 DEF GetInstanceVNICs, ATypeOK, TypeOK, cloud, dns
<1>3. CASE UpsertVNIC
  <2>1. sync' \in Syncs
    BY <1>3, <1>b, SyncEndsType DEF UpsertVNIC
  <2>2. db' \in IPs /\ budget' \in [Disturbances -> Nat]
    BY <1>3, <1>a, <1>b, SpendStep DEF UpsertVNIC, TypeOK, Syncs
  <2>3. QED
    BY <1>3, <1>b, <2>1, <2>2 DEF UpsertVNIC, ATypeOK, TypeOK, cloud, dns
<1>4. QED
  BY <1>1, <1>2, <1>3 DEF handleSync

\* So does the DNS auto-sync, and its panic.
LEMMA AutoSyncType ==
    ASSUME ATypeOK, runDNSAutoSync \/ AutoPanic
    PROVE  ATypeOK'
<1>a. {"refuse", "fault", "kill"} \subseteq Disturbances
  BY DEF Disturbances
<1>b. /\ TypeOK /\ last \in IPs /\ sync \in Syncs /\ auto \in Autos
      /\ auto.addr \in IPs /\ auto.rec \in 0..MaxRecords
  BY DEF ATypeOK, Autos
<1>1. CASE ListInstances
  <2>1. auto' \in Autos
    BY <1>1, <1>b, AutoIdleType DEF ListInstances, Autos, TypeOK
  <2>2. QED
    BY <1>1, <1>b, <2>1 DEF ListInstances, ATypeOK, TypeOK, vars
<1>2. CASE FindRecord
  <2>1. PICK i \in 0..MaxRecords, p \in {"save", "put"} :
           auto' = [auto EXCEPT !.rec = i, !.pc = p]
    BY <1>2 DEF FindRecord
  <2>2. auto' \in Autos
    BY <2>1, <1>b DEF Autos
  <2>3. QED
    BY <1>2, <1>b, <2>2 DEF FindRecord, ATypeOK, TypeOK, vars
<1>3. CASE WriteRecord
  <2>1. auto' \in Autos
    <3>1. [auto EXCEPT !.pc = "save"] \in Autos
      BY <1>b DEF Autos
    <3>2. QED
      BY <1>3, <3>1, <1>b, ErredType DEF WriteRecord
  <2>2. records' \subseteq Records /\ made' \in 0..MaxRecords
    <3>1. CASE auto.rec = 0
      BY <1>3, <3>1, <1>b, CreateRecordType DEF WriteRecord, TypeOK
    <3>2. CASE auto.rec # 0
      <4>1. auto.rec \in 1..MaxRecords
        BY <3>2, <1>b, ConstantFacts
      <4>2. QED
        BY <1>3, <3>2, <4>1, <1>b, UpdateRecordType DEF WriteRecord, TypeOK
    <3>3. QED
      BY <3>1, <3>2
  <2>3. QED
    BY <1>3, <1>b, <2>1, <2>2 DEF WriteRecord, ATypeOK, TypeOK, cloud
<1>4. CASE AutoFails
  BY <1>4, <1>a, <1>b, ErredType, SpendStep DEF AutoFails, ATypeOK, TypeOK, cloud, dns
<1>5. CASE UpdateInstanceDNSIP
  BY <1>5, <1>a, <1>b, AutoIdleType, SpendStep
     DEF UpdateInstanceDNSIP, ATypeOK, TypeOK, cloud, dns
<1>6. CASE AutoPanic
  BY <1>6, <1>a, <1>b, AutoIdleType, SpendStep DEF AutoPanic, ATypeOK, TypeOK, cloud, dns
<1>7. QED
  BY <1>1, <1>2, <1>3, <1>4, <1>5, <1>6 DEF runDNSAutoSync

\* So does every step of the callers and the two syncs.
LEMMA ATypeStep == ATypeOK /\ [ANext]_avars => ATypeOK'
<1> SUFFICES ASSUME ATypeOK, [ANext]_avars PROVE ATypeOK'
  OBVIOUS
<1>a. TypeOK /\ last \in IPs /\ sync \in Syncs /\ auto \in Autos
  BY DEF ATypeOK
<1>1. CASE Running /\ UNCHANGED <<last, sync, auto>>
  BY <1>1, <1>a, RunningStep, TypeStep DEF ATypeOK
<1>2. CASE Restart /\ SyncEnds /\ auto' = AutoIdle /\ UNCHANGED last
  BY <1>2, <1>a, RunningStep, TypeStep, SyncEndsType, AutoIdleType DEF ATypeOK
<1>3. CASE UNCHANGED avars
  BY <1>3, <1>a, RunningStep, TypeStep DEF ATypeOK, avars
<1>4. QED
  BY <1>1, <1>2, <1>3, HandleSyncType, AutoSyncType DEF ANext

\* Budgets never rise, with the syncs or without.
LEMMA AWithinBudgetStep ==
    ASSUME ATypeOK, WithinBudget, [ANext]_avars
    PROVE  WithinBudget' /\ \A d \in Disturbances : budget'[d] <= budget[d]
<1>a. TypeOK /\ budget \in [Disturbances -> Nat] /\ Budget \in [Disturbances -> Nat]
      /\ budget' \in [Disturbances -> Nat]
  BY ATypeStep, ConstantFacts DEF ATypeOK, TypeOK
<1>b. {"refuse", "fault", "kill"} \subseteq Disturbances
  BY DEF Disturbances
<1>1. \A d \in Disturbances : budget'[d] <= budget[d]
  <2>1. CASE Running \/ Restart \/ UNCHANGED vars
    BY <2>1, <1>a, RunningStep, BudgetStep
  <2>2. CASE handleSync \/ runDNSAutoSync \/ AutoPanic
    <3>1. CASE UNCHANGED budget
      BY <3>1, <1>a
    <3>2. QED
      BY <2>2, <3>1, <1>a, <1>b, SyncSteps, SpendStep
  <2>3. QED
    BY <2>1, <2>2 DEF ANext, avars
<1>2. QED
  BY <1>1, <1>a DEF WithinBudget

\* The address last written is shown, and so is the one about to be saved.
Unbroken == ~Bound /\ WithDNS = {} /\ Untouched({"fault", "kill"})

LastShown ==
    /\ WithDNS = {} => \A c \in Callers : call[c].pc \notin Publishing \ {"db"}
    /\ Unbroken => /\ auto.pc = "save" => Shown(auto.addr)
                   /\ auto.pc # "save" /\ last # NoIP => Shown(last)

\* A write that Cloudflare accepts shows the address; another changes nothing.
LEMMA WriteShows ==
    ASSUME NEW i, NEW a, IF i = 0 THEN CreateRecord(a) ELSE UpdateRecord(i, a)
    PROVE  IF Accepted(i, a) THEN Shown(a)' ELSE records' = records
<1>1. CASE i = 0
  <2>1. CASE Shown(a)
    BY <1>1, <2>1 DEF Accepted, CreateRecord, dns
  <2>2. CASE ~Shown(a)
    <3>1. [id |-> made + 1, ip |-> a] \in records'
      BY <1>1, <2>2 DEF CreateRecord
    <3>2. Accepted(i, a)
      BY <1>1, <2>2 DEF Accepted
    <3>3. QED
      BY <3>1, <3>2 DEF Shown
  <2>3. QED
    BY <2>1, <2>2
<1>2. CASE i # 0 /\ HasRecord(i) /\ ~Shown(a)
  <2>1. records' = {r \in records : r.id # i} \cup {[id |-> i, ip |-> a]}
    BY <1>2 DEF UpdateRecord
  <2>2. Accepted(i, a)
    BY <1>2 DEF Accepted, Shown
  <2>3. [id |-> i, ip |-> a] \in records'
    BY <2>1
  <2>4. QED
    BY <2>2, <2>3 DEF Shown
<1>3. CASE i # 0 /\ (~HasRecord(i) \/ Shown(a))
  <2>1. records' = records
    BY <1>3 DEF UpdateRecord
  <2>2. Accepted(i, a) => Shown(a)
    BY <1>3 DEF Accepted
  <2>3. QED
    BY <2>1, <2>2 DEF Shown
<1>4. QED
  BY <1>1, <1>2, <1>3

\* Callers that do not publish leave the records alone, and never come to where
\* they would not.
LEMMA CallersQuiet ==
    ASSUME TypeOK, [Next]_vars, WithDNS = {},
           \A c \in Callers : call[c].pc \notin Publishing \ {"db"}
    PROVE  records' = records /\ \A c \in Callers : call'[c].pc \notin Publishing \ {"db"}
<1> DEFINE Quiet(d) == call[d].pc \notin {"dns", "unlink", "link", "put"}
<1>a. \A d \in Callers : Quiet(d) /\ (Quiet(d)' <=> call'[d].pc \notin Publishing \ {"db"})
  BY DEF Publishing
<1>b. call \in [Callers -> Calls]
  BY DEF TypeOK
<1> SUFFICES records' = records /\ \A d \in Callers : Quiet(d)'
  BY <1>a
<1>1. ASSUME NEW c \in Callers, Quiet(c)', \A d \in Callers \ {c} : call'[d] = call[d]
      PROVE  \A d \in Callers : Quiet(d)'
  BY <1>1, <1>a
<1>2. CASE UNCHANGED vars \/ Release
  BY <1>2, <1>a DEF vars, Release, dns
<1>3. CASE User \/ \E t \in Tasks : Loop(t) \/ LoopEnds(t)
  <2>1. records' = records
    BY <1>3 DEF User, Add, SetPaused, Delete, stopChangeIp, Cancel, Loop, Attempt, SkipPaused,
       LoopEnds, UpdateInstance, dns
  <2>2. ASSUME NEW c \in ChangeTasks, Begins(c) PROVE \A d \in Callers : Quiet(d)'
    <3>1. c \in Callers
      BY DEF Callers
    <3>2. Quiet(c)' /\ \A d \in Callers \ {c} : call'[d] = call[d]
      BY <2>2, <3>1, <1>b DEF Begins, NoCall
    <3>3. QED
      BY <3>1, <3>2, <1>1
  <2>3. QED
    BY <1>3, <2>1, <2>2, <1>a, LoopStep
<1>4. ASSUME NEW c \in Callers, Request(c) PROVE records' = records /\ \A d \in Callers : Quiet(d)'
  <2>1. records' = records /\ Quiet(c)'
    BY <1>4, RequestStep DEF Request, dns
  <2>2. QED
    BY <1>4, <2>1, <1>1, RequestStep
<1>5. ASSUME NEW c \in Callers, ChangeInstanceIP(c) \/ Publish(c) \/ Panic(c)
      PROVE  records' = records /\ \A d \in Callers : Quiet(d)'
  <2>1. \A d \in Callers \ {c} : call'[d] = call[d]
    BY <1>5, AttemptStep DEF Proceeds
  <2> SUFFICES records' = records /\ Quiet(c)'
    BY <2>1, <1>1
  <2>2. CASE TenantMissing(c) \/ CallFails(c) \/ WaitTimesOut(c) \/ Discarded(c) \/ WriteDB(c)
    BY <2>2, EndPC DEF TenantMissing, CallFails, WaitTimesOut, Discarded, WriteDB, dns
  <2>3. CASE Look(c) \/ Gone(c) \/ DeleteOld(c)
    BY <2>3, GotoPC DEF Look, Gone, DeleteOld, dns
  <2>4. CASE Resolve(c)
    <3>1. ASSUME call' = [call EXCEPT ![c].pc = "delete", ![c].target = ip] PROVE Quiet(c)'
      BY <3>1, <1>b DEF Calls
    <3>2. QED
      BY <2>4, <3>1, EndPC DEF Resolve, dns
  <2>5. CASE Create(c)
    <3>1. ASSUME call' = [call EXCEPT ![c].pc = "filter", ![c].got = NextIP] PROVE Quiet(c)'
      BY <3>1, <1>b DEF Calls
    <3>2. QED
      BY <2>5, <3>1, EndPC DEF Create, dns
  <2>6. CASE Accept(c)
    <3>1. call'[c].pc = "db"
      BY <2>6, GotoPC DEF Accept
    <3>2. QED
      BY <2>6, <3>1 DEF Accept, dns
  <2>7. CASE Discard(c)
    BY <2>7, GotoPC, EndPC DEF Discard, dns
  <2>8. CASE ListRecords(c) \/ Unlink(c) \/ Link(c) \/ Put(c) \/ DNSFails(c)
    BY <2>8, <1>a DEF ListRecords, Unlink, Link, Put, DNSFails
  <2>9. CASE Panic(c)
    BY <2>9, <1>b DEF Panic, Return, NoCall, dns
  <2>10. QED
    BY <1>5, <2>2, <2>3, <2>4, <2>5, <2>6, <2>7, <2>8, <2>9 DEF ChangeInstanceIP, Publish
<1>6. CASE Restart
  <2>1. \A d \in Callers : call'[d].pc \in {"idle", "done"}
    BY <1>6 DEF Restart, NoCall, InProgress
  <2>2. QED
    BY <1>6, <2>1 DEF Restart, dns
<1>7. QED
  BY <1>2, <1>3, <1>4, <1>5, <1>6 DEF Next, Running

\* A step leaves what is saved or about to be saved shown, unless a run breaks
\* off in it.
LEMMA LastShownStep ==
    ATypeOK /\ WithinBudget /\ LastShown /\ [ANext]_avars => LastShown'
<1> SUFFICES ASSUME ATypeOK, WithinBudget, LastShown, [ANext]_avars PROVE LastShown'
  OBVIOUS
<1>a. TypeOK /\ budget \in [Disturbances -> Nat]
  BY DEF ATypeOK, TypeOK
<1>b. Unbroken' => Unbroken /\ ~Spend("fault") /\ ~Spend("kill")
  <2>1. \A d \in {"fault", "kill"} : /\ d \in Disturbances
           /\ budget[d] \in Nat /\ Budget[d] \in Nat /\ budget'[d] \in Nat
           /\ budget'[d] <= budget[d] /\ budget[d] <= Budget[d]
    BY <1>a, ATypeStep, AWithinBudgetStep, ConstantFacts
       DEF Disturbances, ATypeOK, TypeOK, WithinBudget
  <2>2. \A d \in {"fault", "kill"} : Spend(d) => budget'[d] = budget[d] - 1
    BY <2>1, <1>a, SpendStep
  <2>3. QED
    BY <2>1, <2>2 DEF Unbroken, Untouched
<1>c. Unbroken => /\ auto.pc = "save" => Shown(auto.addr)
                  /\ auto.pc # "save" /\ last # NoIP => Shown(last)
  BY DEF LastShown
<1>d. ASSUME Running \/ Restart \/ UNCHANGED vars
      PROVE  /\ WithDNS = {} => \A c \in Callers : call'[c].pc \notin Publishing \ {"db"}
             /\ WithDNS = {} => records' = records
  BY <1>d, <1>a, RunningStep, CallersQuiet DEF LastShown
<1>1. CASE (Running /\ UNCHANGED <<last, sync, auto>>) \/ UNCHANGED avars
  <2>1. UNCHANGED <<last, auto>>
    BY <1>1 DEF avars
  <2>2. QED
    BY <1>1, <2>1, <1>b, <1>c, <1>d DEF LastShown, Unbroken, Shown, avars
<1>2. CASE Restart /\ SyncEnds /\ auto' = AutoIdle /\ UNCHANGED last
  BY <1>2, <1>b, <1>d DEF LastShown, Restart
<1>3. ASSUME handleSync \/ runDNSAutoSync \/ AutoPanic
      PROVE  WithDNS = {} => \A c \in Callers : call'[c].pc \notin Publishing \ {"db"}
  BY <1>3, SyncSteps DEF LastShown
<1>4. CASE handleSync
  <2>1. UNCHANGED <<last, auto, records>>
    BY <1>4 DEF handleSync, UpsertInstances, GetInstanceVNICs, UpsertVNIC, dns
  <2>2. QED
    BY <1>3, <1>4, <2>1, <1>b, <1>c DEF LastShown, Shown
<1>5. CASE AutoPanic
  BY <1>3, <1>5, <1>b DEF LastShown, AutoPanic
<1>6. CASE runDNSAutoSync
  <2> SUFFICES ASSUME Unbroken'
               PROVE  /\ auto'.pc = "save" => Shown(auto.addr)'
                      /\ auto'.pc # "save" /\ last' # NoIP => Shown(last)'
    BY <1>3, <1>6 DEF LastShown, Shown
  <2>a. Unbroken /\ ~Bound /\ ~Spend("fault") /\ auto \in Autos
    BY <1>b DEF Unbroken, ATypeOK
  <2>1. CASE ListInstances
    BY <2>1, <2>a, <1>c DEF ListInstances, AutoIdle, vars, Shown
  <2>2. CASE FindRecord
    <3>1. PICK i \in 0..MaxRecords : auto' = [auto EXCEPT !.rec = i, !.pc = "put"]
      BY <2>2, <2>a DEF FindRecord
    <3>2. auto'.pc = "put" /\ auto.pc # "save"
      BY <3>1, <2>2, <2>a DEF Autos, FindRecord
    <3>3. QED
      BY <2>2, <3>2, <2>a, <1>c DEF FindRecord, vars, Shown
  <2>3. CASE WriteRecord
    <3>1. PICK i, a : i = auto.rec /\ a = auto.addr
      OBVIOUS
    <3>2. IF i = 0 THEN CreateRecord(a) ELSE UpdateRecord(i, a)
      BY <2>3, <3>1 DEF WriteRecord
    <3>3. IF Accepted(i, a) THEN Shown(a)' ELSE records' = records
      BY <3>2, WriteShows
    <3>4. CASE Accepted(i, a)
      <4>1. auto'.pc = "save" /\ auto'.addr = a
        BY <2>3, <3>1, <3>4, <2>a DEF WriteRecord, Autos
      <4>2. \E r \in records' : r.ip = a
        BY <3>3, <3>4 DEF Shown
      <4>3. QED
        BY <4>1, <4>2 DEF Shown
    <3>5. CASE ~Accepted(i, a)
      <4>1. auto' = AutoIdle /\ records' = records /\ last' = last
        BY <2>3, <3>1, <3>3, <3>5, <2>a DEF WriteRecord, Erred
      <4>2. auto.pc # "save"
        BY <2>3 DEF WriteRecord
      <4>3. QED
        BY <4>1, <4>2, <2>a, <1>c DEF AutoIdle, Shown
    <3>6. QED
      BY <3>4, <3>5
  <2>4. CASE AutoFails
    BY <2>4, <2>a, <1>c DEF AutoFails, Erred, AutoIdle, Shown, dns
  <2>5. CASE UpdateInstanceDNSIP
    BY <2>5, <2>a, <1>c DEF UpdateInstanceDNSIP, AutoIdle, Shown, dns
  <2>6. QED
    BY <1>6, <2>1, <2>2, <2>3, <2>4, <2>5 DEF runDNSAutoSync
<1>7. QED
  BY <1>1, <1>2, <1>4, <1>5, <1>6 DEF ANext

\* What is proved together of the callers and the two syncs.
AInv == ATypeOK /\ WithinBudget /\ LastShown

\* It holds to begin with.
LEMMA AInitHolds == AInit => AInv
<1> SUFFICES ASSUME AInit PROVE AInv
  OBVIOUS
<1>1. TypeOK /\ WithinBudget
  BY InitHolds DEF AInit, IInv
<1>2. last \in IPs
  BY ConstantFacts DEF AInit
<1>3. sync \in Syncs /\ auto \in Autos
  <2>1. [pc |-> "idle", seen |-> NoIP, left |-> MaxSyncs] \in Syncs
    BY ConstantFacts, AddressSyncAssumption DEF Syncs
  <2>2. QED
    BY <2>1, AutoIdleType DEF AInit
<1>4. LastShown
  <2>1. \A c \in Callers : call[c].pc = "idle"
    BY DEF AInit, Init, NoCall
  <2>2. auto.pc = "idle" /\ (last # NoIP => Shown(last))
    BY DEF AInit, AutoIdle
  <2>3. QED
    BY <2>1, <2>2 DEF LastShown, Publishing
<1>5. QED
  BY <1>1, <1>2, <1>3, <1>4 DEF AInv, ATypeOK

\* And every step preserves it.
LEMMA AInductive == ASpec => []AInv
<1>1. AInv /\ [ANext]_avars => AInv'
  BY ATypeStep, AWithinBudgetStep, LastShownStep DEF AInv
<1>2. QED
  BY <1>1, AInitHolds, PTL DEF ASpec

\* Next to the two syncs, too, every reachable state has the declared types.
THEOREM SyncsTypeCorrect == ASpec => []ATypeOK
<1>1. AInv => ATypeOK
  BY DEF AInv
<1>2. QED
  BY <1>1, AInductive, PTL

\* Without a binding the address that runDNSAutoSync has saved as the last one
\* is one that the DNS shows, unless a run broke off.
THEOREM SavedAddressIsShown == ASpec => []LastHonest
<1>1. AInv => LastHonest
  BY DEF AInv, LastShown, LastHonest, Unbroken
<1>2. QED
  BY <1>1, AInductive, PTL

=============================================================================
