----------------------------- MODULE TaskWorker -----------------------------
(***************************************************************************)
(* The background task worker: the tasks table, the worker goroutine that   *)
(* claims pending rows, the runner goroutines it starts, the HTTP handlers  *)
(* that submit, stop, pause, resume and edit tasks, and the process itself, *)
(* which is shut down, killed and started again.                            *)
(*                                                                         *)
(* SQLite is opened with a single connection, so the statements of all     *)
(* goroutines are serialised: an action is one statement together with the *)
(* in-memory work up to the next one.                                       *)
(***************************************************************************)
EXTENDS Integers, FiniteSets

CONSTANTS
    MaxTasks,       \* bound: rows the tasks table may receive
    MaxItems,       \* bound: instances one batch may name
    MaxTenants,     \* bound: tenants one multi-tenant request may name
    MaxTries,       \* bound: handled stops counting here
    Runners,        \* bound: runner goroutines alive at the same time
    MaxConcurrent,  \* capacity of batchSem (5 in the code)
    PendingLimit,   \* LIMIT of ListPendingTasks (50 in the code)
    Budget          \* bound: how often each disturbance may happen

Disturbances ==
    {"user", "resume", "edit", "panic", "wpanic", "fault", "crash", "shutdown"}

ASSUME BoundsAssumption ==
    /\ MaxTasks \in Nat \ {0}
    /\ MaxItems \in Nat \ {0}
    /\ MaxTenants \in Nat \ {0}
    /\ MaxTries \in Nat \ {0}
    /\ MaxConcurrent \in Nat \ {0}
    /\ PendingLimit \in Nat \ {0}
ASSUME BudgetAssumption == Budget \in [Disturbances -> Nat]

Tasks == 1..MaxTasks
Items == 0..(MaxItems - 1)

Kinds    == {"batch_start", "batch_create", "batch_create_multi"}
Statuses == {"absent", "pending", "running", "paused", "cancelled",
             "completed", "failed"}
Terminal == {"completed", "failed"}

\* What a runner needs of the JSON payload: CompletedIndex, the number of
\* instances, and whether it still names a tenant.
Payloads == [next : Nat, size : 0..MaxItems, tenant : BOOLEAN]

\* "of" is not a column: it remembers which request row a child came from.
Jobs == [kind : Kinds, parent : Nat, of : 0..MaxTasks]

RunnerStates == {"free", "sem", "prepare", "loop", "check", "mark", "call",
                 "report", "save", "sleep", "park", "yield"}

\* A goroutine's place in its code, its task, the loop variable, and the
\* payload it was started with; "ok" is the outcome of its last OCI call.
RunnerRecords == [pc : RunnerStates, task : 0..MaxTasks, idx : Nat,
                  size : 0..MaxItems, tenant : BOOLEAN, ok : BOOLEAN]

\* The request being fanned out: children left to insert, their size, the
\* parent id they get, and the row the request really created.
Fans == [left : Nat, size : 0..MaxItems, parent : Nat, of : 0..MaxTasks]

VARIABLES
    \* the tasks table, which survives a crash
    rows, job, status, payload,
    \* the process: worker goroutine, its current scan, main's shutdown,
    \* the runners, and a multi-tenant request being fanned out
    wpc, scan, shut, run, fan,
    \* observation: how often each instance of a task was taken to OCI, and
    \* the disturbances still to come
    handled, budget

dbVars   == <<rows, job, status, payload>>
procVars == <<wpc, scan, shut, run, fan>>
vars     == <<rows, job, status, payload, wpc, scan, shut, run, fan,
              handled, budget>>

FreeRunner == [pc |-> "free", task |-> 0, idx |-> 0, size |-> 0,
               tenant |-> FALSE, ok |-> FALSE]
NoFan      == [left |-> 0, size |-> 0, parent |-> 0, of |-> 0]
NoJob      == [kind |-> "batch_start", parent |-> 0, of |-> 0]
NoPayload  == [next |-> 0, size |-> 0, tenant |-> FALSE]

Init ==
    /\ rows = 0
    /\ job = [t \in Tasks |-> NoJob]
    /\ status = [t \in Tasks |-> "absent"]
    /\ payload = [t \in Tasks |-> NoPayload]
    /\ wpc = "boot"
    /\ scan = {}
    /\ shut = "no"
    /\ run = [r \in Runners |-> FreeRunner]
    /\ fan = NoFan
    /\ handled = [t \in Tasks |-> [i \in Items |-> 0]]
    /\ budget = Budget

-----------------------------------------------------------------------------
(* Statements of the store.  A statement of the worker or of a runner may  *)
(* fail ("fault"): the code logs the error and carries on without it.       *)

Spend(d) ==
    /\ budget[d] > 0
    /\ budget' = [budget EXCEPT ![d] = @ - 1]

Fault == Spend("fault")

\* UpdateTaskStatus: no condition on the status the row had.
SetStatus(t, s) ==
    \/ status' = [status EXCEPT ![t] = s] /\ UNCHANGED budget
    \/ Fault /\ UNCHANGED status

\* Mutations of Reset, used only to test the properties.
Reset_Forgotten(st) == st
Reset_UnknownStatus(st) ==
    [t \in Tasks |-> IF st[t] = "running" THEN "interrupted" ELSE st[t]]

\* ResetRunningTasks
Reset(st) == [t \in Tasks |-> IF st[t] = "running" THEN "pending" ELSE st[t]]

ResetRunningTasks ==
    \/ status' = Reset(status) /\ UNCHANGED budget
    \/ Fault /\ UNCHANGED status

\* ListPendingTasks: the first PendingLimit pending rows in id order, with
\* the payload they have now.
Pending == {t \in Tasks : status[t] = "pending"}

ListPendingTasks ==
    {[task |-> t, payload |-> payload[t]] :
        t \in {u \in Pending :
                 Cardinality({v \in Pending : v < u}) < PendingLimit}}

\* Mutation of Claimable, used only to test the properties.
Claimable_Unguarded(t) == TRUE

\* ClaimTask's WHERE status='pending' ...
Claimable(t) == status[t] = "pending"

\* Mutation of Claimed, used only to test the properties.
Claimed_NotMarked(t) == status

\* ... and its SET status='running'
Claimed(t) == [status EXCEPT ![t] = "running"]

\* CreateTask never writes the new row's id back into its argument, so the
\* caller goes on with the zero value.
CreatedID == 0

CreateTask(k, st, n, p, o) ==
    /\ rows < MaxTasks
    /\ rows' = rows + 1
    /\ job' = [job EXCEPT ![rows + 1] = [kind |-> k, parent |-> p, of |-> o]]
    /\ status' = [status EXCEPT ![rows + 1] = st]
    /\ payload' = [payload EXCEPT ![rows + 1] =
                      [next |-> 0, size |-> n, tenant |-> TRUE]]

-----------------------------------------------------------------------------
(* HTTP handlers.                                                           *)

BatchStart(n) ==
    /\ CreateTask("batch_start", "pending", n, 0, 0)
    /\ UNCHANGED <<procVars, handled, budget>>

BatchCreateSingle(n) ==
    /\ CreateTask("batch_create", "pending", n, 0, 0)
    /\ UNCHANGED <<procVars, handled, budget>>

\* The parent row of a multi-tenant request; one such request at a time, and
\* only if its rows fit, are bounds of the model.
BatchCreateMulti(n, tenants) ==
    /\ fan = NoFan
    /\ rows + 1 + tenants <= MaxTasks
    /\ CreateTask("batch_create_multi", "running", n, 0, 0)
    /\ fan' = [left |-> tenants, size |-> n, parent |-> CreatedID, of |-> rows + 1]
    /\ UNCHANGED <<wpc, scan, shut, run, handled, budget>>

\* One child row of the request in flight.
FanOut ==
    /\ fan.left > 0
    /\ CreateTask("batch_create", "pending", fan.size, fan.parent, fan.of)
    /\ fan' = IF fan.left = 1 THEN NoFan ELSE [fan EXCEPT !.left = @ - 1]
    /\ UNCHANGED <<wpc, scan, shut, run, handled, budget>>

\* An insert fails: the handler answers with the error, the rows it has
\* already inserted stay.
FanOutFails ==
    /\ fan.left > 0
    /\ Fault
    /\ fan' = NoFan
    /\ UNCHANGED <<dbVars, wpc, scan, shut, run, handled>>

UserWrites(t, s) ==
    /\ t <= rows
    /\ status' = [status EXCEPT ![t] = s]
    /\ UNCHANGED <<rows, job, payload, procVars, handled>>

Stop(t)   == UserWrites(t, "cancelled") /\ Spend("user")
Pause(t)  == UserWrites(t, "paused") /\ Spend("user")
Resume(t) == UserWrites(t, "pending") /\ Spend("resume")

\* A PUT replaces the whole payload of whatever row it names.  What the edit
\* dialog sends has neither a completedIndex nor a tenant_id; an API client may
\* name the tenant.  That one states a completedIndex of its own is left out.
Edit(t, n, tenant) ==
    /\ t <= rows
    /\ Spend("edit")
    /\ payload' = [payload EXCEPT ![t] = [next |-> 0, size |-> n, tenant |-> tenant]]
    /\ UNCHANGED <<rows, job, status, procVars, handled>>

-----------------------------------------------------------------------------
(* The worker goroutine.  Its poll timer fires every five seconds, so a    *)
(* scan may start whenever the loop is idle; Notify only makes it sooner.   *)

\* Run, up to its loop: every running row goes back to pending.
Boot ==
    /\ wpc = "boot"
    /\ ResetRunningTasks
    /\ wpc' = "ready"
    /\ UNCHANGED <<rows, job, payload, scan, shut, run, fan, handled>>

\* processNext lists the pending rows.  select takes any ready case, so this
\* may happen after stop was closed too.
Scan ==
    /\ wpc = "ready" /\ scan = {}
    /\ Pending # {}
    /\ scan' = ListPendingTasks
    /\ UNCHANGED <<dbVars, wpc, shut, run, fan, handled, budget>>

Front(e) == e \in scan /\ \A f \in scan : e.task <= f.task

ClaimMisses(e) ==
    /\ ~Claimable(e.task)
    /\ scan' = scan \ {e}
    /\ UNCHANGED <<dbVars, wpc, shut, run, fan, handled, budget>>

\* A claim that errs ends processNext.
ClaimFails ==
    /\ Fault
    /\ scan' = {}
    /\ UNCHANGED <<dbVars, wpc, shut, run, fan, handled>>

\* Mutation of StartIndex, used only to test the properties.
StartIndex_Zero(e) == 0

\* for i := payload.CompletedIndex; ...
StartIndex(e) == e.payload.next

\* go runWithSem(t, ...), with t as the scan read it
ClaimBatch(e, r) ==
    /\ Claimable(e.task)
    /\ job[e.task].kind # "batch_create_multi"
    /\ run[r].pc = "free"
    /\ status' = Claimed(e.task)
    /\ scan' = scan \ {e}
    /\ run' = [run EXCEPT ![r] =
                 [pc |-> "sem", task |-> e.task, idx |-> StartIndex(e),
                  size |-> e.payload.size, tenant |-> e.payload.tenant,
                  ok |-> FALSE]]
    /\ UNCHANGED <<rows, job, payload, wpc, shut, fan, handled, budget>>

ClaimParent(e) ==
    /\ Claimable(e.task)
    /\ job[e.task].kind = "batch_create_multi"
    /\ status' = Claimed(e.task)
    /\ wpc' = "parent"
    /\ UNCHANGED <<rows, job, payload, scan, shut, run, fan, handled, budget>>

Claim ==
    /\ wpc = "ready"
    /\ \E e \in scan :
         /\ Front(e)
         /\ \/ ClaimMisses(e)
            \/ ClaimFails
            \/ \E r \in Runners : ClaimBatch(e, r)
            \/ ClaimParent(e)

\* The second statement for a claimed parent row: "0 tenants done".
MarkParent ==
    /\ wpc = "parent"
    /\ \E e \in scan :
         /\ Front(e)
         /\ SetStatus(e.task, "running")
         /\ scan' = scan \ {e}
    /\ wpc' = "ready"
    /\ UNCHANGED <<rows, job, payload, shut, run, fan, handled>>

\* case <-w.stop
WorkerStop ==
    /\ wpc = "ready" /\ scan = {}
    /\ shut # "no"
    /\ wpc' = "stopped"
    /\ UNCHANGED <<dbVars, scan, shut, run, fan, handled, budget>>

\* A panic in processNext: after the back-off Run starts over, with the
\* runners of the old incarnation still alive.
WorkerPanic ==
    /\ wpc \in {"ready", "parent"} /\ scan # {}
    /\ Spend("wpanic")
    /\ wpc' = "boot"
    /\ scan' = {}
    /\ UNCHANGED <<dbVars, shut, run, fan, handled>>

-----------------------------------------------------------------------------
(* A runner goroutine: runWithSem around runBatchStart or runBatchCreate.  *)

Holders == {r \in Runners : run[r].pc \notin {"free", "sem"}}

Goto(r, p) == run' = [run EXCEPT ![r].pc = p]
Leave(r)   == run' = [run EXCEPT ![r] = FreeRunner]

\* maybeUpdateParent, applied to the statuses the runner's own write left.
\* (Its read and its write are statements of their own, but with p = 0, the
\* only value there is, neither is executed.)
maybeUpdateParent(p, st) ==
    LET kids == {c \in 1..rows : job[c].parent = p}
        done == {c \in kids : st[c] \in Terminal}
    IN  IF p <= 0 \/ kids = {} THEN st
        ELSE [st EXCEPT ![p] = IF done = kids THEN "completed" ELSE "running"]

\* The last write of a runner that ends its task.
Finish(r, s) ==
    LET t == run[r].task
    IN  /\ \/ /\ status' = maybeUpdateParent(job[t].parent,
                                             [status EXCEPT ![t] = s])
              /\ UNCHANGED budget
           \/ Fault /\ UNCHANGED status
        /\ Leave(r)
        /\ UNCHANGED <<rows, job, payload, wpc, scan, shut, fan, handled>>

Acquire(r) ==
    /\ run[r].pc = "sem"
    /\ Cardinality(Holders) < MaxConcurrent
    /\ Goto(r, "prepare")
    /\ UNCHANGED <<dbVars, wpc, scan, shut, fan, handled, budget>>

\* GetTenant and newClient.  The tenant may have been deleted and its key
\* unreadable, whatever the payload says.
Prepare(r) ==
    /\ run[r].pc = "prepare"
    /\ run[r].tenant
    /\ Goto(r, "loop")
    /\ UNCHANGED <<dbVars, wpc, scan, shut, fan, handled, budget>>

PrepareFails(r) ==
    /\ run[r].pc = "prepare"
    /\ Finish(r, "failed")

\* Mutation of Exhausted, used only to test the properties.
Exhausted_OffByOne(r) == run[r].idx + 1 >= run[r].size

\* for ...; i < total; ...
Exhausted(r) == run[r].idx >= run[r].size

\* Mutation of Interrupted, used only to test the properties.
Interrupted_Never == FALSE

\* case <-w.stop
Interrupted == shut # "no"

\* The head of the item loop.  Whatever happens between its test of w.stop and
\* its read of the status, even a shutdown's reset and a second claim, the
\* goroutine sees only what the read returns.
NextItem(r) ==
    /\ run[r].pc = "loop"
    /\ ~Exhausted(r)
    /\ Goto(r, IF Interrupted THEN "park" ELSE "check")
    /\ UNCHANGED <<dbVars, wpc, scan, shut, fan, handled, budget>>

taskIsActive(r) ==
    /\ run[r].pc = "check"
    /\ \/ status[run[r].task] = "running" /\ Goto(r, "mark") /\ UNCHANGED budget
       \/ status[run[r].task] # "running" /\ Goto(r, "park") /\ UNCHANGED budget
       \/ Fault /\ Goto(r, "park")
    /\ UNCHANGED <<dbVars, wpc, scan, shut, fan, handled>>

Complete(r) ==
    /\ run[r].pc = "loop"
    /\ Exhausted(r)
    /\ Finish(r, "completed")

Mark(r) ==
    /\ run[r].pc = "mark"
    /\ SetStatus(run[r].task, "running")
    /\ Goto(r, "call")
    /\ UNCHANGED <<rows, job, payload, wpc, scan, shut, fan, handled>>

\* LaunchInstance, or GetInstance and InstanceAction.  A timeout or an error
\* may hide an effect that did happen: handled counts what was tried.
Call(r, ok) ==
    /\ run[r].pc = "call"
    /\ handled' = [handled EXCEPT ![run[r].task][run[r].idx] =
                      IF @ < MaxTries THEN @ + 1 ELSE @]
    /\ run' = [run EXCEPT
                 ![r].ok = ok,
                 ![r].pc = IF ok /\ job[run[r].task].kind = "batch_start"
                           THEN "save" ELSE "report"]
    /\ UNCHANGED <<dbVars, wpc, scan, shut, fan, budget>>

\* "created", "failed", "skip" or "fail" and the item's name
Report(r) ==
    /\ run[r].pc = "report"
    /\ SetStatus(run[r].task, "running")
    /\ Goto(r, "save")
    /\ UNCHANGED <<rows, job, payload, wpc, scan, shut, fan, handled>>

\* Mutation of saveCheckpoint, used only to test the properties.
saveCheckpoint_OffByOne(r, k) ==
    /\ payload' = [payload EXCEPT ![run[r].task] =
                      [next |-> k + 1, size |-> run[r].size, tenant |-> run[r].tenant]]
    /\ UNCHANGED budget

\* saveCheckpoint writes back the payload the runner was started with.
saveCheckpoint(r, k) ==
    \/ /\ payload' = [payload EXCEPT ![run[r].task] =
                        [next |-> k, size |-> run[r].size, tenant |-> run[r].tenant]]
       /\ UNCHANGED budget
    \/ Fault /\ UNCHANGED payload

Save(r) ==
    /\ run[r].pc = "save"
    /\ saveCheckpoint(r, run[r].idx + 1)
    /\ run' = [run EXCEPT
                 ![r].idx = @ + 1,
                 ![r].pc = IF run[r].ok /\ job[run[r].task].kind = "batch_create"
                           THEN "sleep" ELSE "loop"]
    /\ UNCHANGED <<rows, job, status, wpc, scan, shut, fan, handled>>

\* Two seconds, or stop: if both are ready select takes either.
Sleep(r) ==
    /\ run[r].pc = "sleep"
    /\ \/ Goto(r, "loop")
       \/ shut # "no" /\ Goto(r, "park")
    /\ UNCHANGED <<dbVars, wpc, scan, shut, fan, handled, budget>>

Park(r) ==
    /\ run[r].pc = "park"
    /\ saveCheckpoint(r, run[r].idx)
    /\ Goto(r, "yield")
    /\ UNCHANGED <<rows, job, status, wpc, scan, shut, fan, handled>>

\* "interrupted by shutdown" or "paused by user": pending in both cases
Yield(r) ==
    /\ run[r].pc = "yield"
    /\ SetStatus(run[r].task, "pending")
    /\ Leave(r)
    /\ UNCHANGED <<rows, job, payload, wpc, scan, shut, fan, handled>>

\* A panic while building the OCI client or calling it; runWithSem recovers.
RunnerPanic(r) ==
    /\ run[r].pc \in {"prepare", "call"}
    /\ Spend("panic")
    /\ status' = [status EXCEPT ![run[r].task] = "failed"]
    /\ Leave(r)
    /\ UNCHANGED <<rows, job, payload, wpc, scan, shut, fan, handled>>

-----------------------------------------------------------------------------
(* The process.                                                             *)

\* SIGTERM: Shutdown closes w.stop ...
ShutdownSignal ==
    /\ shut = "no"
    /\ Spend("shutdown")
    /\ shut' = "closing"
    /\ UNCHANGED <<dbVars, wpc, scan, run, fan, handled>>

\* ... and resets the running rows, without waiting for anyone.
ShutdownReset ==
    /\ shut = "closing"
    /\ ResetRunningTasks
    /\ shut' = "done"
    /\ UNCHANGED <<rows, job, payload, wpc, scan, run, fan, handled>>

\* The table is all that is left; the container is started again.
Restarted ==
    /\ wpc' = "boot"
    /\ scan' = {}
    /\ shut' = "no"
    /\ run' = [r \in Runners |-> FreeRunner]
    /\ fan' = NoFan
    /\ UNCHANGED <<dbVars, handled>>

Exit  == shut = "done" /\ Restarted /\ UNCHANGED budget
Crash == Spend("crash") /\ Restarted

-----------------------------------------------------------------------------
Sizes == 1..MaxItems

Submit ==
    \/ \E n \in Sizes : BatchStart(n)
    \/ \E n \in Sizes : BatchCreateSingle(n)
    \/ \E n \in Sizes, k \in 1..MaxTenants : BatchCreateMulti(n, k)

User ==
    \E t \in Tasks :
        \/ Stop(t)
        \/ Pause(t)
        \/ Resume(t)
        \/ \E n \in Sizes, b \in BOOLEAN : Edit(t, n, b)

WorkerStep == Scan \/ Claim \/ MarkParent \/ WorkerStop

RunnerStep(r) ==
    \/ Acquire(r)
    \/ Prepare(r)
    \/ PrepareFails(r)
    \/ NextItem(r)
    \/ taskIsActive(r)
    \/ Complete(r)
    \/ Mark(r)
    \/ \E ok \in BOOLEAN : Call(r, ok)
    \/ Report(r)
    \/ Save(r)
    \/ Sleep(r)
    \/ Park(r)
    \/ Yield(r)

ProcessStep == ShutdownSignal \/ ShutdownReset \/ Exit \/ Crash

Next ==
    \/ Submit
    \/ FanOut
    \/ FanOutFails
    \/ User
    \/ Boot
    \/ WorkerStep
    \/ WorkerPanic
    \/ \E r \in Runners : RunnerStep(r) \/ RunnerPanic(r)
    \/ ProcessStep

Spec == Init /\ [][Next]_vars

\* Goroutines are scheduled, timers fire, and every OCI call returns because
\* its context has a deadline.  Users, panics and crashes owe us nothing.
Fairness ==
    /\ WF_vars(FanOut)
    /\ WF_vars(Boot)
    /\ WF_vars(WorkerStep)
    /\ \A r \in Runners : WF_vars(RunnerStep(r))
    /\ WF_vars(ShutdownReset)
    /\ WF_vars(Exit)

FairSpec == Spec /\ Fairness

-----------------------------------------------------------------------------
TypeOK ==
    /\ rows \in 0..MaxTasks
    /\ job \in [Tasks -> Jobs]
    /\ status \in [Tasks -> Statuses]
    /\ payload \in [Tasks -> Payloads]
    /\ wpc \in {"boot", "ready", "parent", "stopped"}
    /\ scan \subseteq [task : Tasks, payload : Payloads]
    /\ shut \in {"no", "closing", "done"}
    /\ run \in [Runners -> RunnerRecords]
    /\ fan \in Fans
    /\ handled \in [Tasks -> [Items -> Nat]]
    /\ budget \in [Disturbances -> Nat]

-----------------------------------------------------------------------------
Spent(d) == Budget[d] - budget[d]

RunnersOf(t) == {r \in Runners : run[r].pc # "free" /\ run[r].task = t}
IsBatch(t)   == job[t].kind # "batch_create_multi"

\* What may cost a batch the instance that is in flight.
Losses == Spent("crash") + Spent("shutdown") + Spent("fault")

\* By the counts h, the first k instances of t were taken to OCI at least once.
HandledUpTo(h, t, k) == \A i \in Items : i < k => h[t][i] > 0

\* Repetitions: what was done for t beyond once per instance.
Redone(t) == {p \in Items \X (2..MaxTries) : p[2] <= handled[t][p[1]]}

\* A checkpoint never runs ahead of the work: wherever a CompletedIndex is
\* kept (the row, the scan's copy, a runner), every instance before it was
\* taken to OCI.  Otherwise a restart would silently skip instances.
CheckpointHonest ==
    /\ \A t \in Tasks : HandledUpTo(handled, t, payload[t].next)
    /\ \A e \in scan : HandledUpTo(handled, e.task, e.payload.next)
    /\ \A r \in Runners : run[r].pc # "free" => HandledUpTo(handled, run[r].task, run[r].idx)

\* A batch is reported completed only when each of its instances was taken
\* to OCI, through all pauses, crashes, restarts and failed writes.  (An edit
\* changes what the row says its size is, so it is exempt.)
CompletedMeansAllHandled ==
    Spent("edit") = 0 =>
        \A t \in Tasks : IsBatch(t) /\ status[t] = "completed"
                            => HandledUpTo(handled, t, payload[t].size)

\* Once the worker has booted, a batch row says running only while a
\* goroutine is at work on it: no early return of a runner, no panic and no
\* race with a user leaves a row that nobody will ever finish.  Only a failed
\* write can.
NoOrphan ==
    wpc # "boot" /\ Spent("fault") = 0 =>
        \A t \in Tasks : IsBatch(t) /\ status[t] = "running" => RunnersOf(t) # {}

\* Checkpoint-resume repeats at most the instance in flight: however often a
\* batch is paused, stopped or interrupted, each crash, shutdown or lost
\* write costs it at most one repetition.  A user's resume, an edit, and a
\* panic of the worker goroutine start a second runner and are exempt.
RepetitionsBounded ==
    Spent("resume") + Spent("edit") + Spent("wpanic") = 0 =>
        \A t \in Tasks : Cardinality(Redone(t)) <= Losses

\* Two goroutines are never at work on one row, as long as nobody resumes a
\* row, the worker goroutine does not panic and no shutdown has begun.
OneRunnerPerTask ==
    Spent("resume") + Spent("wpanic") = 0 /\ shut = "no" =>
        \A t \in Tasks : Cardinality(RunnersOf(t)) <= 1

\* A batch a user has paused or stopped, and that no goroutine works on,
\* keeps that status until a user writes it again: the scan that listed it
\* earlier cannot claim it, and neither a boot nor a shutdown revives it.
IdleStaysStopped ==
    [][\A t \in Tasks :
          /\ IsBatch(t)
          /\ status[t] \in {"paused", "cancelled"}
          /\ RunnersOf(t) = {}
          /\ status'[t] # status[t]
          => budget'["user"] # budget["user"] \/ budget'["resume"] # budget["resume"]]_vars

Again     == [t \in Tasks |-> Cardinality(Redone(t))]
SizeOf    == [t \in Tasks |-> payload[t].size]
Completed == {t \in Tasks : IsBatch(t) /\ status[t] = "completed"}
Edited    == Spent("edit") > 0
Rerun     == Spent("resume") + Spent("wpanic") > 0

Contract == INSTANCE BatchContract WITH
    taken <- handled, again <- Again, size <- SizeOf, completed <- Completed,
    losses <- Losses, edited <- Edited, rerun <- Rerun

\* What happens to a batch is what BatchContract promises: its instances go to
\* OCI in order and within the batch, it is reported completed when all of them
\* have gone and none goes after that, not even from a goroutine that a
\* shutdown overtook, and each loss repeats one instance at most.
KeepsContract == Contract!Spec

\* Once nobody writes a row, kills or stops the process any more, every batch
\* comes to rest: finished, or stopped or paused by a user.  The one exception
\* is a row left running by a failed statement, the ignored last write of its
\* runner for instance: that has no goroutine, and waits for the next boot.
\* Nothing is said of a behaviour with a resume or a panic of the worker
\* goroutine: these put two runners on a row, which may hand it to each other
\* for ever.
Stranded(t) == Spent("fault") > 0 /\ status[t] = "running" /\ RunnersOf(t) = {}

Settles ==
    [](Spent("resume") + Spent("wpanic") = 0)
        => <>[](\A t \in Tasks : IsBatch(t) =>
                   status[t] \notin {"pending", "running"} \/ Stranded(t))

-----------------------------------------------------------------------------
(* The inductive invariant behind CheckpointHonest,                         *)
(* CompletedMeansAllHandled and NoOrphan.                                   *)

\* Nothing refers to a row that was not inserted, and no row has a parent:
\* see CreatedID.
RowsKnown ==
    /\ \A t \in Tasks : t > rows => status[t] = "absent"
    /\ \A t \in Tasks : job[t].parent = 0
    /\ fan.parent = 0
    /\ \A e \in scan : e.task <= rows
    /\ \A r \in Runners : run[r].pc # "free" => run[r].task \in 1..rows
    /\ \A d \in Disturbances : budget[d] <= Budget[d]

\* A runner calls OCI only within its batch, and once it has reported or is
\* about to save, the current instance counts as handled too.
RunnersBacked ==
    \A r \in Runners :
        /\ run[r].pc \in {"check", "mark", "call"} => run[r].idx < run[r].size
        /\ run[r].pc \in {"report", "save"} => HandledUpTo(handled, run[r].task, run[r].idx + 1)

\* Without edits every copy of a payload agrees with the row on the size.
SizesAgree ==
    Spent("edit") = 0 =>
        /\ \A e \in scan : e.payload.size = payload[e.task].size
        /\ \A r \in Runners : run[r].pc # "free" => run[r].size = payload[run[r].task].size

\* Between the two statements for a parent row, that row heads the scan.
ParentClaimed ==
    wpc = "parent" => \A e \in scan : Front(e) => ~IsBatch(e.task)

IInv ==
    /\ TypeOK
    /\ RowsKnown
    /\ ParentClaimed
    /\ CheckpointHonest
    /\ RunnersBacked
    /\ SizesAgree
    /\ CompletedMeansAllHandled
    /\ NoOrphan

-----------------------------------------------------------------------------
(* What comments of the code say, and the code does not do.                 *)

\* taskIsActive's comment: for a cancelled task the worker loop should stop
\* processing.  What a user stopped is queued again only by a user's resume.
StoppedIsFinal ==
    [][\A t \in Tasks :
          status[t] = "cancelled" /\ status'[t] = "pending"
          => budget'["resume"] # budget["resume"]]_vars

\* processNext's comment: a parent stays running until all children finish,
\* and the children then take care of its final status.
ChildrenOf(t) == {c \in Tasks : job[c].of = t}
ParentFinishes ==
    \A t \in Tasks :
        (/\ ~IsBatch(t) /\ fan = NoFan
         /\ ChildrenOf(t) # {} /\ \A c \in ChildrenOf(t) : status[c] \in Terminal)
        ~> status[t] = "completed"

=============================================================================
