--------------------------- MODULE CreateScheduler ---------------------------
(***************************************************************************)
(* Recurring instance creation: the create_tasks table, the scheduler that  *)
(* pumps its active rows every five seconds, the runs it starts, and the    *)
(* handlers that schedule, pause, resume, change and remove a row.          *)
(*                                                                         *)
(* A run works on the copy of the row that the pump listed and writes to    *)
(* the row only when it ends.  As in TaskWorker an action is one statement  *)
(* of the store together with the in-memory work up to the next.            *)
(***************************************************************************)
EXTENDS Integers, FiniteSets

CONSTANTS
    Schedules,      \* bound: rows ever inserted (ids are never reused)
    MaxNumbers,     \* bound: create_numbers of a row
    NumADs,         \* availability domains of a tenant
    Slots,          \* bound: runs alive at the same time
    Budget          \* bound: how often each disturbance may happen

\* user: pause, resume, remove; edit: PUT; refuse: an answer of the cloud that
\* stops a launch or a run; hidden: a launch that takes effect but errs; kill:
\* a crash, a restart or a panic; fault: a statement fails.
Disturbances == {"user", "edit", "refuse", "hidden", "kill", "fault"}

ASSUME SchedulerAssumption ==
    /\ Schedules \subseteq Nat
    /\ MaxNumbers \in Nat \ {0}
    /\ NumADs \in Nat \ {0}
    /\ Budget \in [Disturbances -> Nat]

Rows  == [state : {"new", "active", "paused", "gone"}, left : Nat, due : BOOLEAN]
Lists == [id : Schedules, left : Nat, due : BOOLEAN]
Runs  == [pc : {"free", "prepare", "launch"}, id : Schedules \cup {-1},
          left : Nat, i : Nat, ad : Nat, auth : BOOLEAN]

VARIABLES
    row,        \* create_tasks; due: last_run_at is an interval ago, or NULL
    list,       \* rows the pump listed and has not considered yet
    running,    \* createTaskRunning
    run,        \* the run goroutines
    \* observation: instances asked for and launched, schedules of which a
    \* run started from an outdated copy, and the disturbances still to come
    ordered, launched, outdated, budget

vars    == <<row, list, running, run, ordered, launched, outdated, budget>>
history == <<ordered, launched, outdated>>

FreeRun == [pc |-> "free", id |-> -1, left |-> 0, i |-> 0, ad |-> 0, auth |-> FALSE]

Init ==
    /\ row = [t \in Schedules |-> [state |-> "new", left |-> 0, due |-> TRUE]]
    /\ list = {}
    /\ running = {}
    /\ run = [g \in Slots |-> FreeRun]
    /\ ordered = [t \in Schedules |-> 0]
    /\ launched = [t \in Schedules |-> 0]
    /\ outdated = {}
    /\ budget = Budget

Spend(d) ==
    /\ budget[d] > 0
    /\ budget' = [budget EXCEPT ![d] = @ - 1]

Exists(t) == row[t].state \in {"active", "paused"}

\* A statement that writes to row t, if it exists; its error is ignored.
Write(t, r) ==
    \/ /\ row' = IF Exists(t) THEN [row EXCEPT ![t] = r] ELSE row
       /\ UNCHANGED budget
    \/ Spend("fault") /\ UNCHANGED row

DeleteCreateTask(t) == Write(t, [row[t] EXCEPT !.state = "gone", !.left = 0])

-----------------------------------------------------------------------------
(* Handlers, the Telegram dialog and the instance form.                     *)

Schedule(t, n) ==
    /\ row[t].state = "new"
    /\ row' = [row EXCEPT ![t] = [state |-> "active", left |-> n, due |-> TRUE]]
    /\ ordered' = [ordered EXCEPT ![t] = n]
    /\ UNCHANGED <<list, running, run, launched, outdated, budget>>

\* SetCreateTaskPaused
SetPaused(t, s) ==
    /\ Exists(t)
    /\ row' = [row EXCEPT ![t].state = s]
    /\ Spend("user")
    /\ UNCHANGED <<list, running, run, history>>

\* stop, DELETE, and the cascade of a removed tenant
Remove(t) ==
    /\ Exists(t)
    /\ row' = [row EXCEPT ![t].state = "gone", ![t].left = 0]
    /\ Spend("user")
    /\ UNCHANGED <<list, running, run, history>>

\* PUT replaces the whole row, the paused flag included.
UpdateCreateTask(t, n, s) ==
    /\ Exists(t)
    /\ row' = [row EXCEPT ![t].left = n, ![t].state = s]
    /\ Spend("edit")
    /\ UNCHANGED <<list, running, run, history>>

-----------------------------------------------------------------------------
(* The pump.                                                                *)

Elapse(t) ==
    /\ Exists(t) /\ ~row[t].due
    /\ row' = [row EXCEPT ![t].due = TRUE]
    /\ UNCHANGED <<list, running, run, history, budget>>

Active == {t \in Schedules : row[t].state = "active" /\ row[t].left > 0}

ListActiveCreateTasks ==
    /\ list = {}
    /\ Active # {}
    /\ list' = {[id |-> t, left |-> row[t].left, due |-> row[t].due] : t \in Active}
    /\ UNCHANGED <<row, running, run, history, budget>>

Front(e) == e \in list /\ \A f \in list : e.id <= f.id

\* Mutation of Startable, used only to test the properties.
Startable_Unguarded(e) == e.due

Startable(e) == e.id \notin running /\ e.due

Skip(e) ==
    /\ Front(e)
    /\ ~Startable(e)
    /\ list' = list \ {e}
    /\ UNCHANGED <<row, running, run, history, budget>>

\* Mark it running, SetCreateTaskLastRun, and go run the listed copy.
Start(e, g) ==
    /\ Front(e)
    /\ Startable(e)
    /\ run[g].pc = "free"
    /\ running' = running \cup {e.id}
    /\ Write(e.id, [row[e.id] EXCEPT !.due = FALSE])
    /\ run' = [run EXCEPT ![g] = [FreeRun EXCEPT !.pc = "prepare", !.id = e.id,
                                                 !.left = e.left]]
    /\ list' = list \ {e}
    /\ outdated' = IF Exists(e.id) /\ row[e.id].left = e.left THEN outdated
                   ELSE outdated \cup {e.id}
    /\ UNCHANGED <<ordered, launched>>

-----------------------------------------------------------------------------
(* A run.                                                                   *)

\* Mutation of End, used only to test the properties.
End_StaysRunning(g) == run' = [run EXCEPT ![g] = FreeRun] /\ UNCHANGED running

\* The deferred createTaskRunning.Delete and the end of the goroutine.
End(g) ==
    /\ run' = [run EXCEPT ![g] = FreeRun]
    /\ running' = running \ {run[g].id}

\* No client, no list of shapes, no image, no availability domain: try again
\* after the interval.
Abort(g) ==
    /\ run[g].pc = "prepare"
    /\ Spend("refuse")
    /\ End(g)
    /\ UNCHANGED <<row, list, history>>

\* The tenant is gone, the shape is not offered, there is no public subnet:
\* the row is deleted.
GiveUp(g) ==
    /\ run[g].pc = "prepare"
    /\ DeleteCreateTask(run[g].id)
    /\ End(g)
    /\ UNCHANGED <<list, history>>

Prepare(g) ==
    /\ run[g].pc = "prepare"
    /\ run' = [run EXCEPT ![g].pc = "launch"]
    /\ UNCHANGED <<row, list, running, history, budget>>

\* Mutation of MoreToLaunch, used only to test the properties.
MoreToLaunch_OffByOne(r) == r.ad < NumADs /\ r.i <= r.left

\* for i := 0; i < remaining; i++, for each availability domain
MoreToLaunch(r) == r.ad < NumADs /\ r.i < r.left

\* Mutation of Succeeded, used only to test the properties.
Succeeded_NotCounted(r) == [r EXCEPT !.i = @ + 1]

\* success++, remaining--, i++
Succeeded(r) == [r EXCEPT !.left = @ - 1, !.i = @ + 1]

LaunchSucceeds(g) ==
    /\ run[g].pc = "launch" /\ MoreToLaunch(run[g])
    /\ run' = [run EXCEPT ![g] = Succeeded(@)]
    /\ launched' = [launched EXCEPT ![run[g].id] = @ + 1]
    /\ UNCHANGED <<row, list, running, ordered, outdated, budget>>

\* The launch errs, whether or not an instance comes of it.
LaunchErrs(g) ==
    /\ run[g].pc = "launch" /\ MoreToLaunch(run[g])
    /\ run' = [run EXCEPT ![g].i = @ + 1]
    /\ \/ Spend("refuse") /\ UNCHANGED launched
       \/ Spend("hidden") /\ launched' = [launched EXCEPT ![run[g].id] = @ + 1]
    /\ UNCHANGED <<row, list, running, ordered, outdated>>

\* 401 or 403 leaves this availability domain; the others are still tried.
LaunchUnauthorized(g) ==
    /\ run[g].pc = "launch" /\ MoreToLaunch(run[g])
    /\ Spend("refuse")
    /\ run' = [run EXCEPT ![g].auth = TRUE, ![g].ad = @ + 1, ![g].i = 0]
    /\ UNCHANGED <<row, list, running, history>>

NextAD(g) ==
    /\ run[g].pc = "launch"
    /\ run[g].ad < NumADs /\ run[g].i >= run[g].left
    /\ run' = [run EXCEPT ![g].ad = @ + 1, ![g].i = 0]
    /\ UNCHANGED <<row, list, running, history, budget>>

\* Mutation of Outcome, used only to test the properties.
Outcome_Forgets(r) == row[r.id]

\* DeleteCreateTask if unauthorised or done, else SetCreateTaskRemaining.
Outcome(r) == IF r.auth \/ r.left = 0
              THEN [row[r.id] EXCEPT !.state = "gone", !.left = 0]
              ELSE [row[r.id] EXCEPT !.left = r.left]

Finish(g) ==
    /\ run[g].pc = "launch" /\ run[g].ad = NumADs
    /\ Write(run[g].id, Outcome(run[g]))
    /\ End(g)
    /\ UNCHANGED <<list, history>>

\* safeGo recovers a panic; the deferred Delete has run by then.
Panic(g) ==
    /\ run[g].pc # "free"
    /\ Spend("kill")
    /\ End(g)
    /\ UNCHANGED <<row, list, history>>

\* Shutdown waits for no run, so for them it is the same as a crash.
Restart ==
    /\ Spend("kill")
    /\ list' = {}
    /\ running' = {}
    /\ run' = [g \in Slots |-> FreeRun]
    /\ UNCHANGED <<row, history>>

-----------------------------------------------------------------------------
Numbers == 1..MaxNumbers

Handlers ==
    \E t \in Schedules :
        \/ \E n \in Numbers : Schedule(t, n)
        \/ \E s \in {"active", "paused"} : SetPaused(t, s)
        \/ Remove(t)
        \/ \E n \in 0..MaxNumbers, s \in {"active", "paused"} : UpdateCreateTask(t, n, s)

Pump ==
    \/ ListActiveCreateTasks
    \/ \E e \in list : Skip(e) \/ \E g \in Slots : Start(e, g)

RunStep(g) ==
    \/ Abort(g) \/ GiveUp(g) \/ Prepare(g)
    \/ LaunchSucceeds(g) \/ LaunchErrs(g) \/ LaunchUnauthorized(g)
    \/ NextAD(g) \/ Finish(g)

Next ==
    \/ Handlers
    \/ \E t \in Schedules : Elapse(t)
    \/ Pump
    \/ \E g \in Slots : RunStep(g) \/ Panic(g)
    \/ Restart

Spec == Init /\ [][Next]_vars

\* The ticker fires, time passes, and every call of a run has a deadline.
Fairness ==
    /\ \A t \in Schedules : WF_vars(Elapse(t))
    /\ WF_vars(Pump)
    /\ \A g \in Slots : WF_vars(RunStep(g))

FairSpec == Spec /\ Fairness

-----------------------------------------------------------------------------
TypeOK ==
    /\ row \in [Schedules -> Rows]
    /\ list \subseteq Lists
    /\ running \subseteq Schedules
    /\ run \in [Slots -> Runs]
    /\ ordered \in [Schedules -> Nat]
    /\ launched \in [Schedules -> Nat]
    /\ outdated \subseteq Schedules
    /\ budget \in [Disturbances -> Nat]

Spent(d) == Budget[d] - budget[d]

Untroubled == \A d \in {"kill", "fault", "hidden", "edit"} : budget[d] = Budget[d]

Busy == {g \in Slots : run[g].pc # "free"}

RunsOf(t) == {g \in Busy : run[g].id = t}

\* createTaskRunning names exactly the schedules with a run, and none has two:
\* two runs of one schedule would each create all of its instances.
OneRunPerSchedule ==
    /\ running = {run[g].id : g \in Busy}
    /\ \A g, h \in Busy : run[g].id = run[h].id => g = h

\* What is still to be created for t: the run's count, or the row's.
Outstanding(t) ==
    IF RunsOf(t) # {} THEN run[CHOOSE g \in RunsOf(t) : TRUE].left ELSE row[t].left

\* Without crashes, failed writes, hidden launches and edits, what was
\* launched and what is outstanding add up to what was ordered, for as long
\* as the schedule exists; once it is removed they never exceed it.  A
\* schedule one of whose runs began from an outdated copy is exempt.
Accounted ==
    Untroubled =>
        \A t \in Schedules \ outdated :
            /\ launched[t] + Outstanding(t) <= ordered[t]
            /\ Exists(t) => launched[t] + Outstanding(t) = ordered[t]

\* A crash, a panic or a failed write makes at most one run's launches
\* uncounted, and a hidden launch one: the damage is bounded by what was
\* ordered.
DamageBounded ==
    Spent("edit") = 0 =>
        \A t \in Schedules \ outdated :
            launched[t] + Outstanding(t)
              <= ordered[t] * (1 + Spent("kill") + Spent("fault")) + Spent("hidden")

\* What makes Accounted inductive.  A row that was never inserted counts
\* nothing and no run or list knows it; a removed row has nothing left; a run
\* that has not begun to launch still has the row's count, so that it may be
\* abandoned; and a run that launches keeps the books itself.
WithinBudget == \A d \in Disturbances : budget[d] <= Budget[d]

RowsSound ==
    \A t \in Schedules :
        /\ ~Exists(t) => row[t].left = 0
        /\ row[t].state = "new" => launched[t] = 0 /\ t \notin running
                                   /\ \A e \in list : e.id # t

RunCounts(g) ==
    run[g].id \notin outdated =>
        /\ launched[run[g].id] + run[g].left = ordered[run[g].id]
        /\ run[g].pc = "prepare" /\ Exists(run[g].id) => run[g].left = row[run[g].id].left

RunsCount == Untroubled => \A g \in Busy : RunCounts(g)

RowsCount ==
    Untroubled =>
        \A t \in Schedules \ (outdated \cup running) :
            /\ launched[t] <= ordered[t]
            /\ Exists(t) => launched[t] + row[t].left = ordered[t]

IInv ==
    /\ TypeOK /\ WithinBudget /\ OneRunPerSchedule
    /\ RowsSound /\ RunsCount /\ RowsCount

\* Once users, failures and crashes have come to an end, every schedule that
\* is not paused is used up and deleted (or was set to zero by an edit).
Drains == \A t \in Schedules : <>[](row[t].state = "active" => row[t].left = 0)

\* The comment on the table: a task tries to create up to create_numbers
\* instances.
UpToCreateNumbers == \A t \in Schedules : launched[t] <= ordered[t]

=============================================================================
