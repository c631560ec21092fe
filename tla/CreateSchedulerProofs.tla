------------------------- MODULE CreateSchedulerProofs -------------------------
(* What holds of CreateScheduler for every value of its constants.          *)
EXTENDS CreateScheduler, TLAPS

-----------------------------------------------------------------------------
(* Type correctness.                                                        *)

\* Spending a disturbance leaves the budgets natural numbers, and lowers none
\* but its own.
LEMMA SpendStep ==
    ASSUME budget \in [Disturbances -> Nat], NEW d \in Disturbances, Spend(d)
    PROVE  /\ budget' \in [Disturbances -> Nat]
           /\ budget'[d] = budget[d] - 1
           /\ \A e \in Disturbances : budget'[e] <= budget[e]
  BY DEF Spend

\* A write, failed or not, keeps the types of the table and the budgets.
LEMMA WriteType ==
    ASSUME row \in [Schedules -> Rows], budget \in [Disturbances -> Nat],
           NEW t \in Schedules, NEW r \in Rows, Write(t, r)
    PROVE  row' \in [Schedules -> Rows] /\ budget' \in [Disturbances -> Nat]
<1>1. "fault" \in Disturbances
  BY DEF Disturbances
<1>2. QED
  BY <1>1, SpendStep DEF Write

\* A run that ends keeps the types.
LEMMA EndType ==
    ASSUME run \in [Slots -> Runs], running \subseteq Schedules, NEW g \in Slots, End(g)
    PROVE  run' \in [Slots -> Runs] /\ running' \subseteq Schedules
  BY DEF End, Runs, FreeRun

\* Every step of the scheduler keeps the type invariant; a run knows which
\* schedule it works for.
LEMMA TypeStep == TypeOK /\ OneRunPerSchedule /\ [Next]_vars => TypeOK'
<1> SUFFICES ASSUME TypeOK, OneRunPerSchedule, [Next]_vars PROVE TypeOK'
  OBVIOUS
<1>a. /\ {"user", "edit", "refuse", "hidden", "kill", "fault"} \subseteq Disturbances
      /\ Schedules \subseteq Nat
  BY SchedulerAssumption DEF Disturbances
<1>b. \A g \in Slots : run[g].pc # "free" => run[g].id \in Schedules
  BY DEF TypeOK, OneRunPerSchedule, Busy
<1>c. \A g \in Slots : run[g] \in Runs
  BY DEF TypeOK
<1>d. \A t \in Schedules : row[t] \in Rows
  BY DEF TypeOK
<1>1. ASSUME NEW t \in Schedules, NEW n \in Numbers, Schedule(t, n) PROVE TypeOK'
  BY <1>1, SchedulerAssumption DEF TypeOK, Schedule, Rows, Numbers
<1>2. ASSUME NEW t \in Schedules, NEW s \in {"active", "paused"}, SetPaused(t, s) PROVE TypeOK'
  BY <1>2, <1>a, SpendStep DEF TypeOK, SetPaused, Rows, history
<1>3. ASSUME NEW t \in Schedules, Remove(t) PROVE TypeOK'
  BY <1>3, <1>a, SpendStep DEF TypeOK, Remove, Rows, history
<1>4. ASSUME NEW t \in Schedules, NEW n \in 0..MaxNumbers, NEW s \in {"active", "paused"},
             UpdateCreateTask(t, n, s)
      PROVE TypeOK'
  <2>1. n \in Nat
    BY SchedulerAssumption
  <2>2. row' \in [Schedules -> Rows]
    BY <1>4, <2>1 DEF TypeOK, UpdateCreateTask, Rows
  <2>3. QED
    BY <1>4, <2>2, <1>a, SpendStep DEF TypeOK, UpdateCreateTask, history
<1>5. ASSUME NEW t \in Schedules, Elapse(t) PROVE TypeOK'
  BY <1>5 DEF TypeOK, Elapse, Rows, history
<1>6. CASE ListActiveCreateTasks
  <2>1. list' \subseteq Lists
    BY <1>6, <1>d DEF ListActiveCreateTasks, Active, Lists, Rows
  <2>2. QED
    BY <1>6, <2>1 DEF TypeOK, ListActiveCreateTasks, history
<1>7. ASSUME NEW e \in list, Skip(e) PROVE TypeOK'
  BY <1>7 DEF TypeOK, Skip, history
<1>8. ASSUME NEW e \in list, NEW g \in Slots, Start(e, g) PROVE TypeOK'
  <2>1. e \in Lists /\ e.id \in Schedules /\ e.left \in Nat
    BY DEF TypeOK, Lists
  <2>2. [row[e.id] EXCEPT !.due = FALSE] \in Rows
    BY <2>1, <1>d DEF Rows
  <2>3. row' \in [Schedules -> Rows] /\ budget' \in [Disturbances -> Nat]
    BY <1>8, <2>1, <2>2, WriteType DEF Start, TypeOK
  <2>4. run' \in [Slots -> Runs]
    BY <1>8, <2>1 DEF TypeOK, Start, Runs, FreeRun
  <2>5. QED
    BY <1>8, <2>1, <2>3, <2>4 DEF TypeOK, Start
<1>9. ASSUME NEW g \in Slots, Abort(g) PROVE TypeOK'
  BY <1>9, <1>a, SpendStep, EndType DEF TypeOK, Abort, history
<1>10. ASSUME NEW g \in Slots, GiveUp(g) PROVE TypeOK'
  <2>1. run[g].id \in Schedules
    BY <1>10, <1>b DEF GiveUp
  <2>2. [row[run[g].id] EXCEPT !.state = "gone", !.left = 0] \in Rows
    BY <2>1, <1>d DEF Rows
  <2>3. row' \in [Schedules -> Rows] /\ budget' \in [Disturbances -> Nat]
    BY <1>10, <2>1, <2>2, WriteType DEF GiveUp, DeleteCreateTask, TypeOK
  <2>4. QED
    BY <1>10, <2>3, EndType DEF TypeOK, GiveUp, history
<1>11. ASSUME NEW g \in Slots, Prepare(g) PROVE TypeOK'
  BY <1>11 DEF TypeOK, Prepare, Runs, history
<1>12. ASSUME NEW g \in Slots, LaunchSucceeds(g) PROVE TypeOK'
  <2>1. run[g].left - 1 \in Nat /\ run[g].i + 1 \in Nat
    BY <1>12, <1>c DEF LaunchSucceeds, MoreToLaunch, Runs
  <2>2. Succeeded(run[g]) \in Runs
    BY <2>1, <1>c DEF Succeeded, Runs
  <2>3. run[g].id \in Schedules
    BY <1>12, <1>b DEF LaunchSucceeds
  <2>4. QED
    BY <1>12, <2>2, <2>3 DEF TypeOK, LaunchSucceeds
<1>13. ASSUME NEW g \in Slots, LaunchErrs(g) PROVE TypeOK'
  <2>1. run' \in [Slots -> Runs]
    BY <1>13 DEF TypeOK, LaunchErrs, Runs
  <2>2. launched' \in [Schedules -> Nat] /\ budget' \in [Disturbances -> Nat]
    BY <1>13, <1>a, <1>b, SpendStep DEF TypeOK, LaunchErrs
  <2>3. QED
    BY <1>13, <2>1, <2>2 DEF TypeOK, LaunchErrs
<1>14. ASSUME NEW g \in Slots, LaunchUnauthorized(g) PROVE TypeOK'
  BY <1>14, <1>a, SpendStep DEF TypeOK, LaunchUnauthorized, Runs, history
<1>15. ASSUME NEW g \in Slots, NextAD(g) PROVE TypeOK'
  <2>1. run[g].ad + 1 \in Nat
    BY <1>c DEF Runs
  <2>2. run' \in [Slots -> Runs]
    BY <1>15, <2>1 DEF TypeOK, NextAD, Runs
  <2>3. QED
    BY <1>15, <2>2 DEF TypeOK, NextAD, history
<1>16. ASSUME NEW g \in Slots, Finish(g) PROVE TypeOK'
  <2>1. run[g].id \in Schedules /\ run[g] \in Runs
    BY <1>16, <1>b, <1>c DEF Finish
  <2>2. Outcome(run[g]) \in Rows
    BY <2>1, <1>d DEF Outcome, Rows, Runs
  <2>3. row' \in [Schedules -> Rows] /\ budget' \in [Disturbances -> Nat]
    BY <1>16, <2>1, <2>2, WriteType DEF Finish, TypeOK
  <2>4. QED
    BY <1>16, <2>3, EndType DEF TypeOK, Finish, history
<1>17. ASSUME NEW g \in Slots, Panic(g) PROVE TypeOK'
  BY <1>17, <1>a, SpendStep, EndType DEF TypeOK, Panic, history
<1>18. CASE Restart
  BY <1>18, <1>a, SpendStep DEF TypeOK, Restart, history, Runs, FreeRun
<1>19. CASE UNCHANGED vars
  BY <1>19 DEF TypeOK, vars
<1>20. QED
  BY <1>1, <1>2, <1>3, <1>4, <1>5, <1>6, <1>7, <1>8, <1>9, <1>10, <1>11, <1>12, <1>13,
     <1>14, <1>15, <1>16, <1>17, <1>18, <1>19
  DEF Next, Handlers, Pump, RunStep

-----------------------------------------------------------------------------
(* One run per schedule.                                                    *)

\* A run that ends takes its own mark away and leaves the others.
LEMMA EndStep ==
    ASSUME TypeOK, OneRunPerSchedule, NEW g \in Busy, End(g)
    PROVE  /\ Busy' = Busy \ {g}
           /\ \A h \in Busy' : run'[h] = run[h]
           /\ OneRunPerSchedule'
<1>1. g \in Slots /\ FreeRun.pc = "free"
  BY DEF Busy, FreeRun
<1>2. \A h \in Slots : run'[h] = IF h = g THEN FreeRun ELSE run[h]
  BY DEF End, TypeOK
<1>3. Busy' = Busy \ {g} /\ \A h \in Busy' : run'[h] = run[h]
  BY <1>1, <1>2 DEF Busy
<1>4. running' = running \ {run[g].id}
  BY DEF End
<1>5. QED
  BY <1>3, <1>4 DEF OneRunPerSchedule

\* A step that gives every slot's run the same schedule and the same liveness
\* keeps the marks right.
LEMMA SameRuns ==
    ASSUME OneRunPerSchedule, running' = running,
           \A g \in Slots : /\ run'[g].id = run[g].id
                            /\ run'[g].pc = "free" <=> run[g].pc = "free"
    PROVE  OneRunPerSchedule'
  BY DEF OneRunPerSchedule, Busy

\* Every step keeps the marks and the runs in agreement.
LEMMA OneRunStep == TypeOK /\ OneRunPerSchedule /\ [Next]_vars => OneRunPerSchedule'
<1> SUFFICES ASSUME TypeOK, OneRunPerSchedule, [Next]_vars PROVE OneRunPerSchedule'
  OBVIOUS
<1>a. \A g \in Slots : run[g] \in Runs
  BY DEF TypeOK
<1>1. CASE Handlers \/ (\E t \in Schedules : Elapse(t)) \/ UNCHANGED vars
           \/ ListActiveCreateTasks \/ \E e \in list : Skip(e)
  <2>1. UNCHANGED <<running, run>>
    BY <1>1 DEF Handlers, Schedule, SetPaused, Remove, UpdateCreateTask, Elapse, vars,
         ListActiveCreateTasks, Skip
  <2>2. QED
    BY <2>1, SameRuns
<1>2. ASSUME NEW e \in list, NEW g \in Slots, Start(e, g) PROVE OneRunPerSchedule'
  <2>1. /\ run[g].pc = "free"
        /\ e.id \notin running
        /\ running' = running \cup {e.id}
    BY <1>2 DEF Start, Startable
  <2>2. /\ run'[g].pc = "prepare" /\ run'[g].id = e.id
        /\ \A h \in Slots \ {g} : run'[h] = run[h]
    BY <1>2 DEF Start, TypeOK, FreeRun
  <2>3. Busy' = Busy \cup {g} /\ g \notin Busy
    BY <2>1, <2>2 DEF Busy
  <2>4. \A h \in Busy : run'[h] = run[h] /\ run[h].id \in running
    BY <2>2, <2>3 DEF OneRunPerSchedule, Busy
  <2>5. running' = {run'[h].id : h \in Busy'}
    BY <2>1, <2>2, <2>3, <2>4 DEF OneRunPerSchedule
  <2>6. \A h, k \in Busy' : run'[h].id = run'[k].id => h = k
    BY <2>1, <2>2, <2>3, <2>4 DEF OneRunPerSchedule
  <2>7. QED
    BY <2>5, <2>6 DEF OneRunPerSchedule
<1>3. ASSUME NEW g \in Slots, Abort(g) \/ GiveUp(g) \/ Finish(g) \/ Panic(g)
      PROVE OneRunPerSchedule'
  BY <1>3, EndStep DEF Abort, GiveUp, Finish, Panic, Busy
<1>4. ASSUME NEW g \in Slots,
             Prepare(g) \/ LaunchSucceeds(g) \/ LaunchErrs(g) \/ LaunchUnauthorized(g) \/ NextAD(g)
      PROVE OneRunPerSchedule'
  <2>1. running' = running
    BY <1>4 DEF Prepare, LaunchSucceeds, LaunchErrs, LaunchUnauthorized, NextAD, history
  <2>2. \A h \in Slots : run'[h].id = run[h].id /\ (run'[h].pc = "free" <=> run[h].pc = "free")
    <3>1. CASE Prepare(g)
      BY <3>1, <1>a DEF Prepare, TypeOK, Runs
    <3>2. CASE LaunchSucceeds(g)
      BY <3>2, <1>a DEF LaunchSucceeds, Succeeded, TypeOK, Runs
    <3>3. CASE LaunchErrs(g)
      BY <3>3, <1>a DEF LaunchErrs, TypeOK, Runs
    <3>4. CASE LaunchUnauthorized(g)
      BY <3>4, <1>a DEF LaunchUnauthorized, TypeOK, Runs
    <3>5. CASE NextAD(g)
      BY <3>5, <1>a DEF NextAD, TypeOK, Runs
    <3>6. QED
      BY <1>4, <3>1, <3>2, <3>3, <3>4, <3>5
  <2>3. QED
    BY <2>1, <2>2, SameRuns
<1>5. CASE Restart
  <2>1. Busy' = {} /\ running' = {}
    BY <1>5 DEF Restart, Busy, FreeRun
  <2>2. QED
    BY <2>1 DEF OneRunPerSchedule
<1>6. QED
  BY <1>1, <1>2, <1>3, <1>4, <1>5 DEF Next, Pump, RunStep

-----------------------------------------------------------------------------
(* The books.                                                               *)

\* Trouble is never taken back.
LEMMA BudgetStep ==
    TypeOK /\ WithinBudget /\ [Next]_vars => WithinBudget' /\ (Untroubled' => Untroubled)
<1> SUFFICES ASSUME TypeOK, WithinBudget, [Next]_vars
             PROVE  WithinBudget' /\ (Untroubled' => Untroubled)
  OBVIOUS
<1>a. /\ {"user", "edit", "refuse", "hidden", "kill", "fault"} \subseteq Disturbances
      /\ budget \in [Disturbances -> Nat] /\ Budget \in [Disturbances -> Nat]
  BY SchedulerAssumption DEF Disturbances, TypeOK
<1>1. \A d \in Disturbances : Spend(d) =>
          budget' \in [Disturbances -> Nat] /\ \A e \in Disturbances : budget'[e] <= budget[e]
  BY <1>a, SpendStep
<1>2. UNCHANGED budget \/ \E d \in Disturbances : Spend(d)
  BY <1>a DEF Next, Handlers, Pump, RunStep, vars, Schedule, SetPaused, Remove,
     UpdateCreateTask, Elapse, ListActiveCreateTasks, Skip, Start, Abort, GiveUp,
     DeleteCreateTask, Write, Prepare, LaunchSucceeds, LaunchErrs, LaunchUnauthorized,
     NextAD, Finish, Panic, Restart
<1>3. \A e \in Disturbances : budget'[e] \in Nat /\ budget'[e] <= budget[e]
  BY <1>1, <1>2, <1>a
<1>4. WithinBudget'
  BY <1>3, <1>a DEF WithinBudget
<1>5. Untroubled' => Untroubled
  BY <1>3, <1>a DEF Untroubled, WithinBudget
<1>6. QED
  BY <1>4, <1>5

\* A step that spends one of these is a step into trouble.
LEMMA Troubled ==
    ASSUME TypeOK, WithinBudget, NEW d \in {"kill", "fault", "hidden", "edit"}, Spend(d)
    PROVE  ~Untroubled'
<1>1. d \in Disturbances
  BY DEF Disturbances
<1>2. budget'[d] = budget[d] - 1 /\ budget[d] <= Budget[d]
      /\ budget[d] \in Nat /\ Budget[d] \in Nat
  BY <1>1, SpendStep, SchedulerAssumption DEF TypeOK, WithinBudget
<1>3. budget'[d] # Budget[d]
  BY <1>2
<1>4. QED
  BY <1>3 DEF Untroubled

\* A row is written as the statement says or not at all, and only a row that
\* exists is; the others stay.
LEMMA WriteStep ==
    ASSUME TypeOK, NEW t \in Schedules, NEW r, Write(t, r)
    PROVE  /\ \A u \in Schedules \ {t} : row'[u] = row[u]
           /\ row'[t] = row[t] \/ (Exists(t) /\ row'[t] = r)
           /\ WithinBudget /\ Untroubled' /\ Exists(t) => row'[t] = r
<1>1. WithinBudget /\ Untroubled' => ~Spend("fault")
  BY Troubled
<1>2. QED
  BY <1>1 DEF Write, TypeOK

\* A step that changes no row but those of one schedule, no more than that
\* schedule's launches, and adds no mark and no listed row but that one's,
\* keeps the rows sound if it keeps that schedule's row sound.
LEMMA RowsSoundFrame ==
    ASSUME RowsSound, NEW t \in Schedules,
           \A u \in Schedules \ {t} :
               /\ row'[u] = row[u] /\ launched'[u] = launched[u]
               /\ u \in running' => u \in running
               /\ \A e \in list' : e.id = u => e \in list,
           row'[t].state # "new",
           row'[t].state \in {"active", "paused"} \/ row'[t].left = 0
    PROVE  RowsSound'
  BY DEF RowsSound, Exists

\* Every step keeps the rows sound.
LEMMA RowsSoundStep == IInv /\ [Next]_vars => RowsSound'
<1> SUFFICES ASSUME IInv, [Next]_vars PROVE RowsSound'
  OBVIOUS
<1>a. TypeOK /\ OneRunPerSchedule /\ RowsSound
  BY DEF IInv
<1>b. \A g \in Busy : run[g].id \in Schedules /\ run[g].id \in running
                      /\ row[run[g].id].state # "new"
  BY <1>a DEF OneRunPerSchedule, TypeOK, RowsSound
<1>c. \A t \in Schedules : row[t].state \in {"new", "active", "paused", "gone"}
  BY <1>a DEF TypeOK, Rows
<1>1. CASE (\E g \in Slots : Prepare(g) \/ LaunchUnauthorized(g) \/ NextAD(g) \/ Abort(g)
                             \/ Panic(g))
           \/ Restart \/ UNCHANGED vars \/ (\E e \in list : Skip(e))
  <2>1. row' = row /\ launched' = launched /\ running' \subseteq running /\ list' \subseteq list
    BY <1>1 DEF Prepare, LaunchUnauthorized, NextAD, Abort, Panic, Restart, Skip, vars,
         history, End
  <2>2. QED
    BY <2>1, <1>a DEF RowsSound, Exists
<1>2. ASSUME NEW t \in Schedules, NEW n \in Numbers, Schedule(t, n) PROVE RowsSound'
  <2>1. row'[t].state = "active" /\ \A u \in Schedules \ {t} : row'[u] = row[u]
    BY <1>2, <1>a DEF Schedule, TypeOK
  <2>2. launched' = launched /\ running' = running /\ list' = list
    BY <1>2 DEF Schedule
  <2>3. QED
    BY <2>1, <2>2, <1>a, RowsSoundFrame
<1>3. ASSUME NEW t \in Schedules, NEW s \in {"active", "paused"}, NEW n \in 0..MaxNumbers,
             SetPaused(t, s) \/ Remove(t) \/ UpdateCreateTask(t, n, s) \/ Elapse(t)
      PROVE RowsSound'
  <2>1. /\ row'[t].state # "new"
        /\ row'[t].state \in {"active", "paused"} \/ row'[t].left = 0
    BY <1>3, <1>a DEF SetPaused, Remove, UpdateCreateTask, Elapse, Exists, TypeOK, Rows
  <2>2. \A u \in Schedules \ {t} : row'[u] = row[u]
    BY <1>3, <1>a DEF SetPaused, Remove, UpdateCreateTask, Elapse, TypeOK
  <2>3. launched' = launched /\ running' = running /\ list' = list
    BY <1>3 DEF SetPaused, Remove, UpdateCreateTask, Elapse, history
  <2>4. QED
    BY <2>1, <2>2, <2>3, <1>a, RowsSoundFrame
<1>4. CASE ListActiveCreateTasks
  <2>1. \A e \in list' : row[e.id].state = "active"
    BY <1>4 DEF ListActiveCreateTasks, Active
  <2>2. row' = row /\ launched' = launched /\ running' = running
    BY <1>4 DEF ListActiveCreateTasks, history
  <2>3. QED
    BY <2>1, <2>2, <1>a DEF RowsSound, Exists
<1>5. ASSUME NEW e \in list, NEW g \in Slots, Start(e, g) PROVE RowsSound'
  <2>1. e.id \in Schedules /\ row[e.id].state # "new"
    BY <1>a DEF TypeOK, Lists, RowsSound
  <2>2. Write(e.id, [row[e.id] EXCEPT !.due = FALSE])
    BY <1>5 DEF Start
  <2>3. [row[e.id] EXCEPT !.due = FALSE].state = row[e.id].state
        /\ [row[e.id] EXCEPT !.due = FALSE].left = row[e.id].left
    BY <2>1, <1>a DEF TypeOK, Rows
  <2>4. /\ \A u \in Schedules \ {e.id} : row'[u] = row[u]
        /\ row'[e.id].state = row[e.id].state /\ row'[e.id].left = row[e.id].left
    BY <2>1, <2>2, <2>3, <1>a, WriteStep
  <2>5. row[e.id].state \in {"active", "paused"} \/ row[e.id].left = 0
    BY <2>1, <1>a DEF RowsSound, Exists
  <2>6. launched' = launched /\ running' = running \cup {e.id} /\ list' \subseteq list
    BY <1>5 DEF Start
  <2>7. QED
    BY <2>1, <2>4, <2>5, <2>6, <1>a, RowsSoundFrame
<1>6. ASSUME NEW g \in Slots, NEW r, run[g].pc # "free", Write(run[g].id, r), End(g),
             r.state \in {"active", "paused"} \/ (r.state = "gone" /\ r.left = 0)
                 \/ ~Exists(run[g].id),
             UNCHANGED <<list, history>>
      PROVE RowsSound'
  <2> DEFINE t == run[g].id
  <2>1. t \in Schedules /\ row[t].state # "new"
    BY <1>6, <1>b DEF Busy
  <2>2. /\ \A u \in Schedules \ {t} : row'[u] = row[u]
        /\ row'[t] = row[t] \/ (Exists(t) /\ row'[t] = r)
    BY <2>1, <1>6, <1>a, WriteStep
  <2>3. row[t].state \in {"active", "paused"} \/ row[t].left = 0
    BY <2>1, <1>a DEF RowsSound, Exists
  <2>4. row'[t].state # "new" /\ (row'[t].state \in {"active", "paused"} \/ row'[t].left = 0)
    BY <2>1, <2>2, <2>3, <1>6
  <2>5. launched' = launched /\ running' \subseteq running /\ list' = list
    BY <1>6 DEF End, history
  <2>6. QED
    BY <2>1, <2>2, <2>4, <2>5, <1>a, RowsSoundFrame
<1>7. ASSUME NEW g \in Slots, GiveUp(g) PROVE RowsSound'
  <2>1. run[g].pc # "free" /\ run[g].id \in Schedules
    BY <1>7, <1>b DEF GiveUp, Busy
  <2> DEFINE r == [row[run[g].id] EXCEPT !.state = "gone", !.left = 0]
  <2>2. r.state = "gone" /\ r.left = 0
    BY <2>1, <1>a DEF TypeOK, Rows
  <2>3. Write(run[g].id, r)
    BY <1>7 DEF GiveUp, DeleteCreateTask
  <2>4. QED
    BY <2>1, <2>2, <2>3, <1>6, <1>7 DEF GiveUp
<1>8. ASSUME NEW g \in Slots, Finish(g) PROVE RowsSound'
  <2>1. run[g].pc # "free" /\ run[g].id \in Schedules
    BY <1>8, <1>b DEF Finish, Busy
  <2>2. \/ Outcome(run[g]).state \in {"active", "paused"} \/ ~Exists(run[g].id)
        \/ Outcome(run[g]).state = "gone" /\ Outcome(run[g]).left = 0
    BY <2>1, <1>a DEF Outcome, Exists, TypeOK, Rows
  <2>3. QED
    BY <2>1, <2>2, <1>6, <1>8 DEF Finish
<1>9. ASSUME NEW g \in Slots, LaunchSucceeds(g) \/ LaunchErrs(g) PROVE RowsSound'
  <2>1. run[g].id \in Schedules /\ row[run[g].id].state # "new"
    BY <1>9, <1>b DEF LaunchSucceeds, LaunchErrs, Busy
  <2>2. row' = row /\ running' = running /\ list' = list
    BY <1>9 DEF LaunchSucceeds, LaunchErrs
  <2>3. \A u \in Schedules \ {run[g].id} : launched'[u] = launched[u]
    BY <1>9, <1>a DEF LaunchSucceeds, LaunchErrs, TypeOK
  <2>4. QED
    BY <2>1, <2>2, <2>3, <1>a DEF RowsSound, Exists
<1>10. QED
  BY <1>1, <1>2, <1>3, <1>4, <1>5, <1>7, <1>8, <1>9, SchedulerAssumption
  DEF Next, Handlers, Pump, RunStep, Numbers

\* What a busy goroutine and its schedule are known to satisfy.
LEMMA BusyFacts ==
    ASSUME TypeOK, OneRunPerSchedule, NEW g \in Busy
    PROVE  /\ g \in Slots /\ run[g] \in Runs
           /\ run[g].id \in Schedules /\ run[g].id \in running
           /\ run[g].left \in Nat
           /\ \A h \in Busy \ {g} : run[h].id # run[g].id
           /\ launched[run[g].id] \in Nat /\ ordered[run[g].id] \in Nat
           /\ row[run[g].id] \in Rows
<1>1. g \in Slots /\ run[g] \in Runs
  BY DEF Busy, TypeOK
<1>2. run[g].id \in running /\ run[g].id \in Schedules
  BY DEF OneRunPerSchedule, TypeOK
<1>3. QED
  BY <1>1, <1>2 DEF OneRunPerSchedule, TypeOK, Runs

\* A step that leaves the runs alone and changes no row that a run works for,
\* unless to remove it, keeps their count.
LEMMA RunsCountFrame ==
    ASSUME TypeOK, OneRunPerSchedule, RunsCount, Untroubled' => Untroubled,
           run' = run, outdated' = outdated,
           \A t \in running :
               /\ launched'[t] = launched[t] /\ ordered'[t] = ordered[t]
               /\ Exists(t)' => Exists(t) /\ row'[t].left = row[t].left
    PROVE  RunsCount'
<1> SUFFICES ASSUME Untroubled', NEW g \in Busy' PROVE RunCounts(g)'
  BY DEF RunsCount
<1>1. g \in Busy /\ Untroubled
  BY DEF Busy
<1>2. run[g].id \in running
  BY <1>1, BusyFacts
<1>3. QED
  BY <1>1, <1>2 DEF RunsCount, RunCounts

\* Likewise for a step that ends one run and writes to no other's row.
LEMMA RunsCountEnd ==
    ASSUME TypeOK, OneRunPerSchedule, RunsCount, Untroubled' => Untroubled,
           NEW g \in Busy, End(g), UNCHANGED history,
           \A u \in Schedules \ {run[g].id} : row'[u] = row[u]
    PROVE  RunsCount'
<1> SUFFICES ASSUME Untroubled', NEW h \in Busy' PROVE RunCounts(h)'
  BY DEF RunsCount
<1>1. h \in Busy /\ h # g /\ run'[h] = run[h]
  BY EndStep
<1>2. run[h].id \in Schedules /\ run[h].id # run[g].id
  BY <1>1, BusyFacts
<1>3. row'[run[h].id] = row[run[h].id]
  BY <1>2
<1>4. QED
  BY <1>1, <1>3 DEF RunsCount, RunCounts, history, Exists

\* Likewise for a step of one run that keeps its schedule, its books and, as
\* long as it has not begun to launch, its count.
LEMMA RunsCountMove ==
    ASSUME TypeOK, OneRunPerSchedule, RunsCount, Untroubled' => Untroubled,
           NEW g \in Busy, UNCHANGED <<row, ordered, outdated>>,
           \A h \in Slots \ {g} : run'[h] = run[h],
           \A u \in Schedules \ {run[g].id} : launched'[u] = launched[u],
           run'[g].id = run[g].id, run'[g].pc = "launch",
           Untroubled' => launched'[run[g].id] + run'[g].left = launched[run[g].id] + run[g].left
    PROVE  RunsCount'
<1> SUFFICES ASSUME Untroubled', NEW h \in Busy' PROVE RunCounts(h)'
  BY DEF RunsCount
<1>1. CASE h = g
  BY <1>1 DEF RunsCount, RunCounts
<1>2. CASE h # g
  <2>1. h \in Busy /\ run'[h] = run[h]
    BY <1>2 DEF Busy
  <2>2. run[h].id \in Schedules /\ run[h].id # run[g].id
    BY <1>2, <2>1, BusyFacts
  <2>3. launched'[run[h].id] = launched[run[h].id]
    BY <2>2
  <2>4. QED
    BY <2>1, <2>3 DEF RunsCount, RunCounts, Exists
<1>3. QED
  BY <1>1, <1>2

\* Every step keeps the count of the runs.
LEMMA RunsCountStep == IInv /\ [Next]_vars => RunsCount'
<1> SUFFICES ASSUME IInv, [Next]_vars PROVE RunsCount'
  OBVIOUS
<1>a. TypeOK /\ OneRunPerSchedule /\ RowsSound /\ RunsCount /\ RowsCount /\ WithinBudget
  BY DEF IInv
<1>b. Untroubled' => Untroubled
  BY <1>a, BudgetStep
<1>c. \A g \in Slots : run[g].pc # "free" => g \in Busy
  BY DEF Busy
<1>1. CASE UNCHANGED vars \/ (\E e \in list : Skip(e)) \/ ListActiveCreateTasks
  <2>1. UNCHANGED <<run, row, outdated, launched, ordered>>
    BY <1>1 DEF vars, Skip, ListActiveCreateTasks, history
  <2>2. QED
    BY <2>1, <1>a, <1>b, RunsCountFrame DEF Exists
<1>2. ASSUME NEW t \in Schedules, NEW n \in Numbers, Schedule(t, n) PROVE RunsCount'
  <2>1. t \notin running
    BY <1>2, <1>a DEF RowsSound, Schedule
  <2>2. \A u \in Schedules \ {t} : row'[u] = row[u] /\ ordered'[u] = ordered[u]
    BY <1>2, <1>a DEF Schedule, TypeOK
  <2>3. running \subseteq Schedules \ {t}
    BY <2>1, <1>a DEF TypeOK
  <2>4. UNCHANGED <<run, outdated, launched>>
    BY <1>2 DEF Schedule
  <2>5. QED
    BY <2>2, <2>3, <2>4, <1>a, <1>b, RunsCountFrame DEF Exists
<1>3. ASSUME NEW t \in Schedules, NEW s \in {"active", "paused"},
             SetPaused(t, s) \/ Remove(t) \/ Elapse(t)
      PROVE RunsCount'
  <2>1. Exists(t)
    BY <1>3 DEF SetPaused, Remove, Elapse
  <2>2. /\ \A u \in Schedules \ {t} : row'[u] = row[u]
        /\ row'[t].state \in {"active", "paused"} => row'[t].left = row[t].left
    BY <1>3, <1>a DEF SetPaused, Remove, Elapse, TypeOK, Rows
  <2>3. UNCHANGED <<run, outdated, launched, ordered>>
    BY <1>3 DEF SetPaused, Remove, Elapse, history
  <2>4. \A u \in running : Exists(u)' => Exists(u) /\ row'[u].left = row[u].left
    BY <2>1, <2>2, <1>a DEF Exists, TypeOK
  <2>5. QED
    BY <2>3, <2>4, <1>a, <1>b, RunsCountFrame
<1>4. ASSUME NEW t \in Schedules, NEW n \in 0..MaxNumbers, NEW s \in {"active", "paused"},
             UpdateCreateTask(t, n, s)
      PROVE RunsCount'
  BY <1>4, <1>a, Troubled DEF UpdateCreateTask, RunsCount
<1>5. ASSUME NEW e \in list, NEW g \in Slots, Start(e, g) PROVE RunsCount'
  <2> SUFFICES ASSUME Untroubled', NEW h \in Busy' PROVE RunCounts(h)'
    BY DEF RunsCount
  <2>1. e.id \in Schedules /\ e.id \notin running /\ Untroubled
    BY <1>5, <1>a, <1>b DEF TypeOK, Lists, Start, Startable
  <2>2. /\ run'[g].id = e.id /\ run'[g].left = e.left
        /\ \A k \in Slots \ {g} : run'[k] = run[k]
    BY <1>5, <1>a DEF Start, TypeOK, FreeRun
  <2>3. Write(e.id, [row[e.id] EXCEPT !.due = FALSE])
    BY <1>5 DEF Start
  <2>4. [row[e.id] EXCEPT !.due = FALSE].left = row[e.id].left
    BY <2>1, <1>a DEF TypeOK, Rows
  <2>5. /\ \A u \in Schedules \ {e.id} : row'[u] = row[u]
        /\ row'[e.id].left = row[e.id].left
    BY <2>1, <2>3, <2>4, <1>a, WriteStep
  <2>6. ordered' = ordered /\ launched' = launched /\ outdated \subseteq outdated'
    BY <1>5 DEF Start
  <2>7. CASE h = g
    <3> SUFFICES ASSUME e.id \notin outdated' PROVE RunCounts(g)'
      BY <2>2, <2>7 DEF RunCounts
    <3>1. Exists(e.id) /\ row[e.id].left = e.left /\ e.id \notin outdated
      BY <1>5 DEF Start
    <3>2. launched[e.id] + row[e.id].left = ordered[e.id]
      BY <3>1, <2>1, <1>a DEF RowsCount
    <3>3. QED
      BY <2>2, <2>5, <2>6, <2>7, <3>1, <3>2 DEF RunCounts
  <2>8. CASE h # g
    <3>1. h \in Busy /\ run'[h] = run[h]
      BY <2>2, <2>8 DEF Busy
    <3>2. run[h].id \in Schedules /\ run[h].id # e.id
      BY <3>1, <2>1, <1>a, BusyFacts
    <3>3. /\ row'[run[h].id] = row[run[h].id]
          /\ run[h].id \notin outdated' => run[h].id \notin outdated
      BY <3>2, <2>5, <2>6
    <3>4. RunCounts(h)
      BY <3>1, <2>1, <1>a DEF RunsCount
    <3>5. QED
      BY <3>1, <3>3, <3>4, <2>6 DEF RunCounts, Exists
  <2>9. QED
    BY <2>7, <2>8
<1>6. ASSUME NEW g \in Slots, Abort(g) \/ GiveUp(g) \/ Finish(g) \/ Panic(g) PROVE RunsCount'
  <2>1. g \in Busy /\ End(g) /\ UNCHANGED history
    BY <1>6 DEF Busy, Abort, GiveUp, Finish, Panic
  <2>2. run[g].id \in Schedules
    BY <2>1, <1>a, BusyFacts
  <2>3. row' = row \/ \E r : Write(run[g].id, r)
    BY <1>6 DEF Abort, GiveUp, DeleteCreateTask, Finish, Panic
  <2>4. \A u \in Schedules \ {run[g].id} : row'[u] = row[u]
    BY <2>2, <2>3, <1>a, WriteStep
  <2>5. QED
    BY <2>1, <2>4, <1>a, <1>b, RunsCountEnd
<1>7. ASSUME NEW g \in Slots, Prepare(g) \/ LaunchUnauthorized(g) \/ NextAD(g) PROVE RunsCount'
  <2>1. g \in Busy /\ UNCHANGED <<row, ordered, outdated, launched>>
    BY <1>7 DEF Busy, Prepare, LaunchUnauthorized, NextAD, history
  <2>2. /\ \A h \in Slots \ {g} : run'[h] = run[h]
        /\ run'[g].id = run[g].id /\ run'[g].pc = "launch" /\ run'[g].left = run[g].left
    BY <1>7, <1>a DEF Prepare, LaunchUnauthorized, NextAD, TypeOK, Runs
  <2>3. QED
    BY <2>1, <2>2, <1>a, <1>b, RunsCountMove
<1>8. ASSUME NEW g \in Slots, LaunchSucceeds(g) PROVE RunsCount'
  <2>1. g \in Busy /\ UNCHANGED <<row, ordered, outdated>>
    BY <1>8 DEF Busy, LaunchSucceeds
  <2>2. /\ \A h \in Slots \ {g} : run'[h] = run[h]
        /\ run'[g].id = run[g].id /\ run'[g].pc = "launch" /\ run'[g].left = run[g].left - 1
    BY <1>8, <1>a DEF LaunchSucceeds, Succeeded, TypeOK, Runs
  <2>3. /\ launched'[run[g].id] = launched[run[g].id] + 1
        /\ \A u \in Schedules \ {run[g].id} : launched'[u] = launched[u]
    BY <1>8, <2>1, <1>a, BusyFacts DEF LaunchSucceeds, TypeOK
  <2>4. run[g].left \in Nat /\ launched[run[g].id] \in Nat
    BY <2>1, <1>a, BusyFacts
  <2>5. launched'[run[g].id] + run'[g].left = launched[run[g].id] + run[g].left
    BY <2>2, <2>3, <2>4
  <2>6. QED
    BY <2>1, <2>2, <2>3, <2>5, <1>a, <1>b, RunsCountMove
<1>9. ASSUME NEW g \in Slots, LaunchErrs(g) PROVE RunsCount'
  <2>1. g \in Busy /\ UNCHANGED <<row, ordered, outdated>>
    BY <1>9 DEF Busy, LaunchErrs
  <2>2. /\ \A h \in Slots \ {g} : run'[h] = run[h]
        /\ run'[g].id = run[g].id /\ run'[g].pc = "launch" /\ run'[g].left = run[g].left
    BY <1>9, <1>a DEF LaunchErrs, TypeOK, Runs
  <2>3. Untroubled' => launched' = launched
    BY <1>9, <1>a, Troubled DEF LaunchErrs
  <2>4. \A u \in Schedules \ {run[g].id} : launched'[u] = launched[u]
    BY <1>9, <1>a DEF LaunchErrs, TypeOK
  <2>5. QED
    BY <2>1, <2>2, <2>3, <2>4, <1>a, <1>b, RunsCountMove
<1>10. CASE Restart
  BY <1>10, <1>a, Troubled DEF Restart, RunsCount
<1>11. QED
  BY <1>1, <1>2, <1>3, <1>4, <1>5, <1>6, <1>7, <1>8, <1>9, <1>10 DEF Next, Handlers, Pump, RunStep

\* A step that changes no books and no row of an idle schedule, unless to
\* remove it, keeps the count of the rows.
LEMMA RowsCountFrame ==
    ASSUME RowsCount, Untroubled' => Untroubled, outdated \subseteq outdated',
           \A t \in Schedules \ running' :
               /\ t \notin running
               /\ launched'[t] = launched[t] /\ ordered'[t] = ordered[t]
               /\ Exists(t)' => Exists(t) /\ row'[t].left = row[t].left
    PROVE  RowsCount'
  BY DEF RowsCount

\* Likewise for a run that ends with its schedule's row in order.
LEMMA RowsCountEnd ==
    ASSUME TypeOK, OneRunPerSchedule, RunsCount, RowsCount, Untroubled' => Untroubled,
           NEW g \in Busy, End(g), UNCHANGED history,
           \A u \in Schedules \ {run[g].id} : row'[u] = row[u],
           Untroubled' /\ row'[run[g].id].state \in {"active", "paused"}
               => row'[run[g].id].left = run[g].left
    PROVE  RowsCount'
<1> SUFFICES ASSUME Untroubled', NEW t \in Schedules, t \notin running', t \notin outdated'
             PROVE  /\ launched'[t] <= ordered'[t]
                    /\ Exists(t)' => launched'[t] + row'[t].left = ordered'[t]
  BY DEF RowsCount
<1>1. Untroubled /\ UNCHANGED <<launched, ordered, outdated>>
  BY DEF history
<1>2. CASE t = run[g].id
  <2>1. launched[t] + run[g].left = ordered[t]
    BY <1>1, <1>2 DEF RunsCount, RunCounts
  <2>2. launched[t] \in Nat /\ ordered[t] \in Nat /\ run[g].left \in Nat
    BY <1>2, BusyFacts
  <2>3. QED
    BY <1>1, <1>2, <2>1, <2>2 DEF Exists
<1>3. CASE t # run[g].id
  <2>1. t \notin running /\ row'[t] = row[t]
    BY <1>3 DEF End
  <2>2. QED
    BY <1>1, <2>1 DEF RowsCount, Exists
<1>4. QED
  BY <1>2, <1>3

\* Every step keeps the count of the rows.
LEMMA RowsCountStep == IInv /\ [Next]_vars => RowsCount'
<1> SUFFICES ASSUME IInv, [Next]_vars PROVE RowsCount'
  OBVIOUS
<1>a. TypeOK /\ OneRunPerSchedule /\ RowsSound /\ RunsCount /\ RowsCount /\ WithinBudget
  BY DEF IInv
<1>b. Untroubled' => Untroubled
  BY <1>a, BudgetStep
<1>1. CASE UNCHANGED vars \/ (\E e \in list : Skip(e)) \/ ListActiveCreateTasks
  <2>1. UNCHANGED <<running, row, outdated, launched, ordered>>
    BY <1>1 DEF vars, Skip, ListActiveCreateTasks, history
  <2>2. QED
    BY <2>1, <1>a, <1>b, RowsCountFrame DEF Exists
<1>2. ASSUME NEW t \in Schedules, NEW n \in Numbers, Schedule(t, n) PROVE RowsCount'
  <2> SUFFICES ASSUME Untroubled', NEW u \in Schedules, u \notin running', u \notin outdated'
               PROVE  /\ launched'[u] <= ordered'[u]
                      /\ Exists(u)' => launched'[u] + row'[u].left = ordered'[u]
    BY DEF RowsCount
  <2>1. UNCHANGED <<running, launched, outdated>> /\ Untroubled
    BY <1>2, <1>b DEF Schedule
  <2>2. CASE u = t
    <3>1. row'[t].left = n /\ ordered'[t] = n /\ launched[t] = 0 /\ n \in Nat
      BY <1>2, <1>a, SchedulerAssumption DEF Schedule, TypeOK, Numbers, RowsSound
    <3>2. QED
      BY <2>1, <2>2, <3>1
  <2>3. CASE u # t
    <3>1. row'[u] = row[u] /\ ordered'[u] = ordered[u]
      BY <1>2, <2>3, <1>a DEF Schedule, TypeOK
    <3>2. QED
      BY <2>1, <3>1, <1>a DEF RowsCount, Exists
  <2>4. QED
    BY <2>2, <2>3
<1>3. ASSUME NEW t \in Schedules, NEW s \in {"active", "paused"},
             SetPaused(t, s) \/ Remove(t) \/ Elapse(t)
      PROVE RowsCount'
  <2>1. Exists(t)
    BY <1>3 DEF SetPaused, Remove, Elapse
  <2>2. /\ \A u \in Schedules \ {t} : row'[u] = row[u]
        /\ row'[t].state \in {"active", "paused"} => row'[t].left = row[t].left
    BY <1>3, <1>a DEF SetPaused, Remove, Elapse, TypeOK, Rows
  <2>3. UNCHANGED <<running, outdated, launched, ordered>>
    BY <1>3 DEF SetPaused, Remove, Elapse, history
  <2>4. \A u \in Schedules : Exists(u)' => Exists(u) /\ row'[u].left = row[u].left
    BY <2>1, <2>2 DEF Exists
  <2>5. QED
    BY <2>3, <2>4, <1>a, <1>b, RowsCountFrame
<1>4. ASSUME NEW t \in Schedules, NEW n \in 0..MaxNumbers, NEW s \in {"active", "paused"},
             UpdateCreateTask(t, n, s)
      PROVE RowsCount'
  BY <1>4, <1>a, Troubled DEF UpdateCreateTask, RowsCount
<1>5. ASSUME NEW e \in list, NEW g \in Slots, Start(e, g) PROVE RowsCount'
  <2>1. e.id \in Schedules
    BY <1>a DEF TypeOK, Lists
  <2>2. Write(e.id, [row[e.id] EXCEPT !.due = FALSE])
    BY <1>5 DEF Start
  <2>3. \A u \in Schedules \ {e.id} : row'[u] = row[u]
    BY <2>1, <2>2, <1>a, WriteStep
  <2>4. /\ running' = running \cup {e.id} /\ outdated \subseteq outdated'
        /\ UNCHANGED <<launched, ordered>>
    BY <1>5 DEF Start
  <2>5. \A u \in Schedules \ running' : u \notin running /\ row'[u] = row[u]
    BY <2>3, <2>4
  <2>6. QED
    BY <2>4, <2>5, <1>a, <1>b, RowsCountFrame DEF Exists
<1>6. ASSUME NEW g \in Slots, Abort(g) PROVE RowsCount'
  <2>1. g \in Busy /\ End(g) /\ UNCHANGED history /\ row' = row /\ run[g].pc = "prepare"
    BY <1>6 DEF Busy, Abort
  <2>2. CASE run[g].id \in outdated
    <3>1. \A t \in (Schedules \ running') \ outdated' :
              t \notin running /\ row'[t] = row[t] /\ launched'[t] = launched[t]
              /\ ordered'[t] = ordered[t] /\ t \notin outdated
      BY <2>1, <2>2 DEF End, history
    <3>2. QED
      BY <3>1, <1>a, <1>b DEF RowsCount, Exists
  <2>3. CASE run[g].id \notin outdated
    <3>1. Untroubled' /\ row'[run[g].id].state \in {"active", "paused"}
               => row'[run[g].id].left = run[g].left
      BY <2>1, <2>3, <1>a, <1>b DEF RunsCount, RunCounts, Exists
    <3>2. QED
      BY <2>1, <3>1, <1>a, <1>b, RowsCountEnd
  <2>4. QED
    BY <2>2, <2>3
<1>7. ASSUME NEW g \in Slots, GiveUp(g) PROVE RowsCount'
  <2>1. g \in Busy /\ End(g) /\ UNCHANGED history
    BY <1>7 DEF Busy, GiveUp
  <2>2. run[g].id \in Schedules /\ row[run[g].id] \in Rows
    BY <2>1, <1>a, BusyFacts
  <2> DEFINE r == [row[run[g].id] EXCEPT !.state = "gone", !.left = 0]
  <2>3. Write(run[g].id, r) /\ r.state = "gone"
    BY <1>7, <2>2 DEF GiveUp, DeleteCreateTask, Rows
  <2>4. /\ \A u \in Schedules \ {run[g].id} : row'[u] = row[u]
        /\ row'[run[g].id] = row[run[g].id] \/ (Exists(run[g].id) /\ row'[run[g].id] = r)
        /\ Untroubled' /\ Exists(run[g].id) => row'[run[g].id] = r
    BY <2>2, <2>3, <1>a, WriteStep
  <2>5. Untroubled' => row'[run[g].id].state \notin {"active", "paused"}
    BY <2>3, <2>4 DEF Exists
  <2>6. QED
    BY <2>1, <2>4, <2>5, <1>a, <1>b, RowsCountEnd
<1>8. ASSUME NEW g \in Slots, Finish(g) PROVE RowsCount'
  <2>1. g \in Busy /\ End(g) /\ UNCHANGED history
    BY <1>8 DEF Busy, Finish
  <2>2. run[g].id \in Schedules /\ row[run[g].id] \in Rows
    BY <2>1, <1>a, BusyFacts
  <2>3. Write(run[g].id, Outcome(run[g]))
    BY <1>8 DEF Finish
  <2>4. /\ \A u \in Schedules \ {run[g].id} : row'[u] = row[u]
        /\ row'[run[g].id] = row[run[g].id] \/ (Exists(run[g].id) /\ row'[run[g].id] = Outcome(run[g]))
        /\ Untroubled' /\ Exists(run[g].id) => row'[run[g].id] = Outcome(run[g])
    BY <2>2, <2>3, <1>a, WriteStep
  <2>5. Outcome(run[g]).state = "gone" \/ Outcome(run[g]).left = run[g].left
    BY <2>2 DEF Outcome, Rows
  <2>6. Untroubled' /\ row'[run[g].id].state \in {"active", "paused"}
            => row'[run[g].id].left = run[g].left
    BY <2>4, <2>5 DEF Exists
  <2>7. QED
    BY <2>1, <2>4, <2>6, <1>a, <1>b, RowsCountEnd
<1>9. ASSUME NEW g \in Slots,
             Prepare(g) \/ LaunchSucceeds(g) \/ LaunchErrs(g) \/ LaunchUnauthorized(g) \/ NextAD(g)
      PROVE RowsCount'
  <2>1. g \in Busy
    BY <1>9 DEF Busy, Prepare, LaunchSucceeds, LaunchErrs, LaunchUnauthorized, NextAD
  <2>2. run[g].id \in running
    BY <2>1, <1>a, BusyFacts
  <2>3. UNCHANGED <<row, running, ordered, outdated>>
    BY <1>9 DEF Prepare, LaunchSucceeds, LaunchErrs, LaunchUnauthorized, NextAD, history
  <2>4. \A u \in Schedules \ {run[g].id} : launched'[u] = launched[u]
    BY <1>9, <1>a DEF Prepare, LaunchSucceeds, LaunchErrs, LaunchUnauthorized, NextAD, history,
       TypeOK
  <2>5. QED
    BY <2>2, <2>3, <2>4, <1>a, <1>b, RowsCountFrame DEF Exists
<1>10. ASSUME NEW g \in Slots, Panic(g) PROVE RowsCount'
  BY <1>10, <1>a, Troubled DEF Panic, RowsCount
<1>11. CASE Restart
  BY <1>11, <1>a, Troubled DEF Restart, RowsCount
<1>12. QED
  BY <1>1, <1>2, <1>3, <1>4, <1>5, <1>6, <1>7, <1>8, <1>9, <1>10, <1>11
  DEF Next, Handlers, Pump, RunStep

-----------------------------------------------------------------------------
(* The theorems.                                                            *)

\* The scheduler starts with empty books.
LEMMA InitHolds == Init => IInv
<1> SUFFICES ASSUME Init PROVE IInv
  OBVIOUS
<1>1. FreeRun \in Runs /\ FreeRun.pc = "free"
  BY DEF FreeRun, Runs
<1>2. TypeOK
  BY <1>1, SchedulerAssumption DEF Init, TypeOK, Rows
<1>3. Busy = {}
  BY <1>1 DEF Init, Busy
<1>4. OneRunPerSchedule /\ RunsCount
  BY <1>3 DEF Init, OneRunPerSchedule, RunsCount
<1>5. WithinBudget
  BY SchedulerAssumption DEF Init, WithinBudget
<1>6. RowsSound /\ RowsCount
  BY DEF Init, RowsSound, RowsCount, Exists
<1>7. QED
  BY <1>2, <1>4, <1>5, <1>6 DEF IInv

\* The inductive invariant holds in every reachable state.
THEOREM Inductive == Spec => []IInv
<1>1. IInv /\ [Next]_vars => IInv'
  BY TypeStep, BudgetStep, OneRunStep, RowsSoundStep, RunsCountStep, RowsCountStep DEF IInv
<1>2. QED
  BY <1>1, InitHolds, PTL DEF Spec

\* The invariant says more than the books of the runs and of the rows apart.
LEMMA BooksAdd == IInv => Accounted
<1> SUFFICES ASSUME IInv, Untroubled, NEW t \in Schedules, t \notin outdated
             PROVE  /\ launched[t] + Outstanding(t) <= ordered[t]
                    /\ Exists(t) => launched[t] + Outstanding(t) = ordered[t]
  BY DEF Accounted
<1>1. TypeOK /\ OneRunPerSchedule /\ RowsSound /\ RunsCount /\ RowsCount
  BY DEF IInv
<1>2. launched[t] \in Nat /\ ordered[t] \in Nat
  BY <1>1 DEF TypeOK
<1>3. CASE RunsOf(t) # {}
  <2> DEFINE g == CHOOSE h \in RunsOf(t) : TRUE
  <2>1. g \in Busy /\ run[g].id = t
    BY <1>3 DEF RunsOf
  <2>2. launched[t] + run[g].left = ordered[t]
    BY <2>1, <1>1 DEF RunsCount, RunCounts
  <2>3. Outstanding(t) = run[g].left
    BY <1>3 DEF Outstanding
  <2>4. QED
    BY <2>2, <2>3, <1>2
<1>4. CASE RunsOf(t) = {}
  <2>1. t \notin running
    BY <1>1, <1>4 DEF OneRunPerSchedule, RunsOf
  <2>2. Outstanding(t) = row[t].left
    BY <1>4 DEF Outstanding
  <2>3. /\ launched[t] <= ordered[t]
        /\ Exists(t) => launched[t] + row[t].left = ordered[t]
        /\ ~Exists(t) => row[t].left = 0
    BY <2>1, <1>1 DEF RowsCount, RowsSound
  <2>4. QED
    BY <2>2, <2>3, <1>2
<1>5. QED
  BY <1>3, <1>4

\* Every reachable state of the scheduler has the declared types.
THEOREM TypeCorrect == Spec => []TypeOK
<1>1. IInv => TypeOK
  BY DEF IInv
<1>2. QED
  BY <1>1, Inductive, PTL

\* createTaskRunning names exactly the schedules that have a run, and no
\* schedule ever has two.
THEOREM RunsExclusive == Spec => []OneRunPerSchedule
<1>1. IInv => OneRunPerSchedule
  BY DEF IInv
<1>2. QED
  BY <1>1, Inductive, PTL

\* Without crashes, failed writes, hidden launches and edits the launches and
\* what is outstanding add up to the order, except for a schedule one of whose
\* runs began from an outdated copy.
THEOREM BooksBalance == Spec => []Accounted
  BY BooksAdd, Inductive, PTL

-----------------------------------------------------------------------------
(* The damage.                                                              *)

Losses     == Spent("kill") + Spent("fault")
Allowed(t) == ordered[t] * (1 + Losses) + Spent("hidden")

\* The row of schedule t and a run of it keep within what is allowed.
RowBound(t) ==
    /\ row[t].left <= ordered[t]
    /\ t \notin running => launched[t] + row[t].left <= Allowed(t)

RunBound(g) ==
    /\ run[g].left <= ordered[run[g].id]
    /\ launched[run[g].id] + run[g].left <= Allowed(run[g].id)
    /\ run[g].pc = "prepare" /\ Exists(run[g].id) => run[g].left = row[run[g].id].left

Bounded(t) == RowBound(t) /\ \A g \in RunsOf(t) : RunBound(g)

DamageSound == Spent("edit") = 0 => \A t \in Schedules \ outdated : Bounded(t)

\* One more loss allows the number ordered once more.
LEMMA OneMoreLoss ==
    ASSUME NEW o \in Nat, NEW k \in Nat
    PROVE  /\ o * (1 + k) \in Nat
           /\ o * (1 + (k + 1)) = o * (1 + k) + o
  OBVIOUS

\* The number ordered is allowed in any case.
LEMMA AtLeastOnce ==
    ASSUME NEW o \in Nat, NEW k \in Nat
    PROVE  o * (1 + k) >= o
<1>1. o * (1 + k) = o + o * k
  OBVIOUS
<1>2. o * k \in Nat
  OBVIOUS
<1>3. QED
  BY <1>1, <1>2

\* What was spent is a natural number.
LEMMA SpentType ==
    ASSUME TypeOK, WithinBudget, NEW d \in Disturbances
    PROVE  Spent(d) \in Nat
<1>1. budget[d] \in Nat /\ Budget[d] \in Nat /\ budget[d] <= Budget[d]
  BY SchedulerAssumption DEF TypeOK, WithinBudget
<1>2. QED
  BY <1>1 DEF Spent

\* A step spends nothing, or one disturbance once.
LEMMA SpendsOne ==
    ASSUME [Next]_vars
    PROVE  UNCHANGED budget \/ \E d \in Disturbances : Spend(d)
<1>a. {"user", "edit", "refuse", "hidden", "kill", "fault"} \subseteq Disturbances
  BY DEF Disturbances
<1>1. QED
  BY <1>a DEF Next, Handlers, Pump, RunStep, vars, Schedule, SetPaused, Remove,
     UpdateCreateTask, Elapse, ListActiveCreateTasks, Skip, Start, Abort, GiveUp,
     DeleteCreateTask, Write, Prepare, LaunchSucceeds, LaunchErrs, LaunchUnauthorized,
     NextAD, Finish, Panic, Restart

\* What is allowed never shrinks; a loss adds the order to it and a hidden
\* launch one.
LEMMA AllowedStep ==
    ASSUME IInv, TypeOK', WithinBudget', [Next]_vars, NEW t \in Schedules,
           ordered'[t] = ordered[t]
    PROVE  /\ Allowed(t) \in Nat /\ Allowed(t)' \in Nat
           /\ Allowed(t)' >= Allowed(t)
           /\ Spend("kill") \/ Spend("fault") => Allowed(t)' = Allowed(t) + ordered[t]
           /\ Spend("hidden") => Allowed(t)' = Allowed(t) + 1
<1>a. {"user", "edit", "refuse", "hidden", "kill", "fault"} \subseteq Disturbances
  BY DEF Disturbances
<1>b. /\ Spent("kill") \in Nat /\ Spent("fault") \in Nat /\ Spent("hidden") \in Nat
      /\ ordered[t] \in Nat
  BY <1>a, SpentType DEF IInv, TypeOK
<1>c. Losses \in Nat
  BY <1>b DEF Losses
<1>d. budget \in [Disturbances -> Nat] /\ Budget \in [Disturbances -> Nat]
  BY SchedulerAssumption DEF IInv, TypeOK
<1>e. ordered[t] * (1 + Losses) \in Nat
      /\ ordered[t] * (1 + (Losses + 1)) = ordered[t] * (1 + Losses) + ordered[t]
  BY <1>b, <1>c, OneMoreLoss
<1>1. ASSUME Losses' = Losses, Spent("hidden")' = Spent("hidden") PROVE Allowed(t)' = Allowed(t)
  BY <1>1 DEF Allowed
<1>2. ASSUME Losses' = Losses + 1, Spent("hidden")' = Spent("hidden")
      PROVE  Allowed(t)' = Allowed(t) + ordered[t]
  <2>1. Allowed(t)' = ordered[t] * (1 + (Losses + 1)) + Spent("hidden")
    BY <1>2 DEF Allowed
  <2>2. QED
    BY <2>1, <1>e, <1>b DEF Allowed
<1>3. ASSUME Losses' = Losses, Spent("hidden")' = Spent("hidden") + 1
      PROVE  Allowed(t)' = Allowed(t) + 1
  <2>1. Allowed(t)' = ordered[t] * (1 + Losses) + (Spent("hidden") + 1)
    BY <1>3 DEF Allowed
  <2>2. QED
    BY <2>1, <1>e, <1>b DEF Allowed
<1>4. ASSUME UNCHANGED budget PROVE Losses' = Losses /\ Spent("hidden")' = Spent("hidden")
  BY <1>4 DEF Losses, Spent
<1>5. ASSUME NEW d \in Disturbances, Spend(d)
      PROVE  /\ d \in {"kill", "fault"} => Losses' = Losses + 1 /\ Spent("hidden")' = Spent("hidden")
             /\ d = "hidden" => Losses' = Losses /\ Spent("hidden")' = Spent("hidden") + 1
             /\ d \notin {"kill", "fault", "hidden"} =>
                    Losses' = Losses /\ Spent("hidden")' = Spent("hidden")
  <2>1. /\ budget'[d] = budget[d] - 1
        /\ \A e \in Disturbances \ {d} : budget'[e] = budget[e]
    BY <1>5, <1>d DEF Spend
  <2>2. \A e \in Disturbances : budget[e] \in Nat /\ Budget[e] \in Nat
    BY <1>d
  <2>3. QED
    BY <2>1, <2>2, <1>a DEF Losses, Spent
<1>6. Allowed(t) \in Nat
  BY <1>e, <1>b DEF Allowed
<1>7. Spend("kill") \/ Spend("fault") => Allowed(t)' = Allowed(t) + ordered[t]
  BY <1>2, <1>5, <1>a
<1>8. Spend("hidden") => Allowed(t)' = Allowed(t) + 1
  BY <1>3, <1>5, <1>a
<1>9. Allowed(t)' = Allowed(t) \/ Allowed(t)' = Allowed(t) + ordered[t]
      \/ Allowed(t)' = Allowed(t) + 1
  BY SpendsOne, <1>1, <1>2, <1>3, <1>4, <1>5
<1>10. QED
  BY <1>6, <1>7, <1>8, <1>9, <1>b

\* Without edits after a step there were none before, nor in it.
LEMMA UneditedBefore ==
    ASSUME TypeOK, WithinBudget, WithinBudget', TypeOK', [Next]_vars, Spent("edit")' = 0
    PROVE  Spent("edit") = 0 /\ ~Spend("edit")
<1>a. "edit" \in Disturbances
  BY DEF Disturbances
<1>b. budget \in [Disturbances -> Nat] /\ budget["edit"] \in Nat /\ Budget["edit"] \in Nat
      /\ budget["edit"] <= Budget["edit"] /\ budget'["edit"] \in Nat
  BY <1>a, SchedulerAssumption DEF TypeOK, WithinBudget
<1>1. budget'["edit"] = Budget["edit"]
  BY <1>b DEF Spent
<1>2. budget'["edit"] <= budget["edit"]
  BY <1>a, <1>b, SpendsOne, SpendStep
<1>3. Spend("edit") => budget'["edit"] = budget["edit"] - 1
  BY <1>a, <1>b, SpendStep
<1>4. QED
  BY <1>1, <1>2, <1>3, <1>b DEF Spent

\* The numbers that the bounds of a schedule are about.
LEMMA ScheduleNumbers ==
    ASSUME IInv, NEW t \in Schedules
    PROVE  /\ launched[t] \in Nat /\ ordered[t] \in Nat /\ row[t] \in Rows /\ row[t].left \in Nat
           /\ ~Exists(t) => row[t].left = 0
           /\ \A g \in RunsOf(t) : g \in Busy /\ g \in Slots /\ run[g].id = t /\ run[g].left \in Nat
           /\ t \in running => RunsOf(t) # {}
  BY DEF IInv, TypeOK, Rows, Runs, RowsSound, RunsOf, Busy, OneRunPerSchedule

\* A step that is no business of the schedule's runs, and does not raise what
\* its row has left, keeps its bounds.
LEMMA BoundedFrame ==
    ASSUME IInv, NEW t \in Schedules, Bounded(t), row'[t].left \in Nat,
           Allowed(t) \in Nat, Allowed(t)' \in Nat, Allowed(t)' >= Allowed(t),
           ordered'[t] = ordered[t], launched'[t] = launched[t],
           t \in running' <=> t \in running,
           row'[t].left <= row[t].left,
           Exists(t)' => Exists(t) /\ row'[t].left = row[t].left,
           \A g \in RunsOf(t)' : g \in RunsOf(t) /\ run'[g] = run[g]
    PROVE  Bounded(t)'
<1>1. launched[t] \in Nat /\ ordered[t] \in Nat /\ row[t].left \in Nat
  BY ScheduleNumbers
<1>2. RowBound(t)'
  BY <1>1 DEF Bounded, RowBound
<1>3. ASSUME NEW g \in RunsOf(t)' PROVE RunBound(g)'
  <2>1. g \in RunsOf(t) /\ run'[g] = run[g] /\ run[g].id = t /\ run[g].left \in Nat
    BY <1>3, ScheduleNumbers
  <2>2. RunBound(g)
    BY <2>1 DEF Bounded
  <2>3. QED
    BY <2>1, <2>2, <1>1 DEF RunBound
<1>4. QED
  BY <1>2, <1>3 DEF Bounded

\* A step of a run that goes on: what it launches it counts, or is allowed.
LEMMA BoundedMove ==
    ASSUME IInv, NEW g \in Busy, NEW t \in Schedules, run[g].id = t, Bounded(t),
           UNCHANGED <<row, running, ordered>>,
           Allowed(t) \in Nat, Allowed(t)' \in Nat,
           launched'[t] \in Nat, run'[g].left \in Nat,
           \A h \in Slots \ {g} : run'[h] = run[h],
           run'[g].id = t, run'[g].pc = "launch", run'[g].left <= run[g].left,
           launched'[t] + run'[g].left - Allowed(t)'
               <= launched[t] + run[g].left - Allowed(t)
    PROVE  Bounded(t)'
<1>1. TypeOK /\ OneRunPerSchedule
  BY DEF IInv
<1>2. t \in Schedules /\ t \in running /\ run[g].left \in Nat /\ launched[t] \in Nat
      /\ ordered[t] \in Nat /\ g \in RunsOf(t)
  BY <1>1, BusyFacts DEF RunsOf
<1>3. RowBound(t)'
  BY <1>2 DEF Bounded, RowBound
<1>4. RunBound(g)
  BY <1>2 DEF Bounded
<1>5. RunBound(g)'
  <2>1. run'[g].left <= ordered'[t]
    BY <1>2, <1>4 DEF RunBound
  <2>2. launched'[t] + run'[g].left <= Allowed(t)'
    BY <1>2, <1>4 DEF RunBound
  <2>3. QED
    BY <2>1, <2>2 DEF RunBound, Allowed
<1>6. RunsOf(t)' \subseteq {g}
  <2>1. ASSUME NEW h \in RunsOf(t)', h # g PROVE FALSE
    <3>1. h \in Busy /\ run[h].id = t
      BY <2>1 DEF RunsOf, Busy
    <3>2. QED
      BY <3>1, <2>1, <1>1, BusyFacts
  <2>2. QED
    BY <2>1
<1>7. QED
  BY <1>3, <1>5, <1>6 DEF Bounded

\* The end of a run leaves its row with what the run had left, or, at the cost
\* of a loss, with what the row had.
LEMMA BoundedEnd ==
    ASSUME IInv, NEW g \in Busy, NEW t \in Schedules, run[g].id = t, Bounded(t),
           End(g), UNCHANGED history,
           Allowed(t) \in Nat, Allowed(t)' \in Nat,
           Allowed(t)' >= Allowed(t), row'[t].left \in Nat,
           \/ row'[t].left <= run[g].left
           \/ /\ row'[t].left = row[t].left
              /\ Allowed(t)' = Allowed(t) + ordered[t]
    PROVE  Bounded(t)'
<1>1. TypeOK /\ OneRunPerSchedule
  BY DEF IInv
<1>2. t \in Schedules /\ run[g].left \in Nat /\ launched[t] \in Nat
      /\ ordered[t] \in Nat /\ row[t].left \in Nat /\ g \in RunsOf(t)
  BY <1>1, BusyFacts DEF RunsOf, Rows
<1>3. RunBound(g) /\ RowBound(t)
  BY <1>2 DEF Bounded
<1>4. launched'[t] = launched[t] /\ ordered'[t] = ordered[t]
  BY DEF history
<1>5. row'[t].left <= ordered[t] /\ launched[t] + row'[t].left <= Allowed(t)'
  BY <1>2, <1>3 DEF RunBound, RowBound
<1>6. RunsOf(t)' = {}
  <2>1. ASSUME NEW h \in RunsOf(t)' PROVE FALSE
    <3>1. h \in Busy' /\ run'[h].id = t
      BY <2>1 DEF RunsOf
    <3>2. h \in Busy /\ h # g /\ run[h].id = t
      BY <3>1, <1>1, EndStep
    <3>3. QED
      BY <3>2, <1>1, BusyFacts
  <2>2. QED
    BY <2>1
<1>7. QED
  BY <1>4, <1>5, <1>6 DEF Bounded, RowBound

\* A run that has nothing to do with the schedule stays the same to it.
LEMMA OtherRun ==
    ASSUME IInv, NEW t \in Schedules, NEW g \in Slots, run[g].id # t \/ g \notin Busy,
           run'[g].id # t \/ run'[g].pc = "free",
           \A h \in Slots \ {g} : run'[h] = run[h]
    PROVE  \A h \in RunsOf(t)' : h \in RunsOf(t) /\ run'[h] = run[h]
  BY DEF RunsOf, Busy

\* Every step of the scheduler keeps the bounds.
LEMMA DamageStep == IInv /\ IInv' /\ DamageSound /\ [Next]_vars => DamageSound'
<1> SUFFICES ASSUME IInv, IInv', DamageSound, [Next]_vars, Spent("edit")' = 0,
                    NEW t \in Schedules, t \notin outdated'
             PROVE  Bounded(t)'
  BY DEF DamageSound
<1>a. /\ TypeOK /\ OneRunPerSchedule /\ RowsSound /\ WithinBudget
      /\ TypeOK' /\ OneRunPerSchedule' /\ RowsSound' /\ WithinBudget'
  BY DEF IInv
<1>b. Spent("edit") = 0 /\ ~Spend("edit")
  BY <1>a, UneditedBefore
<1>c. t \notin outdated
  BY DEF Next, Handlers, Pump, RunStep, vars, Schedule, SetPaused, Remove, history,
     UpdateCreateTask, Elapse, ListActiveCreateTasks, Skip, Start, Abort, GiveUp,
     Prepare, LaunchSucceeds, LaunchErrs, LaunchUnauthorized, NextAD, Finish, Panic, Restart
<1>d. Bounded(t)
  BY <1>b, <1>c DEF DamageSound
<1>e. /\ launched[t] \in Nat /\ ordered[t] \in Nat /\ row[t] \in Rows /\ row[t].left \in Nat
      /\ ~Exists(t) => row[t].left = 0
      /\ \A g \in RunsOf(t) : g \in Busy /\ g \in Slots /\ run[g].id = t /\ run[g].left \in Nat
      /\ t \in running => RunsOf(t) # {}
  BY ScheduleNumbers
<1>f. row'[t].left \in Nat /\ launched'[t] \in Nat
  BY <1>a DEF TypeOK, Rows
<1>g. ASSUME ordered'[t] = ordered[t]
      PROVE  /\ Allowed(t) \in Nat /\ Allowed(t)' \in Nat /\ Allowed(t)' >= Allowed(t)
             /\ Spend("kill") \/ Spend("fault") => Allowed(t)' = Allowed(t) + ordered[t]
             /\ Spend("hidden") => Allowed(t)' = Allowed(t) + 1
  BY <1>a, <1>g, AllowedStep
<1>1. CASE UNCHANGED vars \/ (\E e \in list : Skip(e)) \/ ListActiveCreateTasks
  <2>1. UNCHANGED <<running, row, run, launched, ordered>>
    BY <1>1 DEF vars, Skip, ListActiveCreateTasks, history
  <2>2. \A g \in RunsOf(t)' : g \in RunsOf(t) /\ run'[g] = run[g]
    BY <2>1 DEF RunsOf, Busy
  <2>3. Exists(t)' <=> Exists(t)
    BY <2>1 DEF Exists
  <2>4. QED
    BY <2>1, <2>2, <2>3, <1>d, <1>e, <1>f, <1>g, BoundedFrame
<1>2. ASSUME NEW u \in Schedules, NEW n \in Numbers, Schedule(u, n) PROVE Bounded(t)'
  <2>1. UNCHANGED <<running, run, launched, budget>>
    BY <1>2 DEF Schedule
  <2>2. \A g \in RunsOf(t)' : g \in RunsOf(t) /\ run'[g] = run[g]
    BY <2>1 DEF RunsOf, Busy
  <2>3. CASE u = t
    <3>1. row'[t].left = n /\ ordered'[t] = n /\ launched[t] = 0 /\ t \notin running /\ n \in Nat
      BY <1>2, <2>3, <1>a, SchedulerAssumption DEF Schedule, TypeOK, Numbers, RowsSound
    <3>2. Allowed(t)' >= n /\ Allowed(t)' \in Nat
      <4>1. {"kill", "fault", "hidden"} \subseteq Disturbances
        BY DEF Disturbances
      <4>2. Spent("kill")' \in Nat /\ Spent("fault")' \in Nat /\ Spent("hidden")' \in Nat
        <5>1. Spent("kill") \in Nat /\ Spent("fault") \in Nat /\ Spent("hidden") \in Nat
          BY <4>1, <1>a, SpentType
        <5>2. QED
          BY <5>1, <2>1 DEF Spent
      <4>3. Losses' \in Nat
        BY <4>2 DEF Losses
      <4>4. n * (1 + Losses') >= n /\ n * (1 + Losses') \in Nat
        BY <4>3, <3>1, AtLeastOnce, OneMoreLoss
      <4>5. Allowed(t)' = n * (1 + Losses') + Spent("hidden")'
        BY <3>1 DEF Allowed
      <4>6. QED
        BY <4>2, <4>4, <4>5, <3>1
    <3>3. RowBound(t)'
      BY <3>1, <3>2, <2>1 DEF RowBound
    <3>4. RunsOf(t)' = {}
      BY <2>2, <3>1, <1>a DEF RunsOf, OneRunPerSchedule
    <3>5. QED
      BY <3>3, <3>4 DEF Bounded
  <2>4. CASE u # t
    <3>1. row'[t] = row[t] /\ ordered'[t] = ordered[t] /\ launched'[t] = launched[t]
      BY <1>2, <2>4, <1>a DEF Schedule, TypeOK
    <3>2. Exists(t)' <=> Exists(t)
      BY <3>1 DEF Exists
    <3>3. QED
      BY <2>1, <2>2, <3>1, <3>2, <1>d, <1>e, <1>f, <1>g, BoundedFrame
  <2>5. QED
    BY <2>3, <2>4
<1>3. ASSUME NEW u \in Schedules, NEW s \in {"active", "paused"},
             SetPaused(u, s) \/ Remove(u) \/ Elapse(u)
      PROVE Bounded(t)'
  <2>1. UNCHANGED <<running, run, launched, ordered>>
    BY <1>3 DEF SetPaused, Remove, Elapse, history
  <2>2. \A g \in RunsOf(t)' : g \in RunsOf(t) /\ run'[g] = run[g]
    BY <2>1 DEF RunsOf, Busy
  <2>3. row'[t].left <= row[t].left /\ (Exists(t)' => Exists(t) /\ row'[t].left = row[t].left)
    <3>1. CASE u # t
      BY <1>3, <3>1, <1>a, <1>e DEF SetPaused, Remove, Elapse, Exists, TypeOK
    <3>2. CASE u = t
      BY <1>3, <3>2, <1>a, <1>e DEF SetPaused, Remove, Elapse, Exists, TypeOK, Rows
    <3>3. QED
      BY <3>1, <3>2
  <2>4. QED
    BY <2>1, <2>2, <2>3, <1>d, <1>e, <1>f, <1>g, BoundedFrame
<1>4. ASSUME NEW u \in Schedules, NEW n \in 0..MaxNumbers, NEW s \in {"active", "paused"},
             UpdateCreateTask(u, n, s)
      PROVE Bounded(t)'
  BY <1>4, <1>b DEF UpdateCreateTask
<1>5. ASSUME NEW e \in list, NEW g \in Slots, Start(e, g) PROVE Bounded(t)'
  <2>1. e.id \in Schedules /\ e.id \notin running /\ run[g].pc = "free"
    BY <1>5, <1>a DEF TypeOK, Lists, Start, Startable
  <2>2. /\ run'[g].id = e.id /\ run'[g].left = e.left /\ run'[g].pc = "prepare"
        /\ \A k \in Slots \ {g} : run'[k] = run[k]
    BY <1>5, <1>a DEF Start, TypeOK, FreeRun
  <2>3. Write(e.id, [row[e.id] EXCEPT !.due = FALSE])
    BY <1>5 DEF Start
  <2>4. [row[e.id] EXCEPT !.due = FALSE].left = row[e.id].left
        /\ [row[e.id] EXCEPT !.due = FALSE].state = row[e.id].state
    BY <2>1, <1>a DEF TypeOK, Rows
  <2>5. /\ \A u \in Schedules \ {e.id} : row'[u] = row[u]
        /\ row'[e.id].left = row[e.id].left /\ row'[e.id].state = row[e.id].state
    BY <2>1, <2>3, <2>4, <1>a, WriteStep
  <2>6. UNCHANGED <<ordered, launched>> /\ running' = running \cup {e.id}
    BY <1>5 DEF Start
  <2>7. row'[t].left = row[t].left /\ (Exists(t)' <=> Exists(t))
    BY <2>5 DEF Exists
  <2>8. CASE e.id = t
    <3>1. Exists(t) /\ row[t].left = e.left
      BY <1>5, <2>8 DEF Start
    <3>2. t \notin running /\ RowBound(t)
      BY <2>1, <2>8, <1>d DEF Bounded
    <3>3. launched[t] + row[t].left <= Allowed(t)' /\ row[t].left <= ordered[t]
      BY <3>2, <2>6, <1>e, <1>g DEF RowBound
    <3>4. RowBound(t)' /\ RunBound(g)'
      BY <3>1, <3>3, <2>2, <2>6, <2>7, <2>8 DEF RowBound, RunBound, Allowed, Losses, Spent
    <3>5. RunsOf(t)' \subseteq {g}
      BY <2>2, <2>6, <2>8, <3>2, <1>a DEF RunsOf, Busy, OneRunPerSchedule
    <3>6. QED
      BY <3>4, <3>5 DEF Bounded
  <2>9. CASE e.id # t
    <3>1. \A h \in RunsOf(t)' : h \in RunsOf(t) /\ run'[h] = run[h]
      BY <2>1, <2>2, <2>9, OtherRun DEF Busy
    <3>2. QED
      BY <2>6, <2>7, <2>9, <3>1, <1>d, <1>e, <1>f, <1>g, BoundedFrame
  <2>10. QED
    BY <2>8, <2>9
<1>6. ASSUME NEW g \in Slots, Abort(g) \/ GiveUp(g) \/ Finish(g) \/ Panic(g) PROVE Bounded(t)'
  <2>1. g \in Busy /\ End(g) /\ UNCHANGED history
    BY <1>6 DEF Busy, Abort, GiveUp, Finish, Panic
  <2>2. run[g].id \in Schedules /\ run[g].left \in Nat /\ run[g] \in Runs
    BY <2>1, <1>a, BusyFacts
  <2>3. ordered' = ordered /\ launched' = launched
    BY <2>1 DEF history
  <2>4. \A u \in Schedules \ {run[g].id} : row'[u] = row[u]
    <3>1. row' = row \/ \E r : Write(run[g].id, r)
      BY <1>6 DEF Abort, GiveUp, DeleteCreateTask, Finish, Panic
    <3>2. QED
      BY <2>2, <3>1, <1>a, WriteStep
  <2>5. CASE run[g].id # t
    <3>1. row'[t] = row[t] /\ (t \in running' <=> t \in running)
      BY <2>1, <2>4, <2>5 DEF End
    <3>2. run'[g].pc = "free" /\ \A h \in Slots \ {g} : run'[h] = run[h]
      BY <2>1, <1>a DEF End, TypeOK, FreeRun
    <3>3. \A h \in RunsOf(t)' : h \in RunsOf(t) /\ run'[h] = run[h]
      BY <3>2, <2>5, OtherRun
    <3>4. Exists(t)' <=> Exists(t)
      BY <3>1 DEF Exists
    <3>5. QED
      BY <2>3, <3>1, <3>3, <3>4, <1>d, <1>e, <1>f, <1>g, BoundedFrame
  <2>6. CASE run[g].id = t
    <3>1. RunBound(g)
      BY <2>1, <2>6, <1>d DEF Bounded, RunsOf
    <3> SUFFICES \/ row'[t].left <= run[g].left
                 \/ row'[t].left = row[t].left /\ (Spend("kill") \/ Spend("fault"))
      BY <2>1, <2>3, <2>6, <1>d, <1>f, <1>g, BoundedEnd
    <3>2. CASE Abort(g)
      <4>1. row' = row /\ run[g].pc = "prepare"
        BY <3>2 DEF Abort
      <4>2. QED
        BY <4>1, <3>1, <2>2, <2>6, <1>e DEF RunBound
    <3>3. CASE Panic(g)
      BY <3>3 DEF Panic
    <3>4. CASE GiveUp(g)
      <4> DEFINE r == [row[t] EXCEPT !.state = "gone", !.left = 0]
      <4>1. Write(t, r) /\ r.left = 0
        BY <3>4, <2>6, <1>e DEF GiveUp, DeleteCreateTask, Rows
      <4>2. row'[t].left = 0 \/ (row' = row /\ Spend("fault"))
        BY <4>1, <1>a, <1>e DEF Write, TypeOK
      <4>3. QED
        BY <4>2, <2>2
    <3>5. CASE Finish(g)
      <4>1. Write(t, Outcome(run[g]))
        BY <3>5, <2>6 DEF Finish
      <4>2. Outcome(run[g]).left = 0 \/ Outcome(run[g]).left = run[g].left
        BY <2>2, <2>6, <1>e DEF Outcome, Rows
      <4>3. row'[t] = Outcome(run[g]) \/ (row'[t] = row[t] /\ row[t].left = 0)
            \/ (row' = row /\ Spend("fault"))
        BY <4>1, <1>a, <1>e DEF Write, TypeOK
      <4>4. QED
        BY <4>2, <4>3, <2>2
    <3>6. QED
      BY <1>6, <3>2, <3>3, <3>4, <3>5
  <2>7. QED
    BY <2>5, <2>6
<1>7. ASSUME NEW g \in Slots,
             Prepare(g) \/ LaunchSucceeds(g) \/ LaunchErrs(g) \/ LaunchUnauthorized(g) \/ NextAD(g)
      PROVE Bounded(t)'
  <2>1. g \in Busy /\ UNCHANGED <<row, running, ordered>>
    BY <1>7 DEF Busy, Prepare, LaunchSucceeds, LaunchErrs, LaunchUnauthorized, NextAD, history
  <2>2. run[g].id \in Schedules /\ run[g].left \in Nat /\ run[g] \in Runs
    BY <2>1, <1>a, BusyFacts
  <2>3. /\ \A h \in Slots \ {g} : run'[h] = run[h]
        /\ \A u \in Schedules \ {run[g].id} : launched'[u] = launched[u]
    BY <1>7, <1>a DEF Prepare, LaunchSucceeds, LaunchErrs, LaunchUnauthorized, NextAD, history,
       TypeOK
  <2>4. CASE Prepare(g) \/ LaunchUnauthorized(g) \/ NextAD(g)
    <3>1. run'[g].id = run[g].id /\ run'[g].pc = "launch" /\ run'[g].left = run[g].left
          /\ launched' = launched
      BY <2>4, <1>a DEF Prepare, LaunchUnauthorized, NextAD, TypeOK, Runs, history
    <3>2. CASE run[g].id = t
      BY <3>1, <3>2, <2>1, <2>2, <2>3, <1>d, <1>e, <1>f, <1>g, BoundedMove
    <3>3. CASE run[g].id # t
      <4>1. \A h \in RunsOf(t)' : h \in RunsOf(t) /\ run'[h] = run[h]
        BY <3>1, <3>3, <2>3, OtherRun
      <4>2. Exists(t)' <=> Exists(t)
        BY <2>1 DEF Exists
      <4>3. QED
        BY <3>1, <2>1, <4>1, <4>2, <1>d, <1>e, <1>f, <1>g, BoundedFrame
    <3>4. QED
      BY <3>2, <3>3
  <2>5. CASE LaunchSucceeds(g)
    <3>1. run'[g].id = run[g].id /\ run'[g].pc = "launch" /\ run'[g].left = run[g].left - 1
          /\ launched'[run[g].id] = launched[run[g].id] + 1
      BY <2>5, <2>2, <1>a DEF LaunchSucceeds, Succeeded, TypeOK, Runs
    <3>2. run'[g].left \in Nat
      BY <1>a, <2>1 DEF TypeOK, Runs, Busy
    <3>3. CASE run[g].id = t
      BY <3>1, <3>2, <3>3, <2>1, <2>2, <2>3, <1>d, <1>e, <1>f, <1>g, BoundedMove
    <3>4. CASE run[g].id # t
      <4>1. \A h \in RunsOf(t)' : h \in RunsOf(t) /\ run'[h] = run[h]
        BY <3>1, <3>4, <2>3, OtherRun
      <4>2. Exists(t)' <=> Exists(t)
        BY <2>1 DEF Exists
      <4>3. QED
        BY <2>1, <2>3, <3>4, <4>1, <4>2, <1>d, <1>e, <1>f, <1>g, BoundedFrame
    <3>5. QED
      BY <3>3, <3>4
  <2>6. CASE LaunchErrs(g)
    <3>1. run'[g].id = run[g].id /\ run'[g].pc = "launch" /\ run'[g].left = run[g].left
          /\ (\/ launched'[run[g].id] = launched[run[g].id]
              \/ Spend("hidden") /\ launched'[run[g].id] = launched[run[g].id] + 1)
      BY <2>6, <2>2, <1>a DEF LaunchErrs, TypeOK, Runs
    <3>2. CASE run[g].id = t
      BY <3>1, <3>2, <2>1, <2>2, <2>3, <1>d, <1>e, <1>f, <1>g, BoundedMove
    <3>3. CASE run[g].id # t
      <4>1. \A h \in RunsOf(t)' : h \in RunsOf(t) /\ run'[h] = run[h]
        BY <3>1, <3>3, <2>3, OtherRun
      <4>2. Exists(t)' <=> Exists(t)
        BY <2>1 DEF Exists
      <4>3. QED
        BY <2>1, <2>3, <3>3, <4>1, <4>2, <1>d, <1>e, <1>f, <1>g, BoundedFrame
    <3>4. QED
      BY <3>2, <3>3
  <2>7. QED
    BY <1>7, <2>4, <2>5, <2>6
<1>8. CASE Restart
  <2>1. row' = row /\ UNCHANGED history /\ Spend("kill") /\ running' = {}
    BY <1>8 DEF Restart
  <2>2. ordered' = ordered /\ launched' = launched
    BY <2>1 DEF history
  <2>3. Allowed(t)' = Allowed(t) + ordered[t] /\ Allowed(t) \in Nat
    BY <2>1, <2>2, <1>g
  <2>4. RunsOf(t)' = {}
    BY <1>8 DEF Restart, RunsOf, Busy, FreeRun
  <2>5. row[t].left <= ordered[t]
    BY <1>d DEF Bounded, RowBound
  <2>6. launched[t] + row[t].left <= Allowed(t)'
    <3>1. CASE t \notin running
      BY <3>1, <2>3, <1>d, <1>e DEF Bounded, RowBound
    <3>2. CASE t \in running
      <4>1. PICK g \in RunsOf(t) : run[g].id = t /\ run[g].left \in Nat
        BY <3>2, <1>e
      <4>2. launched[t] + run[g].left <= Allowed(t)
        BY <4>1, <1>d DEF Bounded, RunBound
      <4>3. QED
        BY <4>1, <4>2, <2>3, <2>5, <1>e
    <3>3. QED
      BY <3>1, <3>2
  <2>7. QED
    BY <2>1, <2>2, <2>4, <2>5, <2>6 DEF Bounded, RowBound
<1>9. QED
  BY <1>1, <1>2, <1>3, <1>4, <1>5, <1>6, <1>7, <1>8 DEF Next, Handlers, Pump, RunStep

\* A crash, a panic or a failed write makes the launches of one run at most
\* uncounted, and a hidden launch one, whatever the rows, the runs and the order
\* of their steps are, as long as no order is edited.
THEOREM DamageLimited == Spec => []DamageBounded
<1>1. Init => DamageSound
  <2> SUFFICES ASSUME Init, NEW t \in Schedules PROVE Bounded(t)
    BY DEF DamageSound
  <2>1. RunsOf(t) = {}
    BY DEF Init, RunsOf, Busy, FreeRun
  <2>2. row[t].left = 0 /\ ordered[t] = 0 /\ launched[t] = 0
    BY DEF Init
  <2>3. Spent("hidden") = 0 /\ Losses = 0
    BY SchedulerAssumption DEF Init, Spent, Losses, Disturbances
  <2>4. Allowed(t) = 0
    BY <2>2, <2>3 DEF Allowed
  <2>5. QED
    BY <2>1, <2>2, <2>4 DEF Bounded, RowBound
<1>2. IInv /\ IInv' /\ DamageSound /\ [Next]_vars => DamageSound'
  BY DamageStep
<1>3. IInv /\ DamageSound => DamageBounded
  <2> SUFFICES ASSUME IInv, Spent("edit") = 0, NEW t \in Schedules, Bounded(t)
               PROVE  launched[t] + Outstanding(t) <= Allowed(t)
    <3>1. ASSUME IInv PROVE 1 + Losses = 1 + Spent("kill") + Spent("fault")
      BY <3>1, SpentType DEF IInv, Losses, Disturbances
    <3>2. QED
      BY <3>1 DEF DamageBounded, DamageSound, Allowed
  <2>1. CASE RunsOf(t) # {}
    BY <2>1, ScheduleNumbers DEF Outstanding, Bounded, RunBound
  <2>2. CASE RunsOf(t) = {}
    BY <2>2, ScheduleNumbers DEF Outstanding, Bounded, RowBound
  <2>3. QED
    BY <2>1, <2>2
<1>4. QED
  BY <1>1, <1>2, <1>3, Inductive, PTL DEF Spec

=============================================================================
