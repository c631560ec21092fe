------------------------------ MODULE TaskViews ------------------------------
(***************************************************************************)
(* The pages that list tasks and measurements and ask for them again by     *)
(* themselves: InMemoryTasks.vue, CreateTasks.vue, ScheduledTasks.vue,      *)
(* Audit.vue, SystemMetrics.vue and the map of Home.vue.  Each key has one  *)
(* task, or one instance.                                                   *)
(***************************************************************************)
EXTENDS Browser, FiniteSets

MemTasks == "InMemoryTasks"
CreateTasks == "CreateTasks"
Scheduled == "ScheduledTasks"
AuditLog == "Audit"
Metrics == "SystemMetrics"
Home == "Home"

\* A tick of the page's interval; a tick counts as an action of the user.
Ticks(view) == Click(view) /\ page.timer

-----------------------------------------------------------------------------
(* InMemoryTasks.vue                                                        *)

Tabs == {"change-ip", "update-cfg"}

\* listed: the tabs whose list is not empty; the two lists share loading.
MemTasksInit ==
    /\ Opens([view |-> MemTasks, timer |-> TRUE, tab |-> "change-ip", listed |-> {},
              loading |-> TRUE, tenants |-> FALSE, dialog |-> FALSE, adding |-> FALSE,
              tenantId |-> None, instanceId |-> None, instances |-> None,
              loadingInstances |-> FALSE, stale |-> FALSE])
    /\ calls = SetToBag({Request("tenants", None, None), Request("memTasks", "change-ip", None)})

MemTasksTenants(ok) == \E r \in InFlight("tenants") :
    /\ SettledBy(MemTasks, r, {})
    /\ page' = [page EXCEPT !.tenants = @ \/ ok]

TasksOf(p) == Request("memTasks", p.tab, None)

MemTasksLoadTasks ==
    /\ Click(MemTasks) /\ ~page.dialog /\ ~page.loading
    /\ page' = [page EXCEPT !.loading = TRUE]
    /\ Sends({TasksOf(page)})

MemTasksTick ==
    /\ Ticks(MemTasks)
    /\ page' = [page EXCEPT !.loading = TRUE]
    /\ Sends({TasksOf(page)})

MemTasksOnTabChange(tab) ==
    /\ Click(MemTasks) /\ ~page.dialog /\ tab # page.tab
    /\ page' = [page EXCEPT !.tab = tab, !.loading = TRUE]
    /\ Sends({TasksOf([page EXCEPT !.tab = tab])})

MemTasksListed(p, tab, ok, some) ==
    [p EXCEPT !.loading = FALSE,
              !.listed = IF ~ok THEN @ ELSE IF some THEN @ \cup {tab} ELSE @ \ {tab}]

MemTasksLoaded(ok, some) == \E r \in InFlight("memTasks") :
    /\ SettledBy(MemTasks, r, {})
    /\ page' = MemTasksListed(page, r.key, ok, some)

\* Opening and closing the dialog empty its form and the list of instances.
MemTasksForm(p, open) ==
    [p EXCEPT !.dialog = open, !.tenantId = None, !.instanceId = None, !.instances = None, !.stale = FALSE]

MemTasksDialog(open) ==
    /\ Click(MemTasks) /\ page.dialog = ~open
    /\ page' = MemTasksForm(page, open)
    /\ SendsNothing

MemTasksOnTenantChange(t) ==
    /\ Click(MemTasks) /\ page.dialog /\ page.tenants /\ t # page.tenantId
    /\ page' = [page EXCEPT !.tenantId = t, !.instanceId = None, !.stale = FALSE, !.loadingInstances = TRUE]
    /\ Sends({Request("instances", t, None)})

\* stale observes that the offered instances are another tenant's.
MemTasksInstances(ok) == \E r \in InFlight("instances") :
    /\ SettledBy(MemTasks, r, {})
    /\ page' = [page EXCEPT !.loadingInstances = FALSE,
                            !.instances = IF ok THEN r.key ELSE @,
                            !.stale = @ \/ (IF ok THEN r.key # page.tenantId
                                            ELSE page.instances \notin {None, page.tenantId})]

MemTasksPickInstance ==
    /\ Click(MemTasks) /\ page.dialog /\ page.tenantId # None
    /\ page.instances # None /\ ~page.loadingInstances
    /\ page' = [page EXCEPT !.instanceId = page.instances]
    /\ SendsNothing

MemTasksHandleAdd ==
    /\ Click(MemTasks) /\ page.dialog /\ ~page.adding
    /\ page.tenantId # None /\ page.instanceId # None
    /\ page' = [page EXCEPT !.adding = TRUE]
    /\ Sends({Request("addTask", page.tenantId, page.instanceId)})

\* The dialog that is open by then is closed, and the tab that is active by then
\* reloaded; the button turns until that is answered.
MemTasksAdded(ok) == \E r \in InFlight("addTask") :
    /\ SettledBy(MemTasks, r, IF ok THEN {[TasksOf(page) EXCEPT !.op = "tasksOfAdd"]} ELSE {})
    /\ page' = IF ok THEN [(IF page.dialog THEN MemTasksForm(page, FALSE) ELSE page) EXCEPT !.loading = TRUE]
               ELSE [page EXCEPT !.adding = FALSE]

MemTasksAddLoaded(ok, some) == \E r \in InFlight("tasksOfAdd") :
    /\ SettledBy(MemTasks, r, {})
    /\ page' = [MemTasksListed(page, r.key, ok, some) EXCEPT !.adding = FALSE]

\* Pause, resume, delete and clear all, from their confirmed dialogs on: the tasks
\* named are those the list showed when the dialog opened.
MemTasksHandleAction ==
    /\ Click(MemTasks) /\ ~page.dialog /\ page.tab \in page.listed
    /\ page' = page
    /\ Sends({Request("taskAction", page.tab, None)})

MemTasksActed(ok) == \E r \in InFlight("taskAction") :
    /\ SettledBy(MemTasks, r, IF ok THEN {TasksOf(page)} ELSE {})
    /\ page' = [page EXCEPT !.loading = @ \/ ok]

MemTasksUnmount ==
    /\ Leaves(MemTasks)
    /\ page' = [page EXCEPT !.timer = FALSE]
    /\ SendsNothing

MemTasksAnswers == \E ok \in BOOLEAN :
    \/ MemTasksTenants(ok) \/ MemTasksInstances(ok) \/ MemTasksAdded(ok) \/ MemTasksActed(ok)
    \/ \E some \in BOOLEAN : MemTasksLoaded(ok, some) \/ MemTasksAddLoaded(ok, some)

MemTasksNext ==
    \/ MemTasksLoadTasks \/ MemTasksTick \/ MemTasksUnmount
    \/ \E tab \in Tabs : MemTasksOnTabChange(tab)
    \/ \E open \in BOOLEAN : MemTasksDialog(open)
    \/ \E t \in Keys : MemTasksOnTenantChange(t)
    \/ MemTasksPickInstance \/ MemTasksHandleAdd \/ MemTasksHandleAction
    \/ MemTasksAnswers

-----------------------------------------------------------------------------
(* CreateTasks.vue                                                          *)

\* What a query finds: all rows without a keyword, on the first page.
TaskQuery(keyword, no) == [keyword |-> keyword, no |-> no]
TaskRowsOf(query) ==
    IF query = None \/ query.no # 1 THEN {}
    ELSE IF query.keyword = None THEN Keys ELSE {query.keyword}

\* shown: the query whose rows the table shows; box: the tasks an open confirmation
\* is about; confirmed observes the tasks whose deletion was confirmed.
CreateTasksInit ==
    /\ Opens([view |-> CreateTasks, timer |-> TRUE, keyword |-> None, no |-> 1, searching |-> FALSE,
              shown |-> None, selected |-> {}, loading |-> TRUE, saving |-> FALSE,
              edited |-> None, box |-> None, confirmed |-> {}])
    /\ calls = SetToBag({Request("tasks", TaskQuery(None, 1), None)})

CreateTasksFree(p) == p.edited = None /\ p.box = None

CreateTasksLoads(p) == [p EXCEPT !.loading = TRUE]
CreateTasksQuery(p) == Request("tasks", TaskQuery(p.keyword, p.no), None)

\* New rows: the table drops the selection.
CreateTasksListed(p, query, ok) ==
    [p EXCEPT !.loading = FALSE, !.shown = IF ok THEN query ELSE @,
              !.selected = IF ok THEN {} ELSE @]

CreateTasksLoaded(ok) == \E r \in InFlight("tasks") :
    /\ SettledBy(CreateTasks, r, {})
    /\ page' = CreateTasksListed(page, r.key, ok)

\* The interval and the refresh button.
CreateTasksLoadTasks ==
    /\ \/ Ticks(CreateTasks)
       \/ Click(CreateTasks) /\ CreateTasksFree(page) /\ ~page.loading
    /\ page' = CreateTasksLoads(page)
    /\ Sends({CreateTasksQuery(page)})

CreateTasksHandleSearch(keyword) ==
    /\ Click(CreateTasks) /\ CreateTasksFree(page) /\ keyword # page.keyword
    /\ page' = [page EXCEPT !.keyword = keyword, !.searching = TRUE]
    /\ SendsNothing

\* The timer of the search is not cleared when the page is left.
CreateTasksSearchTimer ==
    /\ At(CreateTasks) /\ page.searching
    /\ page' = CreateTasksLoads([page EXCEPT !.searching = FALSE, !.no = 1])
    /\ Sends({CreateTasksQuery([page EXCEPT !.no = 1])})
    /\ UNCHANGED clicks

CreateTasksPage(no) ==
    /\ Click(CreateTasks) /\ CreateTasksFree(page) /\ no # page.no
    /\ page' = CreateTasksLoads([page EXCEPT !.no = no])
    /\ Sends({CreateTasksQuery([page EXCEPT !.no = no])})

CreateTasksOnSelectionChange(rows) ==
    /\ Click(CreateTasks) /\ CreateTasksFree(page) /\ ~page.loading /\ rows # page.selected
    /\ page' = [page EXCEPT !.selected = rows]
    /\ SendsNothing

\* Stop, pause and resume, of one row and of the selected ones.
CreateTasksHandleAction(rows) ==
    /\ Click(CreateTasks) /\ CreateTasksFree(page)
    /\ \/ rows = page.selected /\ rows # {}
       \/ ~page.loading /\ \E row \in TaskRowsOf(page.shown) : rows = {row}
    /\ page' = page
    /\ Sends({Request("taskAction", None, rows)})

CreateTasksAsksToDelete(rows) ==
    /\ Click(CreateTasks) /\ CreateTasksFree(page)
    /\ \/ rows = page.selected /\ rows # {}
       \/ ~page.loading /\ \E row \in TaskRowsOf(page.shown) : rows = {row}
    /\ page' = [page EXCEPT !.box = rows]
    /\ SendsNothing

\* The tasks to delete were taken before the confirmation.
CreateTasksAnswersBox(yes) ==
    /\ Click(CreateTasks) /\ page.box # None
    /\ page' = [page EXCEPT !.box = None, !.confirmed = IF yes THEN @ \cup page.box ELSE @]
    /\ Sends(IF yes THEN {Request("deleteTasks", None, page.box)} ELSE {})

CreateTasksActed(ok) == \E r \in InFlight("taskAction") \cup InFlight("deleteTasks") :
    /\ SettledBy(CreateTasks, r, IF ok THEN {CreateTasksQuery(page)} ELSE {})
    /\ page' = IF ok THEN CreateTasksLoads([page EXCEPT !.selected = {}]) ELSE page

CreateTasksHandleEdit(row) ==
    /\ Click(CreateTasks) /\ CreateTasksFree(page) /\ ~page.loading /\ row \in TaskRowsOf(page.shown)
    /\ page' = [page EXCEPT !.edited = row]
    /\ SendsNothing

CreateTasksCancelEdit ==
    /\ Click(CreateTasks) /\ page.edited # None
    /\ page' = [page EXCEPT !.edited = None]
    /\ SendsNothing

CreateTasksHandleSaveEdit ==
    /\ Click(CreateTasks) /\ page.edited # None /\ ~page.saving
    /\ page' = [page EXCEPT !.saving = TRUE]
    /\ Sends({Request("updateTask", page.edited, None)})

\* The dialog that is open by then is closed.
CreateTasksSavedEdit(ok) == \E r \in InFlight("updateTask") :
    /\ SettledBy(CreateTasks, r, IF ok THEN {[CreateTasksQuery(page) EXCEPT !.op = "tasksOfEdit"]} ELSE {})
    /\ page' = IF ok THEN CreateTasksLoads([page EXCEPT !.edited = None])
               ELSE [page EXCEPT !.saving = FALSE]

CreateTasksEditLoaded(ok) == \E r \in InFlight("tasksOfEdit") :
    /\ SettledBy(CreateTasks, r, {})
    /\ page' = [CreateTasksListed(page, r.key, ok) EXCEPT !.saving = FALSE]

CreateTasksUnmount ==
    /\ Leaves(CreateTasks)
    /\ page' = [page EXCEPT !.timer = FALSE]
    /\ SendsNothing

CreateTasksAnswers ==
    \/ \E ok \in BOOLEAN : \/ CreateTasksLoaded(ok) \/ CreateTasksActed(ok)
                          \/ CreateTasksSavedEdit(ok) \/ CreateTasksEditLoaded(ok)
    \/ CreateTasksSearchTimer

CreateTasksNext ==
    \/ CreateTasksLoadTasks \/ CreateTasksUnmount
    \/ \E keyword \in Keys \cup {None} : CreateTasksHandleSearch(keyword)
    \/ \E no \in 1..2 : CreateTasksPage(no)
    \/ (page.view = CreateTasks /\ \E rows \in SUBSET TaskRowsOf(page.shown) :
            CreateTasksOnSelectionChange(rows))
    \/ \E rows \in SUBSET Keys : CreateTasksHandleAction(rows) \/ CreateTasksAsksToDelete(rows)
    \/ \E yes \in BOOLEAN : CreateTasksAnswersBox(yes)
    \/ \E row \in Keys : CreateTasksHandleEdit(row)
    \/ CreateTasksCancelEdit \/ CreateTasksHandleSaveEdit
    \/ CreateTasksAnswers

-----------------------------------------------------------------------------
(* ScheduledTasks.vue                                                       *)

ScheduledInit ==
    /\ Opens([view |-> Scheduled, loading |-> TRUE, saving |-> FALSE, tenants |-> FALSE,
              dialog |-> FALSE, listed |-> FALSE])
    /\ calls = SetToBag({Request("recurring", None, None), Request("tenants", None, None)})

ScheduledTenants(ok) == \E r \in InFlight("tenants") :
    /\ SettledBy(Scheduled, r, {})
    /\ page' = [page EXCEPT !.tenants = @ \/ ok]

ScheduledLoaded(ok, some) == \E r \in InFlight("recurring") :
    /\ SettledBy(Scheduled, r, {})
    /\ page' = [page EXCEPT !.loading = FALSE, !.listed = IF ok THEN some ELSE @]

ScheduledDialog(open) ==
    /\ Click(Scheduled) /\ page.dialog = ~open
    /\ page' = [page EXCEPT !.dialog = open]
    /\ SendsNothing

\* The form starts with the first tenant.
ScheduledSubmit ==
    /\ Click(Scheduled) /\ page.dialog /\ ~page.saving /\ page.tenants
    /\ page' = [page EXCEPT !.saving = TRUE]
    /\ Sends({Request("create", None, None)})

ScheduledSubmitted(ok) == \E r \in InFlight("create") :
    /\ SettledBy(Scheduled, r, IF ok THEN {Request("recurring", None, None)} ELSE {})
    /\ page' = [page EXCEPT !.saving = FALSE, !.dialog = @ /\ ~ok, !.loading = @ \/ ok]

\* Pause, resume and stop, from its confirmed dialog on.
ScheduledAction ==
    /\ Click(Scheduled) /\ ~page.dialog /\ page.listed
    /\ page' = page
    /\ Sends({Request("act", None, None)})

ScheduledActed(ok) == \E r \in InFlight("act") :
    /\ SettledBy(Scheduled, r, IF ok THEN {Request("recurring", None, None)} ELSE {})
    /\ page' = [page EXCEPT !.loading = @ \/ ok]

ScheduledAnswers == \E ok \in BOOLEAN :
    \/ ScheduledTenants(ok) \/ ScheduledSubmitted(ok) \/ ScheduledActed(ok)
    \/ \E some \in BOOLEAN : ScheduledLoaded(ok, some)

ScheduledNext ==
    \/ \E open \in BOOLEAN : ScheduledDialog(open)
    \/ ScheduledSubmit \/ ScheduledAction
    \/ ScheduledAnswers

-----------------------------------------------------------------------------
(* Audit.vue                                                                *)

AuditInit ==
    /\ Opens([view |-> AuditLog, keyword |-> None, no |-> 1, searching |-> FALSE,
              shown |-> None, loading |-> TRUE])
    /\ calls = SetToBag({Request("audit", TaskQuery(None, 1), None)})

AuditLoad(p) ==
    /\ page' = [p EXCEPT !.loading = TRUE]
    /\ Sends({Request("audit", TaskQuery(p.keyword, p.no), None)})

AuditHandleSearch(keyword) ==
    /\ Click(AuditLog) /\ keyword # page.keyword
    /\ page' = [page EXCEPT !.keyword = keyword, !.searching = TRUE]
    /\ SendsNothing

AuditSearchTimer ==
    /\ At(AuditLog) /\ page.searching
    /\ AuditLoad([page EXCEPT !.searching = FALSE, !.no = 1])
    /\ UNCHANGED clicks

\* The size of a page starts at its first again.
AuditPage(no) == Click(AuditLog) /\ no # page.no /\ AuditLoad([page EXCEPT !.no = no])
AuditSizeChange == Click(AuditLog) /\ AuditLoad([page EXCEPT !.no = 1])

AuditLoaded(ok) == \E r \in InFlight("audit") :
    /\ SettledBy(AuditLog, r, {})
    /\ page' = [page EXCEPT !.loading = FALSE, !.shown = IF ok THEN r.key ELSE @]

AuditAnswers == (\E ok \in BOOLEAN : AuditLoaded(ok)) \/ AuditSearchTimer

AuditNext ==
    \/ \E keyword \in Keys \cup {None} : AuditHandleSearch(keyword)
    \/ \E no \in 1..2 : AuditPage(no)
    \/ AuditSizeChange
    \/ AuditAnswers

-----------------------------------------------------------------------------
(* SystemMetrics.vue                                                        *)

\* intervals: how many run; timer: the page still knows one to clear.
MetricsInit ==
    /\ Opens([view |-> Metrics, auto |-> TRUE, timer |-> TRUE, intervals |-> 1, left |-> FALSE,
              loading |-> TRUE, failed |-> FALSE, shown |-> FALSE])
    /\ calls = SetToBag({Request("metrics", None, None)})

MetricsLoads(p) == [p EXCEPT !.loading = TRUE, !.failed = FALSE]

MetricsTick ==
    /\ Click(Metrics) /\ page.intervals > 0
    /\ page' = MetricsLoads(page)
    /\ Sends({Request("metrics", None, None)})

MetricsRefresh ==
    /\ Click(Metrics) /\ ~page.loading
    /\ page' = MetricsLoads(page)
    /\ Sends({Request("metrics", None, None)})

\* clearInterval(timer): the interval the page knows, if any.
ClearsInterval(p) ==
    [p EXCEPT !.intervals = IF p.timer THEN @ - 1 ELSE @, !.timer = FALSE]

\* Mutation of AutoRefreshed, used only to test the properties.
AutoRefreshed_Adds(p, on) ==
    IF on THEN [p EXCEPT !.auto = TRUE, !.timer = TRUE, !.intervals = @ + 1]
    ELSE [p EXCEPT !.auto = FALSE, !.timer = FALSE]

AutoRefreshed(p, on) == LET q == ClearsInterval(p) IN
    IF on THEN [q EXCEPT !.auto = TRUE, !.timer = TRUE, !.intervals = @ + 1]
    ELSE [q EXCEPT !.auto = FALSE]

MetricsOnAutoRefreshChange ==
    /\ Click(Metrics)
    /\ page' = AutoRefreshed(page, ~page.auto)
    /\ SendsNothing

MetricsLoaded(ok) == \E r \in InFlight("metrics") :
    /\ SettledBy(Metrics, r, {})
    /\ page' = [page EXCEPT !.loading = FALSE, !.failed = ~ok, !.shown = @ \/ ok]

MetricsUnmount ==
    /\ Leaves(Metrics)
    /\ page' = [ClearsInterval(page) EXCEPT !.left = TRUE]
    /\ SendsNothing

MetricsAnswers == \E ok \in BOOLEAN : MetricsLoaded(ok)

MetricsNext ==
    \/ MetricsTick \/ MetricsRefresh \/ MetricsOnAutoRefreshChange \/ MetricsUnmount
    \/ MetricsAnswers

-----------------------------------------------------------------------------
(* Home.vue                                                                 *)

Providers == 1..4       \* TILE_PROVIDERS
TileErrors == 6         \* errors of one provider before the next is tried
MaxPolls == 3

\* provider: whose tiles the map shows, 0 before the map; errors: those of each
\* provider's layer; heard: the layers whose errors the page listens to; markers:
\* what the map's markers were drawn from, broken: they were drawn on no map;
\* pending: addresses without a place; polls: how often their places were asked for.
HomeInit ==
    /\ Opens([view |-> Home, loading |-> TRUE, left |-> FALSE, map |-> FALSE,
              found |-> {}, pending |-> FALSE, polls |-> 0, waiting |-> FALSE,
              provider |-> 0, heard |-> {}, errors |-> [l \in Providers |-> 0], stopped |-> FALSE,
              markers |-> None, broken |-> FALSE])
    /\ calls = SetToBag({Request("stats", None, None), Request("map", None, None)})

\* The tiles of provider l are put on the map; those of the previous one are
\* removed and no longer heard.
TileLayer(p, l) == [p EXCEPT !.provider = l, !.heard = {l}]

MapInit(p) == IF p.map THEN p ELSE TileLayer([p EXCEPT !.map = TRUE], 1)

\* Mutation of Drawn, used only to test the properties.
Drawn_Anywhere(p, source) == [p EXCEPT !.markers = source, !.broken = ~p.map]

\* Without a map there are no layers to draw markers in.
Drawn(p, source) == IF p.map THEN [p EXCEPT !.markers = source] ELSE p

\* The most precise source that has something to show.
MarkersRendered(p) ==
    Drawn(p, IF "instances" \in p.found THEN "instances"
             ELSE IF "cities" \in p.found THEN "cities" ELSE "regions")

\* All the first requests have been answered, or one has failed: the map is made,
\* which fails when its element is gone, and the rest is then not done.
HomeLoaded(p) ==
    IF p.left THEN [p EXCEPT !.loading = FALSE]
    ELSE LET q == MarkersRendered(MapInit([p EXCEPT !.loading = FALSE]))
         IN  [q EXCEPT !.waiting = p.pending]

\* The four requests of the statistics are one here; the map's may fail.
HomeAnswered(ok, found, pending) == \E r \in InFlight("stats") \cup InFlight("map") :
    LET all == Cardinality(InFlight("stats") \cup InFlight("map")) = 1
        p == [page EXCEPT !.found = IF ~ok THEN @
                                    ELSE IF r.op = "stats" THEN @ \cup (found \cap {"cities"})
                                    ELSE @ \cup (found \cap {"instances"}),
                          !.pending = IF ok /\ r.op = "map" THEN pending ELSE @]
    IN  /\ SettledBy(Home, r, {})
        /\ page' = IF ~page.loading THEN page
                   ELSE IF r.op = "stats" /\ ~ok THEN HomeLoaded([p EXCEPT !.found = {}, !.pending = FALSE])
                   ELSE IF all THEN HomeLoaded(p) ELSE p

\* After four seconds the places that are still unknown are asked for again.
HomePollTimer ==
    /\ At(Home) /\ page.waiting
    /\ page' = [page EXCEPT !.waiting = FALSE, !.polls = IF page.map THEN @ + 1 ELSE @]
    /\ Sends(IF page.map THEN {Request("more", None, None)} ELSE {})
    /\ UNCHANGED clicks

HomePolled(ok, found, pending) == \E r \in InFlight("more") :
    /\ SettledBy(Home, r, {})
    /\ page' = IF ~ok THEN page
               ELSE [MarkersRendered([page EXCEPT !.found = (@ \ {"instances"}) \cup (found \cap {"instances"})])
                        EXCEPT !.waiting = pending /\ page.polls < MaxPolls]

\* Mutation of TileErrorCounts, used only to test the properties.
TileErrorCounts_Late(p, l) == ~p.stopped

TileErrorCounts(p, l) == l \in p.heard /\ ~p.stopped /\ l = p.provider

\* An error of layer l, which may be one that has been removed.
HomeTileError(l) ==
    /\ At(Home) /\ page.map /\ l \in 1..page.provider
    /\ TileErrorCounts(page, l)
    /\ LET p == [page EXCEPT !.errors[l] = IF @ < TileErrors THEN @ + 1 ELSE @]
       IN  page' = IF p.errors[l] < TileErrors THEN p
                   ELSE IF page.provider = 4 THEN [p EXCEPT !.stopped = TRUE]
                   ELSE TileLayer(p, page.provider + 1)
    /\ UNCHANGED <<calls, clicks>>

HomeUnmount ==
    /\ Leaves(Home)
    /\ page' = [page EXCEPT !.left = TRUE, !.map = FALSE, !.markers = None]
    /\ SendsNothing

HomeAnswers ==
    \/ \E ok, pending \in BOOLEAN, found \in SUBSET {"instances", "cities"} :
          HomeAnswered(ok, found, pending) \/ HomePolled(ok, found, pending)
    \/ HomePollTimer

HomeNext ==
    \/ \E l \in Providers : HomeTileError(l)
    \/ HomeUnmount
    \/ HomeAnswers

-----------------------------------------------------------------------------
TaskInit == MemTasksInit \/ CreateTasksInit \/ ScheduledInit \/ AuditInit \/ MetricsInit \/ HomeInit
TaskNext ==
    \/ At(MemTasks) /\ MemTasksNext
    \/ At(CreateTasks) /\ CreateTasksNext
    \/ At(Scheduled) /\ ScheduledNext
    \/ At(AuditLog) /\ AuditNext
    \/ At(Metrics) /\ MetricsNext
    \/ At(Home) /\ HomeNext

TaskAnswers ==
    \/ At(MemTasks) /\ MemTasksAnswers
    \/ At(CreateTasks) /\ CreateTasksAnswers
    \/ At(Scheduled) /\ ScheduledAnswers
    \/ At(AuditLog) /\ AuditAnswers
    \/ At(Metrics) /\ MetricsAnswers
    \/ At(Home) /\ HomeAnswers

\* A provider of map tiles is given up only after six errors of its own layer, though
\* errors of a layer that was removed may still arrive, and the last one is kept.
TilesRotate ==
    page.view = Home =>
        /\ \A l \in Providers : l < page.provider => page.errors[l] = TileErrors
        /\ page.stopped => page.errors[4] = TileErrors

\* Markers are on the map of the page, never on one that was removed while their
\* places were asked for.
MarkersOnMap ==
    page.view = Home => ~page.broken /\ (page.markers # None => page.map)

\* The measurements are asked for by at most one interval, and by none once the
\* switch is off or the page is left.
OneInterval ==
    page.view = Metrics =>
        /\ page.intervals = IF page.timer THEN 1 ELSE 0
        /\ ~page.auto \/ page.left => page.intervals = 0

=============================================================================
