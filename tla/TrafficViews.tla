----------------------------- MODULE TrafficViews -----------------------------
(***************************************************************************)
(* The pages that ask for figures: Traffic.vue, CostAnalysis.vue,           *)
(* Limits.vue and MetricsDialog.vue, the dialog Instances.vue opens.  The   *)
(* figures are abstracted to the scope they were asked for, and stale       *)
(* observes that figures of another scope than the chosen one were shown.   *)
(* Each tenant of Keys has one region (of a name they share), one instance  *)
(* in it and one network card, named after the tenant.                      *)
(***************************************************************************)
EXTENDS Browser

Traffic == "Traffic"
Cost == "CostAnalysis"
Limits == "Limits"
MetricsDialog == "MetricsDialog"

FigureTenants(view, ok) == \E r \in InFlight("tenants") :
    /\ SettledBy(view, r, {})
    /\ page' = [page EXCEPT !.tenants = ok]

-----------------------------------------------------------------------------
(* Traffic.vue                                                              *)

TrafficTabs == {"live", "summary", "accounts"}

\* The batches of two accounts that a query of all of them takes here.
Batches(account) == IF account = None THEN 2 ELSE 1

\* accountId None: every account; options: whose regions and instances are offered;
\* results: what each tab shows, the scope it was asked for; progress: batches of the
\* account query done and to do, which the summary shares.
TrafficInit ==
    /\ Opens([view |-> Traffic, tab |-> "live", tenants |-> FALSE, accountId |-> None,
              region |-> FALSE, options |-> None, instance |-> None, vnics |-> None,
              vnic |-> None, results |-> [t \in TrafficTabs |-> None], loading |-> {},
              progress |-> [done |-> 0, total |-> 0], stale |-> FALSE])
    /\ calls = SetToBag({Request("tenants", None, None)})

TrafficScope(p) == [account |-> p.accountId, region |-> p.region]

TrafficTab(t) ==
    /\ Click(Traffic) /\ t # page.tab
    /\ page' = [page EXCEPT !.tab = t]
    /\ SendsNothing

CascadeReset(p) == [p EXCEPT !.instance = None, !.vnic = None, !.vnics = None]

\* Mutation of ResultsCleared, used only to test the properties.
ResultsCleared_LiveOnly(p) ==
    [p EXCEPT !.results["live"] = None, !.progress = [done |-> 0, total |-> 0], !.stale = FALSE]

ResultsCleared(p) ==
    [p EXCEPT !.results = [t \in TrafficTabs |-> None], !.progress = [done |-> 0, total |-> 0],
              !.stale = FALSE]

TrafficAccountChange(a) ==
    /\ Click(Traffic) /\ a # page.accountId /\ (a # None => page.tenants)
    /\ page' = ResultsCleared(CascadeReset(
                  [page EXCEPT !.accountId = a, !.region = FALSE, !.options = None]))
    /\ Sends(IF a = None THEN {} ELSE {Request("condition", a, None)})

TrafficCondition(ok) == \E r \in InFlight("condition") :
    /\ SettledBy(Traffic, r, {})
    /\ page' = IF ok THEN [page EXCEPT !.options = r.key] ELSE page

TrafficRegionChange ==
    /\ Click(Traffic) /\ page.accountId # None /\ page.options # None
    /\ page' = ResultsCleared(CascadeReset([page EXCEPT !.region = ~@]))
    /\ SendsNothing

TrafficInstanceChange ==
    /\ Click(Traffic) /\ page.tab = "live" /\ page.accountId # None /\ page.region
    /\ page.options \notin {None, page.instance}
    /\ page' = [page EXCEPT !.instance = page.options, !.vnic = None, !.vnics = None]
    /\ Sends({Request("vnics", page.options, page.accountId)})

TrafficVnics(ok, one) == \E r \in InFlight("vnics") :
    /\ SettledBy(Traffic, r, {})
    /\ page' = IF ~ok THEN page
               ELSE [page EXCEPT !.vnics = r.key, !.vnic = IF one THEN r.key ELSE @]

TrafficVnicChosen ==
    /\ Click(Traffic) /\ page.tab = "live" /\ page.instance # None
    /\ page.vnics \notin {None, page.vnic}
    /\ page' = [page EXCEPT !.vnic = page.vnics]
    /\ SendsNothing

TrafficReset ==
    /\ Click(Traffic) /\ page.tab \notin page.loading
    /\ page' = ResultsCleared(CascadeReset([page EXCEPT !.region = FALSE]))
    /\ SendsNothing

TrafficBusy(p, tab, busy) ==
    [p EXCEPT !.loading = IF busy THEN @ \union {tab} ELSE @ \ {tab}]

\* Figures of scope are put on a tab; the chart of the live tab is drawn from them.
Shown(p, tab, scope) ==
    [p EXCEPT !.results[tab] = scope, !.stale = @ \/ scope # TrafficScope(p)]

TrafficQueryLive ==
    /\ Click(Traffic) /\ page.tab = "live" /\ "live" \notin page.loading
    /\ page.accountId # None /\ page.region /\ page.vnic # None
    /\ page' = TrafficBusy(page, "live", TRUE)
    /\ Sends({Request("traffic", TrafficScope(page), page.vnic)})

TrafficLive(ok) == \E r \in InFlight("traffic") :
    /\ SettledBy(Traffic, r, {})
    /\ page' = TrafficBusy(IF ok THEN Shown(page, "live", r.key) ELSE page, "live", FALSE)

\* fetchAccountStats: the batches go out one after the other, and each reads the
\* region again; list: the account, or all of them, the query began with.
Batch(p, op, list, no) ==
    Request(op, [account |-> list, region |-> p.region], [list |-> list, no |-> no])

TrafficQuerySummary ==
    /\ Click(Traffic) /\ page.tab = "summary" /\ "summary" \notin page.loading
    /\ page.accountId # None
    /\ page' = TrafficBusy([page EXCEPT !.progress = [done |-> 0, total |-> 1]], "summary", TRUE)
    /\ Sends({Batch(page, "summary", page.accountId, 1)})

\* An account that fails is a row with its error: a batch always gives rows.
TrafficSummary == \E r \in InFlight("summary") :
    LET p == [page EXCEPT !.progress.done = 1]
    IN  /\ SettledBy(Traffic, r, {})
        /\ page' = TrafficBusy(Shown(p, "summary", r.key), "summary", FALSE)

TrafficQueryAccounts ==
    /\ Click(Traffic) /\ page.tab = "accounts" /\ "accounts" \notin page.loading /\ page.tenants
    /\ LET total == Batches(page.accountId)
           p == [page EXCEPT !.progress = [done |-> 0, total |-> total], !.results["accounts"] = None]
       IN  page' = TrafficBusy(p, "accounts", TRUE)
    /\ Sends({Batch(page, "accounts", page.accountId, 1)})

TrafficAccounts == \E r \in InFlight("accounts") :
    LET more == r.arg.no < Batches(r.arg.list)
        p == Shown([page EXCEPT !.progress.done = r.arg.no], "accounts", r.key)
    IN  /\ SettledBy(Traffic, r,
              IF more THEN {Batch(page, "accounts", r.arg.list, r.arg.no + 1)} ELSE {})
        /\ page' = TrafficBusy(p, "accounts", more)

TrafficAnswers ==
    \/ \E ok \in BOOLEAN :
          \/ FigureTenants(Traffic, ok) \/ TrafficCondition(ok) \/ TrafficLive(ok)
          \/ \E one \in BOOLEAN : TrafficVnics(ok, one)
    \/ TrafficSummary \/ TrafficAccounts

TrafficNext ==
    \/ \E t \in TrafficTabs : TrafficTab(t)
    \/ \E a \in Keys \union {None} : TrafficAccountChange(a)
    \/ TrafficRegionChange \/ TrafficInstanceChange \/ TrafficVnicChosen \/ TrafficReset
    \/ TrafficQueryLive \/ TrafficQuerySummary \/ TrafficQueryAccounts
    \/ TrafficAnswers

-----------------------------------------------------------------------------
(* CostAnalysis.vue                                                         *)

\* monthly: the granularity chosen; dates: the granularity the range was made for;
\* chart: how the bars of result are drawn.
CostInit ==
    /\ Opens([view |-> Cost, tenants |-> FALSE, tenantId |-> None, monthly |-> TRUE,
              dates |-> None, result |-> None, chart |-> None, loading |-> FALSE])
    /\ calls = SetToBag({Request("tenants", None, None)})

\* onMounted goes on to initDateRange whatever became of the tenants.
CostTenants(ok) == \E r \in InFlight("tenants") :
    /\ SettledBy(Cost, r, {})
    /\ page' = [page EXCEPT !.tenants = ok, !.dates = page.monthly]

\* Neither of the two selects has a handler: what is shown stays.
CostTenant(t) ==
    /\ Click(Cost) /\ page.tenants /\ t # page.tenantId
    /\ page' = [page EXCEPT !.tenantId = t]
    /\ SendsNothing

CostGranularity ==
    /\ Click(Cost)
    /\ page' = [page EXCEPT !.monthly = ~@]
    /\ SendsNothing

CostResetDates ==
    /\ Click(Cost) /\ page.dates # page.monthly
    /\ page' = [page EXCEPT !.dates = page.monthly]
    /\ SendsNothing

CostLoad ==
    /\ Click(Cost) /\ ~page.loading /\ page.tenantId # None /\ page.dates # None
    /\ page' = [page EXCEPT !.loading = TRUE]
    /\ Sends({Request("cost", page.tenantId, page.monthly)})

\* renderChart draws the bars the way the granularity is chosen by now; without items
\* there is no chart.
CostDrawn(p, items) == [p EXCEPT !.chart = IF items THEN p.monthly ELSE None]

CostLoaded(ok, items) == \E r \in InFlight("cost") :
    LET p == [page EXCEPT !.result = [tenant |-> r.key, monthly |-> r.arg]]
        q == IF ok THEN CostDrawn(p, items) ELSE page
    IN  /\ SettledBy(Cost, r, {})
        /\ page' = [q EXCEPT !.loading = FALSE]

CostAnswers ==
    \E ok \in BOOLEAN : CostTenants(ok) \/ \E items \in BOOLEAN : CostLoaded(ok, items)

CostNext ==
    \/ \E t \in Keys : CostTenant(t)
    \/ CostGranularity \/ CostResetDates \/ CostLoad
    \/ CostAnswers

-----------------------------------------------------------------------------
(* Limits.vue                                                               *)

\* regions, services: whose are offered; a change of the tenant leaves the regions of
\* the one before until the new ones are there.
LimitsInit ==
    /\ Opens([view |-> Limits, tenants |-> FALSE, tenantId |-> None, regions |-> None,
              region |-> FALSE, services |-> None, service |-> None, items |-> None,
              loading |-> FALSE, queried |-> FALSE, stale |-> FALSE])
    /\ calls = SetToBag({Request("tenants", None, None)})

LimitsScope(p) == [account |-> p.tenantId, region |-> p.region]

ItemsCleared(p) == [p EXCEPT !.service = None, !.items = None, !.stale = FALSE]

LimitsTenantChange(t) ==
    /\ Click(Limits) /\ page.tenants /\ t # page.tenantId
    /\ page' = ItemsCleared([page EXCEPT !.tenantId = t, !.region = FALSE, !.services = None])
    /\ Sends({Request("condition", t, None)})

LimitsRegions(ok) == \E r \in InFlight("condition") :
    /\ SettledBy(Limits, r, {})
    /\ page' = [page EXCEPT !.regions = IF ok THEN r.key ELSE @]

LimitsRegionChange ==
    /\ Click(Limits) /\ page.tenantId # None /\ page.regions # None /\ ~page.region
    /\ page' = ItemsCleared([page EXCEPT !.region = TRUE])
    /\ Sends({Request("services", page.tenantId, None)})

LimitsServices(ok) == \E r \in InFlight("services") :
    /\ SettledBy(Limits, r, {})
    /\ page' = [page EXCEPT !.services = IF ok THEN r.key ELSE @]

LimitsServiceChosen ==
    /\ Click(Limits) /\ page.region /\ page.services \notin {None, page.service}
    /\ page' = [page EXCEPT !.service = page.services]
    /\ SendsNothing

LimitsLoad ==
    /\ Click(Limits) /\ page.tenantId # None /\ page.region /\ ~page.loading
    /\ page' = [page EXCEPT !.loading = TRUE, !.queried = TRUE]
    /\ Sends({Request("limits", LimitsScope(page), page.service)})

LimitsLoaded(ok) == \E r \in InFlight("limits") :
    /\ SettledBy(Limits, r, {})
    /\ page' = [page EXCEPT !.loading = FALSE, !.items = IF ok THEN r.key ELSE None,
                            !.stale = @ \/ (ok /\ r.key # LimitsScope(page))]

LimitsAnswers == \E ok \in BOOLEAN :
    FigureTenants(Limits, ok) \/ LimitsRegions(ok) \/ LimitsServices(ok) \/ LimitsLoaded(ok)

LimitsNext ==
    \/ \E t \in Keys : LimitsTenantChange(t)
    \/ LimitsRegionChange \/ LimitsServiceChosen \/ LimitsLoad
    \/ LimitsAnswers

-----------------------------------------------------------------------------
(* MetricsDialog.vue                                                        *)

\* instance: the row whose Metrics button was clicked; metrics: whose figures are shown.
MetricsDialogInit ==
    /\ Opens([view |-> MetricsDialog, visible |-> FALSE, instance |-> None, metrics |-> None,
              failed |-> FALSE, loading |-> FALSE, stale |-> FALSE])
    /\ calls = EmptyBag

Refreshing(p) == [p EXCEPT !.loading = TRUE, !.failed = FALSE]

\* openMetrics and the watcher of visible: figures that are there are not asked again.
MetricsDialogOpen(i) ==
    LET p == [page EXCEPT !.visible = TRUE, !.instance = i]
    IN  /\ Click(MetricsDialog) /\ ~page.visible
        /\ page' = IF p.metrics = None THEN Refreshing(p) ELSE p
        /\ Sends(IF p.metrics = None THEN {Request("metrics", i, None)} ELSE {})

\* The button of the header is blocked while it loads; the Retry of an error is shown
\* only when nothing loads.
MetricsDialogRefresh ==
    /\ Click(MetricsDialog) /\ page.visible /\ ~page.loading
    /\ page' = Refreshing(page)
    /\ Sends({Request("metrics", page.instance, None)})

\* Mutation of MetricsForgotten, used only to test the properties.
MetricsForgotten_ErrorOnly(p) == [p EXCEPT !.failed = FALSE, !.stale = FALSE]

MetricsForgotten(p) == [p EXCEPT !.metrics = None, !.failed = FALSE, !.stale = FALSE]

\* onClose runs when the dialog has closed; a request under way is not given up.
MetricsDialogClose ==
    /\ Click(MetricsDialog) /\ page.visible
    /\ page' = [MetricsForgotten(page) EXCEPT !.visible = FALSE]
    /\ SendsNothing

\* stale: the figures came to a closed dialog, or to that of another instance.
MetricsDialogLoaded(ok) == \E r \in InFlight("metrics") :
    LET late == ~page.visible \/ r.key # page.instance
        p == IF ok THEN [page EXCEPT !.metrics = r.key, !.stale = @ \/ late]
             ELSE [page EXCEPT !.failed = TRUE]
    IN  /\ SettledBy(MetricsDialog, r, {})
        /\ page' = [p EXCEPT !.loading = FALSE]

MetricsDialogAnswers == \E ok \in BOOLEAN : MetricsDialogLoaded(ok)

MetricsDialogNext ==
    \/ \E i \in Keys : MetricsDialogOpen(i)
    \/ MetricsDialogRefresh \/ MetricsDialogClose
    \/ MetricsDialogAnswers

-----------------------------------------------------------------------------

FigureInit == TrafficInit \/ CostInit \/ LimitsInit \/ MetricsDialogInit
FigureAnswers ==
    \/ At(Traffic) /\ TrafficAnswers
    \/ At(Cost) /\ CostAnswers
    \/ At(Limits) /\ LimitsAnswers
    \/ At(MetricsDialog) /\ MetricsDialogAnswers
FigureNext ==
    \/ At(Traffic) /\ TrafficNext
    \/ At(Cost) /\ CostNext
    \/ At(Limits) /\ LimitsNext
    \/ At(MetricsDialog) /\ MetricsDialogNext

-----------------------------------------------------------------------------

\* What is shown on a tab of Traffic, in the table of Limits or in the metrics dialog was
\* asked for what is chosen now ("Scope changed -> previous results no longer describe the
\* current query"), unless an answer came in after the choice had changed.
FiguresOfScope ==
    /\ At(Traffic) /\ ~page.stale =>
         \A t \in TrafficTabs : page.results[t] \in {None, TrafficScope(page)}
    /\ At(Limits) /\ ~page.stale => page.items \in {None, LimitsScope(page)}
    /\ At(MetricsDialog) /\ page.visible /\ ~page.stale => page.metrics \in {None, page.instance}
=============================================================================
