---------------------------- MODULE InstanceViews ----------------------------
(***************************************************************************)
(* Instances.vue, the table of instances with its row and batch actions     *)
(* and the dialogs it opens.  Each tenant of Keys has one instance, named   *)
(* after it.  The dialog of an instance's metrics is in TrafficViews, the   *)
(* page of one instance in DnsViews.                                        *)
(***************************************************************************)
EXTENDS Browser

\* A row that is not marked is told from one that is marked with an operation.
ASSUME InstancesAssumption == None \notin {"500m", "ipv6"}

Instances == "Instances"

\* What a query finds: its tenant's rows (all without one) on the first page.
Query(tenant, no) == [tenant |-> tenant, no |-> no]
RowsOf(query) ==
    IF query = None \/ query.no # 1 THEN {}
    ELSE IF query.tenant = None THEN Keys ELSE {query.tenant}

\* shown: the query whose rows the table shows; dialog: <<kind, row>> of the open
\* dialog; box: the rows an open confirmation of a batch termination is about;
\* prompts: rows whose verification code is asked for; busy: the network operation
\* of a row; confirmed observes the rows whose termination the user confirmed.
InstancesInit == \E channel \in BOOLEAN :
    /\ Opens([view |-> Instances, channel |-> channel, tenants |-> FALSE, tenantId |-> None,
              no |-> 1, searching |-> FALSE, shown |-> None, selected |-> {},
              loading |-> TRUE, saving |-> FALSE, checking |-> FALSE,
              dialog |-> None, box |-> None, prompts |-> {},
              busy |-> [r \in Keys |-> None], confirmed |-> {}])
    /\ calls = SetToBag({Request("tenants", None, None),
                         Request("instances", Query(None, 1), None)})

Free(p) == p.dialog = None /\ p.box = None /\ p.prompts = {}

InstancesLoadTenants(ok) == \E r \in InFlight("tenants") :
    /\ SettledBy(Instances, r, {})
    /\ page' = [page EXCEPT !.tenants = @ \/ ok]

InstancesQuery(p) == Request("instances", Query(p.tenantId, p.no), None)

\* Mutation of InstancesListed, used only to test the properties.
InstancesListed_KeepsSelection(p, query, ok) ==
    [p EXCEPT !.loading = FALSE, !.shown = IF ok THEN query ELSE @]

\* New rows: the table drops the selection.
InstancesListed(p, query, ok) ==
    [p EXCEPT !.loading = FALSE, !.shown = IF ok THEN query ELSE @,
              !.selected = IF ok THEN {} ELSE @]

InstancesLoadInstances(ok) == \E r \in InFlight("instances") :
    /\ SettledBy(Instances, r, {})
    /\ page' = InstancesListed(page, r.key, ok)

InstancesHandleSearch(t) ==
    /\ Click(Instances) /\ page.tenants /\ Free(page) /\ t # page.tenantId
    /\ page' = [page EXCEPT !.tenantId = t, !.searching = TRUE]
    /\ SendsNothing

InstancesSearchTimer ==
    /\ At(Instances) /\ page.searching
    /\ page' = [page EXCEPT !.searching = FALSE, !.no = 1, !.loading = TRUE]
    /\ Sends({InstancesQuery([page EXCEPT !.no = 1])})
    /\ UNCHANGED clicks

InstancesPage(no) ==
    /\ Click(Instances) /\ Free(page) /\ no # page.no
    /\ page' = [page EXCEPT !.no = no, !.loading = TRUE]
    /\ Sends({InstancesQuery([page EXCEPT !.no = no])})

InstancesOnSelectionChange(rows) ==
    /\ Click(Instances) /\ Free(page) /\ ~page.loading
    /\ rows # page.selected
    /\ page' = [page EXCEPT !.selected = rows]
    /\ SendsNothing

RowClick(row) == Click(Instances) /\ Free(page) /\ ~page.loading /\ row \in RowsOf(page.shown)

\* start, stop, reboot ...: nothing keeps the user from sending them twice.
InstancesHandleAction(row) ==
    /\ RowClick(row)
    /\ page' = page
    /\ Sends({Request("action", row, None)})

InstancesConfigInfo(row) ==
    /\ RowClick(row)
    /\ page' = page
    /\ Sends({Request("configInfo", row, None)})

SaveKinds == {"changeShape", "changeBootVolume", "updateName", "updateShape"}

InstancesHandleDropdownAction(row, kind) ==
    /\ RowClick(row)
    /\ page' = [page EXCEPT !.dialog = <<kind, row>>]
    /\ SendsNothing

InstancesCancelDialog ==
    /\ Click(Instances) /\ page.dialog # None
    /\ page' = [page EXCEPT !.dialog = None]
    /\ SendsNothing

\* One flag for the four dialogs: none sends while another one's answer is due.
InstancesSave(kind) ==
    /\ Click(Instances) /\ page.dialog # None /\ page.dialog[1] = kind /\ ~page.saving
    /\ page' = [page EXCEPT !.saving = TRUE]
    /\ Sends({Request(kind, page.dialog[2], None)})

\* A saved dialog reloads the table, and saving stays set until that is answered.
InstancesSaved(kind, ok) == \E r \in InFlight(kind) :
    /\ SettledBy(Instances, r, IF ok THEN {Request("reload", Query(page.tenantId, page.no), None)} ELSE {})
    /\ page' = [page EXCEPT !.saving = ok, !.loading = @ \/ ok,
                            !.dialog = IF ok /\ @ # None /\ @[1] = kind THEN None ELSE @]

\* The reload that a save awaits.
InstancesSaveReloaded(ok) == \E r \in InFlight("reload") :
    /\ SettledBy(Instances, r, {})
    /\ page' = [InstancesListed(page, r.key, ok) EXCEPT !.saving = FALSE]

\* The dialog names the number of the selected rows.
InstancesHandleBatchTerminate ==
    /\ Click(Instances) /\ Free(page) /\ page.selected # {}
    /\ page' = [page EXCEPT !.box = page.selected]
    /\ SendsNothing

InstancesCancelBox ==
    /\ Click(Instances) /\ page.box # None
    /\ page' = [page EXCEPT !.box = None]
    /\ SendsNothing

\* From the confirmed dialog on.  The configuration tells whether a verification code has to be sent.
InstancesHandleTerminate(row) ==
    /\ RowClick(row)
    /\ page' = [page EXCEPT !.confirmed = @ \cup {row}]
    /\ Sends({Request("config", row, None)})

InstancesTerminateConfig(ok) == \E r \in InFlight("config") :
    /\ SettledBy(Instances, r, {IF ok /\ page.channel THEN Request("captcha", r.key, None)
                                ELSE Request("terminate", r.key, {})})
    /\ page' = page

InstancesTerminateCode(ok) == \E r \in InFlight("captcha") :
    /\ SettledBy(Instances, r, {})
    /\ page' = [page EXCEPT !.prompts = IF ok THEN @ \cup {r.key} ELSE @]

InstancesTerminatePrompt(entered) == \E row \in page.prompts :
    /\ Click(Instances)
    /\ page' = [page EXCEPT !.prompts = @ \ {row}]
    /\ Sends(IF entered THEN {Request("terminate", row, {"code"})} ELSE {})

\* Mutation of BatchTargets, used only to test the properties.
BatchTargets_Shown(p) == RowsOf(p.shown)

BatchTargets(p) == p.selected

\* The terminations of a batch go one after the other, without a code; a failed
\* one is only written to the console.
NextOfBatch(rows) ==
    IF rows = {} THEN {InstancesQuery(page)}
    ELSE LET row == CHOOSE x \in rows : TRUE IN {Request("batchTerminate", row, rows \ {row})}

EndOfBatch(p, rows) == IF rows = {} THEN [p EXCEPT !.selected = {}, !.loading = TRUE] ELSE p

InstancesBatchConfirmed == LET rows == BatchTargets(page) IN
    /\ Click(Instances) /\ page.box # None
    /\ page' = EndOfBatch([page EXCEPT !.box = None, !.confirmed = @ \cup page.box], rows)
    /\ Sends(NextOfBatch(rows))

InstancesBatchTerminated == \E r \in InFlight("batchTerminate") :
    /\ SettledBy(Instances, r, NextOfBatch(r.arg))
    /\ page' = EndOfBatch(page, r.arg)

\* All instances of the batch are asked for with the tenant of the first row.
InstancesHandleBatchStart == \E first \in page.selected :
    /\ Click(Instances) /\ Free(page)
    /\ page' = page
    /\ Sends({Request("batchStart", first, page.selected)})

InstancesBatchStarted(ok) == \E r \in InFlight("batchStart") :
    /\ SettledBy(Instances, r, IF ok THEN {InstancesQuery(page)} ELSE {})
    /\ page' = IF ok THEN [page EXCEPT !.selected = {}, !.loading = TRUE] ELSE page

InstancesHandleCheckAlive == \E first \in page.selected :
    /\ Click(Instances) /\ Free(page)
    /\ page' = [page EXCEPT !.checking = TRUE]
    /\ Sends({Request("checkAlive", first, page.selected)})

InstancesCheckedAlive == \E r \in InFlight("checkAlive") :
    /\ SettledBy(Instances, r, {})
    /\ page' = [page EXCEPT !.checking = FALSE]

\* From the confirmed dialog on.
InstancesHandleAutoRescue(row) ==
    /\ RowClick(row)
    /\ page' = page
    /\ Sends({Request("action", row, None)})

\* The actions, the rescue and the termination reload the table when they succeed;
\* the server refuses a termination without the code it asks for.
InstancesActed(ok) == \E r \in InFlight("action") \cup InFlight("terminate") :
    /\ r.op = "terminate" /\ ok => r.arg # {} \/ ~page.channel
    /\ SettledBy(Instances, r, IF ok THEN {InstancesQuery(page)} ELSE {})
    /\ page' = [page EXCEPT !.loading = @ \/ ok]

InstancesConfigShown == \E r \in InFlight("configInfo") :
    /\ SettledBy(Instances, r, {})
    /\ page' = page

\* Both switches of a row are blocked while one of its network operations runs.
InstancesConfirm500M(row) ==
    /\ RowClick(row) /\ page.busy[row] = None
    /\ page' = [page EXCEPT !.dialog = <<"500m", row>>]
    /\ SendsNothing

\* Mutation of Busied, used only to test the properties.
Busied_Not500m(p, row, op) == IF op = "500m" THEN p ELSE [p EXCEPT !.busy[row] = op]

Busied(p, row, op) == [p EXCEPT !.busy[row] = op]

InstancesDo500M == \E row \in Keys :
    /\ Click(Instances) /\ page.dialog = <<"500m", row>> /\ page.busy[row] = None
    /\ page' = Busied([page EXCEPT !.dialog = None], row, "500m")
    /\ Sends({Request("500m", row, None)})

\* From the confirmed dialog on.
InstancesConfirmIPv6(row) ==
    /\ RowClick(row) /\ page.busy[row] = None
    /\ page' = Busied(page, row, "ipv6")
    /\ Sends({Request("ipv6", row, None)})

InstancesNetworkDone == \E r \in InFlight("500m") \cup InFlight("ipv6") :
    /\ SettledBy(Instances, r, {})
    /\ page' = [page EXCEPT !.busy[r.key] = None]

InstancesAnswers ==
    \/ \E ok \in BOOLEAN :
          \/ InstancesLoadTenants(ok) \/ InstancesLoadInstances(ok) \/ InstancesSaveReloaded(ok)
          \/ InstancesTerminateConfig(ok) \/ InstancesTerminateCode(ok)
          \/ InstancesBatchStarted(ok) \/ InstancesActed(ok)
          \/ \E kind \in SaveKinds : InstancesSaved(kind, ok)
    \/ InstancesSearchTimer \/ InstancesBatchTerminated
    \/ InstancesCheckedAlive \/ InstancesConfigShown \/ InstancesNetworkDone

InstancesNext ==
    \/ \E t \in Keys \cup {None} : InstancesHandleSearch(t)
    \/ \E no \in 1..2 : InstancesPage(no)
    \/ (page.view = Instances /\ \E rows \in SUBSET RowsOf(page.shown) : InstancesOnSelectionChange(rows))
    \/ \E row \in Keys :
          \/ InstancesHandleAction(row) \/ InstancesHandleTerminate(row)
          \/ InstancesHandleAutoRescue(row) \/ InstancesConfigInfo(row)
          \/ InstancesConfirm500M(row) \/ InstancesConfirmIPv6(row)
          \/ \E kind \in SaveKinds : InstancesHandleDropdownAction(row, kind)
    \/ (page.view = Instances /\ (\/ InstancesHandleBatchStart \/ InstancesHandleCheckAlive
                                \/ \E entered \in BOOLEAN : InstancesTerminatePrompt(entered)))
    \/ \E kind \in SaveKinds : InstancesSave(kind)
    \/ InstancesCancelDialog \/ InstancesCancelBox \/ InstancesHandleBatchTerminate
    \/ InstancesBatchConfirmed \/ InstancesDo500M
    \/ InstancesAnswers

\* What a batch would act on is in the table: a late list that replaces the rows
\* takes the selection with it.
SelectionShown ==
    page.view = Instances => page.selected \subseteq RowsOf(page.shown)

\* No instance is terminated, alone or in a batch, but those the user confirmed;
\* what arrives while a confirmation is open adds none to it.
TerminationConfirmed ==
    page.view = Instances =>
        \A r \in InFlight("terminate") \cup InFlight("batchTerminate") :
            r.key \in page.confirmed /\ (r.op = "batchTerminate" => r.arg \subseteq page.confirmed)

=============================================================================
