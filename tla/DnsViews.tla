------------------------------ MODULE DnsViews ------------------------------
(***************************************************************************)
(* InstanceDetail.vue and Cloudflare.vue, the two pages with the dialog of  *)
(* a DNS binding, which both write out.  Keys are the named Cloudflare      *)
(* configurations, None is the global token; each has one zone, and one     *)
(* record and one binding in it.                                            *)
(***************************************************************************)
EXTENDS Browser, FiniteSets, Sequences

Detail == "InstanceDetail"
Cloudflare == "Cloudflare"
BoundDns == "CloudflareBindings"
AutoSync == "CloudflareAutoSync"

\* The zones of configuration c; None is the empty list or an empty field.
Zone(c) == [cfg |-> c]

Cfgs == Keys \cup {None}

-----------------------------------------------------------------------------
(* The dialog of a binding.                                                 *)

\* bDialog: "add" or "edit" while it is open; bCfgId and bZoneId: its form, which
\* outlives it; bZones: the zones it offers; bShown: the bindings are listed;
\* bStale observes that the offered zones are not those of the form's config.
BindingFields ==
    [bShown |-> FALSE, bLoading |-> FALSE, bDialog |-> None, bSaving |-> FALSE,
     bCfgId |-> None, bZoneId |-> None, bZones |-> None, bZonesLoading |-> FALSE,
     bStale |-> FALSE]

\* Mutation of BindingForm, used only to test the properties.
BindingForm_KeepsZone(p, cfg, zone) == [p EXCEPT !.bCfgId = cfg, !.bZoneId = zone]

\* The form gets a configuration and a zone; the watcher of the configuration then
\* clears the zone, also when both were just taken from the row to be edited.
BindingForm(p, cfg, zone) ==
    [p EXCEPT !.bCfgId = cfg, !.bZoneId = IF cfg = p.bCfgId THEN zone ELSE None]

BindingZonesOf(cfg) == Request("bindingZones", cfg, None)

\* The watcher loads the zones a second time.
WatcherLoads(p, cfg) ==
    IF cfg = p.bCfgId THEN EmptyBag ELSE SetToBag({BindingZonesOf(cfg)})

BindingOpens(view, kind, cfg, zone) ==
    /\ Click(view) /\ page.bDialog = None
    /\ page' = [BindingForm(page, cfg, zone) EXCEPT
                    !.bDialog = kind, !.bZonesLoading = TRUE, !.bStale = FALSE]
    /\ calls' = calls (+) SetToBag({BindingZonesOf(cfg)}) (+) WatcherLoads(page, cfg)

OpenAddBindingDialog(view) == BindingOpens(view, "add", None, None)
OpenEditBindingDialog(view, row) == page.bShown /\ BindingOpens(view, "edit", row, Zone(row))

BindingPickCfg(view, cfg) ==
    /\ Click(view) /\ page.bDialog # None /\ cfg # page.bCfgId
    /\ page' = [BindingForm(page, cfg, page.bZoneId) EXCEPT !.bZonesLoading = TRUE, !.bStale = FALSE]
    /\ calls' = calls (+) WatcherLoads(page, cfg)

\* The select offers no zone while it shows that it loads.
BindingPickZone(view) ==
    /\ Click(view) /\ page.bDialog # None
    /\ ~page.bZonesLoading /\ page.bZones # None
    /\ page' = [page EXCEPT !.bZoneId = page.bZones]
    /\ SendsNothing

LoadBindingZones(view, ok) == \E r \in InFlight("bindingZones") :
    /\ SettledBy(view, r, {})
    /\ page' = [page EXCEPT !.bZonesLoading = FALSE,
                            !.bZones = IF ok THEN Zone(r.key) ELSE None,
                            !.bStale = @ \/ (ok /\ r.key # page.bCfgId)]

CloseBindingDialog(view) ==
    /\ Click(view) /\ page.bDialog # None
    /\ page' = [page EXCEPT !.bDialog = None]
    /\ SendsNothing

HandleSaveBinding(view) ==
    /\ Click(view) /\ page.bDialog # None /\ ~page.bSaving /\ page.bZoneId # None
    /\ page' = [page EXCEPT !.bSaving = TRUE]
    /\ Sends({Request("saveBinding", page.bCfgId, [zone |-> page.bZoneId, stale |-> page.bStale])})

\* A saved binding closes the dialog, whichever is open by then; the button stays
\* blocked until the list it waits for is there.
BindingSaved(view, ok) == \E r \in InFlight("saveBinding") :
    /\ SettledBy(view, r, IF ok THEN {Request("bindingsOfSave", None, None)} ELSE {})
    /\ page' = [page EXCEPT !.bSaving = ok, !.bLoading = @ \/ ok,
                            !.bDialog = IF ok THEN None ELSE @]

\* From the confirmed dialog on.
HandleDeleteBinding(view, row) ==
    /\ Click(view) /\ page.bDialog = None /\ page.bShown
    /\ page' = page
    /\ Sends({Request("deleteBinding", row, None)})

BindingDeleted(view, ok) == \E r \in InFlight("deleteBinding") :
    /\ SettledBy(view, r, IF ok THEN {Request("bindings", None, None)} ELSE {})
    /\ page' = [page EXCEPT !.bLoading = @ \/ ok]

\* A failed list empties the table of an instance and leaves the one of Cloudflare.
BindingsListed(p, ok) ==
    [p EXCEPT !.bLoading = FALSE, !.bShown = ok \/ (@ /\ p.view = BoundDns)]

LoadBindings(view, ok) == \E r \in InFlight("bindings") :
    /\ SettledBy(view, r, {})
    /\ page' = BindingsListed(page, ok)

LoadBindingsOfSave(view, ok) == \E r \in InFlight("bindingsOfSave") :
    /\ SettledBy(view, r, {})
    /\ page' = [BindingsListed(page, ok) EXCEPT !.bSaving = FALSE]

BindingClicks(view) ==
    \/ OpenAddBindingDialog(view) \/ BindingPickZone(view)
    \/ CloseBindingDialog(view) \/ HandleSaveBinding(view)
    \/ \E row \in Keys : OpenEditBindingDialog(view, row) \/ HandleDeleteBinding(view, row)
    \/ \E cfg \in Cfgs : BindingPickCfg(view, cfg)

BindingAnswers(view) == \E ok \in BOOLEAN :
    \/ LoadBindingZones(view, ok) \/ BindingSaved(view, ok) \/ BindingDeleted(view, ok)
    \/ LoadBindings(view, ok) \/ LoadBindingsOfSave(view, ok)

-----------------------------------------------------------------------------
(* InstanceDetail.vue                                                       *)

States == {"RUNNING", "STOPPED", "STARTING"}

\* state: that of the instance, None until it is loaded; acting: the operation whose
\* button turns; refreshes: timers that will reload the instance; prompts: dialogs
\* that ask for a verification code; dialog: the open dialog, forms: those whose save
\* is under way.
DetailInit == \E channel \in BOOLEAN :
    /\ Opens(With([view |-> Detail, channel |-> channel, loading |-> TRUE, state |-> None,
                   acting |-> None, refreshes |-> 0, prompts |-> 0, dialog |-> None,
                   saving |-> {}], BindingFields))
    /\ calls = SetToBag({Request("instance", None, None)})

DetailLoaded(ok) == \E r \in InFlight("instance") :
    /\ SettledBy(Detail, r, IF ok THEN {Request("tenant", None, None)} ELSE {})
    /\ \E s \in States : page' = IF ok THEN [page EXCEPT !.state = s] ELSE [page EXCEPT !.loading = FALSE]

\* The page is filled by one chain of requests; the tenant's failure is ignored,
\* any other ends the chain.
DetailMounted(op, next, ok) == \E r \in InFlight(op) :
    /\ SettledBy(Detail, r, IF ok THEN next ELSE {})
    /\ page' = [page EXCEPT !.loading = @ /\ ok, !.bLoading = @ \/ (op = "configs" /\ ok)]

DetailMountedLast(ok) == \E r \in InFlight("firstBindings") \cup InFlight("firstZones") :
    /\ SettledBy(Detail, r, {})
    /\ LET p == IF r.op = "firstZones" THEN page ELSE BindingsListed(page, ok)
       IN  page' = [p EXCEPT !.loading = Cardinality(InFlight("firstBindings") \cup InFlight("firstZones")) > 1]

DetailMounting == \E ok \in BOOLEAN :
    \/ DetailLoaded(ok)
    \/ DetailMounted("tenant", {Request("configs", None, None)}, TRUE)
    \/ DetailMounted("configs", {Request("firstBindings", None, None), Request("firstZones", None, None)}, ok)
    \/ DetailMountedLast(ok)

DetailFree(p) == p.state # None /\ p.dialog = None /\ p.prompts = 0 /\ p.bDialog = None

Actions == {"start", "stop", "softstop", "reboot"}
LongOperations == {"shrinkDisk", "netboot", "netbootStop"}

\* The buttons the instance's state shows.
OfferedIn(state) ==
    LongOperations \cup
    (CASE state = "RUNNING" -> {"stop", "softstop", "reboot"}
       [] state = "STOPPED" -> {"start"}
       [] OTHER -> {})

\* Only the operation that acting names is blocked.
DetailDoAction(op) ==
    /\ Click(Detail) /\ DetailFree(page) /\ op \in OfferedIn(page.state) /\ page.acting # op
    /\ page' = [page EXCEPT !.acting = op]
    /\ Sends({Request(op, None, None)})

\* Mutation of DetailActed, used only to test the properties.
DetailActed_KeepsActing(p, op, ok) ==
    [p EXCEPT !.acting = IF ok THEN None ELSE @,
              !.refreshes = IF ok /\ op \notin LongOperations THEN @ + 1 ELSE @]

\* Whichever operation ends clears acting; an action also closes the dialog of the
\* termination and reloads the instance three seconds later.
DetailActed(p, op, ok) ==
    [p EXCEPT !.acting = None,
              !.refreshes = IF ok /\ op \notin LongOperations THEN @ + 1 ELSE @,
              !.dialog = IF ok /\ op \notin LongOperations /\ @ = "terminate" THEN None ELSE @]

\* A termination, sent with its code, ends like the other actions.
DetailActionDone(op, ok) == \E r \in InFlight(op) :
    /\ SettledBy(Detail, r, {})
    /\ page' = DetailActed(page, op, ok)

DetailRefreshTimer ==
    /\ At(Detail) /\ page.refreshes > 0
    /\ page' = [page EXCEPT !.refreshes = @ - 1]
    /\ Sends({Request("refresh", None, None)})
    /\ UNCHANGED clicks

DetailRefreshed(ok) == \E r \in InFlight("refresh") :
    /\ SettledBy(Detail, r, {})
    /\ \E s \in States : page' = [page EXCEPT !.state = IF ok THEN s ELSE @]

\* The dialogs opened by a button each.
DetailForms == {"changeIp", "rootPassword", "config"}

DetailOpens(kind) ==
    /\ Click(Detail) /\ DetailFree(page)
    /\ page' = [page EXCEPT !.dialog = kind]
    /\ Sends(IF kind = "vnc" THEN {Request("vncInfo", None, None)} ELSE {})

DetailCloses ==
    /\ Click(Detail) /\ page.dialog # None /\ page.prompts = 0
    /\ page' = [page EXCEPT !.dialog = None]
    /\ SendsNothing

DetailVncInfo == \E r \in InFlight("vncInfo") :
    /\ SettledBy(Detail, r, {})
    /\ page' = page

\* The configuration's form shares acting with the buttons.
DetailSaving(p, kind) ==
    IF kind = "config" THEN p.acting = "config" ELSE kind \in p.saving

DetailSaveForm(kind) ==
    /\ Click(Detail) /\ page.dialog = kind /\ ~DetailSaving(page, kind)
    /\ page' = IF kind = "config" THEN [page EXCEPT !.acting = kind]
               ELSE [page EXCEPT !.saving = @ \cup {kind}]
    /\ Sends({Request(kind, None, None)})

DetailSavedForm(kind, ok) == \E r \in InFlight(kind) :
    /\ SettledBy(Detail, r, {})
    /\ page' = [page EXCEPT !.acting = IF kind = "config" THEN None ELSE @,
                            !.saving = @ \ {kind},
                            !.dialog = IF ok /\ @ = kind THEN None ELSE @]

\* doAction('terminate'): the configuration names the channel of the code.
DetailTerminate ==
    /\ Click(Detail) /\ page.dialog = "terminate" /\ page.acting # "terminate" /\ page.prompts = 0
    /\ page' = [page EXCEPT !.acting = "terminate"]
    /\ Sends({Request("config?", None, None)})

\* Without a channel the operation ends here, as if it had been cancelled.
DetailTerminateConfig(ok) == \E r \in InFlight("config?") :
    /\ SettledBy(Detail, r, IF ok /\ page.channel THEN {Request("captcha", None, None)} ELSE {})
    /\ page' = IF ok /\ page.channel THEN page ELSE [page EXCEPT !.acting = None]

DetailTerminateCode(ok) == \E r \in InFlight("captcha") :
    /\ SettledBy(Detail, r, {})
    /\ page' = IF ok THEN [page EXCEPT !.prompts = @ + 1] ELSE [page EXCEPT !.acting = None]

DetailTerminatePrompt(entered) ==
    /\ Click(Detail) /\ page.prompts > 0
    /\ page' = [page EXCEPT !.prompts = @ - 1, !.acting = IF entered THEN @ ELSE None]
    /\ Sends(IF entered THEN {Request("terminate", None, None)} ELSE {})

DetailAnswers ==
    \/ DetailMounting \/ DetailRefreshTimer \/ DetailVncInfo
    \/ BindingAnswers(Detail)
    \/ \E ok \in BOOLEAN :
          \/ DetailRefreshed(ok) \/ DetailTerminateConfig(ok) \/ DetailTerminateCode(ok)
          \/ \E op \in Actions \cup LongOperations \cup {"terminate"} : DetailActionDone(op, ok)
          \/ \E kind \in DetailForms : DetailSavedForm(kind, ok)

DetailNext ==
    \/ (page.view = Detail /\ page.state # None /\ page.dialog = None /\ page.prompts = 0
        /\ BindingClicks(Detail))
    \/ \E op \in Actions \cup LongOperations : DetailDoAction(op)
    \/ \E kind \in DetailForms \cup {"vnc", "terminate"} : DetailOpens(kind)
    \/ \E kind \in DetailForms : DetailSaveForm(kind)
    \/ \E entered \in BOOLEAN : DetailTerminatePrompt(entered)
    \/ DetailCloses \/ DetailTerminate
    \/ DetailAnswers

-----------------------------------------------------------------------------
(* Cloudflare.vue: its three cards share no state but the lists of accounts  *)
(* and instances, and are modelled as three pages.                          *)

\* The configuration, the zone and the domain of the automatic sync.
SyncFields == 1..3

\* zones, records: whose configuration's zones and records are shown; zoneId: the
\* chosen zone; dialog: "add" or "edit" while the record's is open.
CloudflareInit ==
    /\ Opens([view |-> Cloudflare, cfgs |-> FALSE,
              cfgId |-> None, zones |-> None, zonesLoading |-> TRUE, zoneId |-> None,
              records |-> None, recordsLoading |-> FALSE, dialog |-> None, saving |-> FALSE,
              stale |-> FALSE])
    /\ calls = SetToBag({Request("zones", None, None), Request("cfgs", None, None)})

BoundDnsInit ==
    /\ Opens(With([view |-> BoundDns, cfgs |-> FALSE, instances |-> FALSE],
                  [BindingFields EXCEPT !.bLoading = TRUE]))
    /\ calls = SetToBag({Request("bindings", None, None), Request("instances", None, None),
                         Request("cfgs", None, None)})

\* handleCloudflareAutoSyncStatus reads the three by statements of their own, in this
\* order; the key of the request is what it has read so far.
StatusReads == <<2, 3, 1>>
LoadsAutoSync == Request("autoSync", <<>>, None)

\* sync: the form of the automatic sync, server: what the server has.  sent is the form the
\* last save began with, told that it was reported done; edited observes that the form
\* changed during it, landed that a request given up in an earlier one was stored since.
AutoSyncInit ==
    /\ Opens([view |-> AutoSync, sync |-> [f \in SyncFields |-> None], enabled |-> FALSE,
              server |-> [f \in SyncFields |-> None],
              savingSync |-> FALSE, syncing |-> FALSE, reloads |-> 0,
              sent |-> [f \in SyncFields |-> None],
              edited |-> FALSE, landed |-> FALSE, told |-> FALSE])
    /\ calls = SetToBag({LoadsAutoSync})

CloudflareFree(p) == p.dialog = None

CloudflareLoadList(view, list, ok) == \E r \in InFlight(list) :
    /\ SettledBy(view, r, {})
    /\ page' = [page EXCEPT ![list] = @ \/ ok]

CloudflareLoadZones(ok) == \E r \in InFlight("zones") :
    /\ SettledBy(Cloudflare, r, {})
    /\ page' = [page EXCEPT !.zonesLoading = FALSE,
                            !.zones = IF ok THEN Zone(r.key) ELSE @,
                            !.stale = @ \/ (ok /\ r.key # page.cfgId)]

CloudflareRefreshZones ==
    /\ Click(Cloudflare) /\ CloudflareFree(page) /\ ~page.zonesLoading
    /\ page' = [page EXCEPT !.zonesLoading = TRUE]
    /\ Sends({Request("zones", page.cfgId, None)})

\* Mutation of CfgChosen, used only to test the properties.
CfgChosen_KeepsZone(p, cfg) ==
    [p EXCEPT !.cfgId = cfg, !.zones = None, !.zonesLoading = TRUE, !.stale = FALSE]

\* stale observes that the zones or the records shown are not those of the choice.
CfgChosen(p, cfg) ==
    [p EXCEPT !.cfgId = cfg, !.zoneId = None, !.records = None, !.zones = None,
              !.zonesLoading = TRUE, !.stale = FALSE]

CloudflareOnCfgChange(cfg) ==
    /\ Click(Cloudflare) /\ CloudflareFree(page) /\ page.cfgs /\ cfg # page.cfgId
    /\ page' = CfgChosen(page, cfg)
    /\ Sends({Request("zones", cfg, None)})

RecordsOf(p, zone) == Request("records", zone, p.cfgId)

ZoneChosen(p, zone) ==
    [p EXCEPT !.zoneId = zone, !.records = None, !.recordsLoading = @ \/ zone # None]

CloudflareOnZoneChange(zone) ==
    /\ Click(Cloudflare) /\ CloudflareFree(page) /\ zone # page.zoneId
    /\ zone # None => page.zones = zone /\ ~page.zonesLoading
    /\ page' = ZoneChosen(page, zone)
    /\ Sends(IF zone = None THEN {} ELSE {RecordsOf(page, zone)})

RecordsListed(p, r, ok) ==
    [p EXCEPT !.recordsLoading = FALSE,
              !.records = IF ok THEN r.key ELSE @,
              !.stale = @ \/ (ok /\ (r.key # p.zoneId \/ r.arg # p.cfgId))]

CloudflareLoadRecords(ok) == \E r \in InFlight("records") :
    /\ SettledBy(Cloudflare, r, {})
    /\ page' = RecordsListed(page, r, ok)

CloudflareRefreshRecords ==
    /\ Click(Cloudflare) /\ CloudflareFree(page) /\ page.zoneId # None /\ ~page.recordsLoading
    /\ page' = [page EXCEPT !.recordsLoading = TRUE]
    /\ Sends({RecordsOf(page, page.zoneId)})

CloudflareOpensRecord(kind) ==
    /\ Click(Cloudflare) /\ CloudflareFree(page) /\ page.zoneId # None
    /\ kind = "edit" => page.records # None /\ ~page.recordsLoading
    /\ page' = [page EXCEPT !.dialog = kind]
    /\ SendsNothing

CloudflareClosesRecord ==
    /\ Click(Cloudflare) /\ page.dialog # None
    /\ page' = [page EXCEPT !.dialog = None]
    /\ SendsNothing

\* A record of zone row is written in the chosen zone with the chosen configuration.
WritesRecord(p, op, row) ==
    Request(op, [zone |-> p.zoneId, cfg |-> p.cfgId], [row |-> row, stale |-> p.stale])

CloudflareHandleSave ==
    /\ Click(Cloudflare) /\ page.dialog # None /\ ~page.saving
    /\ page' = [page EXCEPT !.saving = TRUE]
    /\ Sends({WritesRecord(page, "saveRecord", IF page.dialog = "add" THEN page.zoneId ELSE page.records)})

\* The records of the zone that is chosen by then are loaded, if one is.
CloudflareSaved(ok) == \E r \in InFlight("saveRecord") : LET again == ok /\ page.zoneId # None IN
    /\ SettledBy(Cloudflare, r, IF again THEN {[RecordsOf(page, page.zoneId) EXCEPT !.op = "recordsOfSave"]} ELSE {})
    /\ page' = [page EXCEPT !.dialog = IF ok THEN None ELSE @,
                            !.saving = again, !.recordsLoading = @ \/ again]

CloudflareSaveReloaded(ok) == \E r \in InFlight("recordsOfSave") :
    /\ SettledBy(Cloudflare, r, {})
    /\ page' = [RecordsListed(page, r, ok) EXCEPT !.saving = FALSE]

\* From the confirmed dialog on.
CloudflareHandleDelete ==
    /\ Click(Cloudflare) /\ CloudflareFree(page)
    /\ page.zoneId # None /\ page.records # None /\ ~page.recordsLoading
    /\ page' = page
    /\ Sends({WritesRecord(page, "deleteRecord", page.records)})

CloudflareDeleted(ok) == \E r \in InFlight("deleteRecord") : LET again == ok /\ page.zoneId # None IN
    /\ SettledBy(Cloudflare, r, IF again THEN {RecordsOf(page, page.zoneId)} ELSE {})
    /\ page' = [page EXCEPT !.recordsLoading = @ \/ again]

-----------------------------------------------------------------------------
(* Cloudflare.vue: the card of the automatic sync, and that of the bindings *)

\* A read that fails leaves its field empty: its error is not looked at.
AutoSyncRead(ok) == \E r \in InFlight("autoSync") :
    /\ Len(r.key) < Len(StatusReads)
    /\ SettledBy(AutoSync, r,
          {[r EXCEPT !.key = Append(@, IF ok THEN page.server[StatusReads[Len(@) + 1]] ELSE None)]})
    /\ page' = page

\* The form of what was read; a save may have passed between the reads.
FormRead(read) == [f \in SyncFields |-> read[CHOOSE i \in SyncFields : StatusReads[i] = f]]

\* The whole form is replaced by what was read, whatever was entered or saved by then.
LoadAutoSync(ok) == \E r \in InFlight("autoSync"), on \in BOOLEAN :
    /\ Len(r.key) = Len(StatusReads)
    /\ SettledBy(AutoSync, r, {})
    /\ page' = IF ok THEN [page EXCEPT !.sync = FormRead(r.key), !.enabled = on,
                                       !.edited = @ \/ page.savingSync]
               ELSE page

\* The three fields of the form are entered together.
EnterSync(k) ==
    /\ Click(AutoSync) /\ page.sync # [f \in SyncFields |-> k]
    /\ page' = [page EXCEPT !.sync = [f \in SyncFields |-> k],
                            !.edited = @ \/ page.savingSync]
    /\ SendsNothing

SyncField(p, f) == Request("syncField", p.sync[f], f)

SaveAutoSync ==
    /\ Click(AutoSync) /\ ~page.savingSync
    /\ page' = [page EXCEPT !.savingSync = TRUE, !.sent = page.sync,
                            !.edited = FALSE, !.landed = FALSE, !.told = FALSE]
    /\ Sends({SyncField(page, 1)})

\* Mutation of SyncSaved, used only to test the properties.
SyncSaved_GoesOn(p, f, ok) ==
    [p EXCEPT !.savingSync = f # 3, !.told = f = 3]

\* One field after the other, each with the value the form has by then; a failed one
\* ends the save.
SyncSaved(p, f, ok) ==
    [p EXCEPT !.savingSync = ok /\ f # 3, !.told = ok /\ f = 3]

SyncFieldStored == \E r \in InFlight("syncField") :
    /\ SettledBy(AutoSync, r, {[r EXCEPT !.op = "syncStored"]})
    /\ page' = [page EXCEPT !.server[r.arg] = r.key]

SyncFieldSaved == \E r \in InFlight("syncStored") :
    LET p == SyncSaved(page, r.arg, TRUE)
    IN  /\ SettledBy(AutoSync, r, IF p.savingSync THEN {SyncField(page, r.arg + 1)} ELSE {})
        /\ page' = p

\* The request fails, or its answer does; one that axios gives up may still be stored.
SyncFieldFailed(late) == \E r \in InFlight("syncField") \cup InFlight("syncStored") :
    LET p == SyncSaved(page, r.arg, FALSE)
    IN  /\ late => r.op = "syncField"
        /\ SettledBy(AutoSync, r,
              (IF late THEN {[r EXCEPT !.op = "syncLate"]} ELSE {})
                \cup IF p.savingSync THEN {SyncField(page, r.arg + 1)} ELSE {})
        /\ page' = p

SyncFieldLands == \E r \in InFlight("syncLate") :
    /\ SettledBy(AutoSync, r, {})
    /\ page' = [page EXCEPT !.server[r.arg] = r.key, !.landed = TRUE]

\* The switch moves at once.
ToggleAutoSync ==
    /\ Click(AutoSync)
    /\ page' = [page EXCEPT !.enabled = ~@]
    /\ Sends({Request("toggle", None, None)})

AutoSyncToggled(ok) == \E r \in InFlight("toggle") :
    /\ SettledBy(AutoSync, r, IF ok THEN {} ELSE {LoadsAutoSync})
    /\ page' = page

TriggerAutoSync ==
    /\ Click(AutoSync) /\ page.enabled /\ ~page.syncing
    /\ page' = [page EXCEPT !.syncing = TRUE]
    /\ Sends({Request("trigger", None, None)})

AutoSyncTriggered(ok) == \E r \in InFlight("trigger") :
    /\ SettledBy(AutoSync, r, {})
    /\ page' = [page EXCEPT !.syncing = FALSE, !.reloads = IF ok THEN @ + 1 ELSE @]

AutoSyncReloadTimer ==
    /\ At(AutoSync) /\ page.reloads > 0
    /\ page' = [page EXCEPT !.reloads = @ - 1]
    /\ Sends({LoadsAutoSync})
    /\ UNCHANGED clicks

AutoSyncAnswers ==
    \/ \E ok \in BOOLEAN :
          \/ LoadAutoSync(ok) \/ AutoSyncToggled(ok) \/ AutoSyncTriggered(ok)
          \/ AutoSyncRead(ok) \/ SyncFieldFailed(ok)
    \/ SyncFieldStored \/ SyncFieldSaved \/ SyncFieldLands
    \/ AutoSyncReloadTimer

AutoSyncNext ==
    \/ \E k \in Keys : EnterSync(k)
    \/ SaveAutoSync \/ ToggleAutoSync \/ TriggerAutoSync
    \/ AutoSyncAnswers

BoundDnsRefresh ==
    /\ Click(BoundDns) /\ page.bDialog = None /\ ~page.bLoading
    /\ page' = [page EXCEPT !.bLoading = TRUE]
    /\ Sends({Request("bindings", None, None)})

\* The dialog offers the configurations and needs an instance.
BoundDnsAnswers ==
    \/ BindingAnswers(BoundDns)
    \/ \E ok \in BOOLEAN, list \in {"instances", "cfgs"} : CloudflareLoadList(BoundDns, list, ok)

BoundDnsNext ==
    \/ (page.view = BoundDns /\ (page.bDialog # None => page.instances /\ page.cfgs)
        /\ BindingClicks(BoundDns))
    \/ BoundDnsRefresh
    \/ BoundDnsAnswers

CloudflareAnswers == \E ok \in BOOLEAN :
    \/ CloudflareLoadList(Cloudflare, "cfgs", ok)
    \/ CloudflareLoadZones(ok) \/ CloudflareLoadRecords(ok)
    \/ CloudflareSaved(ok) \/ CloudflareSaveReloaded(ok) \/ CloudflareDeleted(ok)

CloudflareNext ==
    \/ CloudflareRefreshZones \/ CloudflareRefreshRecords
    \/ \E cfg \in Cfgs : CloudflareOnCfgChange(cfg)
    \/ \E zone \in {None} \cup {Zone(c) : c \in Cfgs} : CloudflareOnZoneChange(zone)
    \/ \E kind \in {"add", "edit"} : CloudflareOpensRecord(kind)
    \/ CloudflareClosesRecord \/ CloudflareHandleSave \/ CloudflareHandleDelete
    \/ CloudflareAnswers

-----------------------------------------------------------------------------
DnsInit == DetailInit \/ CloudflareInit \/ BoundDnsInit \/ AutoSyncInit
DnsNext ==
    \/ At(Detail) /\ DetailNext
    \/ At(Cloudflare) /\ CloudflareNext
    \/ At(BoundDns) /\ BoundDnsNext
    \/ At(AutoSync) /\ AutoSyncNext

DnsAnswers ==
    \/ At(Detail) /\ DetailAnswers
    \/ At(Cloudflare) /\ CloudflareAnswers
    \/ At(BoundDns) /\ BoundDnsAnswers
    \/ At(AutoSync) /\ AutoSyncAnswers

\* The saved zone belongs to the configuration it is saved with, although the two are
\* chosen one after the other from lists that arrive late; but for a list that a
\* late answer has replaced by another configuration's.
ZoneOfConfig ==
    page.view \in {Detail, BoundDns} =>
        \A r \in InFlight("saveBinding") : r.arg.stale \/ r.arg.zone = Zone(r.key)

\* A turning button of an instance stands for a request of that operation, or for
\* one of the steps that ask for the code.
ActingHonest ==
    page.view = Detail /\ page.acting # None =>
        \/ InFlight(page.acting) # {}
        \/ page.acting = "terminate"
           /\ (page.prompts > 0 \/ InFlight("config?") \cup InFlight("captcha") # {})

\* A record is changed or deleted in the zone it was listed for, with that zone's
\* configuration; but after a late answer has put another zone's rows in the table.
RecordOfZone ==
    page.view = Cloudflare =>
        \A r \in InFlight("saveRecord") \cup InFlight("deleteRecord") :
            r.arg.stale \/ (r.key.zone = Zone(r.key.cfg) /\ r.arg.row = r.key.zone)

\* A save of the automatic sync that is reported done has left the server with all
\* three fields of the form it began with, although they are stored one by one and each
\* request may fail; unless the form changed while they were sent, or a request given up
\* in an earlier save was stored after this one began.  (The form itself may show other
\* values: a status read before the save replaces it afterwards.)
SyncSavedWhole ==
    page.view = AutoSync /\ page.told /\ ~page.edited /\ ~page.landed
        => page.server = page.sent

=============================================================================
