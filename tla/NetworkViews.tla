----------------------------- MODULE NetworkViews -----------------------------
(***************************************************************************)
(* The pages about a tenant's network and disks: SecurityRules.vue,         *)
(* PublicIPs.vue, IpPool.vue, VcnManagement.vue and BootVolumes.vue.  Each  *)
(* tenant of Keys has one VCN, one address and one instance, named after    *)
(* it.                                                                      *)
(***************************************************************************)
EXTENDS Browser

SecurityRules == "SecurityRules"
PublicIPs == "PublicIPs"
IpPool == "IpPool"
Vcns == "VcnManagement"
BootVolumes == "BootVolumes"

NetworkTenants(view, ok) == \E r \in InFlight("tenants") :
    /\ SettledBy(view, r, {})
    /\ page' = [page EXCEPT !.tenants = @ \/ ok]

-----------------------------------------------------------------------------
(* SecurityRules.vue                                                        *)

\* The rules of a VCN on one page of the list.
RulesAt(tenant, vcn, no) == [tenant |-> tenant, vcn |-> vcn, no |-> no]

\* vcns, rules: whose are shown, None if there are none; many: there is a list to page
\* through; deleting: the VCN whose rule is being removed; stale observes that VCNs or
\* rules shown are not those of the choice.
RulesInit ==
    /\ Opens([view |-> SecurityRules, tenants |-> FALSE, tenantId |-> None, vcns |-> None,
              vcnId |-> None, loadingVCNs |-> FALSE, rules |-> None, many |-> FALSE, no |-> 1,
              searching |-> FALSE, loading |-> FALSE, dialog |-> FALSE, saving |-> FALSE,
              deleting |-> None, stale |-> FALSE])
    /\ calls = SetToBag({Request("tenants", None, None)})

RulesEmptied(p) == [p EXCEPT !.rules = None, !.many = FALSE]

RulesOnTenantChange(t) ==
    /\ Click(SecurityRules) /\ page.tenants /\ ~page.dialog /\ t # page.tenantId
    /\ page' = [RulesEmptied(page) EXCEPT !.tenantId = t, !.vcns = None, !.vcnId = None, !.no = 1,
                                          !.loadingVCNs = TRUE, !.stale = FALSE]
    /\ Sends({Request("vcns", t, None)})

RulesLoadVCNs(ok) == \E r \in InFlight("vcns") :
    /\ SettledBy(SecurityRules, r, {})
    /\ page' = [page EXCEPT !.loadingVCNs = FALSE, !.vcns = IF ok THEN r.key ELSE None,
                            !.stale = @ \/ (ok /\ r.key # page.tenantId)]

\* loadRules: without a VCN there is nothing to ask for.
RulesLoad(p) == IF p.vcnId = None THEN RulesEmptied(p) ELSE [p EXCEPT !.loading = TRUE]
RulesRequest(p, op) ==
    IF p.vcnId = None THEN {} ELSE {Request(op, RulesAt(p.tenantId, p.vcnId, p.no), None)}

VcnChosen(p, vcn) == [RulesEmptied(p) EXCEPT !.vcnId = vcn, !.no = 1]

RulesOnVCNChange ==
    /\ Click(SecurityRules) /\ ~page.dialog /\ page.tenantId # None
    /\ ~page.loadingVCNs /\ page.vcns \notin {None, page.vcnId}
    /\ LET p == VcnChosen(page, page.vcns)
       IN  page' = RulesLoad(p) /\ Sends(RulesRequest(p, "rules"))

RulesHandleSearch ==
    /\ Click(SecurityRules) /\ ~page.dialog /\ page.vcnId # None
    /\ page' = [page EXCEPT !.searching = TRUE]
    /\ SendsNothing

RulesSearchTimer ==
    /\ At(SecurityRules) /\ page.searching
    /\ LET p == [page EXCEPT !.searching = FALSE, !.no = 1]
       IN  page' = RulesLoad(p) /\ Sends(RulesRequest(p, "rules"))
    /\ UNCHANGED clicks

RulesPage(no) ==
    /\ Click(SecurityRules) /\ ~page.dialog /\ page.many /\ no # page.no
    /\ LET p == [page EXCEPT !.no = no]
       IN  page' = RulesLoad(p) /\ Sends(RulesRequest(p, "rules"))

RulesListed(p, query, ok, some, many) ==
    [p EXCEPT !.loading = FALSE, !.rules = IF ok /\ some THEN query ELSE None, !.many = ok /\ many,
              !.stale = @ \/ (ok /\ query.vcn # p.vcnId)]

RulesLoaded(ok, some, many) == \E r \in InFlight("rules") :
    /\ some => many
    /\ SettledBy(SecurityRules, r, {})
    /\ page' = RulesListed(page, r.key, ok, some, many)

RulesDialog(open) ==
    /\ Click(SecurityRules) /\ page.dialog = ~open /\ (open => page.vcnId # None)
    /\ page' = [page EXCEPT !.dialog = open]
    /\ SendsNothing

\* What a request about the rules of row is sent for, and whether the row was stale.
RulesWrite(p, op, row) ==
    Request(op, [tenant |-> p.tenantId, vcn |-> p.vcnId], [row |-> row, stale |-> p.stale])

RulesHandleAdd ==
    /\ Click(SecurityRules) /\ page.dialog /\ ~page.saving
    /\ page' = [page EXCEPT !.saving = TRUE]
    /\ Sends({RulesWrite(page, "addRule", page.vcnId)})

RulesAdded(ok) == \E r \in InFlight("addRule") :
    LET again == ok /\ page.vcnId # None
        p == IF ok THEN [RulesLoad(page) EXCEPT !.dialog = FALSE] ELSE page
    IN  /\ SettledBy(SecurityRules, r, IF again THEN RulesRequest(page, "rulesOfAdd") ELSE {})
        /\ page' = [p EXCEPT !.saving = again]

RulesAddLoaded(ok, some, many) == \E r \in InFlight("rulesOfAdd") :
    /\ some => many
    /\ SettledBy(SecurityRules, r, {})
    /\ page' = [RulesListed(page, r.key, ok, some, many) EXCEPT !.saving = FALSE]

\* From the confirmed dialog on.
RulesHandleDelete ==
    /\ Click(SecurityRules) /\ ~page.dialog /\ ~page.loading
    /\ page.rules # None /\ page.deleting # page.rules.vcn
    /\ page' = [page EXCEPT !.deleting = page.rules.vcn]
    /\ Sends({RulesWrite(page, "removeRule", page.rules.vcn)})

RulesRemoved(ok) == \E r \in InFlight("removeRule") :
    LET again == ok /\ page.vcnId # None
        p == IF ok THEN RulesLoad(page) ELSE page
    IN  /\ SettledBy(SecurityRules, r,
              IF again THEN RulesRequest(page, IF page.many THEN "rulesOfRemove" ELSE "rulesAtLast") ELSE {})
        /\ page' = [p EXCEPT !.deleting = IF again THEN @ ELSE None]

\* A page that came back empty, or whose request failed: the one before is loaded.
RulesRemoveLoaded(ok, some, many) == \E r \in InFlight("rulesOfRemove") :
    LET p == RulesListed(page, r.key, ok, some, many)
        back == p.rules = None /\ p.no > 1
        q == [p EXCEPT !.no = @ - 1]
    IN  /\ some => many
        /\ SettledBy(SecurityRules, r, IF back THEN RulesRequest(q, "rulesAtLast") ELSE {})
        /\ page' = IF ~back THEN [p EXCEPT !.deleting = None]
                   ELSE [RulesLoad(q) EXCEPT !.deleting = IF q.vcnId = None THEN None ELSE @]

RulesAtLastLoaded(ok, some, many) == \E r \in InFlight("rulesAtLast") :
    /\ some => many
    /\ SettledBy(SecurityRules, r, {})
    /\ page' = [RulesListed(page, r.key, ok, some, many) EXCEPT !.deleting = None]

\* From the confirmed dialog on; the table's own loading shows that it runs.
RulesHandleRelease ==
    /\ Click(SecurityRules) /\ ~page.dialog /\ page.vcnId # None
    /\ page' = [page EXCEPT !.loading = TRUE]
    /\ Sends({RulesWrite(page, "releasePorts", page.vcnId)})

RulesReleased(ok) == \E r \in InFlight("releasePorts") :
    LET again == ok /\ page.vcnId # None
        p == IF ok THEN RulesLoad(page) ELSE page
    IN  /\ SettledBy(SecurityRules, r, IF again THEN RulesRequest(page, "rules") ELSE {})
        /\ page' = [p EXCEPT !.loading = again]

RulesAnswers ==
    \/ \E ok \in BOOLEAN :
          \/ NetworkTenants(SecurityRules, ok) \/ RulesLoadVCNs(ok)
          \/ RulesAdded(ok) \/ RulesRemoved(ok) \/ RulesReleased(ok)
          \/ \E some, many \in BOOLEAN :
                \/ RulesLoaded(ok, some, many) \/ RulesAddLoaded(ok, some, many)
                \/ RulesRemoveLoaded(ok, some, many) \/ RulesAtLastLoaded(ok, some, many)
    \/ RulesSearchTimer

RulesNext ==
    \/ \E t \in Keys : RulesOnTenantChange(t)
    \/ \E no \in 1..2 : RulesPage(no)
    \/ \E open \in BOOLEAN : RulesDialog(open)
    \/ RulesOnVCNChange \/ RulesHandleSearch \/ RulesHandleAdd
    \/ RulesHandleDelete \/ RulesHandleRelease
    \/ RulesAnswers

-----------------------------------------------------------------------------
(* PublicIPs.vue                                                            *)

\* ips, instances: whose are shown; instanceId: the one whose address is to be
\* replaced, which a change of the tenant leaves; deleting: the address being deleted.
PublicIPsInit ==
    /\ Opens([view |-> PublicIPs, tenants |-> FALSE, tenantId |-> None, ips |-> None,
              instances |-> None, instanceId |-> None, loading |-> FALSE, dialog |-> FALSE,
              reserving |-> FALSE, replacing |-> FALSE, deleting |-> None, stale |-> FALSE])
    /\ calls = SetToBag({Request("tenants", None, None)})

\* The rows of the previous tenant stay until the answer is there.
PublicIPsTenantChange(t) ==
    /\ Click(PublicIPs) /\ page.tenants /\ ~page.dialog /\ t # page.tenantId
    /\ page' = [page EXCEPT !.tenantId = t, !.loading = TRUE, !.stale = FALSE]
    /\ Sends({Request("publicIPs", t, None), Request("instances", t, None)})

\* The select is cleared: the lists are emptied, without a request.
PublicIPsTenantClear ==
    /\ Click(PublicIPs) /\ page.tenantId # None /\ ~page.dialog
    /\ page' = [page EXCEPT !.tenantId = None, !.ips = None, !.instances = None, !.stale = FALSE]
    /\ SendsNothing

\* Mutation of IPsListed, used only to test the properties.
IPsListed_KeepsRows(p, t, ok) ==
    [p EXCEPT !.loading = FALSE, !.ips = IF ok THEN t ELSE @,
              !.stale = @ \/ (ok /\ t # p.tenantId)]

\* stale observes that rows of another tenant were put in the table.
IPsListed(p, t, ok) ==
    [p EXCEPT !.loading = FALSE, !.ips = IF ok THEN t ELSE None,
              !.stale = @ \/ (ok /\ t # p.tenantId)]

\* loadPublicIPs after an operation, which awaits it under a name of its own; without a
\* tenant the table is emptied.
IPsOf(p, op) == IF p.tenantId = None THEN {} ELSE {Request(op, p.tenantId, None)}
ReloadsIPs(p) == IF p.tenantId = None THEN [p EXCEPT !.ips = None] ELSE [p EXCEPT !.loading = TRUE]

PublicIPsLoaded(op, ok) == \E r \in InFlight(op) :
    /\ SettledBy(PublicIPs, r, {})
    /\ page' = [IPsListed(page, r.key, ok) EXCEPT
                    !.reserving = @ /\ op # "ipsOfReserve",
                    !.replacing = @ /\ op # "ipsOfReplace",
                    !.deleting = IF op = "ipsOfDelete" THEN None ELSE @]

PublicIPsInstances(ok) == \E r \in InFlight("instances") :
    /\ SettledBy(PublicIPs, r, {})
    /\ page' = [page EXCEPT !.instances = IF ok THEN r.key ELSE None]

PublicIPsDialog(open) ==
    /\ Click(PublicIPs) /\ page.dialog = ~open /\ page.tenantId # None
    /\ page' = [page EXCEPT !.dialog = open]
    /\ SendsNothing

PublicIPsHandleReserve ==
    /\ Click(PublicIPs) /\ page.dialog /\ ~page.reserving
    /\ page' = [page EXCEPT !.reserving = TRUE]
    /\ Sends({Request("reserve", page.tenantId, None)})

PublicIPsReserved(ok) == \E r \in InFlight("reserve") :
    /\ SettledBy(PublicIPs, r, IF ok THEN IPsOf(page, "ipsOfReserve") ELSE {})
    /\ page' = [(IF ok THEN ReloadsIPs(page) ELSE page) EXCEPT
                    !.reserving = ok /\ page.tenantId # None, !.dialog = @ /\ ~ok]

\* From the confirmed dialog on: the row's address, with the tenant of the form.
PublicIPsHandleDelete ==
    /\ Click(PublicIPs) /\ ~page.dialog /\ ~page.loading /\ page.tenantId # None
    /\ page.ips # None /\ page.deleting # page.ips
    /\ page' = [page EXCEPT !.deleting = page.ips]
    /\ Sends({Request("deleteIP", page.tenantId, [row |-> page.ips, stale |-> page.stale])})

PublicIPsDeleted(ok) == \E r \in InFlight("deleteIP") :
    /\ SettledBy(PublicIPs, r, IF ok THEN IPsOf(page, "ipsOfDelete") ELSE {})
    /\ page' = [(IF ok THEN ReloadsIPs(page) ELSE page) EXCEPT
                    !.deleting = IF ok /\ page.tenantId # None THEN @ ELSE None]

PublicIPsPickInstance ==
    /\ Click(PublicIPs) /\ ~page.dialog /\ page.tenantId # None
    /\ page.instances \notin {None, page.instanceId}
    /\ page' = [page EXCEPT !.instanceId = page.instances]
    /\ SendsNothing

PublicIPsHandleReplace ==
    /\ Click(PublicIPs) /\ ~page.dialog /\ page.tenantId # None
    /\ page.instanceId # None /\ ~page.replacing
    /\ page' = [page EXCEPT !.replacing = TRUE]
    /\ Sends({Request("replaceIP", page.tenantId, page.instanceId)})

\* The instances are loaded, and then the addresses, of the tenant chosen by then.
PublicIPsReplaced(ok) == \E r \in InFlight("replaceIP") : LET again == ok /\ page.tenantId # None IN
    /\ SettledBy(PublicIPs, r, IF again THEN {Request("instancesOfReplace", page.tenantId, None)} ELSE {})
    /\ page' = [(IF ok /\ ~again THEN ReloadsIPs(page) ELSE page) EXCEPT
                    !.replacing = again, !.instanceId = IF ok THEN None ELSE @,
                    !.instances = IF ok /\ ~again THEN None ELSE @]

PublicIPsReplaceLoaded(ok) == \E r \in InFlight("instancesOfReplace") :
    /\ SettledBy(PublicIPs, r, IPsOf(page, "ipsOfReplace"))
    /\ page' = [ReloadsIPs(page) EXCEPT !.instances = IF ok THEN r.key ELSE None,
                                        !.replacing = @ /\ page.tenantId # None]

PublicIPsAnswers == \E ok \in BOOLEAN :
    \/ NetworkTenants(PublicIPs, ok) \/ PublicIPsInstances(ok)
    \/ \E op \in {"publicIPs", "ipsOfReserve", "ipsOfDelete", "ipsOfReplace"} : PublicIPsLoaded(op, ok)
    \/ PublicIPsReserved(ok) \/ PublicIPsDeleted(ok)
    \/ PublicIPsReplaced(ok) \/ PublicIPsReplaceLoaded(ok)

PublicIPsNext ==
    \/ \E t \in Keys : PublicIPsTenantChange(t)
    \/ PublicIPsTenantClear
    \/ \E open \in BOOLEAN : PublicIPsDialog(open)
    \/ PublicIPsHandleReserve \/ PublicIPsHandleDelete
    \/ PublicIPsPickInstance \/ PublicIPsHandleReplace
    \/ PublicIPsAnswers

-----------------------------------------------------------------------------
(* IpPool.vue                                                               *)

PoolTabs == {"pool", "whitelist", "deny"}

\* rows: the tenant and tab whose rows are shown; dialog: "add" or the type of the
\* row that is edited; type: that of the form.
IpPoolInit ==
    /\ Opens([view |-> IpPool, tenants |-> FALSE, tenantId |-> None, tab |-> "pool", rows |-> None,
              loading |-> FALSE, dialog |-> None, saving |-> FALSE, importing |-> FALSE])
    /\ calls = SetToBag({Request("tenants", None, None)})

RowsAt(tenant, tab) == [tenant |-> tenant, tab |-> tab]

\* loadData
IpPoolLoads(p) == IF p.tenantId = None THEN p ELSE [p EXCEPT !.loading = TRUE]
IpPoolRequest(p) ==
    IF p.tenantId = None THEN {} ELSE {Request("ipData", RowsAt(p.tenantId, p.tab), None)}

IpPoolChoice(t, tab) ==
    /\ Click(IpPool) /\ page.tenants /\ page.dialog = None
    /\ <<t, tab>> # <<page.tenantId, page.tab>> /\ (t = page.tenantId \/ tab = page.tab)
    /\ LET p == [page EXCEPT !.tenantId = t, !.tab = tab, !.rows = IF t = page.tenantId THEN @ ELSE None]
       IN  page' = IpPoolLoads(p) /\ Sends(IpPoolRequest(p))

IpPoolLoaded(ok) == \E r \in InFlight("ipData") :
    /\ SettledBy(IpPool, r, {})
    /\ page' = [page EXCEPT !.loading = FALSE, !.rows = IF ok THEN r.key ELSE None]

\* The form of a new row is reset after its type was set: it is always a pool's.
IpPoolHandleAdd ==
    /\ Click(IpPool) /\ page.dialog = None
    /\ page' = [page EXCEPT !.dialog = "add"]
    /\ SendsNothing

IpPoolHandleEdit ==
    /\ Click(IpPool) /\ page.dialog = None /\ page.rows # None /\ ~page.loading
    /\ page' = [page EXCEPT !.dialog = "edit"]
    /\ SendsNothing

IpPoolCancel ==
    /\ Click(IpPool) /\ page.dialog # None
    /\ page' = [page EXCEPT !.dialog = None]
    /\ SendsNothing

IpPoolHandleSave ==
    /\ Click(IpPool) /\ page.dialog # None /\ ~page.saving
    /\ page' = [page EXCEPT !.saving = TRUE]
    /\ Sends({Request("saveIp", page.tenantId, page.dialog)})

IpPoolSaved(ok) == \E r \in InFlight("saveIp") :
    /\ SettledBy(IpPool, r, IF ok THEN IpPoolRequest(page) ELSE {})
    /\ page' = IF ok THEN [IpPoolLoads(page) EXCEPT !.dialog = None, !.saving = FALSE]
               ELSE [page EXCEPT !.saving = FALSE]

\* The switch of a row, and its deletion from the confirmed dialog on.
IpPoolRowAction(op) ==
    /\ Click(IpPool) /\ page.dialog = None /\ page.rows # None /\ ~page.loading
    /\ page' = page
    /\ Sends({Request(op, page.rows, None)})

IpPoolRowDone(ok) == \E r \in InFlight("toggle") \cup InFlight("delete") :
    LET again == ok /\ r.op = "delete"
    IN  /\ SettledBy(IpPool, r, IF again THEN IpPoolRequest(page) ELSE {})
        /\ page' = IF again THEN IpPoolLoads(page) ELSE page

IpPoolHandleImport ==
    /\ Click(IpPool) /\ page.dialog = None /\ page.tenantId # None /\ ~page.importing
    /\ page' = [page EXCEPT !.importing = TRUE]
    /\ Sends({Request("import", page.tenantId, None)})

IpPoolImported(ok) == \E r \in InFlight("import") :
    /\ SettledBy(IpPool, r, IF ok THEN IpPoolRequest(page) ELSE {})
    /\ page' = IF ok THEN [IpPoolLoads(page) EXCEPT !.importing = FALSE]
               ELSE [page EXCEPT !.importing = FALSE]

IpPoolAnswers == \E ok \in BOOLEAN :
    \/ NetworkTenants(IpPool, ok) \/ IpPoolLoaded(ok) \/ IpPoolSaved(ok)
    \/ IpPoolRowDone(ok) \/ IpPoolImported(ok)

IpPoolNext ==
    \/ \E t \in Keys \cup {None}, tab \in PoolTabs : IpPoolChoice(t, tab)
    \/ \E op \in {"toggle", "delete"} : IpPoolRowAction(op)
    \/ IpPoolHandleAdd \/ IpPoolHandleEdit \/ IpPoolCancel \/ IpPoolHandleSave \/ IpPoolHandleImport
    \/ IpPoolAnswers

-----------------------------------------------------------------------------
(* VcnManagement.vue                                                        *)

\* counted: the VCNs whose subnets were counted; drawer: whose subnets are shown.
VcnsInit ==
    /\ Opens([view |-> Vcns, tenants |-> FALSE, tenantId |-> None, vcns |-> None,
              loading |-> FALSE, counted |-> {}, drawer |-> None])
    /\ calls = SetToBag({Request("tenants", None, None)})

VcnsLoad(t) ==
    /\ Click(Vcns) /\ page.drawer = None /\ t # None
    /\ \/ t # page.tenantId /\ page.tenants
       \/ t = page.tenantId /\ ~page.loading
    /\ page' = [page EXCEPT !.tenantId = t, !.loading = TRUE]
    /\ Sends({Request("vcns", t, None)})

\* The subnets of a listed VCN are counted with the tenant chosen by then.
VcnsLoaded(ok) == \E r \in InFlight("vcns") :
    /\ SettledBy(Vcns, r, IF ok THEN {Request("count", page.tenantId, r.key)} ELSE {})
    /\ page' = IF ok THEN [page EXCEPT !.vcns = r.key] ELSE [page EXCEPT !.loading = FALSE]

VcnsCounted == \E r \in InFlight("count") :
    /\ SettledBy(Vcns, r, {})
    /\ page' = [page EXCEPT !.loading = FALSE, !.counted = @ \cup {r.arg}]

VcnsLoadSubnets ==
    /\ Click(Vcns) /\ page.drawer = None /\ page.vcns # None /\ ~page.loading
    /\ page' = page
    /\ Sends({Request("subnets", page.tenantId, page.vcns)})

\* The drawer opens when its content is there.
VcnsSubnets(ok) == \E r \in InFlight("subnets") :
    /\ SettledBy(Vcns, r, {})
    /\ page' = IF ok THEN [page EXCEPT !.drawer = r.arg] ELSE page

VcnsCloseDrawer ==
    /\ Click(Vcns) /\ page.drawer # None
    /\ page' = [page EXCEPT !.drawer = None]
    /\ SendsNothing

\* From the confirmation on.  The tenant is passed where del() expects its options and
\* is never sent; the server refuses the request.
VcnsDelete ==
    /\ Click(Vcns) /\ page.drawer = None /\ page.vcns # None /\ ~page.loading
    /\ page' = page
    /\ Sends({Request("deleteVcn", None, page.vcns)})

VcnsDeleteRefused == \E r \in InFlight("deleteVcn") :
    /\ SettledBy(Vcns, r, {})
    /\ page' = page

VcnsAnswers ==
    \/ \E ok \in BOOLEAN : NetworkTenants(Vcns, ok) \/ VcnsLoaded(ok) \/ VcnsSubnets(ok)
    \/ VcnsCounted \/ VcnsDeleteRefused

VcnsNext ==
    \/ \E t \in Keys : VcnsLoad(t)
    \/ VcnsLoadSubnets \/ VcnsCloseDrawer \/ VcnsDelete
    \/ VcnsAnswers

-----------------------------------------------------------------------------
(* BootVolumes.vue.  The server answers with a page of volumes where the    *)
(* view expects the volumes themselves: the table stays empty, and its row  *)
(* actions are never offered.                                               *)

VolumesInit ==
    /\ Opens([view |-> BootVolumes, tenants |-> FALSE, tenantId |-> None, instances |-> None,
              loading |-> FALSE])
    /\ calls = SetToBag({Request("tenants", None, None)})

VolumesTenantChange(t) ==
    /\ Click(BootVolumes) /\ page.tenants /\ t # page.tenantId
    /\ page' = [page EXCEPT !.tenantId = t, !.instances = IF t = None THEN None ELSE @]
    /\ Sends(IF t = None THEN {} ELSE {Request("instances", t, None)})

\* The volumes follow, of the tenant chosen by then, if one is.
VolumesInstances(ok) == \E r \in InFlight("instances") : LET next == page.tenantId # None IN
    /\ SettledBy(BootVolumes, r, IF next THEN {Request("volumes", page.tenantId, None)} ELSE {})
    /\ page' = [page EXCEPT !.instances = IF ok THEN r.key ELSE None, !.loading = @ \/ next]

VolumesLoaded == \E r \in InFlight("volumes") :
    /\ SettledBy(BootVolumes, r, {})
    /\ page' = [page EXCEPT !.loading = FALSE]

VolumesAnswers ==
    \/ \E ok \in BOOLEAN : NetworkTenants(BootVolumes, ok) \/ VolumesInstances(ok)
    \/ VolumesLoaded

VolumesNext ==
    \/ \E t \in Keys \cup {None} : VolumesTenantChange(t)
    \/ VolumesAnswers

-----------------------------------------------------------------------------
NetworkInit == RulesInit \/ PublicIPsInit \/ IpPoolInit \/ VcnsInit \/ VolumesInit
NetworkNext ==
    \/ At(SecurityRules) /\ RulesNext
    \/ At(PublicIPs) /\ PublicIPsNext
    \/ At(IpPool) /\ IpPoolNext
    \/ At(Vcns) /\ VcnsNext
    \/ At(BootVolumes) /\ VolumesNext

NetworkAnswers ==
    \/ At(SecurityRules) /\ RulesAnswers
    \/ At(PublicIPs) /\ PublicIPsAnswers
    \/ At(IpPool) /\ IpPoolAnswers
    \/ At(Vcns) /\ VcnsAnswers
    \/ At(BootVolumes) /\ VolumesAnswers

\* A security rule is added, removed or released in the VCN it was listed for, with the
\* tenant of that VCN, and an address is deleted with the tenant it was listed for;
\* but after a late answer has put another one's rows in the table.
RowOfChoice ==
    /\ page.view = SecurityRules =>
          \A r \in InFlight("addRule") \cup InFlight("removeRule") \cup InFlight("releasePorts") :
              r.arg.stale \/ (r.arg.row = r.key.vcn /\ r.key.vcn = r.key.tenant)
    /\ page.view = PublicIPs =>
          \A r \in InFlight("deleteIP") : r.arg.stale \/ r.arg.row = r.key

=============================================================================
