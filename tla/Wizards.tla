------------------------------- MODULE Wizards -------------------------------
(***************************************************************************)
(* InstanceCreate.vue, InstanceBatchCreate.vue and the dialog of            *)
(* InstancePlans.vue: a form whose dropdowns depend on one another (tenant, *)
(* then availability domain, image and VCN; image, then shape).             *)
(*                                                                         *)
(* The three read the answer of GET /vcns as an array, and the server sends *)
(* a record with the array in its field data (handleListVCNs), so the VCN   *)
(* dropdown stays empty: no subnet can be chosen, and the guards of         *)
(* handleLaunch and handleBatchCreate never let a request through.          *)
(***************************************************************************)
EXTENDS Browser, Sequences

\* An image carries the tenant whose list offered it; a domain is its tenant,
\* a shape is the image it was offered for.
Images(t) == {<<t, i>> : i \in 1..2}
TenantOf(image) == image[1]

Cascade == [tenantId |-> None, availabilityDomain |-> None, imageId |-> None, shape |-> None,
            ads |-> None, images |-> None, shapes |-> None,
            loadingADs |-> FALSE, loadingImages |-> FALSE, loadingShapes |-> FALSE,
            loadingVCNs |-> FALSE, stale |-> FALSE]

\* Mutation of Emptied, used only to test the properties.
Emptied_KeepsImage(p) == [p EXCEPT !.availabilityDomain = None, !.shape = None, !.ads = None,
                                   !.images = None, !.shapes = None, !.stale = FALSE]

Emptied(p) == [p EXCEPT !.availabilityDomain = None, !.imageId = None, !.shape = None,
                        !.ads = None, !.images = None, !.shapes = None, !.stale = FALSE]

ForTenant(p, t) == [Emptied(p) EXCEPT !.tenantId = t, !.loadingADs = TRUE,
                                      !.loadingImages = TRUE, !.loadingVCNs = TRUE]

TenantRequests(t) == {Request(op, t, None) : op \in {"ads", "images", "vcns"}}

ForImage(p, image) == [p EXCEPT !.imageId = image, !.shape = None, !.shapes = None,
                                !.loadingShapes = TRUE]

ShapesRequest(p, image) == Request("shapes", image, p.tenantId)

\* An answer fills its list whatever the form says by then; stale observes that
\* the list is not the one of the form's choice.
Filled(p, list, flag, key, chosen, ok) ==
    [p EXCEPT ![list] = IF ok THEN key ELSE None, ![flag] = FALSE,
              !.stale = @ \/ (ok /\ key # chosen)]

LoadADs(view, ok) == \E r \in InFlight("ads") :
    /\ SettledBy(view, r, {})
    /\ page' = Filled(page, "ads", "loadingADs", r.key, page.tenantId, ok)

LoadImages(view, ok) == \E r \in InFlight("images") :
    /\ SettledBy(view, r, {})
    /\ page' = Filled(page, "images", "loadingImages", r.key, page.tenantId, ok)

LoadShapes(view, ok) == \E r \in InFlight("shapes") :
    /\ SettledBy(view, r, {})
    /\ page' = Filled(page, "shapes", "loadingShapes", r.key, page.imageId, ok)

\* Array.isArray is false of the record the server sends.
LoadVCNs(view) == \E r \in InFlight("vcns") :
    /\ SettledBy(view, r, {})
    /\ page' = [page EXCEPT !.loadingVCNs = FALSE]

\* A dropdown offers what its list holds, and nothing while it loads.
PickAD(view) ==
    /\ Click(view) /\ page.tenantId # None
    /\ page.ads # None /\ ~page.loadingADs
    /\ page' = [page EXCEPT !.availabilityDomain = page.ads]
    /\ SendsNothing

PickImage(view, image) ==
    /\ Click(view) /\ page.tenantId # None
    /\ page.images = TenantOf(image) /\ ~page.loadingImages
    /\ page' = ForImage(page, image)
    /\ Sends({ShapesRequest(page, image)})

PickShape(view) ==
    /\ Click(view) /\ page.imageId # None
    /\ page.shapes # None /\ ~page.loadingShapes
    /\ page' = [page EXCEPT !.shape = page.shapes]
    /\ SendsNothing

CascadeSteps(view) ==
    \/ PickAD(view)
    \/ \E t \in Keys : \E image \in Images(t) : PickImage(view, image)
    \/ PickShape(view)

CascadeAnswers(view) ==
    \/ \E ok \in BOOLEAN : LoadADs(view, ok) \/ LoadImages(view, ok) \/ LoadShapes(view, ok)
    \/ LoadVCNs(view)

-----------------------------------------------------------------------------
(* InstanceCreate.vue                                                       *)

InstanceCreate == "InstanceCreate"
PlanPrefill == "InstanceCreatePlans"

InstanceCreateInit ==
    /\ Opens(With([view |-> InstanceCreate, tenants |-> FALSE, loadingTenants |-> TRUE], Cascade))
    /\ calls = SetToBag({Request("tenants", None, None)})

InstanceCreateLoadTenants(ok) == \E r \in InFlight("tenants") :
    /\ SettledBy(InstanceCreate, r, {})
    /\ page' = [page EXCEPT !.tenants = @ \/ ok, !.loadingTenants = FALSE]

\* The plans of the page are a view of their own.  planId: whether the address names one.
\* The server's rows have tenantId and imageId, the view looks for tenant_id and
\* image_id: a plan fills in its name (and the size of the volume), nothing else.
PlanPrefillInit == \E planId \in BOOLEAN :
    /\ Opens([view |-> PlanPrefill, plans |-> FALSE, planId |-> planId, displayName |-> FALSE])
    /\ calls = SetToBag({Request("plans", None, None)})

\* With a plan_id in the address the plans are asked for once more.
PlanPrefillMounted(ok) == \E r \in InFlight("plans") :
    /\ SettledBy(PlanPrefill, r, IF page.planId THEN {Request("plan", None, None)} ELSE {})
    /\ page' = [page EXCEPT !.plans = @ \/ ok]

Prefilled(p) == [p EXCEPT !.displayName = TRUE]

PlanPrefillQueryPlan(ok) == \E r \in InFlight("plan") :
    /\ SettledBy(PlanPrefill, r, {})
    /\ page' = IF ok THEN Prefilled(page) ELSE page

PlanPrefillOnPlanSelect ==
    /\ Click(PlanPrefill) /\ page.plans
    /\ page' = Prefilled(page)
    /\ SendsNothing

PlanPrefillAnswers == \E ok \in BOOLEAN : PlanPrefillMounted(ok) \/ PlanPrefillQueryPlan(ok)
PlanPrefillNext == PlanPrefillOnPlanSelect \/ PlanPrefillAnswers

InstanceCreateOnTenantChange(t) ==
    /\ Click(InstanceCreate) /\ page.tenants /\ t # page.tenantId
    /\ page' = ForTenant(page, t)
    /\ Sends(TenantRequests(t))

InstanceCreateAnswers ==
    \/ \E ok \in BOOLEAN : InstanceCreateLoadTenants(ok)
    \/ CascadeAnswers(InstanceCreate)

InstanceCreateNext ==
    \/ \E t \in Keys : InstanceCreateOnTenantChange(t)
    \/ CascadeSteps(InstanceCreate)
    \/ InstanceCreateAnswers

-----------------------------------------------------------------------------
(* InstanceBatchCreate.vue: the first of the chosen tenants is the form's.  *)

BatchCreate == "InstanceBatchCreate"

BatchCreateInit ==
    /\ Opens(With([view |-> BatchCreate, tenants |-> FALSE, loadingTenants |-> TRUE,
                   tenantIds |-> <<>>, region |-> None], Cascade))
    /\ calls = SetToBag({Request("tenants", None, None)})

BatchCreateLoadTenants(ok) == \E r \in InFlight("tenants") :
    /\ SettledBy(BatchCreate, r, {})
    /\ page' = [page EXCEPT !.tenants = @ \/ ok, !.loadingTenants = FALSE]

Toggled(ts, t) == IF \E i \in DOMAIN ts : ts[i] = t
                  THEN SelectSeq(ts, LAMBDA other : other # t)
                  ELSE Append(ts, t)

\* The region is that of the first tenant ever chosen: it is not filled in again.
BatchCreateOnTenantChange(t) ==
    LET ts == Toggled(page.tenantIds, t) IN
    /\ Click(BatchCreate) /\ page.tenants
    /\ IF ts = <<>>
       THEN /\ page' = [Emptied(page) EXCEPT !.tenantIds = ts, !.tenantId = None]
            /\ SendsNothing
       ELSE /\ page' = [ForTenant(page, ts[1]) EXCEPT
                            !.tenantIds = ts, !.region = IF @ = None THEN ts[1] ELSE @]
            /\ Sends(TenantRequests(ts[1]))

BatchCreateLoads == CascadeAnswers(BatchCreate)

BatchCreateAnswers ==
    \/ \E ok \in BOOLEAN : BatchCreateLoadTenants(ok)
    \/ BatchCreateLoads

BatchCreateNext ==
    \/ \E t \in Keys : BatchCreateOnTenantChange(t)
    \/ CascadeSteps(BatchCreate)
    \/ BatchCreateAnswers

-----------------------------------------------------------------------------
(* InstancePlans.vue: the plans of a tenant, and a dialog with the cascade. *)

InstancePlans == "InstancePlans"

\* dialog: closed, "add", or the tenant whose plan is edited.
InstancePlansInit ==
    /\ Opens(With([view |-> InstancePlans, tenants |-> FALSE, tenantsLoading |-> TRUE,
                   selectedTenantId |-> None, plans |-> None, loading |-> FALSE,
                   dialog |-> None, saving |-> FALSE], Cascade))
    /\ calls = SetToBag({Request("tenants", None, None)})

InstancePlansLoadTenants(ok) == \E r \in InFlight("tenants") :
    /\ SettledBy(InstancePlans, r, {})
    /\ page' = [page EXCEPT !.tenants = @ \/ ok, !.tenantsLoading = FALSE]

PlansRequest == {Request("plans", t, None) : t \in {page.selectedTenantId} \ {None}}

InstancePlansOnTenantChange(t) ==
    /\ Click(InstancePlans) /\ page.tenants /\ page.dialog = None
    /\ page' = [page EXCEPT !.selectedTenantId = t, !.plans = None, !.loading = TRUE]
    /\ Sends({Request("plans", t, None)})

InstancePlansLoadPlans(ok) == \E r \in InFlight("plans") :
    /\ SettledBy(InstancePlans, r, {})
    /\ page' = [page EXCEPT !.plans = IF ok THEN r.key ELSE None, !.loading = FALSE]

InstancePlansResetForm(p) == [Emptied(p) EXCEPT !.tenantId = None]

InstancePlansHandleAdd ==
    /\ Click(InstancePlans) /\ page.dialog = None
    /\ page' = [InstancePlansResetForm(page) EXCEPT !.dialog = "add"]
    /\ SendsNothing

InstancePlansOnFormTenantChange(t) ==
    /\ Click(InstancePlans) /\ page.dialog = "add" /\ page.tenants
    /\ page' = ForTenant(page, t)
    /\ Sends(TenantRequests(t))

InstancePlansDialogLoads == CascadeAnswers(InstancePlans)

\* The fields the form copies (tenant_id, image_id ...) are not in the rows, which
\* have tenantId, imageId ...: the form is empty, but the lists stay.
InstancePlansHandleEdit ==
    /\ Click(InstancePlans) /\ page.dialog = None /\ page.plans # None
    /\ page' = [page EXCEPT !.dialog = page.plans, !.tenantId = None, !.imageId = None,
                            !.availabilityDomain = None, !.shape = None]
    /\ SendsNothing

InstancePlansCancel ==
    /\ Click(InstancePlans) /\ page.dialog # None
    /\ page' = [page EXCEPT !.dialog = None]
    /\ SendsNothing

PlanBody(p) == [ad |-> p.availabilityDomain, image |-> p.imageId,
                shape |-> p.shape, stale |-> p.stale]

InstancePlansHandleSave ==
    /\ Click(InstancePlans) /\ page.dialog # None /\ ~page.saving
    /\ page' = [page EXCEPT !.saving = TRUE]
    /\ Sends({IF page.dialog = "add"
              THEN Request("createPlan", page.tenantId, PlanBody(page))
              ELSE Request("updatePlan", page.dialog, PlanBody(page))})

\* The server refuses a new plan without a tenant.
InstancePlansSaved(ok) == \E r \in InFlight("createPlan") \cup InFlight("updatePlan") :
    /\ ok => r.key # None
    /\ SettledBy(InstancePlans, r, IF ok THEN PlansRequest ELSE {})
    /\ page' = [page EXCEPT !.saving = FALSE, !.dialog = IF ok THEN None ELSE @,
                            !.loading = @ \/ (ok /\ page.selectedTenantId # None)]

\* From the confirmed dialog on.
InstancePlansHandleDelete ==
    /\ Click(InstancePlans) /\ page.dialog = None /\ page.plans # None
    /\ page' = page
    /\ Sends({Request("deletePlan", page.plans, None)})

InstancePlansDeleted(ok) == \E r \in InFlight("deletePlan") :
    /\ SettledBy(InstancePlans, r, IF ok THEN PlansRequest ELSE {})
    /\ page' = [page EXCEPT !.loading = @ \/ (ok /\ page.selectedTenantId # None)]

InstancePlansAnswers ==
    \/ \E ok \in BOOLEAN : \/ InstancePlansLoadTenants(ok) \/ InstancePlansLoadPlans(ok)
                          \/ InstancePlansSaved(ok) \/ InstancePlansDeleted(ok)
    \/ InstancePlansDialogLoads

InstancePlansNext ==
    \/ \E t \in Keys : InstancePlansOnTenantChange(t) \/ InstancePlansOnFormTenantChange(t)
    \/ InstancePlansHandleAdd \/ InstancePlansHandleEdit \/ InstancePlansCancel
    \/ InstancePlansHandleSave \/ InstancePlansHandleDelete
    \/ (page.view = InstancePlans /\ page.dialog # None /\ CascadeSteps(InstancePlans))
    \/ InstancePlansAnswers

-----------------------------------------------------------------------------
WizardInit == InstanceCreateInit \/ PlanPrefillInit \/ BatchCreateInit \/ InstancePlansInit
WizardNext ==
    \/ At(InstanceCreate) /\ InstanceCreateNext
    \/ At(PlanPrefill) /\ PlanPrefillNext
    \/ At(BatchCreate) /\ BatchCreateNext
    \/ At(InstancePlans) /\ InstancePlansNext

WizardAnswers ==
    \/ At(InstanceCreate) /\ InstanceCreateAnswers
    \/ At(PlanPrefill) /\ PlanPrefillAnswers
    \/ At(BatchCreate) /\ BatchCreateAnswers
    \/ At(InstancePlans) /\ InstancePlansAnswers

Wizards == {InstanceCreate, BatchCreate, InstancePlans}

Coherent(t, ad, image, shape) ==
    /\ ad \in {None, t}
    /\ image # None => TenantOf(image) = t
    /\ shape \in {None, image}

\* Until a late answer puts the list of another choice before the user, the
\* domain, image and shape of a form, and of every plan it sent, are those of its
\* tenant: a change of the tenant or the image takes all that hung on it.
CascadeCoherent ==
    page.view \in Wizards =>
        /\ page.stale \/ Coherent(page.tenantId, page.availabilityDomain, page.imageId, page.shape)
        /\ \A r \in InFlight("createPlan") :
               r.arg.stale \/ Coherent(r.key, r.arg.ad, r.arg.image, r.arg.shape)

=============================================================================
