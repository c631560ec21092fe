------------------------------ MODULE FormsProofs ------------------------------
(***************************************************************************)
(* Proofs about what a form, a table or a page of figures holds of the      *)
(* choices made on it, while lists and figures arrive in any order.         *)
(***************************************************************************)
EXTENDS ConsolesProofs, BrowserProofs, Frontend

-----------------------------------------------------------------------------
(* The forms with a cascade                                                 *)

WizardSpec == WizardInit /\ [][WizardNext]_vars

FormFields == {"view", "tenantId", "availabilityDomain", "imageId", "shape",
               "ads", "images", "shapes", "loadingADs", "loadingImages", "loadingShapes",
               "loadingVCNs", "stale"}

\* Until a late answer: what is chosen belongs together, and so does what could be
\* chosen next.  A dialog that edits a plan has lists left over and no tenant.
ChoicesSound(p) ==
    /\ Coherent(p.tenantId, p.availabilityDomain, p.imageId, p.shape)
    /\ p.tenantId # None => p.ads \in {None, p.tenantId} /\ p.images \in {None, p.tenantId}
    /\ p.imageId # None => p.shapes \in {None, p.imageId}

CascadeSound(p) ==
    /\ p.view \in Wizards /\ FormFields \subseteq DOMAIN p
    /\ p.stale \in BOOLEAN
    /\ p.stale \/ ChoicesSound(p)

\* The plans that were sent.
PlansSound ==
    /\ CallsSound
    /\ \A r \in DOMAIN calls : r.op = "createPlan" =>
           r.arg.stale \/ Coherent(r.key, r.arg.ad, r.arg.image, r.arg.shape)

\* Records that hold the same choices.
SameChoices(p, q) ==
    /\ DOMAIN q = DOMAIN p
    /\ \A f \in {"view", "tenantId", "availabilityDomain", "imageId", "shape",
                 "ads", "images", "shapes", "stale"} : q[f] = p[f]

LEMMA SameChoicesSound ==
    ASSUME NEW p, NEW q, CascadeSound(p), SameChoices(p, q)
    PROVE  CascadeSound(q)
BY DEF CascadeSound, ChoicesSound, SameChoices

\* Steps that send no new plan.
LEMMA PlansKept ==
    ASSUME PlansSound, NEW rs, \A q \in rs : IsRequest(q) /\ q.op # "createPlan",
           Sends(rs) \/ \E view, r : SettledBy(view, r, rs)
    PROVE  PlansSound'
<1>1. CASE Sends(rs)
  BY <1>1, SentCalls DEF PlansSound, CallsSound
<1>2. ASSUME NEW view, NEW r, SettledBy(view, r, rs)
      PROVE  PlansSound'
  BY <1>2, SettledCalls DEF PlansSound, CallsSound
<1> QED
  BY <1>1, <1>2

LEMMA PlansSettled ==
    ASSUME PlansSound, NEW view, NEW r, SettledBy(view, r, {})
    PROVE  PlansSound'
BY PlansKept

LEMMA PlansUnsent == ASSUME PlansSound, SendsNothing PROVE PlansSound'
BY DEF PlansSound, CallsSound, SendsNothing

\* A form without choices, and one for another tenant.
LEMMA EmptiedSound ==
    ASSUME NEW p, p.view \in Wizards, FormFields \subseteq DOMAIN p
    PROVE  /\ CascadeSound([Emptied(p) EXCEPT !.tenantId = None])
           /\ \A t : CascadeSound(ForTenant(p, t))
BY DEF CascadeSound, ChoicesSound, Coherent, Emptied, ForTenant, FormFields

\* The image is chosen from the tenant's list.
LEMMA ForImageSound ==
    ASSUME NEW p, CascadeSound(p), p.tenantId # None,
           NEW image, TenantOf(image) # None, p.images = TenantOf(image)
    PROVE  CascadeSound(ForImage(p, image))
<1>1. /\ DOMAIN ForImage(p, image) = DOMAIN p /\ ForImage(p, image).view = p.view
      /\ ForImage(p, image).tenantId = p.tenantId
      /\ ForImage(p, image).availabilityDomain = p.availabilityDomain
      /\ ForImage(p, image).imageId = image /\ ForImage(p, image).shape = None
      /\ ForImage(p, image).ads = p.ads /\ ForImage(p, image).images = p.images
      /\ ForImage(p, image).shapes = None /\ ForImage(p, image).stale = p.stale
  BY DEF ForImage, CascadeSound, FormFields
<1> QED
  BY <1>1 DEF CascadeSound, ChoicesSound, Coherent

\* A list that arrives is the one of the choice, or the form notes that it is not.
LEMMA FilledSound ==
    ASSUME NEW p, CascadeSound(p), NEW key, NEW ok \in BOOLEAN
    PROVE  /\ CascadeSound(Filled(p, "ads", "loadingADs", key, p.tenantId, ok))
           /\ CascadeSound(Filled(p, "images", "loadingImages", key, p.tenantId, ok))
           /\ CascadeSound(Filled(p, "shapes", "loadingShapes", key, p.imageId, ok))
<1>1. CascadeSound(Filled(p, "ads", "loadingADs", key, p.tenantId, ok))
  BY DEF CascadeSound, ChoicesSound, Coherent, Filled, FormFields
<1>2. CascadeSound(Filled(p, "images", "loadingImages", key, p.tenantId, ok))
  BY DEF CascadeSound, ChoicesSound, Coherent, Filled, FormFields
<1>3. CascadeSound(Filled(p, "shapes", "loadingShapes", key, p.imageId, ok))
  BY DEF CascadeSound, ChoicesSound, Coherent, Filled, FormFields
<1> QED
  BY <1>1, <1>2, <1>3

LEMMA CascadeAnswersSound ==
    ASSUME PlansSound, CascadeSound(page), NEW view, CascadeAnswers(view)
    PROVE  PlansSound' /\ CascadeSound(page')
<1>1. ASSUME NEW ok \in BOOLEAN, LoadADs(view, ok)
      PROVE  PlansSound' /\ CascadeSound(page')
  BY <1>1, PlansSettled, FilledSound DEF LoadADs
<1>2. ASSUME NEW ok \in BOOLEAN, LoadImages(view, ok)
      PROVE  PlansSound' /\ CascadeSound(page')
  BY <1>2, PlansSettled, FilledSound DEF LoadImages
<1>3. ASSUME NEW ok \in BOOLEAN, LoadShapes(view, ok)
      PROVE  PlansSound' /\ CascadeSound(page')
  BY <1>3, PlansSettled, FilledSound DEF LoadShapes
<1>4. CASE LoadVCNs(view)
  <2>1. PlansSound'
    BY <1>4, PlansSettled DEF LoadVCNs
  <2>2. SameChoices(page, page')
    BY <1>4 DEF LoadVCNs, SameChoices, CascadeSound, FormFields
  <2> QED
    BY <2>1, <2>2, SameChoicesSound
<1> QED
  BY <1>1, <1>2, <1>3, <1>4 DEF CascadeAnswers

LEMMA CascadeStepsSound ==
    ASSUME PlansSound, CascadeSound(page), NEW view, CascadeSteps(view)
    PROVE  PlansSound' /\ CascadeSound(page')
<1>1. CASE PickAD(view)
  <2>1. PlansSound'
    BY <1>1, PlansUnsent DEF PickAD
  <2>2. page' = [page EXCEPT !.availabilityDomain = page.ads]
        /\ page.tenantId # None /\ page.ads # None
    BY <1>1 DEF PickAD
  <2>3. CascadeSound(page')
    BY <2>2 DEF CascadeSound, ChoicesSound, Coherent, FormFields
  <2> QED
    BY <2>1, <2>3
<1>2. ASSUME NEW t \in Keys, NEW image \in Images(t), PickImage(view, image)
      PROVE  PlansSound' /\ CascadeSound(page')
  <2>1. TenantOf(image) # None
    BY BrowserAssumption DEF Images, TenantOf
  <2>2. IsRequest(ShapesRequest(page, image)) /\ ShapesRequest(page, image).op = "shapes"
    BY RequestFields DEF ShapesRequest
  <2>3. PlansSound'
    BY <1>2, <2>2, PlansKept DEF PickImage
  <2>4. CascadeSound(page')
    BY <1>2, <2>1, ForImageSound DEF PickImage
  <2> QED
    BY <2>3, <2>4
<1>3. CASE PickShape(view)
  <2>1. PlansSound'
    BY <1>3, PlansUnsent DEF PickShape
  <2>2. page' = [page EXCEPT !.shape = page.shapes]
        /\ page.imageId # None /\ page.shapes # None
    BY <1>3 DEF PickShape
  <2>3. CascadeSound(page')
    BY <2>2 DEF CascadeSound, ChoicesSound, Coherent, FormFields
  <2> QED
    BY <2>1, <2>3
<1> QED
  BY <1>1, <1>2, <1>3 DEF CascadeSteps

WizardInv ==
    /\ PlansSound
    /\ page.view = PlanPrefill \/ CascadeSound(page)

LEMMA WizardViews ==
    /\ Wizards = {InstanceCreate, BatchCreate, InstancePlans}
    /\ PlanPrefill \notin Wizards
    /\ InstanceCreate # BatchCreate /\ InstanceCreate # InstancePlans /\ BatchCreate # InstancePlans
BY DEF Wizards, PlanPrefill, InstanceCreate, BatchCreate, InstancePlans

LEMMA TenantRequestsSound ==
    ASSUME NEW t
    PROVE  \A q \in TenantRequests(t) : IsRequest(q) /\ q.op # "createPlan"
BY RequestFields DEF TenantRequests

LEMMA PlanPrefillSteps ==
    ASSUME PlansSound, page.view = PlanPrefill, PlanPrefillNext
    PROVE  PlansSound' /\ page'.view = PlanPrefill
<1>1. CASE PlanPrefillOnPlanSelect
  BY <1>1, PlansUnsent DEF PlanPrefillOnPlanSelect, Prefilled
<1>2. ASSUME NEW ok \in BOOLEAN, PlanPrefillMounted(ok)
      PROVE  PlansSound' /\ page'.view = PlanPrefill
  <2>1. \A q \in IF page.planId THEN {Request("plan", None, None)} ELSE {} :
            IsRequest(q) /\ q.op # "createPlan"
    BY RequestFields
  <2> QED
    BY <1>2, <2>1, PlansKept DEF PlanPrefillMounted
<1>3. ASSUME NEW ok \in BOOLEAN, PlanPrefillQueryPlan(ok)
      PROVE  PlansSound' /\ page'.view = PlanPrefill
  BY <1>3, PlansSettled DEF PlanPrefillQueryPlan, Prefilled
<1> QED
  BY <1>1, <1>2, <1>3 DEF PlanPrefillNext, PlanPrefillAnswers

LEMMA InstanceCreateSteps ==
    ASSUME PlansSound, CascadeSound(page), InstanceCreateNext
    PROVE  PlansSound' /\ CascadeSound(page')
<1>1. ASSUME NEW t \in Keys, InstanceCreateOnTenantChange(t)
      PROVE  PlansSound' /\ CascadeSound(page')
  <2>1. PlansSound'
    BY <1>1, TenantRequestsSound, PlansKept DEF InstanceCreateOnTenantChange
  <2>2. page' = ForTenant(page, t)
    BY <1>1 DEF InstanceCreateOnTenantChange
  <2> QED
    BY <2>1, <2>2, EmptiedSound DEF CascadeSound
<1>2. ASSUME NEW ok \in BOOLEAN, InstanceCreateLoadTenants(ok)
      PROVE  PlansSound' /\ CascadeSound(page')
  <2>1. PlansSound'
    BY <1>2, PlansSettled DEF InstanceCreateLoadTenants
  <2>2. SameChoices(page, page')
    BY <1>2 DEF InstanceCreateLoadTenants, SameChoices, CascadeSound, FormFields
  <2> QED
    BY <2>1, <2>2, SameChoicesSound
<1> QED
  BY <1>1, <1>2, CascadeStepsSound, CascadeAnswersSound
     DEF InstanceCreateNext, InstanceCreateAnswers

LEMMA BatchCreateSteps ==
    ASSUME PlansSound, CascadeSound(page), BatchCreateNext
    PROVE  PlansSound' /\ CascadeSound(page')
<1>f. page.view \in Wizards /\ FormFields \subseteq DOMAIN page
  BY DEF CascadeSound
<1>1. ASSUME NEW t \in Keys, BatchCreateOnTenantChange(t)
      PROVE  PlansSound' /\ CascadeSound(page')
  <2>0. PICK ts : ts = Toggled(page.tenantIds, t)
    OBVIOUS
  <2>1. CASE ts = <<>>
    <3>1. PlansSound'
      BY <1>1, <2>0, <2>1, PlansUnsent DEF BatchCreateOnTenantChange
    <3>2. page' = [Emptied(page) EXCEPT !.tenantIds = ts, !.tenantId = None]
      BY <1>1, <2>0, <2>1 DEF BatchCreateOnTenantChange
    <3>3. PICK p : p = [Emptied(page) EXCEPT !.tenantId = None]
      OBVIOUS
    <3>4. CascadeSound(p)
      BY <1>f, <3>3, EmptiedSound
    <3>5. SameChoices(p, page')
      BY <1>f, <3>2, <3>3 DEF SameChoices, Emptied, FormFields
    <3> QED
      BY <3>1, <3>4, <3>5, SameChoicesSound
  <2>2. CASE ts # <<>>
    <3>1. PlansSound'
      BY <1>1, <2>0, <2>2, TenantRequestsSound, PlansKept DEF BatchCreateOnTenantChange
    <3>2. page' = [ForTenant(page, ts[1]) EXCEPT
                      !.tenantIds = ts, !.region = IF @ = None THEN ts[1] ELSE @]
      BY <1>1, <2>0, <2>2 DEF BatchCreateOnTenantChange
    <3>3. PICK p : p = ForTenant(page, ts[1])
      OBVIOUS
    <3>4. CascadeSound(p)
      BY <1>f, <3>3, EmptiedSound
    <3>5. SameChoices(p, page')
      BY <3>2, <3>3, <3>4 DEF SameChoices, CascadeSound, FormFields
    <3> QED
      BY <3>1, <3>4, <3>5, SameChoicesSound
  <2> QED
    BY <2>1, <2>2
<1>2. ASSUME NEW ok \in BOOLEAN, BatchCreateLoadTenants(ok)
      PROVE  PlansSound' /\ CascadeSound(page')
  <2>1. PlansSound'
    BY <1>2, PlansSettled DEF BatchCreateLoadTenants
  <2>2. SameChoices(page, page')
    BY <1>2, <1>f DEF BatchCreateLoadTenants, SameChoices, FormFields
  <2> QED
    BY <2>1, <2>2, SameChoicesSound
<1> QED
  BY <1>1, <1>2, CascadeStepsSound, CascadeAnswersSound
     DEF BatchCreateNext, BatchCreateAnswers, BatchCreateLoads

\* The steps of InstancePlans.vue that leave the choices of its dialog alone.
LEMMA InstancePlansFrame ==
    ASSUME PlansSound, CascadeSound(page),
           \/ \E t \in Keys : InstancePlansOnTenantChange(t)
           \/ InstancePlansCancel \/ InstancePlansHandleDelete
           \/ \E ok \in BOOLEAN : \/ InstancePlansLoadTenants(ok) \/ InstancePlansLoadPlans(ok)
                                 \/ InstancePlansSaved(ok) \/ InstancePlansDeleted(ok)
    PROVE  PlansSound' /\ CascadeSound(page')
<1>f. page.view \in Wizards /\ FormFields \subseteq DOMAIN page
  BY DEF CascadeSound
<1>r. /\ \A t : IsRequest(Request("plans", t, None)) /\ Request("plans", t, None).op = "plans"
      /\ \A t : IsRequest(Request("deletePlan", t, None))
                /\ Request("deletePlan", t, None).op = "deletePlan"
      /\ \A q \in PlansRequest : IsRequest(q) /\ q.op # "createPlan"
  BY RequestFields DEF PlansRequest
<1>1. SameChoices(page, page')
  BY <1>f DEF InstancePlansOnTenantChange, InstancePlansCancel, InstancePlansHandleDelete,
      InstancePlansLoadTenants, InstancePlansLoadPlans, InstancePlansSaved,
      InstancePlansDeleted, SameChoices, FormFields
<1>2. PlansSound'
  <2>1. ASSUME NEW t \in Keys, InstancePlansOnTenantChange(t)
        PROVE  PlansSound'
    BY <2>1, <1>r, PlansKept DEF InstancePlansOnTenantChange
  <2>2. CASE InstancePlansCancel
    BY <2>2, PlansUnsent DEF InstancePlansCancel
  <2>3. CASE InstancePlansHandleDelete
    BY <2>3, <1>r, PlansKept DEF InstancePlansHandleDelete
  <2>4. ASSUME NEW ok \in BOOLEAN, InstancePlansLoadTenants(ok) \/ InstancePlansLoadPlans(ok)
        PROVE  PlansSound'
    BY <2>4, PlansSettled DEF InstancePlansLoadTenants, InstancePlansLoadPlans
  <2>5. ASSUME NEW ok \in BOOLEAN, InstancePlansSaved(ok) \/ InstancePlansDeleted(ok)
        PROVE  PlansSound'
    <3>0. PICK rs : rs = IF ok THEN PlansRequest ELSE {}
      OBVIOUS
    <3>1. \A q \in rs : IsRequest(q) /\ q.op # "createPlan"
      BY <1>r, <3>0
    <3>2. CASE InstancePlansSaved(ok)
      <4>1. PICK r \in InFlight("createPlan") \cup InFlight("updatePlan") :
              SettledBy(InstancePlans, r, rs)
        BY <3>0, <3>2 DEF InstancePlansSaved
      <4> QED
        BY <3>1, <4>1, PlansKept
    <3>3. CASE InstancePlansDeleted(ok)
      <4>1. PICK r \in InFlight("deletePlan") : SettledBy(InstancePlans, r, rs)
        BY <3>0, <3>3 DEF InstancePlansDeleted
      <4> QED
        BY <3>1, <4>1, PlansKept
    <3> QED
      BY <2>5, <3>2, <3>3
  <2> QED
    BY <2>1, <2>2, <2>3, <2>4, <2>5
<1> QED
  BY <1>1, <1>2, SameChoicesSound

\* The dialog is opened: empty for a new plan, without choices for an old one.
LEMMA InstancePlansOpened ==
    ASSUME PlansSound, CascadeSound(page),
           \/ InstancePlansHandleAdd \/ InstancePlansHandleEdit
           \/ \E t \in Keys : InstancePlansOnFormTenantChange(t)
    PROVE  PlansSound' /\ CascadeSound(page')
<1>f. page.view \in Wizards /\ FormFields \subseteq DOMAIN page
  BY DEF CascadeSound
<1>1. CASE InstancePlansHandleAdd
  <2>1. PlansSound'
    BY <1>1, PlansUnsent DEF InstancePlansHandleAdd
  <2>2. PICK p : p = [Emptied(page) EXCEPT !.tenantId = None]
    OBVIOUS
  <2>3. CascadeSound(p)
    BY <1>f, <2>2, EmptiedSound
  <2>4. SameChoices(p, page')
    BY <1>1, <2>2, <2>3 DEF InstancePlansHandleAdd, InstancePlansResetForm, SameChoices,
        CascadeSound, FormFields
  <2> QED
    BY <2>1, <2>3, <2>4, SameChoicesSound
<1>2. CASE InstancePlansHandleEdit
  <2>1. PlansSound'
    BY <1>2, PlansUnsent DEF InstancePlansHandleEdit
  <2>2. CascadeSound(page')
    BY <1>2 DEF InstancePlansHandleEdit, CascadeSound, ChoicesSound, Coherent, FormFields
  <2> QED
    BY <2>1, <2>2
<1>3. ASSUME NEW t \in Keys, InstancePlansOnFormTenantChange(t)
      PROVE  PlansSound' /\ CascadeSound(page')
  <2>1. PlansSound'
    BY <1>3, TenantRequestsSound, PlansKept DEF InstancePlansOnFormTenantChange
  <2>2. page' = ForTenant(page, t)
    BY <1>3 DEF InstancePlansOnFormTenantChange
  <2> QED
    BY <1>f, <2>1, <2>2, EmptiedSound
<1> QED
  BY <1>1, <1>2, <1>3

\* A plan that is sent holds the choices of the form.
LEMMA InstancePlansSent ==
    ASSUME PlansSound, CascadeSound(page), InstancePlansHandleSave
    PROVE  PlansSound' /\ CascadeSound(page')
<1>1. PICK q : q = IF page.dialog = "add"
                   THEN Request("createPlan", page.tenantId, PlanBody(page))
                   ELSE Request("updatePlan", page.dialog, PlanBody(page))
  OBVIOUS
<1>2. Sends({q})
  BY <1>1 DEF InstancePlansHandleSave
<1>3. IsRequest(q) /\ q.arg = PlanBody(page)
      /\ (q.op = "createPlan" => q.key = page.tenantId)
  BY <1>1, RequestFields
<1>4. q.op = "createPlan" => q.arg.stale \/ Coherent(q.key, q.arg.ad, q.arg.image, q.arg.shape)
  BY <1>3 DEF PlanBody, CascadeSound, ChoicesSound
<1>5. PlansSound'
  BY <1>2, <1>3, <1>4, SentCalls DEF PlansSound, CallsSound
<1>6. SameChoices(page, page')
  BY DEF InstancePlansHandleSave, SameChoices, CascadeSound, FormFields
<1> QED
  BY <1>5, <1>6, SameChoicesSound

LEMMA InstancePlansSteps ==
    ASSUME PlansSound, CascadeSound(page), InstancePlansNext
    PROVE  PlansSound' /\ CascadeSound(page')
BY InstancePlansFrame, InstancePlansOpened, InstancePlansSent, CascadeStepsSound,
   CascadeAnswersSound DEF InstancePlansNext, InstancePlansAnswers, InstancePlansDialogLoads

LEMMA CascadeInitSound ==
    ASSUME NEW p, NEW r, p = With(r, Cascade), DOMAIN r \cap DOMAIN Cascade = {},
           "view" \in DOMAIN r, r.view \in Wizards
    PROVE  CascadeSound(p)
<1>1. FormFields = DOMAIN Cascade \cup {"view"}
  BY DEF FormFields, Cascade
<1>2. /\ DOMAIN p = DOMAIN r \cup DOMAIN Cascade
      /\ \A f \in DOMAIN r : p[f] = r[f]
      /\ \A f \in DOMAIN Cascade : p[f] = Cascade[f]
  <2>1. PICK part : part = Cascade
    OBVIOUS
  <2>2. p = With(r, part) /\ DOMAIN r \cap DOMAIN part = {}
    BY <2>1
  <2>3. /\ DOMAIN p = DOMAIN r \cup DOMAIN part
        /\ \A f \in DOMAIN r : p[f] = r[f]
        /\ \A f \in DOMAIN part : p[f] = part[f]
    BY <2>2 DEF With
  <2> QED
    BY <2>1, <2>3
<1>3. /\ p.tenantId = None /\ p.availabilityDomain = None /\ p.imageId = None
      /\ p.shape = None /\ p.stale = FALSE
  BY <1>2 DEF Cascade
<1>4. p.view = r.view /\ FormFields \subseteq DOMAIN p
  BY <1>1, <1>2
<1> QED
  BY <1>3, <1>4 DEF CascadeSound, ChoicesSound, Coherent

LEMMA WizardInitSound == WizardInit => WizardInv
<1> SUFFICES ASSUME WizardInit PROVE WizardInv
  OBVIOUS
<1>1. PICK op \in {"tenants", "plans"} : calls = SetToBag({Request(op, None, None)})
  BY DEF WizardInit, InstanceCreateInit, PlanPrefillInit, BatchCreateInit, InstancePlansInit
<1>2. PlansSound
  BY <1>1, RequestFields DEF PlansSound, CallsSound, SetToBag, IsABag
<1>3. CASE PlanPrefillInit
  BY <1>2, <1>3 DEF PlanPrefillInit, Opens, WizardInv
<1>4. CASE InstanceCreateInit
  <2>0. PICK r : r = [view |-> InstanceCreate, tenants |-> FALSE, loadingTenants |-> TRUE]
    OBVIOUS
  <2>1. page = With(r, Cascade)
    BY <1>4, <2>0 DEF InstanceCreateInit, Opens
  <2>2. DOMAIN r \cap DOMAIN Cascade = {} /\ "view" \in DOMAIN r /\ r.view \in Wizards
    BY <2>0 DEF Cascade, Wizards
  <2>3. CascadeSound(page)
    BY <2>1, <2>2, CascadeInitSound
  <2> QED
    BY <1>2, <2>3 DEF WizardInv
<1>5. CASE BatchCreateInit
  <2>0. PICK r : r = [view |-> BatchCreate, tenants |-> FALSE, loadingTenants |-> TRUE,
                  tenantIds |-> <<>>, region |-> None]
    OBVIOUS
  <2>1. page = With(r, Cascade)
    BY <1>5, <2>0 DEF BatchCreateInit, Opens
  <2>2. DOMAIN r \cap DOMAIN Cascade = {} /\ "view" \in DOMAIN r /\ r.view \in Wizards
    BY <2>0 DEF Cascade, Wizards
  <2>3. CascadeSound(page)
    BY <2>1, <2>2, CascadeInitSound
  <2> QED
    BY <1>2, <2>3 DEF WizardInv
<1>6. CASE InstancePlansInit
  <2>0. PICK r : r = [view |-> InstancePlans, tenants |-> FALSE, tenantsLoading |-> TRUE,
                  selectedTenantId |-> None, plans |-> None, loading |-> FALSE,
                  dialog |-> None, saving |-> FALSE]
    OBVIOUS
  <2>1. page = With(r, Cascade)
    BY <1>6, <2>0 DEF InstancePlansInit, Opens
  <2>2. DOMAIN r \cap DOMAIN Cascade = {} /\ "view" \in DOMAIN r /\ r.view \in Wizards
    BY <2>0 DEF Cascade, Wizards
  <2>3. CascadeSound(page)
    BY <2>1, <2>2, CascadeInitSound
  <2> QED
    BY <1>2, <2>3 DEF WizardInv
<1> QED
  BY <1>3, <1>4, <1>5, <1>6 DEF WizardInit

LEMMA WizardStep == WizardInv /\ [WizardNext]_vars => WizardInv'
<1> SUFFICES ASSUME WizardInv, [WizardNext]_vars PROVE WizardInv'
  OBVIOUS
<1>1. CASE At(PlanPrefill) /\ PlanPrefillNext
  BY <1>1, PlanPrefillSteps DEF At, WizardInv
<1>2. CASE ~At(PlanPrefill) /\ WizardNext
  BY <1>2, InstanceCreateSteps, BatchCreateSteps, InstancePlansSteps
     DEF At, WizardInv, WizardNext
<1>3. CASE UNCHANGED vars
  BY <1>3 DEF vars, WizardInv, PlansSound, CallsSound, CascadeSound, ChoicesSound
<1> QED
  BY <1>1, <1>2, <1>3, WizardViews DEF At, WizardNext, WizardInv

LEMMA WizardCoherent == WizardInv => CascadeCoherent
<1> SUFFICES ASSUME WizardInv, page.view \in Wizards PROVE CascadeCoherent
  BY DEF CascadeCoherent
<1>1. CascadeSound(page)
  BY WizardViews DEF WizardInv
<1>2. \A r \in InFlight("createPlan") :
          r.arg.stale \/ Coherent(r.key, r.arg.ad, r.arg.image, r.arg.shape)
  BY DEF WizardInv, PlansSound, InFlight, BagToSet
<1> QED
  BY <1>1, <1>2 DEF CascadeSound, ChoicesSound, CascadeCoherent

\* The forms of InstanceCreate.vue, InstanceBatchCreate.vue and InstancePlans.vue hold
\* and send choices that belong together, until a late list is shown for another one,
\* for any tenants and however often they are chosen anew.
THEOREM CascadesCoherent == WizardSpec => []CascadeCoherent
BY WizardInitSound, WizardStep, WizardCoherent, PTL DEF WizardSpec

-----------------------------------------------------------------------------
(* The form of InMemoryTasks.vue                                            *)

TaskFormFields == {"view", "tenantId", "instanceId", "instances", "loadingInstances", "stale"}

\* The instances offered are the tenant's, or are being replaced and cannot be picked.
TaskFormSound(p) ==
    /\ p.view = MemTasks /\ TaskFormFields \subseteq DOMAIN p
    /\ p.stale \in BOOLEAN /\ p.loadingInstances \in BOOLEAN
    /\ p.stale \/ (/\ p.instanceId \in {None, p.tenantId}
                   /\ p.loadingInstances \/ p.instances \in {None, p.tenantId})

SameTaskForm(p, q) == DOMAIN q = DOMAIN p /\ \A f \in TaskFormFields : q[f] = p[f]

LEMMA SameTaskFormSound ==
    ASSUME NEW p, NEW q, TaskFormSound(p), SameTaskForm(p, q)
    PROVE  TaskFormSound(q)
BY DEF TaskFormSound, SameTaskForm, TaskFormFields

LEMMA TaskFormEmptied ==
    ASSUME NEW p, TaskFormSound(p), NEW open PROVE TaskFormSound(MemTasksForm(p, open))
BY DEF TaskFormSound, MemTasksForm, TaskFormFields

LEMMA MemTasksBeside ==
    ASSUME TaskFormSound(page),
           \/ MemTasksLoadTasks \/ MemTasksTick \/ MemTasksUnmount
           \/ \E tab \in Tabs : MemTasksOnTabChange(tab)
           \/ MemTasksHandleAdd \/ MemTasksHandleAction
           \/ \E ok \in BOOLEAN, some \in BOOLEAN :
                 \/ MemTasksTenants(ok) \/ MemTasksActed(ok)
                 \/ MemTasksLoaded(ok, some) \/ MemTasksAddLoaded(ok, some)
    PROVE  TaskFormSound(page')
<1>1. PICK a, b, c, d, e, f :
          \/ page' = page \/ page' = [page EXCEPT !.loading = a]
          \/ page' = [page EXCEPT !.timer = b] \/ page' = [page EXCEPT !.adding = c]
          \/ page' = [page EXCEPT !.tab = d, !.loading = a]
          \/ page' = [page EXCEPT !.tenants = e]
          \/ page' = [page EXCEPT !.loading = a, !.listed = f]
          \/ page' = [[page EXCEPT !.loading = a, !.listed = f] EXCEPT !.adding = c]
  <2>1. ASSUME NEW tab \in Tabs, MemTasksOnTabChange(tab)
        PROVE  page' = [page EXCEPT !.tab = tab, !.loading = TRUE]
    BY <2>1 DEF MemTasksOnTabChange
  <2>2. ASSUME NEW ok \in BOOLEAN, NEW some \in BOOLEAN,
               MemTasksLoaded(ok, some) \/ MemTasksAddLoaded(ok, some)
        PROVE  \E f : \/ page' = [page EXCEPT !.loading = FALSE, !.listed = f]
                      \/ page' = [[page EXCEPT !.loading = FALSE, !.listed = f] EXCEPT !.adding = FALSE]
    BY <2>2 DEF MemTasksLoaded, MemTasksAddLoaded, MemTasksListed
  <2>3. ASSUME NEW ok \in BOOLEAN, MemTasksTenants(ok) \/ MemTasksActed(ok)
        PROVE  \E e : page' = [page EXCEPT !.tenants = e] \/ page' = [page EXCEPT !.loading = e]
    BY <2>3 DEF MemTasksTenants, MemTasksActed
  <2>4. CASE MemTasksLoadTasks \/ MemTasksTick \/ MemTasksUnmount \/ MemTasksHandleAdd
             \/ MemTasksHandleAction
    BY <2>4 DEF MemTasksLoadTasks, MemTasksTick, MemTasksUnmount, MemTasksHandleAdd,
                MemTasksHandleAction
  <2> QED
    BY <2>1, <2>2, <2>3, <2>4
<1>2. SameTaskForm(page, page')
  BY <1>1 DEF SameTaskForm, TaskFormFields, TaskFormSound
<1> QED
  BY <1>2, SameTaskFormSound

LEMMA MemTasksSteps == ASSUME TaskFormSound(page), MemTasksNext PROVE TaskFormSound(page')
<1>1. ASSUME NEW open \in BOOLEAN, MemTasksDialog(open)
      PROVE  TaskFormSound(page')
  BY <1>1, TaskFormEmptied DEF MemTasksDialog
<1>2. ASSUME NEW t \in Keys, MemTasksOnTenantChange(t)
      PROVE  TaskFormSound(page')
  <2>1. page' = [page EXCEPT !.tenantId = t, !.instanceId = None, !.stale = FALSE,
                             !.loadingInstances = TRUE]
    BY <1>2 DEF MemTasksOnTenantChange
  <2> QED
    BY <2>1 DEF TaskFormSound, TaskFormFields
<1>3. ASSUME NEW ok \in BOOLEAN, MemTasksInstances(ok)
      PROVE  TaskFormSound(page')
  <2>1. PICK r \in InFlight("instances") :
            page' = [page EXCEPT !.loadingInstances = FALSE,
                                 !.instances = IF ok THEN r.key ELSE @,
                                 !.stale = @ \/ (IF ok THEN r.key # page.tenantId
                                                 ELSE page.instances \notin {None, page.tenantId})]
    BY <1>3 DEF MemTasksInstances
  <2>2. PICK list : list = IF ok THEN r.key ELSE page.instances
    OBVIOUS
  <2>3. PICK late : late = (page.stale \/ (IF ok THEN r.key # page.tenantId
                                           ELSE page.instances \notin {None, page.tenantId}))
    OBVIOUS
  <2>4. page' = [page EXCEPT !.loadingInstances = FALSE, !.instances = list, !.stale = late]
    BY <2>1, <2>2, <2>3
  <2>5. late \in BOOLEAN /\ (~late => ~page.stale /\ list \in {None, page.tenantId})
    BY <2>2, <2>3 DEF TaskFormSound
  <2> QED
    BY <2>4, <2>5 DEF TaskFormSound, TaskFormFields
<1>4. CASE MemTasksPickInstance
  <2>1. page' = [page EXCEPT !.instanceId = page.instances] /\ ~page.loadingInstances
    BY <1>4 DEF MemTasksPickInstance
  <2> QED
    BY <2>1 DEF TaskFormSound, TaskFormFields
<1>5. ASSUME NEW ok \in BOOLEAN, MemTasksAdded(ok)
      PROVE  TaskFormSound(page')
  <2>1. PICK q : q = IF page.dialog THEN MemTasksForm(page, FALSE) ELSE page
    OBVIOUS
  <2>2. TaskFormSound(q)
    BY <2>1, TaskFormEmptied
  <2>3. page' = [q EXCEPT !.loading = TRUE] \/ page' = [page EXCEPT !.adding = FALSE]
    BY <1>5, <2>1 DEF MemTasksAdded
  <2>4. SameTaskForm(q, page') \/ SameTaskForm(page, page')
    BY <2>2, <2>3 DEF SameTaskForm, TaskFormFields, TaskFormSound
  <2> QED
    BY <2>2, <2>4, SameTaskFormSound
<1> QED
  BY <1>1, <1>2, <1>3, <1>4, <1>5, MemTasksBeside DEF MemTasksNext, MemTasksAnswers

LEMMA MemTasksInitSound == MemTasksInit => TaskFormSound(page)
BY DEF MemTasksInit, Opens, TaskFormSound, TaskFormFields

-----------------------------------------------------------------------------
(* All the forms                                                            *)

FormsInit == WizardInit \/ ConsoleInit \/ MemTasksInit
FormsNext == WizardNext \/ ConsoleNext \/ (At(MemTasks) /\ MemTasksNext)
FormsSpec == FormsInit /\ [][FormsNext]_vars

FormsInv == WizardInv \/ ConsolesInv \/ TaskFormSound(page)

FormViews == Wizards \cup {PlanPrefill}

LEMMA FormsApart ==
    /\ WizardInv => page.view \in FormViews
    /\ ConsolesInv => page.view \in {Shell, Vnc, Logs}
    /\ TaskFormSound(page) => page.view = MemTasks
    /\ MemTasks \notin FormViews \cup {Shell, Vnc, Logs}
    /\ FormViews \cap {Shell, Vnc, Logs} = {}
<1>1. WizardInv => page.view \in FormViews
  BY DEF WizardInv, CascadeSound, FormViews
<1>2. ConsolesInv => page.view \in {Shell, Vnc, Logs}
  BY DEF ConsolesInv, ShellSound, ListsSound, LogsSound
<1>3. TaskFormSound(page) => page.view = MemTasks
  BY DEF TaskFormSound
<1> QED
  BY <1>1, <1>2, <1>3
     DEF FormViews, Wizards, InstanceCreate, BatchCreate, InstancePlans, PlanPrefill,
         MemTasks, Shell, Vnc, Logs

\* Whatever page with a form is open, what it holds and sends belongs together: domain,
\* image and shape, instance and key are those of the chosen tenant, and so is the
\* instance a task is added for, until a late list of another one is shown; for any
\* tenants, and in whatever order the lists arrive.
THEOREM FormsHold == FormsSpec => []FormsCoherent
<1>1. FormsInit => FormsInv
  BY WizardInitSound, ConsolesInitSound, MemTasksInitSound DEF FormsInit, FormsInv
<1>2. FormsInv /\ [FormsNext]_vars => FormsInv'
  <2> SUFFICES ASSUME FormsInv, [FormsNext]_vars PROVE FormsInv'
    OBVIOUS
  <2>1. WizardNext => page.view \in FormViews
    BY DEF WizardNext, At, FormViews, Wizards
  <2>2. ConsoleNext => page.view \in {Shell, Vnc, Logs}
    BY DEF ConsoleNext, At
  <2>3. UNCHANGED vars => (TaskFormSound(page) => TaskFormSound(page'))
    BY DEF vars
  <2>4. CASE WizardInv
    BY <2>1, <2>2, <2>4, FormsApart, WizardStep DEF FormsNext, FormsInv, At
  <2>5. CASE ConsolesInv
    BY <2>1, <2>2, <2>5, FormsApart, ConsolesStepSound DEF FormsNext, FormsInv, At
  <2>6. CASE TaskFormSound(page)
    <3>1. TaskFormSound(page')
      BY <2>1, <2>2, <2>3, <2>6, FormsApart, MemTasksSteps DEF FormsNext
    <3> QED
      BY <3>1 DEF FormsInv
  <2> QED
    BY <2>4, <2>5, <2>6 DEF FormsInv
<1>3. FormsInv => FormsCoherent
  <2>1. page.view \notin Wizards => CascadeCoherent
    BY DEF CascadeCoherent
  <2>2. page.view \notin {Shell, Vnc} => ConsoleCoherent
    BY DEF ConsoleCoherent
  <2>3. ConsolesInv => ConsoleCoherent
    BY ViewsDiffer DEF ConsolesInv, ConsoleCoherent, ListsSound, LogsSound
  <2>4. Wizards \subseteq FormViews
    BY DEF FormViews
  <2>5. TaskFormSound(page) => page.stale \/ page.instanceId \in {None, page.tenantId}
    BY DEF TaskFormSound
  <2> QED
    BY <2>1, <2>2, <2>3, <2>4, <2>5, FormsApart, WizardCoherent DEF FormsInv, FormsCoherent, At
<1> QED
  BY <1>1, <1>2, <1>3, PTL DEF FormsSpec

-----------------------------------------------------------------------------
(* The pages of figures                                                     *)

FigureSpec == FigureInit /\ [][FigureNext]_vars

TrafficFields == {"view", "tab", "tenants", "accountId", "region", "options", "instance",
                  "vnics", "vnic", "results", "loading", "progress", "stale"}

TrafficSound(p) ==
    /\ p.view = Traffic /\ TrafficFields \subseteq DOMAIN p
    /\ p.stale \in BOOLEAN
    /\ p.results = [t \in TrafficTabs |-> p.results[t]]
    /\ p.stale \/ \A t \in TrafficTabs : p.results[t] \in {None, TrafficScope(p)}

LimitsFields == {"view", "tenants", "tenantId", "regions", "region", "services", "service",
                 "items", "loading", "queried", "stale"}

LimitsSound(p) ==
    /\ p.view = Limits /\ LimitsFields \subseteq DOMAIN p
    /\ p.stale \in BOOLEAN
    /\ p.stale \/ p.items \in {None, LimitsScope(p)}

DialogFields == {"view", "visible", "instance", "metrics", "failed", "loading", "stale"}

\* Until late figures arrive a closed dialog has none: this is why it can be opened for
\* another instance without asking for the figures of the last one.
DialogSound(p) ==
    /\ p.view = MetricsDialog /\ DialogFields \subseteq DOMAIN p
    /\ p.stale \in BOOLEAN /\ p.visible \in BOOLEAN
    /\ p.stale \/ (p.metrics \in {None, p.instance} /\ (~p.visible => p.metrics = None))

\* Steps that change neither the scope nor the figures.
LEMMA TrafficKept ==
    ASSUME NEW p, NEW q, TrafficSound(p), DOMAIN q = DOMAIN p, q.view = p.view,
           q.accountId = p.accountId, q.region = p.region, q.results = p.results,
           q.stale = p.stale
    PROVE  TrafficSound(q)
BY DEF TrafficSound, TrafficScope

\* The figures are cleared, whatever the scope has become.
LEMMA TrafficCleared ==
    ASSUME NEW p, TrafficFields \subseteq DOMAIN p, p.view = Traffic
    PROVE  TrafficSound(ResultsCleared(p))
<1>1. /\ DOMAIN ResultsCleared(p) = DOMAIN p /\ ResultsCleared(p).view = Traffic
      /\ ResultsCleared(p).stale = FALSE
      /\ ResultsCleared(p).results = [t \in TrafficTabs |-> None]
  BY DEF ResultsCleared, TrafficFields
<1> QED
  BY <1>1 DEF TrafficSound

\* Figures are shown: of the scope chosen by now, or noted to be late.
LEMMA TrafficShown ==
    ASSUME NEW p, TrafficSound(p), NEW tab \in TrafficTabs, NEW scope
    PROVE  TrafficSound(Shown(p, tab, scope))
<1>1. PICK q : q = Shown(p, tab, scope)
  OBVIOUS
<1>2. /\ DOMAIN q = DOMAIN p /\ q.view = p.view
      /\ q.accountId = p.accountId /\ q.region = p.region
      /\ q.results = [p.results EXCEPT ![tab] = scope]
      /\ q.stale = (p.stale \/ scope # TrafficScope(p))
  BY <1>1 DEF Shown, TrafficSound, TrafficFields
<1>3. TrafficScope(q) = TrafficScope(p)
  BY <1>2 DEF TrafficScope
<1>4. /\ q.results = [t \in TrafficTabs |-> q.results[t]]
      /\ q.results[tab] = scope
      /\ \A t \in TrafficTabs : t # tab => q.results[t] = p.results[t]
  BY <1>2 DEF TrafficSound
<1>5. q.stale \in BOOLEAN /\ (~q.stale => ~p.stale /\ scope = TrafficScope(p))
  BY <1>2 DEF TrafficSound
<1> HIDE DEF TrafficScope
<1>6. q.stale \/ \A t \in TrafficTabs : q.results[t] \in {None, TrafficScope(q)}
  BY <1>3, <1>4, <1>5 DEF TrafficSound
<1> QED
  BY <1>1, <1>2, <1>4, <1>5, <1>6 DEF TrafficSound

LEMMA TrafficBusySound ==
    ASSUME NEW p, TrafficSound(p), NEW tab, NEW busy
    PROVE  TrafficSound(TrafficBusy(p, tab, busy))
<1>1. PICK q : q = TrafficBusy(p, tab, busy)
  OBVIOUS
<1>2. /\ DOMAIN q = DOMAIN p /\ q.view = p.view
      /\ q.accountId = p.accountId /\ q.region = p.region
      /\ q.results = p.results /\ q.stale = p.stale
  BY <1>1 DEF TrafficBusy, TrafficSound, TrafficFields
<1> QED
  BY <1>1, <1>2, TrafficKept

\* What the user chooses on Traffic.vue.
LEMMA TrafficChoices ==
    ASSUME TrafficSound(page),
           \/ \E t \in TrafficTabs : TrafficTab(t)
           \/ \E a \in Keys \union {None} : TrafficAccountChange(a)
           \/ TrafficRegionChange \/ TrafficInstanceChange \/ TrafficVnicChosen \/ TrafficReset
    PROVE  TrafficSound(page')
<1>f. TrafficFields \subseteq DOMAIN page /\ page.view = Traffic
  BY DEF TrafficSound
<1>1. ASSUME NEW t \in TrafficTabs, TrafficTab(t)
      PROVE  TrafficSound(page')
  BY <1>f, <1>1, TrafficKept DEF TrafficTab, TrafficFields
<1>2. ASSUME NEW a \in Keys \union {None}, TrafficAccountChange(a)
      PROVE  TrafficSound(page')
  <2>1. PICK p : p = CascadeReset([page EXCEPT !.accountId = a, !.region = FALSE,
                                               !.options = None])
    OBVIOUS
  <2>2. page' = ResultsCleared(p)
    BY <1>2, <2>1 DEF TrafficAccountChange
  <2>3. TrafficFields \subseteq DOMAIN p /\ p.view = Traffic
    BY <1>f, <2>1 DEF CascadeReset, TrafficFields
  <2> QED
    BY <2>2, <2>3, TrafficCleared
<1>3. CASE TrafficRegionChange
  <2>1. PICK p : p = CascadeReset([page EXCEPT !.region = ~@])
    OBVIOUS
  <2>2. page' = ResultsCleared(p)
    BY <1>3, <2>1 DEF TrafficRegionChange
  <2>3. TrafficFields \subseteq DOMAIN p /\ p.view = Traffic
    BY <1>f, <2>1 DEF CascadeReset, TrafficFields
  <2> QED
    BY <2>2, <2>3, TrafficCleared
<1>4. CASE TrafficInstanceChange
  BY <1>f, <1>4, TrafficKept DEF TrafficInstanceChange, TrafficFields
<1>5. CASE TrafficVnicChosen
  BY <1>f, <1>5, TrafficKept DEF TrafficVnicChosen, TrafficFields
<1>6. CASE TrafficReset
  <2>1. PICK p : p = CascadeReset([page EXCEPT !.region = FALSE])
    OBVIOUS
  <2>2. page' = ResultsCleared(p)
    BY <1>6, <2>1 DEF TrafficReset
  <2>3. TrafficFields \subseteq DOMAIN p /\ p.view = Traffic
    BY <1>f, <2>1 DEF CascadeReset, TrafficFields
  <2> QED
    BY <2>2, <2>3, TrafficCleared
<1> QED
  BY <1>1, <1>2, <1>3, <1>4, <1>5, <1>6

\* Its queries and their answers.
LEMMA TrafficFigures ==
    ASSUME TrafficSound(page),
           TrafficQueryLive \/ TrafficQuerySummary \/ TrafficQueryAccounts \/ TrafficAnswers
    PROVE  TrafficSound(page')
<1>f. TrafficFields \subseteq DOMAIN page /\ page.view = Traffic
  BY DEF TrafficSound
<1>1. CASE TrafficQueryLive
  BY <1>1, TrafficBusySound DEF TrafficQueryLive
<1>2. CASE TrafficQuerySummary
  <2>1. PICK p : p = [page EXCEPT !.progress = [done |-> 0, total |-> 1]]
    OBVIOUS
  <2>2. TrafficSound(p)
    BY <1>f, <2>1, TrafficKept DEF TrafficFields
  <2> QED
    BY <1>2, <2>1, <2>2, TrafficBusySound DEF TrafficQuerySummary
<1>3. CASE TrafficQueryAccounts
  <2>1. PICK total : total = Batches(page.accountId)
    OBVIOUS
  <2>2. PICK p : p = [page EXCEPT !.progress = [done |-> 0, total |-> total],
                                  !.results["accounts"] = None]
    OBVIOUS
  <2>3. page' = TrafficBusy(p, "accounts", TRUE)
    BY <1>3, <2>1, <2>2 DEF TrafficQueryAccounts
  <2>4. TrafficSound(p)
    BY <1>f, <2>2 DEF TrafficSound, TrafficScope, TrafficFields, TrafficTabs
  <2> QED
    BY <2>3, <2>4, TrafficBusySound
<1>4. ASSUME NEW ok \in BOOLEAN, NEW one \in BOOLEAN,
             FigureTenants(Traffic, ok) \/ TrafficCondition(ok) \/ TrafficVnics(ok, one)
      PROVE  TrafficSound(page')
  BY <1>f, <1>4, TrafficKept DEF FigureTenants, TrafficCondition, TrafficVnics, TrafficFields
<1>5. ASSUME NEW ok \in BOOLEAN, TrafficLive(ok)
      PROVE  TrafficSound(page')
  <2>1. PICK r : page' = TrafficBusy(IF ok THEN Shown(page, "live", r.key) ELSE page, "live", FALSE)
    BY <1>5 DEF TrafficLive
  <2>2. TrafficSound(IF ok THEN Shown(page, "live", r.key) ELSE page)
    BY TrafficShown DEF TrafficTabs
  <2> QED
    BY <2>1, <2>2, TrafficBusySound
<1>6. CASE TrafficSummary
  <2>1. PICK p, r : p = [page EXCEPT !.progress.done = 1]
                    /\ page' = TrafficBusy(Shown(p, "summary", r.key), "summary", FALSE)
    BY <1>6 DEF TrafficSummary
  <2>2. TrafficSound(p)
    BY <1>f, <2>1, TrafficKept DEF TrafficFields
  <2> QED
    BY <2>1, <2>2, TrafficShown, TrafficBusySound DEF TrafficTabs
<1>7. CASE TrafficAccounts
  <2>1. PICK p, r, more : p = [page EXCEPT !.progress.done = r.arg.no]
                    /\ page' = TrafficBusy(Shown(p, "accounts", r.key), "accounts", more)
    BY <1>7 DEF TrafficAccounts
  <2>2. TrafficSound(p)
    BY <1>f, <2>1, TrafficKept DEF TrafficFields
  <2> QED
    BY <2>1, <2>2, TrafficShown, TrafficBusySound DEF TrafficTabs
<1> QED
  BY <1>1, <1>2, <1>3, <1>4, <1>5, <1>6, <1>7 DEF TrafficAnswers

LEMMA TrafficSteps ==
    ASSUME TrafficSound(page), TrafficNext
    PROVE  TrafficSound(page')
BY TrafficChoices, TrafficFigures DEF TrafficNext

LEMMA LimitsKept ==
    ASSUME NEW p, NEW q, LimitsSound(p), DOMAIN q = DOMAIN p, q.view = p.view,
           q.tenantId = p.tenantId, q.region = p.region, q.items = p.items, q.stale = p.stale
    PROVE  LimitsSound(q)
BY DEF LimitsSound, LimitsScope

LEMMA LimitsCleared ==
    ASSUME NEW p, LimitsFields \subseteq DOMAIN p, p.view = Limits
    PROVE  LimitsSound(ItemsCleared(p))
<1>1. /\ DOMAIN ItemsCleared(p) = DOMAIN p /\ ItemsCleared(p).view = Limits
      /\ ItemsCleared(p).stale = FALSE /\ ItemsCleared(p).items = None
  BY DEF ItemsCleared, LimitsFields
<1> QED
  BY <1>1 DEF LimitsSound

LEMMA LimitsSteps ==
    ASSUME LimitsSound(page), LimitsNext
    PROVE  LimitsSound(page')
<1>f. LimitsFields \subseteq DOMAIN page /\ page.view = Limits /\ page.stale \in BOOLEAN
  BY DEF LimitsSound
<1>1. ASSUME NEW t \in Keys, LimitsTenantChange(t)
      PROVE  LimitsSound(page')
  <2>1. PICK p : p = [page EXCEPT !.tenantId = t, !.region = FALSE, !.services = None]
    OBVIOUS
  <2>2. page' = ItemsCleared(p)
    BY <1>1, <2>1 DEF LimitsTenantChange
  <2>3. LimitsFields \subseteq DOMAIN p /\ p.view = Limits
    BY <1>f, <2>1 DEF LimitsFields
  <2> QED
    BY <2>2, <2>3, LimitsCleared
<1>2. CASE LimitsRegionChange
  <2>1. PICK p : p = [page EXCEPT !.region = TRUE]
    OBVIOUS
  <2>2. page' = ItemsCleared(p)
    BY <1>2, <2>1 DEF LimitsRegionChange
  <2>3. LimitsFields \subseteq DOMAIN p /\ p.view = Limits
    BY <1>f, <2>1 DEF LimitsFields
  <2> QED
    BY <2>2, <2>3, LimitsCleared
<1>3. CASE LimitsServiceChosen \/ LimitsLoad
  BY <1>f, <1>3, LimitsKept DEF LimitsServiceChosen, LimitsLoad, LimitsFields
<1>4. ASSUME NEW ok \in BOOLEAN, FigureTenants(Limits, ok) \/ LimitsRegions(ok) \/ LimitsServices(ok)
      PROVE  LimitsSound(page')
  BY <1>f, <1>4, LimitsKept DEF FigureTenants, LimitsRegions, LimitsServices, LimitsFields
<1>5. ASSUME NEW ok \in BOOLEAN, LimitsLoaded(ok)
      PROVE  LimitsSound(page')
  <2>1. PICK r, stale : stale = (page.stale \/ (ok /\ r.key # LimitsScope(page)))
          /\ page' = [page EXCEPT !.loading = FALSE, !.items = IF ok THEN r.key ELSE None,
                                  !.stale = stale]
    BY <1>5 DEF LimitsLoaded
  <2>2. /\ DOMAIN page' = DOMAIN page /\ page'.view = page.view /\ page'.stale = stale
        /\ page'.items = IF ok THEN r.key ELSE None
        /\ LimitsScope(page') = LimitsScope(page)
    BY <1>f, <2>1 DEF LimitsFields, LimitsScope
  <2> HIDE DEF LimitsScope
  <2>3. stale \in BOOLEAN /\ (~stale => ~ok \/ r.key = LimitsScope(page))
    BY <1>f, <2>1
  <2> QED
    BY <1>f, <2>2, <2>3 DEF LimitsSound
<1> QED
  BY <1>1, <1>2, <1>3, <1>4, <1>5 DEF LimitsNext, LimitsAnswers

LEMMA DialogSteps ==
    ASSUME DialogSound(page), MetricsDialogNext
    PROVE  DialogSound(page')
<1>f. /\ DialogFields \subseteq DOMAIN page /\ page.view = MetricsDialog
      /\ page.stale \in BOOLEAN /\ page.visible \in BOOLEAN
  BY DEF DialogSound
<1>1. ASSUME NEW i \in Keys, MetricsDialogOpen(i)
      PROVE  DialogSound(page')
  <2>1. /\ ~page.visible
        /\ DOMAIN page' = DOMAIN page /\ page'.view = page.view /\ page'.stale = page.stale
        /\ page'.visible = TRUE /\ page'.metrics = page.metrics /\ page'.instance = i
    BY <1>f, <1>1 DEF MetricsDialogOpen, Refreshing, DialogFields
  <2> QED
    BY <1>f, <2>1 DEF DialogSound
<1>2. CASE MetricsDialogRefresh
  BY <1>2 DEF MetricsDialogRefresh, Refreshing, DialogSound, DialogFields
<1>3. CASE MetricsDialogClose
  <2>1. /\ DOMAIN page' = DOMAIN page /\ page'.view = page.view /\ page'.stale = FALSE
        /\ page'.visible = FALSE /\ page'.metrics = None
    BY <1>f, <1>3 DEF MetricsDialogClose, MetricsForgotten, DialogFields
  <2> QED
    BY <1>f, <2>1 DEF DialogSound
<1>4. ASSUME NEW ok \in BOOLEAN, MetricsDialogLoaded(ok)
      PROVE  DialogSound(page')
  <2>1. PICK r, late, stale :
          /\ late = (~page.visible \/ r.key # page.instance) /\ stale = (page.stale \/ late)
          /\ page' = [IF ok THEN [page EXCEPT !.metrics = r.key, !.stale = stale]
                      ELSE [page EXCEPT !.failed = TRUE] EXCEPT !.loading = FALSE]
    BY <1>4 DEF MetricsDialogLoaded
  <2>2. /\ DOMAIN page' = DOMAIN page /\ page'.view = page.view
        /\ page'.visible = page.visible /\ page'.instance = page.instance
        /\ page'.metrics = (IF ok THEN r.key ELSE page.metrics)
        /\ page'.stale = (IF ok THEN stale ELSE page.stale)
    BY <1>f, <2>1 DEF DialogFields
  <2>3. stale \in BOOLEAN /\ (~stale => ~page.stale /\ page.visible /\ r.key = page.instance)
    BY <1>f, <2>1
  <2> QED
    BY <1>f, <2>2, <2>3 DEF DialogSound
<1> QED
  BY <1>1, <1>2, <1>3, <1>4 DEF MetricsDialogNext, MetricsDialogAnswers

CostSound(p) == p.view = Cost /\ "view" \in DOMAIN p

FigureInv == TrafficSound(page) \/ CostSound(page) \/ LimitsSound(page) \/ DialogSound(page)

LEMMA FigureViews ==
    /\ Traffic # Cost /\ Traffic # Limits /\ Traffic # MetricsDialog
    /\ Cost # Limits /\ Cost # MetricsDialog /\ Limits # MetricsDialog
BY DEF Traffic, Cost, Limits, MetricsDialog

LEMMA FigureInitSound == FigureInit => FigureInv
<1>1. CASE TrafficInit
  BY <1>1 DEF TrafficInit, Opens, TrafficSound, TrafficFields, FigureInv
<1>2. CASE CostInit
  BY <1>2 DEF CostInit, Opens, CostSound, FigureInv
<1>3. CASE LimitsInit
  BY <1>3 DEF LimitsInit, Opens, LimitsSound, LimitsFields, FigureInv
<1>4. CASE MetricsDialogInit
  BY <1>4 DEF MetricsDialogInit, Opens, DialogSound, DialogFields, FigureInv
<1> QED
  BY <1>1, <1>2, <1>3, <1>4 DEF FigureInit

LEMMA CostSteps ==
    ASSUME CostSound(page), CostNext
    PROVE  CostSound(page')
<1>1. CASE (\E t \in Keys : CostTenant(t)) \/ CostGranularity \/ CostResetDates \/ CostLoad
  <2>1. CASE CostGranularity
    <3>1. PICK monthly : page' = [page EXCEPT !.monthly = monthly]
      BY <2>1 DEF CostGranularity
    <3> QED
      BY <3>1 DEF CostSound
  <2> QED
    BY <1>1, <2>1 DEF CostTenant, CostResetDates, CostLoad, CostSound
<1>2. ASSUME NEW ok \in BOOLEAN, CostTenants(ok)
      PROVE  CostSound(page')
  BY <1>2 DEF CostTenants, CostSound
<1>3. ASSUME NEW ok \in BOOLEAN, NEW items \in BOOLEAN, CostLoaded(ok, items)
      PROVE  CostSound(page')
  <2>1. PICK result : page' = [IF ok THEN CostDrawn([page EXCEPT !.result = result], items) ELSE page
                               EXCEPT !.loading = FALSE]
    BY <1>3 DEF CostLoaded
  <2>2. PICK q : q = IF ok THEN CostDrawn([page EXCEPT !.result = result], items) ELSE page
    OBVIOUS
  <2>3. CostSound(q)
    BY <2>2 DEF CostDrawn, CostSound
  <2> QED
    BY <2>1, <2>2, <2>3 DEF CostSound
<1> QED
  BY <1>1, <1>2, <1>3 DEF CostNext, CostAnswers

\* The figures shown by Traffic.vue, Limits.vue and MetricsDialog.vue are those of what is
\* chosen, until late ones are shown, for any accounts and instances and however often
\* they are chosen anew.
THEOREM FiguresMatch == FigureSpec => []FiguresOfScope
<1>1. FigureInit => FigureInv
  BY FigureInitSound
<1>2. FigureInv /\ [FigureNext]_vars => FigureInv'
  <2>1. CASE At(Traffic) /\ TrafficNext
    BY <2>1, TrafficSteps, FigureViews DEF At, FigureInv, CostSound, LimitsSound, DialogSound
  <2>2. CASE At(Cost) /\ CostNext
    BY <2>2, CostSteps, FigureViews DEF At, FigureInv, TrafficSound, LimitsSound, DialogSound
  <2>3. CASE At(Limits) /\ LimitsNext
    BY <2>3, LimitsSteps, FigureViews DEF At, FigureInv, TrafficSound, CostSound, DialogSound
  <2>4. CASE At(MetricsDialog) /\ MetricsDialogNext
    BY <2>4, DialogSteps, FigureViews DEF At, FigureInv, TrafficSound, CostSound, LimitsSound
  <2>5. CASE UNCHANGED vars
    BY <2>5 DEF vars, FigureInv, CostSound, TrafficSound, LimitsSound, DialogSound, TrafficScope, LimitsScope
  <2> QED
    BY <2>1, <2>2, <2>3, <2>4, <2>5 DEF FigureNext
<1>3. FigureInv => FiguresOfScope
  BY FigureViews DEF FigureInv, FiguresOfScope, At, TrafficSound, CostSound, LimitsSound, DialogSound
<1> QED
  BY <1>1, <1>2, <1>3, PTL DEF FigureSpec

-----------------------------------------------------------------------------
(* The dialog of a binding, on both of its pages                            *)

BindingSpec ==
    /\ DetailInit \/ BoundDnsInit
    /\ [][(At(Detail) /\ DetailNext) \/ (At(BoundDns) /\ BoundDnsNext)]_vars

BoundFields == {"view", "bShown", "bLoading", "bDialog", "bSaving", "bCfgId", "bZoneId",
                "bZones", "bZonesLoading", "bStale"}

\* Until a late answer: the zone of the form is its configuration's, and so are the zones
\* that are offered once they have been loaded.
ZonesSound(p) ==
    /\ p.bZoneId \in {None, Zone(p.bCfgId)}
    /\ p.bZonesLoading \/ p.bZones \in {None, Zone(p.bCfgId)}

BindingSound(p) ==
    /\ p.view \in {Detail, BoundDns} /\ BoundFields \subseteq DOMAIN p
    /\ p.bStale \in BOOLEAN
    /\ p.bStale \/ ZonesSound(p)

\* The bindings that were sent.
BindingsSound ==
    /\ CallsSound
    /\ \A r \in DOMAIN calls : r.op = "saveBinding" => r.arg.stale \/ r.arg.zone = Zone(r.key)

SameBinding(p, q) ==
    /\ DOMAIN q = DOMAIN p
    /\ \A f \in {"view", "bCfgId", "bZoneId", "bZones", "bZonesLoading", "bStale"} : q[f] = p[f]

LEMMA SameBindingSound ==
    ASSUME NEW p, NEW q, BindingSound(p), SameBinding(p, q)
    PROVE  BindingSound(q)
BY DEF BindingSound, ZonesSound, SameBinding

\* Steps that send no binding.
LEMMA BindingsKept ==
    ASSUME BindingsSound, NEW rs, \A q \in rs : IsRequest(q) /\ q.op # "saveBinding",
           Sends(rs) \/ \E view, r : SettledBy(view, r, rs)
    PROVE  BindingsSound'
<1>1. CASE Sends(rs)
  BY <1>1, SentCalls DEF BindingsSound, CallsSound
<1>2. ASSUME NEW view, NEW r, SettledBy(view, r, rs)
      PROVE  BindingsSound'
  BY <1>2, SettledCalls DEF BindingsSound, CallsSound
<1> QED
  BY <1>1, <1>2

LEMMA BindingsSettled ==
    ASSUME BindingsSound, NEW view, NEW r, SettledBy(view, r, {})
    PROVE  BindingsSound'
BY BindingsKept

LEMMA BindingsUnsent == ASSUME BindingsSound, SendsNothing PROVE BindingsSound'
BY DEF BindingsSound, CallsSound, SendsNothing

\* Zones are asked for by the handler, by the watcher, or by both.
LEMMA ZonesAskedFor ==
    ASSUME BindingsSound, NEW p, NEW cfg,
           \/ calls' = calls (+) SetToBag({BindingZonesOf(cfg)}) (+) WatcherLoads(p, cfg)
           \/ calls' = calls (+) WatcherLoads(p, cfg)
    PROVE  BindingsSound'
<1>1. PICK q : q = BindingZonesOf(cfg)
  OBVIOUS
<1>2. IsRequest(q) /\ q.op = "bindingZones"
  BY <1>1, RequestFields DEF BindingZonesOf
<1>3. PICK W : W = WatcherLoads(p, cfg)
  OBVIOUS
<1>4. IsABag(W) /\ DOMAIN W \subseteq {q}
  BY <1>1, <1>3 DEF WatcherLoads, EmptyBag, SetToBag, IsABag
<1>5. IsABag(SetToBag({q})) /\ DOMAIN SetToBag({q}) = {q}
  BY DEF SetToBag, IsABag
<1>6. CASE calls' = calls (+) W
  BY <1>2, <1>4, <1>6, BagSent DEF BindingsSound
<1>7. CASE calls' = calls (+) SetToBag({q}) (+) W
  <2>1. PICK C : C = calls (+) SetToBag({q})
    OBVIOUS
  <2>2. C = [e \in DOMAIN calls \cup {q} |->
               (IF e \in DOMAIN calls THEN calls[e] ELSE 0) + (IF e \in {q} THEN 1 ELSE 0)]
    BY <2>1 DEF (+), SetToBag
  <2>3. \A e \in DOMAIN calls : calls[e] \in Nat /\ calls[e] > 0
    BY DEF BindingsSound, CallsSound, IsABag
  <2>4. IsABag(C) /\ DOMAIN C = DOMAIN calls \cup {q}
    BY <2>2, <2>3 DEF IsABag
  <2>5. calls' = [e \in DOMAIN C \cup DOMAIN W |->
                    (IF e \in DOMAIN C THEN C[e] ELSE 0) + (IF e \in DOMAIN W THEN W[e] ELSE 0)]
    BY <1>7, <2>1 DEF (+)
  <2>6. /\ \A e \in DOMAIN C : C[e] \in Nat /\ C[e] > 0
        /\ \A e \in DOMAIN W : W[e] \in Nat /\ W[e] > 0
    BY <1>4, <2>4 DEF IsABag
  <2>7. IsABag(calls') /\ DOMAIN calls' = DOMAIN calls \cup {q}
    BY <1>4, <2>4, <2>5, <2>6 DEF IsABag
  <2> QED
    BY <1>2, <2>7 DEF BindingsSound, CallsSound
<1> QED
  BY <1>1, <1>3, <1>6, <1>7

\* The form with another configuration: the watcher leaves it no zone but the new one's.
LEMMA BindingFormSound ==
    ASSUME NEW p, BoundFields \subseteq DOMAIN p, p.view \in {Detail, BoundDns},
           NEW cfg, NEW zone, cfg = p.bCfgId => zone \in {None, Zone(cfg)},
           NEW q, SameBinding([BindingForm(p, cfg, zone) EXCEPT
                                  !.bZonesLoading = TRUE, !.bStale = FALSE], q)
    PROVE  BindingSound(q)
<1>1. /\ DOMAIN q = DOMAIN p /\ q.view = p.view /\ q.bCfgId = cfg
      /\ q.bZoneId = (IF cfg = p.bCfgId THEN zone ELSE None)
      /\ q.bZonesLoading = TRUE /\ q.bStale = FALSE
  BY DEF BindingForm, SameBinding, BoundFields
<1> QED
  BY <1>1 DEF BindingSound, ZonesSound

LEMMA BindingOpensSound ==
    ASSUME BindingsSound, BindingSound(page), NEW view, NEW kind, NEW cfg, NEW zone,
           zone \in {None, Zone(cfg)}, BindingOpens(view, kind, cfg, zone)
    PROVE  BindingsSound' /\ BindingSound(page')
<1>f. BoundFields \subseteq DOMAIN page /\ page.view \in {Detail, BoundDns}
  BY DEF BindingSound
<1>1. BindingsSound'
  BY ZonesAskedFor DEF BindingOpens
<1>2. SameBinding([BindingForm(page, cfg, zone) EXCEPT !.bZonesLoading = TRUE, !.bStale = FALSE],
                  page')
  BY <1>f DEF BindingOpens, SameBinding, BindingForm, BoundFields
<1>3. BindingSound(page')
  BY <1>f, <1>2, BindingFormSound
<1> QED
  BY <1>1, <1>3

\* What the user does in the dialog and on the list of bindings.
LEMMA BindingClicksSound ==
    ASSUME BindingsSound, BindingSound(page), NEW view, BindingClicks(view)
    PROVE  BindingsSound' /\ BindingSound(page')
<1>f. BoundFields \subseteq DOMAIN page /\ page.view \in {Detail, BoundDns}
  BY DEF BindingSound
<1>1. CASE OpenAddBindingDialog(view)
  BY <1>1, BindingOpensSound DEF OpenAddBindingDialog
<1>2. ASSUME NEW row \in Keys, OpenEditBindingDialog(view, row)
      PROVE  BindingsSound' /\ BindingSound(page')
  BY <1>2, BindingOpensSound DEF OpenEditBindingDialog
<1>3. ASSUME NEW cfg \in Cfgs, BindingPickCfg(view, cfg)
      PROVE  BindingsSound' /\ BindingSound(page')
  <2>1. BindingsSound'
    BY <1>3, ZonesAskedFor DEF BindingPickCfg
  <2>2. cfg # page.bCfgId
        /\ SameBinding([BindingForm(page, cfg, page.bZoneId) EXCEPT
                            !.bZonesLoading = TRUE, !.bStale = FALSE], page')
    BY <1>f, <1>3 DEF BindingPickCfg, SameBinding, BindingForm, BoundFields
  <2> QED
    BY <1>f, <2>1, <2>2, BindingFormSound
<1>4. CASE BindingPickZone(view)
  <2>1. BindingsSound'
    BY <1>4, BindingsUnsent DEF BindingPickZone
  <2>2. /\ ~page.bZonesLoading
        /\ DOMAIN page' = DOMAIN page /\ page'.view = page.view /\ page'.bStale = page.bStale
        /\ page'.bCfgId = page.bCfgId /\ page'.bZoneId = page.bZones /\ page'.bZones = page.bZones
    BY <1>f, <1>4 DEF BindingPickZone, BoundFields
  <2>3. BindingSound(page')
    BY <2>2 DEF BindingSound, ZonesSound
  <2> QED
    BY <2>1, <2>3
<1>5. CASE CloseBindingDialog(view)
  <2>1. SameBinding(page, page')
    BY <1>f, <1>5 DEF CloseBindingDialog, SameBinding, BoundFields
  <2> QED
    BY <1>5, <2>1, BindingsUnsent, SameBindingSound DEF CloseBindingDialog
<1>6. CASE HandleSaveBinding(view)
  <2>1. PICK q : q = Request("saveBinding", page.bCfgId,
                             [zone |-> page.bZoneId, stale |-> page.bStale])
    OBVIOUS
  <2>2. /\ IsRequest(q) /\ q.key = page.bCfgId /\ q.arg.zone = page.bZoneId
        /\ q.arg.stale = page.bStale
    BY <2>1, RequestFields
  <2>3. Sends({q}) /\ page.bZoneId # None /\ SameBinding(page, page')
    BY <1>f, <1>6, <2>1 DEF HandleSaveBinding, SameBinding, BoundFields
  <2>4. q.arg.stale \/ q.arg.zone = Zone(q.key)
    BY <2>2, <2>3 DEF BindingSound, ZonesSound
  <2>5. BindingsSound'
    BY <2>2, <2>3, <2>4, SentCalls DEF BindingsSound, CallsSound
  <2> QED
    BY <2>3, <2>5, SameBindingSound
<1>7. ASSUME NEW row \in Keys, HandleDeleteBinding(view, row)
      PROVE  BindingsSound' /\ BindingSound(page')
  <2>1. PICK q : q = Request("deleteBinding", row, None)
    OBVIOUS
  <2>2. IsRequest(q) /\ q.op = "deleteBinding"
    BY <2>1, RequestFields
  <2>3. BindingsSound'
    BY <1>7, <2>1, <2>2, BindingsKept DEF HandleDeleteBinding
  <2> QED
    BY <1>7, <2>3 DEF HandleDeleteBinding
<1> QED
  BY <1>1, <1>2, <1>3, <1>4, <1>5, <1>6, <1>7 DEF BindingClicks

\* The answers of the dialog and of the list.
LEMMA BindingAnswersSound ==
    ASSUME BindingsSound, BindingSound(page), NEW view, BindingAnswers(view)
    PROVE  BindingsSound' /\ BindingSound(page')
<1>f. BoundFields \subseteq DOMAIN page /\ page.view \in {Detail, BoundDns}
      /\ page.bStale \in BOOLEAN
  BY DEF BindingSound
<1>r. \A op \in {"bindings", "bindingsOfSave"} :
          IsRequest(Request(op, None, None)) /\ Request(op, None, None).op # "saveBinding"
  BY RequestFields
<1>l. \A ok \in BOOLEAN : SameBinding(page, BindingsListed(page, ok))
  BY <1>f DEF BindingsListed, SameBinding, BoundFields
<1>1. ASSUME NEW ok \in BOOLEAN, LoadBindingZones(view, ok)
      PROVE  BindingsSound' /\ BindingSound(page')
  <2>1. PICK r, stale :
          /\ SettledBy(view, r, {})
          /\ stale = (page.bStale \/ (ok /\ r.key # page.bCfgId))
          /\ page' = [page EXCEPT !.bZonesLoading = FALSE,
                                  !.bZones = IF ok THEN Zone(r.key) ELSE None, !.bStale = stale]
    BY <1>1 DEF LoadBindingZones
  <2>2. /\ DOMAIN page' = DOMAIN page /\ page'.view = page.view /\ page'.bStale = stale
        /\ page'.bCfgId = page.bCfgId /\ page'.bZoneId = page.bZoneId
        /\ page'.bZones = IF ok THEN Zone(r.key) ELSE None
    BY <1>f, <2>1 DEF BoundFields
  <2>3. stale \in BOOLEAN /\ (~stale => ~page.bStale /\ (ok => r.key = page.bCfgId))
    BY <1>f, <2>1
  <2>4. BindingSound(page')
    BY <1>f, <2>2, <2>3 DEF BindingSound, ZonesSound
  <2> QED
    BY <2>1, <2>4, BindingsSettled
<1>2. ASSUME NEW ok \in BOOLEAN, BindingSaved(view, ok)
      PROVE  BindingsSound' /\ BindingSound(page')
  <2>0. PICK rs : rs = IF ok THEN {Request("bindingsOfSave", None, None)} ELSE {}
    OBVIOUS
  <2>1. PICK r \in InFlight("saveBinding") : SettledBy(view, r, rs)
    BY <1>2, <2>0 DEF BindingSaved
  <2>2. BindingsSound'
    BY <1>r, <2>0, <2>1, BindingsKept
  <2>3. PICK loading : page' = [page EXCEPT !.bSaving = ok, !.bLoading = loading,
                                              !.bDialog = IF ok THEN None ELSE @]
    BY <1>2 DEF BindingSaved
  <2>4. SameBinding(page, page')
    BY <1>f, <2>3 DEF SameBinding, BoundFields
  <2> QED
    BY <2>2, <2>4, SameBindingSound
<1>3. ASSUME NEW ok \in BOOLEAN, BindingDeleted(view, ok)
      PROVE  BindingsSound' /\ BindingSound(page')
  <2>0. PICK rs : rs = IF ok THEN {Request("bindings", None, None)} ELSE {}
    OBVIOUS
  <2>1. PICK r \in InFlight("deleteBinding") : SettledBy(view, r, rs)
    BY <1>3, <2>0 DEF BindingDeleted
  <2>2. BindingsSound'
    BY <1>r, <2>0, <2>1, BindingsKept
  <2>3. PICK loading : page' = [page EXCEPT !.bLoading = loading]
    BY <1>3 DEF BindingDeleted
  <2>4. SameBinding(page, page')
    BY <1>f, <2>3 DEF SameBinding, BoundFields
  <2> QED
    BY <2>2, <2>4, SameBindingSound
<1>4. ASSUME NEW ok \in BOOLEAN, LoadBindings(view, ok)
      PROVE  BindingsSound' /\ BindingSound(page')
  BY <1>l, <1>4, BindingsSettled, SameBindingSound DEF LoadBindings
<1>5. ASSUME NEW ok \in BOOLEAN, LoadBindingsOfSave(view, ok)
      PROVE  BindingsSound' /\ BindingSound(page')
  <2>1. BindingsSound'
    BY <1>5, BindingsSettled DEF LoadBindingsOfSave
  <2>2. PICK p : p = BindingsListed(page, ok)
    OBVIOUS
  <2>3. BindingSound(p)
    BY <1>l, <2>2, SameBindingSound
  <2>4. SameBinding(p, page')
    BY <1>5, <2>2, <2>3 DEF LoadBindingsOfSave, SameBinding, BindingSound, BoundFields
  <2> QED
    BY <2>1, <2>3, <2>4, SameBindingSound
<1> QED
  BY <1>1, <1>2, <1>3, <1>4, <1>5 DEF BindingAnswers

\* The operations of an instance, which InstanceDetail.vue has beside the dialog.
DetailBeside ==
    \/ DetailMounting \/ DetailRefreshTimer \/ DetailVncInfo \/ DetailCloses \/ DetailTerminate
    \/ \E op \in Actions \cup LongOperations : DetailDoAction(op)
    \/ \E kind \in DetailForms \cup {"vnc", "terminate"} : DetailOpens(kind)
    \/ \E kind \in DetailForms : DetailSaveForm(kind)
    \/ \E ok \in BOOLEAN :
          \/ DetailTerminatePrompt(ok)
          \/ DetailRefreshed(ok) \/ DetailTerminateConfig(ok) \/ DetailTerminateCode(ok)
          \/ \E op \in Actions \cup LongOperations \cup {"terminate"} : DetailActionDone(op, ok)
          \/ \E kind \in DetailForms : DetailSavedForm(kind, ok)

\* A request without key and argument that is not for a binding.
LEMMA PlainRequest ==
    ASSUME NEW op, op # "saveBinding"
    PROVE  IsRequest(Request(op, None, None)) /\ Request(op, None, None).op # "saveBinding"
BY RequestFields

LEMMA DetailBesideSent ==
    ASSUME BindingsSound, DetailBeside
    PROVE  BindingsSound'
<1>1. CASE DetailMounting
  <2>1. ASSUME NEW ok \in BOOLEAN, DetailLoaded(ok)
        PROVE  BindingsSound'
    <3>1. PICK rs : rs = IF ok THEN {Request("tenant", None, None)} ELSE {}
      OBVIOUS
    <3>2. PICK r : SettledBy(Detail, r, rs)
      BY <2>1, <3>1 DEF DetailLoaded
    <3> QED
      BY <3>1, <3>2, PlainRequest, BindingsKept
  <2>2. ASSUME NEW op, NEW next, NEW ok \in BOOLEAN, DetailMounted(op, next, ok),
               \A q \in next : IsRequest(q) /\ q.op # "saveBinding"
        PROVE  BindingsSound'
    <3>1. PICK rs : rs = IF ok THEN next ELSE {}
      OBVIOUS
    <3>2. PICK r : SettledBy(Detail, r, rs)
      BY <2>2, <3>1 DEF DetailMounted
    <3> QED
      BY <2>2, <3>1, <3>2, BindingsKept
  <2>3. ASSUME NEW ok \in BOOLEAN, DetailMountedLast(ok)
        PROVE  BindingsSound'
    BY <2>3, BindingsSettled DEF DetailMountedLast
  <2>4. CASE DetailMounted("tenant", {Request("configs", None, None)}, TRUE)
    <3>1. PICK next : next = {Request("configs", None, None)}
      OBVIOUS
    <3>2. \A q \in next : IsRequest(q) /\ q.op # "saveBinding"
      BY <3>1, PlainRequest
    <3>3. PICK ok \in BOOLEAN : DetailMounted("tenant", next, ok)
      BY <2>4, <3>1
    <3> QED
      BY <2>2, <3>2, <3>3
  <2>5. ASSUME NEW ok \in BOOLEAN,
               DetailMounted("configs", {Request("firstBindings", None, None),
                                         Request("firstZones", None, None)}, ok)
        PROVE  BindingsSound'
    <3>1. PICK next : next = {Request("firstBindings", None, None), Request("firstZones", None, None)}
      OBVIOUS
    <3>2. \A q \in next : IsRequest(q) /\ q.op # "saveBinding"
      BY <3>1, PlainRequest
    <3>3. DetailMounted("configs", next, ok)
      BY <2>5, <3>1
    <3> QED
      BY <2>2, <3>2, <3>3
  <2> QED
    BY <1>1, <2>1, <2>3, <2>4, <2>5 DEF DetailMounting
<1>2. CASE DetailRefreshTimer
  BY <1>2, PlainRequest, BindingsKept DEF DetailRefreshTimer
<1>3. CASE DetailVncInfo
  BY <1>3, BindingsSettled DEF DetailVncInfo
<1>4. CASE DetailCloses
  BY <1>4, BindingsUnsent DEF DetailCloses
<1>5. CASE DetailTerminate
  BY <1>5, PlainRequest, BindingsKept DEF DetailTerminate
<1>6. ASSUME NEW op \in Actions \cup LongOperations, DetailDoAction(op)
      PROVE  BindingsSound'
  <2>1. op # "saveBinding"
    BY DEF Actions, LongOperations
  <2> QED
    BY <1>6, <2>1, PlainRequest, BindingsKept DEF DetailDoAction
<1>7. ASSUME NEW kind \in DetailForms \cup {"vnc", "terminate"}, DetailOpens(kind)
      PROVE  BindingsSound'
  <2>1. PICK rs : rs = IF kind = "vnc" THEN {Request("vncInfo", None, None)} ELSE {}
    OBVIOUS
  <2> QED
    BY <1>7, <2>1, PlainRequest, BindingsKept DEF DetailOpens
<1>8. ASSUME NEW kind \in DetailForms, DetailSaveForm(kind)
      PROVE  BindingsSound'
  <2>1. kind # "saveBinding"
    BY DEF DetailForms
  <2> QED
    BY <1>8, <2>1, PlainRequest, BindingsKept DEF DetailSaveForm
<1>9. ASSUME NEW ok \in BOOLEAN, DetailTerminatePrompt(ok)
      PROVE  BindingsSound'
  <2>1. PICK rs : rs = IF ok THEN {Request("terminate", None, None)} ELSE {}
    OBVIOUS
  <2> QED
    BY <1>9, <2>1, PlainRequest, BindingsKept DEF DetailTerminatePrompt
<1>10. ASSUME NEW ok \in BOOLEAN, DetailTerminateConfig(ok)
       PROVE  BindingsSound'
  <2>1. PICK rs : rs = IF ok /\ page.channel THEN {Request("captcha", None, None)} ELSE {}
    OBVIOUS
  <2>2. PICK r : SettledBy(Detail, r, rs)
    BY <1>10, <2>1 DEF DetailTerminateConfig
  <2> QED
    BY <2>1, <2>2, PlainRequest, BindingsKept
<1>11. ASSUME NEW ok \in BOOLEAN, DetailRefreshed(ok) \/ DetailTerminateCode(ok)
       PROVE  BindingsSound'
  BY <1>11, BindingsSettled DEF DetailRefreshed, DetailTerminateCode
<1>12. ASSUME NEW ok \in BOOLEAN, NEW op, DetailActionDone(op, ok) \/ DetailSavedForm(op, ok)
       PROVE  BindingsSound'
  BY <1>12, BindingsSettled DEF DetailActionDone, DetailSavedForm
<1> QED
  BY <1>1, <1>2, <1>3, <1>4, <1>5, <1>6, <1>7, <1>8, <1>9, <1>10, <1>11, <1>12 DEF DetailBeside

LEMMA DetailBesideSame ==
    ASSUME BindingSound(page), DetailBeside
    PROVE  BindingSound(page')
<1>f. BoundFields \subseteq DOMAIN page
  BY DEF BindingSound
<1>1. SameBinding(page, page')
  <2>1. CASE DetailMounting
    <3>1. ASSUME NEW ok \in BOOLEAN, DetailLoaded(ok)
          PROVE  SameBinding(page, page')
      BY <1>f, <3>1 DEF DetailLoaded, SameBinding, BoundFields
    <3>2. ASSUME NEW op, NEW next, NEW ok, DetailMounted(op, next, ok)
          PROVE  SameBinding(page, page')
      <4>1. PICK l, b : page' = [page EXCEPT !.loading = l, !.bLoading = b]
        BY <3>2 DEF DetailMounted
      <4> QED
        BY <1>f, <4>1 DEF SameBinding, BoundFields
    <3>3. ASSUME NEW ok \in BOOLEAN, DetailMountedLast(ok)
          PROVE  SameBinding(page, page')
      <4>0. PICK r \in InFlight("firstBindings") \cup InFlight("firstZones") :
                LET p == IF r.op = "firstZones" THEN page ELSE BindingsListed(page, ok)
                IN  page' = [p EXCEPT !.loading =
                                Cardinality(InFlight("firstBindings") \cup InFlight("firstZones")) > 1]
        BY <3>3 DEF DetailMountedLast
      <4>c. PICK l : l = (Cardinality(InFlight("firstBindings") \cup InFlight("firstZones")) > 1)
        OBVIOUS
      <4>d. PICK p : p = IF r.op = "firstZones" THEN page ELSE BindingsListed(page, ok)
        OBVIOUS
      <4>1. p \in {page, BindingsListed(page, ok)} /\ page' = [p EXCEPT !.loading = l]
        BY <4>0, <4>c, <4>d
      <4>2. SameBinding(page, p)
        BY <1>f, <4>1 DEF BindingsListed, SameBinding, BoundFields
      <4> QED
        BY <1>f, <4>1, <4>2 DEF SameBinding, BoundFields
    <3> QED
      BY <2>1, <3>1, <3>2, <3>3 DEF DetailMounting
  <2>2. CASE DetailRefreshTimer \/ DetailVncInfo \/ DetailCloses \/ DetailTerminate
    BY <1>f, <2>2 DEF DetailRefreshTimer, DetailVncInfo, DetailCloses, DetailTerminate,
        SameBinding, BoundFields
  <2>3. ASSUME NEW k, DetailDoAction(k) \/ DetailOpens(k) \/ DetailSaveForm(k)
        PROVE  SameBinding(page, page')
    BY <1>f, <2>3 DEF DetailDoAction, DetailOpens, DetailSaveForm, SameBinding, BoundFields
  <2>4. ASSUME NEW ok \in BOOLEAN, \/ DetailTerminatePrompt(ok) \/ DetailRefreshed(ok)
                                  \/ DetailTerminateConfig(ok) \/ DetailTerminateCode(ok)
        PROVE  SameBinding(page, page')
    BY <1>f, <2>4 DEF DetailTerminatePrompt, DetailRefreshed, DetailTerminateConfig,
        DetailTerminateCode, SameBinding, BoundFields
  <2>5. ASSUME NEW ok \in BOOLEAN, NEW op, DetailActionDone(op, ok) \/ DetailSavedForm(op, ok)
        PROVE  SameBinding(page, page')
    BY <1>f, <2>5 DEF DetailActionDone, DetailActed, DetailSavedForm, SameBinding, BoundFields
  <2> QED
    BY <2>1, <2>2, <2>3, <2>4, <2>5 DEF DetailBeside
<1> QED
  BY <1>1, SameBindingSound

-----------------------------------------------------------------------------
LEMMA BindingInitSound ==
    ASSUME NEW p, NEW r, NEW part, p = With(r, part), DOMAIN r \cap DOMAIN part = {},
           BoundFields \ {"view"} \subseteq DOMAIN part, part.bStale = FALSE,
           part.bCfgId = None, part.bZoneId = None, part.bZones = None,
           "view" \in DOMAIN r, r.view \in {Detail, BoundDns}
    PROVE  BindingSound(p)
<1>1. /\ DOMAIN p = DOMAIN r \cup DOMAIN part
      /\ \A f \in DOMAIN r : p[f] = r[f]
      /\ \A f \in DOMAIN part : p[f] = part[f]
  BY DEF With
<1>2. {"bStale", "bCfgId", "bZoneId", "bZones"} \subseteq DOMAIN part
  BY DEF BoundFields
<1>3. p.view = r.view /\ p.bStale = FALSE /\ p.bZoneId = None /\ p.bZones = None
  BY <1>1, <1>2
<1>4. BoundFields \subseteq DOMAIN p
  BY <1>1
<1> QED
  BY <1>3, <1>4 DEF BindingSound, ZonesSound

LEMMA BindingsUnasked ==
    ASSUME NEW rs, calls = SetToBag(rs), \A q \in rs : IsRequest(q) /\ q.op # "saveBinding"
    PROVE  BindingsSound
BY DEF BindingsSound, CallsSound, SetToBag, IsABag

LEMMA DetailInitSound == DetailInit => BindingsSound /\ BindingSound(page)
<1> SUFFICES ASSUME DetailInit PROVE BindingsSound /\ BindingSound(page)
  OBVIOUS
<1>1. PICK r : /\ \E channel \in BOOLEAN :
                     r = [view |-> Detail, channel |-> channel, loading |-> TRUE,
                          state |-> None, acting |-> None, refreshes |-> 0, prompts |-> 0,
                          dialog |-> None, saving |-> {}]
               /\ page = With(r, BindingFields)
  BY DEF DetailInit, Opens
<1>2. PICK part : part = BindingFields
  OBVIOUS
<1>3. /\ "view" \in DOMAIN r /\ r.view = Detail
      /\ DOMAIN r \cap DOMAIN part = {}
  BY <1>1, <1>2 DEF BindingFields
<1>4. /\ BoundFields \ {"view"} \subseteq DOMAIN part
      /\ part.bStale = FALSE /\ part.bCfgId = None /\ part.bZoneId = None /\ part.bZones = None
  BY <1>2 DEF BindingFields, BoundFields
<1>5. BindingSound(page)
  BY <1>1, <1>2, <1>3, <1>4, BindingInitSound
<1>6. BindingsSound
  <2>1. PICK rs : rs = {Request("instance", None, None)}
    OBVIOUS
  <2>2. calls = SetToBag(rs)
    BY <2>1 DEF DetailInit
  <2> QED
    BY <2>1, <2>2, PlainRequest, BindingsUnasked
<1> QED
  BY <1>5, <1>6

LEMMA BoundDnsInitSound == BoundDnsInit => BindingsSound /\ BindingSound(page)
<1> SUFFICES ASSUME BoundDnsInit PROVE BindingsSound /\ BindingSound(page)
  OBVIOUS
<1>1. PICK r : r = [view |-> BoundDns, cfgs |-> FALSE, instances |-> FALSE]
  OBVIOUS
<1>2. PICK part : part = [BindingFields EXCEPT !.bLoading = TRUE]
  OBVIOUS
<1>3. page = With(r, part)
  BY <1>1, <1>2 DEF BoundDnsInit, Opens
<1>4. /\ "view" \in DOMAIN r /\ r.view = BoundDns
      /\ DOMAIN r \cap DOMAIN part = {}
  BY <1>1, <1>2 DEF BindingFields
<1>5. /\ BoundFields \ {"view"} \subseteq DOMAIN part
      /\ part.bStale = FALSE /\ part.bCfgId = None /\ part.bZoneId = None /\ part.bZones = None
  BY <1>2 DEF BindingFields, BoundFields
<1>6. BindingSound(page)
  BY <1>3, <1>4, <1>5, BindingInitSound
<1>7. BindingsSound
  <2>1. PICK rs : rs = {Request("bindings", None, None), Request("instances", None, None),
                        Request("cfgs", None, None)}
    OBVIOUS
  <2>2. calls = SetToBag(rs)
    BY <2>1 DEF BoundDnsInit
  <2> QED
    BY <2>1, <2>2, PlainRequest, BindingsUnasked
<1> QED
  BY <1>6, <1>7

LEMMA BoundDnsSteps ==
    ASSUME BindingsSound, BindingSound(page), BoundDnsNext
    PROVE  BindingsSound' /\ BindingSound(page')
<1>f. BoundFields \subseteq DOMAIN page
  BY DEF BindingSound
<1>1. CASE BoundDnsRefresh
  <2>1. BindingsSound'
    BY <1>1, PlainRequest, BindingsKept DEF BoundDnsRefresh
  <2>2. SameBinding(page, page')
    BY <1>f, <1>1 DEF BoundDnsRefresh, SameBinding, BoundFields
  <2> QED
    BY <2>1, <2>2, SameBindingSound
<1>2. ASSUME NEW ok \in BOOLEAN, NEW list \in {"instances", "cfgs"},
             CloudflareLoadList(BoundDns, list, ok)
      PROVE  BindingsSound' /\ BindingSound(page')
  <2>1. BindingsSound'
    BY <1>2, BindingsSettled DEF CloudflareLoadList
  <2>2. PICK v : page' = [page EXCEPT ![list] = v]
    BY <1>2 DEF CloudflareLoadList
  <2>3. SameBinding(page, page')
    BY <1>f, <1>2, <2>2 DEF SameBinding, BoundFields
  <2> QED
    BY <2>1, <2>3, SameBindingSound
<1> QED
  BY <1>1, <1>2, BindingClicksSound, BindingAnswersSound DEF BoundDnsNext, BoundDnsAnswers

LEMMA DetailSteps ==
    ASSUME BindingsSound, BindingSound(page), DetailNext
    PROVE  BindingsSound' /\ BindingSound(page')
<1>1. BindingClicks(Detail) \/ BindingAnswers(Detail) \/ DetailBeside
  BY DEF DetailNext, DetailAnswers, DetailBeside
<1> QED
  BY <1>1, BindingClicksSound, BindingAnswersSound, DetailBesideSent, DetailBesideSame

\* A binding is saved with a zone of the configuration it is saved with, whatever order
\* its dialog's lists arrive in, but for a list that a late answer has replaced: for any
\* configurations, and beside any operations of the instance.
THEOREM ZonesMatch == BindingSpec => []ZoneOfConfig
<1>1. DetailInit \/ BoundDnsInit => BindingsSound /\ BindingSound(page)
  BY DetailInitSound, BoundDnsInitSound
<1>2. /\ BindingsSound /\ BindingSound(page)
      /\ [(At(Detail) /\ DetailNext) \/ (At(BoundDns) /\ BoundDnsNext)]_vars
      => (BindingsSound /\ BindingSound(page))'
  <2> SUFFICES ASSUME BindingsSound, BindingSound(page),
                      [(At(Detail) /\ DetailNext) \/ (At(BoundDns) /\ BoundDnsNext)]_vars
               PROVE  BindingsSound' /\ BindingSound(page')
    OBVIOUS
  <2>1. CASE UNCHANGED vars
    BY <2>1 DEF vars, BindingsSound, CallsSound
  <2> QED
    BY <2>1, DetailSteps, BoundDnsSteps
<1>3. BindingsSound => ZoneOfConfig
  BY DEF BindingsSound, ZoneOfConfig, InFlight, BagToSet
<1> QED
  BY <1>1, <1>2, <1>3, PTL DEF BindingSpec

-----------------------------------------------------------------------------
(* The records of a zone                                                    *)

CloudflareSpec == CloudflareInit /\ [][At(Cloudflare) /\ CloudflareNext]_vars

RecordFields == {"view", "cfgs", "cfgId", "zones", "zonesLoading", "zoneId", "records",
                 "recordsLoading", "dialog", "saving", "stale"}

\* Until a late answer: the zone is one of the configuration's, the records are the
\* zone's, and an open dialog has a zone and the rows it was opened on.
RowsSound(p) ==
    /\ p.zones \in {None, Zone(p.cfgId)} /\ p.zoneId \in {None, Zone(p.cfgId)}
    /\ p.records \in {None, p.zoneId}
    /\ p.dialog # None => p.zoneId # None /\ (p.dialog # "add" => p.records = p.zoneId)

RecordSound(p) ==
    /\ p.view = Cloudflare /\ DOMAIN p = RecordFields
    /\ p.stale \in BOOLEAN
    /\ p.stale \/ RowsSound(p)

RecordOps == {"saveRecord", "deleteRecord"}

\* The changes of records that were sent.
RecordsSound ==
    /\ CallsSound
    /\ \A r \in DOMAIN calls : r.op \in RecordOps =>
           r.arg.stale \/ (r.key.zone = Zone(r.key.cfg) /\ r.arg.row = r.key.zone)

SameRows(p, q) ==
    /\ DOMAIN q = DOMAIN p
    /\ \A f \in {"view", "cfgId", "zones", "zoneId", "records", "dialog", "stale"} : q[f] = p[f]

LEMMA SameRowsSound ==
    ASSUME NEW p, NEW q, RecordSound(p), SameRows(p, q)
    PROVE  RecordSound(q)
BY DEF RecordSound, RowsSound, SameRows

\* Steps that change no record.
LEMMA RecordsKept ==
    ASSUME RecordsSound, NEW rs, \A q \in rs : IsRequest(q) /\ q.op \notin RecordOps,
           Sends(rs) \/ \E view, r : SettledBy(view, r, rs)
    PROVE  RecordsSound'
<1>1. CASE Sends(rs)
  BY <1>1, SentCalls DEF RecordsSound, CallsSound
<1>2. ASSUME NEW view, NEW r, SettledBy(view, r, rs)
      PROVE  RecordsSound'
  BY <1>2, SettledCalls DEF RecordsSound, CallsSound
<1> QED
  BY <1>1, <1>2

LEMMA RecordsSettled ==
    ASSUME RecordsSound, NEW view, NEW r, SettledBy(view, r, {})
    PROVE  RecordsSound'
BY RecordsKept

LEMMA RecordsUnsent == ASSUME RecordsSound, SendsNothing PROVE RecordsSound'
BY DEF RecordsSound, CallsSound, SendsNothing

LEMMA PlainRecordRequest ==
    ASSUME NEW op, NEW key, NEW arg, op \notin RecordOps
    PROVE  IsRequest(Request(op, key, arg)) /\ Request(op, key, arg).op \notin RecordOps
BY RequestFields

\* The records of a zone are asked for.
LEMMA RecordsAskedFor ==
    ASSUME NEW p, NEW zone
    PROVE  /\ IsRequest(RecordsOf(p, zone)) /\ RecordsOf(p, zone).op \notin RecordOps
           /\ IsRequest([RecordsOf(p, zone) EXCEPT !.op = "recordsOfSave"])
           /\ [RecordsOf(p, zone) EXCEPT !.op = "recordsOfSave"].op \notin RecordOps
BY DEF RecordsOf, Request, IsRequest, RecordOps

\* A change of the rows the page shows is sent.
LEMMA RecordWritten ==
    ASSUME RecordsSound, RecordSound(page), NEW op \in RecordOps, NEW row,
           page.stale \/ (page.zoneId = Zone(page.cfgId) /\ row = page.zoneId),
           Sends({WritesRecord(page, op, row)})
    PROVE  RecordsSound'
<1>1. PICK q : q = WritesRecord(page, op, row)
  OBVIOUS
<1>2. /\ IsRequest(q) /\ q.key = [zone |-> page.zoneId, cfg |-> page.cfgId]
      /\ q.arg = [row |-> row, stale |-> page.stale]
  BY <1>1, RequestFields DEF WritesRecord
<1>3. q.arg.stale \/ (q.key.zone = Zone(q.key.cfg) /\ q.arg.row = q.key.zone)
  BY <1>2
<1>4. Sends({q})
  BY <1>1
<1>5. IsABag(calls') /\ \A e \in DOMAIN calls' : e = q \/ e \in DOMAIN calls
  BY <1>4, SentCalls DEF RecordsSound, CallsSound
<1> QED
  BY <1>2, <1>3, <1>5 DEF RecordsSound, CallsSound

\* Rows that arrive are those of the chosen zone, or the table is told to be stale.
LEMMA RecordsListedSound ==
    ASSUME RecordSound(page), NEW r, NEW ok \in BOOLEAN
    PROVE  RecordSound(RecordsListed(page, r, ok))
<1>1. PICK late : late = (page.stale \/ (ok /\ (r.key # page.zoneId \/ r.arg # page.cfgId)))
  OBVIOUS
<1>2. PICK rows : rows = IF ok THEN r.key ELSE page.records
  OBVIOUS
<1>3. PICK q : q = [page EXCEPT !.recordsLoading = FALSE, !.records = rows, !.stale = late]
  OBVIOUS
<1>4. RecordsListed(page, r, ok) = q
  BY <1>1, <1>2, <1>3 DEF RecordsListed, RecordSound, RecordFields
<1>5. late \in BOOLEAN /\ (~late => ~page.stale /\ (ok => r.key = page.zoneId))
  BY <1>1 DEF RecordSound
<1>6. /\ DOMAIN q = RecordFields /\ q.stale = late /\ q.records = rows
      /\ \A f \in {"view", "cfgId", "zones", "zoneId", "dialog"} : q[f] = page[f]
  BY <1>3 DEF RecordSound, RecordFields
<1>7. ~late => RowsSound(q)
  BY <1>2, <1>5, <1>6 DEF RecordSound, RowsSound
<1> QED
  BY <1>4, <1>5, <1>6, <1>7 DEF RecordSound

-----------------------------------------------------------------------------
LEMMA RecordClicks ==
    ASSUME RecordsSound, RecordSound(page), CloudflareNext
    PROVE  CloudflareAnswers \/ (RecordsSound' /\ RecordSound(page'))
<1>f. DOMAIN page = RecordFields /\ page.view = Cloudflare
  BY DEF RecordSound
<1>1. CASE CloudflareRefreshZones
  <2>1. RecordsSound'
    BY <1>1, PlainRecordRequest, RecordsKept DEF CloudflareRefreshZones, RecordOps
  <2>2. SameRows(page, page')
    BY <1>f, <1>1 DEF CloudflareRefreshZones, SameRows, RecordFields
  <2> QED
    BY <2>1, <2>2, SameRowsSound
<1>2. CASE CloudflareRefreshRecords
  <2>0. PICK rs : rs = {RecordsOf(page, page.zoneId)}
    OBVIOUS
  <2>q. \A q \in rs : IsRequest(q) /\ q.op \notin RecordOps
    BY <2>0, RecordsAskedFor
  <2>1. RecordsSound'
    BY <1>2, <2>0, <2>q, RecordsKept DEF CloudflareRefreshRecords
  <2>2. SameRows(page, page')
    BY <1>f, <1>2 DEF CloudflareRefreshRecords, SameRows, RecordFields
  <2> QED
    BY <2>1, <2>2, SameRowsSound
<1>3. ASSUME NEW cfg \in Cfgs, CloudflareOnCfgChange(cfg)
      PROVE  RecordsSound' /\ RecordSound(page')
  <2>1. RecordsSound'
    BY <1>3, PlainRecordRequest, RecordsKept DEF CloudflareOnCfgChange, RecordOps
  <2>2. /\ DOMAIN page' = RecordFields /\ page'.view = Cloudflare /\ page'.stale = FALSE
        /\ page'.zones = None /\ page'.zoneId = None /\ page'.records = None
        /\ page'.dialog = None
    BY <1>f, <1>3 DEF CloudflareOnCfgChange, CloudflareFree, CfgChosen, RecordFields
  <2> QED
    BY <2>1, <2>2 DEF RecordSound, RowsSound
<1>4. ASSUME NEW zone, CloudflareOnZoneChange(zone)
      PROVE  RecordsSound' /\ RecordSound(page')
  <2>0. PICK rs : rs = IF zone = None THEN {} ELSE {RecordsOf(page, zone)}
    OBVIOUS
  <2>q. \A q \in rs : IsRequest(q) /\ q.op \notin RecordOps
    BY <2>0, RecordsAskedFor
  <2>1. RecordsSound'
    BY <1>4, <2>0, <2>q, RecordsKept DEF CloudflareOnZoneChange
  <2>2. PICK loading : page' = [page EXCEPT !.zoneId = zone, !.records = None,
                                            !.recordsLoading = loading]
    BY <1>4 DEF CloudflareOnZoneChange, ZoneChosen
  <2>3. /\ DOMAIN page' = RecordFields /\ page'.zoneId = zone /\ page'.records = None
        /\ \A f \in {"view", "cfgId", "zones", "dialog", "stale"} : page'[f] = page[f]
    BY <1>f, <2>2 DEF RecordFields
  <2>4. page.dialog = None /\ (zone # None => page.zones = zone)
    BY <1>4 DEF CloudflareOnZoneChange, CloudflareFree
  <2> QED
    BY <2>1, <2>3, <2>4 DEF RecordSound, RowsSound
<1>5. ASSUME NEW kind \in {"add", "edit"}, CloudflareOpensRecord(kind)
      PROVE  RecordsSound' /\ RecordSound(page')
  <2>1. RecordsSound'
    BY <1>5, RecordsUnsent DEF CloudflareOpensRecord
  <2>2. /\ DOMAIN page' = RecordFields /\ page'.dialog = kind
        /\ \A f \in {"view", "cfgId", "zones", "zoneId", "records", "stale"} : page'[f] = page[f]
    BY <1>f, <1>5 DEF CloudflareOpensRecord, RecordFields
  <2>3. page.zoneId # None /\ (kind = "edit" => page.records # None)
    BY <1>5 DEF CloudflareOpensRecord
  <2> QED
    BY <2>1, <2>2, <2>3 DEF RecordSound, RowsSound
<1>6. CASE CloudflareClosesRecord
  <2>1. RecordsSound'
    BY <1>6, RecordsUnsent DEF CloudflareClosesRecord
  <2>2. /\ DOMAIN page' = RecordFields /\ page'.dialog = None
        /\ \A f \in {"view", "cfgId", "zones", "zoneId", "records", "stale"} : page'[f] = page[f]
    BY <1>f, <1>6 DEF CloudflareClosesRecord, RecordFields
  <2> QED
    BY <2>1, <2>2 DEF RecordSound, RowsSound
<1>7. CASE CloudflareHandleSave
  <2>0. PICK row : row = IF page.dialog = "add" THEN page.zoneId ELSE page.records
    OBVIOUS
  <2>1. page.stale \/ (page.zoneId = Zone(page.cfgId) /\ row = page.zoneId)
    BY <1>7, <2>0 DEF CloudflareHandleSave, RecordSound, RowsSound
  <2>2. RecordsSound'
    BY <1>7, <2>0, <2>1, RecordWritten DEF CloudflareHandleSave, RecordOps
  <2>3. SameRows(page, page')
    BY <1>f, <1>7 DEF CloudflareHandleSave, SameRows, RecordFields
  <2> QED
    BY <2>2, <2>3, SameRowsSound
<1>8. CASE CloudflareHandleDelete
  <2>1. page.stale \/ (page.zoneId = Zone(page.cfgId) /\ page.records = page.zoneId)
    BY <1>8 DEF CloudflareHandleDelete, RecordSound, RowsSound
  <2>2. RecordsSound'
    BY <1>8, <2>1, RecordWritten DEF CloudflareHandleDelete, RecordOps
  <2> QED
    BY <1>8, <2>2 DEF CloudflareHandleDelete
<1> QED
  BY <1>1, <1>2, <1>3, <1>4, <1>5, <1>6, <1>7, <1>8 DEF CloudflareNext

LEMMA RecordAnswers ==
    ASSUME RecordsSound, RecordSound(page), CloudflareAnswers
    PROVE  RecordsSound' /\ RecordSound(page')
<1>f. DOMAIN page = RecordFields /\ page.view = Cloudflare
  BY DEF RecordSound
<1>1. ASSUME NEW ok \in BOOLEAN, CloudflareLoadList(Cloudflare, "cfgs", ok)
      PROVE  RecordsSound' /\ RecordSound(page')
  <2>1. RecordsSound'
    BY <1>1, RecordsSettled DEF CloudflareLoadList
  <2>2. PICK v : page' = [page EXCEPT !["cfgs"] = v]
    BY <1>1 DEF CloudflareLoadList
  <2>3. SameRows(page, page')
    BY <1>f, <2>2 DEF SameRows, RecordFields
  <2> QED
    BY <2>1, <2>3, SameRowsSound
<1>2. ASSUME NEW ok \in BOOLEAN, CloudflareLoadZones(ok)
      PROVE  RecordsSound' /\ RecordSound(page')
  <2>1. PICK r : /\ SettledBy(Cloudflare, r, {})
                 /\ page' = [page EXCEPT !.zonesLoading = FALSE,
                                         !.zones = IF ok THEN Zone(r.key) ELSE @,
                                         !.stale = @ \/ (ok /\ r.key # page.cfgId)]
    BY <1>2 DEF CloudflareLoadZones
  <2>2. PICK late : late = (page.stale \/ (ok /\ r.key # page.cfgId))
    OBVIOUS
  <2>3. page' = [page EXCEPT !.zonesLoading = FALSE,
                             !.zones = IF ok THEN Zone(r.key) ELSE page.zones, !.stale = late]
    BY <1>f, <2>1, <2>2 DEF RecordFields
  <2>4. /\ DOMAIN page' = RecordFields /\ page'.stale = late
        /\ page'.zones = (IF ok THEN Zone(r.key) ELSE page.zones)
        /\ \A f \in {"view", "cfgId", "zoneId", "records", "dialog"} : page'[f] = page[f]
    BY <1>f, <2>3 DEF RecordFields
  <2>5. late \in BOOLEAN /\ (~late => ~page.stale /\ (ok => r.key = page.cfgId))
    BY <2>2 DEF RecordSound
  <2>6. RecordSound(page')
    BY <1>f, <2>4, <2>5 DEF RecordSound, RowsSound
  <2> QED
    BY <2>1, <2>6, RecordsSettled
<1>3. ASSUME NEW ok \in BOOLEAN, CloudflareLoadRecords(ok)
      PROVE  RecordsSound' /\ RecordSound(page')
  BY <1>3, RecordsSettled, RecordsListedSound DEF CloudflareLoadRecords
<1>4. ASSUME NEW ok \in BOOLEAN, CloudflareSaved(ok)
      PROVE  RecordsSound' /\ RecordSound(page')
  <2>1. PICK again : again = (ok /\ page.zoneId # None)
    OBVIOUS
  <2>e. PICK q : q = [RecordsOf(page, page.zoneId) EXCEPT !.op = "recordsOfSave"]
    OBVIOUS
  <2>2. PICK rs : rs = IF again THEN {q} ELSE {}
    OBVIOUS
  <2>3. PICK r : SettledBy(Cloudflare, r, rs)
    BY <1>4, <2>1, <2>e, <2>2 DEF CloudflareSaved
  <2>f. IsRequest(q) /\ q.op \notin RecordOps
    BY <2>e, RecordsAskedFor
  <2>q. \A e \in rs : IsRequest(e) /\ e.op \notin RecordOps
    BY <2>2, <2>f
  <2>4. RecordsSound'
    BY <2>3, <2>q, RecordsKept
  <2>5. PICK dialog : dialog = IF ok THEN None ELSE page.dialog
    OBVIOUS
  <2>6. \E loading : page' = [page EXCEPT !.dialog = dialog, !.saving = again,
                                          !.recordsLoading = loading]
    BY <1>f, <1>4, <2>1, <2>5 DEF CloudflareSaved, RecordFields
  <2>7. /\ DOMAIN page' = RecordFields /\ page'.dialog = dialog
        /\ \A f \in {"view", "cfgId", "zones", "zoneId", "records", "stale"} : page'[f] = page[f]
    BY <1>f, <2>6 DEF RecordFields
  <2>8. RecordSound(page')
    BY <2>5, <2>7 DEF RecordSound, RowsSound
  <2> QED
    BY <2>4, <2>8
<1>5. ASSUME NEW ok \in BOOLEAN, CloudflareSaveReloaded(ok)
      PROVE  RecordsSound' /\ RecordSound(page')
  <2>1. PICK r : /\ SettledBy(Cloudflare, r, {})
                 /\ page' = [RecordsListed(page, r, ok) EXCEPT !.saving = FALSE]
    BY <1>5 DEF CloudflareSaveReloaded
  <2>2. PICK p : p = RecordsListed(page, r, ok)
    OBVIOUS
  <2>3. RecordSound(p)
    BY <2>2, RecordsListedSound
  <2>4. SameRows(p, page')
    BY <2>1, <2>2, <2>3 DEF SameRows, RecordSound, RecordFields
  <2> QED
    BY <2>1, <2>3, <2>4, RecordsSettled, SameRowsSound
<1>6. ASSUME NEW ok \in BOOLEAN, CloudflareDeleted(ok)
      PROVE  RecordsSound' /\ RecordSound(page')
  <2>1. PICK again : again = (ok /\ page.zoneId # None)
    OBVIOUS
  <2>2. PICK rs : rs = IF again THEN {RecordsOf(page, page.zoneId)} ELSE {}
    OBVIOUS
  <2>3. PICK r : SettledBy(Cloudflare, r, rs)
    BY <1>6, <2>1, <2>2 DEF CloudflareDeleted
  <2>q. \A q \in rs : IsRequest(q) /\ q.op \notin RecordOps
    BY <2>2, RecordsAskedFor
  <2>4. RecordsSound'
    BY <2>3, <2>q, RecordsKept
  <2>5. PICK loading : page' = [page EXCEPT !.recordsLoading = loading]
    BY <1>6 DEF CloudflareDeleted
  <2>6. SameRows(page, page')
    BY <1>f, <2>5 DEF SameRows, RecordFields
  <2> QED
    BY <2>4, <2>6, SameRowsSound
<1> QED
  BY <1>1, <1>2, <1>3, <1>4, <1>5, <1>6 DEF CloudflareAnswers

RecordsInv == RecordsSound /\ RecordSound(page)

LEMMA RecordsInitSound == CloudflareInit => RecordsInv
<1> SUFFICES ASSUME CloudflareInit PROVE RecordsInv
  OBVIOUS
<1>1. RecordSound(page)
  BY DEF CloudflareInit, Opens, RecordSound, RowsSound, RecordFields
<1>2. PICK rs : rs = {Request("zones", None, None), Request("cfgs", None, None)}
  OBVIOUS
<1>3. calls = SetToBag(rs)
  BY <1>2 DEF CloudflareInit
<1>4. \A q \in rs : IsRequest(q) /\ q.op \notin RecordOps
  BY <1>2, PlainRecordRequest DEF RecordOps
<1> QED
  BY <1>1, <1>3, <1>4 DEF RecordsInv, RecordsSound, CallsSound, SetToBag, IsABag

LEMMA RecordsStep == RecordsInv /\ [At(Cloudflare) /\ CloudflareNext]_vars => RecordsInv'
<1> SUFFICES ASSUME RecordsSound, RecordSound(page), [At(Cloudflare) /\ CloudflareNext]_vars
             PROVE  RecordsSound' /\ RecordSound(page')
  BY DEF RecordsInv
<1>1. CASE UNCHANGED vars
  BY <1>1 DEF vars, RecordsSound, CallsSound
<1> QED
  BY <1>1, RecordClicks, RecordAnswers

\* A record is changed or deleted in the zone it was listed for and with that zone's
\* configuration, until a late answer puts another zone's rows in the table: for any
\* configurations, and however often they and their zones are chosen anew.
THEOREM RecordsMatch == CloudflareSpec => []RecordOfZone
<1>1. RecordsInv => RecordOfZone
  BY DEF RecordsInv, RecordsSound, RecordOps, RecordOfZone, InFlight, BagToSet
<1> QED
  BY <1>1, RecordsInitSound, RecordsStep, PTL DEF CloudflareSpec

-----------------------------------------------------------------------------
(* The rules of SecurityRules.vue                                           *)

RuleFields == {"view", "tenantId", "vcns", "vcnId", "rules", "dialog", "stale"}

\* The VCN is the tenant's and the rules are its own.
ChoiceSound(p) ==
    /\ p.vcns \in {None, p.tenantId} /\ p.vcnId \in {None, p.tenantId}
    /\ p.rules # None => p.vcnId # None /\ p.rules.vcn = p.vcnId
    /\ p.dialog => p.vcnId # None

RulesSound(p) ==
    /\ p.view = SecurityRules /\ RuleFields \subseteq DOMAIN p
    /\ p.stale \in BOOLEAN /\ p.dialog \in BOOLEAN
    /\ p.stale \/ ChoiceSound(p)

RuleWrites == {"addRule", "removeRule", "releasePorts"}
RuleLists == {"rules", "rulesOfAdd", "rulesOfRemove", "rulesAtLast"}

\* A list is asked for with a VCN, and a change is sent where its rule was listed.
RuleRequestSound(q) ==
    /\ q.op \in RuleLists => q.key.vcn # None
    /\ q.op \in RuleWrites => q.arg.stale \/ (q.arg.row = q.key.vcn /\ q.key.vcn = q.key.tenant)

RuleCallsSound == CallsSound /\ \A q \in DOMAIN calls : RuleRequestSound(q)

LEMMA RuleCallsKept ==
    ASSUME RuleCallsSound, NEW rs, \A q \in rs : IsRequest(q) /\ RuleRequestSound(q),
           SendsNothing \/ Sends(rs) \/ \E view, r : SettledBy(view, r, rs)
    PROVE  RuleCallsSound'
<1>1. CallsSound' /\ \A q \in DOMAIN calls' : q \in rs \/ q \in DOMAIN calls
  <2>1. CASE Sends(rs)
    BY <2>1, SentCalls DEF RuleCallsSound, CallsSound
  <2>2. CASE \E view, r : SettledBy(view, r, rs)
    BY <2>2, SettledCalls DEF RuleCallsSound, CallsSound
  <2>3. CASE SendsNothing
    BY <2>3 DEF SendsNothing, RuleCallsSound, CallsSound
  <2> QED
    BY <2>1, <2>2, <2>3
<1> QED
  BY <1>1 DEF RuleCallsSound, RuleRequestSound

SameRules(p, q) == DOMAIN q = DOMAIN p /\ \A f \in RuleFields : q[f] = p[f]

LEMMA SameRulesSound ==
    ASSUME NEW p, NEW q, RulesSound(p), SameRules(p, q)
    PROVE  RulesSound(q)
BY DEF RulesSound, ChoiceSound, SameRules, RuleFields

LEMMA RulesLoadSound == ASSUME NEW p, RulesSound(p) PROVE RulesSound(RulesLoad(p))
<1>1. RulesSound([p EXCEPT !.rules = None, !.many = FALSE])
  BY DEF RulesSound, ChoiceSound, RuleFields
<1>2. SameRules(p, [p EXCEPT !.loading = TRUE])
  BY DEF RulesSound, SameRules, RuleFields
<1> QED
  BY <1>1, <1>2, SameRulesSound DEF RulesLoad, RulesEmptied

LEMMA RulesAskedFor ==
    ASSUME NEW p, NEW op \in RuleLists
    PROVE  \A q \in RulesRequest(p, op) : IsRequest(q) /\ RuleRequestSound(q)
<1>1. PICK q : q = Request(op, RulesAt(p.tenantId, p.vcnId, p.no), None)
  OBVIOUS
<1>2. IsRequest(q) /\ q.op = op /\ q.key.vcn = p.vcnId
  BY <1>1, RequestFields DEF RulesAt
<1> QED
  BY <1>1, <1>2 DEF RulesRequest, RuleRequestSound, RuleLists, RuleWrites

LEMMA RulesListedSound ==
    ASSUME NEW p, RulesSound(p), NEW query, query.vcn # None,
           NEW ok \in BOOLEAN, NEW some \in BOOLEAN, NEW many \in BOOLEAN
    PROVE  RulesSound(RulesListed(p, query, ok, some, many))
<1>1. PICK rules : rules = IF ok /\ some THEN query ELSE None
  OBVIOUS
<1>2. PICK late : late = (p.stale \/ (ok /\ query.vcn # p.vcnId))
  OBVIOUS
<1>3. PICK more : more = (ok /\ many)
  OBVIOUS
<1>4. RulesListed(p, query, ok, some, many)
        = [p EXCEPT !.loading = FALSE, !.rules = rules, !.many = more, !.stale = late]
  BY <1>1, <1>2, <1>3 DEF RulesListed
<1>5. late \in BOOLEAN /\ (~late => ~p.stale /\ (rules # None => rules.vcn = p.vcnId /\ p.vcnId # None))
  BY <1>1, <1>2 DEF RulesSound
<1>6. PICK q : q = [p EXCEPT !.loading = FALSE, !.rules = rules, !.many = more, !.stale = late]
  OBVIOUS
<1>7. /\ DOMAIN q = DOMAIN p /\ q.rules = rules /\ q.stale = late
      /\ \A f \in RuleFields \ {"rules", "stale"} : q[f] = p[f]
  BY <1>6 DEF RulesSound, RuleFields
<1>8. RulesSound(q)
  BY <1>5, <1>7 DEF RulesSound, ChoiceSound, RuleFields
<1> QED
  BY <1>4, <1>6, <1>8

\* A change of a rule is sent.
LEMMA RuleWritten ==
    ASSUME RuleCallsSound, RulesSound(page), NEW op \in RuleWrites, NEW row,
           page.stale \/ (row = page.vcnId /\ page.vcnId = page.tenantId),
           Sends({RulesWrite(page, op, row)})
    PROVE  RuleCallsSound'
<1>1. PICK q : q = RulesWrite(page, op, row)
  OBVIOUS
<1>2. /\ IsRequest(q) /\ q.op = op /\ q.key = [tenant |-> page.tenantId, vcn |-> page.vcnId]
      /\ q.arg = [row |-> row, stale |-> page.stale]
  BY <1>1, RequestFields DEF RulesWrite
<1>3. RuleRequestSound(q)
  BY <1>2 DEF RuleRequestSound, RuleLists, RuleWrites
<1>4. PICK rs : rs = {q}
  OBVIOUS
<1> QED
  BY <1>1, <1>2, <1>3, <1>4, RuleCallsKept

LEMMA RulesClicks ==
    ASSUME RuleCallsSound, RulesSound(page),
           \/ \E t \in Keys : RulesOnTenantChange(t)
           \/ \E no \in 1..2 : RulesPage(no)
           \/ \E open \in BOOLEAN : RulesDialog(open)
           \/ RulesOnVCNChange \/ RulesHandleSearch \/ RulesHandleAdd
           \/ RulesHandleDelete \/ RulesHandleRelease \/ RulesSearchTimer
    PROVE  RuleCallsSound' /\ RulesSound(page')
<1>n. PICK none : none = {}
  OBVIOUS
<1>f. RuleFields \subseteq DOMAIN page /\ page.stale \in BOOLEAN /\ page.dialog \in BOOLEAN
  BY DEF RulesSound
<1>a. None \notin Keys
  BY BrowserAssumption
<1>1. ASSUME NEW t \in Keys, RulesOnTenantChange(t)
      PROVE  RuleCallsSound' /\ RulesSound(page')
  <2>1. PICK q : q = Request("vcns", t, None)
    OBVIOUS
  <2>2. IsRequest(q) /\ RuleRequestSound(q)
    BY <2>1, RequestFields DEF RuleRequestSound, RuleLists, RuleWrites
  <2>3. PICK rs : rs = {q}
    OBVIOUS
  <2>4. Sends(rs) /\ ~page.dialog
    BY <1>1, <2>1, <2>3 DEF RulesOnTenantChange
  <2>5. PICK p : p = [page EXCEPT !.rules = None, !.many = FALSE]
    OBVIOUS
  <2>6. page' = [p EXCEPT !.tenantId = t, !.vcns = None, !.vcnId = None, !.no = 1,
                          !.loadingVCNs = TRUE, !.stale = FALSE]
    BY <1>1, <2>5 DEF RulesOnTenantChange, RulesEmptied
  <2>7. RulesSound(page')
    BY <1>f, <2>4, <2>5, <2>6 DEF RulesSound, ChoiceSound, RuleFields
  <2> QED
    BY <2>2, <2>3, <2>4, <2>7, RuleCallsKept
<1>2. ASSUME NEW p, RulesSound(p), page' = RulesLoad(p), Sends(RulesRequest(p, "rules"))
      PROVE  RuleCallsSound' /\ RulesSound(page')
  <2>1. PICK rs : rs = RulesRequest(p, "rules")
    OBVIOUS
  <2>2. \A q \in rs : IsRequest(q) /\ RuleRequestSound(q)
    BY <2>1, RulesAskedFor DEF RuleLists
  <2> QED
    BY <1>2, <2>1, <2>2, RuleCallsKept, RulesLoadSound
<1>3. ASSUME NEW no \in 1..2, RulesPage(no)
      PROVE  RuleCallsSound' /\ RulesSound(page')
  <2>1. PICK p : p = [page EXCEPT !.no = no]
    OBVIOUS
  <2>2. SameRules(page, p)
    BY <1>f, <2>1 DEF SameRules, RuleFields
  <2>3. page' = RulesLoad(p) /\ Sends(RulesRequest(p, "rules"))
    BY <1>3, <2>1 DEF RulesPage
  <2> QED
    BY <1>2, <2>2, <2>3, SameRulesSound
<1>4. CASE RulesSearchTimer
  <2>1. PICK p : p = [page EXCEPT !.searching = FALSE, !.no = 1]
    OBVIOUS
  <2>2. SameRules(page, p)
    BY <1>f, <2>1 DEF SameRules, RuleFields
  <2>3. page' = RulesLoad(p) /\ Sends(RulesRequest(p, "rules"))
    BY <1>4, <2>1 DEF RulesSearchTimer
  <2> QED
    BY <1>2, <2>2, <2>3, SameRulesSound
<1>5. CASE RulesOnVCNChange
  <2>1. PICK p : p = VcnChosen(page, page.vcns)
    OBVIOUS
  <2>2. PICK q : q = [page EXCEPT !.rules = None, !.many = FALSE]
    OBVIOUS
  <2>3. p = [q EXCEPT !.vcnId = page.vcns, !.no = 1]
    BY <2>1, <2>2 DEF VcnChosen, RulesEmptied
  <2>4. ~page.dialog /\ page' = RulesLoad(p) /\ Sends(RulesRequest(p, "rules"))
    BY <1>5, <2>1 DEF RulesOnVCNChange
  <2>5. RulesSound(p)
    BY <1>f, <2>2, <2>3, <2>4 DEF RulesSound, ChoiceSound, RuleFields
  <2> QED
    BY <1>2, <2>4, <2>5
<1>6. CASE RulesHandleSearch
  <2>1. page' = [page EXCEPT !.searching = TRUE] /\ SendsNothing
    BY <1>6 DEF RulesHandleSearch
  <2>2. SameRules(page, page')
    BY <1>f, <2>1 DEF SameRules, RuleFields
  <2> QED
    BY <1>n, <2>1, <2>2, SameRulesSound, RuleCallsKept
<1>7. ASSUME NEW open \in BOOLEAN, RulesDialog(open)
      PROVE  RuleCallsSound' /\ RulesSound(page')
  <2>1. page' = [page EXCEPT !.dialog = open] /\ SendsNothing /\ (open => page.vcnId # None)
    BY <1>7 DEF RulesDialog
  <2>2. RulesSound(page')
    BY <1>f, <2>1 DEF RulesSound, ChoiceSound, RuleFields
  <2> QED
    BY <1>n, <2>1, <2>2, RuleCallsKept
<1>8. CASE RulesHandleAdd
  <2>1. /\ page' = [page EXCEPT !.saving = TRUE] /\ page.dialog
        /\ Sends({RulesWrite(page, "addRule", page.vcnId)})
    BY <1>8 DEF RulesHandleAdd
  <2>2. SameRules(page, page')
    BY <1>f, <2>1 DEF SameRules, RuleFields
  <2>3. page.stale \/ page.vcnId = page.tenantId
    BY <2>1 DEF RulesSound, ChoiceSound
  <2> QED
    BY <2>1, <2>2, <2>3, SameRulesSound, RuleWritten DEF RuleWrites
<1>9. CASE RulesHandleDelete
  <2>1. /\ page' = [page EXCEPT !.deleting = page.rules.vcn] /\ page.rules # None
        /\ Sends({RulesWrite(page, "removeRule", page.rules.vcn)})
    BY <1>9 DEF RulesHandleDelete
  <2>2. SameRules(page, page')
    BY <1>f, <2>1 DEF SameRules, RuleFields
  <2>3. page.stale \/ (page.rules.vcn = page.vcnId /\ page.vcnId = page.tenantId)
    BY <2>1 DEF RulesSound, ChoiceSound
  <2> QED
    BY <2>1, <2>2, <2>3, SameRulesSound, RuleWritten DEF RuleWrites
<1>10. CASE RulesHandleRelease
  <2>1. /\ page' = [page EXCEPT !.loading = TRUE] /\ page.vcnId # None
        /\ Sends({RulesWrite(page, "releasePorts", page.vcnId)})
    BY <1>10 DEF RulesHandleRelease
  <2>2. SameRules(page, page')
    BY <1>f, <2>1 DEF SameRules, RuleFields
  <2>3. page.stale \/ page.vcnId = page.tenantId
    BY <2>1 DEF RulesSound, ChoiceSound
  <2> QED
    BY <2>1, <2>2, <2>3, SameRulesSound, RuleWritten DEF RuleWrites
<1> QED
  BY <1>1, <1>3, <1>4, <1>5, <1>6, <1>7, <1>8, <1>9, <1>10

LEMMA RulesAnswered ==
    ASSUME RuleCallsSound, RulesSound(page), RulesAnswers
    PROVE  RuleCallsSound' /\ RulesSound(page')
<1>n. PICK none : none = {}
  OBVIOUS
<1>f. RuleFields \subseteq DOMAIN page /\ page.stale \in BOOLEAN /\ page.dialog \in BOOLEAN
  BY DEF RulesSound
<1>s. ASSUME NEW b, NEW p, NEW op \in RuleLists, NEW rs, rs = IF b THEN RulesRequest(p, op) ELSE {}
      PROVE  \A q \in rs : IsRequest(q) /\ RuleRequestSound(q)
  BY <1>s, RulesAskedFor
<1>l. ASSUME NEW op \in RuleLists, NEW r \in InFlight(op) PROVE r.key.vcn # None
  BY <1>l DEF InFlight, BagToSet, RuleCallsSound, RuleRequestSound
<1>1. ASSUME NEW ok \in BOOLEAN, NetworkTenants(SecurityRules, ok)
      PROVE  RuleCallsSound' /\ RulesSound(page')
  <2>1. PICK b : b = (page.tenants \/ ok)
    OBVIOUS
  <2>2. page' = [page EXCEPT !.tenants = b] /\ \E r : SettledBy(SecurityRules, r, none)
    BY <1>n, <1>1, <2>1 DEF NetworkTenants
  <2>3. SameRules(page, page')
    BY <1>f, <2>2 DEF SameRules, RuleFields
  <2> QED
    BY <1>n, <2>2, <2>3, SameRulesSound, RuleCallsKept
<1>2. ASSUME NEW ok \in BOOLEAN, RulesLoadVCNs(ok)
      PROVE  RuleCallsSound' /\ RulesSound(page')
  <2>1. PICK r : /\ SettledBy(SecurityRules, r, none)
                 /\ page' = [page EXCEPT !.loadingVCNs = FALSE, !.vcns = IF ok THEN r.key ELSE None,
                                         !.stale = @ \/ (ok /\ r.key # page.tenantId)]
    BY <1>n, <1>2 DEF RulesLoadVCNs
  <2>2. PICK vcns, late : /\ vcns = IF ok THEN r.key ELSE None
                          /\ late = (page.stale \/ (ok /\ r.key # page.tenantId))
    OBVIOUS
  <2>3. page' = [page EXCEPT !.loadingVCNs = FALSE, !.vcns = vcns, !.stale = late]
    BY <2>1, <2>2
  <2>4. late \in BOOLEAN /\ (~late => ~page.stale /\ vcns \in {None, page.tenantId})
    BY <1>f, <2>2
  <2>5. RulesSound(page')
    BY <1>f, <2>3, <2>4 DEF RulesSound, ChoiceSound, RuleFields
  <2> QED
    BY <1>n, <2>1, <2>5, RuleCallsKept
<1>3. ASSUME NEW ok \in BOOLEAN, NEW some \in BOOLEAN, NEW many \in BOOLEAN,
             RulesLoaded(ok, some, many)
      PROVE  RuleCallsSound' /\ RulesSound(page')
  <2>1. PICK r \in InFlight("rules") : /\ SettledBy(SecurityRules, r, none)
                                       /\ page' = RulesListed(page, r.key, ok, some, many)
    BY <1>n, <1>3 DEF RulesLoaded
  <2>2. r.key.vcn # None
    BY <1>l, <2>1 DEF RuleLists
  <2>3. RulesSound(page')
    BY <2>1, <2>2, RulesListedSound
  <2> QED
    BY <1>n, <2>1, <2>3, RuleCallsKept
<1>4. ASSUME NEW ok \in BOOLEAN, NEW some \in BOOLEAN, NEW many \in BOOLEAN,
             RulesAddLoaded(ok, some, many) \/ RulesAtLastLoaded(ok, some, many)
      PROVE  RuleCallsSound' /\ RulesSound(page')
  <2>1. PICK op \in RuleLists :
          \E r \in InFlight(op) :
            /\ SettledBy(SecurityRules, r, none)
            /\ \/ page' = [RulesListed(page, r.key, ok, some, many) EXCEPT !.saving = FALSE]
               \/ page' = [RulesListed(page, r.key, ok, some, many) EXCEPT !.deleting = None]
    BY <1>n, <1>4 DEF RulesAddLoaded, RulesAtLastLoaded, RuleLists
  <2>2. PICK r \in InFlight(op) :
            /\ SettledBy(SecurityRules, r, none)
            /\ \/ page' = [RulesListed(page, r.key, ok, some, many) EXCEPT !.saving = FALSE]
               \/ page' = [RulesListed(page, r.key, ok, some, many) EXCEPT !.deleting = None]
    BY <2>1
  <2>3. PICK p : p = RulesListed(page, r.key, ok, some, many)
    OBVIOUS
  <2>4. RulesSound(p)
    BY <1>l, <2>2, <2>3, RulesListedSound
  <2>5. page' = [p EXCEPT !.saving = FALSE] \/ page' = [p EXCEPT !.deleting = None]
    BY <2>2, <2>3
  <2>6. SameRules(p, page')
    BY <2>4, <2>5 DEF RulesSound, SameRules, RuleFields
  <2> QED
    BY <1>n, <2>2, <2>4, <2>6, SameRulesSound, RuleCallsKept
<1>5. ASSUME NEW ok \in BOOLEAN, RulesAdded(ok)
      PROVE  RuleCallsSound' /\ RulesSound(page')
  <2>1. PICK again : again = (ok /\ page.vcnId # None)
    OBVIOUS
  <2>2. PICK q : q = RulesLoad(page)
    OBVIOUS
  <2>3. PICK p : p = IF ok THEN [q EXCEPT !.dialog = FALSE] ELSE page
    OBVIOUS
  <2>4. RulesSound(p)
    <3>1. RulesSound(q)
      BY <2>2, RulesLoadSound
    <3>2. RulesSound([q EXCEPT !.dialog = FALSE])
      BY <3>1 DEF RulesSound, ChoiceSound, RuleFields
    <3> QED
      BY <2>3, <3>2
  <2>5. PICK rs : rs = IF again THEN RulesRequest(page, "rulesOfAdd") ELSE {}
    OBVIOUS
  <2>6. (\E r : SettledBy(SecurityRules, r, rs)) /\ page' = [p EXCEPT !.saving = again]
    BY <1>5, <2>1, <2>2, <2>3, <2>5 DEF RulesAdded
  <2>7. SameRules(p, page')
    BY <2>4, <2>6 DEF RulesSound, SameRules, RuleFields
  <2>8. \A e \in rs : IsRequest(e) /\ RuleRequestSound(e)
    BY <1>s, <2>5 DEF RuleLists
  <2> QED
    BY <2>4, <2>6, <2>7, <2>8, SameRulesSound, RuleCallsKept
<1>6. ASSUME NEW ok \in BOOLEAN, RulesRemoved(ok)
      PROVE  RuleCallsSound' /\ RulesSound(page')
  <2>1. PICK again : again = (ok /\ page.vcnId # None)
    OBVIOUS
  <2>2. PICK p : p = IF ok THEN RulesLoad(page) ELSE page
    OBVIOUS
  <2>3. RulesSound(p)
    BY <2>2, RulesLoadSound
  <2>4. PICK op : op = IF page.many THEN "rulesOfRemove" ELSE "rulesAtLast"
    OBVIOUS
  <2>5. PICK rs : rs = IF again THEN RulesRequest(page, op) ELSE {}
    OBVIOUS
  <2>6. PICK d : d = IF again THEN p.deleting ELSE None
    OBVIOUS
  <2>7. (\E r : SettledBy(SecurityRules, r, rs)) /\ page' = [p EXCEPT !.deleting = d]
    BY <1>6, <2>1, <2>2, <2>4, <2>5, <2>6 DEF RulesRemoved
  <2>8. SameRules(p, page')
    BY <2>3, <2>7 DEF RulesSound, SameRules, RuleFields
  <2>9. op \in RuleLists
    BY <2>4 DEF RuleLists
  <2>10. \A e \in rs : IsRequest(e) /\ RuleRequestSound(e)
    BY <1>s, <2>5, <2>9
  <2> QED
    BY <2>3, <2>7, <2>8, <2>10, SameRulesSound, RuleCallsKept
<1>7. ASSUME NEW ok \in BOOLEAN, NEW some \in BOOLEAN, NEW many \in BOOLEAN,
             RulesRemoveLoaded(ok, some, many)
      PROVE  RuleCallsSound' /\ RulesSound(page')
  <2>1. PICK r \in InFlight("rulesOfRemove") :
          LET p == RulesListed(page, r.key, ok, some, many)
              back == p.rules = None /\ p.no > 1
              q == [p EXCEPT !.no = @ - 1]
          IN  /\ SettledBy(SecurityRules, r, IF back THEN RulesRequest(q, "rulesAtLast") ELSE {})
              /\ page' = IF ~back THEN [p EXCEPT !.deleting = None]
                         ELSE [RulesLoad(q) EXCEPT !.deleting = IF q.vcnId = None THEN None ELSE @]
    BY <1>7 DEF RulesRemoveLoaded
  <2>2. PICK p : p = RulesListed(page, r.key, ok, some, many)
    OBVIOUS
  <2>3. RulesSound(p)
    BY <1>l, <2>1, <2>2, RulesListedSound DEF RuleLists
  <2>4. PICK q : q = [p EXCEPT !.no = p.no - 1]
    OBVIOUS
  <2>5. RulesSound(q)
    <3>1. SameRules(p, q)
      BY <2>3, <2>4 DEF RulesSound, SameRules, RuleFields
    <3> QED
      BY <2>3, <3>1, SameRulesSound
  <2>6. PICK back : back = (p.rules = None /\ p.no > 1)
    OBVIOUS
  <2>7. PICK rs : rs = IF back THEN RulesRequest(q, "rulesAtLast") ELSE {}
    OBVIOUS
  <2>8. PICK u : u = RulesLoad(q)
    OBVIOUS
  <2>9. PICK d : d = IF q.vcnId = None THEN None ELSE u.deleting
    OBVIOUS
  <2>10. /\ SettledBy(SecurityRules, r, rs)
         /\ page' = [p EXCEPT !.deleting = None] \/ page' = [u EXCEPT !.deleting = d]
    BY <2>1, <2>2, <2>4, <2>6, <2>7, <2>8, <2>9
  <2>11. RulesSound(u)
    BY <2>5, <2>8, RulesLoadSound
  <2>12. SameRules(p, page') \/ SameRules(u, page')
    BY <2>3, <2>10, <2>11 DEF RulesSound, SameRules, RuleFields
  <2>13. \A e \in rs : IsRequest(e) /\ RuleRequestSound(e)
    BY <1>s, <2>7 DEF RuleLists
  <2> QED
    BY <2>3, <2>10, <2>11, <2>12, <2>13, SameRulesSound, RuleCallsKept
<1>8. ASSUME NEW ok \in BOOLEAN, RulesReleased(ok)
      PROVE  RuleCallsSound' /\ RulesSound(page')
  <2>1. PICK again : again = (ok /\ page.vcnId # None)
    OBVIOUS
  <2>2. PICK p : p = IF ok THEN RulesLoad(page) ELSE page
    OBVIOUS
  <2>3. RulesSound(p)
    BY <2>2, RulesLoadSound
  <2>5. PICK rs : rs = IF again THEN RulesRequest(page, "rules") ELSE {}
    OBVIOUS
  <2>7. (\E r : SettledBy(SecurityRules, r, rs)) /\ page' = [p EXCEPT !.loading = again]
    BY <1>8, <2>1, <2>2, <2>5 DEF RulesReleased
  <2>8. SameRules(p, page')
    BY <2>3, <2>7 DEF RulesSound, SameRules, RuleFields
  <2>10. \A e \in rs : IsRequest(e) /\ RuleRequestSound(e)
    BY <1>s, <2>5 DEF RuleLists
  <2> QED
    BY <2>3, <2>7, <2>8, <2>10, SameRulesSound, RuleCallsKept
<1> QED
  BY <1>1, <1>2, <1>3, <1>4, <1>5, <1>6, <1>7, <1>8, RulesClicks DEF RulesAnswers

LEMMA RulesInitSound == RulesInit => RuleCallsSound /\ RulesSound(page)
<1> SUFFICES ASSUME RulesInit PROVE RuleCallsSound /\ RulesSound(page)
  OBVIOUS
<1>1. RulesSound(page)
  BY DEF RulesInit, Opens, RulesSound, ChoiceSound, RuleFields
<1>2. PICK q : q = Request("tenants", None, None)
  OBVIOUS
<1>3. IsRequest(q) /\ RuleRequestSound(q)
  BY <1>2, RequestFields DEF RuleRequestSound, RuleLists, RuleWrites
<1>4. calls = SetToBag({q})
  BY <1>2 DEF RulesInit
<1> QED
  BY <1>1, <1>3, <1>4 DEF RuleCallsSound, CallsSound, SetToBag, IsABag

-----------------------------------------------------------------------------
(* The addresses of PublicIPs.vue                                           *)

AddressFields == {"view", "tenantId", "ips", "loading", "stale"}

\* The rows are the tenant's, or are being replaced and cannot be deleted.
AddressesSound(p) ==
    /\ p.view = PublicIPs /\ AddressFields \subseteq DOMAIN p
    /\ p.stale \in BOOLEAN /\ p.loading \in BOOLEAN
    /\ p.stale \/ p.loading \/ p.ips \in {None, p.tenantId}

AddressRequestSound(q) == q.op = "deleteIP" => q.arg.stale \/ q.arg.row = q.key

AddressCallsSound == CallsSound /\ \A q \in DOMAIN calls : AddressRequestSound(q)

LEMMA AddressCallsKept ==
    ASSUME AddressCallsSound, NEW rs, \A q \in rs : IsRequest(q) /\ AddressRequestSound(q),
           SendsNothing \/ Sends(rs) \/ \E view, r : SettledBy(view, r, rs)
    PROVE  AddressCallsSound'
<1>1. CallsSound' /\ \A q \in DOMAIN calls' : q \in rs \/ q \in DOMAIN calls
  <2>1. CASE Sends(rs)
    BY <2>1, SentCalls DEF AddressCallsSound, CallsSound
  <2>2. CASE \E view, r : SettledBy(view, r, rs)
    BY <2>2, SettledCalls DEF AddressCallsSound, CallsSound
  <2>3. CASE SendsNothing
    BY <2>3 DEF SendsNothing, AddressCallsSound, CallsSound
  <2> QED
    BY <2>1, <2>2, <2>3
<1> QED
  BY <1>1 DEF AddressCallsSound, AddressRequestSound

SameAddresses(p, q) == DOMAIN q = DOMAIN p /\ \A f \in AddressFields : q[f] = p[f]

LEMMA SameAddressesSound ==
    ASSUME NEW p, NEW q, AddressesSound(p), SameAddresses(p, q)
    PROVE  AddressesSound(q)
BY DEF AddressesSound, SameAddresses, AddressFields

LEMMA PlainAddressRequest ==
    ASSUME NEW op, op # "deleteIP", NEW key, NEW arg
    PROVE  IsRequest(Request(op, key, arg)) /\ AddressRequestSound(Request(op, key, arg))
BY RequestFields DEF AddressRequestSound

LEMMA IPsListedSound ==
    ASSUME NEW p, AddressesSound(p), NEW t, NEW ok \in BOOLEAN
    PROVE  AddressesSound(IPsListed(p, t, ok))
<1>1. PICK late : late = (p.stale \/ (ok /\ t # p.tenantId))
  OBVIOUS
<1>2. PICK ips : ips = IF ok THEN t ELSE None
  OBVIOUS
<1>3. PICK q : q = [p EXCEPT !.loading = FALSE, !.ips = ips, !.stale = late]
  OBVIOUS
<1>4. IPsListed(p, t, ok) = q
  BY <1>1, <1>2, <1>3 DEF IPsListed
<1>5. late \in BOOLEAN /\ (~late => ips \in {None, p.tenantId})
  BY <1>1, <1>2 DEF AddressesSound
<1>6. AddressesSound(q)
  BY <1>3, <1>5 DEF AddressesSound, AddressFields
<1> QED
  BY <1>4, <1>6

LEMMA ReloadsIPsSound ==
    ASSUME NEW p, AddressesSound(p)
    PROVE  AddressesSound(ReloadsIPs(p))
<1>1. CASE p.tenantId = None
  BY <1>1 DEF ReloadsIPs, AddressesSound, AddressFields
<1>2. CASE p.tenantId # None
  BY <1>2 DEF ReloadsIPs, AddressesSound, AddressFields
<1> QED
  BY <1>1, <1>2

\* Clicks that send requests of which none deletes, or nothing.
LEMMA AddressClicks ==
    ASSUME AddressCallsSound, AddressesSound(page),
           \/ \E t \in Keys : PublicIPsTenantChange(t)
           \/ PublicIPsTenantClear
           \/ \E open \in BOOLEAN : PublicIPsDialog(open)
           \/ PublicIPsHandleReserve \/ PublicIPsHandleDelete
           \/ PublicIPsPickInstance \/ PublicIPsHandleReplace
    PROVE  AddressCallsSound' /\ AddressesSound(page')
<1>n. PICK none : none = {}
  OBVIOUS
<1>f. AddressFields \subseteq DOMAIN page /\ page.stale \in BOOLEAN /\ page.loading \in BOOLEAN
  BY DEF AddressesSound
<1>1. ASSUME NEW t \in Keys, PublicIPsTenantChange(t)
      PROVE  AddressCallsSound' /\ AddressesSound(page')
  <2>1. PICK rs : rs = {Request("publicIPs", t, None), Request("instances", t, None)}
    OBVIOUS
  <2>2. \A q \in rs : IsRequest(q) /\ AddressRequestSound(q)
    BY <2>1, PlainAddressRequest
  <2>3. Sends(rs) /\ page' = [page EXCEPT !.tenantId = t, !.loading = TRUE, !.stale = FALSE]
    BY <1>1, <2>1 DEF PublicIPsTenantChange
  <2>4. AddressesSound(page')
    BY <2>3 DEF AddressesSound, AddressFields
  <2> QED
    BY <2>2, <2>3, <2>4, AddressCallsKept
<1>2. ASSUME NEW open \in BOOLEAN, PublicIPsDialog(open) \/ PublicIPsPickInstance
      PROVE  AddressCallsSound' /\ AddressesSound(page')
  <2>1. /\ SendsNothing
        /\ page' = [page EXCEPT !.dialog = open] \/ page' = [page EXCEPT !.instanceId = page.instances]
    BY <1>2 DEF PublicIPsDialog, PublicIPsPickInstance
  <2>2. SameAddresses(page, page')
    BY <1>f, <2>1 DEF SameAddresses, AddressFields
  <2> QED
    BY <1>n, <2>1, <2>2, SameAddressesSound, AddressCallsKept
<1>3. CASE PublicIPsHandleReserve \/ PublicIPsHandleReplace
  <2>1. PICK rs : /\ Sends(rs) /\ \A q \in rs : IsRequest(q) /\ AddressRequestSound(q)
                  /\ page' = [page EXCEPT !.reserving = TRUE] \/ page' = [page EXCEPT !.replacing = TRUE]
    BY <1>3, PlainAddressRequest DEF PublicIPsHandleReserve, PublicIPsHandleReplace
  <2>2. SameAddresses(page, page')
    BY <1>f, <2>1 DEF SameAddresses, AddressFields
  <2> QED
    BY <2>1, <2>2, SameAddressesSound, AddressCallsKept
<1>4. CASE PublicIPsHandleDelete
  <2>1. PICK q : q = Request("deleteIP", page.tenantId, [row |-> page.ips, stale |-> page.stale])
    OBVIOUS
  <2>2. /\ IsRequest(q) /\ q.key = page.tenantId /\ q.arg = [row |-> page.ips, stale |-> page.stale]
    BY <2>1, RequestFields
  <2>3. /\ Sends({q}) /\ ~page.loading /\ page.ips # None
        /\ page' = [page EXCEPT !.deleting = page.ips]
    BY <1>4, <2>1 DEF PublicIPsHandleDelete
  <2>4. AddressRequestSound(q)
    BY <2>2, <2>3 DEF AddressRequestSound, AddressesSound
  <2>5. PICK rs : rs = {q}
    OBVIOUS
  <2>6. SameAddresses(page, page')
    BY <1>f, <2>3 DEF SameAddresses, AddressFields
  <2> QED
    BY <2>2, <2>3, <2>4, <2>5, <2>6, SameAddressesSound, AddressCallsKept
<1>5. CASE PublicIPsTenantClear
  <2>1. SendsNothing /\ AddressesSound(page')
    BY <1>5 DEF PublicIPsTenantClear, AddressesSound, AddressFields
  <2> QED
    BY <1>n, <2>1, AddressCallsKept
<1> QED
  BY <1>1, <1>2, <1>3, <1>4, <1>5

LEMMA AddressAnswers ==
    ASSUME AddressCallsSound, AddressesSound(page), PublicIPsAnswers
    PROVE  AddressCallsSound' /\ AddressesSound(page')
<1>n. PICK none : none = {}
  OBVIOUS
<1>f. AddressFields \subseteq DOMAIN page /\ page.stale \in BOOLEAN /\ page.loading \in BOOLEAN
  BY DEF AddressesSound
<1>l. ASSUME NEW op, op # "deleteIP"
      PROVE  \A q \in IPsOf(page, op) : IsRequest(q) /\ AddressRequestSound(q)
  BY <1>l, PlainAddressRequest DEF IPsOf
<1>1. ASSUME NEW ok \in BOOLEAN, NetworkTenants(PublicIPs, ok) \/ PublicIPsInstances(ok)
      PROVE  AddressCallsSound' /\ AddressesSound(page')
  <2>1. PICK b, i : /\ \E r : SettledBy(PublicIPs, r, none)
                    /\ page' = [page EXCEPT !.tenants = b] \/ page' = [page EXCEPT !.instances = i]
    BY <1>n, <1>1 DEF NetworkTenants, PublicIPsInstances
  <2>2. SameAddresses(page, page')
    BY <1>f, <2>1 DEF SameAddresses, AddressFields
  <2> QED
    BY <1>n, <2>1, <2>2, SameAddressesSound, AddressCallsKept
<1>2. ASSUME NEW op, NEW ok \in BOOLEAN, PublicIPsLoaded(op, ok)
      PROVE  AddressCallsSound' /\ AddressesSound(page')
  <2>1. PICK r : /\ SettledBy(PublicIPs, r, none)
                 /\ page' = [IPsListed(page, r.key, ok) EXCEPT
                                 !.reserving = @ /\ op # "ipsOfReserve",
                                 !.replacing = @ /\ op # "ipsOfReplace",
                                 !.deleting = IF op = "ipsOfDelete" THEN None ELSE @]
    BY <1>n, <1>2 DEF PublicIPsLoaded
  <2>2. PICK p : p = IPsListed(page, r.key, ok)
    OBVIOUS
  <2>3. PICK a, b, c : /\ a = (p.reserving /\ op # "ipsOfReserve")
                       /\ b = (p.replacing /\ op # "ipsOfReplace")
                       /\ c = IF op = "ipsOfDelete" THEN None ELSE p.deleting
    OBVIOUS
  <2>4. page' = [p EXCEPT !.reserving = a, !.replacing = b, !.deleting = c]
    BY <2>1, <2>2, <2>3
  <2>5. AddressesSound(p)
    BY <2>2, IPsListedSound
  <2>6. SameAddresses(p, page')
    BY <2>4, <2>5 DEF SameAddresses, AddressFields, AddressesSound
  <2> QED
    BY <1>n, <2>1, <2>5, <2>6, SameAddressesSound, AddressCallsKept
<1>3. ASSUME NEW p, AddressesSound(p), NEW a, NEW b, NEW c, NEW rs,
             \A q \in rs : IsRequest(q) /\ AddressRequestSound(q),
             \E r : SettledBy(PublicIPs, r, rs),
             \/ page' = [p EXCEPT !.reserving = a, !.dialog = b]
             \/ page' = [p EXCEPT !.deleting = c]
             \/ page' = [p EXCEPT !.replacing = a, !.instanceId = b, !.instances = c]
             \/ page' = [p EXCEPT !.instances = c, !.replacing = a]
      PROVE  AddressCallsSound' /\ AddressesSound(page')
  <2>1. SameAddresses(p, page')
    BY <1>3 DEF SameAddresses, AddressFields, AddressesSound
  <2> QED
    BY <1>3, <2>1, SameAddressesSound, AddressCallsKept
<1>r. ASSUME NEW again \in BOOLEAN
      PROVE  AddressesSound(IF again THEN ReloadsIPs(page) ELSE page)
  BY ReloadsIPsSound
<1>4. ASSUME NEW ok \in BOOLEAN, PublicIPsReserved(ok)
      PROVE  AddressCallsSound' /\ AddressesSound(page')
  <2>1. PICK rs : rs = IF ok THEN IPsOf(page, "ipsOfReserve") ELSE {}
    OBVIOUS
  <2>2. \A q \in rs : IsRequest(q) /\ AddressRequestSound(q)
    BY <1>l, <2>1
  <2>3. PICK p : p = IF ok THEN ReloadsIPs(page) ELSE page
    OBVIOUS
  <2>4. PICK a, b : a = (ok /\ page.tenantId # None) /\ b = (p.dialog /\ ~ok)
    OBVIOUS
  <2>5. (\E r : SettledBy(PublicIPs, r, rs)) /\ page' = [p EXCEPT !.reserving = a, !.dialog = b]
    BY <1>4, <2>1, <2>3, <2>4 DEF PublicIPsReserved
  <2> QED
    BY <1>3, <1>r, <2>2, <2>3, <2>5
<1>5. ASSUME NEW ok \in BOOLEAN, PublicIPsDeleted(ok)
      PROVE  AddressCallsSound' /\ AddressesSound(page')
  <2>1. PICK rs : rs = IF ok THEN IPsOf(page, "ipsOfDelete") ELSE {}
    OBVIOUS
  <2>2. \A q \in rs : IsRequest(q) /\ AddressRequestSound(q)
    BY <1>l, <2>1
  <2>3. PICK p : p = IF ok THEN ReloadsIPs(page) ELSE page
    OBVIOUS
  <2>4. PICK c : c = IF ok /\ page.tenantId # None THEN p.deleting ELSE None
    OBVIOUS
  <2>5. (\E r : SettledBy(PublicIPs, r, rs)) /\ page' = [p EXCEPT !.deleting = c]
    BY <1>5, <2>1, <2>3, <2>4 DEF PublicIPsDeleted
  <2> QED
    BY <1>3, <1>r, <2>2, <2>3, <2>5
<1>6. ASSUME NEW ok \in BOOLEAN, PublicIPsReplaced(ok)
      PROVE  AddressCallsSound' /\ AddressesSound(page')
  <2>1. PICK again \in BOOLEAN : again = (ok /\ page.tenantId # None)
    OBVIOUS
  <2>2. PICK rs : rs = IF again THEN {Request("instancesOfReplace", page.tenantId, None)} ELSE {}
    OBVIOUS
  <2>3. \A q \in rs : IsRequest(q) /\ AddressRequestSound(q)
    BY <2>2, PlainAddressRequest
  <2>4. PICK p : p = IF ok /\ ~again THEN ReloadsIPs(page) ELSE page
    OBVIOUS
  <2>5. PICK b, c : /\ b = IF ok THEN None ELSE p.instanceId
                    /\ c = IF ok /\ ~again THEN None ELSE p.instances
    OBVIOUS
  <2>6. /\ \E r : SettledBy(PublicIPs, r, rs)
        /\ page' = [p EXCEPT !.replacing = again, !.instanceId = b, !.instances = c]
    BY <1>6, <2>1, <2>2, <2>4, <2>5 DEF PublicIPsReplaced
  <2>7. AddressesSound(p)
    BY <1>r, <2>4
  <2> QED
    BY <1>3, <2>3, <2>6, <2>7
<1>7. ASSUME NEW ok \in BOOLEAN, PublicIPsReplaceLoaded(ok)
      PROVE  AddressCallsSound' /\ AddressesSound(page')
  <2>1. PICK rs : rs = IPsOf(page, "ipsOfReplace")
    OBVIOUS
  <2>2. \A q \in rs : IsRequest(q) /\ AddressRequestSound(q)
    BY <1>l, <2>1
  <2>3. PICK p : p = ReloadsIPs(page)
    OBVIOUS
  <2>4. PICK r : /\ SettledBy(PublicIPs, r, rs)
                 /\ page' = [p EXCEPT !.instances = IF ok THEN r.key ELSE None,
                                      !.replacing = @ /\ page.tenantId # None]
    BY <1>7, <2>1, <2>3 DEF PublicIPsReplaceLoaded
  <2>5. PICK a, c : a = (p.replacing /\ page.tenantId # None) /\ c = IF ok THEN r.key ELSE None
    OBVIOUS
  <2>6. page' = [p EXCEPT !.instances = c, !.replacing = a]
    BY <2>4, <2>5
  <2>7. AddressesSound(p) /\ \E q : SettledBy(PublicIPs, q, rs)
    BY <2>3, <2>4, ReloadsIPsSound
  <2> QED
    BY <1>3, <2>2, <2>6, <2>7
<1> QED
  BY <1>1, <1>2, <1>4, <1>5, <1>6, <1>7 DEF PublicIPsAnswers

LEMMA PublicIPsInitSound == PublicIPsInit => AddressCallsSound /\ AddressesSound(page)
<1> SUFFICES ASSUME PublicIPsInit PROVE AddressCallsSound /\ AddressesSound(page)
  OBVIOUS
<1>1. AddressesSound(page)
  BY DEF PublicIPsInit, Opens, AddressesSound, AddressFields
<1>2. PICK q : q = Request("tenants", None, None)
  OBVIOUS
<1>3. IsRequest(q) /\ AddressRequestSound(q)
  BY <1>2, RequestFields DEF AddressRequestSound
<1>4. calls = SetToBag({q})
  BY <1>2 DEF PublicIPsInit
<1> QED
  BY <1>1, <1>3, <1>4 DEF AddressCallsSound, CallsSound, SetToBag, IsABag

-----------------------------------------------------------------------------
(* All the tables                                                           *)

TablesInit == CloudflareInit \/ RulesInit \/ PublicIPsInit

TablesNext ==
    \/ At(Cloudflare) /\ CloudflareNext
    \/ At(SecurityRules) /\ RulesNext
    \/ At(PublicIPs) /\ PublicIPsNext

TablesSpec == TablesInit /\ [][TablesNext]_vars

TablesInv ==
    \/ RecordsInv
    \/ RuleCallsSound /\ RulesSound(page)
    \/ AddressCallsSound /\ AddressesSound(page)

LEMMA TablesApart ==
    /\ RecordSound(page) => page.view = Cloudflare
    /\ RulesSound(page) => page.view = SecurityRules
    /\ AddressesSound(page) => page.view = PublicIPs
    /\ Cloudflare # SecurityRules /\ Cloudflare # PublicIPs /\ SecurityRules # PublicIPs
BY DEF RecordSound, RulesSound, AddressesSound, Cloudflare, SecurityRules, PublicIPs

\* What is changed or deleted by a row of a table, a DNS record, a security rule or a
\* public address, is changed where the row was listed and with the tenant or the
\* configuration it was listed for, until a late answer puts another one's rows in the
\* table: for any of them, and however often they are chosen anew.
THEOREM TablesMatch == TablesSpec => []WrittenWhereListed
<1>1. TablesInit => TablesInv
  BY RecordsInitSound, RulesInitSound, PublicIPsInitSound DEF TablesInit, TablesInv
<1>2. TablesInv /\ [TablesNext]_vars => TablesInv'
  <2> SUFFICES ASSUME TablesInv, [TablesNext]_vars PROVE TablesInv'
    OBVIOUS
  <2>1. CASE RecordsInv
    BY <2>1, TablesApart, RecordsStep DEF TablesNext, TablesInv, RecordsInv, At
  <2>2. CASE RuleCallsSound /\ RulesSound(page)
    <3>1. UNCHANGED vars => (RuleCallsSound /\ RulesSound(page))'
      BY <2>2 DEF vars, RuleCallsSound, CallsSound
    <3>2. RulesNext => (RuleCallsSound /\ RulesSound(page))'
      BY <2>2, RulesClicks, RulesAnswered DEF RulesNext
    <3> QED
      BY <2>2, <3>1, <3>2, TablesApart DEF TablesNext, TablesInv, At
  <2>3. CASE AddressCallsSound /\ AddressesSound(page)
    <3>1. UNCHANGED vars => (AddressCallsSound /\ AddressesSound(page))'
      BY <2>3 DEF vars, AddressCallsSound, CallsSound
    <3>2. PublicIPsNext => (AddressCallsSound /\ AddressesSound(page))'
      BY <2>3, AddressClicks, AddressAnswers DEF PublicIPsNext
    <3> QED
      BY <2>3, <3>1, <3>2, TablesApart DEF TablesNext, TablesInv, At
  <2> QED
    BY <2>1, <2>2, <2>3 DEF TablesInv
<1>3. TablesInv => WrittenWhereListed
  <2>1. RecordsInv => WrittenWhereListed
    BY TablesApart DEF RecordsInv, RecordsSound, RecordOps, RecordOfZone, InFlight, BagToSet,
       WrittenWhereListed, RowOfChoice
  <2>2. RuleCallsSound /\ RulesSound(page) => WrittenWhereListed
    BY TablesApart DEF RuleCallsSound, RuleRequestSound, RuleWrites, InFlight, BagToSet,
       WrittenWhereListed, RowOfChoice, RecordOfZone
  <2>3. AddressCallsSound /\ AddressesSound(page) => WrittenWhereListed
    BY TablesApart DEF AddressCallsSound, AddressRequestSound, InFlight, BagToSet,
       WrittenWhereListed, RowOfChoice, RecordOfZone
  <2> QED
    BY <2>1, <2>2, <2>3 DEF TablesInv
<1> QED
  BY <1>1, <1>2, <1>3, PTL DEF TablesSpec

=============================================================================
