------------------------------ MODULE TenantViews ------------------------------
(***************************************************************************)
(* The pages of the tenants and the users: Tenants.vue, TenantDetail.vue    *)
(* and Users.vue.  The list and the dialogs of Tenants.vue share nothing    *)
(* and are views of their own.  Keys are tenants, key files or users.       *)
(***************************************************************************)
EXTENDS Browser, FiniteSets

Tenants == "Tenants"
TenantForm == "TenantForm"
TenantDetail == "TenantDetail"
Users == "Users"

-----------------------------------------------------------------------------
(* Tenants.vue: the list                                                    *)

\* no: the page of the list asked for, shown: the one in the table (0: none).
TenantsInit ==
    /\ Opens([view |-> Tenants, no |-> 1, shown |-> 0, searching |-> FALSE, loading |-> TRUE,
              box |-> None, syncing |-> None, alive |-> None, refreshing |-> FALSE])
    /\ calls = SetToBag({Request("list", 1, None)})

TenantsLoad(p) == [p EXCEPT !.loading = TRUE]

TenantsListed(ok) == \E r \in InFlight("list") :
    /\ SettledBy(Tenants, r, {})
    /\ page' = [page EXCEPT !.loading = FALSE, !.shown = IF ok THEN r.key ELSE 0]

TenantsSearch ==
    /\ Click(Tenants) /\ page.box = None
    /\ page' = [page EXCEPT !.no = 1, !.searching = TRUE]
    /\ SendsNothing

TenantsSearchTimer ==
    /\ At(Tenants) /\ page.searching
    /\ page' = TenantsLoad([page EXCEPT !.searching = FALSE])
    /\ Sends({Request("list", page.no, None)})
    /\ UNCHANGED clicks

TenantsPage(no) ==
    /\ Click(Tenants) /\ page.box = None /\ page.shown # 0 /\ no # page.no
    /\ page' = TenantsLoad([page EXCEPT !.no = no])
    /\ Sends({Request("list", no, None)})

\* A row is there to act on when nothing covers the table.
TenantsFree == page.box = None /\ page.shown # 0 /\ ~page.loading

\* handleDelete: the dialog of the confirmation is open until it is answered.
TenantsAskDelete(t) ==
    /\ Click(Tenants) /\ TenantsFree
    /\ page' = [page EXCEPT !.box = t]
    /\ SendsNothing

TenantsDelete(sure) ==
    /\ Click(Tenants) /\ page.box # None
    /\ page' = [page EXCEPT !.box = None]
    /\ Sends(IF sure THEN {Request("delete", page.box, None)} ELSE {})

\* Mutation of SyncFree, used only to test the properties.
SyncFree_OwnRow(p, t) == p.syncing # t

\* While one tenant is synchronised the buttons of all are blocked.
SyncFree(p, t) == p.syncing = None

TenantsSync(t) ==
    /\ Click(Tenants) /\ TenantsFree /\ SyncFree(page, t)
    /\ page' = [page EXCEPT !.syncing = t]
    /\ Sends({Request("sync", t, None)})

\* A check blocks only the button of its own row, and the last one asked shows it.
TenantsCheckAlive(t) ==
    /\ Click(Tenants) /\ TenantsFree /\ page.alive # t
    /\ page' = [page EXCEPT !.alive = t]
    /\ Sends({Request("alive", t, None)})

TenantsRefreshPlans ==
    /\ Click(Tenants) /\ page.box = None /\ page.shown # 0 /\ ~page.refreshing
    /\ page' = [page EXCEPT !.refreshing = TRUE]
    /\ Sends({Request("plans", None, None)})

\* What every one of these operations does in the end.
TenantsActed(op, ok) == \E r \in InFlight(op) :
    LET p == IF ok THEN TenantsLoad(page) ELSE page
    IN  /\ SettledBy(Tenants, r, IF ok THEN {Request("list", page.no, None)} ELSE {})
        /\ page' = CASE op = "delete" -> p
                     [] op = "sync" -> [p EXCEPT !.syncing = None]
                     [] op = "alive" -> [p EXCEPT !.alive = None]
                     [] op = "plans" -> [p EXCEPT !.refreshing = FALSE]

TenantsAnswers ==
    \/ \E ok \in BOOLEAN :
          \/ TenantsListed(ok)
          \/ \E op \in {"delete", "sync", "alive", "plans"} : TenantsActed(op, ok)
    \/ TenantsSearchTimer

TenantsNext ==
    \/ \E t \in Keys : TenantsAskDelete(t) \/ TenantsSync(t) \/ TenantsCheckAlive(t)
    \/ \E sure \in BOOLEAN : TenantsDelete(sure)
    \/ \E no \in 1..2 : TenantsPage(no)
    \/ TenantsSearch \/ TenantsRefreshPlans
    \/ TenantsAnswers

-----------------------------------------------------------------------------
(* Tenants.vue: the dialogs that add tenants                                *)

\* keys: the key files listed; stored: those the server has; keyFile: the one of the
\* form; picked observes what the user picked since the dialog was opened, opening how
\* often it was, and late that an upload outlived the dialog it was started in.
TenantFormInit ==
    /\ Opens([view |-> TenantForm, dialog |-> FALSE, opening |-> 0, keys |-> {}, stored |-> {},
              keyFile |-> None, picked |-> {}, saving |-> FALSE, batch |-> FALSE,
              batchSaving |-> FALSE, late |-> FALSE])
    /\ calls = EmptyBag

\* Mutation of TenantFormOpened, used only to test the properties.
TenantFormOpened_KeepsKey(p) ==
    [p EXCEPT !.dialog = TRUE, !.opening = @ + 1, !.picked = {}, !.late = FALSE]

TenantFormOpened(p) ==
    [p EXCEPT !.dialog = TRUE, !.opening = @ + 1, !.keyFile = None, !.picked = {}, !.late = FALSE]

TenantFormAdd ==
    /\ Click(TenantForm) /\ ~page.dialog /\ ~page.batch
    /\ page' = TenantFormOpened(page)
    /\ Sends({Request("keys", None, None)})

TenantFormClose ==
    /\ Click(TenantForm) /\ page.dialog
    /\ page' = [page EXCEPT !.dialog = FALSE]
    /\ SendsNothing

TenantFormKeys(ok) == \E r \in InFlight("keys") :
    /\ SettledBy(TenantForm, r, {})
    /\ page' = [page EXCEPT !.keys = IF ok THEN page.stored ELSE {}]

\* parseConfig: a key_file line empties the key (and then the handler ends in an error).
TenantFormParse ==
    /\ Click(TenantForm) /\ page.dialog /\ page.keyFile # None
    /\ page' = [page EXCEPT !.keyFile = None]
    /\ SendsNothing

TenantFormSelect(k) ==
    /\ Click(TenantForm) /\ page.dialog /\ k \in page.keys \ {page.keyFile}
    /\ page' = [page EXCEPT !.keyFile = k, !.picked = @ \union {k}]
    /\ SendsNothing

\* uploadKeyFile, from the file picker or dropped on the zone.
TenantFormPick(k) ==
    /\ Click(TenantForm) /\ page.dialog
    /\ page' = [page EXCEPT !.picked = @ \union {k}]
    /\ Sends({Request("upload", k, page.opening)})

\* What is saved becomes the key of the form; naming it ends in an error (t.value is
\* not a function there), so that only an answer without a saved file lists the keys.
TenantFormUploaded(ok, saved) == \E r \in InFlight("upload") :
    /\ saved => ok
    /\ SettledBy(TenantForm, r, IF ok /\ ~saved THEN {Request("keys", None, None)} ELSE {})
    /\ page' = IF ~saved THEN page
               ELSE [page EXCEPT !.stored = @ \union {r.key}, !.keyFile = r.key,
                                 !.late = @ \/ r.arg # page.opening]

\* onBatchKeysPicked stores files for later use and lists them.
TenantFormPickBatch ==
    /\ Click(TenantForm) /\ page.dialog
    /\ page' = page
    /\ Sends({Request("uploadBatch", None, None)})

TenantFormBatchUploaded(ok) == \E r \in InFlight("uploadBatch") :
    /\ SettledBy(TenantForm, r, IF ok THEN {Request("keys", None, None)} ELSE {})
    /\ page' = IF ok THEN [page EXCEPT !.stored = Keys] ELSE page

TenantFormSave ==
    /\ Click(TenantForm) /\ page.dialog /\ ~page.saving /\ page.keyFile # None
    /\ page' = [page EXCEPT !.saving = TRUE]
    /\ Sends({Request("create", page.keyFile, page.opening)})

\* Of loadTenants, which follows, the list is told in the view Tenants.
TenantFormSaved(ok) == \E r \in InFlight("create") :
    /\ SettledBy(TenantForm, r, {})
    /\ page' = [page EXCEPT !.saving = FALSE, !.dialog = @ /\ ~ok]

TenantFormBatch(open) ==
    /\ Click(TenantForm) /\ page.batch = ~open /\ (open => ~page.dialog)
    /\ page' = [page EXCEPT !.batch = open]
    /\ SendsNothing

TenantFormSubmitBatch ==
    /\ Click(TenantForm) /\ page.batch /\ ~page.batchSaving
    /\ page' = [page EXCEPT !.batchSaving = TRUE]
    /\ Sends({Request("import", None, None)})

TenantFormImported == \E r \in InFlight("import") :
    /\ SettledBy(TenantForm, r, {})
    /\ page' = [page EXCEPT !.batchSaving = FALSE]

TenantFormAnswers ==
    \/ \E ok \in BOOLEAN :
          \/ TenantFormKeys(ok) \/ TenantFormBatchUploaded(ok) \/ TenantFormSaved(ok)
          \/ \E saved \in BOOLEAN : TenantFormUploaded(ok, saved)
    \/ TenantFormImported

TenantFormNext ==
    \/ \E k \in Keys : TenantFormSelect(k) \/ TenantFormPick(k)
    \/ \E open \in BOOLEAN : TenantFormBatch(open)
    \/ TenantFormAdd \/ TenantFormClose \/ TenantFormParse \/ TenantFormPickBatch
    \/ TenantFormSave \/ TenantFormSubmitBatch
    \/ TenantFormAnswers

-----------------------------------------------------------------------------
(* TenantDetail.vue                                                         *)

UserOps == {"mfa", "apiKeys", "deleteUser"}

\* known: nothing, the basic data, or all of it is shown; edited: the password policy
\* was typed and not saved; acting: the label all operations share.
TenantDetailInit ==
    /\ Opens([view |-> TenantDetail, known |-> "nothing", loading |-> TRUE, box |-> None,
              resetUser |-> None, dialog |-> FALSE, edited |-> FALSE, acting |-> None])
    /\ calls = SetToBag({Request("info", None, None)})

\* Promise.all of the information and the instances, with the basic data to fall back on.
TenantDetailLoaded(ok) == \E r \in InFlight("info") :
    /\ SettledBy(TenantDetail, r, IF ok THEN {} ELSE {Request("basic", None, None)})
    /\ page' = IF ok THEN [page EXCEPT !.known = "all", !.loading = FALSE] ELSE page

TenantDetailBasic(ok) == \E r \in InFlight("basic") :
    /\ SettledBy(TenantDetail, r, {})
    /\ page' = [page EXCEPT !.known = IF ok THEN "basic" ELSE @, !.loading = FALSE]

\* refreshInfo: what was typed and not saved is replaced too.
TenantDetailRefreshed(ok) == \E r \in InFlight("refresh") :
    /\ SettledBy(TenantDetail, r, {})
    /\ page' = IF ok THEN [page EXCEPT !.edited = FALSE] ELSE page

\* The users come with all the data; the password policy is offered with the basic data
\* too (v-if="!loading && tenant.id").
TenantDetailOpen(p) == p.known # "nothing" /\ p.box = None /\ ~p.dialog
TenantDetailFree(p) == p.known = "all" /\ TenantDetailOpen(p)

TenantDetailAsk(op, user) ==
    /\ Click(TenantDetail) /\ TenantDetailFree(page) /\ page.acting # op
    /\ page' = [page EXCEPT !.box = [op |-> op, user |-> user]]
    /\ SendsNothing

TenantDetailConfirm(sure) ==
    /\ Click(TenantDetail) /\ page.box # None
    /\ page' = [page EXCEPT !.box = None, !.acting = IF sure THEN page.box.op ELSE @]
    /\ Sends(IF sure THEN {Request(page.box.op, page.box.user, None)} ELSE {})

\* Mutation of TenantDetailActed, used only to test the properties.
TenantDetailActed_OnSuccess(p, op, ok) == IF ok THEN [p EXCEPT !.acting = None] ELSE p

\* The label is taken away, whichever operation put it there.
TenantDetailActed(p, op, ok) ==
    [p EXCEPT !.acting = None, !.dialog = @ /\ ~(op = "reset" /\ ok),
              !.edited = @ /\ ~(op = "policy" /\ ok)]

TenantDetailDone(op, ok) == \E r \in InFlight(op) :
    /\ SettledBy(TenantDetail, r,
          IF ok /\ op \in UserOps THEN {Request("refresh", None, None)} ELSE {})
    /\ page' = TenantDetailActed(page, op, ok)

TenantDetailOpenReset(user) ==
    /\ Click(TenantDetail) /\ TenantDetailFree(page) /\ page.acting # "reset"
    /\ page' = [page EXCEPT !.resetUser = user, !.dialog = TRUE]
    /\ SendsNothing

TenantDetailCloseReset ==
    /\ Click(TenantDetail) /\ page.dialog
    /\ page' = [page EXCEPT !.dialog = FALSE]
    /\ SendsNothing

\* By the button, or by Enter in the field, which a reset under way does not block.
TenantDetailReset ==
    /\ Click(TenantDetail) /\ page.dialog
    /\ page' = [page EXCEPT !.acting = "reset"]
    /\ Sends({Request("reset", page.resetUser, None)})

TenantDetailEditPolicy ==
    /\ Click(TenantDetail) /\ TenantDetailOpen(page) /\ ~page.edited
    /\ page' = [page EXCEPT !.edited = TRUE]
    /\ SendsNothing

TenantDetailSavePolicy ==
    /\ Click(TenantDetail) /\ TenantDetailOpen(page) /\ page.acting # "policy"
    /\ page' = [page EXCEPT !.acting = "policy"]
    /\ Sends({Request("policy", None, None)})

TenantDetailAnswers == \E ok \in BOOLEAN :
    \/ TenantDetailLoaded(ok) \/ TenantDetailBasic(ok) \/ TenantDetailRefreshed(ok)
    \/ \E op \in UserOps \union {"reset", "policy"} : TenantDetailDone(op, ok)

TenantDetailNext ==
    \/ \E u \in Keys : TenantDetailOpenReset(u) \/ \E op \in UserOps : TenantDetailAsk(op, u)
    \/ \E sure \in BOOLEAN : TenantDetailConfirm(sure)
    \/ TenantDetailCloseReset \/ TenantDetailReset
    \/ TenantDetailEditPolicy \/ TenantDetailSavePolicy
    \/ TenantDetailAnswers

-----------------------------------------------------------------------------
(* Users.vue                                                                *)

\* users: the administrators shown; admins: those the server has.  overlapped observes
\* that a deletion was counted while another one was between its count and its DELETE,
\* unread that the administrators could not be listed when they were to be counted.
UsersInit ==
    /\ Opens([view |-> Users, users |-> {}, admins |-> Keys, loading |-> TRUE, box |-> None,
              dialog |-> FALSE, saving |-> FALSE, target |-> None, resetting |-> FALSE,
              overlapped |-> FALSE, unread |-> FALSE])
    /\ calls = SetToBag({Request("users", None, None)})

\* The server reads its administrators; the answer is still to come.
UsersRead == \E r \in InFlight("users") :
    /\ SettledBy(Users, r, {Request("usersRead", page.admins, None)})
    /\ page' = page

UsersLoaded(ok) == \E r \in InFlight("usersRead") :
    /\ SettledBy(Users, r, {})
    /\ page' = [page EXCEPT !.loading = FALSE, !.users = IF ok THEN r.key ELSE {}]

UsersFree == page.box = None /\ ~page.dialog /\ page.target = None

UsersDialog(open) ==
    /\ Click(Users) /\ page.dialog = ~open /\ (open => UsersFree)
    /\ page' = [page EXCEPT !.dialog = open]
    /\ SendsNothing

UsersSave ==
    /\ Click(Users) /\ page.dialog /\ ~page.saving
    /\ page' = [page EXCEPT !.saving = TRUE]
    /\ Sends({Request("createUser", None, None)})

UsersSaved(ok) == \E r \in InFlight("createUser") :
    /\ SettledBy(Users, r, IF ok THEN {Request("users", None, None)} ELSE {})
    /\ page' = [page EXCEPT !.saving = FALSE, !.dialog = @ /\ ~ok, !.loading = @ \/ ok]

\* The last administrator of the list is not asked about, nor deleted.
UsersAskDelete(u) ==
    /\ Click(Users) /\ UsersFree /\ ~page.loading
    /\ u \in page.users /\ Cardinality(page.users) > 1
    /\ page' = [page EXCEPT !.box = u]
    /\ SendsNothing

UsersDelete(sure) ==
    /\ Click(Users) /\ page.box # None
    /\ page' = [page EXCEPT !.box = None]
    /\ Sends(IF sure THEN {Request("deleteUser", page.box, "sent")} ELSE {})

\* Mutation of LastAdmin, used only to test the properties.
LastAdmin_None(admins, u) == Cardinality(admins) < 1 /\ u \in admins

\* handleUserByID counts the administrators (line 143) and deletes later (159).
LastAdmin(admins, u) == Cardinality(admins) <= 1 /\ u \in admins

\* The error of ListUsers is ignored: no administrator is counted and none is found, and
\* the deletion goes on.
UsersCounted(listed) == \E r \in InFlight("deleteUser") :
    LET answer == IF listed /\ LastAdmin(page.admins, r.key) THEN "refused" ELSE "allowed"
    IN  /\ r.arg = "sent"
        /\ SettledBy(Users, r, {[r EXCEPT !.arg = answer]})
        /\ page' = [page EXCEPT !.overlapped = @ \/ \E o \in InFlight("deleteUser") : o.arg = "allowed",
                                !.unread = @ \/ ~listed]

\* The DELETE, which may fail.
UsersDeleted(done) == \E r \in InFlight("deleteUser") :
    /\ r.arg = "allowed"
    /\ SettledBy(Users, r, {[r EXCEPT !.arg = IF done THEN "deleted" ELSE "refused"]})
    /\ page' = IF done THEN [page EXCEPT !.admins = @ \ {r.key}] ELSE page

\* The answer, or an error on its way: the list is loaded again only after a success.
UsersDeleteAnswered(ok) == \E r \in InFlight("deleteUser") :
    /\ r.arg \in IF ok THEN {"deleted"} ELSE {"deleted", "refused"}
    /\ SettledBy(Users, r, IF ok THEN {Request("users", None, None)} ELSE {})
    /\ page' = [page EXCEPT !.loading = @ \/ ok]

UsersOpenReset(u) ==
    /\ Click(Users) /\ UsersFree /\ u \in page.users
    /\ page' = [page EXCEPT !.target = u]
    /\ SendsNothing

UsersCloseReset ==
    /\ Click(Users) /\ page.target # None
    /\ page' = [page EXCEPT !.target = None]
    /\ SendsNothing

UsersReset ==
    /\ Click(Users) /\ page.target # None /\ ~page.resetting
    /\ page' = [page EXCEPT !.resetting = TRUE]
    /\ Sends({Request("resetPassword", page.target, None)})

\* An answer closes the dialog, also one opened since for another user.
UsersResetDone(ok) == \E r \in InFlight("resetPassword") :
    /\ SettledBy(Users, r, {})
    /\ page' = [page EXCEPT !.resetting = FALSE, !.target = IF ok THEN None ELSE @]

\* handleClearMFA, from the confirmed dialog on: nothing of the page changes.
UsersClearMFA(u) ==
    /\ Click(Users) /\ UsersFree /\ u \in page.users
    /\ page' = page
    /\ Sends({Request("clearMFA", u, None)})

UsersMFACleared == \E r \in InFlight("clearMFA") : SettledBy(Users, r, {}) /\ page' = page

UsersAnswers ==
    \/ \E ok \in BOOLEAN :
          \/ UsersLoaded(ok) \/ UsersSaved(ok) \/ UsersResetDone(ok)
          \/ UsersCounted(ok) \/ UsersDeleted(ok) \/ UsersDeleteAnswered(ok)
    \/ UsersRead \/ UsersMFACleared

UsersNext ==
    \/ \E u \in Keys : UsersAskDelete(u) \/ UsersOpenReset(u) \/ UsersClearMFA(u)
    \/ \E b \in BOOLEAN : UsersDialog(b) \/ UsersDelete(b)
    \/ UsersSave \/ UsersCloseReset \/ UsersReset
    \/ UsersAnswers

-----------------------------------------------------------------------------

AccountInit == TenantsInit \/ TenantFormInit \/ TenantDetailInit \/ UsersInit
AccountAnswers ==
    \/ At(Tenants) /\ TenantsAnswers
    \/ At(TenantForm) /\ TenantFormAnswers
    \/ At(TenantDetail) /\ TenantDetailAnswers
    \/ At(Users) /\ UsersAnswers
AccountNext ==
    \/ At(Tenants) /\ TenantsNext
    \/ At(TenantForm) /\ TenantFormNext
    \/ At(TenantDetail) /\ TenantDetailNext
    \/ At(Users) /\ UsersNext

-----------------------------------------------------------------------------

\* The key of a new tenant is one the user chose or uploaded in this opening of the
\* dialog, unless an upload of an earlier opening ended in it.
KeyOfOpening ==
    At(TenantForm) /\ page.dialog /\ ~page.late => page.keyFile \in page.picked \union {None}

\* handleUserByID keeps an administrator ("Prevent deleting the last admin user"), also
\* from a page whose list is out of date, unless a deletion is counted between the count
\* and the DELETE of another, or its list of administrators cannot be read: either lets
\* the last one go.
AdminRemains == At(Users) => page.admins # {} \/ page.overlapped \/ page.unread

\* The label all operations on a tenant's users share is on only while the request of
\* that operation is in flight.
TenantActingHonest == At(TenantDetail) /\ page.acting # None => InFlight(page.acting) # {}
=============================================================================
