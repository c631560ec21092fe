------------------------------ MODULE AdminViews ------------------------------
(***************************************************************************)
(* The pages that administer the panel itself: SshKeys.vue, Settings.vue    *)
(* (its forms, its blacklist and its buttons, which share nothing, are      *)
(* views of their own), StockAlerts.vue, Backup.vue and AiChat.vue.         *)
(***************************************************************************)
EXTENDS Browser, Sequences

SshKeys == "SshKeys"
Settings == "Settings"
Blacklist == "SettingsBlacklist"
SettingsButtons == "SettingsButtons"
StockAlerts == "StockAlerts"
Backup == "Backup"
AiChat == "AiChat"

-----------------------------------------------------------------------------
(* SshKeys.vue                                                              *)

\* generated: the opening of the dialog the key shown was asked in; late: it came to
\* another one.
SshKeysInit ==
    /\ Opens([view |-> SshKeys, loading |-> TRUE, box |-> None, dialog |-> FALSE, opening |-> 0,
              generating |-> FALSE, generated |-> 0, late |-> FALSE])
    /\ calls = SetToBag({Request("sshKeys", None, None)})

SshKeysLoaded == \E r \in InFlight("sshKeys") :
    /\ SettledBy(SshKeys, r, {})
    /\ page' = [page EXCEPT !.loading = FALSE]

\* Mutation of GenerateFormReset, used only to test the properties.
GenerateFormReset_KeepsKey(p) == p

GenerateFormReset(p) == [p EXCEPT !.generated = 0, !.late = FALSE]

SshKeysOpenGenerate ==
    /\ Click(SshKeys) /\ ~page.dialog /\ page.box = None
    /\ page' = [GenerateFormReset(page) EXCEPT !.dialog = TRUE, !.opening = @ + 1]
    /\ SendsNothing

\* Closing does not give up a request under way.
SshKeysCloseGenerate ==
    /\ Click(SshKeys) /\ page.dialog
    /\ page' = [GenerateFormReset(page) EXCEPT !.dialog = FALSE]
    /\ SendsNothing

\* The button is there only while no key is shown.
SshKeysGenerate ==
    /\ Click(SshKeys) /\ page.dialog /\ page.generated = 0 /\ ~page.generating
    /\ page' = [page EXCEPT !.generating = TRUE]
    /\ Sends({Request("generate", page.opening, None)})

SshKeysGenerated(ok) == \E r \in InFlight("generate") :
    LET here == page.dialog /\ r.key = page.opening
        p == [page EXCEPT !.generated = r.key, !.late = @ \/ ~here, !.loading = TRUE]
    IN  /\ SettledBy(SshKeys, r, IF ok THEN {Request("sshKeys", None, None)} ELSE {})
        /\ page' = [(IF ok THEN p ELSE page) EXCEPT !.generating = FALSE]

\* onPemFilePicked and, from the confirmed dialog on, handleDelete.
SshKeysWrite(op) ==
    /\ Click(SshKeys) /\ ~page.dialog /\ (op = "deleteKey" => ~page.loading)
    /\ page' = page
    /\ Sends({Request(op, None, None)})

SshKeysWritten(op, ok) == \E r \in InFlight(op) :
    /\ SettledBy(SshKeys, r, IF ok THEN {Request("sshKeys", None, None)} ELSE {})
    /\ page' = [page EXCEPT !.loading = @ \/ ok]

SshKeysWrites == {"uploadPem", "deleteKey"}

SshKeysAnswers ==
    \/ SshKeysLoaded
    \/ \E ok \in BOOLEAN : SshKeysGenerated(ok) \/ \E op \in SshKeysWrites : SshKeysWritten(op, ok)

SshKeysNext ==
    \/ \E op \in SshKeysWrites : SshKeysWrite(op)
    \/ SshKeysOpenGenerate \/ SshKeysCloseGenerate \/ SshKeysGenerate
    \/ SshKeysAnswers

-----------------------------------------------------------------------------
(* Settings.vue: the forms                                                  *)

\* mfa: the value config shows (None before the first load); one flag says that any of the
\* settings is being saved.  What the server has by then is left open: values read before
\* a save may arrive after it, and saves that overlap may be answered in any order.
SettingsInit ==
    /\ Opens([view |-> Settings, mfa |-> None, saving |-> FALSE, loading |-> TRUE])
    /\ calls = SetToBag({Request("config", None, None)})

SettingsLoaded(ok) == \E r \in InFlight("config"), value \in BOOLEAN :
    /\ SettledBy(Settings, r, {})
    /\ page' = [page EXCEPT !.mfa = IF ok THEN value ELSE @, !.loading = FALSE]

\* What is not known to be on is turned on.
SettingsToggleMFA ==
    /\ Click(Settings) /\ ~page.saving
    /\ page' = [page EXCEPT !.saving = TRUE]
    /\ Sends({Request("toggle", None, page.mfa # TRUE)})

\* saveSetting reports an error and returns: the new value is shown in either case.
SettingsToggled == \E r \in InFlight("toggle") :
    /\ SettledBy(Settings, r, {})
    /\ page' = [page EXCEPT !.saving = FALSE, !.mfa = r.arg]

\* The other settings: the buttons are blocked while one is saved, the switches are not.
SettingsSave(switch) ==
    /\ Click(Settings) /\ (switch \/ ~page.saving)
    /\ page' = [page EXCEPT !.saving = TRUE]
    /\ Sends({Request("save", None, switch)})

SettingsSaved == \E r \in InFlight("save") :
    /\ SettledBy(Settings, r, {})
    /\ page' = [page EXCEPT !.saving = FALSE]

SettingsAnswers ==
    \/ \E ok \in BOOLEAN : SettingsLoaded(ok)
    \/ SettingsToggled \/ SettingsSaved

SettingsNext ==
    \/ \E switch \in BOOLEAN : SettingsSave(switch)
    \/ SettingsToggleMFA
    \/ SettingsAnswers

-----------------------------------------------------------------------------
(* Settings.vue: the addresses blocked after failed logins                  *)

\* rows: the addresses shown, blocked: those of the server; late: a list read before
\* addresses were unblocked came in after it.
BlacklistInit ==
    /\ Opens([view |-> Blacklist, rows |-> {}, blocked |-> Keys, loading |-> TRUE, late |-> FALSE])
    /\ calls = SetToBag({Request("blacklist", None, None)})

BlacklistRead == \E r \in InFlight("blacklist") :
    /\ r.key = None
    /\ SettledBy(Blacklist, r, {Request("blacklistRead", page.blocked, None)})
    /\ page' = page

BlacklistLoaded(ok) == \E r \in InFlight("blacklistRead") :
    LET p == [page EXCEPT !.rows = r.key, !.late = r.key # page.blocked]
    IN  /\ SettledBy(Blacklist, r, {})
        /\ page' = [(IF ok THEN p ELSE page) EXCEPT !.loading = FALSE]

BlacklistRefresh ==
    /\ Click(Blacklist) /\ ~page.loading
    /\ page' = [page EXCEPT !.loading = TRUE]
    /\ Sends({Request("blacklist", None, None)})

BlacklistUnblock(ip) ==
    /\ Click(Blacklist) /\ ~page.loading /\ ip \in page.rows
    /\ page' = page
    /\ Sends({Request("unblock", ip, None)})

BlacklistUnblocked(ok) == \E r \in InFlight("unblock") :
    /\ SettledBy(Blacklist, r, IF ok THEN {Request("blacklist", None, None)} ELSE {})
    /\ page' = IF ok THEN [page EXCEPT !.blocked = @ \ {r.key}, !.loading = TRUE] ELSE page

\* Nothing ever sets the flag of the button: it can be clicked again at once.
BlacklistClear ==
    /\ Click(Blacklist) /\ page.rows # {}
    /\ page' = page
    /\ Sends({Request("clear", None, None)})

BlacklistCleared(ok) == \E r \in InFlight("clear") :
    /\ SettledBy(Blacklist, r, {})
    /\ page' = IF ok THEN [page EXCEPT !.blocked = {}, !.rows = {}] ELSE page

BlacklistAnswers ==
    \/ \E ok \in BOOLEAN : BlacklistLoaded(ok) \/ BlacklistUnblocked(ok) \/ BlacklistCleared(ok)
    \/ BlacklistRead

BlacklistNext ==
    \/ \E ip \in Keys : BlacklistUnblock(ip)
    \/ BlacklistRefresh \/ BlacklistClear
    \/ BlacklistAnswers

-----------------------------------------------------------------------------
(* Settings.vue: the tests of the channels and the update                   *)

Buttons == {"testAll", "testDingtalk", "checkUpdate", "updateNow"}

\* busy: the buttons whose request is under way; known: an update check has answered.
ButtonsInit ==
    /\ Opens([view |-> SettingsButtons, busy |-> {}, known |-> FALSE])
    /\ calls = EmptyBag

ButtonsClick(b) ==
    /\ Click(SettingsButtons) /\ b \notin page.busy /\ (b = "updateNow" => page.known)
    /\ page' = [page EXCEPT !.busy = @ \union {b}, !.known = @ /\ b # "checkUpdate"]
    /\ Sends({Request(b, None, None)})

ButtonsDone(b, ok) == \E r \in InFlight(b) :
    /\ SettledBy(SettingsButtons, r, {})
    /\ page' = [page EXCEPT !.busy = @ \ {b}, !.known = @ \/ (ok /\ b = "checkUpdate")]

ButtonsAnswers == \E b \in Buttons, ok \in BOOLEAN : ButtonsDone(b, ok)
ButtonsNext == (\E b \in Buttons : ButtonsClick(b)) \/ ButtonsAnswers

-----------------------------------------------------------------------------
(* StockAlerts.vue                                                          *)

\* One alert: shown, the state its switch has (None: not listed), and enabled, the
\* server's; timers: reloads that checks have asked for, 2 s after their answer.
AlertsInit ==
    /\ Opens([view |-> StockAlerts, shown |-> None, enabled |-> TRUE, loading |-> TRUE, timers |-> 0,
              dialog |-> FALSE, saving |-> FALSE, box |-> FALSE])
    /\ calls = SetToBag({Request("alerts", None, None)})

AlertsLoaded(ok) == \E r \in InFlight("alerts") :
    /\ SettledBy(StockAlerts, r, {})
    /\ page' = [page EXCEPT !.loading = FALSE, !.shown = IF ok THEN page.enabled ELSE @]

AlertsLoad == page' = [page EXCEPT !.loading = TRUE] /\ Sends({Request("alerts", None, None)})

AlertsRefresh == Click(StockAlerts) /\ ~page.loading /\ ~page.dialog /\ ~page.box /\ AlertsLoad

AlertsTimer ==
    /\ At(StockAlerts) /\ page.timers > 0
    /\ page' = [page EXCEPT !.timers = @ - 1, !.loading = TRUE]
    /\ Sends({Request("alerts", None, None)})
    /\ UNCHANGED clicks

AlertsDialog(open) ==
    /\ Click(StockAlerts) /\ page.dialog = ~open /\ ~page.box
    /\ page' = [page EXCEPT !.dialog = open]
    /\ SendsNothing

AlertsSave ==
    /\ Click(StockAlerts) /\ page.dialog /\ ~page.saving
    /\ page' = [page EXCEPT !.saving = TRUE]
    /\ Sends({Request("createAlert", None, None)})

AlertsSaved(ok) == \E r \in InFlight("createAlert") :
    /\ SettledBy(StockAlerts, r, IF ok THEN {Request("alerts", None, None)} ELSE {})
    /\ page' = [page EXCEPT !.saving = FALSE, !.dialog = @ /\ ~ok, !.loading = @ \/ ok]

AlertsFree == page.shown # None /\ ~page.loading /\ ~page.dialog /\ ~page.box

\* The row itself is not changed: the switch keeps what was loaded.
AlertsToggle ==
    /\ Click(StockAlerts) /\ AlertsFree
    /\ page' = page
    /\ Sends({Request("toggleAlert", None, ~page.shown)})

AlertsToggled(ok) == \E r \in InFlight("toggleAlert") :
    /\ SettledBy(StockAlerts, r, IF ok THEN {} ELSE {Request("alerts", None, None)})
    /\ page' = IF ok THEN [page EXCEPT !.enabled = r.arg] ELSE [page EXCEPT !.loading = TRUE]

AlertsCheck ==
    /\ Click(StockAlerts) /\ AlertsFree
    /\ page' = page
    /\ Sends({Request("checkAlert", None, None)})

AlertsChecked(ok) == \E r \in InFlight("checkAlert") :
    /\ SettledBy(StockAlerts, r, {})
    /\ page' = IF ok THEN [page EXCEPT !.timers = @ + 1] ELSE page

AlertsAskRemove ==
    /\ Click(StockAlerts) /\ AlertsFree
    /\ page' = [page EXCEPT !.box = TRUE]
    /\ SendsNothing

AlertsRemove(sure) ==
    /\ Click(StockAlerts) /\ page.box
    /\ page' = [page EXCEPT !.box = FALSE]
    /\ Sends(IF sure THEN {Request("removeAlert", None, None)} ELSE {})

AlertsRemoved(ok) == \E r \in InFlight("removeAlert") :
    /\ SettledBy(StockAlerts, r, IF ok THEN {Request("alerts", None, None)} ELSE {})
    /\ page' = [page EXCEPT !.loading = @ \/ ok]

AlertsAnswers ==
    \/ \E ok \in BOOLEAN :
          AlertsLoaded(ok) \/ AlertsSaved(ok) \/ AlertsToggled(ok) \/ AlertsChecked(ok) \/ AlertsRemoved(ok)
    \/ AlertsTimer

AlertsNext ==
    \/ \E b \in BOOLEAN : AlertsDialog(b) \/ AlertsRemove(b)
    \/ AlertsRefresh \/ AlertsSave \/ AlertsToggle \/ AlertsCheck \/ AlertsAskRemove
    \/ AlertsAnswers

-----------------------------------------------------------------------------
(* Backup.vue                                                               *)

\* One flag for the export and the restore; filled: there is a backup to restore.
BackupInit ==
    /\ Opens([view |-> Backup, loading |-> FALSE, exported |-> FALSE, filled |-> TRUE, box |-> FALSE])
    /\ calls = EmptyBag

BackupFree == ~page.loading /\ ~page.box

BackupFill ==
    /\ Click(Backup) /\ BackupFree /\ ~page.filled
    /\ page' = [page EXCEPT !.filled = TRUE]
    /\ SendsNothing

BackupExport ==
    /\ Click(Backup) /\ BackupFree
    /\ page' = [page EXCEPT !.loading = TRUE]
    /\ Sends({Request("export", None, None)})

BackupExported(ok) == \E r \in InFlight("export") :
    /\ SettledBy(Backup, r, {})
    /\ page' = [page EXCEPT !.loading = FALSE, !.exported = ok]

BackupAskRestore ==
    /\ Click(Backup) /\ BackupFree /\ page.filled
    /\ page' = [page EXCEPT !.box = TRUE]
    /\ SendsNothing

\* Mutation of RestoreStarted, used only to test the properties.
RestoreStarted_NotLoading(p) == [p EXCEPT !.box = FALSE]

RestoreStarted(p) == [p EXCEPT !.box = FALSE, !.loading = TRUE]

BackupRestore(sure) ==
    /\ Click(Backup) /\ page.box
    /\ page' = IF sure THEN RestoreStarted(page) ELSE [page EXCEPT !.box = FALSE]
    /\ Sends(IF sure THEN {Request("restore", None, None)} ELSE {})

BackupRestored(ok) == \E r \in InFlight("restore") :
    /\ SettledBy(Backup, r, {})
    /\ page' = [page EXCEPT !.loading = FALSE, !.filled = @ /\ ~ok, !.exported = @ /\ ~ok]

BackupAnswers == \E ok \in BOOLEAN : BackupExported(ok) \/ BackupRestored(ok)

BackupNext ==
    \/ \E sure \in BOOLEAN : BackupRestore(sure)
    \/ BackupFill \/ BackupExport \/ BackupAskRestore
    \/ BackupAnswers

-----------------------------------------------------------------------------
(* AiChat.vue                                                               *)

\* session: the conversation, counted; shown: whose messages are in the window, and how
\* many; history: how many exchanges of it the server remembers.
ChatInit ==
    /\ Opens([view |-> AiChat, session |-> 1, shown |-> <<>>, loading |-> FALSE, history |-> 0])
    /\ calls = EmptyBag

ChatSend ==
    /\ Click(AiChat) /\ ~page.loading
    /\ page' = [page EXCEPT !.loading = TRUE, !.shown = Append(@, [role |-> "user", of |-> page.session])]
    /\ Sends({Request("chat", page.session, None)})

ChatAnswered(ok) == \E r \in InFlight("chat") :
    /\ SettledBy(AiChat, r, {})
    /\ page' = [page EXCEPT !.loading = FALSE, !.shown = Append(@, [role |-> "ai", of |-> r.key]),
                            !.history = IF ok THEN @ + 1 ELSE @]

\* Mutation of ChatClearable, used only to test the properties.
ChatClearable_Always(p) == TRUE

ChatClearable(p) == ~p.loading

ChatClear ==
    /\ Click(AiChat) /\ ChatClearable(page)
    /\ page' = [page EXCEPT !.session = @ + 1, !.shown = <<>>]
    /\ Sends({Request("forget", None, None)})

\* The server's cache is emptied when the request gets there: with it, what may have
\* been said in the new conversation meanwhile.
ChatForgotten(ok) == \E r \in InFlight("forget") :
    /\ SettledBy(AiChat, r, {})
    /\ page' = IF ok THEN [page EXCEPT !.history = 0] ELSE page

ChatAnswers == \E ok \in BOOLEAN : ChatAnswered(ok) \/ ChatForgotten(ok)
ChatNext == ChatSend \/ ChatClear \/ ChatAnswers

-----------------------------------------------------------------------------

AdminInit ==
    \/ SshKeysInit \/ SettingsInit \/ BlacklistInit \/ ButtonsInit
    \/ AlertsInit \/ BackupInit \/ ChatInit
AdminAnswers ==
    \/ At(SshKeys) /\ SshKeysAnswers
    \/ At(Settings) /\ SettingsAnswers
    \/ At(Blacklist) /\ BlacklistAnswers
    \/ At(SettingsButtons) /\ ButtonsAnswers
    \/ At(StockAlerts) /\ AlertsAnswers
    \/ At(Backup) /\ BackupAnswers
    \/ At(AiChat) /\ ChatAnswers
AdminNext ==
    \/ At(SshKeys) /\ SshKeysNext
    \/ At(Settings) /\ SettingsNext
    \/ At(Blacklist) /\ BlacklistNext
    \/ At(SettingsButtons) /\ ButtonsNext
    \/ At(StockAlerts) /\ AlertsNext
    \/ At(Backup) /\ BackupNext
    \/ At(AiChat) /\ ChatNext

-----------------------------------------------------------------------------

\* The key pair shown was generated in this opening of the dialog, unless an answer
\* came in after its own opening was closed.
GeneratedOfOpening ==
    At(SshKeys) /\ ~page.late /\ page.generated # 0 => page.dialog /\ page.generated = page.opening

\* Every message in the window belongs to the conversation, each question is followed
\* by its answer, and while nothing is asked the last word is the answer's.
ChatOfSession ==
    At(AiChat) =>
        /\ \A i \in 1..Len(page.shown) :
              page.shown[i] = [role |-> IF i % 2 = 1 THEN "user" ELSE "ai", of |-> page.session]
        /\ page.loading <=> Len(page.shown) % 2 = 1

=============================================================================
