------------------------------ MODULE Consoles ------------------------------
(***************************************************************************)
(* ShellConsole.vue, VncConsole.vue and the live log of Logs.vue: pages     *)
(* that hold a connection of their own beside the requests.  A WebSocket    *)
(* that is closed tells so later, when the page may already hold the next.  *)
(***************************************************************************)
EXTENDS Browser

CONSTANT MaxSockets     \* bound: connections opened by one page

ASSUME ConsolesAssumption == MaxSockets \in Nat

Sockets == 1..MaxSockets
NoSocket == 0

Alive == {"connecting", "open"}

\* WebSocket.close()
CloseSocket(sock, s) ==
    IF s = NoSocket THEN sock
    ELSE [sock EXCEPT ![s] = IF @ = "closed" THEN @ ELSE "closing"]

\* new WebSocket(url): s is the next one.
IsNext(sock, s) == sock[s] = "unused" /\ \A r \in Sockets : r < s => sock[r] # "unused"

-----------------------------------------------------------------------------
(* ShellConsole.vue                                                         *)

Shell == "ShellConsole"

\* generating: FALSE while no key is generated; keyDialog: its dialog is open.
ShellInit ==
    /\ Opens([view |-> Shell, mounted |-> TRUE, tenants |-> FALSE, tenantId |-> None,
              instanceId |-> None, sshKeyId |-> None, instances |-> None, sshKeys |-> None,
              stale |-> FALSE, genVisible |-> FALSE, generating |-> FALSE,
              connecting |-> FALSE, connected |-> FALSE, resizing |-> FALSE,
              ws |-> NoSocket, sock |-> [s \in Sockets |-> "unused"]])
    /\ calls = SetToBag({Request("tenants", None, None)})

ConsoleTenants(view, ok) == \E r \in InFlight("tenants") :
    /\ SettledBy(view, r, {})
    /\ page' = [page EXCEPT !.tenants = @ \/ ok]

ListsOf(t) == {Request("instances", t, None), Request("sshKeys", t, None)}

ConsoleForTenant(p, t) ==
    [p EXCEPT !.tenantId = t, !.instanceId = None, !.sshKeyId = None,
              !.instances = None, !.sshKeys = None, !.stale = FALSE]

ShellOnTenantChange(t) ==
    /\ Click(Shell) /\ page.tenants /\ ~page.genVisible /\ page.mounted
    /\ page' = ConsoleForTenant(page, t)
    /\ Sends(ListsOf(t))

\* stale observes that a list is not that of the chosen tenant.
ConsoleListed(p, list, r, ok) ==
    IF ok THEN [p EXCEPT ![list] = r.key, !.stale = @ \/ r.key # p.tenantId] ELSE p

ConsoleInstances(view, ok) == \E r \in InFlight("instances") :
    /\ SettledBy(view, r, {})
    /\ page' = ConsoleListed(page, "instances", r, ok)

\* The list that doGenerate waits for: its last key becomes the chosen one.
ConsoleSSHKeys(view, ok) == \E r \in InFlight("sshKeys") \cup InFlight("sshKeysOfGenerated") :
    /\ SettledBy(view, r, {})
    /\ LET p == ConsoleListed(page, "sshKeys", r, ok) IN
       page' = IF r.op = "sshKeys" THEN p
               ELSE [p EXCEPT !.sshKeyId = IF p.sshKeys = None THEN @ ELSE p.sshKeys,
                              !.generating = FALSE]

PickInstance(view) ==
    /\ Click(view) /\ page.mounted /\ page.tenantId # None /\ page.instances # None
    /\ page' = [page EXCEPT !.instanceId = page.instances]
    /\ SendsNothing

PickKey(view) ==
    /\ Click(view) /\ page.mounted /\ page.tenantId # None /\ page.sshKeys # None
    /\ page' = [page EXCEPT !.sshKeyId = page.sshKeys]
    /\ SendsNothing

ShellQuickGenerate ==
    /\ Click(Shell) /\ page.mounted /\ page.tenantId # None /\ ~page.genVisible
    /\ page' = [page EXCEPT !.genVisible = TRUE]
    /\ SendsNothing

ShellDoGenerate ==
    /\ Click(Shell) /\ page.mounted /\ page.genVisible /\ ~page.generating
    /\ page' = [page EXCEPT !.generating = TRUE]
    /\ Sends({Request("generateKey", page.tenantId, None)})

ShellCancelGenerate ==
    /\ Click(Shell) /\ page.mounted /\ page.genVisible
    /\ page' = [page EXCEPT !.genVisible = FALSE]
    /\ SendsNothing

ShellGenerated(ok) == \E r \in InFlight("generateKey") :
    /\ SettledBy(Shell, r, IF ok THEN {Request("sshKeysOfGenerated", page.tenantId, None)} ELSE {})
    /\ page' = [page EXCEPT !.generating = ok]

CanConnect(p) == p.tenantId # None /\ p.instanceId # None /\ p.sshKeyId # None /\ ~p.connected

\* The terminal lives as long as the session.
ShellConnect == \E s \in Sockets :
    /\ Click(Shell) /\ page.mounted /\ ~page.genVisible
    /\ CanConnect(page) /\ ~page.connecting
    /\ IsNext(page.sock, s)
    /\ page' = [page EXCEPT !.connecting = TRUE, !.ws = s, !.sock[s] = "connecting"]
    /\ SendsNothing

\* Mutation of Disconnected, used only to test the properties.
Disconnected_Forgets(p, sock) ==
    [p EXCEPT !.sock = sock, !.ws = NoSocket, !.resizing = FALSE,
              !.connecting = FALSE, !.connected = FALSE]

\* disconnect() closes whatever socket the page holds, also when the event that
\* calls it is that of an earlier one.
Disconnected(p, sock) ==
    [p EXCEPT !.sock = CloseSocket(sock, p.ws), !.ws = NoSocket, !.resizing = FALSE,
              !.connecting = FALSE, !.connected = FALSE]

ShellDisconnect ==
    /\ Click(Shell) /\ page.mounted /\ ~page.genVisible /\ page.connected
    /\ page' = Disconnected(page, page.sock)
    /\ SendsNothing

ShellUnmount ==
    /\ Click(Shell) /\ page.mounted
    /\ page' = [Disconnected(page, page.sock) EXCEPT !.mounted = FALSE]
    /\ SendsNothing

\* Events of socket s, whatever ws is by then.
SocketEvent(view) == At(view) /\ UNCHANGED <<calls, clicks>>

ShellOnOpen(s) ==
    /\ SocketEvent(Shell) /\ page.sock[s] = "connecting"
    /\ page' = [page EXCEPT !.sock[s] = "open", !.connecting = FALSE, !.connected = TRUE]

\* A message of type error; nothing is delivered once a socket is closing.
ShellOnErrorMessage(s) ==
    /\ SocketEvent(Shell) /\ page.sock[s] = "open"
    /\ page' = Disconnected(page, page.sock)

ShellOnError(s) ==
    /\ SocketEvent(Shell) /\ page.sock[s] = "connecting"
    /\ page' = Disconnected(page, CloseSocket(page.sock, s))

ShellOnClose(s) ==
    /\ SocketEvent(Shell) /\ page.sock[s] \in {"open", "closing"}
    /\ page' = Disconnected(page, [page.sock EXCEPT ![s] = "closed"])

\* A debounced resize is sent over ws, whichever socket that is.
ShellOnResize ==
    /\ Click(Shell) /\ page.ws # NoSocket /\ page.sock[page.ws] = "open"
    /\ page' = [page EXCEPT !.resizing = TRUE]
    /\ SendsNothing

ShellResizeTimer ==
    /\ SocketEvent(Shell) /\ page.resizing
    /\ page' = [page EXCEPT !.resizing = FALSE]

ShellAnswers ==
    \/ \E ok \in BOOLEAN : \/ ConsoleTenants(Shell, ok) \/ ConsoleInstances(Shell, ok)
                          \/ ConsoleSSHKeys(Shell, ok) \/ ShellGenerated(ok)
    \/ \E s \in Sockets : ShellOnOpen(s) \/ ShellOnError(s) \/ ShellOnClose(s)
    \/ ShellResizeTimer

ShellNext ==
    \/ \E t \in Keys : ShellOnTenantChange(t)
    \/ (page.view = Shell /\ ~page.genVisible /\ (PickInstance(Shell) \/ PickKey(Shell)))
    \/ ShellQuickGenerate \/ ShellDoGenerate \/ ShellCancelGenerate
    \/ ShellConnect \/ ShellDisconnect \/ ShellOnResize \/ ShellUnmount
    \/ \E s \in Sockets : ShellOnErrorMessage(s)
    \/ ShellAnswers

-----------------------------------------------------------------------------
(* VncConsole.vue                                                           *)

Vnc == "VncConsole"

\* console: the instance whose console session is active; rfb: the embedded
\* viewer; orphans: viewers that are connected and that the page no longer knows.
VncInit ==
    /\ Opens([view |-> Vnc, mounted |-> TRUE, tenants |-> FALSE, tenantId |-> None,
              instanceId |-> None, sshKeyId |-> None, instances |-> None, sshKeys |-> None,
              stale |-> FALSE, loading |-> FALSE, stopping |-> FALSE, console |-> None,
              embedded |-> FALSE, embedLoading |-> FALSE, rfb |-> "none", orphans |-> 0])
    /\ calls = SetToBag({Request("tenants", None, None)})

\* session.active is cleared, also when a start is still in flight.
VncOnTenantChange(t) ==
    /\ Click(Vnc) /\ page.tenants /\ page.mounted
    /\ page' = [ConsoleForTenant(page, t) EXCEPT !.console = None]
    /\ Sends(ListsOf(t))

VncStartSession ==
    /\ Click(Vnc) /\ page.mounted /\ ~page.loading
    /\ page.tenantId # None /\ page.instanceId # None /\ page.sshKeyId # None
    /\ page' = [page EXCEPT !.loading = TRUE]
    /\ Sends({Request("startVNC", page.instanceId, page.tenantId)})

VncStarted(ok) == \E r \in InFlight("startVNC") :
    /\ SettledBy(Vnc, r, {})
    /\ page' = [page EXCEPT !.loading = FALSE, !.console = IF ok THEN r.key ELSE @]

\* The console is named with the tenant and instance of the form, not its own.
VncStopSession ==
    /\ Click(Vnc) /\ page.mounted /\ page.console # None /\ ~page.stopping
    /\ page' = [page EXCEPT !.stopping = TRUE]
    /\ Sends({Request("stopVNC", page.console, page.tenantId)})

VncStopped(ok) == \E r \in InFlight("stopVNC") :
    /\ SettledBy(Vnc, r, {})
    /\ page' = [page EXCEPT !.stopping = FALSE, !.console = IF ok THEN None ELSE @]

VncOpenEmbedded ==
    /\ Click(Vnc) /\ page.mounted /\ page.console # None /\ ~page.embedLoading
    /\ page' = [page EXCEPT !.embedLoading = TRUE, !.embedded = TRUE]
    /\ SendsNothing

\* The viewer's code has arrived.  Without its element it cannot be built; a
\* viewer that is there already is replaced and stays connected.
VncEmbeddedLoaded(ok) ==
    /\ SocketEvent(Vnc) /\ page.embedLoading
    /\ page' = [page EXCEPT
          !.embedLoading = FALSE,
          !.rfb = IF ok /\ page.embedded /\ page.mounted THEN "up" ELSE @,
          !.orphans = IF ok /\ page.embedded /\ page.mounted /\ page.rfb = "up" THEN @ + 1 ELSE @]

VncViewerLost ==
    /\ SocketEvent(Vnc) /\ page.rfb = "up"
    /\ page' = [page EXCEPT !.rfb = "down"]

VncClosedEmbedded(p) == [p EXCEPT !.rfb = "none", !.embedded = FALSE]

VncCloseEmbedded ==
    /\ Click(Vnc) /\ page.mounted /\ page.embedded
    /\ page' = VncClosedEmbedded(page)
    /\ SendsNothing

VncUnmount ==
    /\ Click(Vnc) /\ page.mounted
    /\ page' = [VncClosedEmbedded(page) EXCEPT !.mounted = FALSE]
    /\ SendsNothing

VncAnswers ==
    \/ \E ok \in BOOLEAN : \/ ConsoleTenants(Vnc, ok) \/ ConsoleInstances(Vnc, ok)
                          \/ ConsoleSSHKeys(Vnc, ok) \/ VncStarted(ok) \/ VncStopped(ok)
                          \/ VncEmbeddedLoaded(ok)

VncNext ==
    \/ \E t \in Keys : VncOnTenantChange(t)
    \/ PickInstance(Vnc) \/ PickKey(Vnc)
    \/ VncStartSession \/ VncStopSession
    \/ VncOpenEmbedded \/ VncCloseEmbedded \/ VncViewerLost \/ VncUnmount
    \/ VncAnswers

-----------------------------------------------------------------------------
(* Logs.vue                                                                 *)

Logs == "Logs"

\* late observes that the switch went off on the event of an earlier socket, while
\* the one that replaced it is alive.
LogsInit ==
    /\ Opens([view |-> Logs, mounted |-> TRUE, loading |-> TRUE, liveActive |-> FALSE,
              ws |-> NoSocket, sock |-> [s \in Sockets |-> "unused"], late |-> FALSE])
    /\ calls = SetToBag({Request("logs", None, None)})

\* The button is blocked while the log loads, the choice of its length is not.
LogsRefresh ==
    /\ Click(Logs) /\ page.mounted
    /\ page' = [page EXCEPT !.loading = TRUE]
    /\ Sends({Request("logs", None, None)})

LogsRefreshed == \E r \in InFlight("logs") :
    /\ SettledBy(Logs, r, {})
    /\ page' = [page EXCEPT !.loading = FALSE]

\* The socket is stored over the previous one, which is not closed here.
LogsStartLive == \E s \in Sockets :
    /\ Click(Logs) /\ page.mounted /\ ~page.liveActive
    /\ IsNext(page.sock, s)
    /\ page' = [page EXCEPT !.liveActive = TRUE, !.ws = s, !.sock[s] = "connecting"]
    /\ SendsNothing

\* Mutation of LogsStopped, used only to test the properties.
LogsStopped_Keeps(p) == [p EXCEPT !.ws = NoSocket]

LogsStopped(p) == [p EXCEPT !.sock = CloseSocket(p.sock, p.ws), !.ws = NoSocket]

LogsStopLive ==
    /\ Click(Logs) /\ page.mounted /\ page.liveActive
    /\ page' = [LogsStopped(page) EXCEPT !.liveActive = FALSE]
    /\ SendsNothing

LogsUnmount ==
    /\ Click(Logs) /\ page.mounted
    /\ page' = [LogsStopped(page) EXCEPT !.mounted = FALSE]
    /\ SendsNothing

LogsOnOpen(s) ==
    /\ SocketEvent(Logs) /\ page.sock[s] = "connecting"
    /\ page' = [page EXCEPT !.sock[s] = "open"]

LogsSwitchedOff(p, s) ==
    [p EXCEPT !.liveActive = FALSE,
              !.late = @ \/ (p.liveActive /\ \E r \in Sockets \ {s} : p.ws = r /\ p.sock[r] \in Alive)]

LogsOnError(s) ==
    /\ SocketEvent(Logs) /\ page.sock[s] = "connecting"
    /\ page' = LogsSwitchedOff([page EXCEPT !.sock[s] = "closing"], s)

LogsOnClose(s) ==
    /\ SocketEvent(Logs) /\ page.sock[s] \in {"open", "closing"}
    /\ page' = LogsSwitchedOff([page EXCEPT !.sock[s] = "closed"], s)

LogsAnswers ==
    \/ LogsRefreshed
    \/ \E s \in Sockets : LogsOnOpen(s) \/ LogsOnError(s) \/ LogsOnClose(s)

LogsNext == LogsRefresh \/ LogsStartLive \/ LogsStopLive \/ LogsUnmount \/ LogsAnswers

-----------------------------------------------------------------------------
ConsoleInit == ShellInit \/ VncInit \/ LogsInit
ConsoleNext ==
    \/ At(Shell) /\ ShellNext
    \/ At(Vnc) /\ VncNext
    \/ At(Logs) /\ LogsNext

ConsoleAnswers ==
    \/ At(Shell) /\ ShellAnswers
    \/ At(Vnc) /\ VncAnswers
    \/ At(Logs) /\ LogsAnswers

Sessions == {Shell, Logs}

\* A session or live log that is alive is the one its page holds, so disconnect(),
\* stopLiveWS() and the unmount reach it and none runs on behind the page's back;
\* for the log, until a late event has switched it off under a living socket.
NoLostSocket ==
    page.view \in Sessions =>
        \/ page.view = Logs /\ page.late
        \/ /\ \A s \in Sockets : page.sock[s] \in Alive => page.ws = s
           /\ ~page.mounted => page.ws = NoSocket

\* A terminal that says connected has an open socket, and the button for the next
\* connection is only there when the page holds none.
ShellStatusHonest ==
    page.view = Shell =>
        /\ page.connected => page.ws # NoSocket /\ page.sock[page.ws] = "open"
        /\ ~page.connected /\ ~page.connecting => page.ws = NoSocket

\* The instance and the key with which a console is asked for are those of its
\* tenant, until a late answer shows the lists of another one.
ConsoleCoherent ==
    page.view \in {Shell, Vnc} /\ ~page.stale =>
        {page.instanceId, page.sshKeyId} \subseteq {None, page.tenantId}

=============================================================================
