---------------------------- MODULE ConsolesProofs ----------------------------
(***************************************************************************)
(* Proofs about the pages that hold a connection of their own.  A page is a *)
(* record of which each action changes a few fields, so the invariants name *)
(* the fields they speak of: EXCEPT has no effect on a field that is absent.*)
(***************************************************************************)
EXTENDS Consoles, TLAPS

ConsoleSpec == ConsoleInit /\ [][ConsoleNext]_vars

SocketStates == {"unused", "connecting", "open", "closing", "closed"}

-----------------------------------------------------------------------------
(* The terminal                                                             *)

SessionFields == {"view", "mounted", "ws", "sock"}
ShellFields == SessionFields \cup {"connecting", "connected"}

\* What a page holds of its sockets: only the one it names is alive, and none when it
\* is left.
Held(p) ==
    /\ p.ws \in Sockets \cup {NoSocket}
    /\ p.sock \in [Sockets -> SocketStates]
    /\ \A s \in Sockets : p.sock[s] \in Alive => p.ws = s
    /\ ~p.mounted => p.ws = NoSocket

\* The terminal's two flags tell how far its socket is: the fact that makes
\* ShellStatusHonest inductive is that no flag is set once the socket is gone.
ShellSound(p) ==
    /\ p.view = Shell
    /\ ShellFields \subseteq DOMAIN p
    /\ Held(p)
    /\ p.connecting \in BOOLEAN /\ p.connected \in BOOLEAN
    /\ ~(p.connecting /\ p.connected)
    /\ p.connecting => p.ws # NoSocket /\ p.sock[p.ws] = "connecting"
    /\ p.connected => p.ws # NoSocket /\ p.sock[p.ws] = "open"
    /\ ~p.connecting /\ ~p.connected => p.ws = NoSocket

\* disconnect() leaves no socket alive but those it was told of, whichever it held.
LEMMA DisconnectedSound ==
    ASSUME NEW p, ShellSound(p),
           NEW sock \in [Sockets -> SocketStates],
           \A s \in Sockets : sock[s] \in Alive => p.ws = s
    PROVE  ShellSound(Disconnected(p, sock))
<1> DEFINE q == Disconnected(p, sock)
<1>0. p.ws \in Sockets \cup {NoSocket} /\ ShellFields \subseteq DOMAIN p /\ p.view = Shell
  BY DEF ShellSound, Held
<1>1. /\ q.view = Shell /\ q.ws = NoSocket /\ q.connecting = FALSE /\ q.connected = FALSE
      /\ q.sock = CloseSocket(sock, p.ws) /\ DOMAIN q = DOMAIN p
  BY <1>0 DEF Disconnected, ShellFields, SessionFields
<1>2. CloseSocket(sock, p.ws) \in [Sockets -> SocketStates]
  BY <1>0 DEF CloseSocket, SocketStates
<1>3. \A s \in Sockets : CloseSocket(sock, p.ws)[s] \notin Alive
  BY <1>0 DEF CloseSocket, Alive, SocketStates, NoSocket, Sockets
<1>4. Held(q)
  BY <1>1, <1>2, <1>3 DEF Held
<1> QED
  BY <1>0, <1>1, <1>4 DEF ShellSound

\* A page whose session is untouched stays sound.
SameSession(p, q) ==
    /\ DOMAIN q = DOMAIN p /\ q.view = p.view /\ q.mounted = p.mounted
    /\ q.ws = p.ws /\ q.sock = p.sock
    /\ q.connecting = p.connecting /\ q.connected = p.connected

LEMMA SameSessionSound ==
    ASSUME NEW p, NEW q, ShellSound(p), SameSession(p, q)
    PROVE  ShellSound(q)
BY DEF ShellSound, Held, SameSession

LEMMA ConsoleForTenantSame ==
    ASSUME NEW p, NEW t, ShellFields \subseteq DOMAIN p
    PROVE  SameSession(p, ConsoleForTenant(p, t))
BY DEF SameSession, ConsoleForTenant, ShellFields, SessionFields

LEMMA ConsoleListedSame ==
    ASSUME NEW p, NEW list \in {"instances", "sshKeys"}, NEW r, NEW ok, ShellFields \subseteq DOMAIN p
    PROVE  SameSession(p, ConsoleListed(p, list, r, ok))
BY DEF SameSession, ConsoleListed, ShellFields, SessionFields

\* The terminal's answers and choices that leave its session alone.
LEMMA ShellFrame ==
    ASSUME ShellSound(page),
           \/ \E t \in Keys : ShellOnTenantChange(t)
           \/ PickInstance(Shell) \/ PickKey(Shell)
           \/ ShellQuickGenerate \/ ShellDoGenerate \/ ShellCancelGenerate
           \/ ShellOnResize \/ ShellResizeTimer
           \/ \E ok \in BOOLEAN : \/ ConsoleTenants(Shell, ok) \/ ConsoleInstances(Shell, ok)
                                 \/ ConsoleSSHKeys(Shell, ok) \/ ShellGenerated(ok)
    PROVE  ShellSound(page')
<1>f. ShellFields \subseteq DOMAIN page
  BY DEF ShellSound
<1> SUFFICES SameSession(page, page')
  BY SameSessionSound
<1>1. CASE \E t \in Keys : ShellOnTenantChange(t)
  BY <1>1, <1>f, ConsoleForTenantSame DEF ShellOnTenantChange
<1>2. CASE PickInstance(Shell) \/ PickKey(Shell)
  BY <1>2, <1>f DEF PickInstance, PickKey, SameSession, ShellFields, SessionFields
<1>3. CASE ShellQuickGenerate \/ ShellDoGenerate \/ ShellCancelGenerate
  BY <1>3, <1>f DEF ShellQuickGenerate, ShellDoGenerate, ShellCancelGenerate,
                    SameSession, ShellFields, SessionFields
<1>4. CASE ShellOnResize \/ ShellResizeTimer
  BY <1>4, <1>f DEF ShellOnResize, ShellResizeTimer, SameSession, ShellFields, SessionFields
<1>5. ASSUME NEW ok \in BOOLEAN, ConsoleTenants(Shell, ok)
      PROVE  SameSession(page, page')
  BY <1>5, <1>f DEF ConsoleTenants, SameSession, ShellFields, SessionFields
<1>6. ASSUME NEW ok \in BOOLEAN, ConsoleInstances(Shell, ok)
      PROVE  SameSession(page, page')
  BY <1>6, <1>f, ConsoleListedSame DEF ConsoleInstances
<1>7. ASSUME NEW ok \in BOOLEAN, ConsoleSSHKeys(Shell, ok)
      PROVE  SameSession(page, page')
  <2>1. PICK r : page' = LET p == ConsoleListed(page, "sshKeys", r, ok) IN
                         IF r.op = "sshKeys" THEN p
                         ELSE [p EXCEPT !.sshKeyId = IF p.sshKeys = None THEN @ ELSE p.sshKeys,
                                        !.generating = FALSE]
    BY <1>7 DEF ConsoleSSHKeys
  <2> DEFINE p == ConsoleListed(page, "sshKeys", r, ok)
  <2>2. SameSession(page, p)
    BY <1>f, ConsoleListedSame
  <2>3. ShellFields \subseteq DOMAIN p
    BY <1>f, <2>2 DEF SameSession
  <2>4. SameSession(p, page')
    BY <2>1, <2>3 DEF SameSession, ShellFields, SessionFields
  <2> QED
    BY <2>2, <2>4 DEF SameSession
<1>8. ASSUME NEW ok \in BOOLEAN, ShellGenerated(ok)
      PROVE  SameSession(page, page')
  BY <1>8, <1>f DEF ShellGenerated, SameSession, ShellFields, SessionFields
<1> QED
  BY <1>1, <1>2, <1>3, <1>4, <1>5, <1>6, <1>7, <1>8

\* The steps of the terminal's session: the new socket is the only one alive because
\* the button that opens it is blocked while there is another.
LEMMA ShellSteps ==
    ASSUME ShellSound(page),
           \/ ShellConnect \/ ShellDisconnect \/ ShellUnmount
           \/ \E s \in Sockets : \/ ShellOnOpen(s) \/ ShellOnErrorMessage(s)
                                \/ ShellOnError(s) \/ ShellOnClose(s)
    PROVE  ShellSound(page')
<1>f. ShellFields \subseteq DOMAIN page
  BY DEF ShellSound
<1>h. /\ page.ws \in Sockets \cup {NoSocket}
      /\ page.sock \in [Sockets -> SocketStates]
      /\ \A s \in Sockets : page.sock[s] \in Alive => page.ws = s
  BY DEF ShellSound, Held
<1>1. CASE ShellConnect
  <2>1. PICK s \in Sockets :
          /\ page.mounted /\ CanConnect(page) /\ ~page.connecting /\ IsNext(page.sock, s)
          /\ page' = [page EXCEPT !.connecting = TRUE, !.ws = s, !.sock[s] = "connecting"]
    BY <1>1 DEF ShellConnect
  <2>2. page.ws = NoSocket /\ page.connected = FALSE
    BY <2>1 DEF ShellSound, CanConnect
  <2>3. \A r \in Sockets : page.sock[r] \notin Alive
    BY <1>h, <2>2 DEF Sockets, NoSocket
  <2>4. /\ page'.view = page.view /\ DOMAIN page' = DOMAIN page /\ page'.mounted = page.mounted
        /\ page'.ws = s /\ page'.connecting = TRUE /\ page'.connected = FALSE
        /\ page'.sock = [page.sock EXCEPT ![s] = "connecting"]
    BY <1>f, <2>1, <2>2 DEF ShellFields, SessionFields
  <2>5. /\ page'.sock \in [Sockets -> SocketStates] /\ page'.sock[s] = "connecting"
        /\ \A r \in Sockets : page'.sock[r] \in Alive => page'.ws = r
    BY <1>h, <2>3, <2>4 DEF SocketStates
  <2>6. Held(page')
    BY <2>1, <2>4, <2>5 DEF Held
  <2>7. page'.ws # NoSocket
    BY <2>4 DEF Sockets, NoSocket
  <2> QED
    BY <2>4, <2>5, <2>6, <2>7 DEF ShellSound
<1>2. CASE ShellDisconnect
  BY <1>2, <1>h, DisconnectedSound DEF ShellDisconnect
<1>3. CASE ShellUnmount
  <2> DEFINE q == Disconnected(page, page.sock)
  <2>1. ShellSound(q) /\ page' = [q EXCEPT !.mounted = FALSE]
    BY <1>3, <1>h, DisconnectedSound DEF ShellUnmount
  <2>2. q.ws = NoSocket /\ DOMAIN q = DOMAIN page
    BY <1>f DEF Disconnected, ShellFields, SessionFields
  <2> HIDE DEF q
  <2>3. /\ page'.view = q.view /\ DOMAIN page' = DOMAIN q /\ page'.ws = q.ws /\ page'.sock = q.sock
        /\ page'.connecting = q.connecting /\ page'.connected = q.connected
    BY <1>f, <2>1, <2>2 DEF ShellFields, SessionFields
  <2> QED
    BY <2>1, <2>2, <2>3 DEF ShellSound, Held
<1>4. ASSUME NEW s \in Sockets, ShellOnOpen(s)
      PROVE  ShellSound(page')
  <2>1. page.sock[s] = "connecting" /\ page.ws = s
    BY <1>4, <1>h DEF ShellOnOpen, Alive
  <2>2. s # NoSocket
    BY DEF Sockets, NoSocket
  <2>3. /\ page'.view = page.view /\ DOMAIN page' = DOMAIN page /\ page'.mounted = page.mounted
        /\ page'.ws = s /\ page'.connecting = FALSE /\ page'.connected = TRUE
        /\ page'.sock = [page.sock EXCEPT ![s] = "open"]
    BY <1>4, <1>f, <2>1 DEF ShellOnOpen, ShellFields, SessionFields
  <2>4. /\ page'.sock \in [Sockets -> SocketStates] /\ page'.sock[s] = "open"
        /\ \A r \in Sockets : page'.sock[r] \in Alive => page'.ws = r
    BY <1>h, <2>1, <2>3 DEF SocketStates
  <2> QED
    BY <2>1, <2>2, <2>3, <2>4 DEF ShellSound, Held
<1>5. ASSUME NEW s \in Sockets, ShellOnErrorMessage(s)
      PROVE  ShellSound(page')
  BY <1>5, <1>h, DisconnectedSound DEF ShellOnErrorMessage
<1>6. ASSUME NEW s \in Sockets, ShellOnError(s)
      PROVE  ShellSound(page')
  <2>1. /\ CloseSocket(page.sock, s) \in [Sockets -> SocketStates]
        /\ \A r \in Sockets : CloseSocket(page.sock, s)[r] \in Alive => page.ws = r
    BY <1>h DEF CloseSocket, SocketStates, Alive
  <2> QED
    BY <1>6, <2>1, DisconnectedSound DEF ShellOnError
<1>7. ASSUME NEW s \in Sockets, ShellOnClose(s)
      PROVE  ShellSound(page')
  <2>1. /\ [page.sock EXCEPT ![s] = "closed"] \in [Sockets -> SocketStates]
        /\ \A r \in Sockets : [page.sock EXCEPT ![s] = "closed"][r] \in Alive => page.ws = r
    BY <1>h DEF SocketStates, Alive
  <2> QED
    BY <1>7, <2>1, DisconnectedSound DEF ShellOnClose
<1> QED
  BY <1>1, <1>2, <1>3, <1>4, <1>5, <1>6, <1>7

-----------------------------------------------------------------------------
(* The live log                                                             *)

LogsFields == SessionFields \cup {"liveActive", "late"}

\* Until a late event has switched the log off under a living socket, a switch that is
\* off means that no socket is alive: this is why storing the next one over ws loses none.
LogsSound(p) ==
    /\ p.view = Logs
    /\ LogsFields \subseteq DOMAIN p
    /\ p.ws \in Sockets \cup {NoSocket}
    /\ p.sock \in [Sockets -> SocketStates]
    /\ p.late \in BOOLEAN /\ p.liveActive \in BOOLEAN
    /\ ~p.late => /\ Held(p)
                  /\ ~p.liveActive => \A s \in Sockets : p.sock[s] \notin Alive

\* stopLiveWS() closes the one socket that may be alive.
LEMMA LogsStoppedSound ==
    ASSUME NEW p, LogsSound(p)
    PROVE  /\ LogsSound(LogsStopped(p))
           /\ LogsStopped(p).ws = NoSocket
           /\ ~p.late => \A s \in Sockets : LogsStopped(p).sock[s] \notin Alive
<1> DEFINE q == LogsStopped(p)
<1>1. p.ws \in Sockets \cup {NoSocket} /\ LogsFields \subseteq DOMAIN p
      /\ p.sock \in [Sockets -> SocketStates]
  BY DEF LogsSound
<1>2. /\ q.view = p.view /\ DOMAIN q = DOMAIN p /\ q.mounted = p.mounted
      /\ q.ws = NoSocket /\ q.sock = CloseSocket(p.sock, p.ws)
      /\ q.late = p.late /\ q.liveActive = p.liveActive
  BY <1>1 DEF LogsStopped, LogsFields, SessionFields
<1>3. CloseSocket(p.sock, p.ws) \in [Sockets -> SocketStates]
  BY <1>1 DEF CloseSocket, SocketStates
<1>4. ASSUME ~p.late, NEW s \in Sockets
      PROVE  CloseSocket(p.sock, p.ws)[s] \notin Alive
  <2>1. p.sock[s] \in Alive => p.ws = s
    BY <1>4 DEF LogsSound, Held
  <2>2. s # NoSocket
    BY DEF Sockets, NoSocket
  <2> QED
    BY <1>1, <2>1, <2>2 DEF CloseSocket, SocketStates, Alive
<1> HIDE DEF q
<1>5. LogsSound(q)
  BY <1>1, <1>2, <1>3, <1>4 DEF LogsSound, Held
<1> QED
  BY <1>2, <1>4, <1>5 DEF q

\* An event of socket s, which is not alive any more, switches the log off.
LEMMA LogsSwitchedOffSound ==
    ASSUME NEW p, LogsSound(p), NEW s \in Sockets, NEW state \in {"closing", "closed"}
    PROVE  LogsSound(LogsSwitchedOff([p EXCEPT !.sock[s] = state], s))
<1> DEFINE sock == [p.sock EXCEPT ![s] = state]
           q    == LogsSwitchedOff([p EXCEPT !.sock[s] = state], s)
           lost == p.liveActive /\ \E r \in Sockets \ {s} : p.ws = r /\ sock[r] \in Alive
<1>1. p.ws \in Sockets \cup {NoSocket} /\ LogsFields \subseteq DOMAIN p
      /\ p.sock \in [Sockets -> SocketStates] /\ p.late \in BOOLEAN
  BY DEF LogsSound
<1>2. /\ q.view = p.view /\ DOMAIN q = DOMAIN p /\ q.mounted = p.mounted /\ q.ws = p.ws
      /\ q.sock = sock /\ q.liveActive = FALSE /\ q.late = (p.late \/ lost)
  BY <1>1 DEF LogsSwitchedOff, LogsFields, SessionFields
<1>3. sock \in [Sockets -> SocketStates] /\ sock[s] \notin Alive
      /\ \A r \in Sockets \ {s} : sock[r] = p.sock[r]
  BY <1>1 DEF SocketStates, Alive
<1>4. ASSUME ~p.late, ~lost
      PROVE  (\A r \in Sockets : sock[r] \notin Alive) /\ (~p.mounted => p.ws = NoSocket)
  <2>1. Held(p) /\ (~p.liveActive => \A r \in Sockets : p.sock[r] \notin Alive)
    BY <1>4 DEF LogsSound
  <2> QED
    BY <1>3, <1>4, <2>1 DEF Held
<1> HIDE DEF q, lost, sock
<1>5. ~q.late => Held(q) /\ \A r \in Sockets : q.sock[r] \notin Alive
  BY <1>1, <1>2, <1>3, <1>4 DEF Held
<1>6. q.late \in BOOLEAN /\ q.liveActive \in BOOLEAN
  BY <1>1, <1>2 DEF lost
<1> QED
  BY <1>1, <1>2, <1>3, <1>5, <1>6 DEF LogsSound, q

LEMMA LogsSteps ==
    ASSUME LogsSound(page), LogsNext
    PROVE  LogsSound(page')
<1>f. /\ LogsFields \subseteq DOMAIN page /\ page.ws \in Sockets \cup {NoSocket}
      /\ page.sock \in [Sockets -> SocketStates]
  BY DEF LogsSound
<1>1. CASE LogsRefresh \/ LogsRefreshed
  <2>1. /\ DOMAIN page' = DOMAIN page /\ page'.view = page.view /\ page'.mounted = page.mounted
        /\ page'.ws = page.ws /\ page'.sock = page.sock /\ page'.late = page.late
        /\ page'.liveActive = page.liveActive
    BY <1>1, <1>f DEF LogsRefresh, LogsRefreshed, LogsFields, SessionFields
  <2> QED
    BY <2>1 DEF LogsSound, Held
<1>2. CASE LogsStartLive
  <2>1. PICK s \in Sockets :
          /\ page.mounted /\ ~page.liveActive
          /\ page' = [page EXCEPT !.liveActive = TRUE, !.ws = s, !.sock[s] = "connecting"]
    BY <1>2 DEF LogsStartLive
  <2>2. /\ page'.view = page.view /\ DOMAIN page' = DOMAIN page /\ page'.mounted = page.mounted
        /\ page'.ws = s /\ page'.late = page.late /\ page'.liveActive = TRUE
        /\ page'.sock = [page.sock EXCEPT ![s] = "connecting"]
    BY <1>f, <2>1 DEF LogsFields, SessionFields
  <2>3. page'.sock \in [Sockets -> SocketStates]
    BY <1>f, <2>2 DEF SocketStates
  <2>4. ~page.late => \A r \in Sockets : page.sock[r] \notin Alive
    BY <2>1 DEF LogsSound
  <2>5. ~page.late => Held(page')
    BY <1>f, <2>1, <2>2, <2>3, <2>4 DEF Held
  <2> QED
    BY <2>2, <2>3, <2>5 DEF LogsSound
<1>3. CASE LogsStopLive
  <2> DEFINE q == LogsStopped(page)
  <2>1. page' = [q EXCEPT !.liveActive = FALSE]
    BY <1>3 DEF LogsStopLive
  <2>2. /\ LogsSound(q) /\ q.late = page.late
        /\ ~page.late => \A s \in Sockets : q.sock[s] \notin Alive
    BY <1>f, LogsStoppedSound DEF LogsStopped, LogsFields, SessionFields
  <2> HIDE DEF q
  <2>3. LogsFields \subseteq DOMAIN q
    BY <2>2 DEF LogsSound
  <2>4. /\ page'.view = q.view /\ DOMAIN page' = DOMAIN q /\ page'.mounted = q.mounted
        /\ page'.ws = q.ws /\ page'.sock = q.sock /\ page'.late = q.late /\ page'.liveActive = FALSE
    BY <2>1, <2>3 DEF LogsFields, SessionFields
  <2> QED
    BY <2>2, <2>4 DEF LogsSound, Held
<1>4. CASE LogsUnmount
  <2> DEFINE q == LogsStopped(page)
  <2>1. page' = [q EXCEPT !.mounted = FALSE]
    BY <1>4 DEF LogsUnmount
  <2>2. LogsSound(q) /\ q.ws = NoSocket
    BY LogsStoppedSound
  <2> HIDE DEF q
  <2>3. LogsFields \subseteq DOMAIN q
    BY <2>2 DEF LogsSound
  <2>4. /\ page'.view = q.view /\ DOMAIN page' = DOMAIN q /\ page'.mounted = FALSE
        /\ page'.ws = q.ws /\ page'.sock = q.sock /\ page'.late = q.late
        /\ page'.liveActive = q.liveActive
    BY <2>1, <2>3 DEF LogsFields, SessionFields
  <2> QED
    BY <2>2, <2>4 DEF LogsSound, Held
<1>5. ASSUME NEW s \in Sockets, LogsOnOpen(s)
      PROVE  LogsSound(page')
  <2>1. /\ page.sock[s] = "connecting"
        /\ page'.view = page.view /\ DOMAIN page' = DOMAIN page /\ page'.mounted = page.mounted
        /\ page'.ws = page.ws /\ page'.late = page.late /\ page'.liveActive = page.liveActive
        /\ page'.sock = [page.sock EXCEPT ![s] = "open"]
    BY <1>5, <1>f DEF LogsOnOpen, LogsFields, SessionFields
  <2>2. /\ page'.sock \in [Sockets -> SocketStates]
        /\ \A r \in Sockets : page'.sock[r] \in Alive <=> page.sock[r] \in Alive
    BY <1>f, <2>1 DEF SocketStates, Alive
  <2> QED
    BY <2>1, <2>2 DEF LogsSound, Held
<1>6. ASSUME NEW s \in Sockets, LogsOnError(s) \/ LogsOnClose(s)
      PROVE  LogsSound(page')
  BY <1>6, LogsSwitchedOffSound DEF LogsOnError, LogsOnClose
<1> QED
  BY <1>1, <1>2, <1>3, <1>4, <1>5, <1>6 DEF LogsNext, LogsAnswers

-----------------------------------------------------------------------------
(* The lists of the chosen tenant, of the terminal and the console alike    *)

ListFields == {"view", "tenantId", "instanceId", "sshKeyId", "instances", "sshKeys", "stale"}

\* What is chosen is taken from the lists, so these must be those of the tenant too.
ListsSound(p) ==
    /\ p.view \in {Shell, Vnc}
    /\ ListFields \subseteq DOMAIN p
    /\ ~p.stale => {p.instances, p.sshKeys, p.instanceId, p.sshKeyId} \subseteq {None, p.tenantId}

SameLists(p, q) == DOMAIN q = DOMAIN p /\ \A f \in ListFields : q[f] = p[f]

LEMMA SameListsSound ==
    ASSUME NEW p, NEW q, ListsSound(p), SameLists(p, q)
    PROVE  ListsSound(q)
<1>1. /\ q.view = p.view /\ q.tenantId = p.tenantId /\ q.stale = p.stale
      /\ q.instanceId = p.instanceId /\ q.sshKeyId = p.sshKeyId
      /\ q.instances = p.instances /\ q.sshKeys = p.sshKeys
  BY DEF SameLists, ListFields
<1> QED
  BY <1>1 DEF ListsSound, SameLists

\* Another tenant is chosen: everything that hung on the last one is emptied.
LEMMA ConsoleForTenantLists ==
    ASSUME NEW p, ListsSound(p), NEW t
    PROVE  ListsSound(ConsoleForTenant(p, t))
BY DEF ListsSound, ListFields, ConsoleForTenant

\* A list of another tenant than the chosen one is noticed as stale.
LEMMA ConsoleListedLists ==
    ASSUME NEW p, ListsSound(p), NEW list \in {"instances", "sshKeys"}, NEW r, NEW ok
    PROVE  ListsSound(ConsoleListed(p, list, r, ok))
<1>1. CASE ~ok
  BY <1>1 DEF ConsoleListed
<1>2. CASE ok
  <2> DEFINE q == ConsoleListed(p, list, r, ok)
  <2>1. /\ DOMAIN q = DOMAIN p /\ q.view = p.view /\ q.tenantId = p.tenantId
        /\ q.instanceId = p.instanceId /\ q.sshKeyId = p.sshKeyId
        /\ q.stale = (p.stale \/ r.key # p.tenantId)
        /\ q.instances = IF list = "instances" THEN r.key ELSE p.instances
        /\ q.sshKeys = IF list = "sshKeys" THEN r.key ELSE p.sshKeys
    BY <1>2 DEF ConsoleListed, ListsSound, ListFields
  <2> QED
    BY <2>1 DEF ListsSound
<1> QED
  BY <1>1, <1>2

LEMMA ListSteps ==
    ASSUME ListsSound(page), NEW view \in {Shell, Vnc},
           \/ PickInstance(view) \/ PickKey(view)
           \/ \E ok \in BOOLEAN : \/ ConsoleTenants(view, ok) \/ ConsoleInstances(view, ok)
                                 \/ ConsoleSSHKeys(view, ok)
    PROVE  ListsSound(page')
<1>f. ListFields \subseteq DOMAIN page
  BY DEF ListsSound
<1>1. CASE PickInstance(view)
  BY <1>1 DEF PickInstance, ListsSound, ListFields
<1>2. CASE PickKey(view)
  BY <1>2 DEF PickKey, ListsSound, ListFields
<1>3. ASSUME NEW ok \in BOOLEAN, ConsoleTenants(view, ok)
      PROVE  ListsSound(page')
  <2>1. SameLists(page, page')
    BY <1>3, <1>f DEF ConsoleTenants, SameLists, ListFields
  <2> QED
    BY <2>1, SameListsSound
<1>4. ASSUME NEW ok \in BOOLEAN, ConsoleInstances(view, ok)
      PROVE  ListsSound(page')
  BY <1>4, ConsoleListedLists DEF ConsoleInstances
<1>5. ASSUME NEW ok \in BOOLEAN, ConsoleSSHKeys(view, ok)
      PROVE  ListsSound(page')
  <2>1. PICK r : page' = LET p == ConsoleListed(page, "sshKeys", r, ok) IN
                         IF r.op = "sshKeys" THEN p
                         ELSE [p EXCEPT !.sshKeyId = IF p.sshKeys = None THEN @ ELSE p.sshKeys,
                                        !.generating = FALSE]
    BY <1>5 DEF ConsoleSSHKeys
  <2> DEFINE p == ConsoleListed(page, "sshKeys", r, ok)
  <2>2. ListsSound(p)
    BY ConsoleListedLists
  <2> HIDE DEF p
  <2>3. CASE r.op = "sshKeys"
    BY <2>1, <2>2, <2>3 DEF p
  <2>4. CASE r.op # "sshKeys"
    <3>1. page' = [p EXCEPT !.sshKeyId = IF p.sshKeys = None THEN @ ELSE p.sshKeys,
                            !.generating = FALSE]
      BY <2>1, <2>4 DEF p
    <3>2. /\ DOMAIN page' = DOMAIN p /\ page'.view = p.view /\ page'.tenantId = p.tenantId
          /\ page'.instanceId = p.instanceId /\ page'.instances = p.instances
          /\ page'.sshKeys = p.sshKeys /\ page'.stale = p.stale
          /\ page'.sshKeyId \in {p.sshKeyId, p.sshKeys}
      BY <2>2, <3>1 DEF ListsSound, ListFields
    <3> QED
      BY <2>2, <3>2 DEF ListsSound
  <2> QED
    BY <2>3, <2>4
<1> QED
  BY <1>1, <1>2, <1>3, <1>4, <1>5

LEMMA ShellListsSteps ==
    ASSUME ListsSound(page), ShellNext
    PROVE  ListsSound(page')
<1>f. ListFields \subseteq DOMAIN page
  BY DEF ListsSound
<1>1. ASSUME NEW t \in Keys, ShellOnTenantChange(t)
      PROVE  ListsSound(page')
  BY <1>1, ConsoleForTenantLists DEF ShellOnTenantChange
<1>2. CASE \/ PickInstance(Shell) \/ PickKey(Shell)
           \/ \E ok \in BOOLEAN : \/ ConsoleTenants(Shell, ok) \/ ConsoleInstances(Shell, ok)
                                 \/ ConsoleSSHKeys(Shell, ok)
  BY <1>2, ListSteps
<1>3. CASE \/ ShellQuickGenerate \/ ShellDoGenerate \/ ShellCancelGenerate
           \/ ShellConnect \/ ShellOnResize \/ ShellResizeTimer
           \/ \E ok \in BOOLEAN : ShellGenerated(ok)
           \/ \E s \in Sockets : ShellOnOpen(s)
  <2>1. SameLists(page, page')
    BY <1>3, <1>f DEF ShellQuickGenerate, ShellDoGenerate, ShellCancelGenerate, ShellConnect,
                      ShellOnResize, ShellResizeTimer, ShellGenerated, ShellOnOpen,
                      SameLists, ListFields
  <2> QED
    BY <2>1, SameListsSound
<1>4. CASE \/ ShellDisconnect \/ ShellUnmount
           \/ \E s \in Sockets : ShellOnErrorMessage(s) \/ ShellOnError(s) \/ ShellOnClose(s)
  <2>1. SameLists(page, page')
    BY <1>4, <1>f DEF ShellDisconnect, ShellUnmount, ShellOnErrorMessage, ShellOnError,
                      ShellOnClose, Disconnected, SameLists, ListFields
  <2> QED
    BY <2>1, SameListsSound
<1> QED
  BY <1>1, <1>2, <1>3, <1>4 DEF ShellNext, ShellAnswers

LEMMA VncListsSteps ==
    ASSUME ListsSound(page), VncNext
    PROVE  ListsSound(page')
<1>f. ListFields \subseteq DOMAIN page
  BY DEF ListsSound
<1>1. ASSUME NEW t \in Keys, VncOnTenantChange(t)
      PROVE  ListsSound(page')
  <2> DEFINE p == ConsoleForTenant(page, t)
  <2>1. ListsSound(p) /\ page' = [p EXCEPT !.console = None]
    BY <1>1, ConsoleForTenantLists DEF VncOnTenantChange
  <2> HIDE DEF p
  <2>2. SameLists(p, page')
    BY <2>1 DEF SameLists, ListsSound, ListFields
  <2> QED
    BY <2>1, <2>2, SameListsSound
<1>2. CASE \/ PickInstance(Vnc) \/ PickKey(Vnc)
           \/ \E ok \in BOOLEAN : \/ ConsoleTenants(Vnc, ok) \/ ConsoleInstances(Vnc, ok)
                                 \/ ConsoleSSHKeys(Vnc, ok)
  BY <1>2, ListSteps
<1>3. CASE \/ VncStartSession \/ VncStopSession \/ VncOpenEmbedded \/ VncCloseEmbedded
           \/ VncViewerLost \/ VncUnmount
           \/ \E ok \in BOOLEAN : VncStarted(ok) \/ VncStopped(ok) \/ VncEmbeddedLoaded(ok)
  <2>1. SameLists(page, page')
    BY <1>3, <1>f DEF VncStartSession, VncStopSession, VncOpenEmbedded, VncCloseEmbedded,
                      VncViewerLost, VncUnmount, VncStarted, VncStopped, VncEmbeddedLoaded,
                      VncClosedEmbedded, SameLists, ListFields
  <2> QED
    BY <2>1, SameListsSound
<1> QED
  BY <1>1, <1>2, <1>3 DEF VncNext, VncAnswers

-----------------------------------------------------------------------------
(* The theorems                                                             *)

ConsolesInv ==
    \/ ShellSound(page) /\ ListsSound(page)
    \/ ListsSound(page) /\ page.view = Vnc
    \/ LogsSound(page)

LEMMA ViewsDiffer == Shell # Vnc /\ Vnc # Logs /\ Shell # Logs
BY DEF Shell, Vnc, Logs

LEMMA ConsolesInitSound == ConsoleInit => ConsolesInv
<1>1. CASE ShellInit
  <2>1. page.sock \in [Sockets -> SocketStates] /\ \A s \in Sockets : page.sock[s] \notin Alive
    BY <1>1 DEF ShellInit, Opens, SocketStates, Alive
  <2>2. ShellSound(page)
    BY <1>1, <2>1 DEF ShellInit, Opens, ShellSound, ShellFields, SessionFields, Held
  <2>3. ListsSound(page)
    BY <1>1 DEF ShellInit, Opens, ListsSound, ListFields
  <2> QED
    BY <2>2, <2>3 DEF ConsolesInv
<1>2. CASE VncInit
  BY <1>2 DEF VncInit, Opens, ListsSound, ListFields, ConsolesInv
<1>3. CASE LogsInit
  <2>1. page.sock \in [Sockets -> SocketStates] /\ \A s \in Sockets : page.sock[s] \notin Alive
    BY <1>3 DEF LogsInit, Opens, SocketStates, Alive
  <2>2. LogsSound(page)
    BY <1>3, <2>1 DEF LogsInit, Opens, LogsSound, LogsFields, SessionFields, Held
  <2> QED
    BY <2>2 DEF ConsolesInv
<1> QED
  BY <1>1, <1>2, <1>3 DEF ConsoleInit

LEMMA ConsolesStepSound == ConsolesInv /\ [ConsoleNext]_vars => ConsolesInv'
<1> SUFFICES ASSUME ConsolesInv, [ConsoleNext]_vars PROVE ConsolesInv'
  OBVIOUS
<1>1. CASE At(Shell) /\ ShellNext
  <2>1. ShellSound(page) /\ ListsSound(page)
    BY <1>1, ViewsDiffer DEF At, ConsolesInv, LogsSound
  <2>2. ListsSound(page')
    BY <1>1, <2>1, ShellListsSteps
  <2>3. ShellSound(page')
    BY <1>1, <2>1, ShellFrame, ShellSteps DEF ShellNext, ShellAnswers
  <2> QED
    BY <2>2, <2>3 DEF ConsolesInv
<1>2. CASE At(Vnc) /\ VncNext
  <2>1. ListsSound(page) /\ page.view = Vnc
    BY <1>2, ViewsDiffer DEF At, ConsolesInv, LogsSound
  <2>2. ListsSound(page')
    BY <1>2, <2>1, VncListsSteps
  <2>3. page'.view = Vnc
    BY <1>2, <2>1 DEF VncNext, VncAnswers, VncOnTenantChange, PickInstance, PickKey,
        VncStartSession, VncStopSession, VncOpenEmbedded, VncCloseEmbedded, VncViewerLost,
        VncUnmount, VncStarted, VncStopped, VncEmbeddedLoaded, VncClosedEmbedded,
        ConsoleTenants, ConsoleInstances, ConsoleSSHKeys, ConsoleListed, ConsoleForTenant,
        ListsSound, ListFields, Vnc
  <2> QED
    BY <2>2, <2>3 DEF ConsolesInv
<1>3. CASE At(Logs) /\ LogsNext
  <2>1. LogsSound(page)
    BY <1>3, ViewsDiffer DEF At, ConsolesInv, ShellSound
  <2> QED
    BY <1>3, <2>1, LogsSteps DEF ConsolesInv
<1>4. CASE UNCHANGED vars
  BY <1>4 DEF vars, ConsolesInv, ShellSound, ListsSound, LogsSound, Held
<1> QED
  BY <1>1, <1>2, <1>3, <1>4 DEF ConsoleNext

LEMMA ConsolesInvariant == ConsoleSpec => []ConsolesInv
BY ConsolesInitSound, ConsolesStepSound, PTL DEF ConsoleSpec

\* However late a closed socket tells that it is closed, the terminal of ShellConsole.vue
\* and the live log of Logs.vue hold the one that is alive, for any number of sockets.
THEOREM SocketsHeld == ConsoleSpec => []NoLostSocket
<1>1. ConsolesInv => NoLostSocket
  BY ViewsDiffer DEF ConsolesInv, NoLostSocket, Sessions, ShellSound, LogsSound, ListsSound, Held
<1> QED
  BY <1>1, ConsolesInvariant, PTL

\* What ShellConsole.vue says of its connection is so, and no connection can be opened
\* beside one that is held.
THEOREM ShellHonest == ConsoleSpec => []ShellStatusHonest
<1>1. ConsolesInv => ShellStatusHonest
  BY ViewsDiffer DEF ConsolesInv, ShellStatusHonest, ShellSound, LogsSound
<1> QED
  BY <1>1, ConsolesInvariant, PTL

\* The instance and key that ShellConsole.vue and VncConsole.vue connect with are those
\* of the chosen tenant, until a late list of another one is shown.
THEOREM ConsolesCoherent == ConsoleSpec => []ConsoleCoherent
<1>1. ConsolesInv => ConsoleCoherent
  BY ViewsDiffer DEF ConsolesInv, ConsoleCoherent, ListsSound, LogsSound
<1> QED
  BY <1>1, ConsolesInvariant, PTL

=============================================================================
