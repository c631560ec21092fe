------------------------------- MODULE ChangeIP -------------------------------
(***************************************************************************)
(* Changing the public IP of one instance.  The in-memory tasks of          *)
(* handler_memtasks.go retry until an attempt succeeds, the handler of a    *)
(* manual request tries once; each attempt releases the address, obtains    *)
(* another one from the cloud, and publishes it in the DNS and the store.   *)
(*                                                                         *)
(* An action is one call of the cloud, of Cloudflare or of the store.       *)
(***************************************************************************)
EXTENDS Integers, FiniteSets

CONSTANTS
    ChangeTasks,    \* "change_ip" tasks for the instance
    ConfigTasks,    \* "update_cfg" tasks
    BadConfigs,     \* those of ConfigTasks whose numbers do not parse
    Requests,       \* manual requests
    WithDNS,        \* callers that also update the DNS (change_cf_dns)
    Bound,          \* whether the instance has an explicit DNS binding
    Wanted,         \* addresses in the CIDR list
    MaxIPs,         \* bound: the cloud hands out 2..MaxIPs, then the last again
    MaxRecords,     \* bound: DNS records ever created
    Budget          \* bound: how often each disturbance may happen

Tasks   == ChangeTasks \cup ConfigTasks
Callers == ChangeTasks \cup Requests

\* pause: also resume; stop: delete, stopChangeIp; refuse: a call fails or
\* times out; hidden: an address is assigned but the call errs; fault: a
\* statement fails; kill: a panic or a restart.
Disturbances == {"pause", "stop", "refuse", "hidden", "fault", "kill"}

ASSUME ChangeIPAssumption ==
    /\ ChangeTasks \cap ConfigTasks = {} /\ Tasks \cap Requests = {}
    /\ BadConfigs \subseteq ConfigTasks
    /\ WithDNS \subseteq Callers
    /\ Bound \in BOOLEAN
    /\ MaxIPs \in Nat \ {0} /\ MaxIPs \in Wanted
    /\ MaxRecords \in Nat \ {0}
    /\ Budget \in [Disturbances -> Nat]

NoIP == 0
IPs  == 0..MaxIPs

Steps == {"idle", "look", "resolve", "delete", "wait", "create", "filter",
          "discard", "dns", "unlink", "link", "put", "db", "done"}
Calls == [pc : Steps, target : IPs, got : IPs, rec : 0..MaxRecords]

Loops == {"none", "start", "rest", "busy"}
TaskRecords == [state : {"new", "listed", "gone"}, paused : BOOLEAN,
                cancelled : BOOLEAN, loop : Loops]

VARIABLES
    ip, releasing, issued,  \* the cloud: the address, is it being released
    task,                   \* memTasks and the goroutines of the tasks
    call,                   \* the attempts
    db,                     \* instances.public_ip
    records, made,          \* A records of the DNS name, and how many ever
    overlapped,             \* observation: two attempts ran at a time
    budget                  \* observation: disturbances still to come

vars  == <<ip, releasing, issued, task, call, db, records, made, overlapped, budget>>
cloud == <<ip, releasing, issued>>
dns   == <<records, made>>

NoCall == [pc |-> "idle", target |-> NoIP, got |-> NoIP, rec |-> 0]

\* The instance has an address, which the store knows and the DNS may know.
Init ==
    /\ ip = 1 /\ releasing = FALSE /\ issued = 1
    /\ task = [t \in Tasks |-> [state |-> "new", paused |-> FALSE,
                                cancelled |-> FALSE, loop |-> "none"]]
    /\ call = [c \in Callers |-> NoCall]
    /\ db = 1
    /\ \/ records = {} /\ made = 0
       \/ records = {[id |-> 1, ip |-> 1]} /\ made = 1
    /\ overlapped = FALSE
    /\ budget = Budget

Spend(d) ==
    /\ budget[d] > 0
    /\ budget' = [budget EXCEPT ![d] = @ - 1]

InProgress(c) == call[c].pc \notin {"idle", "done"}

-----------------------------------------------------------------------------
(* The handlers of the in-memory tasks.                                     *)

Add(t) ==
    /\ task[t].state = "new"
    /\ task' = [task EXCEPT ![t].state = "listed", ![t].loop = "start"]
    /\ UNCHANGED <<cloud, call, db, dns, overlapped, budget>>

SetPaused(t, p) ==
    /\ task[t].state = "listed" /\ task[t].paused # p
    /\ task' = [task EXCEPT ![t].paused = p]
    /\ Spend("pause")
    /\ UNCHANGED <<cloud, call, db, dns, overlapped>>

\* Mutation of Cancelled, used only to test the properties.
Cancelled_NotClosed(ts) ==
    [t \in Tasks |-> IF t \in ts THEN [task[t] EXCEPT !.state = "gone"] ELSE task[t]]

\* Mutation of Cancelled, used only to test the properties.
Cancelled_UnknownState(ts) ==
    [t \in Tasks |-> IF t \in ts THEN [task[t] EXCEPT !.cancelled = TRUE, !.state = "cancelled"]
                     ELSE task[t]]

\* Close the channel and drop the entry, for every task of ts.
Cancelled(ts) ==
    [t \in Tasks |-> IF t \in ts THEN [task[t] EXCEPT !.cancelled = TRUE, !.state = "gone"]
                     ELSE task[t]]

Cancel(ts) ==
    /\ ts # {} /\ \A t \in ts : task[t].state = "listed"
    /\ task' = Cancelled(ts)
    /\ Spend("stop")
    /\ UNCHANGED <<cloud, call, db, dns, overlapped>>

Delete(t) == Cancel({t})

stopChangeIp == Cancel({t \in ChangeTasks : task[t].state = "listed"})

-----------------------------------------------------------------------------
(* The loop of a task.                                                      *)

\* An attempt returned false: wait for the next tick.
Rests(t) == task' = [task EXCEPT ![t].loop = "rest"]

\* Mutation of Finished, used only to test the properties.
Finished_StaysListed(t) == Rests(t)

\* An attempt returned true, having dropped the entry.
Finished(t) == task' = [task EXCEPT ![t].loop = "none", ![t].state = "gone"]

\* The first attempt, or a tick.  select picks at random between a tick and a
\* closed channel, so a cancelled task may begin another attempt.
Attempt(t) ==
    /\ task[t].loop \in {"start", "rest"} /\ ~task[t].paused
    /\ task' = [task EXCEPT ![t].loop = "busy"]
    /\ IF t \in ChangeTasks
       THEN /\ call' = [call EXCEPT ![t] = [NoCall EXCEPT !.pc = "look"]]
            /\ overlapped' = (overlapped \/ \E c \in Callers : InProgress(c))
       ELSE UNCHANGED <<call, overlapped>>
    /\ UNCHANGED <<cloud, db, dns, budget>>

SkipPaused(t) ==
    /\ task[t].loop = "start" /\ task[t].paused
    /\ Rests(t)
    /\ UNCHANGED <<cloud, call, db, dns, overlapped, budget>>

LoopEnds(t) ==
    /\ task[t].loop = "rest" /\ task[t].cancelled
    /\ task' = [task EXCEPT ![t].loop = "none"]
    /\ UNCHANGED <<cloud, call, db, dns, overlapped, budget>>

\* client.UpdateInstance of an update_cfg task; bad numbers never get there.
UpdateInstance(t) ==
    /\ t \in ConfigTasks /\ task[t].loop = "busy"
    /\ \/ t \notin BadConfigs /\ Finished(t) /\ UNCHANGED budget
       \/ t \in BadConfigs /\ Rests(t) /\ UNCHANGED budget
       \/ Spend("refuse") /\ Rests(t)
       \/ Spend("fault") /\ Finished(t)      \* the tenant is not found
    /\ UNCHANGED <<cloud, call, db, dns, overlapped>>

-----------------------------------------------------------------------------
(* An attempt: ChangeInstanceIP.                                            *)

\* handleChangeIP
Request(c) ==
    /\ c \in Requests /\ call[c].pc = "idle"
    /\ call' = [call EXCEPT ![c].pc = "look"]
    /\ overlapped' = (overlapped \/ \E d \in Callers : InProgress(d))
    /\ UNCHANGED <<cloud, task, db, dns, budget>>

Goto(c, p) == call' = [call EXCEPT ![c].pc = p]

\* The call of a request ends, and so does that of a task until its next one.
Return(c) == call' = [call EXCEPT ![c] = [NoCall EXCEPT !.pc =
                         IF c \in Requests THEN "done" ELSE "idle"]]

\* Mutation of Failed, used only to test the properties.
Failed_GivesUp(c) ==
    /\ Return(c)
    /\ IF c \in Tasks THEN Finished(c) ELSE UNCHANGED task

\* The attempt errs: a task tries again, a request answers with the error.
Failed(c) ==
    /\ Return(c)
    /\ IF c \in Tasks THEN Rests(c) ELSE UNCHANGED task

Succeeded(c) ==
    /\ Return(c)
    /\ IF c \in Tasks THEN Finished(c) ELSE UNCHANGED task

\* The tenant was deleted or could not be read: a task gives up.
TenantMissing(c) ==
    /\ call[c].pc = "look"
    /\ Spend("fault")
    /\ Succeeded(c)
    /\ UNCHANGED <<cloud, db, dns, overlapped>>

CallFails(c) ==
    /\ call[c].pc \in {"look", "resolve", "delete", "create"}
    /\ Spend("refuse")
    /\ Failed(c)
    /\ UNCHANGED <<cloud, db, dns, overlapped>>

\* resolvePublicIPVnic and the primary private IP.  An address that is being
\* released may or may not be shown.
Look(c) ==
    /\ call[c].pc = "look"
    /\ \/ ip # NoIP /\ Goto(c, "resolve")
       \/ (ip = NoIP \/ releasing) /\ Goto(c, "create")
    /\ UNCHANGED <<cloud, task, db, dns, overlapped, budget>>

\* publicIPIDForPrivateIPs
Resolve(c) ==
    /\ call[c].pc = "resolve"
    /\ \/ /\ ip # NoIP
          /\ call' = [call EXCEPT ![c].pc = "delete", ![c].target = ip]
          /\ UNCHANGED task
       \/ (ip = NoIP \/ releasing) /\ Failed(c)
    /\ UNCHANGED <<cloud, db, dns, overlapped, budget>>

\* Mutation of DeleteOld, used only to test the properties.
DeleteOld_NoWait(c) ==
    /\ call[c].pc = "delete"
    /\ releasing' = (releasing \/ ip = call[c].target)
    /\ Goto(c, "create")
    /\ UNCHANGED <<ip, issued, task, db, dns, overlapped, budget>>

\* DeletePublicIp of the address found; not found means it is already gone.
DeleteOld(c) ==
    /\ call[c].pc = "delete"
    /\ IF ip = call[c].target THEN releasing' = TRUE /\ Goto(c, "wait")
       ELSE UNCHANGED releasing /\ Goto(c, "create")
    /\ UNCHANGED <<ip, issued, task, db, dns, overlapped, budget>>

\* waitPublicIPGone
Gone(c) ==
    /\ call[c].pc = "wait" /\ ip # call[c].target
    /\ Goto(c, "create")
    /\ UNCHANGED <<cloud, task, db, dns, overlapped, budget>>

WaitTimesOut(c) ==
    /\ call[c].pc = "wait" /\ ip = call[c].target
    /\ Spend("refuse")
    /\ Failed(c)
    /\ UNCHANGED <<cloud, db, dns, overlapped>>

NextIP == IF issued < MaxIPs THEN issued + 1 ELSE MaxIPs

Assign ==
    /\ ip = NoIP
    /\ ip' = NextIP /\ issued' = NextIP
    /\ UNCHANGED releasing

\* CreatePublicIp, which the cloud refuses while there is an address.
Create(c) ==
    /\ call[c].pc = "create"
    /\ \/ Assign /\ call' = [call EXCEPT ![c].pc = "filter", ![c].got = NextIP]
                 /\ UNCHANGED <<task, budget>>
       \/ Assign /\ Spend("hidden") /\ Failed(c)
       \/ ip # NoIP /\ Failed(c) /\ UNCHANGED <<cloud, budget>>
    /\ UNCHANGED <<db, dns, overlapped>>

\* Mutation of Matches, used only to test the properties.
Matches_Anything(a) == a \in IPs

\* ipInCIDR, for one of the ranges.
Matches(a) == a \in Wanted

Accept(c) ==
    /\ call[c].pc = "filter" /\ Matches(call[c].got)
    /\ Goto(c, IF c \in WithDNS THEN "dns" ELSE "db")
    /\ UNCHANGED <<cloud, task, db, dns, overlapped, budget>>

\* Release the address again; an error is logged.
Discard(c) ==
    /\ call[c].pc = "filter" /\ ~Matches(call[c].got)
    /\ \/ /\ releasing' = (releasing \/ ip = call[c].got)
          /\ Goto(c, "discard")
          /\ UNCHANGED <<task, budget>>
       \/ Spend("refuse") /\ Failed(c) /\ UNCHANGED releasing
    /\ UNCHANGED <<ip, issued, db, dns, overlapped>>

\* It is waited for, and the attempt errs in any case.
Discarded(c) ==
    /\ call[c].pc = "discard"
    /\ \/ ip # call[c].got /\ UNCHANGED budget
       \/ ip = call[c].got /\ Spend("refuse")
    /\ Failed(c)
    /\ UNCHANGED <<cloud, db, dns, overlapped>>

\* The cloud completes the release.
Release ==
    /\ releasing
    /\ ip' = NoIP /\ releasing' = FALSE
    /\ UNCHANGED <<issued, task, call, db, dns, overlapped, budget>>

-----------------------------------------------------------------------------
(* Publishing: updateCfDNSAfterChangeIP and UpdateInstancePublicIP.          *)

HasRecord(i) == \E r \in records : r.id = i
Shown(a)     == \E r \in records : r.ip = a

\* Mutation of Found, used only to test the properties.
Found_Nothing(i) == i = 0

\* What a listing finds: one of the records, or none.
Found(i) == IF records = {} THEN i = 0 ELSE HasRecord(i)

\* CreateDNSRecord; Cloudflare refuses an identical record.
CreateRecord(a) ==
    IF Shown(a) THEN UNCHANGED dns
    ELSE /\ made < MaxRecords
         /\ made' = made + 1
         /\ records' = records \cup {[id |-> made + 1, ip |-> a]}

\* UpdateDNSRecord, which fails for a record that is gone.
UpdateRecord(i, a) ==
    /\ records' = IF HasRecord(i) /\ ~Shown(a)
                  THEN {r \in records : r.id # i} \cup {[id |-> i, ip |-> a]}
                  ELSE records
    /\ UNCHANGED made

\* ListDNSRecords: a binding's record is left alone if it is right and else
\* updated, a legacy name's is deleted and made again.
ListRecords(c) ==
    /\ call[c].pc = "dns"
    /\ \E i \in 0..MaxRecords :
        /\ Found(i)
        /\ call' = [call EXCEPT ![c].rec = i, ![c].pc =
             CASE Bound /\ [id |-> i, ip |-> call[c].got] \in records -> "db"
               [] Bound /\ [id |-> i, ip |-> call[c].got] \notin records -> "put"
               [] ~Bound /\ i = 0 -> "link"
               [] OTHER -> "unlink"]
    /\ UNCHANGED <<cloud, task, db, dns, overlapped, budget>>

Unlink(c) ==
    /\ call[c].pc = "unlink"
    /\ records' = {r \in records : r.id # call[c].rec}
    /\ Goto(c, IF HasRecord(call[c].rec) THEN "link" ELSE "db")
    /\ UNCHANGED <<cloud, task, db, made, overlapped, budget>>

Link(c) ==
    /\ call[c].pc = "link"
    /\ CreateRecord(call[c].got)
    /\ Goto(c, "db")
    /\ UNCHANGED <<cloud, task, db, overlapped, budget>>

\* syncBindingToDNS
Put(c) ==
    /\ call[c].pc = "put"
    /\ IF call[c].rec = 0 THEN CreateRecord(call[c].got)
       ELSE UpdateRecord(call[c].rec, call[c].got)
    /\ Goto(c, "db")
    /\ UNCHANGED <<cloud, task, db, overlapped, budget>>

\* An error of Cloudflare is logged or reported, and the change goes on.
DNSFails(c) ==
    /\ call[c].pc \in {"dns", "unlink", "link", "put"}
    /\ Spend("refuse")
    /\ Goto(c, "db")
    /\ UNCHANGED <<cloud, task, db, dns, overlapped>>

WriteDB(c) ==
    /\ call[c].pc = "db"
    /\ \/ db' = call[c].got /\ UNCHANGED budget
       \/ Spend("fault") /\ UNCHANGED db
    /\ Succeeded(c)
    /\ UNCHANGED <<cloud, dns, overlapped>>

-----------------------------------------------------------------------------
\* safeGo recovers the panic of an attempt: the goroutine is gone, the entry
\* of the task stays.  net/http recovers that of a request.
Panic(c) ==
    /\ InProgress(c)
    /\ Spend("kill")
    /\ Return(c)
    /\ task' = IF c \in Tasks THEN [task EXCEPT ![c].loop = "none"] ELSE task
    /\ UNCHANGED <<cloud, db, dns, overlapped>>

\* The tasks live in memory only.
Restart ==
    /\ Spend("kill")
    /\ task' = [t \in Tasks |-> IF task[t].state = "new" THEN task[t]
                                ELSE [task[t] EXCEPT !.state = "gone", !.loop = "none"]]
    /\ call' = [c \in Callers |-> IF InProgress(c) /\ c \in Requests
                                  THEN [NoCall EXCEPT !.pc = "done"]
                                  ELSE IF c \in Requests THEN call[c] ELSE NoCall]
    /\ UNCHANGED <<cloud, db, dns, overlapped>>

User ==
    \/ \E t \in Tasks : Add(t) \/ Delete(t) \/ \E p \in BOOLEAN : SetPaused(t, p)
    \/ stopChangeIp

Loop(t) == Attempt(t) \/ SkipPaused(t) \/ UpdateInstance(t)

ChangeInstanceIP(c) ==
    \/ TenantMissing(c) \/ CallFails(c)
    \/ Look(c) \/ Resolve(c) \/ DeleteOld(c) \/ Gone(c) \/ WaitTimesOut(c)
    \/ Create(c) \/ Accept(c) \/ Discard(c) \/ Discarded(c)

Publish(c) ==
    ListRecords(c) \/ Unlink(c) \/ Link(c) \/ Put(c) \/ DNSFails(c) \/ WriteDB(c)

\* Everything but the end of the process.
Running ==
    \/ User
    \/ \E t \in Tasks : Loop(t) \/ LoopEnds(t)
    \/ \E c \in Callers : Request(c) \/ ChangeInstanceIP(c) \/ Publish(c) \/ Panic(c)
    \/ Release

Next == Running \/ Restart

Spec == Init /\ [][Next]_vars

\* The ticker of a task fires and its calls return; the cloud completes what
\* it accepted; and select, which picks at random, does not choose the tick
\* over the closed channel for ever.
Fairness ==
    /\ \A t \in Tasks : WF_vars(Loop(t)) /\ SF_vars(LoopEnds(t))
    /\ \A c \in Callers : WF_vars(ChangeInstanceIP(c)) /\ WF_vars(Publish(c))
    /\ WF_vars(Release)

FairSpec == Spec /\ Fairness

-----------------------------------------------------------------------------
Records == [id : 1..MaxRecords, ip : IPs]

TypeOK ==
    /\ ip \in IPs /\ releasing \in BOOLEAN /\ issued \in IPs
    /\ task \in [Tasks -> TaskRecords]
    /\ call \in [Callers -> Calls]
    /\ db \in IPs
    /\ records \subseteq Records /\ made \in 0..MaxRecords
    /\ overlapped \in BOOLEAN
    /\ budget \in [Disturbances -> Nat]

Untouched(ds) == \A d \in ds : budget[d] = Budget[d]

Resting == \A c \in Callers : ~InProgress(c)

\* An attempt that is alone asks for a new address only when the old one has
\* gone, so that the cloud does not refuse it and the instance is not left
\* without one, unless a call failed or timed out before.
NeverRefused ==
    ~overlapped /\ Untouched({"refuse", "hidden", "kill"}) =>
        \A c \in Callers : call[c].pc = "create" => ip = NoIP

\* What makes NeverRefused inductive: of attempts that never overlapped there
\* is one at most; and while no call has failed, the cloud is where the step
\* of that attempt supposes it to be, and releases nothing behind its back.
Alone ==
    ~overlapped => \A c, d \in Callers : InProgress(c) /\ InProgress(d) => c = d

Undisturbed == ~overlapped /\ Untouched({"refuse", "hidden", "kill"})

ReleasedOrHeld(a) ==
    a # NoIP /\ (IF releasing THEN ip = a ELSE ip = NoIP)

InStep(c) ==
    /\ call[c].pc = "resolve" => ip # NoIP
    /\ call[c].pc = "delete"  => ip # NoIP /\ ip = call[c].target
    /\ call[c].pc = "wait"    => ReleasedOrHeld(call[c].target)
    /\ call[c].pc = "create"  => ip = NoIP
    /\ call[c].pc = "filter"  => ip # NoIP /\ ip = call[c].got
    /\ call[c].pc = "discard" => ReleasedOrHeld(call[c].got)

Waiting == \E c \in Callers : call[c].pc \in {"wait", "discard"}

CloudInStep ==
    Undisturbed => (releasing => Waiting) /\ \A c \in Callers : InStep(c)

WithinBudget == \A d \in Disturbances : budget[d] <= Budget[d]

IInv == TypeOK /\ WithinBudget /\ Alone /\ CloudInStep

\* A task does not come to an end and leave the instance without an address:
\* as long as nobody stops it and no manual request interferes, an instance
\* without an address has a task that goes on trying.
NotStranded ==
    /\ ip = NoIP /\ Resting
    /\ Untouched({"stop", "fault", "kill"})
    /\ \A c \in Requests : call[c].pc = "idle"
    => \E t \in ChangeTasks : task[t].state = "listed" /\ task[t].loop = "rest"

\* Between attempts that never overlapped, and without failures, the store and
\* the DNS agree with the cloud on an address that the list of ranges admits,
\* unless there is none.
Settled ==
    Resting /\ ~overlapped /\ Untouched({"refuse", "hidden", "fault", "kill"}) =>
        \/ ip = NoIP \/ releasing
        \/ /\ ip \in Wanted \cup {1}
           /\ db = ip
           /\ WithDNS = Callers => \A r \in records : r.ip = ip

\* The goroutine of a task that is no longer listed comes to an end.
StopsEventually == \A t \in Tasks : task[t].state = "gone" ~> task[t].loop = "none"

\* A task that is listed, not paused and has a goroutine is done some day.
Obtains ==
    \A t \in Tasks \ BadConfigs :
        <>[](task[t].state = "listed" => task[t].paused \/ task[t].loop = "none")

=============================================================================
