------------------------------ MODULE AddressSync ------------------------------
(***************************************************************************)
(* Where the address of an instance goes besides ChangeIP: the sync of the  *)
(* instances reads it from the cloud into the store, and the DNS auto-sync  *)
(* carries it every minute from the store to the DNS.  Both work on what    *)
(* they read a while ago, next to the callers of ChangeIP.                  *)
(***************************************************************************)
EXTENDS ChangeIP

CONSTANT MaxSyncs   \* bound: runs of handleSync, one at a time

ASSUME AddressSyncAssumption == MaxSyncs \in Nat

VARIABLES
    last,   \* instances.dns_last_ip
    sync,   \* a run of handleSync, and how many are still to come
    auto    \* a run of runDNSAutoSync, and whether one is running

avars == <<vars, last, sync, auto>>

AutoIdle == [pc |-> "idle", addr |-> NoIP, rec |-> 0]

Syncs == [pc : {"idle", "vnics", "upsert"}, seen : IPs, left : 0..MaxSyncs]
Autos == [pc : {"idle", "list", "put", "save"}, addr : IPs, rec : 0..MaxRecords]

AInit ==
    /\ Init
    /\ \/ last = NoIP
       \/ Shown(1) /\ last = 1
    /\ sync = [pc |-> "idle", seen |-> NoIP, left |-> MaxSyncs]
    /\ auto = AutoIdle

-----------------------------------------------------------------------------
(* handleSync.                                                              *)

SyncEnds == sync' = [sync EXCEPT !.pc = "idle", !.seen = NoIP]

\* Every instance is upserted as it was listed, without its addresses.
UpsertInstances ==
    /\ sync.pc = "idle" /\ sync.left > 0
    /\ sync' = [sync EXCEPT !.pc = "vnics", !.left = @ - 1]
    /\ db' = NoIP
    /\ UNCHANGED <<cloud, task, call, dns, overlapped, budget, last, auto>>

\* GetInstanceVNICs; an error leaves the instance without an address.
GetInstanceVNICs ==
    /\ sync.pc = "vnics"
    /\ \/ /\ \E a \in {ip} \cup (IF releasing THEN {NoIP} ELSE {}) :
               sync' = [sync EXCEPT !.pc = "upsert", !.seen = a]
          /\ UNCHANGED budget
       \/ SyncEnds /\ Spend("refuse")
    /\ UNCHANGED <<cloud, task, call, db, dns, overlapped, last, auto>>

\* The second UpsertInstance.
UpsertVNIC ==
    /\ sync.pc = "upsert"
    /\ SyncEnds
    /\ \/ db' = sync.seen /\ UNCHANGED budget
       \/ Spend("fault") /\ UNCHANGED db
    /\ UNCHANGED <<cloud, task, call, dns, overlapped, last, auto>>

-----------------------------------------------------------------------------
(* runDNSAutoSync, for the one instance.                                    *)

\* An instance without an address is left out, and one without a binding too
\* if its address is the one last written.
ToWrite == db # NoIP /\ (Bound \/ last # db)

\* A tick or a trigger, unless a run is going on: ListInstances.
ListInstances ==
    /\ auto.pc = "idle"
    /\ ToWrite
    /\ auto' = [AutoIdle EXCEPT !.pc = "list", !.addr = db]
    /\ UNCHANGED <<vars, last, sync>>

\* A run that a binding failed in goes on; without a binding it is over.
Erred == auto' = IF Bound THEN [auto EXCEPT !.pc = "save"] ELSE AutoIdle

\* ListDNSRecords: nothing to do for a binding's record that is right.
FindRecord ==
    /\ auto.pc = "list"
    /\ \E i \in 0..MaxRecords :
        /\ Found(i)
        /\ auto' = [auto EXCEPT !.rec = i, !.pc =
             IF Bound /\ [id |-> i, ip |-> auto.addr] \in records THEN "save" ELSE "put"]
    /\ UNCHANGED <<vars, last, sync>>

\* Cloudflare accepts the write: the record is there, and no other is alike.
Accepted(i, a) ==
    IF i = 0 THEN ~Shown(a)
    ELSE HasRecord(i) /\ \A r \in records : r.ip = a => r.id = i

WriteRecord ==
    /\ auto.pc = "put"
    /\ IF auto.rec = 0 THEN CreateRecord(auto.addr) ELSE UpdateRecord(auto.rec, auto.addr)
    /\ IF Accepted(auto.rec, auto.addr) THEN auto' = [auto EXCEPT !.pc = "save"] ELSE Erred
    /\ UNCHANGED <<cloud, task, call, db, overlapped, budget, last, sync>>

\* Mutation of AutoFails, used only to test the properties.
AutoFails_StillSaves ==
    /\ auto.pc \in {"list", "put"}
    /\ Spend("refuse")
    /\ auto' = [auto EXCEPT !.pc = "save"]
    /\ UNCHANGED <<cloud, task, call, db, dns, overlapped, last, sync>>

AutoFails ==
    /\ auto.pc \in {"list", "put"}
    /\ Spend("refuse")
    /\ Erred
    /\ UNCHANGED <<cloud, task, call, db, dns, overlapped, last, sync>>

\* Mutation of UpdateInstanceDNSIP, used only to test the properties.
UpdateInstanceDNSIP_Current ==
    /\ auto.pc = "save"
    /\ auto' = AutoIdle
    /\ last' = db
    /\ UNCHANGED <<vars, sync>>

UpdateInstanceDNSIP ==
    /\ auto.pc = "save"
    /\ auto' = AutoIdle
    /\ \/ last' = auto.addr /\ UNCHANGED budget
       \/ Spend("fault") /\ UNCHANGED last
    /\ UNCHANGED <<cloud, task, call, db, dns, overlapped, sync>>

\* Mutation of AutoPanic, used only to test the properties.
AutoPanic_StaysRunning ==
    /\ auto.pc # "idle"
    /\ Spend("kill")
    /\ auto' = [auto EXCEPT !.pc = "stuck"]
    /\ UNCHANGED <<cloud, task, call, db, dns, overlapped, last, sync>>

\* A panic is recovered and the mark of the running run is taken away.
AutoPanic ==
    /\ auto.pc # "idle"
    /\ Spend("kill")
    /\ auto' = AutoIdle
    /\ UNCHANGED <<cloud, task, call, db, dns, overlapped, last, sync>>

-----------------------------------------------------------------------------
handleSync == UpsertInstances \/ GetInstanceVNICs \/ UpsertVNIC

runDNSAutoSync ==
    ListInstances \/ FindRecord \/ WriteRecord \/ AutoFails \/ UpdateInstanceDNSIP

ANext ==
    \/ Running /\ UNCHANGED <<last, sync, auto>>
    \/ handleSync
    \/ runDNSAutoSync
    \/ AutoPanic
    \/ Restart /\ SyncEnds /\ auto' = AutoIdle /\ UNCHANGED last

ASpec == AInit /\ [][ANext]_avars

\* As in ChangeIP; the monitor ticks and its calls return, and a sync that has
\* begun goes on.
AFairness ==
    /\ \A t \in Tasks : WF_avars(Loop(t) /\ UNCHANGED <<last, sync, auto>>)
    /\ \A c \in Callers :
        WF_avars((ChangeInstanceIP(c) \/ Publish(c)) /\ UNCHANGED <<last, sync, auto>>)
    /\ WF_avars(Release /\ UNCHANGED <<last, sync, auto>>)
    /\ WF_avars(GetInstanceVNICs \/ UpsertVNIC)
    /\ WF_avars(runDNSAutoSync)

AFairSpec == ASpec /\ AFairness

-----------------------------------------------------------------------------
ATypeOK ==
    /\ TypeOK
    /\ last \in IPs
    /\ sync \in Syncs
    /\ auto \in Autos

\* Without a binding, dns_last_ip is the address that the auto-sync wrote last,
\* and so one that is shown, unless a run broke off between the record and the
\* store: the next one would take an outdated record for a current one.
\* (Where callers write the DNS too, they may have replaced the record.)
LastHonest ==
    /\ ~Bound /\ WithDNS = {} /\ Untouched({"fault", "kill"})
    /\ last # NoIP /\ auto.pc # "save"
    => Shown(last)

\* Once changes, syncs and failures have come to an end, the DNS follows the
\* store: it shows the instance's address and no other.
Follows == <>[](db # NoIP => Shown(db) /\ \A r \in records : r.ip = db)

\* The same where the name had its record to begin with.
FollowsOnce == records # {} => Follows

=============================================================================
