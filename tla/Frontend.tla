------------------------------- MODULE Frontend -------------------------------
(***************************************************************************)
(* The web frontend: whichever page of it is mounted, its handlers, and the *)
(* answers of its requests in any order.  The pages share no state, so the  *)
(* frontend is their sum; its properties are those that several pages have  *)
(* to keep, each of them in its own way.                                    *)
(***************************************************************************)
EXTENDS Session, Wizards, Consoles, InstanceViews, DnsViews, TaskViews, NetworkViews,
        TrafficViews, TenantViews, AdminViews

FrontendInit ==
    \/ SessionInit \/ WizardInit \/ ConsoleInit \/ InstancesInit \/ DnsInit \/ TaskInit
    \/ NetworkInit \/ FigureInit \/ AccountInit \/ AdminInit

FrontendAnswers ==
    \/ At(Session) /\ SessionAnswers
    \/ At(Instances) /\ InstancesAnswers
    \/ WizardAnswers \/ ConsoleAnswers \/ DnsAnswers \/ TaskAnswers
    \/ NetworkAnswers \/ FigureAnswers \/ AccountAnswers \/ AdminAnswers

FrontendNext ==
    \/ At(Session) /\ SessionNext
    \/ At(Instances) /\ InstancesNext
    \/ WizardNext \/ ConsoleNext \/ DnsNext \/ TaskNext
    \/ NetworkNext \/ FigureNext \/ AccountNext \/ AdminNext

FrontendSpec == FrontendInit /\ [][FrontendNext]_vars

\* Every request is answered or given up after 30 seconds and, a GET, three repetitions,
\* every timer of a page fires and every socket opens or fails; the user may stop.
FairFrontend == FrontendSpec /\ WF_vars(FrontendAnswers)

-----------------------------------------------------------------------------
(* Safety                                                                   *)

\* What a form holds and sends belongs together: domain, image and shape, instance and
\* key are those of the chosen tenant (Wizards, Consoles), and a task is added for an
\* instance of its tenant, although each list arrives when it likes; but after a late
\* answer has put the list of another choice before the user.
FormsCoherent ==
    /\ CascadeCoherent
    /\ ConsoleCoherent
    /\ At(MemTasks) => page.stale \/ page.instanceId \in {None, page.tenantId}

\* A rule, an address or a DNS record is changed or deleted where it was listed, with the
\* tenant or the configuration it was listed for; but after a late answer.
WrittenWhereListed == RowOfChoice /\ RecordOfZone

\* The rows a batch would act on are rows of the table, also after late lists have
\* replaced them.
BatchesShown ==
    /\ SelectionShown
    /\ At(CreateTasks) => page.selected \subseteq TaskRowsOf(page.shown)

\* Nothing is terminated or deleted but what the user confirmed, whatever arrives while
\* the confirmation is open and while a batch goes on.
DestroyedIfConfirmed ==
    /\ TerminationConfirmed
    /\ At(CreateTasks) => \A r \in InFlight("deleteTasks") : r.arg \subseteq page.confirmed

\* The operations that must not run beside each other, by what they run on: an instance's
\* network operations, the synchronisation of tenants, a restore and an export.
OperationsOf(row) ==
    CASE At(Instances) -> {r \in InFlight("500m") \cup InFlight("ipv6") : r.key = row}
      [] At(Tenants)   -> IF row = None THEN InFlight("sync") ELSE {}
      [] At(Backup)    -> IF row = None THEN InFlight("export") \cup InFlight("restore") ELSE {}
      [] OTHER         -> {}

UnderWay == [row \in Keys \cup {None} |->
                [r \in OperationsOf(row) |-> calls[r]]]

Operations == INSTANCE Exclusive WITH Resources <- Keys \cup {None}, underWay <- UnderWay

\* The pages implement Exclusive: an operation of these starts only when the last one on
\* the same thing has ended.
OneAtATime == Operations!Spec

\* A label on a button stands for a request of that operation, also when operations end
\* in another order than they began.
LabelsHonest == ActingHonest /\ TenantActingHonest

\* The map of Home falls back to the next provider for errors of the current one only and
\* keeps its markers to itself; the measurements are polled by one interval at most.
HomeAndMetricsSound == TilesRotate /\ MarkersOnMap /\ OneInterval

\* What is typed, generated or said in one opening of a dialog or one conversation does
\* not show up in the next, unless an answer outlived its own.
AnswersOfOpening == KeyOfOpening /\ GeneratedOfOpening /\ ChatOfSession

-----------------------------------------------------------------------------
(* Liveness                                                                 *)

Flags == {"loading", "loadingTenants", "tenantsLoading", "loadingADs", "loadingImages",
          "loadingShapes", "loadingVCNs", "loadingInstances", "zonesLoading", "recordsLoading",
          "bLoading", "bZonesLoading", "embedLoading", "saving", "bSaving", "savingSync",
          "batchSaving", "adding", "checking", "generating", "connecting", "stopping",
          "refreshing", "reserving", "replacing", "importing", "resetting", "syncing", "guarded"}

\* Flags that hold the name of what is busy, None when nothing is.
Labels == {<<Detail, "acting">>, <<TenantDetail, "acting">>, <<SecurityRules, "deleting">>,
           <<PublicIPs, "deleting">>, <<Tenants, "syncing">>, <<Tenants, "alive">>}

\* Flags that hold the set of what is busy.
Sets == {<<Traffic, "loading">>, <<Detail, "saving">>, <<SettingsButtons, "busy">>}

\* The flag of the login form, which a refused sign-in leaves on (see Session).
Stuck == <<Session, "loading">>

\* The page shows that something is under way (a dialog that waits for a verification
\* code is not).
Busy ==
    \/ \E f \in DOMAIN page \cap Flags :
           <<page.view, f>> \notin Labels \cup Sets \cup {Stuck} /\ page[f]
    \/ \E l \in Labels : At(l[1]) /\ page[l[2]] # None /\ ~(At(Detail) /\ page.prompts > 0)
    \/ \E l \in Sets : At(l[1]) /\ page[l[2]] # {}
    \/ At(Instances) /\ \E row \in Keys : page.busy[row] # None

\* No page stays busy, as Busy has it: however requests fail and answers are reordered,
\* each flag that blocks a button or veils a table is taken back in the end.  Not counted
\* are the login form's, which a refusal leaves on, and a dialog that waits for a code.
SpinnersEnd == Busy ~> ~Busy

=============================================================================
