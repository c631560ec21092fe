# A verification project for oci-helper-go

oci-helper-go is a Go server with a Vue front end that manages Oracle Cloud
accounts.  It stores tenants and their API keys in SQLite, creates and starts
instances in the background, changes their public addresses, keeps DNS records
in step, and is operated through web pages and a Telegram bot.

This directory holds TLA+ models of the parts whose correctness depends on the
order of events, the TLC configurations that check them on small instances, and
TLAPS proofs of the properties that matter most.  There are two halves: the
server's long-running work (`TaskWorker`, `CreateScheduler`, `ChangeIP`,
`AddressSync`) and the pages of the front end with their requests (`Frontend`
and what it extends).  `PROJECT.json` lists, for each definition, the lines of
code it stands for, and for each run the properties it checks.

    tlc -workers 2 -config worker_chaos.cfg MCTaskWorker.tla
    tlc -workers 2 -config ui.cfg MCFrontend.tla
    tlapm TaskWorkerProofs.tla

## 1. Inventory

Paths are relative to `src/`.  *Modelled* parts come first.

### Background task worker
`internal/handler/worker.go`, `handler_tasks.go`, `handleBatchStart` in
`handler_instances.go`, the task functions of `internal/db/queries.go`,
`cmd/server/main.go`.

- State: the `tasks` table (type, status, JSON payload with `completedIndex`,
  parent id), the worker goroutine, a semaphore of five, one goroutine per
  claimed row, the `stop` channel.
- Operations: submit a batch (one row, or a parent and one row per tenant),
  stop, pause, resume, edit; scan, claim, run item by item, save a checkpoint,
  yield, finish; reset running rows at boot and at shutdown.
- Interactions: handlers and runners write the same row's status, with no
  condition except `ClaimTask`'s; a child reports to its parent row.
- Hard: pauses that land between a read and a write of a live runner, scans that
  are claimed later, crashes between an OCI call and its checkpoint, panics of
  the worker goroutine while its runners live on, writes whose error is ignored.
- Correct when: no instance is skipped, *completed* means all were tried, what
  is repeated is bounded by what went wrong, one goroutine per row, no running
  row without a goroutine, every batch comes to rest.

### Recurring create scheduler
`internal/handler/handler_createtasks.go`, `queries.go` 641-769.

- State: the `create_tasks` table (paused, `create_numbers`, `last_run_at`), the
  process-wide `createTaskRunning` map, one goroutine per run.
- Operations: schedule, pause, resume, change, remove; every five seconds list
  the active rows and start those that are due; a run launches instances in
  each availability domain and at its end deletes the row or writes back what
  remains.
- Hard: a run works on a copy that was listed earlier and may outlast its
  interval; launches that take effect but err; a crash before the count is
  written; the failed closing write.
- Correct when: never two runs of a schedule, launched and outstanding add up
  to the order, each failure costs at most one more order, orders are used up.

### In-memory tasks and the change of the public IP
`internal/handler/handler_memtasks.go`, `handleChangeIP` and `stopChangeIp` in
`handler_instances.go`, `ChangeInstanceIP` and what it calls in
`internal/oci/client.go`, `updateCfDNSAfterChangeIP` and `syncBindingToDNS` in
`handler_cloudflare.go`.

- State: `memTasks` (entries with a paused flag and a stop channel), one
  goroutine per task, the address of the VNIC and its asynchronous release, the
  A records of a name, `instances.public_ip`.
- Operations: add, pause, resume, delete, stop all; an attempt looks for the
  address, releases it, waits, obtains another, rejects it unless a range
  matches, publishes it in the DNS and the store.
- Hard: two attempts at once, a wait that times out after the address was given
  up, a lost answer of the cloud, `select` between a closed channel and a tick.
- Correct when: a lone attempt never asks too early, an instance is not left
  without an address and without a task, store, DNS and cloud agree afterwards,
  a task that was deleted stops.

### Instance sync and DNS auto-sync
`handleSync` and `syncVNICs` in `handler_instances.go`, `runDNSAutoSync` in
`handler_cloudflare.go`.

- State: `instances.public_ip` and `dns_last_ip`, the DNS records, the mark of a
  running auto-sync.
- Operations: upsert the instances as listed and again with their addresses;
  every minute carry the stored address to the DNS, by name or by binding.
- Hard: both work on what they read earlier, next to a change of the address.
- Correct when: `dns_last_ip` never names an address that is not shown, and the
  DNS follows the store.

### Web frontend
`frontend/src/api/index.js`, `router/index.js`, `stores/auth.js`,
`components/MetricsDialog.vue` and the pages under `frontend/src/views/`.

What all pages share: a page holds its state in refs, its handlers send requests
and go on when the answers come.  `api/index.js` gives up on a request after 30
seconds and repeats a failed GET up to three times with growing delays
(37-47), so two answers may arrive in the other order than they were asked for,
and in the meantime the user goes on choosing, opening and closing.  Nothing in
the code cancels a request or numbers it.

| part | state | operations | correct when |
|---|---|---|---|
| requests, routing, login | the user and CSRF token of `stores/auth.js`, the cookie's session on the server | sign in, check the session, fetch the token, log out, expire, reload | the token is that of the session |
| creating instances, instance plans | tenant, domain, image, shape, VCN and subnet, one list for each | choose, load, fill from a plan, submit | what is sent belongs together |
| instances, one instance, bound DNS | table, selection, confirmation box, `netBusy`, `acting`, zone and record dialogs | batches, termination with a code, 500 Mbps, IPv6, DNS records, bindings, automatic sync | only what was confirmed is terminated; one network operation per instance; records are written in the zone they were listed in |
| tasks, audit log, home, system metrics | tables, selection, search timers, polling intervals, map layers and markers | load, search, pause, resume, edit, delete; fall back to the next tile provider | a batch acts on rows that are shown; one interval; a provider is given up for its own errors |
| networks and volumes | tenant and VCN, rules, addresses, pools, dialogs | list, add, edit, delete, reserve, replace, import | a row is written where it was listed |
| traffic, limits, cost, metrics | what is chosen, what was asked, what is shown | choose, query, query all, sync | figures are those of the choice |
| tenants, users | forms with keys, busy labels, passwords, MFA | add, edit, sync, check liveness, reset, delete | one synchronisation at a time; an administrator remains |
| keys, settings, alerts, backup, assistant | dialogs, flags, the conversation and its cache on the server | generate, upload, save, toggle MFA, export, restore, ask, clear | what one opening produced does not show in the next; the switch shows what the server has |
| consoles and live log | WebSockets, the console session, the embedded viewer | connect, disconnect, follow, stop, leave | a living socket is held by the page; the state shown is the socket's |

Hard: late answers; events of a socket that was already replaced; operations
that share one flag; a reload under a selection; three requests that make one
save; a check of the session that overlaps a sign-in.

### Not modelled: parts of the server
- **Login guard** (`ratelimit.go`, `handler.go` 623-702): counters with a window
  and two block lists.  Clearing the blocks does not clear the counters
  (`ratelimit.go:84`); two refreshes of the MFA cache may be stored in the wrong
  order (`handler.go:143`).  What the page sees of sessions is in `Session`.
- **Audit queue** (`handler.go` 147-154, 1365-1389): a channel of 1000, dropped
  when full, closed under live senders (`handler.go:153`).
- **Backup and restore** (`backup.go`): an export that reads table after table
  without a transaction (92), a restore that replaces the tasks under a running
  worker (309) and looks at the key files after the commit (341).  The page's
  side is in `AdminViews`.
- **Schema migrations** (`db/migrate.go`): statements that commit one by one and
  are repeated after a crash (299).
- **DNS bindings** (`handler_cloudflare.go` 267-450, 454-680): two PUTs of one
  row each write all of it (353); the OCI-to-DNS sync of a whole zone.
- **Network operations** (`oci/client.go`, `client_create.go`): sequences of
  calls to the cloud that may stop half way.
- **Rescue, netboot, boot volumes**: detach, create, attach, and their undoing.
- **Stock monitor** (`handler_stock_alert.go`): slow checks write a status over
  a later one's (206).
- **Captcha and conversation caches**: bounded maps with expiry.
- Consoles, tenants, keys, users and plans on the server: the state is that of
  the sockets, or one statement on one row.  The rule of the last administrator,
  which takes two statements, is in `TenantViews`.
- Telegram, DingTalk, menus, notifications, AI: messages around operations that
  are modelled elsewhere.
- Security lists, defense mode, public IPs, traffic, cost, metrics, map,
  geolocation: requests passed through to the cloud, or reports.
- Encryption: nothing a model checker or a prover of this kind can say about it.

### Not modelled: parts of the frontend
- `AppLayout.vue`, the locales and `IpInfo.vue`: a menu, texts and one lookup.
- `Defense.vue` and the row actions of `BootVolumes.vue`: they read an answer
  that is a record as an array, so their tables are always empty and the rest of
  the code is not reached (see *Observed in the frontend*).
- `loadNetworkStatus` of `Instances.vue`, which fills switches row by row.
- The Google sign-in, which leaves the page, and the drawing of charts.

## 2. Plan

| order | module | depends on | status |
|---|---|---|---|
| 1 | `TaskWorker`, `TaskWorkerProofs` | | done |
| 2 | `CreateScheduler`, `CreateSchedulerProofs` | | done |
| 3 | `ChangeIP`, `ChangeIPProofs` | | done |
| 4 | `AddressSync`; its theorems are in `ChangeIPProofs` | extends `ChangeIP` | done for one instance |
| 5 | `Browser`: one page, its requests in a bag, answers in any order | | done |
| 6 | `Session`, `Wizards`, `Consoles`, `InstanceViews`, `DnsViews`, `TaskViews`, `NetworkViews`, `TrafficViews`, `TenantViews`, `AdminViews` | `Browser` | done |
| 7 | `Exclusive`: an operation that is not started twice; `Frontend`: the pages together, which implement it | 6 | done |
| 8 | `BrowserProofs`; `ConsolesProofs`, `PagesProofs`, `FormsProofs`, `OperationsProofs` | 6, 7 | done |
| 9 | `BatchContract`: instances in order, reported completed when all were taken, nothing taken after that, at most one repetition per loss; `TaskWorker` implements it by a refinement mapping | `TaskWorker` | done |
| 10 | `AuditQueue`: bounded channel, drain and close; `LoginGuard`: limiter and block lists | | open |
| 11 | `Backup`: export and restore next to the worker | `TaskWorker` | open |
| 12 | `Bindings`: two PUTs, and `handleCloudflareOCISync`; `NetworkOps` | `AddressSync` | open |
| 13 | migrations, stock monitor, caches | | open |

Abstract specifications worth stating: for `ChangeIP`, "the instance has an
address, or has none while somebody is working on it"; for `CreateScheduler`, an
order whose instances are launched or accounted for, with the damage each
disturbance may do.

Every safety property the runs check has a theorem.  Theorems worth proving next:
those two refinements, once stated.

## 3. The models

Two things hold for the modules of the server.

*Grain.*  `db/sqlite.go:27` limits SQLite to one connection, so the statements
of all goroutines are serialised.  An action is one statement, or one call to
the cloud or to Cloudflare, together with the in-memory work up to the next one.

*Disturbances.*  Users, crashes, panics, failed statements and refused calls
happen at any moment; `Budget` bounds how often each kind does.  It is a
constant of the module, so the theorems hold for any budget; the `.cfg` files
choose small ones.  `Spent(d)` in a property says how often a disturbance has
happened so far: it is how a property states what it costs.

### TaskWorker

| state | code |
|---|---|
| `rows`, `job`, `status`, `payload` | the `tasks` table; of the payload: `completedIndex`, the number of instances, whether a tenant is named |
| `wpc`, `scan` | the worker goroutine and the rows `processNext` has listed and not yet claimed |
| `run` | the runners: place in the code, task, loop variable, the payload they were started with |
| `shut` | `Shutdown`: `stop` closed, rows reset |
| `fan` | a multi-tenant request that is still inserting children |
| `handled` | observation: how often each instance was taken to OCI |

| actions | code |
|---|---|
| `BatchStart`, `BatchCreateSingle`, `BatchCreateMulti`, `FanOut`, `FanOutFails` | `handleBatchStart`, `handleBatchCreate` |
| `Stop`, `Pause`, `Resume`, `Edit` | the handlers of the same names; no condition on the status |
| `Boot`, `Scan`, `Claim`, `MarkParent`, `WorkerStop`, `WorkerPanic` | `Run`, `processNext` |
| `Acquire` ... `Yield`, `RunnerPanic` | `runWithSem`, `runBatchStart`, `runBatchCreate` |
| `ShutdownSignal`, `ShutdownReset`, `Exit`, `Crash` | `Shutdown`, `main`, and the container's `restart: unless-stopped` |

The item loop tests `stop` and then reads the row's status, one statement and
possibly a shutdown's reset later: `NextItem` is the test, `taskIsActive` the
read, and a runner is at `check` in between.

The two kinds of batch share one runner: they differ in when a report is written
and in the pause between instances, which `Call` and `Save` distinguish.
`CreatedID` is 0 because `CreateTask` takes its argument and never sets the id.

`BatchContract` is what whoever submits a batch may rely on.  It knows neither
rows nor goroutines: only what was taken to OCI and how often, what a batch's
size is, which batches are reported completed, and what was lost.  An instance is
taken only when all before it were, within the batch, and while the batch is not
reported completed; it is reported completed when all were taken; an instance is
taken again only while there were fewer repetitions for this batch than losses.
An edit voids what is said of the batch's end and of the report; an edit, and
a resume or a panic of the worker goroutine, which may start a second runner, void
the last promise and that nothing is taken for a completed batch.
`TaskWorker!Contract` maps `handled`, the repetitions counted in it, the sizes in
the rows, the completed batch rows and the spent budget to those variables;
`KeepsContract` is the refinement.

### CreateScheduler

`row` is the `create_tasks` table; `due` says that `last_run_at` is an interval
ago or NULL, and `Elapse` is the passing of that time.  `list` is what the pump
has listed, `running` the map `createTaskRunning`, `run` the goroutines.
`ListActiveCreateTasks`, `Skip` and `Start` are `createTaskPump`; `Prepare`,
`Abort`, `GiveUp`, the three launch actions, `NextAD` and `Finish` are
`runCreateTask`.  Abort and give-up differ as in the code: the first leaves the
row, the second deletes it.  `launched` and `ordered` are observations, and
`outdated` collects schedules one of whose runs began from a copy that the row
no longer matched.

### ChangeIP

One instance with one VNIC and one private IP.  `ip` is the address it has,
`releasing` that the cloud has accepted its release, `issued` the last address
handed out.  `task` holds the `memTasks` entries and the state of their
goroutines, `call` the attempts, of tasks and of manual requests alike.
`Look` to `Discarded` are `ChangeInstanceIP` and the operations it calls, one
action per call; `ListRecords` to `Put` are `updateCfDNSAfterChangeIP`, with the
legacy way by name and the binding's by `syncBindingToDNS`; `WriteDB` is
`UpdateInstancePublicIP`.  The cloud (`Release`, `Assign`) and Cloudflare
(`CreateRecord`, `UpdateRecord`) are modelled from how the code uses them.

### AddressSync

Extends `ChangeIP` with `handleSync` (`UpsertInstances`, `GetInstanceVNICs`,
`UpsertVNIC`), the auto-sync (`ListInstances`, `FindRecord`, `WriteRecord`,
`UpdateInstanceDNSIP`) and the column `dns_last_ip`.  Every action of `ChangeIP`
except the restart, which ends the sync and the auto-sync too, is an action here
with the three new variables unchanged.

### Browser and the pages

`Browser` has three variables.  `page` is the record of the mounted page: its
field `view` names it, the other fields are the refs of the component that
control anything.  `calls` is the bag of requests that are not settled: an
operation, a key and an argument.  `clicks` counts down what the user still does.

*Grain.*  An action is one handler up to its first `await`, or one continuation
after an answer, success and failure alike (`ok`).  JavaScript runs nothing in
between.  The answer of a request is found by its operation, not by its order,
so every reordering is covered.  A timer of the page is a request to itself.

*Data.*  A list, a form field or a figure is abstracted to what it was loaded
for: the tenant, the zone, the query.  That is what the properties compare: a
domain that was listed for another tenant is a wrong domain, whatever its name.

*Exceptions.*  Many pages show a late answer as if it were the current one.  The
properties do not deny that: a field of the page observes that it has happened
(`stale`, `late`, `edited`, `landed`, `overlapped`, `unread`, `unfetched`; each is
explained where the page is opened), and the property is about what holds until then,
and, where the code takes it back, afterwards.

*One page at a time.*  The router mounts one page, pages share nothing but the
session, and a page that is left keeps only its requests; so `Frontend` is the
sum of the pages: the initial state chooses one.  Dialogs and tabs that share no
state with the rest of their page are views of their own (the form of
`Tenants.vue`, the three tabs of `Cloudflare.vue` and of `Settings.vue`).

| module | pages |
|---|---|
| `Session` | `Login.vue`, `stores/auth.js`, the guard of `router/index.js`, the interceptors, and `withAuth` and the session handlers of the server, which is one action each for finding an answer and receiving it |
| `Wizards` | `InstanceCreate.vue`, `InstanceBatchCreate.vue`, `InstancePlans.vue`; the plan that fills the first |
| `Consoles` | `ShellConsole.vue`, `VncConsole.vue`, `Logs.vue`; each socket has a state, and tells the page later that it has opened or closed |
| `InstanceViews` | `Instances.vue` |
| `DnsViews` | `InstanceDetail.vue`, `Cloudflare.vue` with its watcher, which runs after the handler that triggers it; for the automatic sync also what the server has, each of its reads and writes apart from its answer |
| `TaskViews` | `InMemoryTasks.vue`, `CreateTasks.vue`, `ScheduledTasks.vue`, `Audit.vue`, `SystemMetrics.vue`, the map of `Home.vue` |
| `NetworkViews` | `SecurityRules.vue`, `PublicIPs.vue`, `IpPool.vue`, `VcnManagement.vue`, `BootVolumes.vue` |
| `TrafficViews` | `Traffic.vue`, `CostAnalysis.vue`, `Limits.vue`, `MetricsDialog.vue` |
| `TenantViews` | `Tenants.vue`, `TenantDetail.vue`, `Users.vue` with the two statements of `handleUserByID`'s deletion |
| `AdminViews` | `SshKeys.vue`, `Settings.vue`, `StockAlerts.vue`, `Backup.vue`, `AiChat.vue` |

`Exclusive` is the abstract specification of an operation that must not run
beside itself: each resource is free or has one operation under way.
`Frontend!OneAtATime` is that specification with the requests in flight for what
is under way: network operations per instance, the synchronisation of tenants,
export and restore.  The pages implement it with flags that are set before the
first `await` and cleared by the answer.

## 4. The runs

| run | what it shows | bounds |
|---|---|---|
| `worker_chaos` | checkpoints never run ahead; completed means all handled; repetitions are bounded | 1 task, 2 instances, 2 runners, every disturbance but a shutdown and a runner's panic once |
| `worker_fanout` | one runner per row; an idle stopped row stays stopped | 3 rows (parent and two children, or three batches), scan limit 2, one stop, fault, crash |
| `worker_settles` | no orphaned running row; every batch comes to rest, but for one that a failed statement left running; the worker implements `BatchContract` | 1 task, 2 instances, 3 runners for 2 slots; stop, panic, fault, crash, shutdown |
| `worker_stopped` | (violation) a stopped task is queued again by its runner | 1 task, one stop |
| `worker_parent` | (violation) a parent row never completes | a parent and one child, no disturbance |
| `sched_drains` | books balance; one run per schedule; damage bounded; every active schedule is used up | 1 schedule of up to 2, 2 domains; a pause, an edit, a removal, a refusal, a hidden launch, a fault, a kill |
| `sched_upto` | (violation) more than `create_numbers` launched | 1 schedule, no disturbance |
| `changeip_alone` | a lone attempt is never refused; store, DNS and cloud agree | a change task, a config task, a manual request, every disturbance once |
| `changeip_compete` | no stranded instance; tasks obtain an address; deleted ones stop | two change tasks that write a binding's record, a config task with bad numbers, a stop, a refusal |
| `sync_implicit` | `dns_last_ip` is honest; the DNS follows the store, by name | one change task, two syncs, stop, two refusals, a hidden assignment |
| `sync_binding` | the record of a binding follows the store | one change task that writes the DNS, one sync, stop, two refusals, fault, kill |
| `ui` | every property of the frontend, listed below | 2 keys; 1 to 6 actions of the user on a page (`MCClicks`), 2 sockets, 2 checks of the session |

Why these bounds are enough to meet the interesting cases:

- Two instances are the fewest for which a checkpoint can be zero, in the middle
  and at the end; with one a skipped instance and a finished batch look alike.
- Two runners on one row are what a resume or a panic of the worker produces.
  After one resume of a live runner the two may hand the row to each other
  without end, each repeating an instance; `MaxTries` makes `handled` stop
  counting.  That loses nothing: `RepetitionsBounded` allows at most two
  repetitions in `worker_chaos`, and three of one instance can be counted.
- Three rows and a limit of two make a scan that leaves a row behind; two
  slots in `worker_settles` let a runner that the shutdown's reset overtook stand
  at its next instance beside the one that claimed the row after it, and the
  third runner stands for one the semaphore keeps waiting.
- Two availability domains and an order of two are the fewest for which the
  inner loop (`i` up, `remaining` down) ends early and the second domain matters.
- Two attempts suffice to overlap; three addresses for one that is rejected and
  one that is accepted; the cloud then hands out the last one again.
- `MaxRecords` never keeps a record from being created: it is not reached, except
  in `sync_binding`, where the change and the auto-sync may create one each and
  nobody else is left to create a third.

- Two keys are the fewest for which an answer can belong to another choice than
  the present one, and suffice because no handler compares more than two.
- `MCClicks` gives each page the actions its longest hazard takes: choose, choose
  again, open, submit; five and six where a dialog is closed and opened again or
  a socket replaced.  All answers of what was sent come on top.  The limit also
  bounds the requests in flight and the ticks of intervals.
- Two sockets are the fewest for which the events of an old one meet a new one;
  two checks let a sign-in overtake the guard of a navigation.

What `ui` checks:

| property | about |
|---|---|
| `FormsCoherent` | lists and fields of the forms belong to the tenant, instance and image that are chosen |
| `WrittenWhereListed` | rules, addresses and records are written where they were listed |
| `BatchesShown`, `DestroyedIfConfirmed` | batches act on rows that are shown; nothing is terminated but what was confirmed |
| `OneAtATime` | (refinement) operations that exclude one another |
| `LabelsHonest` | a label on a button stands for a request in flight |
| `HomeAndMetricsSound` | tile errors count against their own provider, markers stay on their map, one interval polls |
| `AnswersOfOpening` | dialogs and conversations do not receive what an earlier one asked for |
| `ZoneOfConfig` | the zone in a binding's form is one of its configuration |
| `SyncSavedWhole` | when the automatic sync is reported as saved, the server has all three fields of the form the save began with |
| `NoLostSocket`, `ShellStatusHonest` | a living socket is held by its page; the terminal's state is its socket's |
| `FiguresOfScope` | figures shown are those of what is chosen |
| `AdminRemains` | an administrator remains, unless two deletions overlap or the list of users cannot be read |
| `TokenOfSession` | a token kept from before a logout or an expiry is replaced, whatever order checks and sign-ins are answered in |
| `SpinnersEnd` | (liveness) every flag `Busy` counts is taken back; the login form's after a refusal and a dialog waiting for a code are not counted |

`CHECK_DEADLOCK FALSE` is set in every run, because every system may come to
rest: the server is idle when its tables hold nothing to do, and the models stop
where the code would wait for the next request or the user's next action.

### Fairness

Runs with liveness properties use `FairSpec`, `ui` uses `FairFrontend`.

- *Weak fairness* of the worker's, the pump's and the auto-sync's steps: they
  are driven by tickers (five seconds, five seconds, one minute), not by
  notifications.
- *Weak fairness* of a runner's, a run's or an attempt's steps: goroutines are
  scheduled, and each call to the cloud is made with a context that has a
  deadline, so it returns with a result or an error.
- *Weak fairness* of `Release`: the cloud completes what it accepted.
- *Strong fairness* of `LoopEnds` in `ChangeIP`: Go's `select` chooses at random
  among ready cases, so a closed channel is not passed over for ever although a
  tick may be chosen any finite number of times.
- *Weak fairness* of `FrontendAnswers`: axios gives up after 30 seconds, a GET
  is repeated three times at most, timers of a page fire, sockets open or fail
  and tell so.  Every such step settles something, so weak fairness of all of
  them together suffices.  None of the user's actions is fair, a dialog may stay
  open for ever: `SpinnersEnd` does not count one that waits for a code.
- None for users, crashes, panics, failures and shutdown signals, nor for the
  beginning of a sync.  `Boot`, `ShutdownReset` and `Exit` are fair because the
  container is restarted.

Liveness properties have the form "once disturbances end": the budgets are
finite, so in every behaviour there is a last one.  `Settles` names its
exceptions in the formula.  A row may stay running if a statement failed and no
goroutine has it: the last write of a runner ignores its error
(`worker.go:254`), and only the next boot queues such a row again; `worker_settles`
has such a failure.  Nothing is claimed after a resume or a panic of the worker
goroutine: these may put two runners on one row, which then hand it to each other
for ever.

### Where the code disagrees with its comments

Three runs end in a violation, on purpose.

1. `worker_stopped`.  A runner that finds its task cancelled writes it back to
   pending (`worker.go:309` and `:223`); the comment at `worker.go:343-345` says
   that processing stops.
2. `worker_parent`.  `db.CreateTask` does not store the new id, so children are
   linked to parent 0, and `maybeUpdateParent` returns at once; the parent stays
   running, against `worker.go:155-157`.
3. `sched_upto`.  The pump looks at `createTaskRunning` after it has listed the
   rows; a run that ends in between is started again from the old copy, against
   `db/models.go:63-65`.

Other behaviours found while modelling, which the properties state around
rather than against:

- resume while the runner is alive lets a second one claim the row, because
  resume writes pending over running (`handler_tasks.go:143`);
- a reset at shutdown may be overwritten by a live runner; the next boot
  repairs it (`worker.go:72-79`);
- a checkpoint writes back the whole payload, over an edit (`worker.go:364`);
- the auto-sync and a change of the address may both create a binding's missing
  record, and the outdated one of the two stays (`handler_cloudflare.go:1154`
  and `1093-1094`): `FollowsOnce` supposes that the record exists;
- a sync may write an address over the newer one (`handler_instances.go:557`
  against the comment at `764-765`), until the next sync;
- clearing blocked addresses leaves their counters (`ratelimit.go:84`).

### Observed in the frontend

The properties state around the following, which the models show, most of them
in a few steps.

*Answers in an unexpected form.*
- `GET /vcns` answers with a record (`data`, ...), `InstanceCreate.vue`,
  `InstanceBatchCreate.vue` and `Defense.vue` (179) take it for an array: the
  list of VCNs is always empty, so the first two can never be submitted.
  `BootVolumes.vue` (185) does the same with its volumes.
- Rows of plans are read in another case than they are sent in: a plan fills in
  only its name, and editing one opens an empty form that overwrites it.
- `VcnManagement.vue` (116) passes the tenant where axios takes options; the
  deletion is refused (`handler_vcn.go:22`).
- `IpPool.vue`: the type is always `pool` (226-227); switching an address sends
  a row without its coordinates, which are wiped (276, `queries.go:985`).
- `t.value(...)` where `t` is a function: a refused sign-in leaves the login
  form loading (`Login.vue` 85-90), and three handlers of `Tenants.vue` end in
  an error (359, 366, 408).

*Late answers.*
- A list that arrives after the choice changed is shown for the new choice, in
  nearly every page; `InMemoryTasks.vue` keeps the previous tenant's instances
  after a failure (430-445), `Limits.vue` its regions (132-144),
  `PublicIPs.vue` the chosen instance.
- A save that ends late closes the dialog that was opened since; a reset of one
  user closes another's; a generated key appears in the next opening.
- `VcnManagement.vue` (92-97) counts subnets with the tenant chosen by then,
  `Traffic.vue` (273) reads the region again for each batch, `CostAnalysis.vue`
  draws with the granularity of the moment of the answer.
- Reloads overwrite what is being typed: `TenantDetail.vue`, the automatic sync
  of `Cloudflare.vue`.  A status read before a save and answered after it puts the
  old values back under the message that it was saved (512-515, 534-536); the
  statements of one status (`handler_cloudflare.go` 1217-1220) may fall on both
  sides of a save, and one that fails reads as empty.
- A token the server has read before a sign-in may arrive after the new one's
  and take its place (`stores/auth.js` 14-19); writes are refused until the next
  check fetches it again.
- Overlapping saves of the second factor's switch may be answered in another
  order than they were stored, and the switch then shows what the server does not
  have (`Settings.vue` 487-504).
- Enter in the password field of `TenantDetail.vue` (172) sends a reset beside one
  under way; the button does not.
- A socket's late event: the old terminal's close ends the new session
  (`ShellConsole.vue` 317), the old log's switches the page off under a living
  socket; a second embedded viewer replaces a connected one.
- The deletion of a conversation's cache may arrive after the first message of
  the next (`AiChat.vue` 97-107).

*Flags and failures.*
- One `acting` serves eight operations of `InstanceDetail.vue`; any that
  succeeds also closes the dialog of the termination.  Without a channel for the
  code the termination is never sent (525, against 399-402).
- The batch termination of `Instances.vue` sends no code and reports success;
  the batch start takes the first row's tenant for all.
- `saveSetting` swallows its error, so `toggleMFA` shows what was not saved
  (`Settings.vue` 500-504); `saveAutoSync` may stop after one or two of its
  three requests (`Cloudflare.vue` 531-543).
- Editing a binding lets the watcher empty the zone that was just filled in,
  against its comment (`Cloudflare.vue` 570-571).
- `stores/auth.js`: logging out keeps the token and signs the page out even if
  the POST failed; the sign-in does not look at the result of the check
  (31-36); the comment at 20-22 (no token: the server skips the check) is not
  what `handler.go` 576-584 does.
- `handler_users.go` 141-159 counts the administrators and then deletes: two
  deletions that overlap remove the last two.  It ignores the error of the list it
  counts (143): if that cannot be read, nobody is found to be an administrator and
  the last one is deleted.
- A restore that takes more than 30 seconds is given up by the page and goes on
  in the server.

## 5. The proofs

The theorems hold for all values of the constants that satisfy the named
assumptions: `BoundsAssumption` and `BudgetAssumption` in `TaskWorker`,
`SchedulerAssumption` in `CreateScheduler`, `ChangeIPAssumption` in `ChangeIP`,
`AddressSyncAssumption` in `AddressSync`.
These say only that bounds are positive numbers (or natural, for budgets), that
schedules are numbers, that tasks and requests are told apart, and that some
address the cloud hands out lies in the wanted ranges.  The theorems about the
frontend rest on `BrowserAssumption` (`None` is not a key),
`ConsolesAssumption` (the bound of sockets is a number) and
`InstancesAssumption` (`None` is not the name of an operation), and hold for any set of
keys and any number of clicks; `AdministratorRemains` supposes that there is a
user at all.

| theorem | states |
|---|---|
| `TaskWorkerProofs!TypeCorrect` | `[]TypeOK` |
| `TaskWorkerProofs!CheckpointsHonest` | `[]CheckpointHonest` |
| `TaskWorkerProofs!CompletedIsComplete` | `[]CompletedMeansAllHandled` |
| `TaskWorkerProofs!NoOrphanedRow` | `[]NoOrphan` |
| `TaskWorkerProofs!StoppedStays` | `IdleStaysStopped`, an action property |
| `TaskWorkerProofs!OneRunner` | `[]OneRunnerPerTask` |
| `TaskWorkerProofs!RepetitionsPaidFor` | `[]RepetitionsBounded` |
| `TaskWorkerProofs!ContractKept` | `KeepsContract`, the refinement: the worker implements `BatchContract` |
| `CreateSchedulerProofs!TypeCorrect` | `[]TypeOK` |
| `CreateSchedulerProofs!RunsExclusive` | `[]OneRunPerSchedule` |
| `CreateSchedulerProofs!BooksBalance` | `[]Accounted` |
| `CreateSchedulerProofs!DamageLimited` | `[]DamageBounded` |
| `ChangeIPProofs!TypeCorrect` | `[]TypeOK` |
| `ChangeIPProofs!LoneAttemptNotRefused` | `[]NeverRefused` |
| `ChangeIPProofs!SomeoneGoesOnTrying` | `[]NotStranded` |
| `ChangeIPProofs!SettlesInAgreement` | `[]Settled` |
| `ChangeIPProofs!SyncsTypeCorrect` | `[]ATypeOK`, of `AddressSync` |
| `ChangeIPProofs!SavedAddressIsShown` | `[]LastHonest`, of `AddressSync` |
| `ConsolesProofs!SocketsHeld` | `[]NoLostSocket` |
| `ConsolesProofs!ShellHonest` | `[]ShellStatusHonest` |
| `ConsolesProofs!ConsolesCoherent` | `[]ConsoleCoherent`, the consoles' part of `FormsCoherent` |
| `PagesProofs!TokenMatches` | `[]TokenOfSession` |
| `PagesProofs!AdministratorRemains` | `[]AdminRemains` |
| `PagesProofs!SyncWhole` | `[]SyncSavedWhole` |
| `PagesProofs!OpeningsApart` | `[]AnswersOfOpening` |
| `PagesProofs!HomeAndMetrics` | `[]HomeAndMetricsSound` |
| `FormsProofs!CascadesCoherent` | `[]CascadeCoherent`, the wizards' part of `FormsCoherent` |
| `FormsProofs!FiguresMatch` | `[]FiguresOfScope` |
| `FormsProofs!ZonesMatch` | `[]ZoneOfConfig` |
| `FormsProofs!RecordsMatch` | `[]RecordOfZone`, the part of `Cloudflare.vue` in `WrittenWhereListed` |
| `FormsProofs!FormsHold` | `[]FormsCoherent`: the wizards, the consoles and the form of `InMemoryTasks.vue` |
| `FormsProofs!TablesMatch` | `[]WrittenWhereListed`: records, security rules and addresses |
| `OperationsProofs!PagesExclusive` | `OneAtATime`, the refinement: three pages implement `Exclusive` |
| `OperationsProofs!SelectionsShown` | `[]BatchesShown` |
| `OperationsProofs!DestructionConfirmed` | `[]DestroyedIfConfirmed` |
| `OperationsProofs!LabelsStand` | `[]LabelsHonest` |

**TaskWorker.**  None of the invariants is inductive alone.  A saved checkpoint
is honest only if the runner that saves it has handled its current instance
(`RunnersBacked`), which it does only within its batch; completion is right only
if the size the runner knows is the row's (`SizesAgree`, without edits); a row
without a runner stays non-running only if nothing refers to rows that were
never inserted and no child writes its parent (`RowsKnown`, which rests on
`CreatedID = 0`); and the worker marks only a parent row between its two
statements (`ParentClaimed`).  `IInv` is the conjunction of these with the three
properties and `TypeOK`.  The proof has one lemma per group of actions that
leave the same variables alone ("frame" lemmas) and one per action that
disturbs a conjunct.  `OneRunnerPerTask` rests on a second invariant,
`Exclusive`: as long as nobody resumes a row, the worker does not panic and no
shutdown begins, a row with a goroutine is never pending (only `Yield` makes it
so, and leaves), so `ClaimTask` cannot find it; and the worker boots only when no
goroutine is left, so that the reset meets nobody.

`RepetitionsBounded` counts repetitions after they have happened, so the invariant
behind it (`Balanced`) counts them ahead.  `DueFrom` is what a runner that started
at some instance would have repeated at its end: what is repeated already, and
what was taken from that instance on.  `Paid` says that there is an instance
behind which no copy of the payload lies - not the row, not the scan's copies, no
runner - and what is due from there is covered by the losses so far.  The books may be off by one instance, the one in flight: while the process runs,
an instance that was called and not saved is a *credit*, which the save redeems or
a crash, a failed write or a shutdown pays; once `stop` is closed the shutdown has
paid, and an instance still to be called is a *debit* against it.  That only one
instance of a batch can be in flight rests on `Exclusive` until the shutdown, and
after it on `OneCall`: no further runner comes to an instance, because
`Interrupted` parks it.

`ContractKept` takes the order of the instances from `CheckpointHonest` and
`RunnersBacked`, and the number of repetitions from `RepetitionsPaidFor`.  It needs
one fact more: nothing is taken for a batch that is reported completed, although
the reset of a shutdown lets a second runner claim the row while the first still
works.  `NotOvertaken` says that nothing which works or may come to work on the
task is ahead of a runner at an instance, so that no runner can be at the end of
the batch, where alone it is reported (`CompletedBy`, `NotCompleted`).  With these,
`ContractStep` maps every step: what a user or the process does submits,
withdraws, resizes, loses or starts again; a call takes an instance; a completion
reports; all other steps leave the contract's variables alone.

**CreateScheduler.**  `Accounted` speaks of rows and of runs, and a run that is
abandoned hands the count back to its row.  So the invariant says for each run
that its books are right and, until it launches, agree with the row
(`RunsCount`); for each row without a run that its own are (`RowsCount`); that
rows that do not exist count nothing and that no run knows a row never inserted
(`RowsSound`); and that a budget only shrinks (`WithinBudget`).
`OneRunPerSchedule` is what keeps two runs from counting the same row.
`DamageLimited` divides the bound in the same way (`RowBound`, `RunBound`), with
inequalities: a run that is lost gives the row's count, which no edit has raised
above the order, back to be launched again, and that is what one more loss allows.

**ChangeIP.**  `NeverRefused` speaks of one step of an attempt, so the invariant
says for every step what the attempt supposes of the cloud (`InStep`): before the
release that the address is the one it found, while it waits that this address
is being released or gone, before the creation that there is none.  That nobody
else changes the cloud meanwhile needs two more facts: attempts that never
overlapped are one at a time (`Alone`), and a release is under way only while an
attempt waits for it (`CloudInStep`).
The two other invariants each rest on one of their own.  `SomeoneGoesOnTrying` is
about attempts that do overlap: whoever takes the address away, in whichever
order, is itself a task that waits for its next tick or is on its way to a new
address (`SomeoneTries`), because only the task whose attempt holds an address
ends; it needs that goroutines belong to listed tasks (`TasksGoOn`) and that what
is being released is an address (`AddressKnown`).  `SettlesInAgreement` adds to
`CloudInStep` what an attempt that publishes has of the DNS between listing the
records and writing them (`Publishes`): the record it deletes or changes is still
there, and it is the only one, if all callers publish (`OneRecord`).

**Consoles.**  The properties speak of the socket the page holds, a late event
of the ones it held before.  `ShellSound` says of the terminal that a socket
that is alive is the one held (`Held`), and that its two flags tell how far that
socket is, with no flag set once it is gone; taking the held socket away, which
a late close does, keeps that (`DisconnectedSound`).  `LogsSound` says of the
log that a switch that is off means no socket is alive, which is why storing the
next one loses none, until a late event has switched it off under a living
socket; the page observes that, and the property speaks of what was before.  `ListsSound` is what remains of the
forms after any answer: instance and key are of the chosen tenant as long as no
late list was shown.

**Pages.**  The lemmas of `BrowserProofs` say what is in flight after requests
were sent or one was settled (`SentCalls`, `SettledCalls`, `BagSent`): facts about
bags, from their definitions.  The invariants then speak of the page and of requests under way.
- `TokenMatches`: the token is fetched after the user is set, so it may differ
  from the session's only while that request is in flight.  What the server has
  read for it is the token of the present session (`TokensCurrent`), since no
  other sign-in came between: one that finds such a request is what `late`
  observes.  Expiries, logouts and checks in any order need nothing more; steps
  that leave session, user and token alone are one lemma.
- `AdministratorRemains`: unless two overlapped or the list could not be read,
  one deletion at most has been counted and not yet carried out, and it leaves
  another administrator (`AdminSound`): a fact about the cardinality of a set of
  any size.
- `SyncWhole`: at most one request of a save is in flight, in the order of the
  fields, and the server has the fields before it from the form the save began
  with (`InOrder`); a status read, however torn or late, replaces only the form,
  and notes that it did if a save is under way.
- `OpeningsApart`: an upload under way is of this opening of the form or of an
  earlier one, and one of this opening was picked in it (`KeySound`); a generated
  pair is shown only while its dialog is open (`GeneratedSound`); at most one
  question is under way, of this conversation, exactly while the last message is
  the user's (`ChatSound`), which is why the conversation cannot be cleared under it.
- `HomeAndMetrics`: all providers of tiles before the current one have used up
  their errors (`TilesSound`), since only the current one's count; markers go when
  the map goes, and nothing draws without one; that one interval polls at most
  rests on the page being deaf once it is left (`MetricsSound`).

**Forms.**  What is sent is sound because what the form holds was, so each
invariant has two parts, one about the page and one about the requests under
way.  The part about the page is conditional: it holds until a late answer has
put the list of another choice before the user, which the page observes.
- `CascadesCoherent`: what is chosen belongs together and so do the lists the
  next choice is made from (`ChoicesSound`), without which the choice made next
  could not be known to fit.  A dialog that edits a plan keeps the lists of the
  form it was opened after; they are harmless as long as it has no tenant.
- `FiguresMatch`: figures are none or those of the scope in the fields, tab by
  tab (`TrafficSound`, `LimitsSound`, `CostSound`); the dialog of metrics has
  none when it is closed (`DialogSound`), since it is opened for another
  instance before it has asked for that one's.
- `ZonesMatch`: the zones offered may be another configuration's while they are
  loading, when none can be picked (`ZonesSound`).  The operations of the
  instance, which `InstanceDetail.vue` has beside the dialog, leave all of it
  alone and send no binding (`DetailBesideSame`, `DetailBesideSent`).
- `RecordsMatch`: an open dialog has a zone and the rows it was opened on
  (`RowsSound`); neither configuration nor zone can be chosen beside it.
- `TablesMatch` adds the other tables.  The rules shown are those of the chosen VCN
  and that is the chosen tenant's (`ChoiceSound`), a list of rules being asked for
  only with a VCN; the addresses shown may be another tenant's while they are
  loading, when none can be deleted (`AddressesSound`).
- `FormsHold` adds the form of `InMemoryTasks.vue` to the wizards and the consoles:
  the instances offered may be another tenant's while they are being replaced, when
  none can be picked (`TaskFormSound`).

**Operations.**  `PagesExclusive` is a refinement.  A step that sends and settles
no operation is a stuttering step of `Exclusive` (`PlainStep`); one that sends the
first operation on a thing is a `Start`, one that settles the only one an `End`
(`StartStep`, `EndStep`).  That it is the first, or the only one, is what the flags
of the pages are for, and what the invariants say of them: an operation under way
on an instance is the one its row is marked with (`NetSound`), a synchronisation
is of the tenant the page is busy with (`SyncingSound`), and the backup page waits
for all that is under way (`BackupSound`).  The other two theorems add what the
user has in hand (`HandSound`, `BatchSound`): lists that arrive only take rows out
of the selection, so that an open confirmation of a batch is about all that is
still selected, although the code reads the selection again when it is confirmed;
and every request on the way to a termination is about a confirmed row.
`LabelsStand` says of a label that the operation it names has a request in flight,
or, of a termination, that one of the two questions before it is being asked of the
server or of the user (`Standing`): whichever operation ends clears it, so that it
may be off while another goes on, but is never left on with none under way.

**Only model-checked.**  The liveness properties (`Settles`, `Drains`, `Obtains`,
`StopsEventually`, `Follows`, `FollowsOnce`, `SpinnersEnd`) stay with TLC: fairness
involves ENABLED, which the provers do not treat.  No module declares a RECURSIVE operator, and no
statement here needs induction over data.

## 6. What the models leave out

- Contents: names, shapes, images, messages, notifications and logs.  Errors
  are distinguished only where the code branches on them.
- Time: intervals and deadlines are nondeterministic moments.  Nothing here says
  *how long* something takes.
- `TaskWorker`: one multi-tenant request is fanned out at a time; child rows
  beyond `MaxTasks` are not inserted; an edit does not state a `completedIndex` of
  its own, which the dialog never sends.
- `CreateScheduler`: an edit may change anything but the id; only the numbers
  and the paused flag matter to a run's bookkeeping.
- `ChangeIP`: one VNIC and one private IP; secondary addresses are not modelled.
- `AddressSync`: the other columns of an instance, the paging of regions, the
  handlers of the bindings, and `handleCloudflareOCISync`.
- The frontend: texts, sorting, charts, validation of formats, and what the
  server does with a request beyond what a later answer shows.  A page's
  `clicks` end it; a long session is many short ones, since a page that is left
  keeps nothing.
