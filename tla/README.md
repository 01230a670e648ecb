# Statora in TLA+

Statora is a self-hosted status page: a Go server over MongoDB that checks
monitors, detects outages, keeps incidents, maintenance windows, subscribers and
uptime, and pushes events to a React application over WebSocket. This directory
models the parts of it whose correctness depends on *when* things happen, checks
them with TLC on small instances, and proves the main invariants with TLAPS for
every size.

Paths below are relative to the repository (`src/` in `PROJECT.json`); `worker.go`
is `internal/server/worker.go`, and `apps/web/src` is the browser's part.

## 1. Inventory

### 1.1 How the parts interact

Everything runs in one process and shares one MongoDB database. There are no
transactions, no locks around database calls, and no unique index on the
collections modelled here: each call is atomic on one document and everything
between two calls can be interleaved with anything else.

```
 signal handler --cancel--> worker loop --tick--> cycle --spawns--> checks
                                                    |                 |
                                                    v                 v
 HTTP handlers ---------------------------------> MongoDB <-----------+
     |  BroadcastEvent                              ^
     v                                              |
 hub.broadcast --> Hub.Run --> client.send --> writePump --> browser
```

In the browser a page's `useApi` hooks fetch from the handlers, `useWebSocket` receives the
hub's events and makes hooks fetch again, and every request goes through the interceptors of
`lib/api.ts`, which add the stored token and send the tab elsewhere when it is refused. Tabs share
`localStorage` and the cookie.

The worker never talks to the hub: `StartWorker` is not given one, so changes the
worker makes reach browsers only when they poll (`docs/architecture.md` draws an
arrow from the worker to the hub that the code does not have).

### 1.2 Components

| Component | Code | State | Operations | What makes it correct |
|---|---|---|---|---|
| Worker loop | worker.go 25-135 | context, WaitGroup, `workerCycleRunning`, ticker, `lastCheckedAt` | tick, skip, cycle, spawn, stop, drain | one cycle at a time; the WaitGroup counts exactly what lives; nothing added while waiting; checks of a monitor do not overlap; a stop ends in a return |
| Server and signals | server.go, signals.go | process, handler, timer | start, signal, forced exit | a signal is seen through; no check is cut off between two writes |
| Outage detection | worker.go 137-264, 411-559 | monitor_logs, outages, incidents, statuses, monitors | probe, log, detect, open, cover, resolve, restore | an outage is backed by failures and ended by its own monitor; one at a time; log, outage, incident and status agree |
| Certificate and domain warnings | worker.go 266-359 | statuses | degrade, restore | the end of a warning hides no outage |
| Daily uptime | worker.go 361-409 | daily_uptime | find, insert or increment | one document per day, percentage matching counters |
| Maintenance windows | services/maintenance, worker.go 561-576 | maintenance, audit_logs | create, update, delete, upkeep | passed windows complete; edits and upkeep do not undo each other; history tells visibility |
| Subscribers | services/subscriber, subscriber_repository.go, handlers/subscriber*.go | subscribers, mails | subscribe, verify, unsubscribe, resend, delete, prune, notify | double opt-in; nobody is revived; tokens die |
| WebSocket hub | handlers/websocket.go | client map, channels, pumps | register, unregister, broadcast, fan-out, pumps | channels closed once; gapless streams; dead clients cleaned up |
| Incidents | services/incident | incidents, incident_updates, audit_logs | create, update, add update, resolve, delete | status, updates and audit trail agree |
| Components, sub-components | handlers/component.go, services/subcomponent | components, sub_components | CRUD, clean-up of references | no dangling references |
| Monitors | services/monitor | monitors | CRUD, validation | target exists and is of one kind |
| Status derivation | services/status, domain/status | none | summary, component views | severity order; the two views agree |
| Availability, uptime bars | services/availability, domain/uptime | none | period, list, clip, merge, sum | the downtime is the time an incident was open, counted once |
| Members and invitations | handlers/admin_members.go | users, invitations | invite, refresh, revoke, activate | an invitation makes at most one member |
| MFA | services/auth/mfa_service.go | user document | enrol, verify, recovery codes, disable | a full token follows from both factors only |
| Login, tokens, SSO | services/auth, middleware, handlers/sso.go | cookie | login, logout, exchange | a token says what was verified |
| Settings | handlers/status_page_settings.go | one document | find, insert, update | a single document |
| Webhooks, mails | handlers/webhook_delivery.go, services/mailer | none | post, send | fire and forget |
| Web: sign-in, guards, session | App.tsx, lib/auth.ts, lib/api.ts, AdminLogin, AdminProfile, AdminLayout | localStorage, cookie, guard and page state per tab | sign in and out, guard, redirect, intercept, MFA panels | admin pages need both factors; a sign-in arrives; redirects end |
| Web: public pages | hooks/useApi.ts, hooks/useWebSocket.ts, StatusPage, StatusCategoryPage, HistoryPage, AvailabilityMetrics | answers, loading and error flags, connection, timer, settings cache | fetch, refetch on event, reconnect, select a period or quarter | what is shown is as new as what was heard, and what was selected |
| Web: admin list pages | eight pages under pages/admin, useAdminPagination | table, form, dialogs, flags | save, delete, resolve, post, resend, test, turn pages | a save is seen in its table; flags tell who is busy and come back |

`PROJECT.json` lists them with their status, and under `hazards` what is hard to
test in them, each at its line.

### 1.3 What is hard here

* **Goroutines that nobody awaits.** `runChecks` starts a check per due monitor
  and returns; the cycle ends while its checks run.
* **Find, then write.** Outage, covering incident, subscriber, daily counter and
  settings are looked for in one call and inserted in another. Any error of the
  first call (not only "no documents") is taken as "not found".
* **Read, modify, replace.** Subscriber requests replace the whole document they
  read some calls before.
* **Several writes, one meaning.** An outage is a row in `outages`, a status and an
  incident; a maintenance change is a document and an audit entry.
* **Ends of the process.** `os.Exit(1)` by the timer, a kill without handler, and a
  cancelled context that makes every later call fail.
* **Bounded channels.** 256 places for the broadcast and for each client, and two
  places that close a client's channel.
* **Answers in any order.** `useApi` neither cancels nor numbers its requests: any answer is
  taken, the last to arrive is shown, and any of them ends the loading.
* **Connections of pages left.** Unmounting closes the connection, whose `onclose` sets a timer
  that connects again (`useWebSocket.ts`), so a page may have a zombie beside its own connection.
* **State shared by tabs.** One tab signs out, or verifies a code, while another one's guard has
  decided already and its requests are under way.
* **Flags cleared in `finally`.** Handlers run on while dialogs close and open around them, and
  clear a flag that may by then disable somebody else's button.
* **A clock read twice.** Availability fixes its period, reads incidents, and reads the clock again.

## 2. Modules

| Module | Role |
|---|---|
| `WorkerLoop` | ticker, loop, cycles, checks, flag, WaitGroup, clock |
| `ServerLifecycle` | extends `WorkerLoop` with the process, the signal handler and its timer |
| `OutageLifecycle` | abstract: failures in a row, an outage opens on `Threshold` and closes on a success |
| `OutageDetection` | checks call by call over the collections, with administrators, faults and restarts; implements `OutageLifecycle` |
| `Hub` | the WebSocket hub |
| `Maintenance` | requests with audit entries, and the worker's upkeep |
| `Availability` | the availability request and its interval arithmetic against the history of incidents |
| `AdminSession` | tabs, storage, cookie, guards, interceptors, login and MFA, with the handlers they call |
| `LivePage` | the public pages of a tab: requests, events, reconnects, selections |
| `AdminDesk` | one admin list page with its handlers, the server and other writers |
| `OptIn` | abstract: absent, pending, active, left |
| `Subscribers` | subscriber requests as read and replace; implements `OptIn` |
| `MC*` | constants for TLC |
| `*_proofs` | theorems |

`ServerLifecycle` composes the server with the worker (its `Work` is a
`WorkerStep` while the process runs). `WorkerLoop` decides which monitors are
checked and when; `OutageDetection` takes that as its constant `Overlap`: whether a
monitor can be due again while a check of it runs. `Upkeep` of `WorkerLoop` stands
for the calls that `Maintenance` (`BeginUpkeep` .. `EndCall`) and `Subscribers`
(`PruneUnverified`) model in detail; one cycle at a time (`OneCycleAtATime`) is what
allows `Maintenance` to have one upkeep. `LivePage` takes from `Hub` that a connection's events
arrive in order until it breaks; `OutageDetection` and `Availability` both have incidents, the
former with the worker's calls, the latter with time.

### 2.1 State and actions against the code

**WorkerLoop.** `now` is time in units; the ticker's one-place channel is `tick`, and
a tick nobody received swallows the next, as in Go. `flag` is
`workerCycleRunning`, `wg` the counter of `workerWG`, `cancelled` the context.
A cycle goes `fetch` (find monitors) - `spawn` (loop over due ones) - `upkeep` -
`clear` (deferred store) - `exit` (deferred `Done`): Go runs deferred calls
last-in first-out, so the flag is cleared *before* the counter goes down. A check is
`probe` until `lastCheckedAt` is written and `detect` after. `WithinTimeouts` keeps
the clock from running past the longest fetch (`MaxFetch`) or check (`MaxCheck`),
which is how a timeout is a constant rather than a state. Which unused goroutine
identity is taken is fixed by `CHOOSE`, since identities are interchangeable.

**ServerLifecycle.** `r.Run` (server.go:85) serves until the process ends, and nothing
closes its listener, so the code behind it is not in `Next`. The handler cancels the
context and, for `timeout > 0`, exits when its timer fires. Without
`GRACEFUL_SHUTDOWN` there is no handler and a signal kills.

**OutageDetection.** One action per database call of `checkMonitor`,
`applySSLWarningStatus` and `detectOutage`. `mon`, `tgt` are the monitor document
the check was started with (a copy: later edits do not reach it), `found` and `seen`
the outage and the incident it read. An outage and an automatic incident are named
after the check that inserted them, since a check inserts at most one of each.
`stamp` is the order of `checkedAt`. `Fails("read")` is the
"any error means not found" reading of the code; `Fails("write")` an ignored or
early-returned error. `ResolveOutage` updates by `_id` only, and after an error the
update may have been made all the same. `FindIncident` uses the filter of the code,
which holds the outage's component *and* sub-component, while incidents name
components only: a sub-component's recovery finds no incident. `MarkTarget` merges
the read of a sub-component's parent with the status update next to it, because the
parent of a sub-component does not change. Administrators' requests on incidents, statuses and
monitors are one step each here.

**Hub.** Accepted events are numbered; `Stream(c)` is what was written, is being
written and is queued for a client. `Run` is either in its select (`event = 0`) or in
the range loop (`todo`). A full client channel closes the channel and drops the
client; a full broadcast channel drops the event for everybody. Reader and writer are
`readPump` and `writePump`; `conn = "dead"` covers a closed, broken, or silent peer.

**Maintenance.** A request is a write and an audit entry; `updateMaintenanceStatus`
reads the clock once and makes two `UpdateMany` calls, each of which filters and
updates document by document (`Visit`), so requests come in between. `touched` and
`failed` are history variables for the property. `newest = "lost"` records an audit
entry that failed.

**Subscribers.** `job` holds the copy a request is about to write: reading and
replacing are two actions. Tokens are numbers (a fresh one is the next number),
`mailed` those whose mail went out or will: a mail may arrive arbitrarily late, which
the model leaves to *when* `Verify` uses it. `links` are documents whose unsubscribe
link has been mailed, `confirmed` those whose owner presented a mailed current token.

**Availability.** The clock counts units; a write takes none, and `PassTime` records in `during`
which incidents were unresolved in the unit that passes. A document has `createdAt`, `resolvedAt`,
a status (`resolved` or not, all the code asks) and its targets, the union of the two lists of
components a document may carry. `WithStatus` is the write of a status by `Update`, `AddUpdate` and the
worker: resolving stamps `resolvedAt`, nothing removes the stamp. A request goes `Ask` (period.go, with
`clock` read once) - `ListIncidents` (the repository's filter) - `ComputeAvailability` (`clock` read again
inside `DowntimeOf`, then `ClipInterval`, sort and `MergeStep` as in intervals.go). `known` and `final` are
history: the documents there were when it read, and those whose status was never set after a
resolution. Percentages are a rounding of these sums and are left out.

**AdminSession.** A tab has a path, the state of `ProtectedRoute` (`guard`: the token its effect ran for
and its three flags), what the path renders (`view`: layout mounted or not, and where a `Navigate`
sends it), the login form and the profile page. `Navigates` is a navigation inside the page: effect of
the `Navigate`, effect of the guard, the requests that mounting sends, and answers that no longer have
a component (`live`). `Loads` is a reload, which keeps only what the server may still carry out. A
request carries the credential it was sent with (`Credential` is the request interceptor). The
server is one action per database call where a handler makes several: `verify` goes
`ChooseVerification` - `ReadUser` - `VerifyEnrollment` or `VerifyChallenge`, recovery codes being written back as
they were read. `Intercept` is the response interceptor. Passwords are right or wrong; a TOTP is
what the app shows for a secret or a typo. `granted` is history.

**LivePage.** The database is a version per table. A handler writes (`Change`) and broadcasts later
(`BroadcastEvent`); some writers announce nothing. A request (`calls`) reads its tables one after the
other. `chain` has one entry per visit to a page with a WebSocket: the connection or its timer, which
lives on after the page is gone. `hook` holds data, loading and error of each `useApi`; `sent` and `applied`
are history numbers that say whether an older answer overtook a newer one. `told` is history: the
newest version the page shown heard of. `cache` stands for both copies of the settings.

**AdminDesk.** One module for eight pages, because they are one shape; what differs is data (`Desk`, the
`...Offers`, the `...Form` operators), read off each page. A handler is a job: `Submit` sets the flag and sends,
`Serve`/`Refuse`/`LoseJob` decide it, `Resume` runs the code after the `await` (closing dialogs, refetching under
the page and limit it closed over), `AnswerRead` what follows the refetch. A modal covers the page
(`Reachable`). `OverRows` and `Mounted` are what happens to the state of a row's component when the row
leaves the table.

## 3. Runs

`tlc -config <run>.cfg <module>`, all in this directory. All finish within two and a half minutes on two workers.

| Run | Module | Shows |
|---|---|---|
| `lifecycle` | MCServerLifecycle | worker inside the server, signal at any moment |
| `outage_sequential` | MCOutageDetection | one check of a monitor at a time, no faults: refinement and agreement |
| `outage_faults` | MCOutageDetection | overlap, warnings, faults, restart, administrator |
| `outage_shared` | MCOutageDetection | component and sub-component, manual incidents, administrator, restart |
| `hub` | MCHub | fan-out, slow and dying clients |
| `maint` | MCMaintenance | edits around the upkeep, failing calls |
| `subs` | MCSubscribers | opt-in with deletion, pruning and failing writes |
| `session` | MCAdminSession | two tabs sign in and out, enrol, verify, disable, with requests in flight across reloads |
| `livepage` | MCLivePage | requests, events, breaks, visits and selections in any order |
| `desk` | MCAdminDesk | every admin list page beside other writers and losses |
| `availability` | MCAvailability | a request while incidents are opened, resolved, reopened, deleted |
| `livepage_deleted` | MCLivePage | a violation: section 6 |

### 3.1 What the properties say

*lifecycle.* `WaitGroupExact`: the counter is the number of live goroutines.
`NoAddDuringWait`: it never leaves zero once the loop drains (the documented misuse of
a WaitGroup). `OneCycleAtATime`. `NoOverlappingChecks`: a property of *time*, not of
the flag. `NoCheckCutOff`: a forced exit finds no check half way.
`ShutdownCompletes`: after a signal the process ends, or with timeout 0 the worker
returns.

*outage_sequential.* `ImplementsLifecycle`: with liveness, the detailed module
refines `OutageLifecycle`. `SettledAgreement`: whenever no check of a monitor runs,
outage, component status, automatic incident, `lastStatus` and newest log agree (for
the monitor that applies no warnings: a warning may overwrite the status).
`ConsecutiveFailures`: the last three *results*, not only the last three stored, were
failures. `ActiveOutageVisible`: the SSL logic never lifts an outage.

*outage_faults.* `OutageBacked`, `OwnRecovery`, `WarningEndKeepsMajor` hold under
everything at once: overlap, failing reads and writes, restart, administrators.

*outage_shared.* `AtMostOneActiveOutage` per monitor. `EffectsFollowOutage`: no major
outage or automatic incident without its outage having been stored. `LifecycleSteps`: with restarts and edits too, every
step is one of `OutageLifecycle` (only its liveness needs the calm of `outage_sequential`).
`RecoveryNamesComponent`: a recovery resolves only incidents naming its component.

*hub.* `NoChannelPanic`: no close and no send after a close. `StreamComplete`: a
registered client has every event since registration in order; a dropped one a gapless
prefix. `CleanedUp`: a dead or dropped client ends out of the map with both pumps gone.

*maint.* `UpkeepSettles`: a successful upkeep leaves nothing overdue that was not
edited meanwhile, even windows whose two times have passed. `HistoryTellsVisibility`.
`PassedWindowsComplete`: eventually, unless edited.

*subs.* `DoubleOptIn`, `DeletedStaysDeleted`, `OneRecordPerAddress`,
`OldTokensStayDead`, `ImplementsOptIn`.

*session.* `AdminPagesNeedBothFactors`: admin pages other than the profile appear only in a
browser that once got a token with both factors, whichever way the tabs interleave. `SignInArrives`: the step that
takes a sign-in's answer ends inside the admin pages. `SettlesUnlessRestricted`: redirects, reloads and
requests end, unless the stored profile still needs its second factor (section 6 says what happens then).

*livepage.* `ToldIsShown`: unless an older answer overtook a newer one, nothing shown is older than
what the page was told of. `SelectionShown`: at rest, what is shown belongs to the period, quarter and
category selected. `LoadingIsAwaited`: who says it is loading awaits an answer. `Settles`: after the last
fault nothing loads any more and the page is connected and has heard everything.

*desk.* `OwnWritesListed`: when the newest list request was answered, the table is at least as new as
every acknowledged write of the tab. `SavingTells`: the flag of form and questions is up exactly while the one
handler that owns it runs. `ButtonsComeBack`: all flags come down, again and again.

*availability.* `AnswersTellHistory`: an independent count of units against the interval
arithmetic, for the page and per component; and (`UnrevisedChargedExactly`) an incident whose status nobody set after its
resolution is charged exactly the units in which it was open, whatever was done to the others. `ResolvedHideNothing`: an
incident that is resolved when it is read is charged at least the time it was open, even when it was reopened and resolved twice.

### 3.2 Bounds, and why they are enough

* `lifecycle`: two monitors, two cycles, three checks, period 3, fetch and check at most
  1 each, clock to 8 (two ticks), timeouts {0, 3}. Upkeep takes any time, so the second
  tick is also skipped; the intervals (2 and 5) make a monitor due at one tick or both;
  with three checks no behaviour runs out of identities.
* `outage_sequential`: two monitors with two stored failures each, so one more opens an
  outage; four checks allow opening, recovering and failing again on one monitor beside
  the other. `outage_faults`: two checks suffice for overlap (one opening, one recovering
  or warning on the same monitor), with one administrator step, one restart and every
  fault. `outage_shared`: three checks, one manual incident, one administrator step.
* `hub`: capacities 1 instead of 256, two clients, two events: the second event finds a
  full channel. More events (three were tried, with the same result) only repeat it.
* `maint`: one window, three writes, two faults, clock to 2. Windows do not influence
  each other; three writes create, reschedule and publish.
* `subs`: two documents, one address, TTL 1, retention 1, clock to 3, four tokens: a
  record can be created, expire, be renewed, pruned, and created again.
* `session`: two tabs (one overtaking the other needs no third), one recovery code, two enrolments, three acts
  of the user or losses, at most two requests in flight when the user acts; from signed out, signed in, or
  left after the password. Three acts are enough to sign in and go somewhere in one tab while the other signs out
  or disables MFA.
* `livepage`: five hooks, one of each kind of endpoint (`incidents` and `components` read what `summary`
  reads), three kinds of change, one write, and three visits, selections, losses or breaks: a visit, and two more
  things that go wrong or change on the page. A second write to the same table repeats the first, as versions
  are only compared. 766 929 states.
* `desk`: all eight pages, one or two records (two pages of a table at limit 1), limits 1 (asked for first) and 2, two writes
  of the tab, and one other writer, loss, page, limit or filter change: a handler that overlaps
  with a second one and is disturbed once. 1 239 311 states.
* `availability`: three incidents (one nested, one adjacent, one overlapping), one component, four units,
  a year of two and presets of one and three units, four writes. One request is followed until it is answered (`Unanswered`),
  because a later one reads the same documents. 4 105 276 states under symmetry of the incidents.
* Where identities, events, time or tokens are used up, or the user may stop, deadlock is not checked; `maint`
  checks it.

### 3.3 Fairness

* `LifeFairSpec`: the clock runs, a due timer fires, each cycle and check that can move
  does (Go's scheduler; probes have timeouts), and a select with `Done` ready does not
  pass it over for ever. No signal is assumed.
* `OutageDetection!FairSpec`: a started check goes on. Checks need not be started.
* `Hub!FairSpec`: weak fairness for `Run` and the pumps (a writer's ticker pings a dead
  peer), strong fairness for register and unregister, because `Run` chooses among ready
  cases at random and is often elsewhere. Nobody has to connect or publish.
* `Maintenance!FairSpec`: the ticker keeps starting cycles. Failures are bounded in
  number; with a database that fails for ever nothing could complete.
* `AdminSession!FairSpec`: the server goes on with requests, the browser handles answers and follows
  redirects. The user and the network owe nothing.
* `LivePage!FairSpec`: requests are answered or fail, timers fire, connections succeed (faults are bounded in
  number), events that arrived are handled. The hub owes no broadcast, the visitor no click.
* `AdminDesk!FairSpec`: the server decides every request and the tab runs what was answered: an HTTP request
  always settles. A request that is lost is a fault, and needs no fairness.

## 4. Proofs

`tlapm <module>_proofs.tla`. No theorem has an assumption beyond the named ASSUMEs of the
constants and those stated in it.

* **ServerLifecycle_proofs**, the worker. `TypeCorrect`, `WaitGroupCorrect`, `NoLateAdd` and
  `QuietAfterReturn` come from one inductive invariant: types plus "`wg` is the
  cardinality of the live goroutines". `NoAddDuringWait` needs no more: a spawn is made by a live cycle,
  so the counter is not zero. `CompareAndSwapCorrect` is inductive with the conjunct
  "a body is in progress => the flag is set". `PromptChecksDoNotOverlap` assumes a prompt loop and
  `MaxFetch + MaxCheck < Period`; its invariant (`TimeInv`) says that whenever a tick can be received no check is
  alive and no cycle is spawning, so a cycle fetches with no check alive and gives each due monitor one check.
  It does not use `lastCheckedAt` at all.
* **ServerLifecycle_proofs**, the process. `WorkerInside` (every step of the composition is a worker
  step or a stutter) carries the worker's invariants over. `LongTimeoutCutsNothing`: if every
  positive timeout exceeds `MaxFetch + MaxCheck`, a forced exit cuts no check off; the
  invariant bounds the start of each spawning cycle and each live check by the deadline.
* **OutageDetection_proofs.** `OutageBackedAlways` strengthens the property with what a
  check between its read of the logs and its insert already knows, and uses that stored
  results never change. `OwnRecoveryAlways` follows from "a check that resolves found an outage of its own
  monitor after an up result". `OneActiveOutage` needs no overlap and no failing reads: a check between find and insert is the only one of its
  monitor.
  `WarningEndKeeps` needs no assumption: the filter of the last update asks for the status again. `RecoveryNames`
  assumes that affected components are not edited, `EffectsFollow` that writes succeed and administrators set no status;
  both rest on `IncidentInv` (a check opens its incident last, and resolves one that exists).
  `FailuresConsecutive` assumes sequential checks, stored results and no restart (`ConsecutiveInv`: check times are at most
  as many as were given out, and a running check's result is the newest of its monitor).
  `OutageVisible` (`Undisturbed`: also no failing call, no edits, a target per monitor) says of every call that writes
  "operational" that its check still finds no active outage. `SettledAgrees` (`Alone`: also no common parent component) is the
  largest proof: `Agrees` states, by the call at which the monitor's check is, which of outage, status and incident are
  ahead of the others; a step of another monitor's check changes none of it (`AgreesElsewhere`), each step of its own
  moves it on (`AgreesHere`). `TakesLifecycleSteps` is the refinement of `OutageLifecycle` without its liveness, for
  checks of one monitor in turn and writes that succeed, but with failing reads, restarts and any edits. The length of a run
  of failures is well defined (`RunOfIs`: it exists and is unique, by `LeastOf`, which gets the least element of a set of
  numbers from the well-foundedness of inclusion, since the induction theorems cannot be instantiated); a stored result
  is newer than what is stored already (`LifeInv`), so it lengthens or ends the run (`RunGrows`), and nothing else changes it
  (`RunKept`); and who opens or resolves an outage still has the run it read behind it.
* **Hub_proofs.** `ChannelsNeverPanic`: a client in the map has an open channel and is
  between registration and the end of its reader; nothing is closed twice. `StreamsComplete`, on top of it: what a
  client was written, what its writer has in hand and what its channel holds are numbered on from each other, starting
  after the event it joined at, and for a client in the map they reach as far as `Run` has come.
* **Records_proofs**, maintenance. `UpkeepCatchesUp` tracks what each call has settled of the
  windows visited so far. `HistoryAgrees` (one request at a time): the newest entry, or the one the
  pending request is about to write, tells drafts apart.
* **Records_proofs**, availability. `ResolvedAreCharged` and `AnswersAreHistory`, for any incidents, components, year, presets
  and clock. `DocumentsTell` relates each stored document to the units its incident was open in: never outside those the
  document gives if it is resolved, and exactly those if its status was never revised. `PeriodIsPast` is why reading the
  clock again is harmless: whatever the period, it has ended by the time it is asked for, so `KnownTells` (the same
  relation between the documents as they were read and the units of the period) survives every later write and tick.
  `CountedOnce` is the arithmetic: `SortedIs` (finitely many intervals can be put in order, by inserting one),
  `MergeCovers` (after k rounds the merged intervals lie apart and cover what the first k do), `TotalCounts` (the lengths
  of intervals that lie apart add up to their units). Sorting is a choice among the orders, and the two loops are recursive
  functions, in which the induction is about the least round that would break what the rounds before it kept (`LeastOf`). `OrderExists`,
  `MergeRounds` and `TotalRounds` show first that there is such an order or function. That the documents are finitely
  many (`DocumentsFinite`) follows from their being written one at a time, not from an assumption.
* **Subscribers_proofs.** `OnlyConfirmed` and `DeletionsLast` hold for any number of
  overlapping requests: the invariant is about every pending copy as well as every record. `OneRecord`, `OldTokensDead` and
  `RecordsImplementOptIn` assume one request at a time (`OneAtATime`): a request that has read is then the only one that
  can insert or replace, so what it is about to write is one request's change (`CopyOf`) of the record stored
  now, unless that was deleted meanwhile (`CopiesInv`), and each write is a step of `OptIn` or a stutter.
* **AdminSession_proofs.** `BothFactorsNeeded`, for any number of tabs, requests and enrolments. The property is not
  inductive: what a tab shows comes from its guard, that from the stored profile, that from an answer, that
  from the credential of its request, that from storage or cookie. `SessionInv` says of each of these places
  that it holds a verified value only if `granted`. `SignInLands`: a sign-in's answer that finds its login form alive
  navigates to the admin index with a verified profile just stored, which the guard and `AdminIndexRedirect` turn into a page the role
  may see.
* **AdminDesk_proofs**, for any of the eight pages, records, limits and writes. `OwnWritesAppear`: the answer to the newest list request was
  found after the last acknowledged write, because a handler refetches after it is answered (`ReadAfterWrite`), and the numbers
  of requests and writes never run ahead of the counters (`Counted`). `SavingOwned`: the flag is up exactly while a
  handler owns it and at most one does (`OneOwner`), since the buttons that start one are dead while it is up; and the answers a
  handler waits for are its own (`WaitsAreOwn`), so an answer ends one handler and clears one flag.
* **LivePage_proofs.** `LoadingAwaited`, `SelectionAppears` and `ToldShown`, for any hooks, changes and number of visits, by
  four invariants: `Socketed` (the newest connection belongs to the page shown), `Requested`
  (requests are numbered, hold and ask what is selected, and a loading hook has one), `Heard` (no event
  is newer than the database) and `Shows` (the newest request of a hook has read, or has yet to read, every table an
  event heard was about, at least as new as that event).

Only model-checked: liveness (`ShutdownCompletes`, `CleanedUp`, `PassedWindowsComplete`,
`SettlesUnlessRestricted`, `Settles`, `ButtonsComeBack`, and what `ImplementsLifecycle` has beyond `LifecycleSteps`),
because fairness and ENABLED are beyond the prover. Every invariant and every action property of the runs has a theorem,
under the assumptions named above.

## 5. Not modelled, and why

* **No state that interleaves:** rendering, validation messages, encryption primitives, HTTP plumbing,
  configuration, static files, health endpoints, single sign-on (one stateless exchange), the theme, the rich-text
  editor, the dashboard (it only reads).
* **Outcome only:** network I/O of probes, webhooks and mail.
* **Members and invitations.** The unique index on `users.emailHash` decides the races about an address,
  so a model would mostly restate the index. `AdminMembers` keeps two tables with one slot per kind of action, the shape `AdminDesk` has
  for eight other pages.
* **Settings form.** `AdminSettings` loads one copy, edits it and writes it whole; how public pages read, cache
  and hear of the settings is in `LivePage`.
* **Deletion of a sub-component** (four collections, one after the other): it would multiply
  `OutageDetection`, whose runs are as large as they can be.
* **Daily uptime.** One find and one insert or increment, read by the bars only, with no promise that the counters add
  up. **Percentages and bars** are roundings and sums over them.
* **Status derivation.** A stateless maximum over severities; `LivePage` has the order of its reads.
* **Audit entries and update documents of incidents**, which nothing but the timeline reads.

The component table in `PROJECT.json` gives the reason for each part.

## 6. Divergences

Checked by a run that finds the quoted statement violated:

* `livepage_deleted`: the pages' lists of events lack `incident_deleted`, so a page that heard of a deletion
  goes on showing the incident, although docs/architecture.md names deletion among the events that trigger refreshes.

Reproduced with a run's own constants, by giving the named property instead of the run's:

| Configuration | Property | What the code does |
|---|---|---|
| `lifecycle` | PROPERTY `ForcedOnlyWhenStuck` | The "safety net" of signals.go:27 is the only way a signalled process ends: it waits the full timeout and exits with status 1 even when the worker has returned. |
| `outage_shared` | INVARIANT `NoCoveredAutoIncident` | Two monitors of one component failing together open two incidents, although README.md:48 promises one only when not already covered. |
| `outage_shared` | INVARIANT `DetectedOutageCovered` | A stop between the insert of the outage and of the incident leaves an outage that is never covered. |
| `maint` | PROPERTY `PublishedWindowsComplete` | A window created after its start becomes `active`, which the upkeep never completes. |
| `subs` | PROPERTY `LinkStaysValid` | Pruning goes by the age of the record, so a freshly renewed verification link can die at the next cycle. |
| `session` | PROPERTY `ProfilePageOpens` | A session without its second factor is sent to the profile page, whose layout reads the settings (AdminLayout.tsx:142), is refused with 403, and is sent to the profile page again (api.ts:37-42), so it reloads as often as the settings are refused. |
| `availability` | INVARIANT `ActiveCountsUntilNow` | A reopened incident keeps its `resolvedAt`, and what is open since is not counted, although intervals.go:4-7 says downtime of active incidents runs until now. |

Seen while modelling:

* With overlapping checks (a probe slower than the ticker), a success whose log is not yet stored is passed over, and an outage
  opens across it although its incident says "has failed 3 consecutive checks" (worker.go:484). `ConsecutiveFailures` with
  `Overlap = TRUE` shows it.
* A record that is unverified *and* unsubscribed takes the pending branch of `Subscribe` (subscriber/service.go:54) and stays
  unsubscribed, against the comment at line 32.
* The recovery of a sub-component's outage resolves no incident (worker.go:525).
* An older answer that arrives late overwrites a newer one (`useApi.ts`), and events missed while disconnected are
  not made up for on reconnecting; `ToldIsShown` is stated with the first excepted and says nothing of the second.
* Changes made by the worker, and those of maintenance windows and sub-components, are broadcast to nobody.
* The edit form of AdminIncidents sends the status again, so saving a resolved incident moves its `resolvedAt` and
  lengthens its downtime; an update posted with the form's default status reopens a resolved incident.
* A handler of the admin pages refetches with the page and limit it closed over, so after a save the table may show
  the page the user has left. `AdminWebhookChannels` and `AdminSubscribers` have one slot for the row being deleted: a second delete
  enables the first row's button again while its request is under way.
* A wrong password at the disabling of MFA is a 401, which the interceptor takes for the end of the session, as it does at
  the login page, where it reloads the page and loses the message.
* A `navigate('/admin')` that a profile page left behind may take the tab off the login page while its sign-in is under way; the
  answer stores the session, but the guard that is there already does not look again when the token is the same. `SignInArrives` is
  about a login page that is still shown.
* A logout whose request fails clears the stored session and keeps the cookie, with which the guard lets the next visit in again.

## 7. What is open

1. Members and invitations with the activation's two writes; the deletion of a sub-component beside its monitor's checks.
2. Daily counters with overlapping checks, and the bars as sums over them.
