# Verification of RicozEndpoint

RicozEndpoint manages Windows endpoints: an API server (`apps/api`, Fastify over
PostgreSQL through Prisma), an agent on every device (`apps/agent`) and a web
console (`apps/web`). This directory holds TLA+ models of its protocols, the TLC
configurations that check them on small instances, and proofs checked by TLAPS.
Paths below are relative to `src/`; "routes" are the files under
`apps/api/src/modules`.

## 1. Inventory

The server keeps all of its state in the database. A handler is an async function
that runs one statement, or one `$transaction`, at a time; between two of them any
other handler of the same or of another process may run. PostgreSQL runs at its
default isolation, so a transaction is atomic but what it read *before* it began is
not protected. Nothing in the code takes locks: what orders handlers is a guarded
`updateMany`, a unique index, or nothing.

| component | state | operations that change it | talks to |
|---|---|---|---|
| command queue, `commands.routes.ts` | `Command` rows (QUEUED, COMPLETED, FAILED, CANCELLED; SENT and RUNNING are in the enumeration and never written) | create, cancel | agent endpoints deliver and settle the rows |
| patch catalog, `patches.routes.ts` | `Patch`, `DevicePatch` | create, update, deploy, retry, cancel, delete | queues commands; heartbeats add rows |
| software deployment, `software-catalog.routes.ts` | `Application`, `Deployment` | deploy | queues one command per deployment |
| agent endpoints, `agent.routes.ts` | – | heartbeat, result, pending, policies | writes devices, patches, commands, deployments, alerts |
| alerts, `alerts.service.ts`, `alerts.routes.ts` | `Alert` (OPEN, ACKNOWLEDGED, RESOLVED) and a partial unique index over the unresolved ones | raise with de-duplication, resolve by scope, acknowledge, resolve, purge | called by results, the sweeper and compliance |
| device status, `device-status.service.ts` | `Device.status`, `lastSeenAt` | heartbeat marks ONLINE, a timer marks OFFLINE and raises alerts | alerts |
| compliance, `compliance.service.ts`, `compliance.routes.ts` | `ComplianceResult` | evaluation after a heartbeat or on request | policies, groups, alerts |
| enrollment, `enrollment.routes.ts` | `EnrollmentToken`, `EnrollmentTokenRequest`, `AgentToken` | create, request, approve, deny, cancel, reveal, revoke, enroll | devices |
| agent authentication, `agent-auth.middleware.ts` | `AgentToken` | check and expire | every agent endpoint |
| users and organizations, `users.routes.ts`, `organizations.routes.ts` | `Organization`, `User` | create, update, reset, delete; keeps one active administrator | login |
| policies, `policies.routes.ts` | `Policy`, `PolicyAssignment` | create, update, duplicate, delete, assign | compliance |
| devices and groups | `Device`, `DeviceGroupMember` | rename, delete, membership | cascades to most tables |
| login, `auth.routes.ts`, `rbac.middleware.ts` | stateless JWTs | register, login, refresh, switch, change of password | reads the account on every request |
| Windows agent, `apps/agent/src` | `state` file; in memory `pendingResults`, `loopTimer`, counters | enrol, heartbeat loop, flush, execute, report with retries, shutdown | agent endpoints |
| console session, `apps/web/src/context/AuthContext.tsx`, `lib/api.ts` | the token in the browser's storage; per tab the token and profile React holds | sign in, sign out, refresh, switch, load the profile | login; every page |
| console pages, `apps/web/src/views`, `hooks` | per page its controls, its link, ticks and dialogs; the query cache | choose, search, turn pages, change rows, deploy | list and change endpoints |
| the rest | dashboard, audit log, health, settings, landing page | – | – |

What is hard in it:

* **Interleaved handlers.** Most handlers read, check and write in separate
  statements: cancel against result, deployment against deployment, deletion of a
  patch against deployment, acknowledge against resolve, sweeper against heartbeat.
* **A lossy, repeating agent.** The agent gives requests up after a timeout while the
  server still works on them, repeats reports, keeps what it could not report in a
  bounded queue in memory, and forgets it when it restarts. Delivery leaves a command
  QUEUED, so a command is handed out until its result is recorded.
* **Work split over statements.** A crash between two of them leaves the first
  without the second: a settled command without its alert, an OFFLINE device that
  nobody is told about.
* **Limits.** 20 commands to a heartbeat, 50 queued results, the uses of an
  enrollment token.
* **Answers that come late.** The console applies an answer whatever has happened
  since the request: a profile after a sign-out, a list after another choice, a
  detail while a dialog for another group is open.
* **Two timers.** The agent's process arms the timer of its loop and one of its start,
  and both may run when an enrolment is quick.

What makes the components correct, in short. *Commands*: a settled command stays
settled and shows what the device really did; deployments and failure states follow
the commands; nothing is installed twice at once; everything queued ends. *Alerts*:
one unresolved alert per condition, none for a condition that is gone. *Status*: a
device that reports is ONLINE, a silent one becomes OFFLINE with an alert.
*Compliance*: the results match the effective policy and the latest telemetry.
*Enrollment*: a one-time token is shown once, is not used beyond its limit, and a
device has one live agent token. *Accounts*: requests stay in their organization, an
organization keeps an administrator, a super administrator is out of reach for
others. *Agent process*: one loop that never dies, no inventory forgotten. *Console*:
a session that was ended stays ended; a page shows what its controls say and what the
user has changed, and a dialog acts on what it was opened for.

`PROJECT.json` lists under `hazards` each place where one of these could break.

## 2. Modules

| module | what it is |
|---|---|
| `Commands` | the command tables and every handler that changes a command |
| `CommandDelivery` | the agent's loop composed with `Commands`: timeouts, retries, queued results, restarts |
| `CommandContract` | the abstract specification of a command's life |
| `CommandDelivery_proofs` | proofs about `Commands` and `CommandDelivery` for every value of the constants, and the refinements between the three |
| `Alerts` | the alert table, its writers and its triage |
| `DeviceStatus` | heartbeats against the offline sweeper, over the tables of `Alerts` |
| `AlertBook` | what the alert table promises its writers |
| `Alerts_proofs` | proofs about `Alerts` and `DeviceStatus`: uniqueness, and that both implement `AlertBook` |
| `Enrollment` | token requests, tokens, enrolments and the deletion of devices |
| `Enrollment_proofs` | proofs about `Enrollment` for every value of its constants |
| `Accounts`, `Accounts_proofs` | organizations and accounts under overlapping changes, and proofs for every value of the constants |
| `Compliance`, `Compliance_proofs` | policies, groups, telemetry and the evaluation of a device in its statements, and proofs |
| `AgentProcess`, `AgentProcess_proofs` | timers, turns, enrolment and state file of one agent process, and proofs |
| `ConsoleSession`, `ConsoleSession_proofs` | the tabs of a browser, their tokens and profiles, answers that come late, and proofs |
| `ConsoleList` | a list page: controls, effects, query cache, changes from the list |
| `ConsoleDialogs` | the dialogs of the groups and the software page |
| `ConsolePages`, `ConsolePages_proofs` | composes the two, one page of the console at a time, and proofs about both |
| `MCCommands`, `MCDelivery`, `MCAlerts`, `MCDeviceStatus`, `MCEnrollment`, `MCAccounts`, `MCCompliance` | the instances TLC checks (the other modules are instantiated by their `.cfg` alone) |

### Commands

A `Slot` is a request in flight; `request[s]` is what its handler has read so far,
and an action is one statement with the code behind it. A handler of several
statements is a chain of actions that its `op` and `todo` order:

| handler | actions |
|---|---|
| `POST /commands` | `CreateCommand` |
| `POST /commands/:id/cancel` | `CancelRead`, `CancelWrite` |
| `POST /patches/:id/deploy` | `DeployPatch`, then `ReadStates` and `ReadActive` in either order (`Promise.all`), `QueueRows` |
| `POST /patches/:id/retry` | `RetryPatch`, `ReadActive`, `QueueRows` |
| `POST /software/deploy` | `DeploySoftware`, `ReadActive`, `QueueRows` |
| `POST /patches/:id/cancel` | `CancelPatch` (one guarded `updateMany`) |
| `POST /patches`, `DELETE /patches/:id` | `CreatePatch`; `DeletePatchCheck`, `DeletePatch` |
| `POST /agent/heartbeat` | `HeartbeatArrives`, `SyncPatches` when it carries patches, `HeartbeatAnswer` |
| `POST /agent/commands/:id/result` | `ReportArrives`, `ResultRead`, `ResultCommit` or `ResultReject`, then `RaiseAlert` or `ResolveAlerts` |
| a failing statement, a crash of the API | `RequestFails` |

`command` holds the rows in the order of creation; a `Deployment` has exactly one
command, so `deployment[c]` is the status of the one that `c` drives and "NONE" when
there is none; `alert[c]` is the alert with `dedupKey` `command:<id>`, OPEN and
ACKNOWLEDGED together. `Patch` are row ids: a KB that is reported again after its row
was deleted is another id. Left out: roles, tenants, texts, the approval status of a
patch, the deletion of devices, and the first read of a handler where it only finds
the row it was asked for.

### CommandDelivery

`agent[d]` is where the loop of a device stands and `pendingResults[d]` its queue.
The agent awaits one request at a time. Its actions are `SendHeartbeat`, `SendFlush`
and `FlushDone` (`flushPendingResults`), `Execute`, `SendReport`, `LoopDone`
(`processCommands`), and what it does with an answer: `ReportOk`, `FlushError`,
`ReportError` (`reportResultWithRetry`), `HeartbeatError`. The server's steps are
those of `Commands`; the last step of a handler is joined with the arrival of its
answer, since a lost answer is the agent's `Timeout` followed by a handler that
nobody waits for (`Abandoned`). `HandlerFails` gives the agent an error it retries
(`INTERNAL_ERROR`) or one it does not (the code of the database's error).
`Restart` forgets the queue. `ran` and `excused` are histories that no action reads.

### CommandContract

An admin's view: `Issue`, `Cancel`, `Offer`, `Run`, `Settle` over `status`, the
commands `offered` to the device and the outcomes it `produced`. An offered command
may run again; it is settled only with an outcome it produced. `Strict` says whether
a settled command is final. `CommandDelivery` implements the contract with
`status`, `delivered` and `ran`, strict only for a single slot.

### Alerts

`writer[s]` is a request in flight: `todo` are the conditions it has not answered
for, `cur` the one it is at, `rows` the alerts an admin works on. A `Scope` is the
key of a condition, `[device, type, key]`, where `None` means left out.

| code | actions |
|---|---|
| `createAlertDedup` | `Raise`, `Find`, `Insert`, `FindAgain` when the index refuses the row |
| `createAlertsDedupBatch` | `RaiseBatch`, `BatchFind`, `BatchInsert`; then `Find` ... for each input when `createMany` fails (`Answered` picks the next) |
| `resolveAlertsMatching` | `Recover` (`AutoResolve`, one guarded `updateMany`) |
| `POST /alerts/:id/resolve`, `/alerts/batch-resolve` | `ResolveRead`, `ResolveWrite` |
| `POST /alerts/:id/acknowledge` | `AcknowledgeRead`, `AcknowledgeWrite` |
| `purgeResolvedAlerts` | `Purge` |
| a failing statement, a crash | `Fail` |

Rows keep their identity: a purged row is "PURGED" and not used again. One
organization; titles, severities and texts are left out.

### AlertBook

Each writer arrives with conditions and reports them or gives them up. A report adds
entries only for scopes that have none, and leaves every condition it answers for
covered. `Revive`, an entry that opens again, exists only when not `Strict`, that is
only when requests overlap.

### DeviceStatus

Adds `status[d]` and `fresh`, the devices whose `lastSeenAt` is within the offline
timeout (`Silence` is the timeout passing). `Heartbeat` is the device update of
`POST /agent/heartbeat` and `MarkOnline` what follows it; `ReEnroll` is the enrolment
of a device that exists. `Sweep`, `SweepRead`, `SweepMark` are the statements of
`sweepOfflineDevices` up to its batch of alerts, which are the actions of `Alerts`. A
sweep is a request like any other and may overlap another sweep: `setInterval` does
not wait, and each API process has its own.

### Enrollment

`ask`, `token`, `device` and `agentToken` are the four tables; `handler[s]` is what a
request in flight has read, as in `Commands`. It stands alone: what an agent does
with its token is `CommandDelivery`, and no other table depends on these rows.

| handler | actions |
|---|---|
| `POST /enrollment-tokens`, `DELETE /enrollment-tokens/:id` | `CreateToken`, `RevokeToken` |
| `POST /enrollment-token-requests` | `RequestToken` |
| `.../:id/approve`, `/deny`, `/cancel` | `ApproveRead`, `ApproveWrite` and so on: `Decide` is the PENDING check, `Settle` the update by id |
| `GET .../:id/token` | `RevealRead`, `Claim` (the transaction with its guarded update) or `ClaimFails` |
| `POST /enroll` | `EnrollRead`, `FindDevice`, `CreateDevice`, `RevokeAgents`, `IssueAgent`, `RecordEnrolment`, `CountUse` |
| `DELETE /devices/:id` | `UnpinTokens`, `DeleteDevice` (the row and what its foreign keys do) |
| a failing statement, a crash | `HandlerFails` |

`passed` holds the deadlines that have passed, which is all a clock decides here.
`GET /token`, which makes the single-use token of an installer, is `CreateToken` with
limit 1. Left out: roles, the audit log, the fields of a device that an enrolment
refreshes, and the expiry an agent token takes over from its enrollment token.

### Accounts

`user` holds the rows, `handler[s]` what a request in flight has read, and `switched`
the organizations an account has a token for. A request is accepted by
`Accepted` (`authenticate`: the account as it is now, the organization from the
token), and what the handler decides afterwards uses the role of that moment.

| handler | actions |
|---|---|
| `POST /auth/register` | `RegisterOrg`, `RegisterUser` (two statements) |
| `POST /auth/switch-organization` | `SwitchOrganization` |
| `POST /organizations`, `POST /users` | `Allow`, then `CreateOrganization` or `CreateUser` |
| `PATCH /users/:id` | `Allow`, `UpdateRead` (the row and the guards), `CountAdmins` when an administrator would go, `UpdateWrite` by id |
| `DELETE /users/:id` | `Allow`, `DeleteRead`, `CountAdmins`, `DeleteWrite` |
| a failing statement, a crash | `RequestFails` |

`contested` is a history: the organizations in which two changes have overlapped. Left
out: names, passwords and their reset, settings (a read and a merging write, in which an
overlapping save is lost), and roles that differ in nothing a guard of these handlers
asks for. A registration that fails after its first statement leaves an organization
without an account, which the model has and no property forbids.

### AgentProcess

An action is the code from one await or timer to the next. `Start` is `main`,
`Shutdown` and `Exit` the signal handlers, `Crash` any other end; `Loop` with
`ScheduleNext` is a timer that fires and begins a turn (`boot` is the timer of `main`,
`loopTimer` that of the loop). A turn is `Judge` (the server reads the credentials),
`Accepted` or `Rejected`, `RefreshRuns` (a command that asks for an inventory),
`WorkDone` and `TurnFails`. An enrolment is `StartEnrollment`, `Answer`, `Granted`,
`Denied`, `AttemptFails`, `WaitEnds`, and `PromptAnswered` at a console. `Revoke` is
the deletion of the device. `file` is the state file and survives. `raced` is a
history: an enrolment has ended before the timer of `main` fired. From then on there may be two
loops, and a rejection that comes late for the credentials one of them sent makes the
agent drop those the other has just obtained; that can repeat, so `MaxIssued`
bounds it.

### Compliance

One device of an organization. Changes of policies and groups are one action each
(`CreatePolicy` ... `RemoveMember`); `DeviceChanges` is the device itself, `facts` what
the server has been told. `handler[s]` is an evaluation: it begins with a `Heartbeat`,
whose statements are `Store`, or with `Evaluate`, and goes through `ReadDevice`,
`ReadGroups`, `ReadAssignments`, `ReadInventory`, `ReadStale`, `DeleteStale`, `Insert`
and an `Alert` per violated policy; `EvaluationFails` ends it anywhere.
`Stored` is what the validation of the settings makes of a request: a policy's
requirements survive only in the shape of settings that names them. `VersionAtLeast`
compares versions part by part; the reference `Lower` is the lexicographic order.
Evaluations do not use priorities; results of rules, which nothing writes, and the
reports over many devices are left out.

### ConsoleSession

Two tabs share `storage`; each has the `token` and `user` React holds. A request
(`Sent`) carries the token that is stored at that moment, and its answer is an action
of its own: `MeAnswered`, `RefreshAnswered`, `SignedIn`, `PasswordChanged`,
`Switched`, `Rejected` (a 401, which clears the session and leaves for the login
page), `Ignored`. `LoadUser` is what a page load does, `Reload` a switch that took
effect, `LogOut` the sign-out of one tab. `overtaken` and `signedOut` are histories.
Things the model shows to happen, and no property forbids:

* a late answer to a refresh, switch or password change that was sent before the sign-out
  stores a token again (`SignedOutStays` is about what is sent afterwards);
* a 401 for an older token, or for a wrong current password, ends a live session;
* refresh and password change issue a token of the home organization, so a switched
  organization is lost.

### ConsoleList, ConsoleDialogs, ConsolePages

The ten list pages differ in their controls (`DevicesControls` ...), their table
(`DevicesTable` ...), what the server narrows their list by (`DevicesList` ...) and
what can be done to a row (`DevicesChanges` ...). The rest is the same for all: the
effects (`FollowLink`, `ResetPage`, `ClampPage`), which React runs before the next event;
what the user does (`Choose`, `Type`, `Debounce`, `TurnPage`, `Refresh`,
`Visit`, `Reopen`, `Tick`, `Send`, `SendTicked`); the change at the server and its answer (`Write`,
`Acknowledge`, `ChangeFails`); the read of a list and its answer (`Read`, `Answer`, `Fail`); and what
others do (`OthersChange`, `Age`). Seven pages query through a cache with an entry for
each key, three (`ByHand`: groups, software, audit log) show what was answered last. The
query library is external, and modelled from how the hooks use it. The count and the
rows of a list, two reads in the code, are one step; a user has one change in flight
and does not leave the page meanwhile; a row is open, done or gone.

`ConsoleDialogs` has the two pages whose dialogs are filled from one answer and sent
after another. On the groups page `loadDetail` is asked for by clicks and by the
handlers of `PUT`, `DELETE` and the members' endpoints (`Submit`, `RemoveMember`,
`Done`, `Listed`, `FetchDetail`), whichever answer comes last is on show
(`DetailAnswered`). On the software page every search asks for the targets again
(`Search`, `TargetsAnswered`). `form` remembers what the dialog stands for in the eyes
of the user, `crossed` whether requests had overlapped. In `ConsolePages` either a list or
the dialogs are open: they share nothing but the request for the list, which
`ConsoleDialogs` keeps as a step of its handlers.

Seen while modelling, and not a property: a choice on a later page of the audit log
sends two requests (`AuditLogsPage.tsx:93`); alerts, patches and the audit log do not leave a
page past the last one; the filter of a device's activity is hidden when the filtered list is empty, and
cannot be taken back there (`DeviceDetailPage.tsx:603`); the groups page shows the
first 20 groups and has no pager; forms send back the values they were opened with.

## 3. What is checked

| run | question | result |
|---|---|---|
| `delivery_faults` | two requests, two failures: `TypeOK`, `CancelInTime`, `RerunExcused`, `ContractSpec`, and `QueueDrains` under fairness | hold |
| `delivery_serial` | one request at a time, with patches that are deleted under the agent: `DeploymentMirrors`, `NoDuplicateInstall`, `InstallHasPatch`, `AlertMatchesFailure`, `FailureGenuine`, `TerminalIsFinal`, and `ContractSpec` in its strict form | hold |
| `commands_cancelled` | a cancelled command is terminal too | violated |
| `alerts_overlap` | two requests: `AlertsTypeOK`, `OneUnresolved`, `BookSpec` | hold |
| `status_running` | two requests, triage and a failure: do devices that report recover (`ReportingRecovers`), is a silent device noticed (`SilenceNoticed`)? | hold |
| `enrollment_overlap` | two requests, one failure: `EnrollmentTypeOK`, `RevealedOnce`, `DecidedOnce`, `UseLimit`, `LiveTokensKept` | hold |
| `accounts` | two requests in two organizations: `AccountsTypeOK`, `TenantIsolation`, `LastAdminKept`, `SuperAdminProtected` | hold |
| `agent_process` | failures, revocations, signals and crashes: `OneLoop`, `EnrolmentsAccounted`, `TelemetryOwed`, and `Recovers` under fairness | hold |
| `compliance` | two evaluations, changes and failures: `RowsBounded`, `EvaluationSettles`, and `StatusRecovers` under fairness | hold |
| `compliance_settings` | a policy has the requirements it was created with | violated |
| `console` | two tabs: `SignedOutStays`, `ShownSettled`, and `TabsSettle` under fairness | hold |
| `console_pages` | ten lists and two pages with dialogs: `ShownIsChosen`, `OwnChangesShown`, `TicksFit`, `RequestHits` | hold |

The violated runs are the `findings` of `PROJECT.json`, with the line that promises
and the line that breaks it: the comment in the result handler that terminal commands
are not overwritten, and the documentation of COMPLIANCE policies, whose settings the
validation reads as those of a SECURITY policy and strips. The passing compliance run
therefore gives policies the shape of settings that keeps their requirements
(`Shape` = {"compliance"}), as rows written otherwise than through the API have it.

What `delivery_serial` checks holds only while requests do not overlap; with
`Slot = {s1, s2}` TLC shows the interleaving:

* `TerminalIsFinal`: the update of a result (`agent.routes.ts:423`) or of a cancel
  (`commands.routes.ts:256`) is by id, after the check.
* `NoDuplicateInstall`: two deployments read the commands in flight
  (`patches.routes.ts:735`) before either has queued its own (760), and the same
  install is queued twice, although devices "that already have an install in flight, are
  skipped" (`docs/api.md:178-179`).
* `InstallHasPatch`: a deployment that read the patch queues its installs after the
  delete (`patches.routes.ts:994`).

`DeploymentMirrors` holds with any number of requests in flight: the run checks it with
one, the theorem of section 4 is for all.

The other modules state what a race costs as a bound or an exception that a history
variable marks, and TLC violates each when it is made tighter:

* `Enrollment`: a single-use token is used once per enrolment that overlaps on it
  (`enrollment.routes.ts:935` checks, 1013 increments), a device
  has at most one live agent token per enrolment that overlaps on it, and none only after
  a failure between the revocation (990) and the issue (994), a decision is replaced only
  by a handler that had read the request before it (538). `RevealedOnce` has no such slack,
  since the reveal is the one handler with a guarded update.
* `Accounts`: two demotions that overlap (`users.routes.ts:293`) leave an organization
  without an administrator, hence `contested`; it is per organization, so what goes on
  elsewhere is no excuse. `TenantIsolation` has no exception.
* `AgentProcess`: with `raced` there are two loops at most, and only then may credentials
  be wasted or an inventory be skipped.
* `Compliance`: overlapping evaluations leave rows twice, or of older telemetry; the
  next evaluation that runs alone repairs them, and what is shown comes to be right.
* console: `overtaken`, `muddled`, `missed`, `moved` and `crossed` mark the overlap of
  requests that excuses a page, per tab, per page or per key.

Some true statements about `DeviceStatus` are negative and are not properties: a device
can be OFFLINE without an alert, when a statement fails between `device-status.service.ts:112` and
122 or a heartbeat's resolution is still in flight, and a sweep overwrites the heartbeat that
came after its read until the next one. A database error the agent takes for final
drops a queued result (`agent/src/index.ts:132`); the command is run again.
No handler writes CANCELLED to a deployment: cancelling its command leaves it
PENDING, in the model as in the code.

**Bounds.** `MaxCommands` = 2 is the least with a command before and a command after
another, a duplicate, and a command beyond the delivery limit (`PendingTake` = 1 in
the serial run). Two slots are enough for a race of two handlers; each race of the
code is between two. `MaxPendingResults` = 1 and `CommandResultRetries` = 1 reach the
full queue and the exhausted retries with two commands; the code has 50 and 3.
`MaxFaults` = 2 exhausts the retries of a report, or overflows the queue by two errors
that are not retried, or lets a report fail and the agent restart.
`TableFull` stands for a statement the bound on rows refuses and behaves as a failing
one. Slots and devices are symmetric where no liveness is checked.

The alert runs have scopes with and without device and key, so that a wide input meets
narrow rows and a narrow one a wide row. `MaxAlerts` = 4 in `status_running` is more
than the bounded silences can fill: no writer is ever stuck for lack of a row. Two
changes (`MaxChanges`) are a silence and a re-enrolment, or two silences, for a
device; heartbeats and sweeps are not bounded.

`enrollment_overlap` has a token made for a request and one made directly, and two
machines with two devices. Every token is single-use (`Limits` = {1}): a use more
than the limit needs only the last use to race, and only single-use tokens are
pinned. The third agent token is the one of the second enrolment on a device while
another device has one; `MaxFailures` = 1 tells what a failure excuses.

`accounts` has three accounts, two organizations and two requests: two administrators
that demote each other, in the organization of the seed or in one of their own, with the third account a
bystander or a target. `MaxContested` = 1 lets the second organization show that a race in the
first one does not excuse it; an account switched off stays off in this run, and an
administrator who was demoted comes back by promotion, which races in the same way. `agent_process` has two turns at once, the most two
timers can begin before one of them ends; two failures make both the turn and the enrolment fail, or
the process stop twice. `compliance` has two policies, of which one may be made during
the run, one group and one attribute (the operating system's version, the one with a
reference of its own; the others are a flag each); two changes or failures in all are
the least for a change during an evaluation that fails.

`console` has two tabs and two tokens, an old and a new one; `MaxFlight` bounds the
requests a user starts while others are under way, not those a page load starts.
`console_pages` has two rows on pages of one row, so that a list has a page beyond
the first and a change can empty the last one, the first of them open at first; three choices of the user, one event
from outside, and two requests in flight, which every exception above needs at most.
The dialogs have two targets and seven acts: two details, a dialog, its submission, another
one and its answer, and a deletion.

**Fairness.** `QueueDrains` assumes weak fairness of each agent's loop and of each
request in flight: timers of a running process fire, the event loop does not
abandon an await. It assumes nothing of admins and nothing of failures, and it is
checked with finitely many failures only, which is what "eventually" means for an
agent that needs the network. With patches in the catalog it does not hold: an
install of a deleted patch is refused for ever, as the violation of `InstallHasPatch`
with two slots shows the beginning of; the run therefore has no patches.

`RunningSpec` assumes that handlers in flight go on. `SilenceNoticed` assumes besides
(as the premise of the property) that sweeps come again and again (`setInterval`,
whose callback catches everything). `ReportingRecovers` assumes
that devices report again and again instead. Both need strong fairness for the start
of a handler only because a slot is a bound of the model: a server takes a request
at any time, a slot may be busy each time. Failures are finitely many. `StatusRecovers`
assumes the same of heartbeats and evaluations.

`Recovers` assumes weak fairness of timers, turns and the attempt to enrol, nothing of
the console's user, revocations or failures. `TabsSettle` assumes that effects run and
that requests are answered, by an error if not otherwise, and as its premise that the
dashboard of a tab goes on asking for data (it polls while in the foreground). `console_pages` states safety
only.

## 4. What is proved

`CommandDelivery_proofs` begins with `Commands` and proves, for any number of devices,
patches, applications, commands and requests in flight:

* `TypeCorrect`: `CommandsAssumption /\ Spec => []TypeOK`. `TypeOK` is not
  inductive: a handler writes with values it read earlier. `TypeInv` adds
  `RequestOK`, what each kind of handler has read (its command exists, its outcome
  and item are of their kind), and `DeliveredIssued`. `RequestStep` and
  `FinishStep` are the lemmas about one handler moving while the others keep
  what they read; `TypeStep` has one step per action.
* `DeploymentsMirror`: `Spec => []DeploymentMirrors`. The strengthening `MirrorInv`
  adds that a row that does not exist drives no deployment; only the five actions
  that write a command or a deployment have steps of their own.

The second part of the module says what the guards of the handlers are worth while
requests do not overlap (`OneAtATime`: `Slot` has one element at most), for any number
of the rest: `NoDuplicates`, `InstallsKeepPatch`, `AlertsMatch`, and the action property
`SettledStays` (`Spec => TerminalIsFinal`). None of the four invariants is inductive
alone, since each relies on what a handler has *checked* in an earlier statement.
`SerialInv` therefore adds `CheckHolds`, which says for each kind of handler that its
check still holds where it is used; `SerialStep` keeps it with one step per action.
With two slots the step of `CheckHolds` fails for the handler that does not move,
and the violated runs are the consequences.

The third part takes the agents in, for any number of devices, commands,
requests and faults. The inductive invariant is `DeliveryInv == TypeInv /\ LoopInv /\
(OneAtATime => SerialInv)`; `LoopInv` says of each agent what its place in the loop
implies (the command it works on exists and is its own, the outcome it reports is one
that its installer gave, no two agents await the same request), of each
report in flight that it came from such a run, and which commands are over for their agent
(`Ended`). Every step is sorted by what it does to a row (`Grows`, `Queueing`, ...), so
that the conjuncts about agents need one lemma for a kind of server step and one step
for each move of an agent.

* `ImplementsCommands` (`DeliverySpec => Spec`): the composition takes steps of
  `Commands` only; hence `DeliveredDeploymentsMirror`, from `DeploymentsMirror`.
* `FailuresGenuine` (`[]FailureGenuine`), a conjunct of `LoopInv`, and the action
  properties `RerunsExcused` and `CancelsInTime`, from the invariant.
* `ImplementsContract` (`DeliverySpec => ContractSpec`): each step is a step of
  `CommandContract` or a stutter (`ContractStep`); the strict clauses of the contract
  are where `SerialInv` is used.

`Alerts_proofs` proves `OneUnresolvedAlert` (`Spec => []OneUnresolved`) for any number
of rows, scopes and requests in flight. `OneUnresolved` needs the type of rows and
requests beside it: a row that is being acknowledged must exist. Steps are of two
kinds, those that only lower rows (`Lowering`, `LoweringTo`) and those that write a
row where the index has room (`Writing`, `AcknowledgeAdvance`). `AlertsTypeCorrect`
(`[]AlertsTypeOK`) comes with it; that invariant allows the operations of `DeviceStatus`
as well, so `AlertOps` leaves them out again. `ImplementsBook` (`Spec => BookSpec`) is the
refinement; its invariant adds `SerialInv`: with one request at a time the rows being acknowledged
are unresolved, so that `Revive` is never needed. `BookStep` maps each action to its
step of the book. `OneOfflineAlert` and `StatusImplementsBook` (`StatusSpec =>
[]OneUnresolved`, `StatusSpec => BookSpec`) say the same of heartbeats and sweeps, for
any number of devices: a step of `DeviceStatus` is one of `Alerts` or one of the five
that are its own (`StatusCases`), and only those need a proof; the devices a sweep found
silent are an arrival in the book, what a heartbeat closes and a sweep purges is a `Close`.

`Enrollment_proofs` proves, for any number of requests in flight, rows and failures:

* `EnrollmentTypeCorrect` (`Spec => []EnrollmentTypeOK`), which holds the references
  between the tables. The inductive invariant `Inv` adds `HandlersOK`: a row a handler works on
  has been made, and rows are never unmade (`Grows`), so that the late write of a
  handler hits a row whatever happened meanwhile. That pinned tokens and agent
  tokens refer to present devices survives the overlap of `UnpinTokens` and
  `IssueAgent` because of the foreign keys alone (`DeleteDeviceStep`).
* `RevealedExactlyOnce` (`Spec => []RevealedOnce`), a conjunct of `Inv`: only
  `Claim` makes a token for a request, and it checks and links in one step.
* `DecidedOnceOrAtOnce` (`Spec => []DecidedOnce`): a step that decides a request ends
  the handler that decides it (`Settle`), and no handler that decides it begins afterwards.
* `UseLimitHolds` (`[]UseLimit`) and `LiveTokensAreKept` (`[]LiveTokensKept`), which are
  about cardinalities. Their inductive invariant `CountInv`, over `Inv`, charges each
  number to what is still to come: an enrolment under way to the use of its token
  (`Charged`), an agent token to a counted use, a handler that will count one or a failure
  (`Owned`, `Tallied`), a handler about to issue to the live tokens it has revoked
  (`Bounded`), a device without a live token to a failure (`FewLockedOut`). Each step
  adds one element to a finite set or takes one away.

`Accounts_proofs` proves, for any number of accounts, organizations and requests:
`AccountsTypeCorrect`, `TenantsIsolated`, `AdminsKept` and `SuperAdminsProtected`. The
inductive invariant is `AccountsInv == TypeInv /\ TenantIsolation /\ Sole /\ Counted /\
Protected`: `Sole` says that two changes under way in one organization have made it
contested; `Counted` that a change which takes an administrator away, and is past its
count, leaves another one as long as the organization is not contested; `Protected`
that in such an organization only a super administrator's request is under way against
a super administrator. `StepKinds` sorts every step by what it does to a row, and each
conjunct has one lemma over the kinds (`IsolationNext`, `SoleNext`, `CountedNext`,
`ProtectedNext`); the two action properties follow from the invariant and the kinds
(`AdminStays`, `SuperAdminStays`).

`AgentProcess_proofs` proves, for any bounds: `AgentTypeCorrect`, `LoopNeverDies`
(`[]OneLoop`), `EnrolmentsPaidFor` (`[]EnrolmentsAccounted`) and `InventoryRemembered`
(`[]TelemetryOwed`). `OneLoop` is not inductive: an enrolment under way will arm a timer,
and whether that replaces one depends on where the loop is. `LoopInv` adds that, and that
a process on its way out keeps one thread at most. `OneCredential` says that with one loop
a turn uses the credentials of the file, and one that is rejected does not use those the
server accepts; from it `Accounted` charges every set of credentials that is lost, or will be, to
a failure or a withdrawal, and `Remembered` follows the inventory through a turn.

`ConsoleSession_proofs` proves, for any number of tabs, tokens, profiles and requests:
`ConsoleTypeCorrect`, `SignOutHolds` (`[]SignedOutStays`) and `ProfilesSettle`
(`[]ShownSettled`). `SessionInv` adds to them what the requests in flight carry after a
sign-out (`OutInv`: none of them is valid and brings a token) and that a tab without a token shows no
profile unless a late one (`ShownOK`).

`Compliance_proofs` proves, for any number of policies, groups, attributes, versions
of any length and overlapping evaluations:

* `ComplianceTypeCorrect`; `TypeInv` adds what a handler has read at each statement.
* `ResultsBounded` (`[]RowsBounded`). The bound is no sum that steps keep: `OwnersInv`
  says that there is an assignment of the batches of rows to slots, one to one, such that an
  evaluation about to insert owns none and one about to delete will delete its own. Each
  step gives the next assignment.
* `LoneEvaluationSettles` (`[]EvaluationSettles`). `SettleInv` says for an evaluation
  that runs alone how far it has got (`Stage`, by statement); `VersionOrder` shows that the
  comparison part by part is the lexicographic order, `VerdictFacts` that a
  verdict is that of the reference.

`ConsolePages_proofs` proves, for any number of rows, groups and requests in flight,
`PagesTypesOK`, `PagesShowTheChoice` (`[]ShownIsChosen`), `PagesShowOwnChanges`
(`[]OwnChangesShown`), `PagesTicksFit` (`[]TicksFit`) and `PagesRequestsHit`
(`RequestHits`). The properties speak of a page at rest, and say nothing of how it got
there; `ListInv` says at every moment what the page owes:

* `ByHandInv`, of a page that fetches by hand and whose requests have not overlapped: one request is
  in flight and is for what the controls say, or none, and what is on show answers it or it
  failed. `muddled` remembers the overlaps.
* `QueryInv`, of the others: one request for a key at most (`OneEach`, without which an
  older answer could replace a newer one), every entry is for its key (`OwnEntry`), the key on
  show is asked for, failed or answered (`Covered`), and what was read before a change
  of the user's is asked for again or noted in `missed` (`Replaced`). The last holds
  only while no change has reached the rows without being acknowledged: `Acknowledge`
  makes it true anew.
* `Typed`: a search that is not the one sent will be sent.

The steps that move the controls differ in the controls they move to alone, and share
one lemma for each conjunct (`Turns`). For the dialogs, `InStep` says that while
requests do not overlap one detail is awaited at most, and it is for a handler or for a
page without dialogs and handlers (`DetailFor`); every dialog and handler is for the group on show,
or for one that is gone when none is (`ShownFor`); a deletion was sent over its own
group (`DeleteOver`). That an answer leaves the selection as it is follows from the two
together. `SoftwareInv` is the same for the deployment's target.

Assumptions are those named in the modules, which TLC evaluates. `CommandsAssumption`: the bound
is a natural number, the delivery limit is positive, ids of patches and applications are
disjoint and `None` is none of them; `DeliveryAssumption` adds that requests in flight are
finitely many and that `None` is neither a slot nor a command. `AlertsAssumption`,
`EnrollmentAssumption` and `AccountsAssumption`: bounds are natural numbers, limits are
positive, `None` is no id, and requests in flight are finitely many where they are counted.
`DeviceAssumption`: what `DeviceStatus` raises are the offline alerts of its devices.
`ConsoleAssumption`: at least one token can be issued. `ComplianceAssumption`: versions are
sequences of numbers, a form that asks for a version names one, and `Good` is neither
`Bad` nor `Unknown`. `ConsoleListAssumption` and `ConsoleDialogsAssumption`: rows and targets are
finite sets of numbers and not empty, a page holds one row at least, `NoTarget` is no
number; `NoneAssumption`: `None` is no number, filter, entry, change or set of rows.

Model-checked only: liveness (`QueueDrains`, `ReportingRecovers`, `SilenceNoticed`,
`Recovers`, `StatusRecovers`, `TabsSettle`), which is out of the prover's reach, as are
ENABLED and induction over data. Every safety and action property of a passing run is a
theorem.

## 5. Plan

Done: commands and their delivery, alerts, device status, enrolment, accounts, compliance,
the agent's process, the console's session and pages, and the proofs of section 4. Next:
smaller proofs where one statement is now split into many cases.

## 6. Not modelled

The dashboard, health and report routes change no state; settings and names are rows
that one handler reads and writes, and no other state depends on them. Passwords are
not modelled: a sign-in succeeds or fails. What a command does to Windows is one
choice of outcome (`executeCommand` catches every error and answers COMPLETED or
FAILED). The rate limiter is one more reason for a request to fail with a retryable
error, which `Timeout` covers. Clocks are reduced to what they decide: a timeout that
passes (`Timeout`, `Silence`), a deadline, a token that nears its expiry.

Of the console the pages for compliance, reports, settings and sign-in are left out:
one request, one answer, and the sessions they start are in `ConsoleSession`. So are the charts and tabs of
a device, the fields of forms, the creation of a group, and what two open forms do to
each other. The order in which a sweep takes organizations, and the organizations
behind one whose statement fails, are left out: the sweep of one is modelled.

Schema, seed, installers and shared types are data. The keys and cascades of the schema are part of the
models that need them, and the validation of policy settings is in `Compliance`.
