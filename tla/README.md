# Verification of linux-management

This directory holds TLA+ models of the parts of the system in which several actors meet: the
jobs that patch hosts, the packages they select, the maintenance windows that start them, the
agents that carry them out, the hub that keeps track of which agents are connected, the reports
agents send, the compliance scans they are ordered to make, and the terminals they open for
users. The models are checked with TLC on small instances, and the most important properties are
proved with TLAPS for every value of the constants.

- [The system](#the-system)
- [Modules](#modules)
- [PatchJobs](#patchjobs) - the life of a patch job
- [PatchPackages](#patchpackages) - what an assignment of a job holds
- [PatchWindows](#patchwindows) - the scheduler of maintenance windows
- [AgentConnection](#agentconnection) - connections of agents and `host_down` alerts
- [HostReports](#hostreports) - the periodic reports of a host
- [ComplianceScans](#compliancescans) - compliance scans, from their order to their results
- [TerminalSessions](#terminalsessions) - terminals in the browser on a shell of a host
- [Runs](#runs), [Disagreements](#disagreements-between-code-and-comments), [Proofs](#proofs)
- [What is not modelled](#what-is-not-modelled) and the [Plan](#plan)

Paths below are relative to `backend/src/` (server) and `agent-source-code/` (agent).

## The system

A Node.js server with a PostgreSQL database (through Prisma) manages hosts. An agent in Go
runs on each host, keeps a WebSocket open to the server, and calls the server's HTTP routes.
Administrators use a React frontend that calls routes of its own.

| component | state | operations | what makes it hard | what makes it correct |
|---|---|---|---|---|
| patch jobs: `services/patchManagementService.js`, `routes/patchManagementRoutes.js` | tables `patch_policies`, `patch_jobs`, `patch_job_hosts` | create, run on a host, cancel, expire; the agent's pending, status and report calls; policies enabled, disabled, deleted | handlers of several awaited queries, interleaved with each other; late, repeated and lost calls; restarts | no work for a job that ended; a verdict that is true; every job ends; one assignment per host |
| maintenance windows: `server.js` (tick), `services/patchManagementService.js` (`computeNextRun`, `refreshWindowSchedules`) | table `patch_windows` | tick every 60 s; create, edit, switch, delete a window | edits between the tick's queries; time that passes during a tick; crash between creating a job and moving the window on | each occurrence once; one-time windows once; no window stuck in the past |
| package selection: `filterPackagesForPolicy`, `computeSnapshotDiff`, the rows of a report | tables `host_packages`, `patch_policy_filters`, `patch_job_packages`; snapshots and counters of `patch_job_hosts` | filter an inventory, write rows, update them from a report, count, compare snapshots | an inventory that changes between choice and execution; an execution cut short or repeated; rows updated one by one | only what the policy permits is updated; "completed" means all of it; counters agree with rows |
| patch collector: `internal/integrations/patchmanagement`, `internal/client` | nothing on disk: one job in memory | fetch, status calls, execute, report, reboot | HTTP retries; crash or reboot in the middle; two collectors at once | executes what it was handed, reports what happened |
| WebSocket hub: `services/agentWs.js` | maps of sockets and timers | connect, close, error; grace timers; push messages | timers and queries that race reconnections | a `host_down` alert for hosts that stay away, cleared when they return |
| agent loop: `commands/serve.go`, `report.go` | channels, timers, cancel functions, sockets | select loop, reports, scans, sessions, updates | goroutines beside the loop; calls repeated, late and lost; cancel functions that are shared | every message handled; a change of the host reaches the server; bursts end |
| report ingestion: `POST /hosts/ping` and `/hosts/update` in `routes/hostRoutes.js` | hash columns of `hosts`; `host_packages`, `host_repositories` and others | compare hashes and store them; replace what is stored of a host | two reporters; an upload that never comes after the ping that announced it | hashes agree with what is stored; what differs is uploaded |
| alerts: `services/alertService.js`, `hostReportAlertEvaluator.js`, `automation/hostStatusMonitor.js` | tables `alerts`, `alert_history` | create, resolve, evaluate, clean up | two sources for one alert | at most one active alert per host and type |
| sessions: `utils/session_manager.js`, `routes/authRoutes.js` ... | tables `user_sessions`, ... | log in, refresh, revoke | refresh racing revocation | a revoked session is not used again |
| SSH terminal: `services/sshTerminalWs.js`, `commands/shell.go`, the proxy of `serve.go` | sessions and timers in the server's memory, shells and SSH connections in the agent's | connect, answer, output, close | two sockets and two programs, each of which may end at any time; a session that is still being opened | no browser waits for ever; a session that is over stays over; no shell survives its session |
| compliance: `routes/complianceRoutes.js`, `automation/index.js`, `automation/complianceScanCleanup.js`, `serve.go`, `internal/integrations/compliance` | table `compliance_scans`, a queue of jobs; one cancel function in the agent | order, cancel, scan, upload, ingest, clean up | rows written after the order was sent; repeated uploads; stalled jobs; scans that overlap | no row runs for ever, results stay, no request is forgotten |
| configuration management, Docker, auto-enrollment, versions, other queues, notifications, settings, AI, metrics, dashboards | one or two tables each | CRUD, ingestion of reports, clean-up | large transactions, little protocol | - |

How they interact. The scheduler's tick first expires stale jobs, then turns due windows into
jobs, then refreshes schedules. `createPatchJob` is called by the tick and by
`POST /jobs/trigger`; `createPatchJobsForHost` by `POST /hosts/:id/run-patches`. A created job
is only rows: the agent finds them when it calls `/agent/pending` in its periodic report, which
the server may hasten over the WebSocket. The agent then calls `/agent/status` for each phase
and `/agent/report` once at the end. A report counts the job's rows and may end the job. Whether
anything is to be patched the server knows from the agent's uploads (`/hosts/update`), which the
agent makes when the ping that opens a report finds other hashes. Orders to scan, to report or to
open a terminal are messages on the agent's WebSocket, written wherever the server has them and
lost with the socket; what comes of them is HTTP (reports, scans) or goes back the same way
(terminals).

The hazards, each at its line, with the properties that cover it, are listed under "hazards" in
`PROJECT.json`.

## Modules

| module | content |
|---|---|
| `PatchDispatch` | what dispatching promises, in five sets: jobs opened and closed, offers made, handed out and taken |
| `PatchJobs` | jobs, handlers, scheduler's expiry and agents; implements `PatchDispatch` |
| `MCPatchJobs` + `MCPatchJobs_*.cfg` | instances of `PatchJobs` for TLC |
| `PatchJobs_proofs` | type correctness; no work after the end; implements `PatchDispatch`; expiry leaves ended jobs alone; revivals run dry |
| `PatchTruth_proofs` | a job called completed was completed |
| `PatchPackages` | one assignment: filters, rows, execution by the agent, results, counters, snapshots |
| `MCPatchPackages` + `MCPatchPackages_*.cfg` | instances of `PatchPackages` for TLC |
| `PatchPackages_proofs` | type correctness; what the policy permits, and only that, is updated; rows, counters and status agree; what the snapshots' diff amounts to |
| `PatchWindows` | windows, tick, edits, the clock |
| `MCPatchWindows` + `MCPatchWindows_*.cfg` | instances of `PatchWindows` for TLC |
| `PatchWindows_proofs` | type correctness; repetitions need failures; one-time windows run once |
| `AgentConnection` | registry of sockets, grace timers, `host_down` alerts, host status monitor |
| `MCAgentConnection` + `MCAgentConnection_*.cfg` | instances of `AgentConnection` for TLC |
| `AgentConnection_proofs` | type correctness; a live agent stays registered; no third alert; nothing that waits to be dealt with is dropped |
| `HostReports` | the agent's main loop and its first report, pings and uploads, and what the server stores |
| `MCHostReports` + `MCHostReports_*.cfg` | instances of `HostReports` for TLC |
| `HostReports_proofs` | type correctness; no change is lost without a cause; nobody waits for nothing |
| `ComplianceScans` | queue, worker, rows, cancel and clean-up of scans; the agent's scan goroutines |
| `MCComplianceScans` + `MCComplianceScans_*.cfg` | the instance of `ComplianceScans` for TLC |
| `ComplianceScans_proofs` | type correctness; a cancellation meets a live scan; results stay |
| `TerminalContract` | what a terminal promises its user |
| `TerminalSessions` | browser, server and agent of a terminal; implements `TerminalContract` |
| `MCTerminalSessions` + `MCTerminalSessions_*.cfg` | instances of `TerminalSessions` for TLC |
| `TerminalSessions_proofs` | type correctness; implements `TerminalContract`; who waits is timed; an order to close is kept |

`map` in `PROJECT.json` names the lines of the code each definition stands for. Definitions
called *mutant* in a comment are versions with a plausible bug, used to make sure that each
property can be violated; nothing else refers to them.

## PatchJobs

State and code:

| variable | code |
|---|---|
| `policies`, `policyOf`, `jobStatus`, `rows` | `patch_policies.enabled`, `patch_jobs.policy_id` and `.status`, `patch_job_hosts.status` |
| `overdue` | jobs older than the `duration_minutes` of their window (`expireStalePatchJobs`) |
| `request` | handlers in flight: a slot holds the place in the handler and its locals |
| `expiring` | the stale jobs a running tick has yet to expire |
| `net` | the agents' calls the server has yet to receive, with the number of times the client will still send them |
| `collector` | the agents' goroutines that run `Collect` |
| `edits`, `crashes` | how often something was edited or restarted, for the bounds |
| `ended`, `settled` | history: jobs that ever ended; hosts that ever were skipped in a job or ran it without an error |

Actions and code:

| actions | code |
|---|---|
| `CreateBegin`, `CreateCommit` | `createPatchJob`: reads, then the transaction |
| `RunBegin`, `RunCommit` | `createPatchJobsForHost`: one check, then a transaction per policy |
| `CancelBegin`, `CancelCommit` | `POST /jobs/:id/cancel`: check, then the transaction |
| `StatusUpdateRow`, `StatusReadJob`, `StatusCommit` | `handleAgentStatus` |
| `ReportBegin`, `ReportUpdateRow`, `ReportCount`, `ReportSkip`, `ReportCommit` | `processAgentPatchReport` |
| `RequestFails`, `CallRefused`, `CallLost` | error paths; lost requests and answers (`Receive` puts a call back when its answer is lost and the client retries) |
| `TimePasses`, `ScanStale`, `ExpireJob`, `ExpireSkips` | `expireStalePatchJobs` |
| `TogglePolicy`, `DeletePolicy` | `PUT` and `DELETE /policies/:id`, with the schema's cascades |
| `Fetch`, `Start`, `OfferLost`, `SendDownloading`, `SendInstalling`, `Execute`, `SendRebooting`, `SendPatchReport` | `Collect` of the agent: `Fetch` is the server's query for `/agent/pending`, `Start` the agent that has its answer, `OfferLost` the answer that is lost |
| `ServerCrash`, `AgentCrash` | restarts: handlers, tick and collectors forget everything, the tables stay |

What `PatchDispatch` promises and what it does not. Between the server's query for the pending job and
the agent that starts on it the answer is on its way (`offered`), and the job may be cancelled, expire or
be deleted meanwhile. The agent asks nothing more before it executes, so "no agent starts on a job that
has ended" is not true of this code and is not claimed. The contract is that an offer is made once, with
the job, and only taken back; that no answer hands out a job that has ended (`HandOut` needs a standing
offer); and that an agent starts only on what an answer handed it (`Take` needs `handed`).

Granularity. Node.js runs a handler until it awaits, so each awaited query is a step, and
anything may happen between two of them. A `prisma.$transaction` is one step: the model's
transactions update rows of one job, and under READ COMMITTED the update of a row waits for its
lock and then sees the committed row. Steps that were merged, because nothing that happens
between them could change what follows: finding and updating the row in `handleAgentStatus`;
counting the rows and reading the policy in `processAgentPatchReport` (the policy's threshold is
a constant of the model); the reads of policy, hosts and busy hosts in `createPatchJob` (the
last of them is the one the properties depend on).

Data. A row's `downloading`, `installing` and `rebooting` are one status, `working`: no handler
tells them apart. The hosts a policy reaches, and which of them have something to install, are
a set chosen at creation. Job identifiers are numbers in the order of `created_at`. The counters
of `patch_jobs`, names, logs and output texts are left out. A job deleted with its policy is
`deleted`, not `none`, so that its identifier is not used again.

Bounds: number of hosts, jobs, policies; slots for requests of users and for calls of agents
(two of a kind suffice for a race of a handler with itself); `MaxInFlight` calls in the network;
`MaxSends` sends of a call; `MaxEdits` changes of policies; `MaxCrashes` restarts; `Timeouts`,
the jobs that may get overdue; `Outcomes`, what the package managers may produce.

## PatchPackages

`PatchJobs` says when an assignment is offered, taken and finished; `PatchPackages` says what is
in it. Assignments share no packages, so it has one host and one assignment.

| variable | code |
|---|---|
| `manager`, `installed`, `latest` | the host: what `detectPackageManager` finds, the installed versions, those the repositories offer |
| `listed` | `host_packages`, the inventory of the last report |
| `creation` | `createPatchJob`, or a policy's turn in `createPatchJobsForHost`, after the policy was read |
| `assignment`, `counts`, `post` | `status`, `packages_updated`, `packages_failed`, `post_snapshot` of `patch_job_hosts` |
| `selected`, `results` | the rows of `patch_job_packages`, with their `status` |
| `basis` | `pre_snapshot`, and the rows' `previous_version` and `target_version`: the inventory they were taken from |
| `collector` | the agent's `Collect` in each of its goroutines: the answer on its way or the packages in hand, the results so far, whether its context has ended |
| `calls`, `handler` | reports the server has yet to receive, with the sends left; handlers of `processAgentPatchReport` |
| `collections` | how often the assignment was fetched, for the bound |
| `agreed`, `asked` | history: the policy the assignment was made of; what the package manager was told to update |
| `achieved`, `clashed` | history: the packages an execution updated or found held; whether a report was handled beside or after one with other results |

`CreateBegin`, `CreateCommit`, `CreateFails` are the creation, with `filterPackagesForPolicy` as
`FilterPackages`; `ReportInventory` is the transaction of the periodic report; `Cancel` and
`Expire` are in short what `PatchJobs` has in full. `Fetch`, `OfferLost`, `Announce`, `UpdatePackage`,
`SkipPackage`, `SendReport` are the agent, `ContextEnds` its timeout. `ReportBegin`, `ReportRow`,
`ReportCount`, `ReportHost` are the queries of the report's handler up to the point where the
rest of it, in `PatchJobs`, goes on with the job.

Several goroutines of the agent (`Collectors`) may collect the assignment: the one of the first report
(`serve.go:212`) and the main loop take no lock, and each may fetch it as long as it is pending,
whatever the server still does with an earlier report. Their executions overlap, one may be cut short by
its context and the other not, and their reports differ. `processAgentPatchReport` then writes the
rows of two reports one by one into the same table and counts what it finds, so rows and counters may
mix them, and a report of less that comes later writes over a "completed" one. `clashed` records that a
report began to be handled beside one with other results, or after such a one had been settled;
`CompletedIsWhole` and `CountsAgree` are about all other histories - retries, copies of a report,
interrupted handlers, an execution before which another was lost. `PolicyCarriedOut` makes no exception:
what was called completed has happened on the host, since a report that says so is of one execution that
dealt with every package.

What is assumed. Status calls are handled at once or lost, and the one
that announces a reboot is left out; what late ones do is in `PatchJobs`. Edits of policies are
no actions, because the filters are read once per job: the model chooses any policy there.
A filter is the set of names it matches, and whether its pattern is a regular expression: one
that is not matches nothing as a `regex` and throws as a `glob`, when `some()` gets to it.
Versions are numbers, and 0 is the version that could not be found. `installed_version`, which is only
shown, is left out, and the periodic report is an action until the assignment exists, because nothing reads
the inventory afterwards. That the agent is ordered
to upgrade everything when it has no packages to go by is in the model (`Commanded`), the results
it would then report are not: `OnlySelected` shows that it never happens.

Bounds: `Packages`, `MaxVersion`, `MaxSends`, `MaxCollections`, and the handlers in `Slots`. In the run
`captureSnapshot` finds nothing (`Captures`), since only `DiffIsBlind` depends on the snapshot; that was
checked once with `Captures` = `BOOLEAN`, one collector, one handler and reports sent once. An
assignment that has ended, with its reports handled and its versions at `MaxVersion`, has nothing left to
do, so the run does not check for deadlock.

## PatchWindows

| variable | code |
|---|---|
| `windows`, `born` | `patch_windows`; identifiers in use or used |
| `edit` | what `POST` and `PUT /windows` have computed and are about to write |
| `tick`, `seen`, `now`, `todo` | the tick's place, the rows it read, the time it took, and the windows it has yet to deal with |
| `clock` | minutes |
| `started`, `repeats` | history: the occurrences a job was created for since the window's last edit, and how many jobs more than occurrences |
| `edits`, `failures` | how often something was edited or failed, for the bounds |

`CreateWindow`, `UpdateWindow`, `SwitchWindow`, `EditCommit`, `DeleteWindow` are the routes;
`TickBegin`, `TickFilter`, `StartJob` or `NoJob`, `Advance` or `AdvanceFails`, `AllStarted`,
`RefreshBegin`, `RefreshWindow`, `TickEnd` are the tick in the order of the code; `TickFails`
and `ServerCrash` end it anywhere. `NoJob` covers every reason for which `createPatchJob`
throws. `running` in the code allows one tick at a time, which is why there is one `tick`.

A nullable column is a set with at most one element. A cron expression is the set of minutes it
matches (`Matches`), and `NextRun` is `computeNextRun` over that set: the first match after the
present minute, within `Horizon`. Reading a window's schedule and writing the result are one
step in `Advance` and `RefreshWindow`, because the computation awaits nothing. `refreshWindowSchedules`
takes its time just before it sends its query; the model takes it with the query.
The frontend sends all of a window's fields (`UpdateWindow`) or, for its switch, the field
`enabled` alone (`SwitchWindow`).

Bounds: `MaxTime`, `MaxEdits`, `MaxFailures`, and `Horizon`, which stands for the code's 35 days.

## AgentConnection

| variable | code |
|---|---|
| `phase` | `readyState` of a socket (`agentWs.js`, the `ws` library) |
| `current` | `apiIdToSocket` and `connectionMetadata`, which are always set and deleted together |
| `grace`, `shown` | `pendingUiGraceTimers`; what the status stream of `wsRoutes.js` last sent to a browser |
| `closer`, `resolver`, `alerter` | the asynchronous tasks of a lost socket, of a new one, and of a timer that fired, and where they are; for the last, the alert it may yet assign |
| `alerts`, `raised` | active `host_down` alerts of a host, numbered as they are raised |
| `stale`, `monitor`, `todo` | hosts whose `last_update` is too old; where the monitor's job is, and the hosts it has yet to deal with |
| `newest`, `due` | history: the socket that connected last, and the alert it is to clear |

`Connect` is the callback of `handleUpgrade` up to its first await; `BeginClosing`, `SocketError`
and `SocketClose` are what happens to a socket, in the order the `ws` library allows (a closing
socket is no longer `OPEN` before any handler of ours hears of it, and every loss ends in a close
event); `GraceExpires` and `TimerFires` are the two timers; `CloserSchedules`, `AlerterChecks`,
`AlerterCreates`, `AlerterAssigns`, `ResolverReads`, `ResolverResolves` are the queries of the tasks that read or
write what the properties are about. `MonitorBegin`, `MonitorChecks`, `MonitorCreates`, `MonitorAssigns`,
`MonitorEnds` are the job of `hostStatusMonitor.js`, of which BullMQ runs one at a time. The
monitor's branch for hosts that are back requires the status `offline`; no code gives a host that
status, so the branch is no action. `TaskFails`, `MonitorFails`, `ServerRestart` are failures. A
restart closes every socket and the browser's stream, which starts again with "not connected".

Where the settings say so (any creation may be followed by it), a new alert is assigned to a user by a
query of its own, in which `assignAlertToUser` also sets `is_active` again. An alert that a reconnection
resolved between the two is active again afterwards, while its host is connected.

What is promised of alerts is therefore limited. The timer's task and the monitor may each leave a host
an alert: both look before either creates, or one creates while the other's alert is resolved and about to
be activated again. `TwoAlertsAtMost` says that there it ends, with prompt queries. A returning host
resolves one alert that it finds; if there are two, or if a task is about to create or to assign one, an
alert may stay (`ConnectedIsClear` does not hold). `due` holds the alert that a connection is to clear: the
host's only one, while nobody is raising or assigning another. `ReturnClears` says that it gets
resolved, and stays so, although timers of other connections and the monitor go on meanwhile.

`Prompt` is an assumption about the environment: queries are answered long before the ten seconds of a
timer have passed, so that a timer fires only when no task of its host is left. Without it, timers and
tasks interleave freely. The monitor runs in every instance. Alerts are taken to be switched on, globally
and for each host.

Bounds: the connections `Sockets`, and `MaxFailures`. Alerts need none: each is created when
the host has none or by one of finitely many tasks, and only finitely many are resolved.

## HostReports

One host's reports. What is reported - packages, repositories, interfaces, hostname - is always
collected, hashed and sent together: it is one value, which is its own hash.

| variable | code |
|---|---|
| `host` | what a collection on the host would find |
| `doing` | `sendReport`, in the goroutine of the report at startup (`Boot`) and in the main loop (`Loop`): its stage, what it collected, the HTTP client's repetitions left |
| `offset`, `burst`, `signal`, `inbox` | `offsetPassed`, `burstRemaining`, `burstChan`, `messages` of `serve.go` |
| `calls` | HTTP calls under way or in the server's handlers; one whose owner is no reporter has been given up on by its client, and the server goes on with it |
| `hash`, `content` | the columns `packages_hash` ... of `hosts`; the rows an update replaces |
| `overlap` | history: whether a report ever began before another had ended |
| `changes`, `sent`, `faults` | for the bounds |

`InitialReport`, `OffsetPasses`, `PeriodicReport`, `BurstReport`, `TakeReportNow`, `TakeSettings`
are the cases of the select loop; `Begin` collects and pings, `Upload`, `Integrations`, `GiveUp`,
`Unanswered`, `End`, `Integrate` are the rest of `sendReport`. `PingReads` and `PingWrites` are the
two queries of `/ping`, `Update` is the transaction of `/update`. `LoseCall`, `TimeOut`, `CallFails`
and `AgentRestart` are faults: a request or its answer is lost and the client repeats it, or gives
up while the server goes on; a query fails; the agent restarts.

When a timer fires is left open (any tick may come between two reports). The client repeats a call
without an answer `Retries` times, except for a ping that is not answered in time, whose context
has ended. The integrations may ask for a burst after every report - they do so whenever a patch job was
executed or a directive repaired - and may change the host or leave it as it is. Requests have no
bound. So `BurstEnds` says that a burst ends unless requests are made for ever: an agent each of whose
reports repairs something does poll every 30 s for good. Bounds: `MaxChanges`, `MaxMessages`, `MaxFaults`, `Retries`, `Cycles`.

What the model shows about two reporters without any fault: the loop has uploaded a change and
pings again, which reads the new hash; the late upload of the report at startup puts old contents
and their hash back; then the ping writes the new hash. The server now has the hash of what it does
not have. This takes a report that begins before another has ended; `LossNeedsCause` says so.

## ComplianceScans

Scans of one host, named by the order they belong to.

| variable | code |
|---|---|
| `job`, `worker` | the job `compliance-scan-<host>` of the queue and the worker's place in it (`automation/index.js`) |
| `bulk`, `canceller` | a bulk trigger and a cancel route in flight (`complianceRoutes.js`) |
| `rows`, `stale` | `compliance_scans`, by order, scanner and upload; the rows a clean-up has found |
| `connected`, `wire` | the agent's socket, with the messages on it and in the agent's channel |
| `scan`, `cancelFn` | the agent's scan goroutines; `complianceScanCancel`, by the scan it cancels |
| `results`, `tries`, `posts` | the results being uploaded, uploads made so far, `POST /scans` in the server's handlers |

`Trigger`, `Due`, `WorkerTake`, `WorkerDelays`, `WorkerLoad`, `WorkerSkips`, `WorkerSend`,
`WorkerRecord`, `WorkerDone` are the queue and its worker: offline, it puts the job off; otherwise it
reads the switches, sends the order, and writes a row for each scanner. `BulkSend`, `BulkRecord` do
the same without the queue. `CancelPush`, `CancelMark` are the cancel route. `TakeOrder`, `Begin`,
`TakeCancel`, `NothingToSend`, `Collect`, `Resend`, `GiveUp`, `ScheduledScan` are the agent, `Ingest`
and `Answer` the server's handling of results, `CleanupFind` and `CleanupMark` the daily job.
`Connect`, `Disconnect`, `AgentRestart`, `ServerRestart` are losses of everything in memory.

What is abstracted. The switches are no variable: each read of them may find anything. Results are
sets of scanners, and a row's `completed` and `failed` are one, `reported`; rows the cancel route or
the clean-up made `failed` have names of their own. `overdue` is running for more than three hours.
Deleting the placeholders and creating the result is one step, since nothing else inserts between
them that the properties see. A failure to write a placeholder, which is logged only, is left out.

Bounds: `MaxOrders`, `MaxCancels`, `MaxFaults`.

## TerminalSessions

One browser socket, one host; other sockets share nothing with them.

| variable | code |
|---|---|
| `ui`, `current`, `awaiting` | the browser's socket, `proxySessionId`, connect handlers that await the credentials (`sshTerminalWs.js`) |
| `table`, `timers` | `sshProxySessions`, `pendingConnectTimers` |
| `phase`, `output` | what the browser was told of a session |
| `known`, `link` | the connection the server has registered; the one the agent has (`globalWsConn`) |
| `down`, `up` | messages to the agent, with its channel, and to the server |
| `stage`, `via` | the agent's sessions, and the connection each writes to |
| `born`, `mode`, `links`, `breaks` | identifiers used, shell or proxied SSH, and bounds |

`ConnectAsked`, `ConnectRefused`, `ConnectGoes`, `Timeout`, `Disconnect`, `BrowserCloses`,
`BrowserFails`, `HeardUnknown`, `HeardTooLate`, `HeardConnected`, `HeardData`, `HeardError`,
`HeardClosed` are the server; `TakeOpen`, `TakeClose`, `Opened`, `OpenFails`, `Prints`, `Exits`,
`PumpEnds` the agent; `LinkMade`, `ServerLoses`, `AgentLoses`, `AgentRestart`, `ServerRestart` the
connections. `AgentRestart` also stands for the crash of an agent two of whose goroutines write to
the socket at once, which the WebSocket library forbids and nothing in `shell.go:62` and
`serve.go:1481` prevents.

What the model shows and no property forbids: a disconnect does not stop the timer of its session,
so the user may be told of a time-out afterwards; neither the timer nor an error of the browser's
socket tells the agent, whose session goes on; an agent's session whose browser closed while the
credentials were awaited belongs to nobody; an order to close is ignored while the shell is being
spawned; and a browser whose session is live is not told that the agent's connection was lost.

Bounds: `MaxSessions`, `MaxBreaks`; one message of output.

## Runs

Passing runs (every action of the specifications fires in one of them):

| run | question | instance, and why it is enough |
|---|---|---|
| `verdict` | Is a job called completed only if its hosts were skipped or succeeded? (`CompletedIsTrue`, `NoOfferAfterEnd`, `TypeOK`) | two hosts, two agents, two calls in their handlers, one administrator who creates and cancels, a policy that stops at 50 %: two reports in flight are what the verdict can be wrong about, and one of two hosts is the threshold. Calls are sent once and nothing restarts here: for those `CompletedIsTrue` rests on its theorem |
| `ends` | Is work offered after the end, does expiry spare jobs that ended meanwhile, does every job end for good, and do handlers, tick and agent implement `PatchDispatch`? (`NoOfferAfterEnd`, `ExpiryLeavesFinished`, `EveryJobEnds`, `ImplementsDispatch`) | one job, one host; calls sent up to twice, two in flight, an edit of the policy, a timeout, a restart: a call can arrive after the job was cancelled, expired, or reported, and so can the answer that hands the job out; under `FairSpec`. That jobs of several hosts end is not exercised |
| `packages` | Is what the policy permits updated, and nothing else, and do rows, counters and status agree? (`TypeOK`, `OnlySelected`, `CompletedIsWhole`, `CountsAgree`, `PolicyCarriedOut`) | two packages, one of them a security update; four policies, with filters that overlap, are no regular expressions, or throw; two versions; every kind of package manager; two goroutines that collect, two executions, at once or in turn, reports sent up to twice, two handlers: one may be cut short, interrupted or late, and two reports may differ; 3.5 million states, reduced by symmetry |
| `scheduler` | Are occurrences repeated only after failures, and one-time windows run once? Does a due window move on, and a missing next run appear? (`TypeOK`, `RepeatsNeedFailures`, `OnceIsOnce`, `DueMovesOn`, `MissingIsScheduled`) | two windows, since they share the tick's list; four minutes; a creation and an edit, which may change the type while a tick is under way; a failure; a schedule at first out of `Horizon`; under `FairSpec` |
| `hub` | Does a live agent stay registered and shown, do timers and monitor leave two alerts at most, and are losses and returns noticed? (`TypeOK`, `LiveAgentIsReachable`, `TwoAlertsAtMost`, `UiLearnsOffline`, `LossIsNoticed`, `ReturnClears`) | one host (its tasks share nothing with those of others but the monitor's list), two sockets: one whose handlers, timer and task are late beside one that is live, or two losses whose tasks, with the monitor, are three that may create an alert; a failure or restart; `Prompt`; under `FairSpec`; 253,880 states. The invariants were checked once with three sockets (15.9 million states) |
| `fallback` | Does the monitor make up for lost timers? (`StaleIsNoticed`) | two hosts, one of which connects, once, and one never; a failure or restart; without `Prompt`; under `FairSpec`; 73,904 states |
| `reports` | Is a change of the host lost to the server only for a cause, is a difference it can see stored later, and do bursts end unless they are requested for ever? (`TypeOK`, `LossNeedsCause`, `DifferenceIsStored`, `BurstEnds`) | two values and one change, so that contents can be old and new; both reporters; one message, one fault, one repetition, bursts of two: a call given up on can be overtaken by a whole report; any number of burst requests, so that a burst is extended by its own reports; under `FairSpec`; 586,312 states. `DifferenceIsStored` starts from a difference that the hashes still show; `gate` is about the others. Two changes, and two faults, were checked once for the invariants |
| `scans` | Is a cancellation spent only on live scans, do results stay, does every row and every request end? (`TypeOK`, `CancelIsLive`, `ResultsStay`, `EveryRowEnds`, `EveryRequestEnds`) | one asked scan, one scanner, one cancellation, one fault, which may give the job out a second time: the two scans share the cancel function, an upload meets its own repetition, and the clean-up a row that ends meanwhile; under `FairSpec`. With one order, a request refused as the duplicate of a waiting one does not occur |
| `terminal` | Is the browser told what `TerminalContract` promises, does it get an answer, and does a shell go that was ordered to? (`TypeOK`, `ImplementsContract`, `EveryConnectAnswered`, `ClosedShellGoes`) | two sessions of one browser, of either mode, one break or restart, hence two connections; under `FairSpec` |

Fairness. `PatchJobs!FairSpec`: a handler that has begun goes on, because the event loop runs
every continuation (weak fairness of each handler); the interval of 60 s brings the next tick
and a tick is a handler too (weak fairness of `TickStep`); time passes (`TimePasses`). Nothing is
assumed of agents, users, or the network, so `EveryJobEnds` says that a job ends although its
agent never comes back. `PatchWindows!FairSpec`: weak fairness of the tick's steps, for the same
reasons. `AgentConnection!FairSpec`: handlers, tasks and timers go on, and a closing socket gets
its close event because the `ws` library cuts a handshake short (weak fairness of `HandlerStep`;
each of its steps uses something up, so none of them can keep the others waiting for ever), and
the queue repeats the monitor's job every five minutes (weak fairness of `MonitorStep`). That an
open socket ever closes, or an agent ever comes back, is not assumed. A handler may end in an error, which is a step too. `HostReports!FairSpec`: timers fire whenever the
loop is back in its select, which chooses among ready cases at random, so each case that is ready
again and again is taken (strong fairness of `OffsetPasses`, `PeriodicReport`, `BurstReport`); the
server handles calls, and integrations return. `ComplianceScans!FairSpec`: the queue hands out jobs
and ends their delays, time passes, the clean-up runs daily. `TerminalSessions!FairSpec`: timers fire,
the main loop takes its messages, and the goroutine that reads a shell notices its end. The last two rest on
shells that die when their terminal hangs up: `handleShellClose` runs in the main loop, and closing the
pty waits for the shell's process (`shell_unix.go:24-30`), so a process that ignores the hang-up would
keep the loop waiting. Input to a shell, which could block the loop too, is not modelled. No fairness is
assumed of users, connections, scanners, of shells ending by themselves, or of the agent's answers.

Symmetry is used in runs without liveness properties only: for hosts swapped together with their
collectors and for slots in `MCPatchJobs`, for slots in `MCPatchPackages`.

## Disagreements between code and comments

Three runs show that the code does not do what a comment beside it says. Each checks that one
statement and TLC finds a behaviour that violates it.

| run | statement | what happens |
|---|---|---|
| `onejob` | "A host can only execute one patch assignment at a time" (`patchManagementService.js:169`) | two creations overlap: both see the host free |
| `orphan` | "called when the agent's WebSocket to the server drops so no orphaned PTYs survive" (`shell.go:67`) | a shell that is being spawned when the connection drops is put into the map afterwards |
| `gate` | "future pings will correctly detect which sections are stale" (`report.go:305`) | the ping stores the hashes before the upload, which then fails: later pings find nothing stale |

More of the kind, which TLC finds in the same models but for which no run is kept (the property is
named where the module states it):

- "Don't overwrite "cancelled" status if the job was already cancelled by user"
  (`patchManagementService.js:904`): the report tests the status it read before the cancellation
  (`ReportKeepsCancelled`).
- "we never accidentally leap-frog an imminent occurrence" (`patchManagementService.js:631`): a window
  becomes due between the tick's time and the refresh's (`NoLeapFrog`).
- "Resolve any existing host_down alerts when host reconnects" (`agentWs.js:378`): the agent
  reconnects between the timer's check and the creation of the alert, which then stays; or it reconnects
  between the creation and the assignment, which makes the resolved alert active again
  (`ConnectedIsClear`).
- "Compute a diff between pre and post snapshots" (`patchManagementService.js:465`): the agent's
  entries have other fields than those that are read: everything is called removed, nothing updated
  (`DiffIsComparison`). `DiffComparesNothing` proves that it is never otherwise (`DiffIsBlind`).
- "Cancel function for the currently running compliance scan (nil if none)" (`serve.go:1315`): a
  second scan puts its function in the place of the first one's, and the end of either sets it to
  nil: a scan runs that nothing can cancel (`RunningIsCancellable`).
- "Already connected" (`sshTerminalWs.js:363`): two connect messages whose handlers await the
  credentials both pass the test, and the browser has two sessions (`OneSessionPerBrowser`).
- "Only pending or running jobs can be cancelled" (`patchManagementRoutes.js:1040`): a job that
  finishes between `CancelBegin` and `CancelCommit` is cancelled after the fact.
- "Always advance next_run_at so the window moves to its next scheduled occurrence"
  (`server.js:1090`): `Advance` uses the schedule the tick read before it created the job, over
  an edit that came in between.
- "If the host reconnects within that window the timer is cancelled" (`agentWs.js:106`): the
  handler of a lost socket is still looking up the host when the agent reconnects, and
  `CloserSchedules` sets the timer afterwards. It fires without effect, unless the host is lost
  again meanwhile: then the alert comes without its ten seconds.
- "De-duplicate: check existing active host_down alerts" (`agentWs.js:149`): a timer's task and the
  monitor both check before either creates, and the host has two (`TwoAlertsAtMost` is what remains).
- "Host came back online - resolve any existing alerts" (`hostStatusMonitor.js:144`): no host
  ever has the status `offline` that the branch asks for, so the alert of a host that has no
  WebSocket stays until a user resolves it.

Met while modelling, and in the models or beside them:

- Readings that are not hashed (`needs_reboot`, disks, load) reach the server only with an upload:
  after a reboot, or when a disk fills up, they and the alerts evaluated from them are old until
  packages, repositories or interfaces change. A ping marks a host active of which nothing was stored.
- The request for a burst that the report at startup makes is seen by the main loop only after its own
  next report. The back-off of the agent's reconnections doubles to 30 s and is never reset.
- A long report fills the agent's channel of ten messages; the goroutine that reads the socket then
  waits, and misses the deadline that keeps the connection.

- A glob is made a regular expression without escaping: with the pattern `libstdc++*` the
  constructor throws, and so does every creation of a job of that policy (`FilterThrows`). An
  exclude filter that is a malformed `regex` excludes nothing.
- The type `selected`, shown as "Selected Packages (use filters)" (`PolicyDetail.jsx:289`), is
  treated as `all`: without include filters it selects everything.
- `updateSinglePackage` compares with the version the server knew when the job was made, so a
  package somebody updated meanwhile is reported as `updated` and not as `held`, which the
  comment at `patchmanagement.go:353` ("might be held or already at target") has in mind.
- `captureSnapshot` cuts the output of `apk info -v` at the last dash, which is the one before
  the release: the package `musl-1.2.3-r4` gets the name `musl-1.2.3`.
- The reboot policy "Always Reboot" reboots only if a reboot is required
  (`patchmanagement.go:131`); `max_concurrent_hosts`, the blackout times and `auto_approve` are
  stored and never looked at. The agent's pre-snapshot is sent and not stored.

## Proofs

TLAPS proves for every finite or infinite choice of constants that satisfies the assumptions
named `...Assumption` (TLC evaluates them in every run):

| theorem | says |
|---|---|
| `PatchJobs_proofs!TypeCorrect` | `Spec => []TypeOK` |
| `PatchJobs_proofs!NoWorkAfterEnd` | `Spec => []NoOfferAfterEnd` |
| `PatchJobs_proofs!DispatchKept` | `Spec => ImplementsDispatch` |
| `PatchJobs_proofs!ExpiryKeepsEnds` | `Spec => ExpiryLeavesFinished` |
| `PatchJobs_proofs!RevivalsAreUsedUp` | `Spec => RevivalsRunDry` |
| `PatchTruth_proofs!CompletedMeansDone` | `Spec => []CompletedIsTrue` |
| `PatchWindows_proofs!TypeCorrect` | `Spec => []TypeOK` |
| `PatchWindows_proofs!RepeatsBounded` | `Spec => []RepeatsNeedFailures` |
| `PatchWindows_proofs!OnceRunsOnce` | `Spec => []OnceIsOnce` |
| `PatchPackages_proofs!TypeCorrect` | `Spec => []TypeOK` |
| `PatchPackages_proofs!AskedIsPermitted` | `Spec => []OnlySelected` |
| `PatchPackages_proofs!CompletedMeansWhole` | `Spec => []CompletedIsWhole` |
| `PatchPackages_proofs!CountersMatchRows` | `Spec => []CountsAgree` |
| `PatchPackages_proofs!PolicyIsCarriedOut` | `Spec => []PolicyCarriedOut` |
| `PatchPackages_proofs!DiffComparesNothing` | `Spec => []DiffIsBlind`, if no package is called "undefined" |
| `AgentConnection_proofs!TypeCorrect` | `Spec => []TypeOK` |
| `AgentConnection_proofs!LiveAgentStaysReachable` | `Spec => []LiveAgentIsReachable` |
| `AgentConnection_proofs!NoThirdAlert` | `Spec => []TwoAlertsAtMost`, given `Prompt` |
| `AgentConnection_proofs!BadgeIsNeverForgotten` | `Spec => []BadgeWillTurn` |
| `AgentConnection_proofs!NoLossIsDropped` | `Spec => []LossIsHandled`, given `Prompt` |
| `AgentConnection_proofs!DueAlertIsInHand` | `Spec => []DueHasResolver` |
| `HostReports_proofs!TypeCorrect` | `Spec => []TypeOK` |
| `HostReports_proofs!LossHasCause` | `Spec => []LossNeedsCause` |
| `HostReports_proofs!NobodyWaitsForNothing` | `Spec => []WaitsForACall` |
| `ComplianceScans_proofs!TypeCorrect` | `Spec => []TypeOK` |
| `ComplianceScans_proofs!CancelReachesALiveScan` | `Spec => []CancelIsLive` |
| `ComplianceScans_proofs!ResultsAreKept` | `Spec => ResultsStay` |
| `TerminalSessions_proofs!TypeCorrect` | `Spec => []TypeOK` |
| `TerminalSessions_proofs!TerminalsKeepContract` | `Spec => ImplementsContract` |
| `TerminalSessions_proofs!AnswerIsTimed` | `Spec => []ConnectingIsTimed` |
| `TerminalSessions_proofs!OrderedCloseIsKept` | `Spec => CloseIsKept` |

*No work after the end.* `NoOfferAfterEnd` alone is not inductive: a report that has decided to
end a job, and will do so whatever happens, must not leave an offer behind. `DispatchInv` adds
that such a report has seen, or made sure, that no row is pending (`ClosingHasNoOffer`), that a
handler's job exists (`HandlersKnowTheirJob`), that jobs that do not exist have no rows
(`UnbornIsBlank`) and that every finished job is in the history (`EndsRecorded`). No step makes a
row pending except creation, which is why the property survives handlers that revive a job.

*The dispatch contract is kept.* Each kind of step maps to a step of `PatchDispatch`: inserting a job
opens it (`InsertOpens` - its rows were blank, by `UnbornIsBlank`); writing rows without ending the
job takes offers back (`RowsWithdraw`); a write that ends jobs closes them (`EndsClose`, which needs
`NoOfferAfterEnd` before and after: no ended job keeps an offer, and no other job loses one);
the query for a pending job hands it out (`FetchHandsOut` - what is pending has not ended); starting takes
what the answer holds, whatever became of the job (`StartTakes`); lost answers, reporting and crashing
leave work (`AgentsLeave`). Everything else is a stutter. `ExpiryLeavesFinished` needs no invariant: a job
leaves `expiring` by being claimed while still active, or unchanged.

*A job called completed was completed.* `TruthInv` follows a success on its way: from the agent
(`AgentsTrue`) through a call (`CallsTrue`, also when it is sent again) and a handler
(`ReportsTrue`) into the row (`RowsTrue`) and the decided verdict (`VerdictsTrue`). A row that no
longer says so does not matter: `settled` is history, and a row is never without a status again.

*Only what the policy permits.* `SelectionInv` says that an assignment's packages are chosen once
(`CreatedOnce`, `NothingBefore`), are permitted and not none (`ChosenWell`), and are what the
agent has in hand (`HandedOut`); so it never comes to `Commanded`, which asks for everything.
The lemma `FilterIsSound` relates the filter's steps to what the policy says.

*Completed means all of it.* A goroutine has a good result only of what it updated or found held
(`ResultsHappened`), and skips only when its context has ended (`SkippedOnlyLate`), after which no report
leaves; so a report that says completed, on the wire or in a handler, is of a whole execution
(`ReportIsWhole`), and what the server calls completed happened (`CompletedHappened`). That makes `CarriedOutInv` inductive however
many collectors there are, and with what was selected being all that the policy permits
(`SelectionIsExact`, from the lemma `FilterIsComplete`) it gives `PolicyCarriedOut`.

*Rows and counters.* The rows are written one by one by handlers that overlap, fail and come late, and
the counters by a later query. Until a report meets one with other results (`clashed`), the reports in
handlers agree (`OneReport`); so a handler's rows stay as it wrote them (`RowsWritten`), what it counted
stays true (`CountIsCurrent`), and a copy that comes after the assignment was settled changes nothing
(`CopiesRepeat`). Reports on the wire may differ as they like: what counts is what a handler finds when it
begins.

*Repetitions need failures.* An occurrence can run again while `next_run_at` still names it and
no tick is about to move it on (`Repeatable`); `RepeatableNeedsFailure` says that this takes a
failure no repetition has used up. It rests on `NextRun` being later than the present, hence
later than everything that ran (`StartedIsPast`).

*One-time windows run once.* What could reschedule a one-time window is a tick that read it when
it was still recurring. `StaleIsUnrun` says that such a window has not run since its edit, and
`OnceIsSpent` that the only occurrence it can still have is the one that ran.

*A live agent stays registered.* `LiveAgentIsReachable` is inductive given the types: a handler
takes a socket out of the registry only if it is the registered one, which the newest socket is
while it is open; and a grace timer finds the host connected.

*No third alert.* With `Prompt`, a timer starts its task only when no other task of the host is
left (`OneAlerter`), so at most that task and the monitor are about to create an alert at a time. `RoomFor`
counts what is promised: the alerts that are active and those raised that an assignment may activate again
(`Promised`). Two at most; at most one while the task or the monitor is about to create; none while
both are.

*Nothing that waits is dropped.* A liveness property fails here by a badge, a loss or an alert that
nothing is left to deal with; that this cannot be is safety, and proved. A registered socket is open or
closing (`RegisteredAlive`), so a host shown connected that is not has its grace timer or a close
event to come (`BadgeWillTurn`). A loss is on record - as a socket about to close, a look-up or a
timer - until its timer fires (`WatchedStays`), and by then, with `Prompt`, the tasks of earlier
connections are done (`NoStaleResolver`), so none of them takes away the alert the loss leads to
(`LossIsHandled`). The alert a connection is to clear was the host's only one when it connected, and nobody
was raising or assigning another; since whoever looks finds it, that stays so until it is resolved, and
nobody holds its number to activate it afterwards (`DueStandsAlone`). So it is the one the task of that
connection finds (`DueHasResolver`). This needs neither `Prompt` nor a monitor at rest. What is left to TLC is that the fair steps then
come.

The same is proved of jobs, reports and terminals. An ended job runs again only by a handler that read it
as pending before; each such handler does it once and none is added (`RevivalsRunDry`), so expiry, which
takes what is active, has the last word. A reporter that waits has a call to wait for
(`WaitsForACall`): each failure puts another call in its place or ends the report, and calls given up on
belong to nobody. A terminal shown as connecting has its timer (`ConnectingIsTimed`): whatever stops
the timer tells the user, too. An order to close an open shell stays in the agent's channel until it is
taken, and what empties the channel closes the shell; identifiers are used once, so no order to open comes
after (`CloseIsKept`, which rests on `OrderInv`). These four have no run of their own: TLC checked them on
the instances of `ends`, `reports` and `terminal` before they were proved.

*No change lost without a cause.* `CallInv` ties calls to reporters: a reporter waits for one call at
most (`OneCall`), of the kind and with the value it has in hand (`CallsMatch`). `OrderInv` says what
holds while nothing failed and no reports overlapped: one reporter is under way (`OneReport`) and
waits for every call there is (`NoneAdrift`), what a ping has read is still the hash (`SeenIsHash`),
and the hash is that of the contents, or of what is being uploaded (`HashIsOfContent`,
`HashIsOfUpload`). So a call is alone (`CallIsAlone`) and nothing undoes what it did.

*Scans.* Each order was asked for, or is sent again because a restart left the queue's job active: the
two pay for every order sent or about to be (`OrdersPaid`), which bounds them, as the faults bound
the uploads (`TriesPaid`). An order is on the wire once at most and only before its scan begins
(`WireFresh`), so no scan starts over one whose cancel function is installed; the end of any scan
resets whatever function there is, so none is left of a scan that is over (`CancelIsLive`). Only
placeholders run, and a placeholder never holds results (`RowsTold`): what cancellation, the clean-up
and the next upload of a scanner write over or delete are placeholders.

*Terminals keep their contract.* `OrderInv` orders what is under way to the agent: identifiers are
used once (`Fresh`), the order to open comes once and before anything else of its session
(`OpenedOnce`), and nothing is heard of a session before it was taken up (`SilentBefore`).
`HearingInv` is about what comes back: an error is all that is ever heard of its session
(`ErrorAlone`), so the table entry an error leaves behind is silent, and every entry that can still be
heard belongs to a session its user sees as alive or connecting (`TableIsAlive`); a shell that is open
has been announced (`OpenIsAnnounced`), and output follows the announcement (`OutputIsLate`). The
steps of `TerminalContract` then are: asking for a session connects, hearing of it succeeds or shows,
everything that ends one - an error, the timer, a lost WebSocket, a restart - ends it for good.

All the named invariants were also checked by TLC on the instances above before they were
proved; so every invariant and action property the runs check is a theorem. Only model-checked:
liveness, which is beyond the prover (`UiLearnsOffline`, `LossIsNoticed`, `ReturnClears`,
`StaleIsNoticed`, `EveryJobEnds`, `DueMovesOn`, `MissingIsScheduled`, `EveryRowEnds`,
`EveryRequestEnds`, `EveryConnectAnswered`, `ClosedShellGoes`, `DifferenceIsStored`, `BurstEnds`; the
safety core is proved of the first three, of `EveryJobEnds` and of the last four), and the three statements
the code does not keep.

## What is not modelled

Everything in the table of components without a module. Of the modelled components:
listings and statistics; the alerts raised
when a job fails; the counters of a job (shown, never decided upon); the syntax of cron
expressions and time zones; what package managers do, beyond the result they report; the
authentication of calls; the messages the hub pushes to agents, other than those of scans, reports and terminals, and the
events it receives; what users do with alerts; the readings of a report that are not hashed, the
alerts evaluated from them, `update_history`, the binding of a host to its machine, and a message
channel that is full; scans of Docker images, the installation of scanners, and scores; the
terminal's direct mode, input and resizing. The frontend and the routes that only list, sort and edit
single rows are most of the repository's lines and have no behaviour beyond a query; file and process
I/O (updates of the agent, package managers, scanners) is a choice of its outcome. The database is assumed to execute a transaction atomically.

## Plan

Done: `PatchDispatch`, `PatchJobs`, `PatchWindows`, `PatchPackages`, `AgentConnection`, `HostReports`,
`ComplianceScans`, `TerminalContract` and `TerminalSessions`, with their proofs. Left, in this order:

1. Safety cores of the other liveness properties: what ends a scan's row or moves a window on is always
   under way, as it is proved for the hub, jobs, reports and terminals.
2. `PatchSystem`: `PatchWindows` composed with `PatchJobs`, `StartJob` being `CreateCommit`.
3. `CronFields`: the pure algorithm `matchField` against a reference definition.
4. `Sessions`, `Enrollment`, alerts evaluated from reports: refresh and revocation, daily quotas,
   evaluations that overlap.
