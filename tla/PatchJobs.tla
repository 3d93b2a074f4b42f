----------------------------- MODULE PatchJobs -----------------------------
(***************************************************************************)
(* The life of a patch job: the rows of patch_jobs and patch_job_hosts,    *)
(* the server's handlers that read and write them, and the agents that     *)
(* fetch, execute and report their share of a job.                         *)
(*                                                                         *)
(* A handler is a sequence of awaited queries with nothing held between    *)
(* them, so every query is a step of its own and other handlers, the       *)
(* scheduler and the agents run in between.  A prisma.$transaction is one  *)
(* step.  A handler in flight occupies a slot of "request".                *)
(*                                                                         *)
(* A row of patch_job_hosts is named by its job and its host, the          *)
(* @@unique([job_id, host_id]) of the schema.                              *)
(***************************************************************************)
EXTENDS Naturals, FiniteSets

CONSTANTS
  Hosts,        \* managed hosts
  Jobs,         \* identifiers a job may get, in order of created_at
  Policies,
  Users,        \* slots for administrators' requests running at the same time
  Calls,        \* slots for agents' calls running at the same time
  Collectors,   \* agent goroutines that may run sendReport
  HostOf,       \* the host of a collector
  Targets,      \* hosts a policy reaches through its host groups
  StopPercent,  \* stop_on_failure_percent of a policy, 0 is off
  Outcomes,     \* results the package managers may produce
  Timeouts,     \* jobs whose duration may pass before they end
  MaxSends,     \* times one HTTP call may be sent (1 + retries)
  MaxInFlight,  \* bound on the agents' calls the server has yet to receive
  MaxEdits,     \* bound on changes of policies
  MaxCrashes    \* bound on restarts of the server and of agents

Requests == Users \cup Calls

ASSUME HostsAssumption      == IsFiniteSet(Hosts)
ASSUME JobsAssumption       == Jobs \subseteq Nat
ASSUME CollectorsAssumption == HostOf \in [Collectors -> Hosts]
ASSUME TargetsAssumption    == Targets \in [Policies -> SUBSET Hosts]
ASSUME StopAssumption       == StopPercent \in [Policies -> 0 .. 100]
ASSUME InputsAssumption     ==
  /\ Outcomes \subseteq {"completed", "completed_with_errors", "failed"}
  /\ Timeouts \subseteq Jobs
ASSUME BoundsAssumption     ==
  /\ MaxSends \in Nat \ {0}
  /\ {MaxInFlight, MaxEdits, MaxCrashes} \subseteq Nat

(***************************************************************************)
(* Statuses.  "none" is a row that does not exist; "deleted" is a job whose *)
(* row went with its policy, kept apart so that its identifier is not used  *)
(* again; "working" stands for the "downloading", "installing" and          *)
(* "rebooting" of the code, which no handler tells apart.                   *)
(***************************************************************************)
ActiveJob   == {"pending", "running"}
TerminalJob == {"completed", "completed_with_errors", "failed", "cancelled"}
FinishedJob == TerminalJob \cup {"deleted"}
JobStatus   == {"none"} \cup ActiveJob \cup FinishedJob

ActiveHost  == {"pending", "working"}
Results     == {"completed", "completed_with_errors", "failed"}
HostStatus  == {"none", "skipped"} \cup ActiveHost \cup Results
AgentStatus == {"working"} \cup Results

(***************************************************************************)
(* What a report keeps of the job it read at its start, and what its last   *)
(* query does to the job's status: "keep" when the update has no status.    *)
(***************************************************************************)
Seen    == {"pending", "cancelled", "other"}
Updates == {"keep", "running", "completed", "completed_with_errors", "failed"}

Messages == [job : Jobs, host : Hosts, status : AgentStatus, sends : 1 .. MaxSends]

RequestState ==
  [at : {"idle"}]
    \cup [at : {"create"}, policy : Policies, hosts : SUBSET Hosts]
    \cup [at : {"run"}, host : Hosts, policies : SUBSET Policies]
    \cup [at : {"cancel", "status_job", "status_commit"}, job : Jobs]
    \cup [at : {"report_row"}, job : Jobs, host : Hosts, status : Results, seen : Seen]
    \cup [at : {"report_count"}, job : Jobs, seen : Seen]
    \cup [at : {"report_skip", "report_commit"}, job : Jobs, update : Updates]

CollectorState ==
  [at : {"idle"}]
    \cup [at : {"offered", "start", "snapshot", "execute"}, job : Jobs]
    \cup [at : {"executed", "rebooting"}, job : Jobs, result : Results]

VARIABLES
  policies,     \* state of each policy's row
  policyOf,     \* patch_jobs.policy_id; meaningful once the job exists
  jobStatus,    \* patch_jobs.status
  rows,         \* patch_job_hosts.status
  overdue,      \* jobs older than their window's duration
  request,      \* the server's handlers
  expiring,     \* jobs the running scheduler tick has yet to expire
  net,          \* calls of agents the server has yet to receive
  collector,    \* the agents
  edits,        \* changes of policies so far
  crashes,      \* restarts of the server and of agents so far
  ended,        \* history: jobs that ever were finished
  settled       \* history: <<job, host>> pairs an agent ran without an error,
                \*   or whose row ever was "skipped"

database == <<policies, policyOf, jobStatus, rows>>
history  == <<ended, settled>>
vars     == <<database, overdue, request, expiring, net, collector, edits, crashes, history>>

TypeOK ==
  /\ policies \in [Policies -> {"enabled", "disabled", "deleted"}]
  /\ policyOf \in [Jobs -> Policies \cup {"none"}]
  /\ jobStatus \in [Jobs -> JobStatus]
  /\ rows \in [Jobs -> [Hosts -> HostStatus]]
  /\ overdue \subseteq Jobs
  /\ request \in [Requests -> RequestState]
  /\ expiring \subseteq Jobs
  /\ net \subseteq Messages
  /\ collector \in [Collectors -> CollectorState]
  /\ edits \in Nat
  /\ crashes \in Nat
  /\ ended \subseteq Jobs
  /\ settled \subseteq Jobs \X Hosts

Idle == [at |-> "idle"]

Init ==
  /\ policies = [p \in Policies |-> "enabled"]
  /\ policyOf = [j \in Jobs |-> "none"]
  /\ jobStatus = [j \in Jobs |-> "none"]
  /\ rows = [j \in Jobs |-> [h \in Hosts |-> "none"]]
  /\ overdue = {}
  /\ request = [r \in Requests |-> Idle]
  /\ expiring = {}
  /\ net = {}
  /\ collector = [c \in Collectors |-> Idle]
  /\ edits = 0
  /\ crashes = 0
  /\ ended = {}
  /\ settled = {}

-----------------------------------------------------------------------------
(***************************************************************************)
(* Reading the tables.                                                      *)
(***************************************************************************)
Exists(j) == jobStatus[j] \notin {"none", "deleted"}

HostsIn(j, S) == {h \in Hosts : rows[j][h] \in S}
Tally(j, S)   == Cardinality(HostsIn(j, S))

Busy(h) == \E j \in Jobs : jobStatus[j] \in ActiveJob /\ rows[j][h] \in ActiveHost

(* Jobs bounds how many jobs are created. *)
JobsLeft == \E j \in Jobs : jobStatus[j] = "none"

FreshJob(j) ==
  /\ jobStatus[j] = "none"
  /\ \A k \in Jobs : jobStatus[k] = "none" => j <= k

(***************************************************************************)
(* Every step that writes a job or a host row leaves its mark in the        *)
(* history variables.                                                       *)
(***************************************************************************)
RecordEnds ==
  /\ ended' = ended \cup {j \in Jobs : jobStatus'[j] \in FinishedJob}
  /\ settled' = settled \cup {p \in Jobs \X Hosts : rows'[p[1]][p[2]] = "skipped"}

Becomes(r, state) == request' = [request EXCEPT ![r] = state]

-----------------------------------------------------------------------------
(***************************************************************************)
(* Creating jobs.  createPatchJob resolves the policy's hosts, drops the    *)
(* busy ones and those with nothing to install, and later writes the job    *)
(* and its rows in one transaction; nothing is locked in between.           *)
(***************************************************************************)
CreateBegin(r, p) ==
  /\ JobsLeft
  /\ request[r] = Idle
  /\ policies[p] = "enabled"
  /\ \E work \in SUBSET {h \in Targets[p] : ~Busy(h)} :
       /\ work # {}
       /\ Becomes(r, [at |-> "create", policy |-> p, hosts |-> work])
  /\ UNCHANGED <<database, overdue, expiring, net, collector, edits, crashes, history>>

InsertJob(j, p, hosts) ==
  /\ FreshJob(j)
  /\ policies[p] # "deleted"
  /\ policyOf' = [policyOf EXCEPT ![j] = p]
  /\ jobStatus' = [jobStatus EXCEPT ![j] = "pending"]
  /\ rows' = [rows EXCEPT ![j] = [h \in Hosts |-> IF h \in hosts THEN "pending" ELSE "none"]]
  /\ UNCHANGED <<policies, overdue, expiring, net, collector, edits, crashes>>
  /\ RecordEnds

CreateCommit(r, j) ==
  /\ request[r].at = "create"
  /\ InsertJob(j, request[r].policy, request[r].hosts)
  /\ Becomes(r, Idle)

(***************************************************************************)
(* createPatchJobsForHost checks once that the host is free, then creates   *)
(* one job per selected policy, each in a transaction of its own.           *)
(***************************************************************************)
RunBegin(r, h) ==
  /\ JobsLeft
  /\ request[r] = Idle
  /\ ~Busy(h)
  /\ \E ps \in SUBSET {p \in Policies : policies[p] = "enabled" /\ h \in Targets[p]} :
       /\ ps # {}
       /\ Becomes(r, [at |-> "run", host |-> h, policies |-> ps])
  /\ UNCHANGED <<database, overdue, expiring, net, collector, edits, crashes, history>>

RunCommit(r, j) ==
  /\ request[r].at = "run"
  /\ \E p \in request[r].policies :
       LET left == request[r].policies \ {p} IN
       /\ InsertJob(j, p, {request[r].host})
       /\ Becomes(r, IF left = {} THEN Idle ELSE [request[r] EXCEPT !.policies = left])

-----------------------------------------------------------------------------
(***************************************************************************)
(* Cancelling: the check of the job's status and the transaction that       *)
(* cancels it are two steps, and the update does not repeat the check.      *)
(***************************************************************************)
CancelBegin(r, j) ==
  /\ request[r] = Idle
  /\ jobStatus[j] \in ActiveJob
  /\ Becomes(r, [at |-> "cancel", job |-> j])
  /\ UNCHANGED <<database, overdue, expiring, net, collector, edits, crashes, history>>

\* Mutant: host rows are given the job's status instead of one of their own.
SkipPendingAsCancelled(j) ==
  [rows EXCEPT ![j] = [h \in Hosts |-> IF rows[j][h] = "pending" THEN "cancelled" ELSE rows[j][h]]]

\* Mutant: only the job is marked, its waiting hosts are forgotten.
SkipNothing(j) == rows

SkipPending(j) ==
  [rows EXCEPT ![j] = [h \in Hosts |-> IF rows[j][h] = "pending" THEN "skipped" ELSE rows[j][h]]]

CancelCommit(r) ==
  /\ request[r].at = "cancel"
  /\ LET j == request[r].job IN
       /\ Exists(j)
       /\ jobStatus' = [jobStatus EXCEPT ![j] = "cancelled"]
       /\ rows' = SkipPending(j)
  /\ Becomes(r, Idle)
  /\ UNCHANGED <<policies, policyOf, overdue, expiring, net, collector, edits, crashes>>
  /\ RecordEnds

-----------------------------------------------------------------------------
(***************************************************************************)
(* The agents' calls.  The server takes a call from the network; when its   *)
(* answer is lost on the way back the client sends the call again.          *)
(***************************************************************************)
Resent(m) == IF m.sends > 1 THEN {[m EXCEPT !.sends = @ - 1]} ELSE {}

Receive(m) ==
  \/ net' = net \ {m}
  \/ net' = (net \ {m}) \cup Resent(m)

(***************************************************************************)
(* handleAgentStatus: the row is updated whatever it and its job are by     *)
(* now; then the job is read, and updated when it was read as pending.      *)
(* Finding the row and updating it is one step: the only thing that can     *)
(* come between them is the row's deletion, and then both do nothing.       *)
(***************************************************************************)
StatusUpdateRow(r, m) ==
  /\ request[r] = Idle
  /\ m.status \notin Results
  /\ rows[m.job][m.host] # "none"
  /\ Receive(m)
  /\ rows' = [rows EXCEPT ![m.job][m.host] = m.status]
  /\ Becomes(r, [at |-> "status_job", job |-> m.job])
  /\ UNCHANGED <<policies, policyOf, jobStatus, overdue, expiring, collector, edits, crashes>>
  /\ RecordEnds

StatusReadJob(r) ==
  /\ request[r].at = "status_job"
  /\ Becomes(r, IF jobStatus[request[r].job] = "pending"
                  THEN [request[r] EXCEPT !.at = "status_commit"]
                  ELSE Idle)
  /\ UNCHANGED <<database, overdue, expiring, net, collector, edits, crashes, history>>

StatusCommit(r) ==
  /\ request[r].at = "status_commit"
  /\ Exists(request[r].job)
  /\ jobStatus' = [jobStatus EXCEPT ![request[r].job] = "running"]
  /\ Becomes(r, Idle)
  /\ UNCHANGED <<policies, policyOf, rows, overdue, expiring, net, collector, edits, crashes>>
  /\ RecordEnds

(***************************************************************************)
(* processAgentPatchReport.  The job is read with the row at the start; its *)
(* status then ("seen") is what the handler decides with at the end.        *)
(***************************************************************************)
SeenAs(status) == IF status \in {"pending", "cancelled"} THEN status ELSE "other"

ReportBegin(r, m) ==
  /\ request[r] = Idle
  /\ m.status \in Results
  /\ rows[m.job][m.host] # "none"
  /\ Receive(m)
  /\ Becomes(r, [at |-> "report_row", job |-> m.job, host |-> m.host,
                 status |-> m.status, seen |-> SeenAs(jobStatus[m.job])])
  /\ UNCHANGED <<database, overdue, expiring, collector, edits, crashes, history>>

ReportUpdateRow(r) ==
  /\ request[r].at = "report_row"
  /\ LET j == request[r].job
         h == request[r].host
     IN  /\ rows[j][h] # "none"
         /\ rows' = [rows EXCEPT ![j][h] = request[r].status]
         /\ Becomes(r, [at |-> "report_count", job |-> j, seen |-> request[r].seen])
  /\ UNCHANGED <<policies, policyOf, jobStatus, overdue, expiring, net, collector, edits, crashes>>
  /\ RecordEnds

\* Mutant: a job with failures beside successes is called completed.
VerdictOfBest(j) ==
  IF HostsIn(j, {"completed_with_errors"}) # {} THEN "completed_with_errors"
  ELSE IF HostsIn(j, {"completed"}) = {} THEN "failed"
  ELSE "completed"

Verdict(j) ==
  LET withErrors == HostsIn(j, {"completed_with_errors"})
      failures   == HostsIn(j, {"failed"})
      successes  == HostsIn(j, {"completed"})
  IN  IF withErrors # {} \/ (failures # {} /\ successes # {}) THEN "completed_with_errors"
      ELSE IF failures # {} THEN "failed"
      ELSE "completed"

OverThreshold(j) ==
  LET percent == StopPercent[policyOf[j]]
      bad     == Tally(j, {"failed", "completed_with_errors"})
  IN  percent > 0 /\ 100 * bad >= percent * Tally(j, HostStatus \ {"none"})

ReportedStatus(j, seen) ==
  IF HostsIn(j, ActiveHost) = {}
    THEN IF seen = "cancelled" THEN "keep" ELSE Verdict(j)
    ELSE IF OverThreshold(j) THEN "failed"
         ELSE IF seen = "pending" THEN "running" ELSE "keep"

ReportCount(r) ==
  /\ request[r].at = "report_count"
  /\ LET j    == request[r].job
         stop == HostsIn(j, ActiveHost) # {} /\ OverThreshold(j)
     IN  /\ Exists(j)
         /\ Becomes(r, [at     |-> IF stop THEN "report_skip" ELSE "report_commit",
                        job    |-> j,
                        update |-> ReportedStatus(j, request[r].seen)])
  /\ UNCHANGED <<database, overdue, expiring, net, collector, edits, crashes, history>>

ReportSkip(r) ==
  /\ request[r].at = "report_skip"
  /\ rows' = SkipPending(request[r].job)
  /\ Becomes(r, [request[r] EXCEPT !.at = "report_commit"])
  /\ UNCHANGED <<policies, policyOf, jobStatus, overdue, expiring, net, collector, edits, crashes>>
  /\ RecordEnds

ReportCommit(r) ==
  /\ request[r].at = "report_commit"
  /\ LET j == request[r].job
         u == request[r].update
     IN  /\ Exists(j)
         /\ jobStatus' = IF u = "keep" THEN jobStatus ELSE [jobStatus EXCEPT ![j] = u]
  /\ Becomes(r, Idle)
  /\ UNCHANGED <<policies, policyOf, rows, overdue, expiring, net, collector, edits, crashes>>
  /\ RecordEnds

(***************************************************************************)
(* A query that needs a row the deletion of a policy took away throws, and  *)
(* the handler answers with an error.  A call about such a row is refused.  *)
(***************************************************************************)
RequestFails(r) ==
  /\ \/ /\ request[r].at \in {"cancel", "status_commit", "report_row", "report_count",
                              "report_commit"}
        /\ ~Exists(request[r].job)
     \/ /\ request[r].at = "create"
        /\ policies[request[r].policy] = "deleted"
     \/ /\ request[r].at = "run"
        /\ \E p \in request[r].policies : policies[p] = "deleted"
  /\ Becomes(r, Idle)
  /\ UNCHANGED <<database, overdue, expiring, net, collector, edits, crashes, history>>

CallRefused(m) ==
  /\ rows[m.job][m.host] = "none"
  /\ Receive(m)
  /\ UNCHANGED <<database, overdue, request, expiring, collector, edits, crashes, history>>

CallLost(m) ==
  /\ net' = net \ {m}
  /\ UNCHANGED <<database, overdue, request, expiring, collector, edits, crashes, history>>

-----------------------------------------------------------------------------
(***************************************************************************)
(* expireStalePatchJobs, the first thing a scheduler tick does.  The active *)
(* jobs are read once; each that is over its time is then expired by a      *)
(* transaction that claims it only if it is still active.                   *)
(***************************************************************************)
TimePasses(j) ==
  /\ j \in Timeouts
  /\ Exists(j)
  /\ overdue' = overdue \cup {j}
  /\ UNCHANGED <<database, request, expiring, net, collector, edits, crashes, history>>

\* Mutant: jobs no agent has started yet are not looked at.
ScanRunning ==
  /\ expiring = {}
  /\ expiring' = {j \in overdue : jobStatus[j] = "running"}
  /\ UNCHANGED <<database, overdue, request, net, collector, edits, crashes, history>>

ScanStale ==
  /\ expiring = {}
  /\ expiring' = {j \in overdue : jobStatus[j] \in ActiveJob}
  /\ UNCHANGED <<database, overdue, request, net, collector, edits, crashes, history>>

ExpireRows(j) ==
  [rows EXCEPT ![j] = [h \in Hosts |-> IF rows[j][h] \in ActiveHost THEN "failed" ELSE rows[j][h]]]

\* Mutant: the job is expired as it was scanned, without being claimed.
ExpireUnclaimed(j) ==
  /\ j \in expiring
  /\ Exists(j)
  /\ jobStatus' = [jobStatus EXCEPT ![j] = "failed"]
  /\ rows' = ExpireRows(j)
  /\ expiring' = expiring \ {j}
  /\ UNCHANGED <<policies, policyOf, overdue, request, net, collector, edits, crashes>>
  /\ RecordEnds

ExpireJob(j) ==
  /\ j \in expiring
  /\ jobStatus[j] \in ActiveJob
  /\ jobStatus' = [jobStatus EXCEPT ![j] =
                     IF HostsIn(j, {"completed", "completed_with_errors"}) # {}
                       THEN "completed_with_errors" ELSE "failed"]
  /\ rows' = ExpireRows(j)
  /\ expiring' = expiring \ {j}
  /\ UNCHANGED <<policies, policyOf, overdue, request, net, collector, edits, crashes>>
  /\ RecordEnds

ExpireSkips(j) ==
  /\ j \in expiring
  /\ jobStatus[j] \notin ActiveJob
  /\ expiring' = expiring \ {j}
  /\ UNCHANGED <<database, overdue, request, net, collector, edits, crashes, history>>

(***************************************************************************)
(* Administration: a policy is enabled or disabled, or deleted, which       *)
(* cascades to its jobs and their host rows.                                *)
(***************************************************************************)
TogglePolicy(p) ==
  /\ edits < MaxEdits
  /\ policies[p] # "deleted"
  /\ policies' = [policies EXCEPT ![p] = IF @ = "enabled" THEN "disabled" ELSE "enabled"]
  /\ edits' = edits + 1
  /\ UNCHANGED <<policyOf, jobStatus, rows, overdue, request, expiring, net,
                 collector, crashes, history>>

JobsOf(p) == {j \in Jobs : Exists(j) /\ policyOf[j] = p}

DeletePolicy(p) ==
  /\ edits < MaxEdits
  /\ policies[p] # "deleted"
  /\ policies' = [policies EXCEPT ![p] = "deleted"]
  /\ jobStatus' = [j \in Jobs |-> IF j \in JobsOf(p) THEN "deleted" ELSE jobStatus[j]]
  /\ rows' = [j \in Jobs |-> IF j \in JobsOf(p) THEN [h \in Hosts |-> "none"] ELSE rows[j]]
  /\ edits' = edits + 1
  /\ UNCHANGED <<policyOf, overdue, request, expiring, net, collector, crashes>>
  /\ RecordEnds

ServerCrash ==
  /\ crashes < MaxCrashes
  /\ crashes' = crashes + 1
  /\ request' = [r \in Requests |-> Idle]
  /\ expiring' = {}
  /\ UNCHANGED <<database, overdue, net, collector, edits, history>>

-----------------------------------------------------------------------------
(***************************************************************************)
(* The agent: Collect fetches one assignment, tells the server about each   *)
(* phase without minding whether it arrives, executes the updates, and      *)
(* reports once.  It goes on when its call is answered or has timed out, so *)
(* the call may still be in the network or in its handler.                  *)
(*                                                                         *)
(* Fetch is the server's query for the assignment.  Its answer is then on   *)
(* the way ("offered"): the job may be cancelled, expire or be deleted      *)
(* before the agent starts on it, and the agent asks nothing more.  An      *)
(* answer that is lost ends the fetch.                                      *)
(***************************************************************************)
\* Mutant: a host is handed again what it is already working on.
OfferedUntilDone(h) ==
  {j \in Jobs : jobStatus[j] \in ActiveJob /\ rows[j][h] \in ActiveHost}

Offered(h) == {j \in Jobs : jobStatus[j] \in ActiveJob /\ rows[j][h] = "pending"}

Fetch(c) ==
  /\ collector[c] = Idle
  /\ \E j \in Offered(HostOf[c]) :
       /\ \A k \in Offered(HostOf[c]) : j <= k
       /\ collector' = [collector EXCEPT ![c] = [at |-> "offered", job |-> j]]
  /\ UNCHANGED <<database, overdue, request, expiring, net, edits, crashes, history>>

Start(c) ==
  /\ collector[c].at = "offered"
  /\ collector' = [collector EXCEPT ![c].at = "start"]
  /\ UNCHANGED <<database, overdue, request, expiring, net, edits, crashes, history>>

OfferLost(c) ==
  /\ collector[c].at = "offered"
  /\ collector' = [collector EXCEPT ![c] = Idle]
  /\ UNCHANGED <<database, overdue, request, expiring, net, edits, crashes, history>>

Send(c, status) ==
  /\ Cardinality(net) < MaxInFlight
  /\ net' = net \cup {[job |-> collector[c].job, host |-> HostOf[c],
                       status |-> status, sends |-> MaxSends]}

SendDownloading(c) ==
  /\ collector[c].at = "start"
  /\ Send(c, "working")
  /\ collector' = [collector EXCEPT ![c].at = "snapshot"]
  /\ UNCHANGED <<database, overdue, request, expiring, edits, crashes, history>>

SendInstalling(c) ==
  /\ collector[c].at = "snapshot"
  /\ Send(c, "working")
  /\ collector' = [collector EXCEPT ![c].at = "execute"]
  /\ UNCHANGED <<database, overdue, request, expiring, edits, crashes, history>>

Execute(c) ==
  /\ collector[c].at = "execute"
  /\ \E result \in Outcomes :
       /\ collector' = [collector EXCEPT ![c] = [at |-> "executed", job |-> collector[c].job,
                                                 result |-> result]]
       /\ settled' = IF result = "completed"
                       THEN settled \cup {<<collector[c].job, HostOf[c]>>}
                       ELSE settled
  /\ UNCHANGED <<database, overdue, request, expiring, net, edits, crashes, ended>>

SendRebooting(c) ==
  /\ collector[c].at = "executed"
  /\ Send(c, "working")
  /\ collector' = [collector EXCEPT ![c].at = "rebooting"]
  /\ UNCHANGED <<database, overdue, request, expiring, edits, crashes, history>>

SendPatchReport(c) ==
  /\ collector[c].at \in {"executed", "rebooting"}
  /\ Send(c, collector[c].result)
  /\ collector' = [collector EXCEPT ![c] = Idle]
  /\ UNCHANGED <<database, overdue, request, expiring, edits, crashes, history>>

(***************************************************************************)
(* The agent is restarted or its host reboots: nothing of a running job is  *)
(* on disk, so all its collectors start afresh.                             *)
(***************************************************************************)
AgentCrash(h) ==
  /\ \E c \in Collectors : HostOf[c] = h /\ collector[c] # Idle
  /\ crashes < MaxCrashes
  /\ crashes' = crashes + 1
  /\ collector' = [c \in Collectors |-> IF HostOf[c] = h THEN Idle ELSE collector[c]]
  /\ UNCHANGED <<database, overdue, request, expiring, net, edits, history>>

-----------------------------------------------------------------------------
UserStep ==
  \/ \E r \in Users, p \in Policies : CreateBegin(r, p)
  \/ \E r \in Users, h \in Hosts : RunBegin(r, h)
  \/ \E r \in Users, j \in Jobs : CancelBegin(r, j)
  \/ \E p \in Policies : TogglePolicy(p) \/ DeletePolicy(p)

CallStep ==
  \E m \in net :
    \/ \E r \in Calls : StatusUpdateRow(r, m) \/ ReportBegin(r, m)
    \/ CallRefused(m)
    \/ CallLost(m)

HandlerStep(r) ==
  \/ \E j \in Jobs : CreateCommit(r, j) \/ RunCommit(r, j)
  \/ CancelCommit(r)
  \/ StatusReadJob(r)
  \/ StatusCommit(r)
  \/ ReportUpdateRow(r)
  \/ ReportCount(r)
  \/ ReportSkip(r)
  \/ ReportCommit(r)
  \/ RequestFails(r)

TickStep ==
  \/ ScanStale
  \/ \E j \in Jobs : ExpireJob(j) \/ ExpireSkips(j)

AgentStep(c) ==
  \/ Fetch(c)
  \/ Start(c)
  \/ OfferLost(c)
  \/ SendDownloading(c)
  \/ SendInstalling(c)
  \/ Execute(c)
  \/ SendRebooting(c)
  \/ SendPatchReport(c)

Next ==
  \/ UserStep
  \/ CallStep
  \/ \E r \in Requests : HandlerStep(r)
  \/ TickStep
  \/ \E j \in Jobs : TimePasses(j)
  \/ ServerCrash
  \/ \E c \in Collectors : AgentStep(c)
  \/ \E h \in Hosts : AgentCrash(h)

Spec == Init /\ [][Next]_vars

(***************************************************************************)
(* The event loop runs every handler to its end, the 60 s interval brings   *)
(* the next tick, and the clock advances.  Nothing is assumed of agents,    *)
(* users or the network.                                                    *)
(***************************************************************************)
Fairness ==
  /\ \A r \in Requests : WF_vars(HandlerStep(r))
  /\ WF_vars(TickStep)
  /\ \A j \in Jobs : WF_vars(TimePasses(j))

FairSpec == Spec /\ Fairness
-----------------------------------------------------------------------------
(***************************************************************************)
(* Properties.                                                              *)
(***************************************************************************)

(* Once a job has ended - for whatever reason, and whatever stale handlers  *)
(* write to it afterwards - none of its hosts has a row that                *)
(* getPendingJobForHost would still hand out.                               *)
NoOfferAfterEnd ==
  \A j \in ended : \A h \in Hosts : rows[j][h] # "pending"

(* A job is called completed only if every one of its hosts was skipped at  *)
(* some time or really ran its updates without an error: the verdict of     *)
(* processAgentPatchReport is true of what the agents did, whichever        *)
(* reports were lost, repeated or late.                                     *)
CompletedIsTrue ==
  \A j \in Jobs : jobStatus[j] = "completed" =>
    \A h \in Hosts : rows[j][h] # "none" => <<j, h>> \in settled

(* The scheduler's expiry leaves a job that ended after the scan alone, and *)
(* its rows too: "If an agent completed the job since the initial query,    *)
(* leave it untouched."                                                     *)
ExpiryLeavesFinished ==
  [][\A j \in expiring \ expiring' : jobStatus[j] \in FinishedJob =>
       jobStatus'[j] = jobStatus[j] /\ rows'[j] = rows[j]]_vars

Answering == {c \in Collectors : collector[c].at = "offered"}
Working   == {c \in Collectors : collector[c].at \notin {"idle", "offered"}}

(* The handlers, the scheduler and the agents implement the dispatch        *)
(* contract: offers are made once, at creation, and are only ever taken     *)
(* back; no answer hands out a job that has ended; and an agent starts only *)
(* on what an answer handed it while the offer stood, which may be after    *)
(* the job ended.                                                           *)
Dispatch == INSTANCE PatchDispatch WITH
  opened <- {j \in Jobs : jobStatus[j] # "none"},
  closed <- ended,
  offers <- {p \in Jobs \X Hosts : rows[p[1]][p[2]] = "pending"},
  handed <- {<<collector[c].job, HostOf[c]>> : c \in Answering},
  taken  <- {<<collector[c].job, HostOf[c]>> : c \in Working}

ImplementsDispatch == Dispatch!Spec

(* A job that was created comes to an end for good: no agent, lost call or  *)
(* crash leaves it active for ever, because expiry catches it, and the      *)
(* handlers that may revive it run dry.                                     *)
EveryJobEnds ==
  \A j \in Jobs : jobStatus[j] # "none" ~> [](jobStatus[j] \in FinishedJob)

(* A handler that may make a running job of j although it ended: it read the *)
(* job as pending, and has yet to write what it concluded from that.        *)
MayRevive(r, j) ==
  LET s == request[r]
  IN  \/ s.at = "status_commit" /\ s.job = j
      \/ s.at \in {"report_row", "report_count"} /\ s.job = j /\ s.seen = "pending"
      \/ s.at \in {"report_skip", "report_commit"} /\ s.job = j /\ s.update = "running"

(* The safety core of EveryJobEnds: handlers that may revive a job that     *)
(* ended run dry.  None is added while the job is ended, each revival uses  *)
(* one up, and a deleted job stays deleted.                                 *)
RevivalsRunDry ==
  [][\A j \in Jobs : jobStatus[j] \in FinishedJob =>
       /\ \A r \in Requests : MayRevive(r, j)' => MayRevive(r, j)
       /\ jobStatus'[j] \notin FinishedJob =>
            /\ jobStatus[j] # "deleted" /\ jobStatus'[j] = "running"
            /\ \E r \in Requests : MayRevive(r, j) /\ ~MayRevive(r, j)']_vars

(* "A host can only execute one patch assignment at a time": no host has    *)
(* an active row in two active jobs.                                        *)
OneAssignmentPerHost ==
  \A h \in Hosts, j, k \in Jobs :
    /\ jobStatus[j] \in ActiveJob /\ rows[j][h] \in ActiveHost
    /\ jobStatus[k] \in ActiveJob /\ rows[k][h] \in ActiveHost
    => j = k

(* "Don't overwrite cancelled status if the job was already cancelled by    *)
(* user": the last step of a report leaves a cancelled job cancelled.       *)
ReportKeepsCancelled ==
  [][\A r \in Requests :
       request[r].at = "report_commit" /\ jobStatus[request[r].job] = "cancelled"
         => jobStatus'[request[r].job] \in {"cancelled", "deleted"}]_vars
-----------------------------------------------------------------------------
(***************************************************************************)
(* The inductive invariant behind NoOfferAfterEnd.  A report that is about  *)
(* to end a job has seen, or made sure, that no row of it is pending, and   *)
(* rows are pending only at first; so the promise outlives the handlers     *)
(* that bring an ended job back to running.                                 *)
(***************************************************************************)
EndsRecorded == \A j \in Jobs : jobStatus[j] \in FinishedJob => j \in ended

UnbornIsBlank ==
  \A j \in Jobs : jobStatus[j] = "none" => j \notin ended /\ \A h \in Hosts : rows[j][h] = "none"

HandlersKnowTheirJob ==
  \A r \in Requests : request[r].at \notin {"idle", "create", "run"} =>
    jobStatus[request[r].job] # "none"

ClosingHasNoOffer ==
  \A r \in Requests : request[r].at = "report_commit" /\ request[r].update \in TerminalJob =>
    \A h \in Hosts : rows[request[r].job][h] # "pending"

DispatchInv ==
  /\ TypeOK
  /\ EndsRecorded
  /\ UnbornIsBlank
  /\ HandlersKnowTheirJob
  /\ ClosingHasNoOffer
  /\ NoOfferAfterEnd

(***************************************************************************)
(* The inductive invariant behind CompletedIsTrue: a success anywhere on    *)
(* its way - in an agent, a call, a handler, a row, a verdict - is one that *)
(* happened.                                                                *)
(***************************************************************************)
AgentsTrue ==
  \A c \in Collectors :
    collector[c].at \in {"executed", "rebooting"} /\ collector[c].result = "completed" =>
      <<collector[c].job, HostOf[c]>> \in settled

CallsTrue == \A m \in net : m.status = "completed" => <<m.job, m.host>> \in settled

ReportsTrue ==
  \A r \in Requests : request[r].at = "report_row" /\ request[r].status = "completed" =>
    <<request[r].job, request[r].host>> \in settled

RowsTrue ==
  \A j \in Jobs, h \in Hosts : rows[j][h] \in {"completed", "skipped"} => <<j, h>> \in settled

VerdictsTrue ==
  \A r \in Requests :
    request[r].at \in {"report_skip", "report_commit"} /\ request[r].update = "completed" =>
      \A h \in Hosts : rows[request[r].job][h] # "none" => <<request[r].job, h>> \in settled

TruthInv ==
  /\ DispatchInv
  /\ AgentsTrue
  /\ CallsTrue
  /\ ReportsTrue
  /\ RowsTrue
  /\ VerdictsTrue
  /\ CompletedIsTrue
=============================================================================
