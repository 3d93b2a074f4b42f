-------------------------- MODULE ComplianceScans --------------------------
(***************************************************************************)
(* Compliance scans of one host, across the server and the agent: the       *)
(* queued request and the worker that orders the scan, the rows that show   *)
(* it running, the agent's scan goroutines and the one cancel function they *)
(* share, the upload of results, and the cleanup of rows nobody ended.      *)
(*                                                                          *)
(* Each awaited query that matters is a step of its own.  A row is named by *)
(* the order it belongs to, its scanner and the upload that made it, 0 for  *)
(* the placeholder written when the order is sent.  The results completed    *)
(* and failed are one, reported: nothing here depends on which it is.  Rows *)
(* that were cancelled or expired are failed ones too, with other messages. *)
(***************************************************************************)
EXTENDS Naturals, Sequences

CONSTANTS
  Types,       \* the scanners: OpenSCAP, Docker Bench
  MaxOrders,   \* bound on the scans users and reports ask for
  MaxCancels,  \* bound on the cancellations users ask for
  MaxFaults    \* bound on crashes, restarts and lost answers

ASSUME BoundsAssumption ==
  MaxOrders \in Nat /\ MaxCancels \in Nat /\ MaxFaults \in Nat

Orders  == 1 .. MaxOrders + MaxFaults
Cancel  == 0                           \* the cancel message, and no scan
Uploads == 1 .. MaxFaults + 1
Keys    == [order : Orders, type : Types, try : 0 .. MaxFaults + 1]
Status  == {"running", "overdue", "reported", "cancelled", "expired"}
Stage   == {"none", "starting", "running", "cancelled", "sending", "ended"}

Task == [at : {"idle", "begun", "loaded", "recording"},
         order : Orders \cup {0}, types : SUBSET Types]
Post == [order : Orders, try : Uploads, results : SUBSET Types]

Idle    == [at |-> "idle", order |-> 0, types |-> {}]

VARIABLES
  connected,  \* whether the server has an open socket of the agent
  wire,       \* messages on that socket and in the agent's channel
  job,        \* the job compliance-scan-<host> of the queue
  worker,     \* what the queue's worker is at
  bulk,       \* what a bulk trigger is at
  rows,       \* compliance_scans; overdue is running for more than three hours
  stale,      \* the rows the cleanup has found
  canceller,  \* a cancel route that has yet to mark the rows
  scan,       \* the stage of a scan in the agent
  cancelFn,   \* complianceScanCancel: whose context it cancels
  results,    \* the scanners whose results are being uploaded
  tries,      \* uploads made of a scan's results
  posts,      \* POST /scans the server is handling
  orders, asked, cancels, faults

server == <<job, worker, bulk, canceller>>
table  == <<rows, stale>>
agent  == <<scan, cancelFn, results, tries>>
link   == <<connected, wire>>
counts == <<orders, asked, cancels, faults>>
vars   == <<server, table, agent, link, posts, counts>>

TypeOK ==
  /\ connected \in BOOLEAN
  /\ wire \in Seq(Orders \cup {Cancel})
  /\ job \in {"none", "waiting", "delayed", "active"}
  /\ worker \in Task
  /\ bulk \in Task
  /\ DOMAIN rows \subseteq Keys
  /\ \A k \in DOMAIN rows : rows[k] \in Status
  /\ stale \subseteq Keys
  /\ canceller \in BOOLEAN
  /\ scan \in [Orders -> Stage]
  /\ cancelFn \in Orders \cup {0}
  /\ results \in [Orders -> SUBSET Types]
  /\ tries \in [Orders -> 0 .. MaxFaults + 1]
  /\ posts \subseteq Post
  /\ orders \in 0 .. MaxOrders + MaxFaults
  /\ asked \in 0 .. MaxOrders
  /\ cancels \in 0 .. MaxCancels
  /\ faults \in 0 .. MaxFaults

Init ==
  /\ connected = FALSE /\ wire = <<>>
  /\ job = "none" /\ worker = Idle /\ bulk = Idle
  /\ rows = <<>> /\ stale = {} /\ canceller = FALSE
  /\ scan = [n \in Orders |-> "none"]
  /\ cancelFn = 0
  /\ results = [n \in Orders |-> {}]
  /\ tries = [n \in Orders |-> 0]
  /\ posts = {}
  /\ orders = 0 /\ asked = 0 /\ cancels = 0 /\ faults = 0

Row(order, type, try) == [order |-> order, type |-> type, try |-> try]
Running == {k \in DOMAIN rows : rows[k] \in {"running", "overdue"}}

(* A request finds the host's job still queued, or active and so locked     *)
(* under the same id, and adds nothing; otherwise it queues the job.        *)
Trigger ==
  /\ asked < MaxOrders
  /\ job = "none"
  /\ job' = "waiting"
  /\ asked' = asked + 1
  /\ UNCHANGED <<worker, bulk, canceller, table, agent, link, posts,
                 orders, cancels, faults>>

(* The job's delay of a minute is over. *)
Due ==
  /\ job = "delayed"
  /\ job' = "waiting"
  /\ UNCHANGED <<worker, bulk, canceller, table, agent, link, posts, counts>>

WorkerTake ==
  /\ job = "waiting" /\ worker.at = "idle"
  /\ job' = "active"
  /\ worker' = [Idle EXCEPT !.at = "begun"]
  /\ UNCHANGED <<bulk, canceller, table, agent, link, posts, counts>>

\* Mutant: the job is not given a new time.
WorkerForgets ==
  /\ worker.at \in {"begun", "loaded"} /\ ~connected
  /\ worker' = Idle
  /\ UNCHANGED <<job, bulk, canceller, table, agent, link, posts, counts>>

(* Offline: the worker puts the job off by a minute. *)
WorkerDelays ==
  /\ worker.at \in {"begun", "loaded"} /\ ~connected
  /\ worker.at = "loaded" => worker.types # {}
  /\ job' = "delayed"
  /\ worker' = Idle
  /\ UNCHANGED <<bulk, canceller, table, agent, link, posts, counts>>

(* A request for all scanners is one for those that are switched on, and    *)
(* users may switch them at any time; one that names a scanner stands.      *)
WorkerLoad ==
  /\ worker.at = "begun" /\ connected
  /\ \E types \in SUBSET Types :
       worker' = [worker EXCEPT !.at = "loaded", !.types = types]
  /\ UNCHANGED <<job, bulk, canceller, table, agent, link, posts, counts>>

WorkerSkips ==
  /\ worker.at = "loaded" /\ worker.types = {}
  /\ job' = "none"
  /\ worker' = Idle
  /\ UNCHANGED <<bulk, canceller, table, agent, link, posts, counts>>

WorkerSend ==
  /\ worker.at = "loaded" /\ worker.types # {} /\ connected
  /\ orders' = orders + 1
  /\ wire' = Append(wire, orders')
  /\ worker' = [worker EXCEPT !.at = "recording", !.order = orders']
  /\ UNCHANGED <<job, bulk, canceller, table, agent, connected, posts,
                 asked, cancels, faults>>

(* The rows that show the scan running are written after it is ordered, one *)
(* query each.                                                              *)
Record(task, type) ==
  /\ task.at = "recording" /\ type \in task.types
  /\ rows' = [k \in DOMAIN rows \cup {Row(task.order, type, 0)} |->
                IF k = Row(task.order, type, 0) THEN "running" ELSE rows[k]]
  /\ UNCHANGED stale

WorkerRecord ==
  \E type \in worker.types :
    /\ Record(worker, type)
    /\ worker' = [worker EXCEPT !.types = @ \ {type}]
    /\ UNCHANGED <<job, bulk, canceller, agent, link, posts, counts>>

WorkerDone ==
  /\ worker.at = "recording" /\ worker.types = {}
  /\ job' = "none"
  /\ worker' = Idle
  /\ UNCHANGED <<bulk, canceller, table, agent, link, posts, counts>>

(* A bulk trigger sends the order at once to a host that is connected and   *)
(* has a scanner switched on.                                               *)
BulkSend ==
  /\ asked < MaxOrders
  /\ bulk.at = "idle" /\ connected
  /\ \E types \in SUBSET Types \ {{}} :
       bulk' = [at |-> "recording", order |-> orders + 1, types |-> types]
  /\ orders' = orders + 1
  /\ wire' = Append(wire, orders')
  /\ asked' = asked + 1
  /\ UNCHANGED <<job, worker, canceller, table, agent, connected, posts,
                 cancels, faults>>

BulkRecord ==
  \E type \in bulk.types :
    /\ Record(bulk, type)
    /\ bulk' = IF bulk.types = {type} THEN Idle
                                      ELSE [bulk EXCEPT !.types = @ \ {type}]
    /\ UNCHANGED <<job, worker, canceller, agent, link, posts, counts>>

(* The cancel route tells the agent, if it can, and then marks the rows. *)
CancelPush ==
  /\ cancels < MaxCancels /\ ~canceller
  /\ wire' = IF connected THEN Append(wire, Cancel) ELSE wire
  /\ canceller' = TRUE
  /\ cancels' = cancels + 1
  /\ UNCHANGED <<job, worker, bulk, table, agent, connected, posts,
                 orders, asked, faults>>

CancelMark ==
  /\ canceller
  /\ rows' = [k \in DOMAIN rows |->
                IF k \in Running THEN "cancelled" ELSE rows[k]]
  /\ canceller' = FALSE
  /\ UNCHANGED <<job, worker, bulk, stale, agent, link, posts, counts>>

(* The agent's main loop takes a message: an order starts a goroutine, a    *)
(* cancellation calls the cancel function, if there is one, and forgets it. *)
TakeOrder ==
  /\ wire # <<>> /\ Head(wire) # Cancel
  /\ wire' = Tail(wire)
  /\ scan' = [scan EXCEPT ![Head(wire)] = "starting"]
  /\ UNCHANGED <<server, table, cancelFn, results, tries, connected, posts, counts>>

TakeCancel ==
  /\ wire # <<>> /\ Head(wire) = Cancel
  /\ wire' = Tail(wire)
  /\ scan' = [n \in Orders |->
                IF n = cancelFn /\ scan[n] = "running" THEN "cancelled" ELSE scan[n]]
  /\ cancelFn' = 0
  /\ UNCHANGED <<server, table, results, tries, connected, posts, counts>>

(* The goroutine makes its context and installs the function that cancels   *)
(* it, over any other.                                                      *)
Begin(n) ==
  /\ scan[n] = "starting"
  /\ scan' = [scan EXCEPT ![n] = "running"]
  /\ cancelFn' = n
  /\ UNCHANGED <<server, table, results, tries, link, posts, counts>>

\* Mutant: the cancel function of a scan that has ended stays.
EndKeepsCancel(n) ==
  /\ scan' = [scan EXCEPT ![n] = "ended"]
  /\ UNCHANGED cancelFn
  /\ results' = [results EXCEPT ![n] = {}]

(* However a scan ends, its goroutine removes the cancel function. *)
End(n) ==
  /\ scan' = [scan EXCEPT ![n] = "ended"]
  /\ cancelFn' = 0
  /\ results' = [results EXCEPT ![n] = {}]

(* No scanner is installed, or none of them was asked for. *)
NothingToSend(n) ==
  /\ scan[n] \in {"running", "cancelled"}
  /\ End(n)
  /\ UNCHANGED <<server, table, tries, link, posts, counts>>

(* The server leaves out the scanners that are switched off. *)
Upload(n, try, found) ==
  /\ tries' = [tries EXCEPT ![n] = try]
  /\ \E on \in SUBSET found :
       posts' = posts \cup {[order |-> n, try |-> try, results |-> on]}

(* The scanners that are installed run, whatever the order says.  One that  *)
(* fails, because its context was cancelled too, has a result as any other. *)
Collect(n) ==
  /\ scan[n] \in {"running", "cancelled"}
  /\ scan' = [scan EXCEPT ![n] = "sending"]
  /\ \E found \in SUBSET Types \ {{}} :
       /\ results' = [results EXCEPT ![n] = found]
       /\ Upload(n, 1, found)
  /\ UNCHANGED <<server, table, cancelFn, link, counts>>

(* A report of a host whose compliance mode is enabled scans and uploads in *)
(* its own time, outside of orders and cancellations.                       *)
ScheduledScan ==
  /\ asked < MaxOrders
  /\ asked' = asked + 1
  /\ orders' = orders + 1
  /\ \E found \in SUBSET Types \ {{}} : Upload(orders', 1, found)
  /\ UNCHANGED <<server, table, scan, cancelFn, results, link, cancels, faults>>

\* Mutant: the placeholders are made the results.
IngestInPlace(p, type) ==
  /\ type \in p.results
  /\ posts' = (posts \ {p}) \cup {[p EXCEPT !.results = @ \ {type}]}
  /\ rows' = [k \in DOMAIN rows |->
                IF k \in Running /\ k.type = type THEN "reported" ELSE rows[k]]
  /\ UNCHANGED <<server, stale, agent, link, counts>>

(* The server stores the results of a scanner: all placeholders go and a    *)
(* new row comes.                                                           *)
Ingest(p, type) ==
  /\ type \in p.results
  /\ posts' = (posts \ {p}) \cup {[p EXCEPT !.results = @ \ {type}]}
  /\ LET new == Row(p.order, type, p.try)
     IN  rows' = [k \in (DOMAIN rows \ Running) \cup {new} |->
                    IF k = new THEN "reported" ELSE rows[k]]
  /\ UNCHANGED <<server, stale, agent, link, counts>>

(* The answer ends the scan that waits for it. *)
Answer(p) ==
  /\ p.results = {}
  /\ posts' = posts \ {p}
  /\ IF scan[p.order] = "sending" /\ p.try = tries[p.order]
       THEN End(p.order)
       ELSE UNCHANGED <<scan, cancelFn, results>>
  /\ UNCHANGED <<server, table, tries, link, counts>>

\* Mutant: nothing bounds the retries.
ResendForever(n) ==
  /\ scan[n] = "sending"
  /\ Upload(n, tries[n] + 1, results[n])
  /\ UNCHANGED <<server, table, scan, cancelFn, results, link, counts>>

(* The upload fails and is made again, though the server may be at it. *)
Resend(n) ==
  /\ faults < MaxFaults
  /\ scan[n] = "sending"
  /\ faults' = faults + 1
  /\ Upload(n, tries[n] + 1, results[n])
  /\ UNCHANGED <<server, table, scan, cancelFn, results, link, orders, asked, cancels>>

GiveUp(n) ==
  /\ faults < MaxFaults
  /\ scan[n] = "sending"
  /\ faults' = faults + 1
  /\ End(n)
  /\ UNCHANGED <<server, table, tries, link, posts, orders, asked, cancels>>

TimePasses ==
  /\ \E k \in Running : rows[k] = "running"
  /\ rows' = [k \in DOMAIN rows |-> IF k \in Running THEN "overdue" ELSE rows[k]]
  /\ UNCHANGED <<server, stale, agent, link, posts, counts>>

\* Mutant: the cleanup leaves out hosts that are offline.
CleanupFindOnline ==
  /\ stale = {} /\ connected
  /\ stale' = {k \in Running : rows[k] = "overdue"}
  /\ stale' # {}
  /\ UNCHANGED <<server, rows, agent, link, posts, counts>>

(* The daily cleanup looks for old rows that still run, and then marks the  *)
(* rows it found by their ids.                                              *)
CleanupFind ==
  /\ stale = {}
  /\ stale' = {k \in Running : rows[k] = "overdue"}
  /\ stale' # {}
  /\ UNCHANGED <<server, rows, agent, link, posts, counts>>

CleanupMark ==
  /\ stale # {}
  /\ rows' = [k \in DOMAIN rows |-> IF k \in stale THEN "expired" ELSE rows[k]]
  /\ stale' = {}
  /\ UNCHANGED <<server, agent, link, posts, counts>>

(* A connection expedites the job, if the queue lets it. *)
Connect ==
  /\ ~connected
  /\ connected' = TRUE
  /\ job' \in {job} \cup (IF job = "delayed" THEN {"waiting"} ELSE {})
  /\ UNCHANGED <<worker, bulk, canceller, table, agent, wire, posts, counts>>

(* What the agent has not read of the socket is lost. *)
Disconnect ==
  /\ connected
  /\ connected' = FALSE
  /\ \E read \in 0 .. Len(wire) : wire' = SubSeq(wire, 1, read)
  /\ UNCHANGED <<server, table, agent, posts, counts>>

AgentRestart ==
  /\ faults < MaxFaults
  /\ faults' = faults + 1
  /\ connected' = FALSE /\ wire' = <<>>
  /\ scan' = [n \in Orders |-> IF scan[n] = "none" THEN "none" ELSE "ended"]
  /\ cancelFn' = 0
  /\ results' = [n \in Orders |-> {}]
  /\ UNCHANGED <<server, table, tries, posts, orders, asked, cancels>>

(* Handlers die with the server; the queue gives the worker's job out again, *)
(* or gives it up if it has stalled before.                                  *)
ServerRestart ==
  /\ faults < MaxFaults
  /\ faults' = faults + 1
  /\ connected' = FALSE
  /\ \E read \in 0 .. Len(wire) : wire' = SubSeq(wire, 1, read)
  /\ job' \in IF job = "active" THEN {"waiting", "none"} ELSE {job}
  /\ worker' = Idle /\ bulk' = Idle /\ canceller' = FALSE
  /\ stale' = {} /\ posts' = {}
  /\ UNCHANGED <<rows, agent, orders, asked, cancels>>

Work    == WorkerTake \/ WorkerDelays \/ WorkerLoad \/ WorkerSkips
             \/ WorkerSend \/ WorkerRecord \/ WorkerDone
Cleanup == CleanupFind \/ CleanupMark

Next ==
  \/ Trigger \/ Due \/ Work \/ BulkSend \/ BulkRecord
  \/ CancelPush \/ CancelMark \/ TakeOrder \/ TakeCancel
  \/ \E n \in Orders : Begin(n) \/ NothingToSend(n) \/ Collect(n) \/ Resend(n) \/ GiveUp(n)
  \/ ScheduledScan
  \/ \E p \in posts : Answer(p) \/ \E t \in Types : Ingest(p, t)
  \/ TimePasses \/ Cleanup
  \/ Connect \/ Disconnect \/ AgentRestart \/ ServerRestart

Spec == Init /\ [][Next]_vars

(* The queue hands out its jobs, its delays end, and the cleanup runs every *)
(* day.  Nothing is assumed of users, agents or the network.                *)
Fairness == WF_vars(Work) /\ WF_vars(Due) /\ WF_vars(TimePasses) /\ WF_vars(Cleanup)

FairSpec == Spec /\ Fairness

-----------------------------------------------------------------------------
(* A cancellation is never spent on a scan that is over: the cancel function *)
(* is that of a goroutine that has not ended (serve.go, the deferred reset). *)
CancelIsLive == cancelFn # 0 => scan[cancelFn] \in {"running", "sending"}

(* A scan that runs can be cancelled: the comment on complianceScanCancel    *)
(* calls it the function of the currently running scan, nil if none.         *)
RunningIsCancellable == \A n \in Orders : scan[n] = "running" => cancelFn # 0

(* What an agent's results say stays: neither a cancellation nor the cleanup *)
(* overwrites them, however old the rows they have found are.                *)
ResultsStay ==
  [][\A k \in DOMAIN rows :
       rows[k] = "reported" => k \in DOMAIN rows' /\ rows'[k] = rows[k]]_vars

(* No row is left running for good, whatever became of the scan, its order,  *)
(* its agent and the server (complianceScanCleanup).                         *)
EveryRowEnds ==
  \A n \in Orders, t \in Types : Row(n, t, 0) \in Running ~> Row(n, t, 0) \notin Running

(* Once the agent stays connected, a queued request is dealt with: no offline *)
(* retry, failed push or restart leaves it in the queue.                      *)
EveryRequestEnds == <>[]connected => (job # "none" ~> job = "none")

-----------------------------------------------------------------------------
(***************************************************************************)
(* The inductive invariant behind TypeOK, CancelIsLive and ResultsStay.     *)
(***************************************************************************)
(* The worker has a job in hand as long as the queue holds it active, and    *)
(* each order that was or may yet be sent for one was asked for, or is made  *)
(* again after a restart.                                                   *)
WorkerHasJob == worker.at # "idle" <=> job = "active"

RecordsItsOrder == \A task \in {worker, bulk} : task.at = "recording" => task.order \in Orders

OrderToCome == job \in {"waiting", "delayed"} \/ worker.at \in {"begun", "loaded"}

OrdersPaid == orders + (IF OrderToCome THEN 1 ELSE 0) <= asked + faults

QueueInv == WorkerHasJob /\ RecordsItsOrder /\ OrdersPaid

(* An order is on its way at most once, and only before its scan begins, so  *)
(* no goroutine is started over one whose cancel function is installed.      *)
WireFresh ==
  /\ \A i \in DOMAIN wire : wire[i] # Cancel =>
       /\ wire[i] <= orders
       /\ scan[wire[i]] = "none"
       /\ \A j \in DOMAIN wire : wire[j] = wire[i] => j = i
  /\ \A n \in Orders : n > orders => scan[n] = "none"

TriesPaid == \A n \in Orders : tries[n] <= faults + 1

(* Rows that still run are the placeholders, and these never hold results:   *)
(* so what cancellation, the cleanup or a late record writes over has none.  *)
RowsTold ==
  /\ \A k \in DOMAIN rows :
       /\ rows[k] \in {"running", "overdue"} => k.try = 0
       /\ rows[k] = "reported" => k.try # 0
  /\ \A k \in stale : k.try = 0

ScanInv == TypeOK /\ QueueInv /\ WireFresh /\ TriesPaid /\ CancelIsLive /\ RowsTold

=============================================================================
