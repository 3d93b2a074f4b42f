-------------------------- MODULE PatchJobs_proofs --------------------------
(***************************************************************************)
(* Theorems about PatchJobs: type correctness, that no work is handed out   *)
(* for a job that has ended, that PatchJobs implements PatchDispatch, that  *)
(* expiry leaves ended jobs alone, and that revivals of ended jobs run dry. *)
(* PatchTruth_proofs builds on them.                                        *)
(***************************************************************************)
EXTENDS PatchJobs, TLAPS

(* A handler that moves to a state of the right shape keeps the handlers'   *)
(* type.                                                                    *)
LEMMA BecomesType ==
  ASSUME TypeOK, NEW r \in Requests, NEW s \in RequestState, Becomes(r, s)
  PROVE  request' \in [Requests -> RequestState]
BY DEF TypeOK, Becomes

(* Where a handler is tells which locals it has: its job, host, policies or *)
(* the update it has decided on.                                            *)
LEMMA RequestShape ==
  ASSUME TypeOK, NEW r \in Requests
  PROVE  /\ request[r] \in RequestState
         /\ request[r].at \in {"cancel", "status_job", "status_commit"} =>
              request[r] \in [at : {"cancel", "status_job", "status_commit"}, job : Jobs]
         /\ request[r].at = "create" =>
              request[r] \in [at : {"create"}, policy : Policies, hosts : SUBSET Hosts]
         /\ request[r].at = "run" =>
              request[r] \in [at : {"run"}, host : Hosts, policies : SUBSET Policies]
         /\ request[r].at = "report_row" =>
              request[r] \in [at : {"report_row"}, job : Jobs, host : Hosts, status : Results, seen : Seen]
         /\ request[r].at = "report_count" =>
              request[r] \in [at : {"report_count"}, job : Jobs, seen : Seen]
         /\ request[r].at \in {"report_skip", "report_commit"} =>
              request[r] \in [at : {"report_skip", "report_commit"}, job : Jobs, update : Updates]
BY DEF TypeOK, RequestState

(* Where an agent's goroutine is tells whether it has a job, and a result.  *)
LEMMA CollectorShape ==
  ASSUME TypeOK, NEW c \in Collectors
  PROVE  /\ collector[c] \in CollectorState
         /\ collector[c].at \in {"offered", "start", "snapshot", "execute"} =>
              collector[c] \in [at : {"offered", "start", "snapshot", "execute"}, job : Jobs]
         /\ collector[c].at \in {"executed", "rebooting"} =>
              collector[c] \in [at : {"executed", "rebooting"}, job : Jobs, result : Results]
BY DEF TypeOK, CollectorState

(* A free slot is a state of a handler and of an agent.                     *)
LEMMA IdleType == Idle \in RequestState /\ Idle \in CollectorState
BY DEF Idle, RequestState, CollectorState

(* Taking a call from the network leaves calls, also when the client sends  *)
(* it again.                                                                *)
LEMMA ReceiveType ==
  ASSUME TypeOK, NEW m \in net, Receive(m)
  PROVE  net' \subseteq Messages
<1>1. m \in Messages
  BY DEF TypeOK
<1>2. Resent(m) \subseteq Messages
  BY <1>1, BoundsAssumption DEF Messages, Resent
<1>3. QED
  BY <1>2 DEF TypeOK, Receive

(* What a step marks as ended or settled are jobs and host rows.            *)
LEMMA RecordEndsType ==
  ASSUME TypeOK, RecordEnds
  PROVE  ended' \subseteq Jobs /\ settled' \subseteq Jobs \X Hosts
BY DEF TypeOK, RecordEnds

(* What an agent sends about its job is a call.                             *)
LEMMA SendType ==
  ASSUME TypeOK, NEW c \in Collectors, NEW s \in AgentStatus, Send(c, s), collector[c].job \in Jobs
  PROVE  net' \subseteq Messages
<1>1. HostOf[c] \in Hosts
  BY CollectorsAssumption
<1>2. MaxSends \in 1 .. MaxSends
  BY BoundsAssumption
<1>3. QED
  BY <1>1, <1>2 DEF TypeOK, Send, Messages

(* The transaction of createPatchJob and createPatchJobsForHost keeps every *)
(* variable in its type.                                                    *)
LEMMA InsertJobType ==
  ASSUME TypeOK, NEW j \in Jobs, NEW p \in Policies, NEW hosts \in SUBSET Hosts,
         InsertJob(j, p, hosts), request' \in [Requests -> RequestState]
  PROVE  TypeOK'
<1>1. policyOf' \in [Jobs -> Policies \cup {"none"}]
  BY DEF TypeOK, InsertJob
<1>2. jobStatus' \in [Jobs -> JobStatus]
  BY DEF TypeOK, InsertJob, JobStatus, ActiveJob
<1>3. rows' \in [Jobs -> [Hosts -> HostStatus]]
  BY DEF TypeOK, InsertJob, HostStatus, ActiveHost
<1>4. ended' \subseteq Jobs /\ settled' \subseteq Jobs \X Hosts
  BY RecordEndsType DEF InsertJob
<1>5. QED
  BY <1>1, <1>2, <1>3, <1>4 DEF TypeOK, InsertJob

(* Skipping the waiting hosts of a job leaves host rows.                    *)
LEMMA SkipPendingType ==
  ASSUME TypeOK, NEW j \in Jobs
  PROVE  SkipPending(j) \in [Jobs -> [Hosts -> HostStatus]]
BY DEF TypeOK, SkipPending, HostStatus

(***************************************************************************)
(* Type correctness: every handler, tick and agent step keeps the rows, the *)
(* handlers' locals and the calls in their types.                           *)
(***************************************************************************)
LEMMA TypeInit == Init => TypeOK
BY IdleType DEF Init, TypeOK, JobStatus, HostStatus

(* One case per action.                                                     *)
LEMMA TypeNext == TypeOK /\ [Next]_vars => TypeOK'
<1> SUFFICES ASSUME TypeOK, [Next]_vars PROVE TypeOK'
  OBVIOUS
<1> USE DEF Requests
<1>1. ASSUME NEW r \in Users, NEW p \in Policies, CreateBegin(r, p) PROVE TypeOK'
  <2>1. PICK work \in SUBSET {h \in Targets[p] : ~Busy(h)} :
          Becomes(r, [at |-> "create", policy |-> p, hosts |-> work])
    BY <1>1 DEF CreateBegin
  <2>2. work \subseteq Hosts
    BY TargetsAssumption
  <2>3. [at |-> "create", policy |-> p, hosts |-> work] \in RequestState
    BY <2>2 DEF RequestState
  <2>4. request' \in [Requests -> RequestState]
    BY <2>1, <2>3, BecomesType
  <2>5. QED
    BY <1>1, <2>4 DEF TypeOK, CreateBegin, database, history
<1>2. ASSUME NEW r \in Users, NEW h \in Hosts, RunBegin(r, h) PROVE TypeOK'
  <2>1. PICK ps \in SUBSET {p \in Policies : policies[p] = "enabled" /\ h \in Targets[p]} :
          Becomes(r, [at |-> "run", host |-> h, policies |-> ps])
    BY <1>2 DEF RunBegin
  <2>2. [at |-> "run", host |-> h, policies |-> ps] \in RequestState
    BY DEF RequestState
  <2>3. request' \in [Requests -> RequestState]
    BY <2>1, <2>2, BecomesType
  <2>4. QED
    BY <1>2, <2>3 DEF TypeOK, RunBegin, database, history
<1>3. ASSUME NEW r \in Users, NEW j \in Jobs, CancelBegin(r, j) PROVE TypeOK'
  <2>1. [at |-> "cancel", job |-> j] \in RequestState
    BY DEF RequestState
  <2>2. request' \in [Requests -> RequestState]
    BY <1>3, <2>1, BecomesType DEF CancelBegin
  <2>3. QED
    BY <1>3, <2>2 DEF TypeOK, CancelBegin, database, history
<1>4. ASSUME NEW p \in Policies, TogglePolicy(p) PROVE TypeOK'
  BY <1>4 DEF TypeOK, TogglePolicy, history
<1>5. ASSUME NEW p \in Policies, DeletePolicy(p) PROVE TypeOK'
  <2>1. ended' \subseteq Jobs /\ settled' \subseteq Jobs \X Hosts
    BY <1>5, RecordEndsType DEF DeletePolicy
  <2>2. jobStatus' \in [Jobs -> JobStatus]
    BY <1>5 DEF TypeOK, DeletePolicy, JobStatus, FinishedJob
  <2>3. rows' \in [Jobs -> [Hosts -> HostStatus]]
    BY <1>5 DEF TypeOK, DeletePolicy, HostStatus
  <2>4. QED
    BY <1>5, <2>1, <2>2, <2>3 DEF TypeOK, DeletePolicy
<1>6. ASSUME NEW m \in net, NEW r \in Calls, StatusUpdateRow(r, m) PROVE TypeOK'
  <2>1. m \in Messages
    BY DEF TypeOK
  <2>2. rows' \in [Jobs -> [Hosts -> HostStatus]]
    BY <1>6, <2>1 DEF TypeOK, StatusUpdateRow, Messages, AgentStatus, HostStatus, ActiveHost
  <2>3. [at |-> "status_job", job |-> m.job] \in RequestState
    BY <2>1 DEF RequestState, Messages
  <2>4. request' \in [Requests -> RequestState]
    BY <1>6, <2>3, BecomesType DEF StatusUpdateRow
  <2>5. ended' \subseteq Jobs /\ settled' \subseteq Jobs \X Hosts
    BY <1>6, RecordEndsType DEF StatusUpdateRow
  <2>6. net' \subseteq Messages
    BY <1>6, ReceiveType DEF StatusUpdateRow
  <2>7. QED
    BY <1>6, <2>2, <2>4, <2>5, <2>6 DEF TypeOK, StatusUpdateRow
<1>7. ASSUME NEW m \in net, NEW r \in Calls, ReportBegin(r, m) PROVE TypeOK'
  <2>1. m \in Messages
    BY DEF TypeOK
  <2>2. SeenAs(jobStatus[m.job]) \in Seen
    BY DEF SeenAs, Seen
  <2>3. [at |-> "report_row", job |-> m.job, host |-> m.host, status |-> m.status,
         seen |-> SeenAs(jobStatus[m.job])] \in RequestState
    BY <1>7, <2>1, <2>2 DEF RequestState, Messages, ReportBegin
  <2>4. request' \in [Requests -> RequestState]
    BY <1>7, <2>3, BecomesType DEF ReportBegin
  <2>5. net' \subseteq Messages
    BY <1>7, ReceiveType DEF ReportBegin
  <2>6. QED
    BY <1>7, <2>4, <2>5 DEF TypeOK, ReportBegin, database, history
<1>8. ASSUME NEW m \in net, CallRefused(m) \/ CallLost(m) PROVE TypeOK'
  <2>1. net' \subseteq Messages
    BY <1>8, ReceiveType DEF CallRefused, CallLost, TypeOK
  <2>2. QED
    BY <1>8, <2>1 DEF TypeOK, CallRefused, CallLost, database, history
<1>9. ASSUME NEW r \in Requests, NEW j \in Jobs, CreateCommit(r, j) PROVE TypeOK'
  <2>1. request' \in [Requests -> RequestState]
    BY <1>9, IdleType, BecomesType DEF CreateCommit
  <2>2. request[r].policy \in Policies /\ request[r].hosts \in SUBSET Hosts
    BY <1>9, RequestShape DEF CreateCommit
  <2>3. QED
    BY <1>9, <2>1, <2>2, InsertJobType DEF CreateCommit
<1>10. ASSUME NEW r \in Requests, NEW j \in Jobs, RunCommit(r, j) PROVE TypeOK'
  <2>1. PICK p \in request[r].policies :
          LET left == request[r].policies \ {p} IN
            /\ InsertJob(j, p, {request[r].host})
            /\ Becomes(r, IF left = {} THEN Idle ELSE [request[r] EXCEPT !.policies = left])
    BY <1>10 DEF RunCommit
  <2>2. request[r] \in [at : {"run"}, host : Hosts, policies : SUBSET Policies]
    BY <1>10, RequestShape DEF RunCommit
  <2>3. [request[r] EXCEPT !.policies = request[r].policies \ {p}] \in RequestState
    BY <2>2 DEF RequestState
  <2>4. request' \in [Requests -> RequestState]
    BY <2>1, <2>3, IdleType, BecomesType
  <2>5. QED
    BY <2>1, <2>2, <2>4, InsertJobType
<1>11. ASSUME NEW r \in Requests, CancelCommit(r) PROVE TypeOK'
  <2>1. request[r].job \in Jobs
    BY <1>11, RequestShape DEF CancelCommit
  <2>2. rows' \in [Jobs -> [Hosts -> HostStatus]]
    BY <1>11, <2>1, SkipPendingType DEF CancelCommit
  <2>3. jobStatus' \in [Jobs -> JobStatus]
    BY <1>11, <2>1 DEF TypeOK, CancelCommit, JobStatus, FinishedJob, TerminalJob
  <2>4. request' \in [Requests -> RequestState]
    BY <1>11, IdleType, BecomesType DEF CancelCommit
  <2>5. ended' \subseteq Jobs /\ settled' \subseteq Jobs \X Hosts
    BY <1>11, RecordEndsType DEF CancelCommit
  <2>6. QED
    BY <1>11, <2>2, <2>3, <2>4, <2>5 DEF TypeOK, CancelCommit
<1>12. ASSUME NEW r \in Requests, StatusReadJob(r) PROVE TypeOK'
  <2>1. request[r] \in [at : {"cancel", "status_job", "status_commit"}, job : Jobs]
    BY <1>12, RequestShape DEF StatusReadJob
  <2>2. [request[r] EXCEPT !.at = "status_commit"] \in RequestState
    BY <2>1 DEF RequestState
  <2>3. request' \in [Requests -> RequestState]
    BY <1>12, <2>2, IdleType, BecomesType DEF StatusReadJob
  <2>4. QED
    BY <1>12, <2>3 DEF TypeOK, StatusReadJob, database, history
<1>13. ASSUME NEW r \in Requests, StatusCommit(r) PROVE TypeOK'
  <2>1. request' \in [Requests -> RequestState]
    BY <1>13, IdleType, BecomesType DEF StatusCommit
  <2>2. ended' \subseteq Jobs /\ settled' \subseteq Jobs \X Hosts
    BY <1>13, RecordEndsType DEF StatusCommit
  <2>3. jobStatus' \in [Jobs -> JobStatus]
    BY <1>13 DEF TypeOK, StatusCommit, JobStatus, ActiveJob
  <2>4. QED
    BY <1>13, <2>1, <2>2, <2>3 DEF TypeOK, StatusCommit
<1>14. ASSUME NEW r \in Requests, ReportUpdateRow(r) PROVE TypeOK'
  <2>1. request[r] \in [at : {"report_row"}, job : Jobs, host : Hosts, status : Results, seen : Seen]
    BY <1>14, RequestShape DEF ReportUpdateRow
  <2>2. rows' \in [Jobs -> [Hosts -> HostStatus]]
    BY <1>14, <2>1 DEF TypeOK, ReportUpdateRow, HostStatus
  <2>3. [at |-> "report_count", job |-> request[r].job, seen |-> request[r].seen] \in RequestState
    BY <2>1 DEF RequestState
  <2>4. request' \in [Requests -> RequestState]
    BY <1>14, <2>3, BecomesType DEF ReportUpdateRow
  <2>5. ended' \subseteq Jobs /\ settled' \subseteq Jobs \X Hosts
    BY <1>14, RecordEndsType DEF ReportUpdateRow
  <2>6. QED
    BY <1>14, <2>2, <2>4, <2>5 DEF TypeOK, ReportUpdateRow
<1>15. ASSUME NEW r \in Requests, ReportCount(r) PROVE TypeOK'
  <2>1. request[r] \in [at : {"report_count"}, job : Jobs, seen : Seen]
    BY <1>15, RequestShape DEF ReportCount
  <2>2. ReportedStatus(request[r].job, request[r].seen) \in Updates
    BY DEF ReportedStatus, Verdict, Updates
  <2>3. \A at \in {"report_skip", "report_commit"} :
          [at |-> at, job |-> request[r].job,
           update |-> ReportedStatus(request[r].job, request[r].seen)] \in RequestState
    BY <2>1, <2>2 DEF RequestState
  <2>4. request' \in [Requests -> RequestState]
    BY <1>15, <2>3, BecomesType DEF ReportCount
  <2>5. QED
    BY <1>15, <2>4 DEF TypeOK, ReportCount, database, history
<1>16. ASSUME NEW r \in Requests, ReportSkip(r) PROVE TypeOK'
  <2>1. request[r] \in [at : {"report_skip", "report_commit"}, job : Jobs, update : Updates]
    BY <1>16, RequestShape DEF ReportSkip
  <2>2. [request[r] EXCEPT !.at = "report_commit"] \in RequestState
    BY <2>1 DEF RequestState
  <2>3. request' \in [Requests -> RequestState]
    BY <1>16, <2>2, BecomesType DEF ReportSkip
  <2>4. rows' \in [Jobs -> [Hosts -> HostStatus]]
    BY <1>16, <2>1, SkipPendingType DEF ReportSkip
  <2>5. ended' \subseteq Jobs /\ settled' \subseteq Jobs \X Hosts
    BY <1>16, RecordEndsType DEF ReportSkip
  <2>6. QED
    BY <1>16, <2>3, <2>4, <2>5 DEF TypeOK, ReportSkip
<1>17. ASSUME NEW r \in Requests, ReportCommit(r) PROVE TypeOK'
  <2>1. request[r] \in [at : {"report_skip", "report_commit"}, job : Jobs, update : Updates]
    BY <1>17, RequestShape DEF ReportCommit
  <2>2. jobStatus' \in [Jobs -> JobStatus]
    BY <1>17, <2>1 DEF TypeOK, ReportCommit, Updates, JobStatus, ActiveJob, FinishedJob, TerminalJob
  <2>3. request' \in [Requests -> RequestState]
    BY <1>17, IdleType, BecomesType DEF ReportCommit
  <2>4. ended' \subseteq Jobs /\ settled' \subseteq Jobs \X Hosts
    BY <1>17, RecordEndsType DEF ReportCommit
  <2>5. QED
    BY <1>17, <2>2, <2>3, <2>4 DEF TypeOK, ReportCommit
<1>18. ASSUME NEW r \in Requests, RequestFails(r) PROVE TypeOK'
  <2>1. request' \in [Requests -> RequestState]
    BY <1>18, IdleType, BecomesType DEF RequestFails
  <2>2. QED
    BY <1>18, <2>1 DEF TypeOK, RequestFails, database, history
<1>19. ASSUME ScanStale PROVE TypeOK'
  BY <1>19 DEF TypeOK, ScanStale, database, history
<1>20. ASSUME NEW j \in Jobs, ExpireJob(j) PROVE TypeOK'
  <2>1. jobStatus' \in [Jobs -> JobStatus]
    BY <1>20 DEF TypeOK, ExpireJob, JobStatus, FinishedJob, TerminalJob
  <2>2. rows' \in [Jobs -> [Hosts -> HostStatus]]
    BY <1>20 DEF TypeOK, ExpireJob, ExpireRows, HostStatus, Results
  <2>3. ended' \subseteq Jobs /\ settled' \subseteq Jobs \X Hosts
    BY <1>20, RecordEndsType DEF ExpireJob
  <2>4. QED
    BY <1>20, <2>1, <2>2, <2>3 DEF TypeOK, ExpireJob
<1>21. ASSUME NEW j \in Jobs, ExpireSkips(j) PROVE TypeOK'
  BY <1>21 DEF TypeOK, ExpireSkips, database, history
<1>22. ASSUME NEW j \in Jobs, TimePasses(j) PROVE TypeOK'
  BY <1>22 DEF TypeOK, TimePasses, database, history
<1>23. ASSUME ServerCrash PROVE TypeOK'
  BY <1>23, IdleType DEF TypeOK, ServerCrash, database, history
<1>24. ASSUME NEW c \in Collectors, Fetch(c) PROVE TypeOK'
  <2>1. PICK j \in Jobs : collector' = [collector EXCEPT ![c] = [at |-> "offered", job |-> j]]
    BY <1>24 DEF Fetch, Offered
  <2>2. [at |-> "offered", job |-> j] \in CollectorState
    BY DEF CollectorState
  <2>3. QED
    BY <1>24, <2>1, <2>2 DEF TypeOK, Fetch, database, history
<1>25. ASSUME NEW c \in Collectors, SendDownloading(c) \/ SendInstalling(c) PROVE TypeOK'
  <2>1. collector[c] \in [at : {"offered", "start", "snapshot", "execute"}, job : Jobs]
    BY <1>25, CollectorShape DEF SendDownloading, SendInstalling
  <2>2. net' \subseteq Messages
    BY <1>25, <2>1, SendType DEF SendDownloading, SendInstalling, AgentStatus
  <2>3. \A at \in {"snapshot", "execute"} : [collector[c] EXCEPT !.at = at] \in CollectorState
    BY <2>1 DEF CollectorState
  <2>4. collector' \in [Collectors -> CollectorState]
    BY <1>25, <2>3 DEF TypeOK, SendDownloading, SendInstalling
  <2>5. QED
    BY <1>25, <2>2, <2>4 DEF TypeOK, SendDownloading, SendInstalling, database, history
<1>26. ASSUME NEW c \in Collectors, Execute(c) PROVE TypeOK'
  <2>1. collector[c] \in [at : {"offered", "start", "snapshot", "execute"}, job : Jobs]
    BY <1>26, CollectorShape DEF Execute
  <2>2. PICK result \in Outcomes :
          /\ collector' = [collector EXCEPT ![c] = [at |-> "executed", job |-> collector[c].job,
                                                    result |-> result]]
          /\ settled' = IF result = "completed"
                          THEN settled \cup {<<collector[c].job, HostOf[c]>>}
                          ELSE settled
    BY <1>26 DEF Execute
  <2>3. [at |-> "executed", job |-> collector[c].job, result |-> result] \in CollectorState
    BY <2>1, InputsAssumption DEF CollectorState, Results
  <2>4. settled' \subseteq Jobs \X Hosts
    <3>1. collector[c].job \in Jobs /\ HostOf[c] \in Hosts
      BY <2>1, CollectorsAssumption
    <3>2. QED
      BY <2>2, <3>1 DEF TypeOK
  <2>5. QED
    BY <1>26, <2>2, <2>3, <2>4 DEF TypeOK, Execute, database
<1>27. ASSUME NEW c \in Collectors, SendRebooting(c) \/ SendPatchReport(c) PROVE TypeOK'
  <2>1. collector[c] \in [at : {"executed", "rebooting"}, job : Jobs, result : Results]
    BY <1>27, CollectorShape DEF SendRebooting, SendPatchReport
  <2>2. net' \subseteq Messages
    BY <1>27, <2>1, SendType DEF SendRebooting, SendPatchReport, AgentStatus
  <2>3. [collector[c] EXCEPT !.at = "rebooting"] \in CollectorState
    BY <2>1 DEF CollectorState
  <2>4. collector' \in [Collectors -> CollectorState]
    BY <1>27, <2>3, IdleType DEF TypeOK, SendRebooting, SendPatchReport
  <2>5. QED
    BY <1>27, <2>2, <2>4 DEF TypeOK, SendRebooting, SendPatchReport, database, history
<1>28. ASSUME NEW h \in Hosts, AgentCrash(h) PROVE TypeOK'
  BY <1>28, IdleType DEF TypeOK, AgentCrash, database, history
<1>29. ASSUME NEW c \in Collectors, Start(c) \/ OfferLost(c) PROVE TypeOK'
  <2>1. collector[c] \in [at : {"offered", "start", "snapshot", "execute"}, job : Jobs]
    BY <1>29, CollectorShape DEF Start, OfferLost
  <2>2. [collector[c] EXCEPT !.at = "start"] \in CollectorState
    BY <2>1 DEF CollectorState
  <2>3. collector' \in [Collectors -> CollectorState]
    BY <1>29, <2>2, IdleType DEF TypeOK, Start, OfferLost
  <2>4. QED
    BY <1>29, <2>3 DEF TypeOK, Start, OfferLost, database, history
<1>30. CASE UNCHANGED vars
  BY <1>30 DEF TypeOK, vars, database, history
<1>31. QED
  BY <1>1, <1>2, <1>3, <1>4, <1>5, <1>6, <1>7, <1>8, <1>9, <1>10, <1>11, <1>12, <1>13, <1>14,
     <1>15, <1>16, <1>17, <1>18, <1>19, <1>20, <1>21, <1>22, <1>23, <1>24, <1>25, <1>26, <1>27,
     <1>28, <1>29, <1>30
     DEF Next, UserStep, CallStep, HandlerStep, TickStep, AgentStep

(* Every variable keeps its type, whatever the numbers of hosts, jobs,      *)
(* policies, handlers in flight, retries and crashes: no handler leaves a   *)
(* status in a job or a host row that the schema does not list, or moves on *)
(* without the locals its next query needs.                                 *)
THEOREM TypeCorrect == Spec => []TypeOK
<1>1. Init => TypeOK
  BY TypeInit
<1>2. TypeOK /\ [Next]_vars => TypeOK'
  BY TypeNext
<1>3. QED
  BY <1>1, <1>2, PTL DEF Spec
-----------------------------------------------------------------------------
(***************************************************************************)
(* No work after the end.  First the parts of DispatchInv beside TypeOK,    *)
(* under a name of their own: TypeNext has already taken care of TypeOK.    *)
(***************************************************************************)
OfferParts ==
  EndsRecorded /\ UnbornIsBlank /\ HandlersKnowTheirJob /\ ClosingHasNoOffer /\ NoOfferAfterEnd

(* A step that leaves jobs and rows alone keeps OfferParts if the handler   *)
(* it moves, if any, knows its job and is not about to end it.              *)
LEMMA OnlyHandlerMoves ==
  ASSUME DispatchInv, TypeOK', NEW r \in Requests, NEW s \in RequestState, Becomes(r, s),
         UNCHANGED <<jobStatus, rows, ended>>,
         s.at \notin {"idle", "create", "run"} => jobStatus[s.job] # "none",
         s.at = "report_commit" /\ s.update \in TerminalJob =>
           \A h \in Hosts : rows[s.job][h] # "pending"
  PROVE  OfferParts'
<1>1. \A q \in Requests : request'[q] = IF q = r THEN s ELSE request[q]
  BY DEF Becomes, DispatchInv, TypeOK
<1>2. EndsRecorded' /\ UnbornIsBlank' /\ NoOfferAfterEnd'
  BY DEF DispatchInv, EndsRecorded, UnbornIsBlank, NoOfferAfterEnd
<1>3. HandlersKnowTheirJob'
  BY <1>1 DEF DispatchInv, HandlersKnowTheirJob
<1>4. ClosingHasNoOffer'
  BY <1>1 DEF DispatchInv, ClosingHasNoOffer
<1>5. QED
  BY <1>2, <1>3, <1>4 DEF OfferParts

(* A step that touches no handler, job or row keeps OfferParts.             *)
LEMMA NothingMoves ==
  ASSUME DispatchInv, UNCHANGED <<jobStatus, rows, ended, request>>
  PROVE  OfferParts'
BY DEF DispatchInv, OfferParts, EndsRecorded, UnbornIsBlank, HandlersKnowTheirJob,
       ClosingHasNoOffer, NoOfferAfterEnd

(* A step that writes job j and its rows keeps OfferParts if it makes no    *)
(* offer, leaves no offer in a job it ends, and its own handler goes back   *)
(* to a state in which it will not end a job that still has offers.         *)
LEMMA JobMoves ==
  ASSUME DispatchInv, TypeOK', RecordEnds, NEW j \in Jobs, jobStatus[j] # "none",
         jobStatus'[j] # "none",
         \A k \in Jobs \ {j} : jobStatus'[k] = jobStatus[k] /\ rows'[k] = rows[k],
         \A h \in Hosts : rows'[j][h] = "pending" => rows[j][h] = "pending",
         jobStatus'[j] \in FinishedJob =>
           j \in ended \/ \A h \in Hosts : rows'[j][h] # "pending",
         \A q \in Requests :
           \/ request'[q] = request[q]
           \/ request'[q].at \in {"idle", "create", "run"}
           \/ /\ request'[q].at \in {"status_job", "report_count"} /\ request'[q].job = j
           \/ /\ request'[q].at = "report_commit" /\ request'[q].job = j
              /\ \A h \in Hosts : rows'[j][h] # "pending"
  PROVE  OfferParts'
<1>1. ended' = ended \cup {k \in Jobs : jobStatus'[k] \in FinishedJob}
  BY DEF RecordEnds
<1>2. EndsRecorded'
  BY <1>1 DEF EndsRecorded
<1>3. UnbornIsBlank'
  <2>1. SUFFICES ASSUME NEW k \in Jobs, jobStatus'[k] = "none"
                 PROVE  k \notin ended' /\ \A h \in Hosts : rows'[k][h] = "none"
    BY DEF UnbornIsBlank
  <2>2. k # j /\ jobStatus[k] = "none" /\ rows'[k] = rows[k]
    BY <2>1
  <2>3. "none" \notin FinishedJob
    BY DEF FinishedJob, TerminalJob
  <2>4. QED
    BY <1>1, <2>1, <2>2, <2>3 DEF DispatchInv, UnbornIsBlank
<1>4. NoOfferAfterEnd'
  <2>1. SUFFICES ASSUME NEW k \in ended', NEW h \in Hosts, rows'[k][h] = "pending" PROVE FALSE
    BY DEF NoOfferAfterEnd
  <2>2. k \in Jobs
    BY DEF TypeOK
  <2>3. CASE k = j
    BY <1>1, <2>1, <2>3 DEF DispatchInv, NoOfferAfterEnd
  <2>4. CASE k # j
    BY <1>1, <2>1, <2>2, <2>4 DEF DispatchInv, NoOfferAfterEnd, EndsRecorded
  <2>5. QED
    BY <2>3, <2>4
<1>5. HandlersKnowTheirJob'
  <2>1. SUFFICES ASSUME NEW q \in Requests, request'[q].at \notin {"idle", "create", "run"}
                 PROVE  jobStatus'[request'[q].job] # "none"
    BY DEF HandlersKnowTheirJob
  <2>2. CASE request'[q] = request[q]
    <3>1. request[q].job \in Jobs /\ jobStatus[request[q].job] # "none"
      BY <2>1, <2>2, RequestShape DEF DispatchInv, HandlersKnowTheirJob, RequestState
    <3>2. QED
      BY <2>2, <3>1
  <2>3. CASE request'[q] # request[q]
    BY <2>1, <2>3
  <2>4. QED
    BY <2>2, <2>3
<1>6. ClosingHasNoOffer'
  <2>1. SUFFICES ASSUME NEW q \in Requests, NEW h \in Hosts,
                        request'[q].at = "report_commit", request'[q].update \in TerminalJob,
                        rows'[request'[q].job][h] = "pending"
                 PROVE  FALSE
    BY DEF ClosingHasNoOffer
  <2>2. CASE request'[q] = request[q]
    <3>1. request[q].job \in Jobs
      BY <2>1, <2>2, RequestShape DEF DispatchInv
    <3>2. rows[request[q].job][h] = "pending"
      BY <2>1, <2>2, <3>1
    <3>3. QED
      BY <2>1, <2>2, <3>2 DEF DispatchInv, ClosingHasNoOffer
  <2>3. CASE request'[q] # request[q]
    BY <2>1, <2>3
  <2>4. QED
    BY <2>2, <2>3
<1>7. QED
  BY <1>2, <1>3, <1>4, <1>5, <1>6 DEF OfferParts

(* Creating a job makes offers, but only in a job that never existed, so    *)
(* no handler is about to end it and it has not ended.                      *)
LEMMA JobIsBorn ==
  ASSUME DispatchInv, TypeOK', NEW j \in Jobs, NEW p, NEW hosts, InsertJob(j, p, hosts),
         \A q \in Requests : request'[q] = request[q] \/ request'[q].at \in {"idle", "create", "run"}
  PROVE  OfferParts'
<1>1. /\ jobStatus[j] = "none"
      /\ jobStatus'[j] = "pending"
      /\ \A k \in Jobs \ {j} : jobStatus'[k] = jobStatus[k] /\ rows'[k] = rows[k]
      /\ ended' = ended \cup {k \in Jobs : jobStatus'[k] \in FinishedJob}
  BY DEF InsertJob, FreshJob, RecordEnds, DispatchInv, TypeOK
<1>2. {"none", "pending"} \cap FinishedJob = {}
  BY DEF FinishedJob, TerminalJob
<1>3. ended' = ended
  BY <1>1, <1>2 DEF DispatchInv, EndsRecorded, TypeOK
<1>4. EndsRecorded'
  BY <1>1 DEF EndsRecorded
<1>5. UnbornIsBlank'
  BY <1>1, <1>3 DEF DispatchInv, UnbornIsBlank
<1>6. NoOfferAfterEnd'
  BY <1>1, <1>3 DEF DispatchInv, NoOfferAfterEnd, UnbornIsBlank, TypeOK
<1>7. \A q \in Requests : request'[q].at \notin {"idle", "create", "run"} =>
        /\ request'[q] = request[q]
        /\ request[q].job \in Jobs
        /\ jobStatus[request[q].job] # "none"
  BY RequestShape DEF DispatchInv, HandlersKnowTheirJob, RequestState
<1>8. HandlersKnowTheirJob'
  BY <1>1, <1>7 DEF HandlersKnowTheirJob
<1>9. ClosingHasNoOffer'
  BY <1>1, <1>7 DEF DispatchInv, ClosingHasNoOffer
<1>10. QED
  BY <1>4, <1>5, <1>6, <1>8, <1>9 DEF OfferParts

(* Nothing exists at first, so the invariant holds.                         *)
LEMMA DispatchInit == Init => DispatchInv
<1> SUFFICES ASSUME Init PROVE DispatchInv
  OBVIOUS
<1>1. TypeOK
  BY TypeInit
<1>2. QED
  BY <1>1 DEF Init, DispatchInv, EndsRecorded, UnbornIsBlank, HandlersKnowTheirJob,
              ClosingHasNoOffer, NoOfferAfterEnd, Idle, FinishedJob, TerminalJob

(* Every step keeps the invariant: one case per action of PatchJobs.        *)
LEMMA DispatchNext == DispatchInv /\ [Next]_vars => DispatchInv'
<1> SUFFICES ASSUME DispatchInv, [Next]_vars PROVE DispatchInv'
  OBVIOUS
<1>1. TypeOK /\ TypeOK'
  BY TypeNext DEF DispatchInv
<1>2. SUFFICES OfferParts'
  BY <1>1 DEF OfferParts, DispatchInv
<1> USE <1>1 DEF Requests
<1>3. ASSUME NEW r \in Users, NEW p \in Policies, CreateBegin(r, p) PROVE OfferParts'
  <2>1. PICK work \in SUBSET {h \in Targets[p] : ~Busy(h)} :
          Becomes(r, [at |-> "create", policy |-> p, hosts |-> work])
    BY <1>3 DEF CreateBegin
  <2>2. [at |-> "create", policy |-> p, hosts |-> work] \in RequestState
    BY TargetsAssumption DEF RequestState
  <2>3. QED
    BY <1>3, <2>1, <2>2, OnlyHandlerMoves DEF CreateBegin, database, history
<1>4. ASSUME NEW r \in Users, NEW h \in Hosts, RunBegin(r, h) PROVE OfferParts'
  <2>1. PICK ps \in SUBSET Policies : Becomes(r, [at |-> "run", host |-> h, policies |-> ps])
    BY <1>4 DEF RunBegin
  <2>2. [at |-> "run", host |-> h, policies |-> ps] \in RequestState
    BY DEF RequestState
  <2>3. QED
    BY <1>4, <2>1, <2>2, OnlyHandlerMoves DEF RunBegin, database, history
<1>5. ASSUME NEW r \in Users, NEW j \in Jobs, CancelBegin(r, j) PROVE OfferParts'
  <2>1. [at |-> "cancel", job |-> j] \in RequestState
    BY DEF RequestState
  <2>2. jobStatus[j] # "none"
    BY <1>5 DEF CancelBegin, ActiveJob
  <2>3. QED
    BY <1>5, <2>1, <2>2, OnlyHandlerMoves DEF CancelBegin, database, history
<1>6. ASSUME NEW p \in Policies, TogglePolicy(p) PROVE OfferParts'
  BY <1>6, NothingMoves DEF TogglePolicy, history
<1>7. ASSUME NEW p \in Policies, DeletePolicy(p) PROVE OfferParts'
  <2>1. /\ request' = request
        /\ ended' = ended \cup {k \in Jobs : jobStatus'[k] \in FinishedJob}
        /\ \A k \in JobsOf(p) : jobStatus'[k] = "deleted" /\ rows'[k] = [h \in Hosts |-> "none"]
        /\ \A k \in Jobs \ JobsOf(p) : jobStatus'[k] = jobStatus[k] /\ rows'[k] = rows[k]
        /\ \A k \in JobsOf(p) : k \in Jobs /\ jobStatus[k] # "none"
    BY <1>7 DEF DeletePolicy, RecordEnds, JobsOf, Exists, TypeOK
  <2>2. "none" \notin FinishedJob
    BY DEF FinishedJob, TerminalJob
  <2>3. \A k \in Jobs : jobStatus'[k] = "none" <=> jobStatus[k] = "none"
    BY <2>1
  <2>4. \A k \in Jobs, h \in Hosts : rows'[k][h] = "pending" =>
          rows[k][h] = "pending" /\ rows'[k] = rows[k] /\ jobStatus'[k] = jobStatus[k]
    BY <2>1
  <2>5. EndsRecorded'
    BY <2>1 DEF EndsRecorded
  <2>6. UnbornIsBlank'
    BY <2>1, <2>2, <2>3 DEF DispatchInv, UnbornIsBlank
  <2>7. NoOfferAfterEnd'
    BY <2>1, <2>4 DEF DispatchInv, EndsRecorded, NoOfferAfterEnd, TypeOK
  <2>8. \A r \in Requests : request[r].at \notin {"idle", "create", "run"} => request[r].job \in Jobs
    BY RequestShape DEF RequestState
  <2>9. HandlersKnowTheirJob'
    BY <2>1, <2>3, <2>8 DEF DispatchInv, HandlersKnowTheirJob
  <2>10. ClosingHasNoOffer'
    BY <2>1, <2>4, <2>8 DEF DispatchInv, ClosingHasNoOffer
  <2>11. QED
    BY <2>5, <2>6, <2>7, <2>9, <2>10 DEF OfferParts
<1>8. ASSUME NEW m \in net, NEW r \in Calls, StatusUpdateRow(r, m) PROVE OfferParts'
  <2>1. m \in Messages
    BY DEF TypeOK
  <2>2. m.job \in Jobs /\ m.host \in Hosts /\ m.status = "working"
    BY <1>8, <2>1 DEF StatusUpdateRow, Messages, AgentStatus
  <2>3. jobStatus[m.job] # "none"
    BY <1>8, <2>2 DEF StatusUpdateRow, DispatchInv, UnbornIsBlank
  <2>4. \A h \in Hosts : rows'[m.job][h] = "pending" => rows[m.job][h] = "pending"
    BY <1>8, <2>2 DEF StatusUpdateRow, TypeOK
  <2>5. \A k \in Jobs \ {m.job} : jobStatus'[k] = jobStatus[k] /\ rows'[k] = rows[k]
    BY <1>8, <2>2 DEF StatusUpdateRow, TypeOK
  <2>6. jobStatus'[m.job] \in FinishedJob => m.job \in ended
    BY <1>8, <2>2 DEF StatusUpdateRow, DispatchInv, EndsRecorded
  <2>7. \A q \in Requests : request'[q] = request[q]
          \/ (request'[q].at = "status_job" /\ request'[q].job = m.job)
    BY <1>8 DEF StatusUpdateRow, Becomes, TypeOK
  <2>8. RecordEnds /\ jobStatus' = jobStatus
    BY <1>8 DEF StatusUpdateRow
  <2>9. QED
    BY <2>2, <2>3, <2>4, <2>5, <2>6, <2>7, <2>8, JobMoves
<1>9. ASSUME NEW m \in net, NEW r \in Calls, ReportBegin(r, m) PROVE OfferParts'
  <2>1. m \in Messages
    BY DEF TypeOK
  <2>2. [at |-> "report_row", job |-> m.job, host |-> m.host, status |-> m.status,
         seen |-> SeenAs(jobStatus[m.job])] \in RequestState
    BY <1>9, <2>1 DEF RequestState, Messages, ReportBegin, SeenAs, Seen
  <2>3. jobStatus[m.job] # "none"
    BY <1>9, <2>1 DEF ReportBegin, Messages, DispatchInv, UnbornIsBlank
  <2>4. QED
    BY <1>9, <2>2, <2>3, OnlyHandlerMoves DEF ReportBegin, database, history
<1>10. ASSUME NEW m \in net, CallRefused(m) \/ CallLost(m) PROVE OfferParts'
  BY <1>10, NothingMoves DEF CallRefused, CallLost, database, history
<1>11. ASSUME NEW r \in Requests, NEW j \in Jobs, CreateCommit(r, j) PROVE OfferParts'
  <2>1. \A q \in Requests : request'[q] = request[q] \/ request'[q].at = "idle"
    BY <1>11 DEF CreateCommit, Becomes, Idle, TypeOK
  <2>2. QED
    BY <1>11, <2>1, JobIsBorn DEF CreateCommit
<1>12. ASSUME NEW r \in Requests, NEW j \in Jobs, RunCommit(r, j) PROVE OfferParts'
  <2>1. PICK p \in request[r].policies :
          LET left == request[r].policies \ {p} IN
            /\ InsertJob(j, p, {request[r].host})
            /\ Becomes(r, IF left = {} THEN Idle ELSE [request[r] EXCEPT !.policies = left])
    BY <1>12 DEF RunCommit
  <2>2. request[r] \in [at : {"run"}, host : Hosts, policies : SUBSET Policies]
    BY <1>12, RequestShape DEF RunCommit
  <2>3. \A q \in Requests : request'[q] = request[q] \/ request'[q].at \in {"idle", "run"}
    BY <2>1, <2>2 DEF Becomes, Idle, TypeOK
  <2>4. QED
    BY <2>1, <2>3, JobIsBorn
<1>13. ASSUME NEW r \in Requests, CancelCommit(r) PROVE OfferParts'
  <2>1. request[r].job \in Jobs /\ jobStatus[request[r].job] # "none"
    BY <1>13, RequestShape DEF CancelCommit, Exists
  <2>2. \A h \in Hosts : rows'[request[r].job][h] # "pending"
    BY <1>13, <2>1 DEF CancelCommit, SkipPending, TypeOK
  <2>3. \A k \in Jobs \ {request[r].job} : jobStatus'[k] = jobStatus[k] /\ rows'[k] = rows[k]
    BY <1>13, <2>1 DEF CancelCommit, SkipPending, TypeOK
  <2>4. jobStatus'[request[r].job] = "cancelled"
    BY <1>13, <2>1 DEF CancelCommit, TypeOK
  <2>5. \A q \in Requests : request'[q] = request[q] \/ request'[q].at = "idle"
    BY <1>13 DEF CancelCommit, Becomes, Idle, TypeOK
  <2>6. RecordEnds
    BY <1>13 DEF CancelCommit
  <2>7. QED
    BY <2>1, <2>2, <2>3, <2>4, <2>5, <2>6, JobMoves
<1>14. ASSUME NEW r \in Requests, StatusReadJob(r) PROVE OfferParts'
  <2>1. request[r] \in [at : {"cancel", "status_job", "status_commit"}, job : Jobs]
    BY <1>14, RequestShape DEF StatusReadJob
  <2>2. [request[r] EXCEPT !.at = "status_commit"] \in RequestState
    BY <2>1 DEF RequestState
  <2>3. jobStatus[request[r].job] # "none"
    BY <1>14 DEF StatusReadJob, DispatchInv, HandlersKnowTheirJob
  <2>4. CASE Becomes(r, [request[r] EXCEPT !.at = "status_commit"])
    BY <1>14, <2>1, <2>2, <2>3, <2>4, OnlyHandlerMoves DEF StatusReadJob, database, history
  <2>5. CASE Becomes(r, Idle)
    BY <1>14, <2>5, IdleType, OnlyHandlerMoves DEF StatusReadJob, Idle, database, history
  <2>6. QED
    BY <1>14, <2>4, <2>5 DEF StatusReadJob
<1>15. ASSUME NEW r \in Requests, StatusCommit(r) PROVE OfferParts'
  <2>1. request[r].job \in Jobs /\ jobStatus[request[r].job] # "none"
    BY <1>15, RequestShape DEF StatusCommit, Exists
  <2>2. rows' = rows /\ RecordEnds
    BY <1>15 DEF StatusCommit
  <2>3. \A k \in Jobs \ {request[r].job} : jobStatus'[k] = jobStatus[k]
    BY <1>15, <2>1 DEF StatusCommit, TypeOK
  <2>4. jobStatus'[request[r].job] = "running" /\ "running" \notin FinishedJob
    BY <1>15, <2>1 DEF StatusCommit, TypeOK, FinishedJob, TerminalJob
  <2>5. \A q \in Requests : request'[q] = request[q] \/ request'[q].at = "idle"
    BY <1>15 DEF StatusCommit, Becomes, Idle, TypeOK
  <2>6. QED
    BY <2>1, <2>2, <2>3, <2>4, <2>5, JobMoves
<1>16. ASSUME NEW r \in Requests, ReportUpdateRow(r) PROVE OfferParts'
  <2> DEFINE j == request[r].job
  <2>1. request[r] \in [at : {"report_row"}, job : Jobs, host : Hosts, status : Results, seen : Seen]
    BY <1>16, RequestShape DEF ReportUpdateRow
  <2>2. j \in Jobs /\ jobStatus[j] # "none"
    BY <1>16, <2>1 DEF ReportUpdateRow, DispatchInv, HandlersKnowTheirJob
  <2>3. \A h \in Hosts : rows'[j][h] = "pending" => rows[j][h] = "pending"
    BY <1>16, <2>1 DEF ReportUpdateRow, TypeOK, Results
  <2>4. jobStatus' = jobStatus /\ RecordEnds /\ \A k \in Jobs \ {j} : rows'[k] = rows[k]
    BY <1>16, <2>1 DEF ReportUpdateRow, TypeOK
  <2>5. jobStatus'[j] \in FinishedJob => j \in ended
    BY <2>2, <2>4 DEF DispatchInv, EndsRecorded
  <2>6. \A q \in Requests : request'[q] = request[q]
          \/ (request'[q].at = "report_count" /\ request'[q].job = j)
    BY <1>16 DEF ReportUpdateRow, Becomes, TypeOK
  <2>7. QED
    BY <2>2, <2>3, <2>4, <2>5, <2>6, JobMoves
<1>17. ASSUME NEW r \in Requests, ReportCount(r) PROVE OfferParts'
  <2> DEFINE j == request[r].job
             stop == HostsIn(j, ActiveHost) # {} /\ OverThreshold(j)
             s == [at |-> IF stop THEN "report_skip" ELSE "report_commit", job |-> j,
                   update |-> ReportedStatus(j, request[r].seen)]
  <2>1. request[r] \in [at : {"report_count"}, job : Jobs, seen : Seen]
    BY <1>17, RequestShape DEF ReportCount
  <2>2. Becomes(r, s) /\ Exists(j)
    BY <1>17 DEF ReportCount
  <2>3. s \in RequestState
    BY <2>1 DEF RequestState, ReportedStatus, Verdict, Updates
  <2>4. ASSUME s.at = "report_commit", s.update \in TerminalJob, NEW h \in Hosts,
               rows[s.job][h] = "pending"
        PROVE  FALSE
    <3>1. HostsIn(j, ActiveHost) # {}
      BY <2>4 DEF HostsIn, ActiveHost
    <3>2. ~OverThreshold(j)
      BY <2>4, <3>1
    <3>3. ReportedStatus(j, request[r].seen) \in {"running", "keep"}
      BY <3>1, <3>2 DEF ReportedStatus
    <3>4. QED
      BY <2>4, <3>3 DEF TerminalJob
  <2>5. UNCHANGED <<jobStatus, rows, ended>>
    BY <1>17 DEF ReportCount, database, history
  <2>6. s.job = j /\ jobStatus[j] # "none"
    BY <2>2 DEF Exists
  <2> HIDE DEF s
  <2>7. QED
    BY <2>2, <2>3, <2>4, <2>5, <2>6, OnlyHandlerMoves
<1>18. ASSUME NEW r \in Requests, ReportSkip(r) PROVE OfferParts'
  <2> DEFINE j == request[r].job
  <2>1. request[r] \in [at : {"report_skip", "report_commit"}, job : Jobs, update : Updates]
    BY <1>18, RequestShape DEF ReportSkip
  <2>2. j \in Jobs /\ jobStatus[j] # "none"
    BY <1>18, <2>1 DEF ReportSkip, DispatchInv, HandlersKnowTheirJob
  <2>3. \A h \in Hosts : rows'[j][h] # "pending"
    BY <1>18, <2>2 DEF ReportSkip, SkipPending, TypeOK
  <2>4. jobStatus' = jobStatus /\ RecordEnds /\ \A k \in Jobs \ {j} : rows'[k] = rows[k]
    BY <1>18, <2>2 DEF ReportSkip, SkipPending, TypeOK
  <2>5. \A q \in Requests : request'[q] = request[q]
          \/ (request'[q].at = "report_commit" /\ request'[q].job = j)
    BY <1>18, <2>1 DEF ReportSkip, Becomes, TypeOK
  <2>6. QED
    BY <2>2, <2>3, <2>4, <2>5, JobMoves
<1>19. ASSUME NEW r \in Requests, ReportCommit(r) PROVE OfferParts'
  <2> DEFINE j == request[r].job
  <2>1. request[r] \in [at : {"report_skip", "report_commit"}, job : Jobs, update : Updates]
    BY <1>19, RequestShape DEF ReportCommit
  <2>2. j \in Jobs /\ jobStatus[j] \notin {"none", "deleted"}
    BY <1>19, <2>1 DEF ReportCommit, Exists
  <2>3. rows' = rows /\ RecordEnds
    BY <1>19 DEF ReportCommit
  <2>4. \A k \in Jobs \ {j} : jobStatus'[k] = jobStatus[k]
    BY <1>19, <2>2 DEF ReportCommit, TypeOK
  <2>5. CASE request[r].update = "keep"
    <3>1. jobStatus' = jobStatus
      BY <1>19, <2>5 DEF ReportCommit
    <3>2. jobStatus'[j] \in FinishedJob => j \in ended
      BY <2>2, <3>1 DEF DispatchInv, EndsRecorded
    <3>3. \A q \in Requests : request'[q] = request[q] \/ request'[q].at = "idle"
      BY <1>19 DEF ReportCommit, Becomes, Idle, TypeOK
    <3>4. QED
      BY <2>2, <2>3, <3>1, <3>2, <3>3, JobMoves
  <2>6. CASE request[r].update # "keep"
    <3>1. jobStatus'[j] = request[r].update
      BY <1>19, <2>2, <2>6 DEF ReportCommit, TypeOK
    <3>2. jobStatus'[j] # "none"
      BY <2>1, <3>1 DEF Updates
    <3>3. jobStatus'[j] \in FinishedJob => \A h \in Hosts : rows'[j][h] # "pending"
      BY <1>19, <2>1, <2>3, <3>1
         DEF ReportCommit, DispatchInv, ClosingHasNoOffer, Updates, FinishedJob, TerminalJob
    <3>4. \A q \in Requests : request'[q] = request[q] \/ request'[q].at = "idle"
      BY <1>19 DEF ReportCommit, Becomes, Idle, TypeOK
    <3>5. QED
      BY <2>2, <2>3, <2>4, <3>2, <3>3, <3>4, JobMoves
  <2>7. QED
    BY <2>5, <2>6
<1>20. ASSUME NEW r \in Requests, RequestFails(r) PROVE OfferParts'
  BY <1>20, IdleType, OnlyHandlerMoves DEF RequestFails, Idle, database, history
<1>21. ASSUME NEW j \in Jobs, ExpireJob(j) PROVE OfferParts'
  <2>1. jobStatus[j] # "none" /\ jobStatus'[j] # "none"
    BY <1>21 DEF ExpireJob, ActiveJob, TypeOK
  <2>2. \A h \in Hosts : rows'[j][h] # "pending"
    BY <1>21 DEF ExpireJob, ExpireRows, ActiveHost, TypeOK
  <2>3. \A k \in Jobs \ {j} : jobStatus'[k] = jobStatus[k] /\ rows'[k] = rows[k]
    BY <1>21 DEF ExpireJob, ExpireRows, TypeOK
  <2>4. RecordEnds /\ request' = request
    BY <1>21 DEF ExpireJob
  <2>5. QED
    BY <2>1, <2>2, <2>3, <2>4, JobMoves
<1>22. ASSUME ServerCrash PROVE OfferParts'
  BY <1>22 DEF ServerCrash, Idle, database, history, DispatchInv, OfferParts, EndsRecorded,
               UnbornIsBlank, HandlersKnowTheirJob, ClosingHasNoOffer, NoOfferAfterEnd
<1>23. ASSUME NEW j \in Jobs, TimePasses(j) \/ ExpireSkips(j) PROVE OfferParts'
  BY <1>23, NothingMoves DEF TimePasses, ExpireSkips, database, history
<1>24. ASSUME ScanStale PROVE OfferParts'
  BY <1>24, NothingMoves DEF ScanStale, database, history
<1>25. ASSUME NEW c \in Collectors, AgentStep(c) PROVE OfferParts'
  BY <1>25, NothingMoves DEF AgentStep, Fetch, Start, OfferLost, SendDownloading, SendInstalling, Execute,
                             SendRebooting, SendPatchReport, database, history
<1>26. ASSUME NEW h \in Hosts, AgentCrash(h) PROVE OfferParts'
  BY <1>26, NothingMoves DEF AgentCrash, database, history
<1>27. CASE UNCHANGED vars
  BY <1>27, NothingMoves DEF vars, database, history
<1>28. QED
  BY <1>3, <1>4, <1>5, <1>6, <1>7, <1>8, <1>9, <1>10, <1>11, <1>12, <1>13, <1>14, <1>15, <1>16,
     <1>17, <1>18, <1>19, <1>20, <1>21, <1>22, <1>23, <1>24, <1>25, <1>26, <1>27
     DEF Next, UserStep, CallStep, HandlerStep, TickStep

(* Once a job has ended - it completed, failed, expired, was cancelled or   *)
(* stopped at its failure threshold - no host's row of it is ever pending   *)
(* again, so getPendingJobForHost never hands it out, even when a stale     *)
(* handler brings the job back to running.                                  *)
THEOREM NoWorkAfterEnd == Spec => []NoOfferAfterEnd
<1>1. Init => DispatchInv
  BY DispatchInit
<1>2. DispatchInv /\ [Next]_vars => DispatchInv'
  BY DispatchNext
<1>3. DispatchInv => NoOfferAfterEnd
  BY DEF DispatchInv
<1>4. QED
  BY <1>1, <1>2, <1>3, PTL DEF Spec
-----------------------------------------------------------------------------
(***************************************************************************)
(* The dispatch contract.  Every step of the handlers, the scheduler, the   *)
(* network and the agents is a step of PatchDispatch, or nothing it knows.  *)
(***************************************************************************)

(* Jobs that were finished before a step are in the history already.        *)
LEMMA NoNewEnds ==
  ASSUME DispatchInv, RecordEnds,
         \A j \in Jobs : jobStatus'[j] \in FinishedJob => jobStatus[j] \in FinishedJob
  PROVE  ended' = ended
BY DEF DispatchInv, EndsRecorded, RecordEnds

(* A step that leaves jobs, rows, history and agents alone is no step of    *)
(* the contract.                                                            *)
LEMMA ContractIdles ==
  ASSUME UNCHANGED <<jobStatus, rows, ended, collector>>
  PROVE  UNCHANGED Dispatch!vars
BY DEF Dispatch!vars, Answering, Working

(* A step that only writes host rows, and makes none pending, takes offers  *)
(* back.                                                                    *)
LEMMA RowsWithdraw ==
  ASSUME DispatchInv, RecordEnds, UNCHANGED <<jobStatus, collector>>,
         \A j \in Jobs, h \in Hosts : rows'[j][h] = "pending" => rows[j][h] = "pending"
  PROVE  Dispatch!Withdraw
<1>1. ended' = ended
  BY NoNewEnds
<1>2. QED
  BY <1>1 DEF Dispatch!Withdraw, Answering, Working

(* A step that ends every job whose rows it writes closes them: an ended    *)
(* job has no offer left, and no other job loses one.                       *)
LEMMA EndsClose ==
  ASSUME DispatchInv, DispatchInv', RecordEnds, UNCHANGED collector,
         \A j \in Jobs : jobStatus'[j] = "none" <=> jobStatus[j] = "none",
         \A j \in Jobs : rows'[j] = rows[j] \/ jobStatus'[j] \in FinishedJob
  PROVE  Dispatch!Next
<1> DEFINE js == {j \in Jobs : jobStatus'[j] \in FinishedJob}
           offers == {p \in Jobs \X Hosts : rows[p[1]][p[2]] = "pending"}
<1>1. js \in SUBSET Jobs /\ ended' = ended \cup js
  BY DEF RecordEnds
<1>2. \A j \in js : j \in ended' /\ \A h \in Hosts : rows'[j][h] # "pending"
  BY <1>1 DEF DispatchInv, NoOfferAfterEnd
<1>3. ASSUME NEW p \in Jobs \X Hosts
      PROVE  rows'[p[1]][p[2]] = "pending" <=> rows[p[1]][p[2]] = "pending" /\ p[1] \notin js
  <2>1. p[1] \in Jobs /\ p[2] \in Hosts
    OBVIOUS
  <2>2. QED
    BY <1>2, <2>1
<1>4. offers' = {o \in offers : o[1] \notin js}
  BY <1>3
<1>5. {j \in Jobs : jobStatus'[j] # "none"} = {j \in Jobs : jobStatus[j] # "none"}
  OBVIOUS
<1> HIDE DEF js
<1>6. \E S \in SUBSET Jobs : Dispatch!Close(S)
  BY <1>1, <1>4, <1>5 DEF Dispatch!Close, Answering, Working
<1>7. QED
  BY <1>6 DEF Dispatch!Next

(* Inserting a job opens it, with an offer for each of its hosts.           *)
LEMMA InsertOpens ==
  ASSUME DispatchInv, NEW j \in Jobs, NEW p, NEW hosts \in SUBSET Hosts, InsertJob(j, p, hosts)
  PROVE  Dispatch!Next
<1> DEFINE offers == {q \in Jobs \X Hosts : rows[q[1]][q[2]] = "pending"}
           opened == {k \in Jobs : jobStatus[k] # "none"}
<1>1. /\ jobStatus[j] = "none"
      /\ jobStatus' = [jobStatus EXCEPT ![j] = "pending"]
      /\ rows' = [rows EXCEPT ![j] = [h \in Hosts |-> IF h \in hosts THEN "pending" ELSE "none"]]
      /\ collector' = collector
      /\ RecordEnds
  BY DEF InsertJob, FreshJob
<1>2. \A k \in Jobs : jobStatus'[k] = IF k = j THEN "pending" ELSE jobStatus[k]
  BY <1>1 DEF DispatchInv, TypeOK
<1>3. ended' = ended
  <2>1. "pending" \notin FinishedJob
    BY DEF FinishedJob, TerminalJob
  <2>2. QED
    BY <1>1, <1>2, <2>1, NoNewEnds
<1>4. opened' = opened \cup {j} /\ j \in Jobs \ opened
  BY <1>1, <1>2
<1>5. ASSUME NEW q \in Jobs \X Hosts
      PROVE  q \in offers' <=> q \in offers \/ q \in {j} \X hosts
  <2>1. q[1] \in Jobs /\ q[2] \in Hosts /\ q = <<q[1], q[2]>>
    OBVIOUS
  <2>2. rows'[q[1]][q[2]] = IF q[1] = j THEN (IF q[2] \in hosts THEN "pending" ELSE "none")
                                        ELSE rows[q[1]][q[2]]
    BY <1>1, <2>1 DEF DispatchInv, TypeOK
  <2>3. q[1] = j => rows[q[1]][q[2]] # "pending"
    BY <1>1, <2>1 DEF DispatchInv, UnbornIsBlank
  <2>4. q \in {j} \X hosts <=> q[1] = j /\ q[2] \in hosts
    BY <2>1
  <2>5. QED
    BY <2>2, <2>3, <2>4
<1>6. offers' = offers \cup ({j} \X hosts)
  BY <1>5
<1>7. Dispatch!Open(j, hosts)
  BY <1>1, <1>3, <1>4, <1>6 DEF Dispatch!Open, Answering, Working
<1>8. QED
  BY <1>7 DEF Dispatch!Next

(* What the server hands out is on offer, and its job has not ended.        *)
LEMMA FetchHandsOut ==
  ASSUME DispatchInv, NEW c \in Collectors, Fetch(c)
  PROVE  Dispatch!Next
<1> DEFINE handed == {<<collector[d].job, HostOf[d]>> : d \in Answering}
           taken  == {<<collector[d].job, HostOf[d]>> : d \in Working}
<1>1. PICK j \in Offered(HostOf[c]) : collector' = [collector EXCEPT ![c] = [at |-> "offered", job |-> j]]
  BY DEF Fetch
<1>2. HostOf[c] \in Hosts /\ j \in Jobs /\ rows[j][HostOf[c]] = "pending" /\ j \notin ended
  BY <1>1, CollectorsAssumption DEF Offered, DispatchInv, NoOfferAfterEnd
<1>3. collector[c].at = "idle"
  BY DEF Fetch, Idle
<1>4. \A d \in Collectors : collector'[d] = IF d = c THEN [at |-> "offered", job |-> j] ELSE collector[d]
  BY <1>1 DEF DispatchInv, TypeOK
<1>5. Answering' = Answering \cup {c} /\ c \notin Answering /\ Working' = Working /\ c \notin Working
  BY <1>3, <1>4 DEF Answering, Working
<1>6. handed' = handed \cup {<<j, HostOf[c]>>}
  BY <1>4, <1>5 DEF Answering
<1>7. taken' = taken
  BY <1>4, <1>5 DEF Working
<1>8. UNCHANGED <<jobStatus, rows, ended>>
  BY DEF Fetch, database, history
<1>9. Dispatch!HandOut(j, HostOf[c])
  BY <1>2, <1>6, <1>7, <1>8 DEF Dispatch!HandOut
<1>10. QED
  BY <1>2, <1>9 DEF Dispatch!Next

(* An agent starts on what the answer hands it; the answer is used up       *)
(* unless another goroutine of the host waits for the same.                 *)
LEMMA StartTakes ==
  ASSUME DispatchInv, NEW c \in Collectors, Start(c)
  PROVE  Dispatch!Next
<1> DEFINE j == collector[c].job
           h == HostOf[c]
           handed == {<<collector[d].job, HostOf[d]>> : d \in Answering}
           taken  == {<<collector[d].job, HostOf[d]>> : d \in Working}
<1>1. collector[c] \in [at : {"offered", "start", "snapshot", "execute"}, job : Jobs]
  BY CollectorShape DEF Start, DispatchInv
<1>2. \A d \in Collectors : collector'[d] = IF d = c THEN [collector[c] EXCEPT !.at = "start"]
                                                     ELSE collector[d]
  BY DEF Start, DispatchInv, TypeOK
<1>3. collector'[c].at = "start" /\ collector'[c].job = j /\ j \in Jobs /\ h \in Hosts
  BY <1>1, <1>2, CollectorsAssumption
<1>4. c \in Answering /\ Answering' = Answering \ {c} /\ Working' = Working \cup {c}
  BY <1>2, <1>3 DEF Start, Answering, Working
<1>5. <<j, h>> \in handed
  BY <1>4
<1>6. taken' = taken \cup {<<j, h>>}
  BY <1>2, <1>3, <1>4 DEF Answering, Working, Start
<1>7. handed' = {<<collector[d].job, HostOf[d]>> : d \in Answering \ {c}}
  BY <1>2, <1>4 DEF Answering
<1>8. handed' \in {handed, handed \ {<<j, h>>}}
  <2>1. CASE \E d \in Answering \ {c} : <<collector[d].job, HostOf[d]>> = <<j, h>>
    <3>1. handed' = handed
      BY <1>4, <1>7, <2>1
    <3>2. QED
      BY <3>1
  <2>2. CASE ~ \E d \in Answering \ {c} : <<collector[d].job, HostOf[d]>> = <<j, h>>
    <3>1. handed' = handed \ {<<j, h>>}
      BY <1>4, <1>7, <2>2
    <3>2. QED
      BY <3>1
  <2>3. QED
    BY <2>1, <2>2
<1>9. UNCHANGED <<jobStatus, rows, ended>>
  BY DEF Start, database, history
<1>10. Dispatch!Take(j, h)
  BY <1>5, <1>6, <1>8, <1>9 DEF Dispatch!Take
<1>11. QED
  BY <1>3, <1>10 DEF Dispatch!Next

(* Agents that go on with their jobs, or give them up, and answers that are *)
(* lost leave work.                                                         *)
LEMMA AgentsLeave ==
  ASSUME UNCHANGED <<jobStatus, rows, ended>>,
         \A c \in Collectors :
           \/ collector'[c] = collector[c]
           \/ collector'[c].at = "idle"
           \/ /\ collector[c].at \notin {"idle", "offered"}
              /\ collector'[c].at # "offered"
              /\ collector'[c].job = collector[c].job
  PROVE  Dispatch!Next
<1> DEFINE handed == {<<collector[d].job, HostOf[d]>> : d \in Answering}
           taken  == {<<collector[d].job, HostOf[d]>> : d \in Working}
<1>1. \A c \in Answering' : c \in Answering /\ collector'[c] = collector[c]
  BY DEF Answering
<1>2. \A c \in Working' : c \in Working /\ collector'[c].job = collector[c].job
  BY DEF Working
<1>3. handed' \subseteq handed
  BY <1>1
<1>4. taken' \subseteq taken
  BY <1>2
<1>5. Dispatch!Leave
  BY <1>3, <1>4 DEF Dispatch!Leave
<1>6. QED
  BY <1>5 DEF Dispatch!Next

(* The queries of the handlers.                                            *)
LEMMA ServerStepDispatch ==
  ASSUME DispatchInv, DispatchInv', NEW r \in Requests, HandlerStep(r)
  PROVE  [Dispatch!Next]_(Dispatch!vars)
<1>1. TypeOK /\ TypeOK'
  BY DEF DispatchInv
<1>2. ASSUME NEW j \in Jobs, CreateCommit(r, j) PROVE Dispatch!Next
  <2>1. request[r].hosts \in SUBSET Hosts
    BY <1>1, <1>2, RequestShape DEF CreateCommit
  <2>2. QED
    BY <1>2, <2>1, InsertOpens DEF CreateCommit
<1>3. ASSUME NEW j \in Jobs, RunCommit(r, j) PROVE Dispatch!Next
  <2>1. PICK p \in request[r].policies : InsertJob(j, p, {request[r].host})
    BY <1>3 DEF RunCommit
  <2>2. {request[r].host} \in SUBSET Hosts
    BY <1>1, <1>3, RequestShape DEF RunCommit
  <2>3. QED
    BY <2>1, <2>2, InsertOpens
<1>4. CASE CancelCommit(r)
  <2>1. request[r].job \in Jobs
    BY <1>1, <1>4, RequestShape DEF CancelCommit
  <2>2. \A j \in Jobs : jobStatus'[j] = IF j = request[r].job THEN "cancelled" ELSE jobStatus[j]
    BY <1>1, <1>4, <2>1 DEF CancelCommit, TypeOK
  <2>3. jobStatus[request[r].job] # "none" /\ "cancelled" \in FinishedJob
    BY <1>4 DEF CancelCommit, Exists, FinishedJob, TerminalJob
  <2>4. \A j \in Jobs \ {request[r].job} : rows'[j] = rows[j]
    BY <1>1, <1>4, <2>1 DEF CancelCommit, SkipPending, TypeOK
  <2>5. RecordEnds /\ collector' = collector
    BY <1>4 DEF CancelCommit
  <2>6. QED
    BY <2>2, <2>3, <2>4, <2>5, EndsClose
<1>5. CASE StatusReadJob(r) \/ RequestFails(r)
  BY <1>5, ContractIdles DEF StatusReadJob, RequestFails, database, history
<1>6. CASE StatusCommit(r)
  <2>1. request[r].job \in Jobs
    BY <1>1, <1>6, RequestShape DEF StatusCommit
  <2>2. \A j \in Jobs : jobStatus'[j] = IF j = request[r].job THEN "running" ELSE jobStatus[j]
    BY <1>1, <1>6, <2>1 DEF StatusCommit, TypeOK
  <2>3. RecordEnds /\ UNCHANGED <<rows, collector>> /\ jobStatus[request[r].job] # "none"
    BY <1>6 DEF StatusCommit, Exists
  <2>4. QED
    BY <2>2, <2>3, EndsClose
<1>7. CASE ReportUpdateRow(r)
  <2>1. /\ request[r].job \in Jobs
        /\ request[r].host \in Hosts
        /\ request[r].status # "pending"
    BY <1>1, <1>7, RequestShape DEF ReportUpdateRow, Results
  <2>2. \A j \in Jobs, h \in Hosts : rows'[j][h] = "pending" => rows[j][h] = "pending"
    BY <1>1, <1>7, <2>1 DEF ReportUpdateRow, TypeOK
  <2>3. RecordEnds /\ UNCHANGED <<jobStatus, collector>>
    BY <1>7 DEF ReportUpdateRow
  <2>4. QED
    BY <2>2, <2>3, RowsWithdraw DEF Dispatch!Next
<1>8. CASE ReportCount(r)
  BY <1>8, ContractIdles DEF ReportCount, database, history
<1>9. CASE ReportSkip(r)
  <2>1. request[r].job \in Jobs
    BY <1>1, <1>9, RequestShape DEF ReportSkip
  <2>2. \A j \in Jobs, h \in Hosts : rows'[j][h] = "pending" => rows[j][h] = "pending"
    BY <1>1, <1>9, <2>1 DEF ReportSkip, SkipPending, TypeOK
  <2>3. RecordEnds /\ UNCHANGED <<jobStatus, collector>>
    BY <1>9 DEF ReportSkip
  <2>4. QED
    BY <2>2, <2>3, RowsWithdraw DEF Dispatch!Next
<1>10. CASE ReportCommit(r)
  <2>1. request[r].job \in Jobs /\ request[r].update \in Updates
    BY <1>1, <1>10, RequestShape DEF ReportCommit
  <2>2. \A j \in Jobs : jobStatus'[j] = IF j = request[r].job /\ request[r].update # "keep"
                                          THEN request[r].update ELSE jobStatus[j]
    BY <1>1, <1>10, <2>1 DEF ReportCommit, TypeOK
  <2>3. RecordEnds /\ UNCHANGED <<rows, collector>> /\ jobStatus[request[r].job] # "none"
    BY <1>10 DEF ReportCommit, Exists
  <2>4. \A j \in Jobs : jobStatus'[j] = "none" <=> jobStatus[j] = "none"
    BY <2>1, <2>2, <2>3 DEF Updates
  <2>5. QED
    BY <2>3, <2>4, EndsClose
<1>11. QED
  BY <1>2, <1>3, <1>4, <1>5, <1>6, <1>7, <1>8, <1>9, <1>10 DEF HandlerStep

(* The arrival of agents' calls.                                           *)
LEMMA CallStepDispatch ==
  ASSUME DispatchInv, CallStep
  PROVE  [Dispatch!Next]_(Dispatch!vars)
<1>1. PICK m \in net : \/ \E r \in Calls : StatusUpdateRow(r, m) \/ ReportBegin(r, m)
                       \/ CallRefused(m)
                       \/ CallLost(m)
  BY DEF CallStep
<1>2. m.job \in Jobs /\ m.host \in Hosts /\ m.status # "pending"
  <2>1. m \in Messages
    BY DEF DispatchInv, TypeOK
  <2>2. QED
    BY <2>1 DEF Messages, AgentStatus, Results
<1>3. ASSUME NEW r \in Calls, StatusUpdateRow(r, m)
      PROVE  Dispatch!Next
  <2>1. \A j \in Jobs, h \in Hosts : rows'[j][h] = "pending" => rows[j][h] = "pending"
    BY <1>2, <1>3 DEF StatusUpdateRow, DispatchInv, TypeOK
  <2>2. RecordEnds /\ UNCHANGED <<jobStatus, collector>>
    BY <1>3 DEF StatusUpdateRow
  <2>3. QED
    BY <2>1, <2>2, RowsWithdraw DEF Dispatch!Next
<1>4. CASE (\E r \in Calls : ReportBegin(r, m)) \/ CallRefused(m) \/ CallLost(m)
  BY <1>4, ContractIdles DEF ReportBegin, CallRefused, CallLost, database, history
<1>5. QED
  BY <1>1, <1>3, <1>4

(* What administrators ask for.                                            *)
LEMMA UserStepDispatch ==
  ASSUME DispatchInv, DispatchInv', UserStep
  PROVE  [Dispatch!Next]_(Dispatch!vars)
<1>1. CASE \E r \in Users, p \in Policies : CreateBegin(r, p)
  BY <1>1, ContractIdles DEF CreateBegin, database, history
<1>2. CASE \E r \in Users, h \in Hosts : RunBegin(r, h)
  BY <1>2, ContractIdles DEF RunBegin, database, history
<1>3. CASE \E r \in Users, j \in Jobs : CancelBegin(r, j)
  BY <1>3, ContractIdles DEF CancelBegin, database, history
<1>4. CASE \E p \in Policies : TogglePolicy(p)
  BY <1>4, ContractIdles DEF TogglePolicy, history
<1>5. ASSUME NEW p \in Policies, DeletePolicy(p)
      PROVE  Dispatch!Next
  <2>1. \A j \in JobsOf(p) : jobStatus[j] # "none"
    BY DEF JobsOf, Exists
  <2>2. \A j \in Jobs : /\ jobStatus'[j] = IF j \in JobsOf(p) THEN "deleted" ELSE jobStatus[j]
                        /\ j \notin JobsOf(p) => rows'[j] = rows[j]
    BY <1>5 DEF DeletePolicy
  <2>3. "deleted" \in FinishedJob
    BY DEF FinishedJob
  <2>4. RecordEnds /\ collector' = collector
    BY <1>5 DEF DeletePolicy
  <2>5. QED
    BY <2>1, <2>2, <2>3, <2>4, EndsClose
<1>6. QED
  BY <1>1, <1>2, <1>3, <1>4, <1>5 DEF UserStep

(* The scheduler's expiry.                                                 *)
LEMMA TickStepDispatch ==
  ASSUME DispatchInv, DispatchInv', TickStep
  PROVE  [Dispatch!Next]_(Dispatch!vars)
<1>1. CASE ScanStale \/ \E j \in Jobs : ExpireSkips(j)
  BY <1>1, ContractIdles DEF ScanStale, ExpireSkips, database, history
<1>2. ASSUME NEW j \in Jobs, ExpireJob(j)
      PROVE  Dispatch!Next
  <2>1. /\ jobStatus'[j] \in {"completed_with_errors", "failed"}
        /\ \A k \in Jobs \ {j} : jobStatus'[k] = jobStatus[k] /\ rows'[k] = rows[k]
    BY <1>2 DEF ExpireJob, ExpireRows, DispatchInv, TypeOK
  <2>2. jobStatus[j] # "none" /\ jobStatus'[j] # "none" /\ jobStatus'[j] \in FinishedJob
    BY <1>2, <2>1 DEF ExpireJob, ActiveJob, FinishedJob, TerminalJob
  <2>3. RecordEnds /\ collector' = collector
    BY <1>2 DEF ExpireJob
  <2>4. QED
    BY <2>1, <2>2, <2>3, EndsClose
<1>3. QED
  BY <1>1, <1>2 DEF TickStep

(* The agents.                                                             *)
LEMMA AgentStepDispatch ==
  ASSUME DispatchInv, NEW c \in Collectors, AgentStep(c)
  PROVE  Dispatch!Next
<1>1. CASE Fetch(c)
  BY <1>1, FetchHandsOut
<1>2. CASE Start(c)
  BY <1>2, StartTakes
<1>3. CASE ~Fetch(c) /\ ~Start(c)
  <2>1. UNCHANGED <<jobStatus, rows, ended>>
    BY <1>3 DEF AgentStep, OfferLost, SendDownloading, SendInstalling, Execute, SendRebooting,
                SendPatchReport, database, history
  <2>2. \A d \in Collectors \ {c} : collector'[d] = collector[d]
    BY <1>3 DEF AgentStep, OfferLost, SendDownloading, SendInstalling, Execute, SendRebooting,
                SendPatchReport, DispatchInv, TypeOK
  <2>3. \/ collector'[c].at = "idle"
        \/ /\ collector[c].at \notin {"idle", "offered"}
           /\ collector'[c].at # "offered"
           /\ collector'[c].job = collector[c].job
    <3>1. CASE OfferLost(c) \/ SendPatchReport(c)
      BY <3>1 DEF OfferLost, SendPatchReport, DispatchInv, TypeOK, Idle
    <3>2. CASE SendDownloading(c) \/ SendInstalling(c)
      <4>1. collector[c] \in [at : {"offered", "start", "snapshot", "execute"}, job : Jobs]
        BY <3>2, CollectorShape DEF DispatchInv, SendDownloading, SendInstalling
      <4>2. QED
        BY <3>2, <4>1 DEF SendDownloading, SendInstalling, DispatchInv, TypeOK
    <3>3. CASE Execute(c)
      BY <3>3 DEF Execute, DispatchInv, TypeOK
    <3>4. CASE SendRebooting(c)
      <4>1. collector[c] \in [at : {"executed", "rebooting"}, job : Jobs, result : Results]
        BY <3>4, CollectorShape DEF DispatchInv, SendRebooting
      <4>2. QED
        BY <3>4, <4>1 DEF SendRebooting, DispatchInv, TypeOK
    <3>5. QED
      BY <1>3, <3>1, <3>2, <3>3, <3>4 DEF AgentStep
  <2>4. QED
    BY <2>1, <2>2, <2>3, AgentsLeave
<1>4. QED
  BY <1>1, <1>2, <1>3

(* Any step.                                                               *)
LEMMA StepDispatch ==
  ASSUME DispatchInv, DispatchInv', [Next]_vars
  PROVE  [Dispatch!Next]_(Dispatch!vars)
<1>1. CASE \E j \in Jobs : TimePasses(j)
  BY <1>1, ContractIdles DEF TimePasses, database, history
<1>2. CASE ServerCrash
  BY <1>2, ContractIdles DEF ServerCrash, database, history
<1>3. ASSUME NEW h \in Hosts, AgentCrash(h)
      PROVE  Dispatch!Next
  <2>1. UNCHANGED <<jobStatus, rows, ended>>
    BY <1>3 DEF AgentCrash, database, history
  <2>2. \A c \in Collectors : collector'[c].at = "idle" \/ collector'[c] = collector[c]
    BY <1>3 DEF AgentCrash, Idle
  <2>3. QED
    BY <2>1, <2>2, AgentsLeave
<1>4. CASE UNCHANGED vars
  BY <1>4, ContractIdles DEF vars, database, history
<1>5. QED
  BY <1>1, <1>2, <1>3, <1>4, UserStepDispatch, CallStepDispatch, ServerStepDispatch,
     TickStepDispatch, AgentStepDispatch DEF Next

(* The initial states.                                                     *)
LEMMA InitDispatch == Init => Dispatch!Init
BY DEF Init, Dispatch!Init, Answering, Working, Idle

(* The handlers, the scheduler and the agents implement PatchDispatch,      *)
(* whatever interleaves, crashes, is lost or sent twice: a job's offers are *)
(* made once, with the job, and are only taken back afterwards; none is     *)
(* handed out once its job has ended; and an agent starts only on one it    *)
(* was handed before.                                                       *)
THEOREM DispatchKept == Spec => ImplementsDispatch
<1>1. Init => DispatchInv
  BY DispatchInit
<1>2. DispatchInv /\ [Next]_vars => DispatchInv'
  BY DispatchNext
<1>3. Init => Dispatch!Init
  BY InitDispatch
<1>4. DispatchInv /\ DispatchInv' /\ [Next]_vars => [Dispatch!Next]_(Dispatch!vars)
  BY StepDispatch
<1>5. QED
  BY <1>1, <1>2, <1>3, <1>4, PTL DEF Spec, ImplementsDispatch, Dispatch!Spec

(* The scheduler's expiry leaves a job that ended after the scan, and its   *)
(* rows, as they are: a job leaves the scanned ones by being claimed while  *)
(* still active, by being found ended, or with a restart.                   *)
THEOREM ExpiryKeepsEnds == Spec => ExpiryLeavesFinished
<1> DEFINE Kept == \A j \in expiring \ expiring' : jobStatus[j] \in FinishedJob =>
                     jobStatus'[j] = jobStatus[j] /\ rows'[j] = rows[j]
<1>1. ASSUME [Next]_vars
      PROVE  [Kept]_vars
  <2>1. CASE UNCHANGED expiring \/ ScanStale
    BY <2>1 DEF ScanStale
  <2>2. ASSUME NEW k \in Jobs, ExpireJob(k)
        PROVE  Kept
    <3>1. expiring \ expiring' \subseteq {k} /\ jobStatus[k] \in ActiveJob
      BY <2>2 DEF ExpireJob
    <3>2. jobStatus[k] \notin FinishedJob
      BY <3>1 DEF ActiveJob, FinishedJob, TerminalJob
    <3>3. QED
      BY <3>1, <3>2
  <2>3. CASE (\E k \in Jobs : ExpireSkips(k)) \/ ServerCrash
    BY <2>3 DEF ExpireSkips, ServerCrash, database
  <2>4. CASE UserStep
    <3>1. UNCHANGED expiring
      BY <2>4 DEF UserStep, CreateBegin, RunBegin, CancelBegin, TogglePolicy, DeletePolicy
    <3>2. QED
      BY <2>1, <3>1
  <2>5. CASE CallStep
    <3>1. UNCHANGED expiring
      BY <2>5 DEF CallStep, StatusUpdateRow, ReportBegin, CallRefused, CallLost
    <3>2. QED
      BY <2>1, <3>1
  <2>6. ASSUME NEW r \in Requests, HandlerStep(r)
        PROVE  UNCHANGED expiring
    BY <2>6 DEF HandlerStep, CreateCommit, RunCommit, InsertJob, CancelCommit, StatusReadJob,
                StatusCommit, ReportUpdateRow, ReportCount, ReportSkip, ReportCommit, RequestFails
  <2>7. ASSUME NEW c \in Collectors, AgentStep(c)
        PROVE  UNCHANGED expiring
    BY <2>7 DEF AgentStep, Fetch, Start, OfferLost, SendDownloading, SendInstalling, Execute, SendRebooting,
                SendPatchReport
  <2>8. CASE \/ \E j \in Jobs : TimePasses(j)
             \/ \E h \in Hosts : AgentCrash(h)
             \/ UNCHANGED vars
    BY <2>1, <2>8 DEF TimePasses, AgentCrash, vars
  <2>9. QED
    BY <1>1, <2>1, <2>2, <2>3, <2>4, <2>5, <2>6, <2>7, <2>8 DEF Next, TickStep
<1>2. QED
  BY <1>1, PTL DEF Spec, ExpiryLeavesFinished

-----------------------------------------------------------------------------
(***************************************************************************)
(* Handlers that may revive an ended job run dry.                           *)
(***************************************************************************)
RunsDry(j) ==
  jobStatus[j] \in FinishedJob =>
    /\ \A r \in Requests : MayRevive(r, j)' => MayRevive(r, j)
    /\ jobStatus'[j] \notin FinishedJob =>
         /\ jobStatus[j] # "deleted" /\ jobStatus'[j] = "running"
         /\ \E r \in Requests : MayRevive(r, j) /\ ~MayRevive(r, j)'

(* A step of one handler that leaves an ended job ended.                     *)
LEMMA StaysEnded ==
  ASSUME TypeOK, NEW r \in Requests, NEW s, Becomes(r, s), NEW j \in Jobs,
         MayRevive(r, j)' => MayRevive(r, j),
         jobStatus[j] \in FinishedJob => jobStatus'[j] \in FinishedJob
  PROVE  RunsDry(j)
<1>1. \A q \in Requests : q # r => request'[q] = request[q]
  BY DEF Becomes, TypeOK
<1>2. \A q \in Requests : MayRevive(q, j)' => MayRevive(q, j)
  BY <1>1 DEF MayRevive
<1>3. QED
  BY <1>2 DEF RunsDry

(* A step that moves no handler.                                            *)
LEMMA NoHandlerRevives ==
  ASSUME NEW j \in Jobs, request' = request,
         jobStatus[j] \in FinishedJob => jobStatus'[j] \in FinishedJob
  PROVE  RunsDry(j)
BY DEF RunsDry, MayRevive

(* A handler goes idle, and one that may revive j may have done so.          *)
LEMMA HandlerEnds ==
  ASSUME TypeOK, NEW r \in Requests, Becomes(r, Idle), NEW j \in Jobs,
         jobStatus[j] \in FinishedJob =>
           \/ jobStatus'[j] \in FinishedJob
           \/ MayRevive(r, j) /\ jobStatus[j] # "deleted" /\ jobStatus'[j] = "running"
  PROVE  RunsDry(j)
<1>1. request'[r] = Idle /\ \A q \in Requests : q # r => request'[q] = request[q]
  BY DEF Becomes, TypeOK
<1>2. ~MayRevive(r, j)'
  BY <1>1 DEF MayRevive, Idle
<1>3. \A q \in Requests : MayRevive(q, j)' => MayRevive(q, j)
  BY <1>1, <1>2 DEF MayRevive
<1>4. QED
  BY <1>2, <1>3 DEF RunsDry

LEMMA ReportRunsDry ==
  ASSUME TypeOK, NEW r \in Requests, NEW j \in Jobs,
         ReportUpdateRow(r) \/ ReportCount(r) \/ ReportSkip(r) \/ ReportCommit(r)
  PROVE  RunsDry(j)
<1>1. CASE ReportUpdateRow(r)
  <2> DEFINE s == [at |-> "report_count", job |-> request[r].job, seen |-> request[r].seen]
  <2>1. Becomes(r, s) /\ request[r].at = "report_row" /\ jobStatus' = jobStatus
    BY <1>1 DEF ReportUpdateRow
  <2>2. request'[r] = s
    BY <2>1 DEF Becomes, TypeOK
  <2>3. MayRevive(r, j)' => MayRevive(r, j)
    BY <2>1, <2>2 DEF MayRevive
  <2>4. QED
    BY <2>1, <2>3, StaysEnded
<1>2. CASE ReportCount(r)
  <2>1. PICK s : /\ Becomes(r, s) /\ s.job = request[r].job
                 /\ s.at \in {"report_skip", "report_commit"}
                 /\ s.update = ReportedStatus(request[r].job, request[r].seen)
    BY <1>2 DEF ReportCount
  <2>2. request[r].at = "report_count" /\ jobStatus' = jobStatus /\ request'[r] = s
    BY <1>2, <2>1 DEF ReportCount, Becomes, database, TypeOK
  <2>3. s.update = "running" => request[r].seen = "pending"
    BY <2>1 DEF ReportedStatus, Verdict
  <2>4. MayRevive(r, j)' => MayRevive(r, j)
    BY <2>1, <2>2, <2>3 DEF MayRevive
  <2>5. QED
    BY <2>1, <2>2, <2>4, StaysEnded
<1>3. CASE ReportSkip(r)
  <2> DEFINE s == [request[r] EXCEPT !.at = "report_commit"]
  <2>1. Becomes(r, s) /\ request[r].at = "report_skip" /\ jobStatus' = jobStatus
    BY <1>3 DEF ReportSkip
  <2>2. request'[r] = s
    BY <2>1 DEF Becomes, TypeOK
  <2>3. s.job = request[r].job /\ s.update = request[r].update
    BY <2>1, RequestShape
  <2>4. MayRevive(r, j)' => MayRevive(r, j)
    BY <2>1, <2>2, <2>3 DEF MayRevive
  <2>5. QED
    BY <2>1, <2>4, StaysEnded
<1>4. CASE ReportCommit(r)
  <2> DEFINE u == request[r].update
  <2>1. request[r].at = "report_commit" /\ Exists(request[r].job) /\ Becomes(r, Idle)
        /\ jobStatus' = IF u = "keep" THEN jobStatus ELSE [jobStatus EXCEPT ![request[r].job] = u]
    BY <1>4 DEF ReportCommit
  <2>2. u \in Updates
    BY <2>1, RequestShape
  <2>3. CASE u = "running" /\ request[r].job = j
    <3>1. MayRevive(r, j)
      BY <2>1, <2>3 DEF MayRevive
    <3>2. jobStatus[j] # "deleted" /\ jobStatus'[j] = "running"
      BY <2>1, <2>3 DEF Exists, TypeOK
    <3>3. QED
      BY <2>1, <3>1, <3>2, HandlerEnds
  <2>4. CASE u # "running" \/ request[r].job # j
    <3>1. jobStatus[j] \in FinishedJob => jobStatus'[j] \in FinishedJob
      BY <2>1, <2>2, <2>4 DEF Updates, FinishedJob, TerminalJob, TypeOK
    <3>2. QED
      BY <2>1, <3>1, HandlerEnds
  <2>5. QED
    BY <2>3, <2>4
<1>5. QED
  BY <1>1, <1>2, <1>3, <1>4

LEMMA HandlerRunsDry ==
  ASSUME TypeOK, NEW r \in Requests, NEW j \in Jobs, HandlerStep(r)
  PROVE  RunsDry(j)
<1>1. ASSUME NEW k \in Jobs, CreateCommit(r, k) \/ RunCommit(r, k)
      PROVE  RunsDry(j)
  <2>1. jobStatus[k] = "none" /\ jobStatus' = [jobStatus EXCEPT ![k] = "pending"]
    BY <1>1 DEF CreateCommit, RunCommit, InsertJob, FreshJob
  <2>2. jobStatus[j] \in FinishedJob => jobStatus'[j] \in FinishedJob
    BY <2>1 DEF FinishedJob, TerminalJob, TypeOK
  <2>3. PICK s : Becomes(r, s) /\ s.at \in {"idle", "run"}
    <3>1. CASE CreateCommit(r, k)
      BY <3>1 DEF CreateCommit, Idle
    <3>2. CASE RunCommit(r, k)
      <4>1. PICK p \in request[r].policies :
              Becomes(r, IF request[r].policies \ {p} = {}
                           THEN Idle ELSE [request[r] EXCEPT !.policies = request[r].policies \ {p}])
        BY <3>2 DEF RunCommit
      <4>2. request[r].at = "run"
        BY <3>2 DEF RunCommit
      <4>3. [request[r] EXCEPT !.policies = request[r].policies \ {p}].at = "run"
        BY <4>2, RequestShape
      <4>4. Idle.at = "idle"
        BY DEF Idle
      <4>5. QED
        BY <4>1, <4>3, <4>4
    <3>3. QED
      BY <1>1, <3>1, <3>2
  <2>4. request'[r] = s
    BY <2>3 DEF Becomes, TypeOK
  <2>5. ~MayRevive(r, j)'
    BY <2>3, <2>4 DEF MayRevive
  <2>6. QED
    BY <2>2, <2>3, <2>5, StaysEnded
<1>2. CASE CancelCommit(r) \/ RequestFails(r)
  <2>1. Becomes(r, Idle)
    BY <1>2 DEF CancelCommit, RequestFails
  <2>2. jobStatus[j] \in FinishedJob => jobStatus'[j] \in FinishedJob
    BY <1>2 DEF CancelCommit, RequestFails, database, FinishedJob, TerminalJob, TypeOK
  <2>3. QED
    BY <2>1, <2>2, HandlerEnds
<1>3. CASE StatusReadJob(r)
  <2>1. request[r].at = "status_job" /\ jobStatus' = jobStatus
    BY <1>3 DEF StatusReadJob, database
  <2>2. CASE jobStatus[request[r].job] = "pending"
    <3> DEFINE s == [request[r] EXCEPT !.at = "status_commit"]
    <3>1. Becomes(r, s)
      BY <1>3, <2>2 DEF StatusReadJob
    <3>2. request'[r] = s /\ s.at = "status_commit" /\ s.job = request[r].job
      BY <2>1, <3>1, RequestShape DEF Becomes, TypeOK
    <3>3. jobStatus[j] \in FinishedJob => ~MayRevive(r, j)'
      BY <2>2, <3>2 DEF MayRevive, FinishedJob, TerminalJob
    <3>4. CASE jobStatus[j] \in FinishedJob
      BY <2>1, <3>1, <3>3, <3>4, StaysEnded
    <3>5. QED
      BY <3>4 DEF RunsDry
  <2>3. CASE jobStatus[request[r].job] # "pending"
    BY <1>3, <2>1, <2>3, HandlerEnds DEF StatusReadJob
  <2>4. QED
    BY <2>2, <2>3
<1>4. CASE StatusCommit(r)
  <2>1. /\ request[r].at = "status_commit" /\ Exists(request[r].job) /\ Becomes(r, Idle)
        /\ jobStatus' = [jobStatus EXCEPT ![request[r].job] = "running"]
    BY <1>4 DEF StatusCommit
  <2>2. CASE request[r].job = j
    <3>1. MayRevive(r, j)
      BY <2>1, <2>2 DEF MayRevive
    <3>2. jobStatus[j] # "deleted" /\ jobStatus'[j] = "running"
      BY <2>1, <2>2 DEF Exists, TypeOK
    <3>3. QED
      BY <2>1, <3>1, <3>2, HandlerEnds
  <2>3. CASE request[r].job # j
    <3>1. jobStatus'[j] = jobStatus[j]
      BY <2>1, <2>3 DEF TypeOK
    <3>2. QED
      BY <2>1, <3>1, HandlerEnds
  <2>4. QED
    BY <2>2, <2>3
<1>5. QED
  BY <1>1, <1>2, <1>3, <1>4, ReportRunsDry DEF HandlerStep

LEMMA StepRunsDry ==
  ASSUME TypeOK, [Next]_vars, NEW j \in Jobs
  PROVE  RunsDry(j)
<1>1. ASSUME NEW r \in Requests, NEW s, Becomes(r, s), jobStatus' = jobStatus,
             s.at \in {"create", "run", "cancel", "status_job"}
      PROVE  RunsDry(j)
  <2>1. request'[r] = s
    BY <1>1 DEF Becomes, TypeOK
  <2>2. ~MayRevive(r, j)'
    BY <1>1, <2>1 DEF MayRevive
  <2>3. QED
    BY <1>1, <2>2, StaysEnded
<1>2. CASE UserStep
  <2>1. ASSUME NEW r \in Users, NEW p \in Policies, CreateBegin(r, p)
        PROVE  RunsDry(j)
    BY <1>1, <2>1 DEF CreateBegin, database, Requests
  <2>2. ASSUME NEW r \in Users, NEW h \in Hosts, RunBegin(r, h)
        PROVE  RunsDry(j)
    BY <1>1, <2>2 DEF RunBegin, database, Requests
  <2>3. ASSUME NEW r \in Users, NEW k \in Jobs, CancelBegin(r, k)
        PROVE  RunsDry(j)
    BY <1>1, <2>3 DEF CancelBegin, database, Requests
  <2>4. ASSUME NEW p \in Policies, TogglePolicy(p) \/ DeletePolicy(p)
        PROVE  RunsDry(j)
    <3>1. request' = request /\ jobStatus'[j] \in {jobStatus[j], "deleted"}
      BY <2>4 DEF TogglePolicy, DeletePolicy
    <3>2. QED
      BY <3>1, NoHandlerRevives DEF FinishedJob
  <2>5. QED
    BY <1>2, <2>1, <2>2, <2>3, <2>4 DEF UserStep
<1>3. ASSUME NEW m \in net, NEW r \in Calls, StatusUpdateRow(r, m)
      PROVE  RunsDry(j)
  BY <1>1, <1>3 DEF StatusUpdateRow, Requests
<1>4. ASSUME NEW m \in net, NEW r \in Calls, ReportBegin(r, m)
      PROVE  RunsDry(j)
  <2> DEFINE s == [at |-> "report_row", job |-> m.job, host |-> m.host,
                   status |-> m.status, seen |-> SeenAs(jobStatus[m.job])]
  <2>1. Becomes(r, s) /\ jobStatus' = jobStatus /\ r \in Requests
    BY <1>4 DEF ReportBegin, database, Requests
  <2>2. request'[r] = s
    BY <2>1 DEF Becomes, TypeOK
  <2>3. jobStatus[j] \in FinishedJob => ~MayRevive(r, j)'
    BY <2>2 DEF MayRevive, SeenAs, FinishedJob, TerminalJob
  <2>4. CASE jobStatus[j] \in FinishedJob
    BY <2>1, <2>3, <2>4, StaysEnded
  <2>5. QED
    BY <2>4 DEF RunsDry
<1>5. CASE CallStep
  <2>1. ASSUME NEW m \in net, CallRefused(m) \/ CallLost(m)
        PROVE  RunsDry(j)
    BY <2>1, NoHandlerRevives DEF CallRefused, CallLost, database
  <2>2. QED
    BY <1>3, <1>4, <1>5, <2>1 DEF CallStep
<1>6. ASSUME NEW k \in Jobs, ExpireJob(k)
      PROVE  RunsDry(j)
  <2>1. request' = request /\ jobStatus[k] \in ActiveJob
        /\ \A i \in Jobs : i # k => jobStatus'[i] = jobStatus[i]
    BY <1>6 DEF ExpireJob, TypeOK
  <2>2. jobStatus[j] \in FinishedJob => jobStatus'[j] = jobStatus[j]
    BY <2>1 DEF ActiveJob, FinishedJob, TerminalJob
  <2>3. QED
    BY <2>1, <2>2, NoHandlerRevives
<1>7. CASE ServerCrash
  <2>1. jobStatus' = jobStatus /\ \A r \in Requests : request'[r] = Idle
    BY <1>7 DEF ServerCrash, database
  <2>2. \A r \in Requests : ~MayRevive(r, j)'
    BY <2>1 DEF MayRevive, Idle
  <2>3. QED
    BY <2>1, <2>2 DEF RunsDry
<1>8. ASSUME NEW c \in Collectors, AgentStep(c)
      PROVE  RunsDry(j)
  BY <1>8, NoHandlerRevives
  DEF AgentStep, Fetch, Start, OfferLost, SendDownloading, SendInstalling, Execute, SendRebooting, SendPatchReport,
      database
<1>9. CASE \/ ScanStale \/ (\E k \in Jobs : ExpireSkips(k) \/ TimePasses(k))
           \/ (\E h \in Hosts : AgentCrash(h)) \/ UNCHANGED vars
  BY <1>9, NoHandlerRevives DEF ScanStale, ExpireSkips, TimePasses, AgentCrash, vars, database
<1>10. QED
  BY <1>2, <1>5, <1>6, <1>7, <1>8, <1>9, HandlerRunsDry DEF Next, TickStep

(* However handlers, users, agents and restarts interleave, the handlers     *)
(* that read a job as pending before it ended are all that can make it run   *)
(* again: each does so at most once, none comes to them, and none brings     *)
(* back a job that went with its policy.                                     *)
THEOREM RevivalsAreUsedUp == Spec => RevivalsRunDry
<1>1. TypeOK /\ [Next]_vars =>
        [\A j \in Jobs : jobStatus[j] \in FinishedJob =>
           /\ \A r \in Requests : MayRevive(r, j)' => MayRevive(r, j)
           /\ jobStatus'[j] \notin FinishedJob =>
                /\ jobStatus[j] # "deleted" /\ jobStatus'[j] = "running"
                /\ \E r \in Requests : MayRevive(r, j) /\ ~MayRevive(r, j)']_vars
  BY StepRunsDry DEF RunsDry
<1>2. QED
  BY <1>1, TypeInit, TypeNext, PTL DEF Spec, RevivalsRunDry
=============================================================================
