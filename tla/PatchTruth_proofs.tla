------------------------- MODULE PatchTruth_proofs -------------------------
(***************************************************************************)
(* A job that is called completed was completed: the proof that the        *)
(* verdict of processAgentPatchReport is true of what the agents did.      *)
(***************************************************************************)
EXTENDS PatchJobs_proofs

(***************************************************************************)
(* TruthInv follows a success on its way from the agent that had it,        *)
(* through a call, a handler and a host row, to the verdict on the job.     *)
(* TypeNext and DispatchNext take care of DispatchInv; these are the rest.  *)
(***************************************************************************)
TruthParts ==
  AgentsTrue /\ CallsTrue /\ ReportsTrue /\ RowsTrue /\ VerdictsTrue /\ CompletedIsTrue

(* All hosts of job j are accounted for: skipped, or run without an error.  *)
AllSettled(j) == \A h \in Hosts : rows[j][h] # "none" => <<j, h>> \in settled

(* A step keeps TruthParts if it forgets no settled pair, adds hosts only   *)
(* to a job that did not exist, writes "completed" and "skipped" only in    *)
(* settled rows, calls a job completed only when all of it is settled, and  *)
(* moves handlers only to states that are true.                             *)
LEMMA TruthStands ==
  ASSUME TruthInv, settled \subseteq settled', AgentsTrue', CallsTrue',
         \A j \in Jobs, h \in Hosts :
           rows'[j][h] # "none" => rows[j][h] # "none" \/ jobStatus[j] = "none",
         \A j \in Jobs, h \in Hosts :
           rows'[j][h] \in {"completed", "skipped"} =>
             rows'[j][h] = rows[j][h] \/ <<j, h>> \in settled',
         \A j \in Jobs : jobStatus'[j] = "completed" =>
           jobStatus[j] = "completed" \/ (jobStatus[j] # "none" /\ AllSettled(j)),
         \A q \in Requests :
           \/ request'[q] = request[q]
           \/ request'[q].at \notin {"report_row", "report_skip", "report_commit"}
           \/ /\ request'[q].at = "report_row"
              /\ request'[q].status = "completed" =>
                   <<request'[q].job, request'[q].host>> \in settled
           \/ /\ request'[q].at \in {"report_skip", "report_commit"}
              /\ request'[q].job \in Jobs
              /\ jobStatus[request'[q].job] # "none"
              /\ request'[q].update = "completed" => AllSettled(request'[q].job)
  PROVE  TruthParts'
<1>1. RowsTrue'
  BY DEF TruthInv, RowsTrue
<1>2. ReportsTrue'
  BY DEF TruthInv, ReportsTrue
<1>3. CompletedIsTrue'
  BY DEF TruthInv, CompletedIsTrue, AllSettled
<1>4. VerdictsTrue'
  <2>1. SUFFICES ASSUME NEW q \in Requests, NEW h \in Hosts,
                        request'[q].at \in {"report_skip", "report_commit"},
                        request'[q].update = "completed", rows'[request'[q].job][h] # "none"
                 PROVE  <<request'[q].job, h>> \in settled'
    BY DEF VerdictsTrue
  <2>2. CASE request'[q] = request[q]
    <3>1. request[q].job \in Jobs /\ jobStatus[request[q].job] # "none"
      BY <2>1, <2>2, RequestShape DEF TruthInv, DispatchInv, HandlersKnowTheirJob
    <3>2. rows[request[q].job][h] # "none"
      BY <2>1, <2>2, <3>1
    <3>3. <<request[q].job, h>> \in settled
      BY <2>1, <2>2, <3>2 DEF TruthInv, VerdictsTrue
    <3>4. QED
      BY <2>2, <3>3
  <2>3. CASE request'[q] # request[q]
    <3>1. request'[q].job \in Jobs /\ jobStatus[request'[q].job] # "none"
          /\ AllSettled(request'[q].job)
      BY <2>1, <2>3
    <3>2. rows[request'[q].job][h] # "none"
      BY <2>1, <3>1
    <3>3. QED
      BY <3>1, <3>2 DEF AllSettled
  <2>4. QED
    BY <2>2, <2>3
<1>5. QED
  BY <1>1, <1>2, <1>3, <1>4 DEF TruthParts

(* Calls and agents are true after a step that does not touch them.         *)
LEMMA OthersStand ==
  ASSUME TruthInv, settled \subseteq settled'
  PROVE  /\ collector' = collector => AgentsTrue'
         /\ net' \subseteq net => CallsTrue'
BY DEF TruthInv, AgentsTrue, CallsTrue

(* A call that is sent again says what it said before.                      *)
LEMMA ReceiveStands ==
  ASSUME TruthInv, settled \subseteq settled', NEW m \in net, Receive(m)
  PROVE  CallsTrue'
<1>1. m \in Messages
  BY DEF TruthInv, DispatchInv, TypeOK
<1>2. \A n \in Resent(m) : n.job = m.job /\ n.host = m.host /\ n.status = m.status
  BY <1>1 DEF Resent, Messages
<1>3. \A n \in net' : \E k \in net : n.job = k.job /\ n.host = k.host /\ n.status = k.status
  BY <1>2 DEF Receive
<1>4. QED
  BY <1>3 DEF TruthInv, CallsTrue

(* A step that only moves a handler, and perhaps receives a call.           *)
LEMMA HandlerTrue ==
  ASSUME TruthInv, CallsTrue', NEW r \in Requests, NEW s, Becomes(r, s),
         UNCHANGED <<jobStatus, rows, settled, collector>>,
         \/ s.at \notin {"report_row", "report_skip", "report_commit"}
         \/ /\ s.at = "report_row"
            /\ s.status = "completed" => <<s.job, s.host>> \in settled
         \/ /\ s.at \in {"report_skip", "report_commit"}
            /\ s.job \in Jobs
            /\ jobStatus[s.job] # "none"
            /\ s.update = "completed" => AllSettled(s.job)
  PROVE  TruthParts'
<1>1. \A q \in Requests : request'[q] = request[q] \/ request'[q] = s
  BY DEF Becomes, TruthInv, DispatchInv, TypeOK
<1>2. AgentsTrue'
  BY OthersStand
<1>3. \A j \in Jobs : jobStatus'[j] = "completed" => jobStatus[j] = "completed"
  OBVIOUS
<1>4. QED
  BY <1>1, <1>2, <1>3, TruthStands

(* A step that writes rows, and perhaps jobs, but calls none completed, and *)
(* returns its handler to a state in which it knows no result.              *)
LEMMA RowsMove ==
  ASSUME TruthInv, CallsTrue', RecordEnds, collector' = collector,
         \A j \in Jobs, h \in Hosts :
           rows'[j][h] # "none" => rows[j][h] # "none" \/ jobStatus[j] = "none",
         \A j \in Jobs, h \in Hosts :
           rows'[j][h] = "completed" => rows[j][h] = "completed" \/ <<j, h>> \in settled,
         \A j \in Jobs : jobStatus'[j] = "completed" => jobStatus[j] = "completed",
         \A q \in Requests :
           \/ request'[q] = request[q]
           \/ request'[q].at \notin {"report_row", "report_skip", "report_commit"}
  PROVE  TruthParts'
<1>1. settled \subseteq settled'
  BY DEF RecordEnds
<1>2. AgentsTrue'
  BY <1>1, OthersStand
<1>3. \A j \in Jobs, h \in Hosts :
        rows'[j][h] \in {"completed", "skipped"} =>
          rows'[j][h] = rows[j][h] \/ <<j, h>> \in settled'
  BY DEF RecordEnds
<1>4. QED
  BY <1>1, <1>2, <1>3, TruthStands

(* A step that only touches agents and the network.                         *)
LEMMA AgentsMove ==
  ASSUME TruthInv, AgentsTrue', CallsTrue', settled \subseteq settled',
         UNCHANGED <<jobStatus, rows, request>>
  PROVE  TruthParts'
<1>1. \A j \in Jobs, h \in Hosts : rows'[j][h] = rows[j][h]
  OBVIOUS
<1>2. \A j \in Jobs : jobStatus'[j] = "completed" => jobStatus[j] = "completed"
  OBVIOUS
<1>3. QED
  BY <1>1, <1>2, TruthStands
-----------------------------------------------------------------------------
(* Nothing has happened at first.                                           *)
LEMMA TruthInit == Init => TruthInv
<1> SUFFICES ASSUME Init PROVE TruthInv
  OBVIOUS
<1>1. DispatchInv
  BY DispatchInit
<1>2. QED
  BY <1>1 DEF Init, TruthInv, AgentsTrue, CallsTrue, ReportsTrue, RowsTrue, VerdictsTrue,
              CompletedIsTrue, Idle

(* The verdict on a job: with no host active, none failed and none with     *)
(* errors, every host of it is completed or skipped.                        *)
LEMMA VerdictIsTrue ==
  ASSUME TruthInv, NEW j \in Jobs, NEW seen \in Seen, ReportedStatus(j, seen) = "completed"
  PROVE  AllSettled(j)
<1>1. HostsIn(j, ActiveHost) = {} /\ Verdict(j) = "completed"
  BY DEF ReportedStatus
<1>2. HostsIn(j, {"completed_with_errors"}) = {} /\ HostsIn(j, {"failed"}) = {}
  BY <1>1 DEF Verdict
<1>3. \A h \in Hosts : rows[j][h] \in {"none", "skipped", "completed"}
  BY <1>1, <1>2 DEF HostsIn, ActiveHost, TruthInv, DispatchInv, TypeOK, HostStatus, Results
<1>4. QED
  BY <1>3 DEF AllSettled, TruthInv, RowsTrue

(* Creating a job adds pending rows to a job that did not exist.            *)
LEMMA BirthIsTrue ==
  ASSUME TruthInv, NEW j \in Jobs, NEW p, NEW hosts, InsertJob(j, p, hosts),
         \A q \in Requests :
           request'[q] = request[q] \/ request'[q].at \in {"idle", "create", "run"}
  PROVE  TruthParts'
<1>1. /\ RecordEnds
      /\ jobStatus[j] = "none"
      /\ jobStatus'[j] = "pending"
      /\ UNCHANGED <<net, collector>>
  BY DEF InsertJob, FreshJob, TruthInv, DispatchInv, TypeOK
<1>2. \A h \in Hosts : rows'[j][h] # "completed"
  BY DEF InsertJob, TruthInv, DispatchInv, TypeOK
<1>3. \A k \in Jobs \ {j} : jobStatus'[k] = jobStatus[k] /\ rows'[k] = rows[k]
  BY DEF InsertJob, TruthInv, DispatchInv, TypeOK
<1>4. CallsTrue'
  BY <1>1, OthersStand DEF RecordEnds
<1>5. QED
  BY <1>1, <1>2, <1>3, <1>4, RowsMove

(* Every step keeps the invariant: one case per action of PatchJobs.        *)
LEMMA TruthNext == TruthInv /\ [Next]_vars => TruthInv'
<1> SUFFICES ASSUME TruthInv, [Next]_vars PROVE TruthInv'
  OBVIOUS
<1>1. DispatchInv /\ TypeOK /\ DispatchInv'
  BY DispatchNext DEF TruthInv, DispatchInv
<1>2. SUFFICES TruthParts'
  BY <1>1 DEF TruthParts, TruthInv
<1> USE <1>1 DEF Requests
<1>3. ASSUME NEW r \in Users, NEW p \in Policies, CreateBegin(r, p) PROVE TruthParts'
  <2>1. PICK work \in SUBSET Hosts :
          Becomes(r, [at |-> "create", policy |-> p, hosts |-> work])
    BY <1>3, TargetsAssumption DEF CreateBegin
  <2>2. QED
    BY <1>3, <2>1, OthersStand, HandlerTrue DEF CreateBegin, database, history
<1>4. ASSUME NEW r \in Users, NEW h \in Hosts, RunBegin(r, h) PROVE TruthParts'
  <2>1. PICK ps \in SUBSET Policies : Becomes(r, [at |-> "run", host |-> h, policies |-> ps])
    BY <1>4 DEF RunBegin
  <2>2. QED
    BY <1>4, <2>1, OthersStand, HandlerTrue DEF RunBegin, database, history
<1>5. ASSUME NEW r \in Users, NEW j \in Jobs, CancelBegin(r, j) PROVE TruthParts'
  BY <1>5, OthersStand, HandlerTrue DEF CancelBegin, database, history
<1>6. ASSUME NEW p \in Policies, TogglePolicy(p) PROVE TruthParts'
  BY <1>6, OthersStand, AgentsMove DEF TogglePolicy, history
<1>7. ASSUME NEW p \in Policies, DeletePolicy(p) PROVE TruthParts'
  <2>1. /\ RecordEnds
        /\ UNCHANGED <<request, net, collector>>
        /\ \A k \in JobsOf(p) : jobStatus'[k] = "deleted" /\ rows'[k] = [h \in Hosts |-> "none"]
        /\ \A k \in Jobs \ JobsOf(p) : jobStatus'[k] = jobStatus[k] /\ rows'[k] = rows[k]
    BY <1>7 DEF DeletePolicy, JobsOf, TypeOK
  <2>2. \A k \in Jobs, h \in Hosts : rows'[k][h] # "none" => rows'[k][h] = rows[k][h]
    BY <2>1
  <2>3. \A k \in Jobs : jobStatus'[k] = "completed" => jobStatus[k] = "completed"
    BY <2>1
  <2>4. CallsTrue'
    BY <2>1, OthersStand DEF RecordEnds
  <2>5. QED
    BY <2>1, <2>2, <2>3, <2>4, RowsMove
<1>8. ASSUME NEW m \in net, NEW r \in Calls, StatusUpdateRow(r, m) PROVE TruthParts'
  <2>1. m.job \in Jobs /\ m.host \in Hosts /\ m.status = "working" /\ rows[m.job][m.host] # "none"
    BY <1>8 DEF StatusUpdateRow, Messages, AgentStatus, TypeOK
  <2>2. \A k \in Jobs, h \in Hosts :
          rows'[k][h] = rows[k][h] \/ (k = m.job /\ h = m.host /\ rows'[k][h] = "working")
    BY <1>8, <2>1 DEF StatusUpdateRow, TypeOK
  <2>3. \A q \in Requests : request'[q] = request[q] \/ request'[q].at = "status_job"
    BY <1>8 DEF StatusUpdateRow, Becomes, TypeOK
  <2>4. RecordEnds /\ UNCHANGED <<jobStatus, collector>>
    BY <1>8 DEF StatusUpdateRow
  <2>5. CallsTrue'
    BY <1>8, <2>4, ReceiveStands DEF StatusUpdateRow, RecordEnds
  <2>6. QED
    BY <2>1, <2>2, <2>3, <2>4, <2>5, RowsMove
<1>9. ASSUME NEW m \in net, NEW r \in Calls, ReportBegin(r, m) PROVE TruthParts'
  <2>1. PICK seen \in Seen :
          Becomes(r, [at |-> "report_row", job |-> m.job, host |-> m.host,
                      status |-> m.status, seen |-> seen])
    BY <1>9 DEF ReportBegin, SeenAs, Seen
  <2>2. m.status = "completed" => <<m.job, m.host>> \in settled
    BY DEF TruthInv, CallsTrue
  <2>3. UNCHANGED <<jobStatus, rows, settled, collector>>
    BY <1>9 DEF ReportBegin, database, history
  <2>4. CallsTrue'
    BY <1>9, <2>3, ReceiveStands DEF ReportBegin
  <2>5. QED
    BY <2>1, <2>2, <2>3, <2>4, HandlerTrue
<1>10. ASSUME NEW m \in net, CallRefused(m) \/ CallLost(m) PROVE TruthParts'
  <2>1. CallsTrue'
    BY <1>10, ReceiveStands, OthersStand DEF CallRefused, CallLost, history
  <2>2. QED
    BY <1>10, <2>1, OthersStand, AgentsMove DEF CallRefused, CallLost, database, history
<1>11. ASSUME NEW r \in Requests, NEW j \in Jobs, CreateCommit(r, j) PROVE TruthParts'
  <2>1. \A q \in Requests : request'[q] = request[q] \/ request'[q].at = "idle"
    BY <1>11 DEF CreateCommit, Becomes, Idle, TypeOK
  <2>2. QED
    BY <1>11, <2>1, BirthIsTrue DEF CreateCommit
<1>12. ASSUME NEW r \in Requests, NEW j \in Jobs, RunCommit(r, j) PROVE TruthParts'
  <2>1. PICK p \in request[r].policies :
          LET left == request[r].policies \ {p} IN
            /\ InsertJob(j, p, {request[r].host})
            /\ Becomes(r, IF left = {} THEN Idle ELSE [request[r] EXCEPT !.policies = left])
    BY <1>12 DEF RunCommit
  <2>2. request[r] \in [at : {"run"}, host : Hosts, policies : SUBSET Policies]
    BY <1>12, RequestShape DEF RunCommit
  <2>3. \A q \in Requests : request'[q] = request[q] \/ request'[q].at \in {"idle", "run"}
    BY <2>1, <2>2 DEF Becomes, Idle, TypeOK
  <2>4. QED
    BY <2>1, <2>3, BirthIsTrue
<1>13. ASSUME NEW r \in Requests, CancelCommit(r) PROVE TruthParts'
  <2>1. request[r].job \in Jobs
    BY <1>13, RequestShape DEF CancelCommit
  <2>2. \A k \in Jobs, h \in Hosts :
          rows'[k][h] = rows[k][h] \/ (rows[k][h] = "pending" /\ rows'[k][h] = "skipped")
    BY <1>13, <2>1 DEF CancelCommit, SkipPending, TypeOK
  <2>3. \A k \in Jobs : jobStatus'[k] = jobStatus[k] \/ jobStatus'[k] = "cancelled"
    BY <1>13, <2>1 DEF CancelCommit, TypeOK
  <2>4. \A q \in Requests : request'[q] = request[q] \/ request'[q].at = "idle"
    BY <1>13 DEF CancelCommit, Becomes, Idle, TypeOK
  <2>5. RecordEnds /\ UNCHANGED <<net, collector>>
    BY <1>13 DEF CancelCommit
  <2>6. QED
    BY <2>2, <2>3, <2>4, <2>5, OthersStand, RowsMove DEF RecordEnds
<1>14. ASSUME NEW r \in Requests, StatusReadJob(r) PROVE TruthParts'
  <2>1. request[r] \in [at : {"cancel", "status_job", "status_commit"}, job : Jobs]
    BY <1>14, RequestShape DEF StatusReadJob
  <2>2. PICK s : Becomes(r, s) /\ s.at \in {"idle", "status_commit"}
    BY <1>14, <2>1 DEF StatusReadJob, Idle
  <2>3. QED
    BY <1>14, <2>2, OthersStand, HandlerTrue DEF StatusReadJob, database, history
<1>15. ASSUME NEW r \in Requests, StatusCommit(r) PROVE TruthParts'
  <2>1. request[r].job \in Jobs
    BY <1>15, RequestShape DEF StatusCommit
  <2>2. \A k \in Jobs : jobStatus'[k] = jobStatus[k] \/ jobStatus'[k] = "running"
    BY <1>15, <2>1 DEF StatusCommit, TypeOK
  <2>3. \A q \in Requests : request'[q] = request[q] \/ request'[q].at = "idle"
    BY <1>15 DEF StatusCommit, Becomes, Idle, TypeOK
  <2>4. RecordEnds /\ UNCHANGED <<rows, net, collector>>
    BY <1>15 DEF StatusCommit
  <2>5. QED
    BY <2>2, <2>3, <2>4, OthersStand, RowsMove DEF RecordEnds
<1>16. ASSUME NEW r \in Requests, ReportUpdateRow(r) PROVE TruthParts'
  <2>1. request[r] \in [at : {"report_row"}, job : Jobs, host : Hosts, status : Results, seen : Seen]
    BY <1>16, RequestShape DEF ReportUpdateRow
  <2>2. \A k \in Jobs, h \in Hosts :
          \/ rows'[k][h] = rows[k][h]
          \/ /\ k = request[r].job /\ h = request[r].host
             /\ rows[k][h] # "none"
             /\ rows'[k][h] = request[r].status
    BY <1>16, <2>1 DEF ReportUpdateRow, TypeOK
  <2>3. request[r].status = "completed" => <<request[r].job, request[r].host>> \in settled
    BY <1>16 DEF ReportUpdateRow, TruthInv, ReportsTrue
  <2>4. \A q \in Requests : request'[q] = request[q] \/ request'[q].at = "report_count"
    BY <1>16 DEF ReportUpdateRow, Becomes, TypeOK
  <2>5. RecordEnds /\ UNCHANGED <<jobStatus, net, collector>>
    BY <1>16 DEF ReportUpdateRow
  <2>6. QED
    BY <2>2, <2>3, <2>4, <2>5, OthersStand, RowsMove DEF RecordEnds
<1>17. ASSUME NEW r \in Requests, ReportCount(r) PROVE TruthParts'
  <2>1. request[r] \in [at : {"report_count"}, job : Jobs, seen : Seen]
    BY <1>17, RequestShape DEF ReportCount
  <2>2. PICK at \in {"report_skip", "report_commit"} :
          Becomes(r, [at |-> at, job |-> request[r].job,
                      update |-> ReportedStatus(request[r].job, request[r].seen)])
    BY <1>17 DEF ReportCount
  <2>3. jobStatus[request[r].job] # "none"
    BY <1>17 DEF ReportCount, Exists
  <2>4. ReportedStatus(request[r].job, request[r].seen) = "completed" => AllSettled(request[r].job)
    BY <2>1, VerdictIsTrue
  <2>5. UNCHANGED <<jobStatus, rows, settled, net, collector>>
    BY <1>17 DEF ReportCount, database, history
  <2>6. QED
    BY <2>1, <2>2, <2>3, <2>4, <2>5, OthersStand, HandlerTrue
<1>18. ASSUME NEW r \in Requests, ReportSkip(r) PROVE TruthParts'
  <2>1. request[r] \in [at : {"report_skip", "report_commit"}, job : Jobs, update : Updates]
    BY <1>18, RequestShape DEF ReportSkip
  <2>2. jobStatus[request[r].job] # "none"
    BY <1>18 DEF ReportSkip, DispatchInv, HandlersKnowTheirJob
  <2>3. \A k \in Jobs, h \in Hosts :
          rows'[k][h] = rows[k][h] \/ (rows[k][h] = "pending" /\ rows'[k][h] = "skipped")
    BY <1>18, <2>1 DEF ReportSkip, SkipPending, TypeOK
  <2>4. request[r].update = "completed" => AllSettled(request[r].job)
    BY <1>18 DEF ReportSkip, TruthInv, VerdictsTrue, AllSettled
  <2>5. \A q \in Requests : request'[q] = request[q]
          \/ /\ request'[q].at = "report_commit"
             /\ request'[q].job = request[r].job
             /\ request'[q].update = request[r].update
    BY <1>18, <2>1 DEF ReportSkip, Becomes, TypeOK
  <2>6. RecordEnds /\ UNCHANGED <<jobStatus, net, collector>>
    BY <1>18 DEF ReportSkip
  <2>7. settled \subseteq settled'
        /\ \A k \in Jobs, h \in Hosts : rows'[k][h] = "skipped" => <<k, h>> \in settled'
    BY <2>6 DEF RecordEnds
  <2>8. AgentsTrue' /\ CallsTrue'
    BY <2>6, <2>7, OthersStand
  <2>9. QED
    BY <2>1, <2>2, <2>3, <2>4, <2>5, <2>6, <2>7, <2>8, TruthStands
<1>19. ASSUME NEW r \in Requests, ReportCommit(r) PROVE TruthParts'
  <2>1. request[r] \in [at : {"report_skip", "report_commit"}, job : Jobs, update : Updates]
    BY <1>19, RequestShape DEF ReportCommit
  <2>2. jobStatus[request[r].job] # "none"
    BY <1>19 DEF ReportCommit, Exists
  <2>3. request[r].update = "completed" => AllSettled(request[r].job)
    BY <1>19 DEF ReportCommit, TruthInv, VerdictsTrue, AllSettled
  <2>4. \A k \in Jobs : jobStatus'[k] = jobStatus[k]
          \/ (k = request[r].job /\ jobStatus'[k] = request[r].update)
    BY <1>19, <2>1 DEF ReportCommit, TypeOK
  <2>5. \A q \in Requests : request'[q] = request[q] \/ request'[q].at = "idle"
    BY <1>19 DEF ReportCommit, Becomes, Idle, TypeOK
  <2>6. RecordEnds /\ UNCHANGED <<rows, net, collector>>
    BY <1>19 DEF ReportCommit
  <2>7. settled \subseteq settled' /\ AgentsTrue' /\ CallsTrue'
    BY <2>6, OthersStand DEF RecordEnds
  <2>8. QED
    BY <2>2, <2>3, <2>4, <2>5, <2>6, <2>7, TruthStands
<1>20. ASSUME NEW r \in Requests, RequestFails(r) PROVE TruthParts'
  BY <1>20, OthersStand, HandlerTrue DEF RequestFails, Idle, database, history
<1>21. ASSUME NEW j \in Jobs, ExpireJob(j) PROVE TruthParts'
  <2>1. \A k \in Jobs, h \in Hosts :
          rows'[k][h] = rows[k][h] \/ (rows[k][h] \in ActiveHost /\ rows'[k][h] = "failed")
    BY <1>21 DEF ExpireJob, ExpireRows, TypeOK
  <2>2. \A k \in Jobs : jobStatus'[k] = jobStatus[k]
          \/ jobStatus'[k] \in {"completed_with_errors", "failed"}
    BY <1>21 DEF ExpireJob, TypeOK
  <2>3. RecordEnds /\ UNCHANGED <<request, net, collector>>
    BY <1>21 DEF ExpireJob
  <2>4. QED
    BY <2>1, <2>2, <2>3, OthersStand, RowsMove DEF RecordEnds, ActiveHost
<1>22. ASSUME ServerCrash PROVE TruthParts'
  <2>1. \A q \in Requests : request'[q].at = "idle"
    BY <1>22 DEF ServerCrash, Idle
  <2>2. UNCHANGED <<jobStatus, rows, settled, net, collector>>
    BY <1>22 DEF ServerCrash, database, history
  <2>3. QED
    BY <2>1, <2>2, OthersStand, TruthStands
<1>23. ASSUME NEW j \in Jobs, TimePasses(j) \/ ExpireSkips(j) PROVE TruthParts'
  BY <1>23, OthersStand, AgentsMove DEF TimePasses, ExpireSkips, database, history
<1>24. ASSUME ScanStale PROVE TruthParts'
  BY <1>24, OthersStand, AgentsMove DEF ScanStale, database, history
<1>25. ASSUME NEW c \in Collectors, AgentStep(c) PROVE TruthParts'
  <2>1. UNCHANGED <<jobStatus, rows, request>> /\ settled \subseteq settled'
    BY <1>25 DEF AgentStep, Fetch, Start, OfferLost, SendDownloading, SendInstalling, Execute,
                 SendRebooting, SendPatchReport, database, history
  <2>2. \A d \in Collectors \ {c} : collector'[d] = collector[d]
    BY <1>25 DEF AgentStep, Fetch, Start, OfferLost, SendDownloading, SendInstalling, Execute,
                 SendRebooting, SendPatchReport, TypeOK
  <2>3. collector'[c].at \in {"executed", "rebooting"} /\ collector'[c].result = "completed"
          => <<collector'[c].job, HostOf[c]>> \in settled'
    <3>1. CASE Fetch(c) \/ Start(c) \/ OfferLost(c) \/ SendDownloading(c) \/ SendInstalling(c) \/ SendPatchReport(c)
      BY <3>1, CollectorShape DEF Fetch, Start, OfferLost, SendDownloading, SendInstalling, SendPatchReport, Idle, TypeOK
    <3>2. CASE Execute(c)
      BY <3>2 DEF Execute, TypeOK
    <3>3. CASE SendRebooting(c)
      <4>1. collector[c] \in [at : {"executed", "rebooting"}, job : Jobs, result : Results]
        BY <3>3, CollectorShape DEF SendRebooting
      <4>2. collector'[c].job = collector[c].job /\ collector'[c].result = collector[c].result
        BY <3>3, <4>1 DEF SendRebooting, TypeOK
      <4>3. QED
        BY <2>1, <3>3, <4>2 DEF SendRebooting, TruthInv, AgentsTrue
    <3>4. QED
      BY <1>25, <3>1, <3>2, <3>3 DEF AgentStep
  <2>4. AgentsTrue'
    BY <2>1, <2>2, <2>3 DEF TruthInv, AgentsTrue
  <2>5. CallsTrue'
    <3>1. CASE net' = net
      BY <2>1, <3>1, OthersStand
    <3>2. CASE SendDownloading(c) \/ SendInstalling(c) \/ SendRebooting(c)
      <4>1. \A n \in net' : n \in net \/ n.status = "working"
        BY <3>2 DEF SendDownloading, SendInstalling, SendRebooting, Send
      <4>2. QED
        BY <2>1, <4>1 DEF TruthInv, CallsTrue
    <3>3. CASE SendPatchReport(c)
      <4>1. collector[c].result = "completed" => <<collector[c].job, HostOf[c]>> \in settled
        BY <3>3 DEF SendPatchReport, TruthInv, AgentsTrue
      <4>2. \A n \in net' : n \in net \/
              (n.job = collector[c].job /\ n.host = HostOf[c] /\ n.status = collector[c].result)
        BY <3>3 DEF SendPatchReport, Send
      <4>3. QED
        BY <2>1, <4>1, <4>2 DEF TruthInv, CallsTrue
    <3>4. QED
      BY <1>25, <3>1, <3>2, <3>3 DEF AgentStep, Fetch, Start, OfferLost, Execute
  <2>6. QED
    BY <2>1, <2>4, <2>5, AgentsMove
<1>26. ASSUME NEW h \in Hosts, AgentCrash(h) PROVE TruthParts'
  <2>1. \A d \in Collectors : collector'[d] = collector[d] \/ collector'[d].at = "idle"
    BY <1>26 DEF AgentCrash, Idle
  <2>2. UNCHANGED <<jobStatus, rows, request, net, settled>>
    BY <1>26 DEF AgentCrash, database, history
  <2>3. AgentsTrue'
    BY <2>1, <2>2 DEF TruthInv, AgentsTrue
  <2>4. QED
    BY <2>2, <2>3, OthersStand, AgentsMove
<1>27. CASE UNCHANGED vars
  BY <1>27, OthersStand, AgentsMove DEF vars, database, history
<1>28. QED
  BY <1>3, <1>4, <1>5, <1>6, <1>7, <1>8, <1>9, <1>10, <1>11, <1>12, <1>13, <1>14, <1>15, <1>16,
     <1>17, <1>18, <1>19, <1>20, <1>21, <1>22, <1>23, <1>24, <1>25, <1>26, <1>27
     DEF Next, UserStep, CallStep, HandlerStep, TickStep

(* Whatever reports are lost, repeated or late, and whichever handlers read *)
(* and write the job at once, a job that processAgentPatchReport called     *)
(* completed has no host that was not skipped or did not really run its     *)
(* updates without an error.                                                *)
THEOREM CompletedMeansDone == Spec => []CompletedIsTrue
<1>1. Init => TruthInv
  BY TruthInit
<1>2. TruthInv /\ [Next]_vars => TruthInv'
  BY TruthNext
<1>3. TruthInv => CompletedIsTrue
  BY DEF TruthInv
<1>4. QED
  BY <1>1, <1>2, <1>3, PTL DEF Spec
=============================================================================
