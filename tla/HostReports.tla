---------------------------- MODULE HostReports ----------------------------
(***************************************************************************)
(* The periodic reports of one host (serve.go, report.go), from the agent's  *)
(* main loop to the tables of the server (POST /hosts/ping and /hosts/update *)
(* in hostRoutes.js).                                                        *)
(*                                                                           *)
(* What is reported is packages, repositories, interfaces and hostname, each *)
(* with its hash.  They are always collected, hashed and sent together, and  *)
(* are one value here, which is also its hash.                               *)
(***************************************************************************)
EXTENDS Naturals, Sequences

CONSTANTS
  Values,       \* what may be reported
  None,         \* null
  MaxChanges,   \* bound on the changes of the host
  MaxMessages,  \* bound on the messages users send to the agent
  MaxFaults,    \* bound on lost calls, failed queries and restarts
  Retries,      \* how often the HTTP client repeats a call without an answer
  Cycles        \* maxBurstCycles

ASSUME BoundsAssumption ==
  /\ MaxChanges \in Nat /\ MaxMessages \in Nat /\ MaxFaults \in Nat
  /\ Retries \in Nat /\ Cycles \in Nat \ {0}
ASSUME NoneAssumption == None \notin Values

Boot == 1                       \* the goroutine of the report at startup
Loop == 2                       \* the main loop
Reporters == {Boot, Loop}
Owners    == 1 .. 2 * (MaxFaults + 1)  \* reporters, and calls given up on
Messages  == {"report_now", "settings_update"}

Call == [owner : Owners, kind : {"ping", "update"}, value : Values,
         at : {"sent", "read"}, seen : Values \cup {None}]
Doing == [at : {"due", "idle", "pinging", "uploading", "integrating"},
          value : Values \cup {None}, tries : 0 .. Retries]

Idle == [at |-> "idle", value |-> None, tries |-> 0]
Due  == [Idle EXCEPT !.at = "due"]

VARIABLES
  host,     \* what a collection would find
  doing,    \* sendReport, of each reporter
  offset,   \* offsetPassed
  burst,    \* burstRemaining
  signal,   \* burstChan holds a request
  inbox,    \* the channel of messages
  calls,    \* HTTP calls without an answer, and those nobody waits for
  hash,     \* the host's *_hash columns
  content,  \* host_packages, host_repositories and the host's own columns
  overlap,  \* history: whether a report began before another had ended
  changes, sent, faults

loop   == <<offset, burst, signal, inbox>>
stored == <<hash, content>>
world  == <<host, changes, sent>>
vars   == <<world, doing, loop, calls, stored, overlap, faults>>

TypeOK ==
  /\ host \in Values
  /\ doing \in [Reporters -> Doing]
  /\ \A r \in Reporters : doing[r].at \in {"pinging", "uploading"} => doing[r].value \in Values
  /\ offset \in BOOLEAN
  /\ burst \in 0 .. Cycles
  /\ signal \in BOOLEAN
  /\ inbox \in Seq(Messages)
  /\ calls \subseteq Call
  /\ hash \in Values \cup {None}
  /\ content \in Values \cup {None}
  /\ overlap \in BOOLEAN
  /\ changes \in 0 .. MaxChanges
  /\ sent \in 0 .. MaxMessages
  /\ faults \in 0 .. MaxFaults

Init ==
  /\ host \in Values
  /\ doing = [r \in Reporters |-> IF r = Boot THEN Due ELSE Idle]
  /\ offset = FALSE /\ burst = 0 /\ signal = FALSE /\ inbox = <<>>
  /\ calls = {}
  /\ hash = None /\ content = None
  /\ overlap = FALSE
  /\ changes = 0 /\ sent = 0 /\ faults = 0

Fault == faults < MaxFaults /\ faults' = faults + 1

-----------------------------------------------------------------------------
Changed ==
  /\ changes < MaxChanges
  /\ \E v \in Values \ {host} : host' = v
  /\ changes' = changes + 1

ChangeByHand ==
  /\ Changed
  /\ UNCHANGED <<doing, loop, calls, sent, stored, overlap, faults>>

(***************************************************************************)
(* The main loop.  It takes a message, a tick or the end of the offset only  *)
(* between two reports.  When ticks come is left open.                       *)
(***************************************************************************)
NewCall(r, kind, v) ==
  [owner |-> r, kind |-> kind, value |-> v, at |-> "sent", seen |-> None]

(* sendReport collects, and pings with the hashes. *)
Begin(r) ==
  /\ doing' = [doing EXCEPT ![r] = [at |-> "pinging", value |-> host, tries |-> Retries]]
  /\ calls' = calls \cup {NewCall(r, "ping", host)}
  /\ overlap' = (overlap \/ \E q \in Reporters : doing[q].at \in {"pinging", "uploading"})
  /\ UNCHANGED <<world, stored, faults>>

InitialReport ==
  /\ doing[Boot].at = "due"
  /\ Begin(Boot)
  /\ UNCHANGED loop

OffsetPasses ==
  /\ doing[Loop] = Idle /\ ~offset
  /\ offset' = TRUE
  /\ UNCHANGED <<world, doing, burst, signal, inbox, calls, stored, overlap, faults>>

PeriodicReport ==
  /\ doing[Loop] = Idle /\ offset
  /\ Begin(Loop)
  /\ UNCHANGED loop

\* Mutant: the counter of a burst is not tested.
BurstGoesOn ==
  /\ doing[Loop] = Idle /\ offset
  /\ burst' = burst - 1
  /\ Begin(Loop)
  /\ UNCHANGED <<offset, signal, inbox>>

BurstReport ==
  /\ doing[Loop] = Idle /\ burst > 0
  /\ burst' = burst - 1
  /\ Begin(Loop)
  /\ UNCHANGED <<offset, signal, inbox>>

UserSends ==
  /\ sent < MaxMessages
  /\ \E m \in Messages : inbox' = Append(inbox, m)
  /\ sent' = sent + 1
  /\ UNCHANGED <<host, changes, doing, offset, burst, signal, calls, stored, overlap, faults>>

TakeReportNow ==
  /\ doing[Loop] = Idle /\ inbox # <<>> /\ Head(inbox) = "report_now"
  /\ inbox' = Tail(inbox)
  /\ Begin(Loop)
  /\ UNCHANGED <<offset, burst, signal>>

(* Another interval: a new ticker, and a new offset to wait for. *)
TakeSettings ==
  /\ doing[Loop] = Idle /\ inbox # <<>> /\ Head(inbox) = "settings_update"
  /\ inbox' = Tail(inbox)
  /\ offset' = FALSE
  /\ UNCHANGED <<world, doing, burst, signal, calls, stored, overlap, faults>>

\* Mutant: the request is left in burstChan.
EndKeepsSignal(r, raised) ==
  /\ doing' = [doing EXCEPT ![r] = Idle]
  /\ burst' = IF r = Loop /\ (signal \/ raised) THEN Cycles ELSE burst
  /\ signal' = (signal \/ raised)
  /\ UNCHANGED <<offset, inbox>>

(* sendReport returns; the main loop then drains burstChan, the goroutine of *)
(* the initial report does not.                                              *)
End(r, raised) ==
  /\ doing' = [doing EXCEPT ![r] = Idle]
  /\ burst' = IF r = Loop /\ (signal \/ raised) THEN Cycles ELSE burst
  /\ signal' = (r # Loop /\ (signal \/ raised))
  /\ UNCHANGED <<offset, inbox>>

(***************************************************************************)
(* The rest of sendReport.  A call without an answer is repeated by the      *)
(* client; the ping's context ends before a ping that is not answered in     *)
(* time could be repeated.  A refused update ends the report; any failure of *)
(* the ping is made up for by an update.                                     *)
(***************************************************************************)
Upload(r, others) ==
  /\ doing' = [doing EXCEPT ![r] = [at |-> "uploading", value |-> @.value, tries |-> Retries]]
  /\ calls' = others \cup {NewCall(r, "update", doing[r].value)}
  /\ UNCHANGED loop

Integrations(r, others) ==
  /\ doing' = [doing EXCEPT ![r] = [Idle EXCEPT !.at = "integrating"]]
  /\ calls' = others
  /\ UNCHANGED loop

GiveUp(r, others) == End(r, FALSE) /\ calls' = others

Unanswered(c, others) ==
  LET r == c.owner
  IN  \/ /\ doing[r].tries > 0
         /\ doing' = [doing EXCEPT ![r].tries = @ - 1]
         /\ calls' = others \cup {NewCall(r, c.kind, doing[r].value)}
         /\ UNCHANGED loop
      \/ doing[r].tries = 0 /\ c.kind = "ping" /\ Upload(r, others)
      \/ doing[r].tries = 0 /\ c.kind = "update" /\ GiveUp(r, others)

AnswerLost(c) == c.owner \in Reporters /\ Fault /\ Unanswered(c, calls \ {c})

(* The request is lost, or the server restarts while it handles it. *)
LoseCall(c) ==
  /\ AnswerLost(c)
  /\ UNCHANGED <<world, stored, overlap>>

(* The client gives up on a call that the server goes on to handle. *)
Adrift(c) == [c EXCEPT !.owner = 2 * faults' + @]

TimeOut(c) ==
  /\ c.owner \in Reporters /\ Fault
  /\ LET others == (calls \ {c}) \cup {Adrift(c)}
     IN  IF c.kind = "ping" THEN Upload(c.owner, others) ELSE Unanswered(c, others)
  /\ UNCHANGED <<world, stored, overlap>>

(* The integrations execute a patch job or enforce a configuration, which    *)
(* may change the host or leave it as it was.  They request burst polling    *)
(* after a patch job and after repairs, each time and without a limit.       *)
Integrate(r) ==
  /\ doing[r].at = "integrating"
  /\ \E raised \in BOOLEAN : End(r, raised)
  /\ Changed \/ UNCHANGED <<host, changes>>
  /\ UNCHANGED <<sent, calls, stored, overlap, faults>>

(* The agent restarts, or its host does.  The server goes on with the calls  *)
(* it has received.                                                          *)
AgentRestart ==
  /\ Fault
  /\ doing' = [r \in Reporters |-> IF r = Boot THEN Due ELSE Idle]
  /\ offset' = FALSE /\ burst' = 0 /\ signal' = FALSE /\ inbox' = <<>>
  /\ \E received \in SUBSET {c \in calls : c.owner \in Reporters} :
       calls' = {c \in calls : c.owner \notin Reporters} \cup {Adrift(c) : c \in received}
  /\ UNCHANGED <<world, stored, overlap>>

-----------------------------------------------------------------------------
(***************************************************************************)
(* The server.  /ping compares the hashes of the call with those of the      *)
(* host's record as it was read, and stores those of the call.  /update is   *)
(* one transaction.                                                          *)
(***************************************************************************)
PingReads(c) ==
  /\ c.kind = "ping" /\ c.at = "sent"
  /\ calls' = (calls \ {c}) \cup {[owner |-> c.owner, kind |-> c.kind, value |-> c.value,
                                     at |-> "read", seen |-> hash]}
  /\ UNCHANGED <<world, doing, loop, stored, overlap, faults>>

(* An answer may ask for an upload.  Not waited for, it changes nothing;     *)
(* otherwise it may be lost.                                                 *)
Answer(c, asks) ==
  \/ /\ c.owner \notin Reporters
     /\ calls' = calls \ {c}
     /\ UNCHANGED <<doing, loop, faults>>
  \/ /\ c.owner \in Reporters
     /\ \/ asks /\ Upload(c.owner, calls \ {c})
        \/ ~asks /\ Integrations(c.owner, calls \ {c})
     /\ UNCHANGED faults
  \/ AnswerLost(c)

\* Mutant: the record is read only when the new hashes have been stored.
PingComparesNew(c) ==
  /\ c.kind = "ping" /\ c.at = "read"
  /\ hash' = c.value
  /\ Answer(c, FALSE)
  /\ UNCHANGED <<world, content, overlap>>

PingWrites(c) ==
  /\ c.kind = "ping" /\ c.at = "read"
  /\ hash' = c.value
  /\ Answer(c, c.seen # c.value)
  /\ UNCHANGED <<world, content, overlap>>

\* Mutant: what the server has the hash of already is not written.
UpdateSkipsKnown(c) ==
  /\ c.kind = "update"
  /\ hash' = c.value
  /\ content' = IF hash = c.value THEN content ELSE c.value
  /\ Answer(c, FALSE)
  /\ UNCHANGED <<world, overlap>>

Update(c) ==
  /\ c.kind = "update"
  /\ hash' = c.value /\ content' = c.value
  /\ Answer(c, FALSE)
  /\ UNCHANGED <<world, overlap>>

(* A query fails, and the answer says so. *)
CallFails(c) ==
  /\ c.owner \in Reporters /\ Fault
  /\ IF c.kind = "ping" THEN Upload(c.owner, calls \ {c}) ELSE GiveUp(c.owner, calls \ {c})
  /\ UNCHANGED <<world, stored, overlap>>

-----------------------------------------------------------------------------
Handle(o) == \E c \in calls : c.owner = o /\ (PingReads(c) \/ PingWrites(c) \/ Update(c))

Next ==
  \/ ChangeByHand \/ UserSends \/ AgentRestart
  \/ InitialReport \/ OffsetPasses \/ PeriodicReport \/ BurstReport
  \/ TakeReportNow \/ TakeSettings
  \/ \E o \in Owners : Handle(o)
  \/ \E c \in calls : LoseCall(c) \/ TimeOut(c) \/ CallFails(c)
  \/ \E r \in Reporters : Integrate(r)

Spec == Init /\ [][Next]_vars

(* Timers fire, and a select chooses among its ready channels at random, so  *)
(* each gets its turn; calls are handled, and the loop goes on.  Nothing is   *)
(* assumed of users, of changes of the host, or of faults.                   *)
Fairness ==
  /\ SF_vars(OffsetPasses) /\ SF_vars(PeriodicReport) /\ SF_vars(BurstReport)
  /\ WF_vars(Handle(Boot)) /\ WF_vars(Handle(Loop)) /\ WF_vars(Integrate(Loop))

FairSpec == Spec /\ Fairness

-----------------------------------------------------------------------------
(* The server takes for stored what is not: it has the hash of what the host *)
(* has, but not the contents, and no report of it is on its way.             *)
SilentLoss ==
  hash = host /\ content # host /\ \A r \in Reporters : doing[r].value # host

(* Pings and updates interleave, of two reporters: no change of the host is  *)
(* lost to the server for good but by a failure, or by reports that overlap. *)
LossNeedsCause == SilentLoss => faults > 0 \/ overlap

(* "future pings will correctly detect which sections are stale" (report.go): *)
(* what the server lacks it asks for.                                        *)
StaleIsDetected == ~SilentLoss

(* Without further faults, a change whose hash the server does not have once *)
(* all calls are over is stored by a later report, whatever happened before, *)
(* and with it all that was missed.                                          *)
DifferenceIsStored ==
  (faults = MaxFaults /\ calls = {} /\ hash # host) ~> content = host

(* "Burst polling complete, reverting to normal interval" (serve.go): a      *)
(* burst ends unless requests never do.  One that its own reports extend,    *)
(* or the report at startup whose request is left in the channel, ends all   *)
(* the same once nothing more is executed or repaired.                       *)
Requested ==
  ~signal /\ \E r \in Reporters : doing[r].at = "integrating" /\ End(r, TRUE)

BurstEnds == []<><<Requested>>_vars \/ (burst > 0 ~> burst = 0)

(* The safety core of DifferenceIsStored and BurstEnds: a reporter that     *)
(* waits for an answer has a call that it is the answer to, whatever was    *)
(* lost, given up on or repeated, so neither the report at startup nor the  *)
(* main loop hangs in sendReport.                                           *)
WaitsForACall ==
  \A r \in Reporters : doing[r].at \in {"pinging", "uploading"} =>
    \E c \in calls : c.owner = r

=============================================================================
