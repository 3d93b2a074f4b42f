------------------------- MODULE HostReports_proofs -------------------------
(***************************************************************************)
(* Proofs about HostReports, for any values and any number of changes,      *)
(* messages, failures, retries and cycles.                                  *)
(***************************************************************************)
EXTENDS HostReports, TLAPS

Active(r) == doing[r].at \in {"pinging", "uploading"}

(* A reporter waits for the answer of at most one call, which is of the kind *)
(* it waits for and carries what it collected.                              *)
OneCall ==
  \A c, d \in calls : c.owner \in Reporters /\ c.owner = d.owner => c = d

CallsMatch ==
  \A c \in calls : c.owner \in Reporters =>
    /\ doing[c.owner].at = IF c.kind = "ping" THEN "pinging" ELSE "uploading"
    /\ doing[c.owner].value = c.value

Wire ==
  /\ doing \in [Reporters -> Doing]
  /\ \A r \in Reporters : Active(r) => doing[r].value \in Values
  /\ calls \subseteq Call
  /\ OneCall /\ CallsMatch

CallInv == TypeOK /\ Wire

(* What becomes of the other calls when that of r is answered or given up.   *)
Rest(r, others) ==
  /\ others \subseteq Call
  /\ \A d \in others : d.owner \in Reporters => d \in calls /\ d.owner # r

(* While nothing failed and no reports overlapped, one reporter at most is   *)
(* under way; the server has the hash of the contents, or of the upload.     *)
OneReport == \A r, q \in Reporters : Active(r) /\ Active(q) => r = q
NoneAdrift == \A c \in calls : c.owner \in Reporters
HashIsOfContent == (\A r \in Reporters : doing[r].at # "uploading") => hash = content
HashIsOfUpload == \A r \in Reporters : doing[r].at = "uploading" => hash = doing[r].value
SeenIsHash == \A c \in calls : c.kind = "ping" /\ c.at = "read" => c.seen = hash

Undisturbed == faults = 0 /\ ~overlap
Ordered == OneReport /\ NoneAdrift /\ HashIsOfContent /\ HashIsOfUpload /\ SeenIsHash
OrderInv == Undisturbed => Ordered

ReportInv == CallInv /\ OrderInv

-----------------------------------------------------------------------------
LEMMA InitInv == Init => ReportInv
<1> SUFFICES ASSUME Init PROVE ReportInv
  OBVIOUS
<1>1. Idle \in Doing /\ Due \in Doing
  BY BoundsAssumption DEF Idle, Due, Doing
<1>2. doing \in [Reporters -> Doing]
  BY <1>1 DEF Init
<1>3. \A r \in Reporters : doing[r].at \in {"due", "idle"}
  BY DEF Init, Idle, Due
<1>4. TypeOK
  <2>1. inbox \in Seq(Messages)
    BY DEF Init
  <2>2. burst \in 0 .. Cycles /\ changes \in 0 .. MaxChanges /\ sent \in 0 .. MaxMessages
        /\ faults \in 0 .. MaxFaults
    BY BoundsAssumption DEF Init
  <2>3. QED
    BY <1>2, <1>3, <2>1, <2>2 DEF Init, TypeOK
<1>5. Wire
  BY <1>2, <1>3 DEF Init, Wire, Active, OneCall, CallsMatch
<1>6. Ordered
  BY <1>3 DEF Init, Ordered, OneReport, NoneAdrift, HashIsOfContent, HashIsOfUpload, SeenIsHash, Active
<1>7. QED
  BY <1>4, <1>5, <1>6 DEF ReportInv, CallInv, OrderInv

(***************************************************************************)
(* The wire: what each move of a reporter leaves of it.                     *)
(***************************************************************************)
LEMMA NewCallIsCall ==
  ASSUME NEW r \in Reporters, NEW kind \in {"ping", "update"}, NEW v \in Values
  PROVE  /\ NewCall(r, kind, v) \in Call
         /\ NewCall(r, kind, v).owner = r
         /\ NewCall(r, kind, v).kind = kind
         /\ NewCall(r, kind, v).value = v
         /\ NewCall(r, kind, v).at = "sent"
<1>1. r \in Owners
  BY BoundsAssumption DEF Reporters, Boot, Loop, Owners
<1>2. QED
  BY <1>1 DEF NewCall, Call

(* A reporter that is not under way has no call.                            *)
LEMMA NoCall ==
  ASSUME Wire, NEW r \in Reporters, ~Active(r), NEW c \in calls
  PROVE  c.owner # r
BY DEF Wire, CallsMatch, Active

LEMMA BeginWire ==
  ASSUME CallInv, NEW r \in Reporters, ~Active(r), Begin(r)
  PROVE  Wire' /\ overlap' \in BOOLEAN
<1> DEFINE d == [at |-> "pinging", value |-> host, tries |-> Retries]
           new == NewCall(r, "ping", host)
<1>1. d \in Doing /\ host \in Values
  BY BoundsAssumption DEF Doing, CallInv, TypeOK
<1>2. new \in Call /\ new.owner = r /\ new.kind = "ping" /\ new.value = host
  BY <1>1, NewCallIsCall
<1>3. doing' = [doing EXCEPT ![r] = d] /\ calls' = calls \cup {new}
  BY DEF Begin
<1>4. doing' \in [Reporters -> Doing]
  BY <1>1, <1>3 DEF CallInv, Wire
<1>5. \A q \in Reporters : doing'[q] = IF q = r THEN d ELSE doing[q]
  BY <1>3 DEF CallInv, Wire
<1>6. \A c \in calls : c.owner # r
  BY NoCall DEF CallInv
<1>7. OneCall' /\ CallsMatch'
  BY <1>2, <1>3, <1>5, <1>6 DEF CallInv, Wire, OneCall, CallsMatch
<1>8. \A q \in Reporters : Active(q)' => doing'[q].value \in Values
  BY <1>1, <1>5 DEF CallInv, Wire, Active
<1>9. overlap' \in BOOLEAN
  BY DEF Begin, CallInv, TypeOK
<1>10. QED
  BY <1>2, <1>3, <1>4, <1>7, <1>8, <1>9 DEF CallInv, Wire

(* r goes on with a new call, or with none; others are the calls it leaves.  *)
LEMMA CallWire ==
  ASSUME Wire, NEW r \in Reporters, NEW d \in Doing, NEW kind \in {"ping", "update"}, NEW others,
         d.at = IF kind = "ping" THEN "pinging" ELSE "uploading",
         d.value = doing[r].value, d.value \in Values,
         Rest(r, others),
         doing' = [doing EXCEPT ![r] = d],
         calls' = others \cup {NewCall(r, kind, doing[r].value)}
  PROVE  Wire'
<1> DEFINE new == NewCall(r, kind, doing[r].value)
<1>1. new \in Call /\ new.owner = r /\ new.kind = kind /\ new.value = d.value
  BY NewCallIsCall
<1>2. doing' \in [Reporters -> Doing] /\ calls' \subseteq Call
  BY <1>1 DEF Wire, Rest
<1>3. \A q \in Reporters : doing'[q] = IF q = r THEN d ELSE doing[q]
  BY DEF Wire
<1>4. OneCall' /\ CallsMatch'
  BY <1>1, <1>3 DEF Wire, OneCall, CallsMatch, Rest
<1>5. \A q \in Reporters : Active(q)' => doing'[q].value \in Values
  BY <1>3 DEF Wire, Active
<1>6. QED
  BY <1>2, <1>4, <1>5 DEF Wire

LEMMA QuietWire ==
  ASSUME Wire, NEW r \in Reporters, NEW d \in Doing, NEW others,
         d.at \notin {"pinging", "uploading"}, Rest(r, others),
         doing' = [doing EXCEPT ![r] = d], calls' = others
  PROVE  Wire'
<1>1. \A q \in Reporters : doing'[q] = IF q = r THEN d ELSE doing[q]
  BY DEF Wire
<1>2. doing' \in [Reporters -> Doing]
  BY DEF Wire
<1>3. OneCall' /\ CallsMatch'
  BY <1>1 DEF Wire, OneCall, CallsMatch, Rest
<1>4. QED
  BY <1>1, <1>2, <1>3 DEF Wire, Active, Rest

LoopType ==
  /\ offset \in BOOLEAN /\ burst \in 0 .. Cycles /\ signal \in BOOLEAN
  /\ inbox \in Seq(Messages)

Waiting(c) == c \in calls /\ c.owner \in Reporters

LEMMA WaitingActive ==
  ASSUME Wire, NEW c, Waiting(c)
  PROVE  /\ doing[c.owner] \in Doing /\ doing[c.owner].value \in Values
         /\ c \in Call /\ c.value = doing[c.owner].value
         /\ c.kind = "ping" => doing[c.owner].at = "pinging"
         /\ c.kind = "update" => doing[c.owner].at = "uploading"
<1>1. c \in Call /\ doing[c.owner] \in Doing
  BY DEF Wire, Waiting
<1>2. CallsMatch /\ Active(c.owner)
  BY <1>1 DEF Wire, Waiting, CallsMatch, Active
<1>3. QED
  BY <1>1, <1>2 DEF Wire, Waiting, CallsMatch

LEMMA EndMove ==
  ASSUME Wire, LoopType, NEW r \in Reporters, NEW raised \in BOOLEAN, NEW others, Rest(r, others),
         End(r, raised), calls' = others
  PROVE  Wire' /\ LoopType'
<1>1. Idle \in Doing /\ Idle.at = "idle"
  BY BoundsAssumption DEF Idle, Doing
<1>2. Wire'
  BY <1>1, QuietWire DEF End
<1>3. LoopType'
  BY BoundsAssumption DEF End, LoopType
<1>4. QED
  BY <1>2, <1>3

LEMMA UploadMove ==
  ASSUME Wire, LoopType, NEW c, Waiting(c), NEW others, Rest(c.owner, others),
         Upload(c.owner, others)
  PROVE  Wire' /\ LoopType'
<1> DEFINE r == c.owner
           d == [at |-> "uploading", value |-> doing[r].value, tries |-> Retries]
<1>1. r \in Reporters /\ doing[r] \in Doing /\ doing[r].value \in Values
  BY WaitingActive DEF Waiting
<1>2. d \in Doing /\ d.at = "uploading" /\ d.value = doing[r].value
  BY <1>1, BoundsAssumption DEF Doing
<1>3. doing' = [doing EXCEPT ![r] = d]
  BY <1>1 DEF Upload, Wire
<1>4. Wire'
  BY <1>1, <1>2, <1>3, CallWire DEF Upload
<1>5. QED
  BY <1>4 DEF Upload, LoopType, loop

LEMMA IntegrationsMove ==
  ASSUME Wire, LoopType, NEW c, Waiting(c), NEW others, Rest(c.owner, others),
         Integrations(c.owner, others)
  PROVE  Wire' /\ LoopType'
<1>1. [Idle EXCEPT !.at = "integrating"] \in Doing
      /\ [Idle EXCEPT !.at = "integrating"].at = "integrating"
  BY BoundsAssumption DEF Idle, Doing
<1>2. Wire'
  BY <1>1, QuietWire DEF Integrations, Waiting
<1>3. QED
  BY <1>2 DEF Integrations, LoopType, loop

LEMMA UnansweredMove ==
  ASSUME Wire, LoopType, NEW c, Waiting(c), NEW others, Rest(c.owner, others),
         Unanswered(c, others)
  PROVE  Wire' /\ LoopType'
<1> DEFINE r == c.owner
<1>1. r \in Reporters /\ doing[r] \in Doing /\ doing[r].value \in Values /\ c \in Call
  BY WaitingActive DEF Waiting
<1>2. ASSUME doing[r].tries > 0,
             doing' = [doing EXCEPT ![r].tries = @ - 1],
             calls' = others \cup {NewCall(r, c.kind, doing[r].value)},
             UNCHANGED loop
      PROVE  Wire' /\ LoopType'
  <2> DEFINE d == [doing[r] EXCEPT !.tries = @ - 1]
  <2>1. d \in Doing /\ d.at = doing[r].at /\ d.value = doing[r].value
    BY <1>1, <1>2, BoundsAssumption DEF Doing
  <2>2. doing' = [doing EXCEPT ![r] = d]
    BY <1>1, <1>2 DEF Wire
  <2>3. c.kind \in {"ping", "update"}
    BY <1>1 DEF Call
  <2>4. d.at = IF c.kind = "ping" THEN "pinging" ELSE "uploading"
    BY <2>1, <2>3, WaitingActive
  <2>5. Wire'
    BY <1>1, <1>2, <2>1, <2>2, <2>3, <2>4, CallWire
  <2>6. QED
    BY <1>2, <2>5 DEF LoopType, loop
<1>3. CASE Upload(r, others)
  BY <1>3, UploadMove
<1>4. CASE GiveUp(r, others)
  BY <1>1, <1>4, EndMove DEF GiveUp
<1>5. QED
  BY <1>2, <1>3, <1>4 DEF Unanswered

LEMMA RestOfCalls ==
  ASSUME Wire, NEW c, Waiting(c)
  PROVE  Rest(c.owner, calls \ {c})
BY DEF Wire, OneCall, Rest, Waiting

(* A call that is given up is nobody's; its owners' numbers stay in bounds.  *)
LEMMA AdriftCall ==
  ASSUME Wire, NEW c, Waiting(c), TypeOK, Fault
  PROVE  /\ Adrift(c) \in Call
         /\ Adrift(c).owner \notin Reporters
<1>1. c \in Call /\ c.owner \in {1, 2}
  BY DEF Wire, Waiting, Reporters, Boot, Loop
<1>2. faults' \in 1 .. MaxFaults
  BY BoundsAssumption DEF Fault, TypeOK
<1>3. 2 * faults' + c.owner \in Owners /\ 2 * faults' + c.owner > 2
  BY <1>1, <1>2, BoundsAssumption DEF Owners
<1>4. QED
  BY <1>1, <1>3 DEF Adrift, Call, Reporters, Boot, Loop

LEMMA RestWithAdrift ==
  ASSUME Wire, NEW c, Waiting(c), TypeOK, Fault
  PROVE  Rest(c.owner, (calls \ {c}) \cup {Adrift(c)})
BY AdriftCall, RestOfCalls DEF Rest

-----------------------------------------------------------------------------
(***************************************************************************)
(* Types: one lemma for each group of steps.                                *)
(***************************************************************************)
Columns == hash \in Values \cup {None} /\ content \in Values \cup {None}
World == host \in Values /\ changes \in 0 .. MaxChanges /\ sent \in 0 .. MaxMessages

LEMMA FaultCounts ==
  ASSUME CallInv, Fault
  PROVE  faults' \in 0 .. MaxFaults /\ faults' # 0
BY BoundsAssumption DEF Fault, CallInv, TypeOK

LEMMA ChangedWorld ==
  ASSUME CallInv, Changed, UNCHANGED sent
  PROVE  World'
BY BoundsAssumption DEF Changed, CallInv, TypeOK, World

LEMMA ReportStepType ==
  ASSUME CallInv, InitialReport \/ PeriodicReport \/ BurstReport \/ TakeReportNow
  PROVE  CallInv'
<1>1. PICK r \in Reporters : Begin(r) /\ ~Active(r)
  BY DEF InitialReport, PeriodicReport, BurstReport, TakeReportNow, Reporters, Active, Idle
<1>2. Wire' /\ overlap' \in BOOLEAN
  BY <1>1, BeginWire
<1>3. LoopType'
  <2>1. CASE InitialReport \/ PeriodicReport
    BY <2>1 DEF InitialReport, PeriodicReport, loop, LoopType, CallInv, TypeOK
  <2>2. CASE BurstReport
    BY <2>2, BoundsAssumption DEF BurstReport, LoopType, CallInv, TypeOK
  <2>3. CASE TakeReportNow
    BY <2>3 DEF TakeReportNow, LoopType, CallInv, TypeOK
  <2>4. QED
    BY <2>1, <2>2, <2>3
<1>4. Columns' /\ World' /\ faults' \in 0 .. MaxFaults
  BY <1>1 DEF Begin, world, stored, Columns, World, CallInv, TypeOK
<1>5. QED
  BY <1>2, <1>3, <1>4 DEF CallInv, TypeOK, Wire, Active, LoopType, Columns, World

(* Steps of users and timers, which leave calls and reporters alone.        *)
LEMMA LoopStepType ==
  ASSUME CallInv, ChangeByHand \/ UserSends \/ OffsetPasses \/ TakeSettings
  PROVE  CallInv'
<1>1. Wire'
  BY DEF CallInv, ChangeByHand, UserSends, OffsetPasses, TakeSettings, Wire, OneCall, CallsMatch, Active
<1>2. CASE ChangeByHand
  <2>1. World'
    BY <1>2, ChangedWorld DEF ChangeByHand
  <2>2. QED
    BY <1>1, <1>2, <2>1 DEF ChangeByHand, CallInv, TypeOK, World, loop, stored
<1>3. CASE UserSends
  <2>1. sent' \in 0 .. MaxMessages
    BY <1>3, BoundsAssumption DEF UserSends, CallInv, TypeOK
  <2>2. inbox' \in Seq(Messages)
    BY <1>3 DEF UserSends, CallInv, TypeOK
  <2>3. QED
    BY <1>1, <1>3, <2>1, <2>2 DEF UserSends, CallInv, TypeOK, stored
<1>4. CASE OffsetPasses
  BY <1>1, <1>4 DEF OffsetPasses, CallInv, TypeOK, world, stored
<1>5. CASE TakeSettings
  <2>1. inbox' \in Seq(Messages)
    BY <1>5 DEF TakeSettings, CallInv, TypeOK
  <2>2. QED
    BY <1>1, <1>5, <2>1 DEF TakeSettings, CallInv, TypeOK, world, stored
<1>6. QED
  BY <1>2, <1>3, <1>4, <1>5

LEMMA IntegrateType ==
  ASSUME CallInv, NEW r \in Reporters, Integrate(r)
  PROVE  CallInv'
<1>1. PICK raised \in BOOLEAN : End(r, raised)
  BY DEF Integrate
<1>2. Rest(r, calls)
  BY NoCall DEF Integrate, CallInv, Wire, Rest, Active
<1>3. Wire' /\ LoopType'
  BY <1>1, <1>2, EndMove DEF Integrate, CallInv, TypeOK, LoopType
<1>4. World'
  BY ChangedWorld DEF Integrate, CallInv, TypeOK, World
<1>5. QED
  BY <1>3, <1>4 DEF Integrate, stored, CallInv, TypeOK, Wire, Active, LoopType, World

LEMMA LossType ==
  ASSUME CallInv, NEW c \in calls, LoseCall(c) \/ TimeOut(c) \/ CallFails(c)
  PROVE  CallInv'
<1>1. Waiting(c) /\ Fault /\ Wire /\ TypeOK /\ LoopType
  BY DEF LoseCall, AnswerLost, TimeOut, CallFails, Waiting, CallInv, LoopType, TypeOK
<1>2. Rest(c.owner, calls \ {c}) /\ Rest(c.owner, (calls \ {c}) \cup {Adrift(c)})
  BY <1>1, RestOfCalls, RestWithAdrift
<1>3. Wire' /\ LoopType'
  <2>1. CASE LoseCall(c)
    BY <1>1, <1>2, <2>1, UnansweredMove DEF LoseCall, AnswerLost
  <2>2. CASE TimeOut(c)
    BY <1>1, <1>2, <2>2, UnansweredMove, UploadMove DEF TimeOut
  <2>3. CASE CallFails(c)
    BY <1>1, <1>2, <2>3, UploadMove, EndMove DEF CallFails, GiveUp, Waiting
  <2>4. QED
    BY <2>1, <2>2, <2>3
<1>4. World' /\ Columns' /\ overlap' \in BOOLEAN
  BY DEF LoseCall, TimeOut, CallFails, world, stored, World, Columns, CallInv, TypeOK
<1>5. QED
  BY <1>1, <1>3, <1>4, FaultCounts
  DEF CallInv, TypeOK, Wire, Active, LoopType, World, Columns

LEMMA RestartType ==
  ASSUME CallInv, AgentRestart
  PROVE  CallInv'
<1>1. Idle \in Doing /\ Due \in Doing /\ Idle.at = "idle" /\ Due.at = "due"
  BY BoundsAssumption DEF Idle, Due, Doing
<1>2. /\ doing' \in [Reporters -> Doing]
      /\ \A r \in Reporters : doing'[r].at \in {"due", "idle"}
  BY <1>1 DEF AgentRestart
<1>3. PICK received \in SUBSET {c \in calls : c.owner \in Reporters} :
        calls' = {c \in calls : c.owner \notin Reporters} \cup {Adrift(c) : c \in received}
  BY DEF AgentRestart
<1>4. Fault /\ Wire /\ TypeOK
  BY DEF AgentRestart, CallInv
<1>5. \A c \in received : Adrift(c) \in Call /\ Adrift(c).owner \notin Reporters
  BY <1>3, <1>4, AdriftCall DEF Waiting
<1>6. calls' \subseteq Call /\ \A c \in calls' : c.owner \notin Reporters
  BY <1>3, <1>4, <1>5 DEF Wire
<1>7. Wire'
  BY <1>2, <1>6 DEF Wire, Active, OneCall, CallsMatch
<1>8. LoopType'
  <2>1. inbox' \in Seq(Messages)
    BY DEF AgentRestart
  <2>2. burst' \in 0 .. Cycles
    BY BoundsAssumption DEF AgentRestart
  <2>3. QED
    BY <2>1, <2>2 DEF AgentRestart, LoopType
<1>9. QED
  BY <1>2, <1>4, <1>7, <1>8, FaultCounts
  DEF AgentRestart, CallInv, TypeOK, Wire, Active, LoopType, world, stored

LEMMA PingReadsType ==
  ASSUME CallInv, NEW c \in calls, PingReads(c)
  PROVE  CallInv'
<1> DEFINE new == [owner |-> c.owner, kind |-> c.kind, value |-> c.value,
                  at |-> "read", seen |-> hash]
<1>1. c \in Call /\ calls' = (calls \ {c}) \cup {new}
  BY DEF PingReads, CallInv, Wire
<1>2. new \in Call /\ new.owner = c.owner /\ new.kind = c.kind /\ new.value = c.value
  BY <1>1 DEF Call, CallInv, TypeOK
<1>3. OneCall' /\ CallsMatch'
  BY <1>1, <1>2 DEF PingReads, CallInv, Wire, OneCall, CallsMatch
<1>4. Wire'
  BY <1>1, <1>2, <1>3 DEF PingReads, CallInv, Wire, Active
<1>5. QED
  BY <1>4 DEF PingReads, CallInv, TypeOK, Wire, world, loop, stored

(* A call that the server has handled.                                      *)
LEMMA AnswerMove ==
  ASSUME CallInv, NEW c \in calls, NEW asks \in BOOLEAN, Answer(c, asks)
  PROVE  Wire' /\ LoopType' /\ faults' \in 0 .. MaxFaults
<1>1. Wire /\ LoopType /\ TypeOK
  BY DEF CallInv, LoopType, TypeOK
<1>2. CASE c.owner \notin Reporters /\ calls' = calls \ {c} /\ UNCHANGED <<doing, loop, faults>>
  <2>1. Wire'
    BY <1>1, <1>2 DEF Wire, OneCall, CallsMatch, Active
  <2>2. QED
    BY <1>1, <1>2, <2>1 DEF loop, LoopType, TypeOK
<1>3. ASSUME Waiting(c)
      PROVE  Rest(c.owner, calls \ {c})
  BY <1>1, <1>3, RestOfCalls
<1>4. CASE c.owner \in Reporters /\ Integrations(c.owner, calls \ {c}) /\ UNCHANGED faults
  BY <1>1, <1>3, <1>4, IntegrationsMove DEF Waiting, TypeOK
<1>5. CASE c.owner \in Reporters /\ Upload(c.owner, calls \ {c}) /\ UNCHANGED faults
  BY <1>1, <1>3, <1>5, UploadMove DEF Waiting, TypeOK
<1>6. CASE AnswerLost(c)
  BY <1>1, <1>3, <1>6, UnansweredMove, FaultCounts DEF AnswerLost, Waiting
<1>7. QED
  BY <1>2, <1>4, <1>5, <1>6 DEF Answer

LEMMA HandledType ==
  ASSUME CallInv, NEW c \in calls, PingWrites(c) \/ Update(c)
  PROVE  CallInv'
<1>1. Wire' /\ LoopType' /\ faults' \in 0 .. MaxFaults
  BY AnswerMove DEF PingWrites, Update
<1>2. c.value \in Values
  BY DEF CallInv, Wire, Call
<1>3. Columns' /\ World' /\ overlap' \in BOOLEAN
  BY <1>2 DEF PingWrites, Update, Columns, World, world, CallInv, TypeOK
<1>4. QED
  BY <1>1, <1>3 DEF CallInv, TypeOK, Wire, Active, LoopType, Columns, World

LEMMA StepType == CallInv /\ [Next]_vars => CallInv'
<1> SUFFICES ASSUME CallInv, [Next]_vars PROVE CallInv'
  OBVIOUS
<1>1. CASE UNCHANGED vars
  BY <1>1 DEF vars, world, loop, stored, CallInv, TypeOK, Wire, OneCall, CallsMatch, Active
<1>2. CASE ChangeByHand \/ UserSends \/ OffsetPasses \/ TakeSettings
  BY <1>2, LoopStepType
<1>3. CASE InitialReport \/ PeriodicReport \/ BurstReport \/ TakeReportNow
  BY <1>3, ReportStepType
<1>4. CASE AgentRestart
  BY <1>4, RestartType
<1>5. CASE \E o \in Owners : Handle(o)
  BY <1>5, PingReadsType, HandledType DEF Handle
<1>6. CASE \E c \in calls : LoseCall(c) \/ TimeOut(c) \/ CallFails(c)
  BY <1>6, LossType
<1>7. CASE \E r \in Reporters : Integrate(r)
  BY <1>7, IntegrateType
<1>8. QED
  BY <1>1, <1>2, <1>3, <1>4, <1>5, <1>6, <1>7 DEF Next

(* The agent's reporters and loop, the calls and the host's columns keep     *)
(* their types: a reporter under way has something to report.               *)
THEOREM TypeCorrect == Spec => []TypeOK
<1>1. Init => CallInv
  BY InitInv DEF ReportInv
<1>2. CallInv => TypeOK
  BY DEF CallInv
<1>3. QED
  BY <1>1, <1>2, StepType, PTL DEF Spec

-----------------------------------------------------------------------------
(***************************************************************************)
(* Order: while nothing failed and no reports overlapped, a call is alone,   *)
(* so that what the server does for it no other call undoes.                 *)
(***************************************************************************)
LEMMA CallIsActive ==
  ASSUME CallInv, Ordered, NEW c \in calls
  PROVE  Waiting(c) /\ Active(c.owner)
BY DEF Ordered, NoneAdrift, CallInv, Wire, CallsMatch, Waiting, Active

LEMMA CallIsAlone ==
  ASSUME CallInv, Ordered, NEW c \in calls
  PROVE  calls = {c} /\ \A q \in Reporters : q # c.owner => ~Active(q)
<1>1. \A d \in calls : Waiting(d) /\ Active(d.owner)
  BY CallIsActive
<1>2. \A d \in calls : d.owner = c.owner
  BY <1>1 DEF Ordered, OneReport, Waiting
<1>3. \A d \in calls : d = c
  BY <1>1, <1>2 DEF CallInv, Wire, OneCall, Waiting
<1>4. QED
  BY <1>1, <1>3 DEF Ordered, OneReport, Waiting

LEMMA BeginOrder ==
  ASSUME CallInv, OrderInv, NEW r \in Reporters, ~Active(r), Begin(r), Undisturbed'
  PROVE  Ordered'
<1> DEFINE d == [at |-> "pinging", value |-> host, tries |-> Retries]
           new == NewCall(r, "ping", host)
<1>1. Ordered /\ \A q \in Reporters : ~Active(q)
  BY DEF Begin, Undisturbed, OrderInv, Active
<1>2. calls = {} /\ hash = content
  BY <1>1, CallIsActive DEF Ordered, HashIsOfContent, Waiting, Active
<1>3. \A q \in Reporters : doing'[q] = IF q = r THEN d ELSE doing[q]
  BY DEF Begin, CallInv, Wire
<1>4. host \in Values
  BY DEF CallInv, TypeOK
<1>5. calls' = {new} /\ new.owner = r /\ new.at = "sent"
  BY <1>2, <1>4, NewCallIsCall DEF Begin
<1>6. hash' = content'
  BY <1>2 DEF Begin, stored
<1>7. \A q \in Reporters : (Active(q)' <=> q = r) /\ doing'[q].at # "uploading"
  BY <1>1, <1>3 DEF Active
<1>8. QED
  BY <1>5, <1>6, <1>7
  DEF Ordered, OneReport, NoneAdrift, HashIsOfContent, HashIsOfUpload, SeenIsHash

(* A reporter that was not under way, and is not, changes nothing of this.   *)
LEMMA QuietOrder ==
  ASSUME CallInv, Ordered, NEW r \in Reporters, NEW d, ~Active(r),
         d.at \notin {"pinging", "uploading"},
         doing' = [doing EXCEPT ![r] = d], UNCHANGED <<calls, stored>>
  PROVE  Ordered'
<1>1. \A q \in Reporters : doing'[q] = IF q = r THEN d ELSE doing[q]
  BY DEF CallInv, Wire
<1>2. \A q \in Reporters : Active(q)' => q # r /\ doing'[q] = doing[q]
  BY <1>1 DEF Active
<1>3. \A q \in Reporters : doing'[q].at = "uploading" <=> doing[q].at = "uploading"
  BY <1>1 DEF Active
<1>4. QED
  BY <1>2, <1>3 DEF stored, Ordered, OneReport, NoneAdrift, HashIsOfContent, HashIsOfUpload,
                    SeenIsHash, Active

(* r, whose call c was answered, is alone: it goes on alone, or has ended.   *)
LEMMA AnsweredOrder ==
  ASSUME CallInv, Ordered, NEW c \in calls, c.owner \in Reporters, hash' = c.value,
         \/ /\ Integrations(c.owner, calls \ {c})
            /\ hash' = content'
         \/ Upload(c.owner, calls \ {c})
  PROVE  Ordered'
<1> DEFINE r == c.owner
           new == NewCall(r, "update", doing[r].value)
<1>1. calls = {c} /\ \A q \in Reporters : q # r => ~Active(q)
  BY CallIsAlone
<1>2. Waiting(c) /\ doing[r].value \in Values /\ c.value = doing[r].value
  BY WaitingActive DEF Waiting, CallInv
<1>3. \A q \in Reporters : q # r => doing'[q] = doing[q]
  BY DEF Integrations, Upload, CallInv, Wire
<1>4. CASE Integrations(r, calls \ {c}) /\ hash' = content'
  <2>1. calls' = {} /\ doing'[r].at = "integrating"
    BY <1>1, <1>4 DEF Integrations, Idle, CallInv, Wire
  <2>2. \A q \in Reporters : ~Active(q)'
    BY <1>1, <1>3, <2>1 DEF Active
  <2>3. QED
    BY <1>4, <2>1, <2>2
    DEF Ordered, OneReport, NoneAdrift, HashIsOfContent, HashIsOfUpload, SeenIsHash, Active
<1>5. CASE Upload(r, calls \ {c})
  <2>1. calls' = {new} /\ new.owner = r /\ new.kind = "update"
    BY <1>1, <1>2, <1>5, NewCallIsCall DEF Upload
  <2>2. doing'[r].at = "uploading" /\ doing'[r].value = doing[r].value
    BY <1>5 DEF Upload, CallInv, Wire
  <2>3. \A q \in Reporters : Active(q)' => q = r
    BY <1>1, <1>3 DEF Active
  <2>4. OneReport' /\ NoneAdrift' /\ SeenIsHash'
    BY <2>1, <2>3 DEF OneReport, NoneAdrift, SeenIsHash
  <2>5. HashIsOfContent' /\ HashIsOfUpload'
    BY <1>2, <2>2, <2>3 DEF HashIsOfContent, HashIsOfUpload, Active
  <2>6. QED
    BY <2>4, <2>5 DEF Ordered
<1>6. QED
  BY <1>4, <1>5

LEMMA HandledOrder ==
  ASSUME CallInv, OrderInv, NEW c \in calls, PingWrites(c) \/ Update(c), Undisturbed'
  PROVE  Ordered'
<1>1. ~Fault /\ UNCHANGED faults
  BY FaultCounts DEF Undisturbed, PingWrites, Update, Answer, AnswerLost
<1>2. Ordered
  BY <1>1 DEF Undisturbed, OrderInv, PingWrites, Update
<1>3. c.owner \in Reporters /\ hash' = c.value
  BY <1>2 DEF Ordered, NoneAdrift, PingWrites, Update
<1>4. CASE Update(c)
  BY <1>1, <1>2, <1>3, <1>4, AnsweredOrder DEF Update, Answer, AnswerLost
<1>5. CASE PingWrites(c) /\ c.seen # c.value
  BY <1>1, <1>2, <1>3, <1>5, AnsweredOrder DEF PingWrites, Answer, AnswerLost
<1>6. CASE PingWrites(c) /\ c.seen = c.value
  <2>1. c.kind = "ping" /\ c.at = "read"
    BY <1>6 DEF PingWrites
  <2>2. hash = c.value
    BY <1>2, <1>6, <2>1 DEF Ordered, SeenIsHash
  <2>3. doing[c.owner].at = "pinging"
    BY <1>3, <2>1, WaitingActive DEF Waiting, CallInv
  <2>4. \A q \in Reporters : doing[q].at # "uploading"
    BY <1>2, <2>3, CallIsAlone DEF Active
  <2>5. hash' = content'
    BY <1>2, <1>3, <1>6, <2>2, <2>4 DEF Ordered, HashIsOfContent, PingWrites
  <2>6. QED
    BY <1>1, <1>2, <1>3, <1>6, <2>5, AnsweredOrder DEF PingWrites, Answer, AnswerLost
<1>7. QED
  BY <1>4, <1>5, <1>6

LEMMA PingReadsOrder ==
  ASSUME CallInv, Ordered, NEW c \in calls, PingReads(c)
  PROVE  Ordered'
<1> DEFINE new == [owner |-> c.owner, kind |-> c.kind, value |-> c.value,
                  at |-> "read", seen |-> hash]
<1>1. calls' = (calls \ {c}) \cup {new} /\ UNCHANGED <<doing, hash, content>>
  BY DEF PingReads, stored
<1>2. NoneAdrift' /\ SeenIsHash'
  BY <1>1 DEF Ordered, NoneAdrift, SeenIsHash
<1>3. QED
  BY <1>1, <1>2 DEF Ordered, OneReport, HashIsOfContent, HashIsOfUpload, Active

LEMMA StepOrder == CallInv /\ OrderInv /\ [Next]_vars => OrderInv'
<1> SUFFICES ASSUME CallInv, OrderInv, [Next]_vars, Undisturbed' PROVE Ordered'
  BY DEF OrderInv
<1>1. CASE UNCHANGED vars
  BY <1>1 DEF vars, stored, OrderInv, Undisturbed, Ordered, OneReport, NoneAdrift, HashIsOfContent,
              HashIsOfUpload, SeenIsHash, Active
<1>2. CASE ChangeByHand \/ UserSends \/ OffsetPasses \/ TakeSettings
  <2>1. UNCHANGED <<doing, calls, stored, overlap, faults>>
    BY <1>2 DEF ChangeByHand, UserSends, OffsetPasses, TakeSettings
  <2>2. QED
    BY <2>1 DEF stored, OrderInv, Undisturbed, Ordered, OneReport, NoneAdrift, HashIsOfContent,
                HashIsOfUpload, SeenIsHash, Active
<1>3. CASE InitialReport \/ PeriodicReport \/ BurstReport \/ TakeReportNow
  <2>1. PICK r \in Reporters : Begin(r) /\ ~Active(r)
    BY <1>3 DEF InitialReport, PeriodicReport, BurstReport, TakeReportNow, Reporters, Active, Idle
  <2>2. QED
    BY <2>1, BeginOrder
<1>4. CASE AgentRestart
  BY <1>4, FaultCounts DEF AgentRestart, Undisturbed
<1>5. ASSUME NEW c \in calls, PingReads(c)
      PROVE  Ordered'
  BY <1>5, PingReadsOrder DEF PingReads, OrderInv, Undisturbed
<1>6. CASE \E o \in Owners : Handle(o)
  BY <1>5, <1>6, HandledOrder DEF Handle
<1>7. CASE \E c \in calls : LoseCall(c) \/ TimeOut(c) \/ CallFails(c)
  BY <1>7, FaultCounts DEF LoseCall, TimeOut, CallFails, AnswerLost, Undisturbed
<1>8. ASSUME NEW r \in Reporters, Integrate(r)
      PROVE  Ordered'
  <2>1. Ordered /\ ~Active(r)
    BY <1>8 DEF Integrate, OrderInv, Undisturbed, Active
  <2>2. doing' = [doing EXCEPT ![r] = Idle] /\ Idle.at = "idle"
    BY <1>8 DEF Integrate, End, Idle
  <2>3. QED
    BY <1>8, <2>1, <2>2, QuietOrder DEF Integrate
<1>9. QED
  BY <1>1, <1>2, <1>3, <1>4, <1>6, <1>7, <1>8 DEF Next

(* However the reports of a host interleave with its changes, the server has *)
(* the hash of what it does not have only after a call or a query failed, or *)
(* after a report began before another had ended.                            *)
THEOREM LossHasCause == Spec => []LossNeedsCause
<1>1. Init => ReportInv
  BY InitInv
<1>2. ReportInv /\ [Next]_vars => ReportInv'
  BY StepType, StepOrder DEF ReportInv
<1>3. ReportInv => LossNeedsCause
  <2> SUFFICES ASSUME ReportInv, SilentLoss, Undisturbed PROVE FALSE
    BY DEF LossNeedsCause, Undisturbed, ReportInv, CallInv, TypeOK
  <2>1. Ordered
    BY DEF ReportInv, OrderInv
  <2>2. \A r \in Reporters : doing[r].at # "uploading"
    BY <2>1 DEF Ordered, HashIsOfUpload, SilentLoss
  <2>3. QED
    BY <2>1, <2>2 DEF Ordered, HashIsOfContent, SilentLoss
<1>4. QED
  BY <1>1, <1>2, <1>3, PTL DEF Spec
-----------------------------------------------------------------------------
(***************************************************************************)
(* No reporter waits for nothing: whatever becomes of its call, it goes on   *)
(* with another one or with no call to wait for, and others keep theirs.     *)
(***************************************************************************)
Others(r, others) == \A d \in calls : d.owner \in Reporters /\ d.owner # r => d \in others

LEMMA GoesOn ==
  ASSUME doing \in [Reporters -> Doing], WaitsForACall, NEW r \in Reporters, NEW d, NEW others,
         Others(r, others), doing' = [doing EXCEPT ![r] = d], others \subseteq calls',
         d.at \in {"pinging", "uploading"} => \E c \in calls' : c.owner = r
  PROVE  WaitsForACall'
<1>1. SUFFICES ASSUME NEW q \in Reporters, doing'[q].at \in {"pinging", "uploading"}
               PROVE  \E c \in calls' : c.owner = q
  BY DEF WaitsForACall
<1>2. CASE q = r
  BY <1>1, <1>2
<1>3. CASE q # r
  <2>1. PICK c \in calls : c.owner = q
    BY <1>1, <1>3 DEF WaitsForACall
  <2>2. QED
    BY <1>3, <2>1 DEF Others
<1>4. QED
  BY <1>2, <1>3

LEMMA NewCallWaits ==
  ASSUME doing \in [Reporters -> Doing], WaitsForACall, NEW r \in Reporters, NEW d, NEW others,
         NEW kind, NEW v, Others(r, others), doing' = [doing EXCEPT ![r] = d],
         calls' = others \cup {NewCall(r, kind, v)}
  PROVE  WaitsForACall'
<1>1. NewCall(r, kind, v).owner = r
  BY DEF NewCall
<1>2. QED
  BY <1>1, GoesOn

LEMMA EndWaits ==
  ASSUME doing \in [Reporters -> Doing], WaitsForACall, NEW r \in Reporters, NEW raised, NEW others,
         Others(r, others), End(r, raised), calls' = others
  PROVE  WaitsForACall'
BY GoesOn DEF End, Idle

(* What may follow a call of r: an upload, the integrations, a repetition, or *)
(* the end of the report.                                                     *)
LEMMA AfterCallWaits ==
  ASSUME doing \in [Reporters -> Doing], WaitsForACall, NEW c, c.owner \in Reporters, NEW others,
         Others(c.owner, others),
         \/ Upload(c.owner, others) \/ Integrations(c.owner, others)
         \/ Unanswered(c, others) \/ GiveUp(c.owner, others)
  PROVE  WaitsForACall'
<1> DEFINE r == c.owner
<1>1. CASE Upload(r, others)
  BY <1>1, NewCallWaits DEF Upload
<1>2. CASE Integrations(r, others)
  <2>1. [Idle EXCEPT !.at = "integrating"].at = "integrating"
    BY DEF Idle
  <2>2. QED
    BY <1>2, <2>1, GoesOn DEF Integrations
<1>3. CASE GiveUp(r, others)
  BY <1>3, EndWaits DEF GiveUp
<1>4. ASSUME doing' = [doing EXCEPT ![r].tries = @ - 1],
             calls' = others \cup {NewCall(r, c.kind, doing[r].value)}
      PROVE  WaitsForACall'
  <2>1. doing' = [doing EXCEPT ![r] = [doing[r] EXCEPT !.tries = @ - 1]]
    BY <1>4
  <2>2. QED
    BY <1>4, <2>1, NewCallWaits
<1>5. QED
  BY <1>1, <1>2, <1>3, <1>4 DEF Unanswered

LEMMA WaitNext ==
  ASSUME CallInv, WaitsForACall, [Next]_vars
  PROVE  WaitsForACall'
<1>1. doing \in [Reporters -> Doing]
  BY DEF CallInv, Wire
<1>2. CASE InitialReport \/ PeriodicReport \/ BurstReport \/ TakeReportNow
  <2>1. PICK r \in Reporters : Begin(r)
    BY <1>2 DEF InitialReport, PeriodicReport, BurstReport, TakeReportNow, Reporters
  <2>2. Others(r, calls)
    BY DEF Others
  <2>3. QED
    BY <1>1, <2>1, <2>2, NewCallWaits DEF Begin
<1>3. CASE ChangeByHand \/ UserSends \/ OffsetPasses \/ TakeSettings \/ UNCHANGED vars
  BY <1>3 DEF ChangeByHand, UserSends, OffsetPasses, TakeSettings, vars, WaitsForACall
<1>4. CASE AgentRestart
  BY <1>4 DEF AgentRestart, WaitsForACall, Idle, Due
<1>5. ASSUME NEW c \in calls, PingReads(c) PROVE WaitsForACall'
  <2> DEFINE read == [owner |-> c.owner, kind |-> c.kind, value |-> c.value,
                      at |-> "read", seen |-> hash]
  <2>1. doing' = doing /\ calls' = (calls \ {c}) \cup {read} /\ read.owner = c.owner
    BY <1>5 DEF PingReads
  <2>2. QED
    BY <2>1 DEF WaitsForACall
<1>6. ASSUME NEW c \in calls, NEW asks \in BOOLEAN, Answer(c, asks) PROVE WaitsForACall'
  <2>1. Others(c.owner, calls \ {c})
    BY DEF Others
  <2>2. ASSUME c.owner \notin Reporters, calls' = calls \ {c}, UNCHANGED doing
        PROVE  WaitsForACall'
    <3>1. SUFFICES ASSUME NEW r \in Reporters, doing[r].at \in {"pinging", "uploading"}
                   PROVE  \E d \in calls' : d.owner = r
      BY <2>2 DEF WaitsForACall
    <3>2. PICK d \in calls : d.owner = r
      BY <3>1 DEF WaitsForACall
    <3>3. QED
      BY <2>2, <3>2
  <2>3. ASSUME c.owner \in Reporters,
               Upload(c.owner, calls \ {c}) \/ Integrations(c.owner, calls \ {c})
        PROVE  WaitsForACall'
    BY <1>1, <2>1, <2>3, AfterCallWaits
  <2>4. CASE AnswerLost(c)
    BY <1>1, <2>1, <2>4, AfterCallWaits DEF AnswerLost
  <2>5. QED
    BY <1>6, <2>2, <2>3, <2>4 DEF Answer
<1>7. CASE \E o \in Owners : Handle(o)
  BY <1>5, <1>6, <1>7 DEF Handle, PingWrites, Update
<1>8. ASSUME NEW c \in calls, LoseCall(c) \/ TimeOut(c) \/ CallFails(c) PROVE WaitsForACall'
  <2>1. Others(c.owner, calls \ {c}) /\ Others(c.owner, (calls \ {c}) \cup {Adrift(c)})
    BY DEF Others
  <2>2. CASE LoseCall(c)
    BY <1>1, <2>1, <2>2, AfterCallWaits DEF LoseCall, AnswerLost
  <2>3. CASE TimeOut(c)
    BY <1>1, <2>1, <2>3, AfterCallWaits DEF TimeOut
  <2>4. CASE CallFails(c)
    BY <1>1, <2>1, <2>4, AfterCallWaits DEF CallFails
  <2>5. QED
    BY <1>8, <2>2, <2>3, <2>4
<1>9. ASSUME NEW r \in Reporters, Integrate(r) PROVE WaitsForACall'
  <2>1. Others(r, calls)
    BY DEF Others
  <2>2. PICK raised \in BOOLEAN : End(r, raised) /\ calls' = calls
    BY <1>9 DEF Integrate
  <2>3. QED
    BY <1>1, <2>1, <2>2, EndWaits
<1>10. QED
  BY <1>2, <1>3, <1>4, <1>7, <1>8, <1>9 DEF Next

(* However calls are lost, given up on or repeated, a reporter that waits for *)
(* an answer has a call under way that may bring it, so sendReport never      *)
(* hangs, and with it the main loop.                                          *)
THEOREM NobodyWaitsForNothing == Spec => []WaitsForACall
<1>1. Init => CallInv /\ WaitsForACall
  BY InitInv DEF ReportInv, Init, WaitsForACall, Idle, Due
<1>2. CallInv /\ WaitsForACall /\ [Next]_vars => CallInv' /\ WaitsForACall'
  BY StepType, WaitNext
<1>3. QED
  BY <1>1, <1>2, PTL DEF Spec

=============================================================================
