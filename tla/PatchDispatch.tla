--------------------------- MODULE PatchDispatch ---------------------------
(***************************************************************************)
(* What patch management promises about handing out work, with the job and *)
(* host statuses, the handlers and the network abstracted away.  A job is  *)
(* opened once with an offer for each of its hosts.  An offer is only ever *)
(* taken back, never made again, and closing a job - it finished, failed,  *)
(* expired, was cancelled, or its policy was deleted - takes back all its  *)
(* offers for good: after that no answer hands the job to an agent.  What  *)
(* was handed out before cannot be recalled: an agent starts only on a job *)
(* it was handed, but it may do so when the job is closed by then.         *)
(***************************************************************************)
CONSTANTS Jobs, Hosts

VARIABLES
  opened,   \* jobs that were ever created
  closed,   \* jobs that ever reached an end
  offers,   \* <<job, host>> pairs a host may still fetch
  handed,   \* <<job, host>> pairs in an answer on its way to an agent
  taken     \* <<job, host>> pairs an agent is working on

vars == <<opened, closed, offers, handed, taken>>

TypeOK ==
  /\ opened \subseteq Jobs
  /\ closed \subseteq Jobs
  /\ offers \subseteq Jobs \X Hosts
  /\ handed \subseteq Jobs \X Hosts
  /\ taken \subseteq Jobs \X Hosts

Init ==
  /\ opened = {}
  /\ closed = {}
  /\ offers = {}
  /\ handed = {}
  /\ taken = {}

Open(j, targets) ==
  /\ j \in Jobs \ opened
  /\ opened' = opened \cup {j}
  /\ offers' = offers \cup ({j} \X targets)
  /\ UNCHANGED <<closed, handed, taken>>

HandOut(j, h) ==
  /\ <<j, h>> \in offers
  /\ j \notin closed
  /\ handed' = handed \cup {<<j, h>>}
  /\ UNCHANGED <<opened, closed, offers, taken>>

(* The answer is used up, unless another goroutine of the host has one of   *)
(* its own under way.                                                       *)
Take(j, h) ==
  /\ <<j, h>> \in handed
  /\ taken' = taken \cup {<<j, h>>}
  /\ handed' \in {handed, handed \ {<<j, h>>}}
  /\ UNCHANGED <<opened, closed, offers>>

(* Answers are lost, and agents are done or vanish.                         *)
Leave ==
  /\ handed' \subseteq handed
  /\ taken' \subseteq taken
  /\ UNCHANGED <<opened, closed, offers>>

Withdraw ==
  /\ offers' \subseteq offers
  /\ UNCHANGED <<opened, closed, handed, taken>>

Close(js) ==
  /\ closed' = closed \cup js
  /\ offers' = {o \in offers : o[1] \notin js}
  /\ UNCHANGED <<opened, handed, taken>>

Next ==
  \/ \E j \in Jobs, targets \in SUBSET Hosts : Open(j, targets)
  \/ \E j \in Jobs, h \in Hosts : HandOut(j, h) \/ Take(j, h)
  \/ Leave
  \/ Withdraw
  \/ \E js \in SUBSET Jobs : Close(js)

Spec == Init /\ [][Next]_vars
=============================================================================
