----------------------- MODULE TerminalSessions_proofs -----------------------
(***************************************************************************)
(* Proofs about TerminalSessions, for any number of sessions and of lost    *)
(* connections and restarts.                                                *)
(***************************************************************************)
EXTENDS TerminalSessions, TLAPS

(* What is under way between server and agent about a session.               *)
Silent(s) == \A i \in 1 .. Len(up) : up[i].session # s
Says(i, kind, s) == up[i].kind = kind /\ up[i].session = s
Announced(s) == \E i \in 1 .. Len(up) : Says(i, "connected", s)

(* Identifiers are used once.                                               *)
Fresh ==
  /\ current <= born
  /\ \A s \in table : s <= born
  /\ \A s \in Sessions : s > born => phase[s] = "none" /\ stage[s] = "none"
  /\ \A i \in 1 .. Len(down) : down[i].session <= born

(* The order to open comes once, and before anything else about a session.   *)
OpenedOnce ==
  \A i \in 1 .. Len(down) : down[i].kind = "open" =>
    /\ stage[down[i].session] = "none"
    /\ \A j \in 1 .. Len(down) :
         down[j].kind = "open" /\ down[j].session = down[i].session => j = i

SilentBefore == \A s \in Sessions : stage[s] \in {"none", "opening"} => Silent(s)

(* An error is all that is ever heard of a session.                         *)
ErrorAlone ==
  \A i \in 1 .. Len(up) : up[i].kind = "error" =>
    /\ stage[up[i].session] = "ended"
    /\ \A j \in 1 .. Len(up) : up[j].session = up[i].session => j = i

(* A session the browser has lost to an error may still be in the table.     *)
TableIsAlive ==
  ui => \A s \in table :
          \/ phase[s] \in {"connecting", "live"}
          \/ stage[s] = "ended" /\ Silent(s)

(* A session that can be heard of was announced, before all its output.      *)
LinksAreFresh ==
  /\ link <= links /\ known <= links
  /\ \A s \in Sessions : via[s] <= links

Heeded(s) == ui /\ s \in table

OpenIsAnnounced ==
  \A s \in Sessions :
    Heeded(s) /\ stage[s] = "open" /\ via[s] = link /\ link = known
      => phase[s] = "live" \/ Announced(s)

OutputIsLate ==
  \A s \in Sessions : \A i \in 1 .. Len(up) :
    Says(i, "data", s) /\ Heeded(s)
      => phase[s] = "live" \/ \E j \in 1 .. i - 1 : Says(j, "connected", s)

(* Connect messages that are being handled have an identifier each to come.  *)
Spare == born + awaiting <= MaxSessions

OrderInv == Fresh /\ OpenedOnce
HearingInv ==
  SilentBefore /\ ErrorAlone /\ TableIsAlive /\ LinksAreFresh /\ OpenIsAnnounced /\ OutputIsLate
SessionInv == TypeOK /\ Spare /\ OrderInv /\ HearingInv

-----------------------------------------------------------------------------
(***************************************************************************)
(* Sequences: p is what is left of q when its first k entries, and some at   *)
(* its end, are gone.                                                        *)
(***************************************************************************)
Part(p, q, k) ==
  Len(p) + k <= Len(q) /\ \A i \in 1 .. Len(p) : p[i] = q[i + k]

LEMMA Whole ==
  ASSUME NEW S, NEW q \in Seq(S)
  PROVE  Part(q, q, 0)
BY DEF Part

LEMMA TailIsPart ==
  ASSUME NEW S, NEW q \in Seq(S), q # <<>>
  PROVE  /\ Tail(q) \in Seq(S) /\ Part(Tail(q), q, 1)
         /\ Len(q) \in Nat \ {0} /\ Head(q) = q[1] /\ q[1] \in S
BY DEF Part

LEMMA PrefixIsPart ==
  ASSUME NEW S, NEW q \in Seq(S), NEW p \in Prefixes(q)
  PROVE  p \in Seq(S) /\ Part(p, q, 0)
<1>1. PICK n \in 0 .. Len(q) : p = SubSeq(q, 1, n)
  BY DEF Prefixes
<1>2. \A i \in 1 .. n : q[i] \in S
  OBVIOUS
<1>3. p = [i \in 1 .. n |-> q[i]]
  BY <1>1
<1>4. p \in Seq(S) /\ Len(p) = n /\ \A i \in 1 .. n : p[i] = q[i]
  BY <1>2, <1>3
<1>5. QED
  BY <1>4 DEF Part

LEMMA EmptyIsPart ==
  ASSUME NEW S, NEW q \in Seq(S)
  PROVE  <<>> \in Seq(S) /\ Part(<<>>, q, 0)
BY DEF Part

LEMMA Appended ==
  ASSUME NEW S, NEW q \in Seq(S), NEW e \in S
  PROVE  /\ Append(q, e) \in Seq(S)
         /\ Len(Append(q, e)) = Len(q) + 1
         /\ \A i \in 1 .. Len(q) : Append(q, e)[i] = q[i]
         /\ Append(q, e)[Len(q) + 1] = e
OBVIOUS

-----------------------------------------------------------------------------
(***************************************************************************)
(* Types.                                                                    *)
(***************************************************************************)
TypeInv == TypeOK /\ Spare

LEMMA Numbers ==
  /\ MaxSessions \in Nat /\ MaxBreaks \in Nat
  /\ \A s \in Sessions : s \in Nat \ {0} /\ s <= MaxSessions
  /\ \A l \in Links : l \in Nat \ {0}
BY BoundsAssumption DEF Sessions, Links

LEMMA Entries ==
  ASSUME TypeOK
  PROVE  /\ Len(down) \in Nat /\ \A i \in 1 .. Len(down) : down[i].session \in Sessions
         /\ Len(up) \in Nat /\ \A i \in 1 .. Len(up) : up[i].session \in Sessions
<1>1. down \in Seq(Orders) /\ up \in Seq(Replies)
  BY DEF TypeOK
<1>2. \A i \in 1 .. Len(down) : down[i] \in Orders
  BY <1>1
<1>3. \A i \in 1 .. Len(up) : up[i] \in Replies
  BY <1>1
<1>4. QED
  BY <1>1, <1>2, <1>3 DEF Orders, Replies

LEMMA OrderType ==
  ASSUME TypeOK, NEW kind \in {"open", "close"}, NEW s \in Sessions, Order(kind, s)
  PROVE  down' \in Seq(Orders)
<1>1. [kind |-> kind, session |-> s] \in Orders
  BY DEF Orders
<1>2. QED
  BY <1>1, Appended DEF Order, TypeOK

LEMMA ReplyType ==
  ASSUME TypeOK, NEW l, NEW kind \in {"connected", "data", "error", "closed"},
         NEW s \in Sessions, ReplyOn(l, kind, s)
  PROVE  up' \in Seq(Replies)
<1>1. [kind |-> kind, session |-> s] \in Replies
  BY DEF Replies
<1>2. QED
  BY <1>1, Appended DEF ReplyOn, TypeOK

LEMMA OverType ==
  ASSUME TypeOK, NEW ss, Over(ss)
  PROVE  phase' \in [Sessions -> Phase]
BY DEF Over, TypeOK, Phase

LEMMA LeaveType ==
  ASSUME TypeInv, Leave
  PROVE  down' \in Seq(Orders) /\ table' \subseteq Sessions /\ current' \in 0 .. MaxSessions
<1>1. CASE current \in table
  <2>1. current \in Sessions /\ Order("close", current)
    BY <1>1 DEF Leave, TypeInv, TypeOK
  <2>2. down' \in Seq(Orders)
    BY <2>1, OrderType DEF TypeInv
  <2>3. table' = table \ {current} /\ current' = 0
    BY <1>1 DEF Leave
  <2>4. QED
    BY <2>2, <2>3, Numbers DEF TypeInv, TypeOK
<1>2. CASE current \notin table
  BY <1>2, Numbers DEF Leave, TypeInv, TypeOK
<1>3. QED
  BY <1>1, <1>2

LEMMA UserType ==
  ASSUME TypeInv, UserStep
  PROVE  TypeInv'
<1>1. CASE ConnectAsked
  BY <1>1, Numbers
  DEF ConnectAsked, TypeInv, TypeOK, Spare, server, shown, net, wires, agent
<1>2. CASE Disconnect \/ BrowserCloses
  <2>1. Leave /\ phase' \in [Sessions -> Phase]
    BY <1>2, OverType DEF Disconnect, BrowserCloses, TypeInv
  <2>2. ui' \in BOOLEAN
    BY <1>2 DEF Disconnect, BrowserCloses, TypeInv, TypeOK
  <2>3. QED
    BY <2>1, <2>2, LeaveType DEF Leave, TypeInv, TypeOK, Spare, net, agent
<1>3. CASE BrowserFails
  <2>1. phase' \in [Sessions -> Phase] /\ current' \in 0 .. MaxSessions
    BY <1>3, OverType, Numbers DEF BrowserFails, TypeInv
  <2>2. QED
    BY <1>3, <2>1 DEF BrowserFails, TypeInv, TypeOK, Spare, net, wires, agent
<1>4. QED
  BY <1>1, <1>2, <1>3 DEF UserStep

LEMMA ConnectType ==
  ASSUME TypeInv, ConnectRefused \/ ConnectGoes
  PROVE  TypeInv'
<1>1. CASE ConnectRefused
  BY <1>1, Numbers
  DEF ConnectRefused, TypeInv, TypeOK, Spare, server, shown, net, wires, agent
<1>2. CASE ConnectGoes
  <2>1. born' \in Sessions /\ born' = born + 1 /\ awaiting' \in Nat /\ Spare'
    BY <1>2, Numbers DEF ConnectGoes, TypeInv, TypeOK, Spare, Sessions
  <2>2. down' \in Seq(Orders) /\ timers' \subseteq Sessions
    BY <1>2, <2>1, OrderType DEF ConnectGoes, Request, TypeInv, TypeOK
  <2>3. current' \in 0 .. MaxSessions /\ born' \in 0 .. MaxSessions
    BY <1>2, <2>1, Numbers DEF ConnectGoes
  <2>4. mode' \in [Sessions -> Modes] /\ phase' \in [Sessions -> Phase] /\ table' \subseteq Sessions
    BY <1>2, <2>1 DEF ConnectGoes, TypeInv, TypeOK, Phase
  <2>5. QED
    BY <1>2, <2>1, <2>2, <2>3, <2>4 DEF ConnectGoes, TypeInv, TypeOK, net, agent
<1>3. QED
  BY <1>1, <1>2

LEMMA TimeoutType ==
  ASSUME TypeInv, NEW s \in Sessions, Timeout(s)
  PROVE  TypeInv'
<1>1. phase' \in [Sessions -> Phase]
  BY OverType DEF Timeout, TypeInv
<1>2. QED
  BY <1>1 DEF Timeout, TypeInv, TypeOK, Spare, browser, net, wires, agent

LEMMA HeardType ==
  ASSUME TypeInv, HeardStep
  PROVE  TypeInv'
<1>1. Receive
  BY DEF HeardStep, HeardUnknown, HeardTooLate, HeardConnected, HeardData, HeardError, HeardClosed, Heard
<1>2. up' \in Seq(Replies)
  BY <1>1, TailIsPart DEF Receive, TypeInv, TypeOK
<1>3. /\ table' \subseteq Sessions /\ timers' \subseteq Sessions
      /\ phase' \in [Sessions -> Phase] /\ output' \subseteq Sessions
  <2>1. CASE HeardUnknown \/ HeardTooLate
    BY <2>1 DEF HeardUnknown, HeardTooLate, shown, TypeInv, TypeOK
  <2>2. CASE \E s \in Sessions : HeardConnected(s) \/ HeardData(s)
    BY <2>2 DEF HeardConnected, HeardData, TypeInv, TypeOK, Phase
  <2>3. CASE \E s \in Sessions : HeardError(s) \/ HeardClosed(s)
    BY <2>3, OverType DEF HeardError, HeardClosed, TypeInv, TypeOK
  <2>4. QED
    BY <2>1, <2>2, <2>3 DEF HeardStep
<1>4. QED
  BY <1>1, <1>2, <1>3 DEF Receive, TypeInv, TypeOK, Spare, browser, net, agent

LEMMA TakeType ==
  ASSUME TypeInv, TakeStep
  PROVE  TypeInv'
<1>1. PICK s \in Sessions : TakeOpen(s) \/ TakeClose(s)
  BY DEF TakeStep
<1>2. down' \in Seq(Orders)
  <2>1. down \in Seq(Orders) /\ down # <<>> /\ down' = Tail(down)
    BY <1>1 DEF TakeOpen, TakeClose, Take, TypeInv, TypeOK
  <2>2. QED
    BY <2>1, TailIsPart
<1>3. CASE TakeOpen(s)
  <2>1. /\ stage' \in [Sessions -> Stage] /\ via' \in [Sessions -> Links \cup {0}]
        /\ \A t \in Sessions : stage'[t] # "none" => via'[t] # 0
    BY <1>3 DEF TakeOpen, agent, TypeInv, TypeOK, Stage
  <2>2. QED
    BY <1>2, <1>3, <2>1 DEF TakeOpen, TypeInv, TypeOK, Spare, browser, server, shown, net
<1>4. CASE TakeClose(s)
  <2>1. CASE stage[s] = "open" /\ (CloseShell(s) \/ CloseProxy(s))
    <3>1. up' \in Seq(Replies)
      BY <2>1, ReplyType DEF CloseShell, CloseProxy, TypeInv, TypeOK
    <3>2. /\ stage' \in [Sessions -> Stage]
          /\ \A t \in Sessions : stage'[t] # "none" => stage[t] # "none"
      BY <2>1 DEF CloseShell, CloseProxy, Stopped, TypeInv, TypeOK, Stage
    <3>3. QED
      BY <1>2, <1>4, <3>1, <3>2 DEF TakeClose, TypeInv, TypeOK, Spare, browser, server, shown, net
  <2>2. CASE NothingToClose(s)
    BY <1>2, <1>4, <2>2
    DEF TakeClose, NothingToClose, TypeInv, TypeOK, Spare, browser, server, shown, net
  <2>3. QED
    BY <1>4, <2>1, <2>2 DEF TakeClose
<1>5. QED
  BY <1>1, <1>3, <1>4

AgentStep(s) == Opened(s) \/ OpenFails(s) \/ Prints(s) \/ Exits(s) \/ PumpEnds(s)

LEMMA AgentType ==
  ASSUME TypeInv, NEW s \in Sessions, AgentStep(s)
  PROVE  TypeInv'
<1>1. up' \in Seq(Replies)
  BY ReplyType DEF AgentStep, Opened, OpenFails, Prints, Exits, PumpEnds, Reply, TypeInv, TypeOK
<1>2. /\ stage' \in [Sessions -> Stage]
      /\ \A t \in Sessions : stage'[t] # "none" => stage[t] # "none"
  BY DEF AgentStep, Opened, OpenFails, Prints, Exits, PumpEnds, Stopped, agent, TypeInv, TypeOK, Stage
<1>3. UNCHANGED <<browser, server, shown, net, down, via>>
  BY DEF AgentStep, Opened, OpenFails, Prints, Exits, PumpEnds, agent
<1>4. QED
  BY <1>1, <1>2, <1>3 DEF TypeInv, TypeOK, Spare, browser, server, shown, net

LEMMA LinkType ==
  ASSUME TypeInv, LinkMade \/ ServerLoses \/ AgentLoses
  PROVE  TypeInv'
<1>1. CASE LinkMade
  <2>1. links' \in Links /\ links' \in 0 .. MaxBreaks + 1
    BY <1>1, Numbers DEF LinkMade, TypeInv, TypeOK, Links
  <2>2. QED
    BY <1>1, <2>1 DEF LinkMade, TypeInv, TypeOK, Spare, browser, server, shown, wires, agent
<1>2. ASSUME ServerLoses \/ AgentLoses
      PROVE  breaks' \in 0 .. MaxBreaks
  BY <1>2, Numbers DEF ServerLoses, AgentLoses, TypeInv, TypeOK
<1>3. CASE ServerLoses
  BY <1>2, <1>3 DEF ServerLoses, TypeInv, TypeOK, Spare, browser, server, shown, wires, agent
<1>4. CASE AgentLoses
  <2>1. down' \in Seq(Orders) /\ up' \in Seq(Replies)
    BY <1>4, PrefixIsPart DEF AgentLoses, TypeInv, TypeOK
  <2>2. /\ stage' \in [Sessions -> Stage]
        /\ \A t \in Sessions : stage'[t] # "none" => stage[t] # "none"
    BY <1>4 DEF AgentLoses, TypeInv, TypeOK, Stage
  <2>3. QED
    BY <1>2, <1>4, <2>1, <2>2 DEF AgentLoses, TypeInv, TypeOK, Spare, browser, server, shown
<1>5. QED
  BY <1>1, <1>3, <1>4

LEMMA RestartType ==
  ASSUME TypeInv, AgentRestart \/ ServerRestart
  PROVE  TypeInv'
<1>1. breaks' \in 0 .. MaxBreaks
  BY Numbers DEF AgentRestart, ServerRestart, TypeInv, TypeOK
<1>2. CASE AgentRestart
  <2>1. down' \in Seq(Orders) /\ up' \in Seq(Replies)
    BY <1>2, PrefixIsPart, EmptyIsPart DEF AgentRestart, TypeInv, TypeOK
  <2>2. /\ stage' \in [Sessions -> Stage]
        /\ \A t \in Sessions : stage'[t] # "none" => stage[t] # "none"
    BY <1>2 DEF AgentRestart, TypeInv, TypeOK, Stage
  <2>3. QED
    BY <1>1, <1>2, <2>1, <2>2 DEF AgentRestart, TypeInv, TypeOK, Spare, browser, server, shown
<1>3. CASE ServerRestart
  <2>1. up' \in Seq(Replies) /\ phase' \in [Sessions -> Phase]
    BY <1>3, EmptyIsPart, OverType DEF ServerRestart, TypeInv
  <2>2. awaiting' \in Nat /\ Spare' /\ current' \in 0 .. MaxSessions
    BY <1>3, Numbers DEF ServerRestart, TypeInv, TypeOK, Spare
  <2>3. QED
    BY <1>1, <1>3, <2>1, <2>2 DEF ServerRestart, TypeInv, TypeOK, agent
<1>4. QED
  BY <1>2, <1>3

LEMMA StepType == TypeInv /\ [Next]_vars => TypeInv'
<1> SUFFICES ASSUME TypeInv, [Next]_vars PROVE TypeInv'
  OBVIOUS
<1>1. CASE UNCHANGED vars
  BY <1>1 DEF vars, browser, server, shown, net, wires, agent, TypeInv, TypeOK, Spare
<1>2. CASE UserStep \/ ConnectRefused \/ ConnectGoes \/ HeardStep \/ TakeStep
  BY <1>2, UserType, ConnectType, HeardType, TakeType
<1>3. CASE \E s \in Sessions : Timeout(s) \/ AgentStep(s)
  BY <1>3, TimeoutType, AgentType
<1>4. CASE LinkMade \/ ServerLoses \/ AgentLoses \/ AgentRestart \/ ServerRestart
  BY <1>4, LinkType, RestartType
<1>5. QED
  BY <1>1, <1>2, <1>3, <1>4 DEF Next, AgentStep

LEMMA InitType == Init => TypeInv
<1> SUFFICES ASSUME Init PROVE TypeInv
  OBVIOUS
<1>1. down \in Seq(Orders) /\ up \in Seq(Replies)
  BY DEF Init
<1>2. QED
  BY <1>1, Numbers DEF Init, TypeInv, TypeOK, Spare, Modes, Phase, Stage

(* Tables, timers, messages and sessions of browser, server and agent keep   *)
(* their types: above all, the agent never has a session without having had  *)
(* a connection to answer on, and identifiers do not run out.                *)
THEOREM TypeCorrect == Spec => []TypeOK
<1>1. TypeInv => TypeOK
  BY DEF TypeInv
<1>2. QED
  BY <1>1, InitType, StepType, PTL DEF Spec
-----------------------------------------------------------------------------
(***************************************************************************)
(* Orders to the agent.                                                      *)
(***************************************************************************)
(* Nothing is ordered; an order to open may be taken, if k is 1.             *)
LEMMA FewerOrders ==
  ASSUME TypeOK, OrderInv, TypeOK', NEW k \in {0, 1}, Part(down', down, k),
         born' = born, current' \in {current, 0}, table' \subseteq table,
         \A s \in Sessions : s > born /\ phase[s] = "none" => phase'[s] = "none",
         \A s \in Sessions : stage[s] = "none" =>
            \/ stage'[s] = "none"
            \/ k = 1 /\ down[1].kind = "open" /\ down[1].session = s
  PROVE  OrderInv'
<1>1. down \in Seq(Orders) /\ down' \in Seq(Orders) /\ born \in Nat
      /\ Len(down) \in Nat /\ Len(down') \in Nat
  BY Numbers DEF TypeOK
<1>2. \A i \in 1 .. Len(down') : i + k \in 1 .. Len(down) /\ down'[i] = down[i + k]
  BY <1>1 DEF Part
<1>3. \A i \in 1 .. Len(down) : down[i].session \in Sessions
  BY Entries
<1>4. \A i \in 1 .. Len(down') : down'[i].session <= born'
  BY <1>2 DEF OrderInv, Fresh
<1>5. \A s \in Sessions : s > born' => phase'[s] = "none" /\ stage'[s] = "none"
  <2> SUFFICES ASSUME NEW s \in Sessions, s > born PROVE phase'[s] = "none" /\ stage'[s] = "none"
    OBVIOUS
  <2>1. phase[s] = "none" /\ stage[s] = "none"
    BY DEF OrderInv, Fresh
  <2>2. ASSUME k = 1, down[1].session = s
        PROVE  FALSE
    <3>1. 1 \in 1 .. Len(down)
      BY <1>1, <2>2 DEF Part
    <3>2. down[1].session <= born
      BY <3>1 DEF OrderInv, Fresh
    <3>3. QED
      BY <1>1, <2>2, <3>2, Numbers
  <2>3. QED
    BY <2>1, <2>2
<1>6. current' <= born' /\ \A s \in table' : s <= born'
  BY <1>1 DEF OrderInv, Fresh
<1>7. OpenedOnce'
  <2> SUFFICES ASSUME NEW i \in 1 .. Len(down'), down'[i].kind = "open"
               PROVE  /\ stage'[down'[i].session] = "none"
                      /\ \A j \in 1 .. Len(down') :
                           down'[j].kind = "open" /\ down'[j].session = down'[i].session => j = i
    BY DEF OpenedOnce
  <2> DEFINE s == down'[i].session
  <2>1. /\ stage[s] = "none" /\ s \in Sessions
        /\ \A j \in 1 .. Len(down) :
             down[j].kind = "open" /\ down[j].session = s => j = i + k
    BY <1>2, <1>3 DEF OrderInv, OpenedOnce
  <2>2. ASSUME NEW j \in 1 .. Len(down'), down'[j].kind = "open", down'[j].session = s
        PROVE  j = i
    <3>1. j + k \in 1 .. Len(down) /\ down'[j] = down[j + k]
      BY <1>2
    <3>2. j + k = i + k
      BY <2>1, <2>2, <3>1
    <3>3. QED
      BY <1>1, <3>2
  <2>3. ASSUME k = 1, down[1].kind = "open", down[1].session = s
        PROVE  FALSE
    <3>1. 1 \in 1 .. Len(down)
      BY <1>1, <2>3 DEF Part
    <3>2. 1 = i + 1
      BY <2>1, <2>3, <3>1
    <3>3. QED
      BY <1>1, <3>2
  <2>4. QED
    BY <2>1, <2>2, <2>3
<1>8. QED
  BY <1>4, <1>5, <1>6, <1>7 DEF OrderInv, Fresh

(* An order to close changes none of this. *)
LEMMA LeaveOrders ==
  ASSUME TypeInv, TypeOK', OrderInv, Leave, Over(Sessions) \/ (current # 0 /\ Over({current}))
  PROVE  OrderInv'
<1>1. born \in Nat /\ current \in Nat /\ down \in Seq(Orders) /\ Len(down) \in Nat
  BY Numbers DEF TypeInv, TypeOK
<1>2. \A s \in Sessions : phase[s] = "none" => phase'[s] = "none"
  BY DEF Over, TypeInv, TypeOK
<1>3. UNCHANGED <<born, stage>> /\ current' = 0 /\ table' \subseteq table
  BY DEF Leave, agent
<1>4. CASE down' = down
  BY <1>1, <1>2, <1>3, <1>4, Whole, FewerOrders DEF TypeInv
<1>5. CASE down' = Append(down, [kind |-> "close", session |-> current]) /\ current \in table
  <2> DEFINE new == [kind |-> "close", session |-> current]
  <2>1. new \in Orders
    BY <1>5 DEF Orders, TypeInv, TypeOK
  <2>2. /\ Len(down') = Len(down) + 1
        /\ \A i \in 1 .. Len(down) : down'[i] = down[i]
        /\ down'[Len(down) + 1] = new
    BY <1>1, <1>5, <2>1, Appended
  <2>3. \A i \in 1 .. Len(down') : i \in 1 .. Len(down) \/ i = Len(down) + 1
    BY <1>1, <2>2
  <2>4. \A i \in 1 .. Len(down') : down'[i].kind = "open" =>
          i \in 1 .. Len(down) /\ down'[i] = down[i]
    BY <2>2, <2>3
  <2>5. OpenedOnce'
    BY <1>3, <2>4 DEF OrderInv, OpenedOnce
  <2>6. \A i \in 1 .. Len(down') : down'[i].session <= born'
    BY <1>1, <1>3, <2>2, <2>3 DEF OrderInv, Fresh
  <2>7. current' <= born' /\ \A s \in table' : s <= born'
    BY <1>1, <1>3 DEF OrderInv, Fresh
  <2>8. \A s \in Sessions : s > born' => phase'[s] = "none" /\ stage'[s] = "none"
    BY <1>2, <1>3 DEF OrderInv, Fresh
  <2>9. QED
    BY <2>5, <2>6, <2>7, <2>8 DEF OrderInv, Fresh
<1>6. QED
  BY <1>4, <1>5 DEF Leave, Order

LEMMA ConnectOrders ==
  ASSUME TypeInv, TypeInv', OrderInv, ConnectGoes
  PROVE  OrderInv'
<1>1. born \in Nat /\ down \in Seq(Orders) /\ Len(down) \in Nat /\ born' = born + 1
  BY Numbers DEF ConnectGoes, TypeInv, TypeOK
<1>2. born' \in Sessions
  BY <1>1, Numbers DEF ConnectGoes, TypeInv, TypeOK, Sessions
<1>3. stage' = stage /\ stage[born'] = "none" /\ current' = born' /\ table' = table \cup {born'}
  BY <1>1, <1>2 DEF ConnectGoes, agent, OrderInv, Fresh
<1>4. \A s \in Sessions : s # born' => phase'[s] = phase[s]
  BY DEF ConnectGoes, TypeInv, TypeOK
<1>5. \A s \in Sessions : s > born' => phase'[s] = "none" /\ stage'[s] = "none"
  BY <1>1, <1>3, <1>4, Numbers DEF OrderInv, Fresh
<1>6. table' \subseteq Nat /\ \A s \in table' : s <= born'
  BY <1>1, <1>3, Numbers DEF OrderInv, Fresh, TypeInv, TypeOK
<1>7. \A i \in 1 .. Len(down) : down[i].session <= born /\ down[i].session \in Nat
  BY <1>1, Entries, Numbers DEF OrderInv, Fresh, TypeInv
<1>8. CASE down' = down
  <2>1. \A i \in 1 .. Len(down') : down'[i].session <= born'
    BY <1>1, <1>7, <1>8
  <2>2. OpenedOnce'
    BY <1>3, <1>8 DEF OrderInv, OpenedOnce
  <2>3. QED
    BY <1>1, <1>3, <1>5, <1>6, <2>1, <2>2 DEF OrderInv, Fresh
<1>9. CASE down' = Append(down, [kind |-> "open", session |-> born'])
  <2> DEFINE new == [kind |-> "open", session |-> born']
  <2>1. new \in Orders
    BY <1>2 DEF Orders
  <2>2. /\ Len(down') = Len(down) + 1
        /\ \A i \in 1 .. Len(down) : down'[i] = down[i]
        /\ down'[Len(down) + 1] = new
    BY <1>1, <1>9, <2>1, Appended
  <2>3. \A i \in 1 .. Len(down') : i \in 1 .. Len(down) \/ i = Len(down) + 1
    BY <1>1, <2>2
  <2>4. \A i \in 1 .. Len(down) : down'[i].session # born' /\ down'[i].session <= born'
    BY <1>1, <1>7, <2>2
  <2>5. \A i \in 1 .. Len(down') : down'[i].session <= born'
    BY <1>1, <2>2, <2>3, <2>4
  <2>6. OpenedOnce'
    <3> SUFFICES ASSUME NEW i \in 1 .. Len(down'), down'[i].kind = "open"
                 PROVE  /\ stage'[down'[i].session] = "none"
                        /\ \A j \in 1 .. Len(down') :
                             down'[j].kind = "open" /\ down'[j].session = down'[i].session => j = i
      BY DEF OpenedOnce
    <3>1. CASE i = Len(down) + 1
      BY <1>3, <2>2, <2>3, <2>4, <3>1
    <3>2. CASE i \in 1 .. Len(down)
      BY <1>3, <2>2, <2>3, <2>4, <3>2 DEF OrderInv, OpenedOnce
    <3>3. QED
      BY <2>3, <3>1, <3>2
  <2>7. QED
    BY <1>1, <1>3, <1>5, <1>6, <2>5, <2>6 DEF OrderInv, Fresh
<1>10. QED
  BY <1>8, <1>9 DEF ConnectGoes, Request, Order

LEMMA StepOrders ==
  ASSUME TypeInv, TypeInv', OrderInv, Next
  PROVE  OrderInv'
<1> USE DEF TypeInv
<1>1. down \in Seq(Orders)
  BY DEF TypeOK
<1>2. CASE ConnectGoes
  BY <1>2, ConnectOrders
<1>3. CASE Disconnect \/ BrowserCloses
  BY <1>3, LeaveOrders DEF Disconnect, BrowserCloses
<1>4. CASE ConnectAsked \/ ConnectRefused
  <2>1. UNCHANGED <<down, born, current, table, phase, stage>>
    BY <1>4 DEF ConnectAsked, ConnectRefused, server, shown, wires, agent
  <2>2. QED
    BY <1>1, <2>1, Whole, FewerOrders
<1>5. CASE BrowserFails \/ ServerRestart \/ \E s \in Sessions : Timeout(s)
  <2>1. UNCHANGED <<down, born, stage>> /\ current' \in {current, 0} /\ table' \subseteq table
    BY <1>5 DEF BrowserFails, ServerRestart, Timeout, browser, wires, agent
  <2>2. \A s \in Sessions : phase[s] = "none" => phase'[s] = "none"
    BY <1>5 DEF BrowserFails, ServerRestart, Timeout, Over
  <2>3. QED
    BY <1>1, <2>1, <2>2, Whole, FewerOrders
<1>6. CASE HeardStep
  <2>1. UNCHANGED <<down, born, current, stage>> /\ table' \subseteq table
    BY <1>6 DEF HeardStep, HeardUnknown, HeardTooLate, HeardConnected, HeardData, HeardError,
                HeardClosed, Heard, Receive, browser, agent
  <2>2. \A s \in Sessions : s > born /\ phase[s] = "none" => phase'[s] = "none"
    <3>1. CASE HeardUnknown \/ HeardTooLate \/ \E s \in Sessions : HeardData(s)
      BY <3>1 DEF HeardUnknown, HeardTooLate, HeardData, shown
    <3>2. CASE \E s \in Sessions : HeardError(s) \/ HeardClosed(s)
      BY <3>2 DEF HeardError, HeardClosed, Over
    <3>3. ASSUME NEW s \in Sessions, HeardConnected(s)
          PROVE  \A t \in Sessions : t > born /\ phase[t] = "none" => phase'[t] = "none"
      <4>1. s <= born /\ phase' = [phase EXCEPT ![s] = "live"]
        BY <3>3 DEF HeardConnected, Heard, OrderInv, Fresh
      <4>2. \A t \in Sessions : t > born => t # s
        BY <4>1, Numbers DEF TypeOK
      <4>3. QED
        BY <4>1, <4>2 DEF TypeOK
    <3>4. QED
      BY <1>6, <3>1, <3>2, <3>3 DEF HeardStep
  <2>3. QED
    BY <1>1, <2>1, <2>2, Whole, FewerOrders
<1>7. CASE TakeStep
  <2>1. PICK s \in Sessions : TakeOpen(s) \/ TakeClose(s)
    BY <1>7 DEF TakeStep
  <2>2. down # <<>> /\ down' = Tail(down) /\ UNCHANGED <<born, current, table, phase>>
    BY <2>1 DEF TakeOpen, TakeClose, Take, browser, server, shown
  <2>3. Part(down', down, 1) /\ Head(down) = down[1]
    BY <1>1, <2>2, TailIsPart
  <2>4. CASE TakeOpen(s)
    <3>1. down[1].kind = "open" /\ down[1].session = s
      BY <2>3, <2>4 DEF TakeOpen, Take
    <3>2. \A t \in Sessions : t # s => stage'[t] = stage[t]
      BY <2>4 DEF TakeOpen, agent, TypeOK
    <3>3. QED
      BY <2>2, <2>3, <3>1, <3>2, FewerOrders
  <2>5. CASE TakeClose(s)
    <3>1. \A t \in Sessions : stage[t] = "none" => stage'[t] = "none"
      BY <2>5 DEF TakeClose, CloseShell, CloseProxy, Stopped, NothingToClose, TypeOK
    <3>2. QED
      BY <2>2, <2>3, <3>1, FewerOrders
  <2>6. QED
    BY <2>1, <2>4, <2>5
<1>8. CASE \E s \in Sessions : AgentStep(s)
  <2>1. UNCHANGED <<down, born, current, table, phase>>
    BY <1>8 DEF AgentStep, Opened, OpenFails, Prints, Exits, PumpEnds, browser, server, shown
  <2>2. \A t \in Sessions : stage[t] = "none" => stage'[t] = "none"
    BY <1>8 DEF AgentStep, Opened, OpenFails, Prints, Exits, PumpEnds, Stopped, agent, TypeOK
  <2>3. QED
    BY <1>1, <2>1, <2>2, Whole, FewerOrders
<1>9. CASE LinkMade \/ ServerLoses
  <2>1. UNCHANGED <<down, born, current, table, phase, stage>>
    BY <1>9 DEF LinkMade, ServerLoses, browser, server, shown, wires, agent
  <2>2. QED
    BY <1>1, <2>1, Whole, FewerOrders
<1>10. CASE AgentLoses \/ AgentRestart
  <2>1. UNCHANGED <<born, current, table, phase>>
    BY <1>10 DEF AgentLoses, AgentRestart, browser, server, shown
  <2>2. Part(down', down, 0)
    BY <1>1, <1>10, PrefixIsPart, EmptyIsPart DEF AgentLoses, AgentRestart
  <2>3. \A t \in Sessions : stage[t] = "none" => stage'[t] = "none"
    BY <1>10 DEF AgentLoses, AgentRestart
  <2>4. QED
    BY <2>1, <2>2, <2>3, FewerOrders
<1>11. QED
  BY <1>2, <1>3, <1>4, <1>5, <1>6, <1>7, <1>8, <1>9, <1>10 DEF Next, UserStep, AgentStep

-----------------------------------------------------------------------------
(***************************************************************************)
(* What is heard of a session.                                               *)
(***************************************************************************)
(* Nothing new is said.                                                     *)
LEMMA LessHeard ==
  ASSUME TypeOK, TypeOK', HearingInv, LinksAreFresh', Part(up', up, 0),
         \A s \in Sessions :
           /\ stage'[s] \in {"none", "opening"} => stage[s] \in {"none", "opening"}
           /\ stage[s] = "ended" => stage'[s] = "ended"
           /\ stage'[s] = "open" => stage[s] = "open",
         \A s \in Sessions : Heeded(s)' =>
           \/ Heeded(s) /\ phase'[s] = phase[s]
           \/ phase'[s] = "connecting" /\ stage'[s] = "none",
         \A s \in Sessions : stage'[s] = "open" /\ via'[s] = link' /\ link' = known' =>
           via[s] = link /\ link = known /\ up' = up
  PROVE  HearingInv'
<1>1. \A i \in 1 .. Len(up') : i \in 1 .. Len(up) /\ up'[i] = up[i] /\ up[i].session \in Sessions
  <2>1. Len(up) \in Nat /\ \A i \in 1 .. Len(up) : up[i].session \in Sessions
    BY Entries
  <2>2. up' \in Seq(Replies)
    BY DEF TypeOK
  <2>3. Len(up') \in Nat /\ Len(up') <= Len(up) /\ \A i \in 1 .. Len(up') : up'[i] = up[i]
    BY <2>1, <2>2 DEF Part
  <2>4. QED
    BY <2>1, <2>3
<1>2. Len(up') \in Nat /\ Len(up) \in Nat
  <2>1. up' \in Seq(Replies) /\ up \in Seq(Replies)
    BY DEF TypeOK
  <2>2. QED
    BY <2>1
<1>3. \A s \in Sessions : Silent(s) => Silent(s)'
  BY <1>1 DEF Silent
<1>4. SilentBefore'
  BY <1>3 DEF HearingInv, SilentBefore
<1>5. ErrorAlone'
  BY <1>1 DEF HearingInv, ErrorAlone
<1>6. TableIsAlive'
  <2> SUFFICES ASSUME NEW s \in table', ui'
               PROVE  phase'[s] \in {"connecting", "live"} \/ (stage'[s] = "ended" /\ Silent(s)')
    BY DEF TableIsAlive
  <2>1. s \in Sessions /\ Heeded(s)'
    BY DEF TypeOK, Heeded
  <2>2. QED
    BY <1>3, <2>1 DEF HearingInv, TableIsAlive, Heeded
<1>7. OpenIsAnnounced'
  <2> SUFFICES ASSUME NEW s \in Sessions, Heeded(s)', stage'[s] = "open", via'[s] = link', link' = known'
               PROVE  phase'[s] = "live" \/ Announced(s)'
    BY DEF OpenIsAnnounced
  <2>1. Heeded(s) /\ phase'[s] = phase[s] /\ stage[s] = "open" /\ via[s] = link /\ link = known /\ up' = up
    OBVIOUS
  <2>2. phase[s] = "live" \/ Announced(s)
    BY <2>1 DEF HearingInv, OpenIsAnnounced
  <2>3. QED
    BY <2>1, <2>2 DEF Announced, Says
<1>8. OutputIsLate'
  <2> SUFFICES ASSUME NEW s \in Sessions, NEW i \in 1 .. Len(up'), Says(i, "data", s)', Heeded(s)'
               PROVE  phase'[s] = "live" \/ \E j \in 1 .. i - 1 : Says(j, "connected", s)'
    BY DEF OutputIsLate
  <2>1. i \in 1 .. Len(up) /\ Says(i, "data", s) /\ up'[i].session = s
    BY <1>1 DEF Says
  <2>2. Heeded(s) /\ phase'[s] = phase[s]
    BY <1>4, <2>1 DEF SilentBefore, Silent
  <2>3. CASE phase[s] = "live"
    BY <2>2, <2>3
  <2>4. ASSUME NEW j \in 1 .. i - 1, Says(j, "connected", s)
        PROVE  Says(j, "connected", s)'
    <3>1. j \in 1 .. Len(up')
      BY <1>2
    <3>2. QED
      BY <1>1, <2>4, <3>1 DEF Says
  <2>5. phase[s] = "live" \/ \E j \in 1 .. i - 1 : Says(j, "connected", s)
    BY <2>1, <2>2 DEF HearingInv, OutputIsLate
  <2>6. QED
    BY <2>3, <2>4, <2>5
<1>9. QED
  BY <1>4, <1>5, <1>6, <1>7, <1>8 DEF HearingInv

(* The server hears the first message.                                      *)
LEMMA FirstHeard ==
  ASSUME TypeOK, TypeOK', HearingInv, Receive, table' \subseteq table,
         \A s \in Sessions : Heeded(s)' =>
           \/ s # up[1].session /\ phase'[s] = phase[s]
           \/ s = up[1].session /\ up[1].kind = "connected" /\ phase'[s] = "live"
           \/ s = up[1].session /\ up[1].kind = "data" /\ phase'[s] = phase[s]
           \/ s = up[1].session /\ up[1].kind = "error"
  PROVE  HearingInv'
<1> PICK h : h = up[1].session
  OBVIOUS
<1>1. /\ up' = Tail(up) /\ up \in Seq(Replies) /\ up # <<>>
      /\ UNCHANGED <<ui, stage, via, link, known, links>>
  BY DEF Receive, browser, net, agent, TypeOK
<1>2. Len(up) \in Nat \ {0} /\ Len(up') \in Nat /\ Len(up') + 1 <= Len(up) /\ 1 \in 1 .. Len(up)
  BY <1>1, TailIsPart DEF Part
<1>3. \A i \in 1 .. Len(up') : i + 1 \in 1 .. Len(up) /\ up'[i] = up[i + 1] /\ i + 1 # 1
  BY <1>1, <1>2, TailIsPart DEF Part
<1>4. \A i \in 1 .. Len(up) : up[i].session \in Sessions
  BY Entries
<1>5. \A s \in Sessions : Silent(s) => Silent(s)'
  BY <1>3 DEF Silent
<1>6. ~Silent(h)
  BY <1>2 DEF Silent
<1>7. up[1].kind = "error" => stage[h] = "ended" /\ Silent(h)'
  BY <1>2, <1>3 DEF HearingInv, ErrorAlone, Silent
<1>8. SilentBefore' /\ LinksAreFresh'
  BY <1>1, <1>5 DEF HearingInv, SilentBefore, LinksAreFresh
<1>9. ErrorAlone'
  <2> SUFFICES ASSUME NEW i \in 1 .. Len(up'), up'[i].kind = "error"
               PROVE  /\ stage'[up'[i].session] = "ended"
                      /\ \A j \in 1 .. Len(up') : up'[j].session = up'[i].session => j = i
    BY DEF ErrorAlone
  <2>1. /\ stage[up[i + 1].session] = "ended"
        /\ \A j \in 1 .. Len(up) : up[j].session = up[i + 1].session => j = i + 1
    BY <1>3 DEF HearingInv, ErrorAlone
  <2>2. ASSUME NEW j \in 1 .. Len(up'), up'[j].session = up'[i].session
        PROVE  j = i
    <3>1. j + 1 = i + 1
      BY <1>3, <2>1, <2>2
    <3>2. QED
      BY <1>2, <3>1
  <2>3. QED
    BY <1>1, <1>3, <2>1, <2>2
<1>10. TableIsAlive'
  <2> SUFFICES ASSUME NEW s \in table', ui'
               PROVE  phase'[s] \in {"connecting", "live"} \/ (stage'[s] = "ended" /\ Silent(s)')
    BY DEF TableIsAlive
  <2>1. s \in Sessions /\ Heeded(s)' /\ Heeded(s)
    BY <1>1 DEF TypeOK, Heeded
  <2>2. phase[s] \in {"connecting", "live"} \/ (stage[s] = "ended" /\ Silent(s))
    BY <2>1 DEF HearingInv, TableIsAlive, Heeded
  <2>3. QED
    BY <1>1, <1>5, <1>6, <1>7, <2>1, <2>2
<1>11. ASSUME NEW s \in Sessions, Heeded(s)', s # h
       PROVE  Heeded(s) /\ phase'[s] = phase[s]
  BY <1>1, <1>11 DEF Heeded
<1>12. ASSUME Heeded(h)', up[1].kind # "error"
       PROVE  phase'[h] = "live"
  <2>1. Heeded(h) /\ h \in Sessions
    BY <1>1, <1>2, <1>4, <1>12 DEF Heeded
  <2>2. CASE up[1].kind = "data" /\ phase'[h] = phase[h]
    <3>1. Says(1, "data", h) /\ ~\E j \in 1 .. 1 - 1 : Says(j, "connected", h)
      BY <2>2 DEF Says
    <3>2. QED
      BY <1>2, <2>1, <2>2, <3>1 DEF HearingInv, OutputIsLate
  <2>3. QED
    BY <1>12, <2>1, <2>2
<1>13. OpenIsAnnounced'
  <2> SUFFICES ASSUME NEW s \in Sessions, Heeded(s)', stage[s] = "open", via[s] = link, link = known,
                      s # h
               PROVE  phase'[s] = "live" \/ Announced(s)'
    BY <1>1, <1>7, <1>12 DEF OpenIsAnnounced
  <2>1. phase[s] = "live" \/ Announced(s)
    BY <1>11 DEF HearingInv, OpenIsAnnounced
  <2>2. ASSUME NEW i \in 1 .. Len(up), Says(i, "connected", s)
        PROVE  Announced(s)'
    <3>1. i # 1
      BY <2>2 DEF Says
    <3>2. i - 1 \in 1 .. Len(up') /\ up'[i - 1] = up[i]
      BY <1>1, <1>2, <3>1
    <3>3. QED
      BY <2>2, <3>2 DEF Says, Announced
  <2>3. QED
    BY <1>11, <2>1, <2>2 DEF Announced
<1>14. OutputIsLate'
  <2> SUFFICES ASSUME NEW s \in Sessions, NEW i \in 1 .. Len(up'), Says(i, "data", s)', Heeded(s)'
               PROVE  phase'[s] = "live" \/ \E j \in 1 .. i - 1 : Says(j, "connected", s)'
    BY DEF OutputIsLate
  <2>1. i + 1 \in 1 .. Len(up) /\ Says(i + 1, "data", s)
    BY <1>3 DEF Says
  <2>2. CASE s = h
    <3>1. up[1].kind # "error"
      BY <1>7, <2>2 DEF Silent, Says
    <3>2. QED
      BY <1>12, <2>2, <3>1
  <2>3. CASE s # h
    <3>1. Heeded(s) /\ phase'[s] = phase[s]
      BY <1>11, <2>3
    <3>2. phase[s] = "live" \/ \E j \in 1 .. i : Says(j, "connected", s)
      <4>1. phase[s] = "live" \/ \E j \in 1 .. (i + 1) - 1 : Says(j, "connected", s)
        BY <2>1, <3>1 DEF HearingInv, OutputIsLate
      <4>2. (i + 1) - 1 = i
        OBVIOUS
      <4>3. QED
        BY <4>1, <4>2
    <3>3. ASSUME NEW j \in 1 .. i, Says(j, "connected", s)
          PROVE  \E l \in 1 .. i - 1 : Says(l, "connected", s)'
      <4>1. j # 1
        BY <2>3, <3>3 DEF Says
      <4>2. j - 1 \in 1 .. i - 1 /\ j - 1 \in 1 .. Len(up') /\ (j - 1) + 1 = j
        BY <1>2, <4>1
      <4>3. up'[j - 1] = up[j]
        BY <1>3, <4>2
      <4>4. Says(j - 1, "connected", s)'
        BY <3>3, <4>3 DEF Says
      <4>5. QED
        BY <4>2, <4>4
    <3>4. QED
      BY <3>1, <3>2, <3>3
  <2>4. QED
    BY <2>2, <2>3
<1>15. QED
  BY <1>8, <1>9, <1>10, <1>13, <1>14 DEF HearingInv

(* A session of the agent moves on, and may say so. *)
LEMMA MoreHeard ==
  ASSUME TypeOK, TypeOK', HearingInv, NEW s \in Sessions, NEW x, NEW l,
         NEW kind \in {"connected", "data", "error", "closed"},
         UNCHANGED <<ui, table, phase, via, link, known, links>>,
         stage[s] \in {"opening", "open", "dying"}, x \notin {"none", "opening"},
         stage' = [stage EXCEPT ![s] = x],
         up' = up \/ ReplyOn(l, kind, s),
         kind = "error" => stage[s] = "opening" /\ x = "ended",
         kind = "data" => stage[s] = "open" /\ l = via[s],
         x = "open" => stage[s] = "open" \/ (kind = "connected" /\ ReplyOn(via[s], kind, s))
  PROVE  HearingInv'
<1> DEFINE new == [kind |-> kind, session |-> s]
<1>1. /\ \A t \in Sessions : stage'[t] = IF t = s THEN x ELSE stage[t]
      /\ Len(up) \in Nat /\ \A i \in 1 .. Len(up) : up[i].session \in Sessions
  BY Entries DEF TypeOK
<1>2. /\ \/ Len(up') = Len(up)
         \/ /\ Len(up') = Len(up) + 1 /\ up'[Len(up) + 1] = new
            /\ kind = "data" => via[s] = link /\ link = known
      /\ \A i \in 1 .. Len(up) : up'[i] = up[i]
  <2>1. new \in Replies /\ up \in Seq(Replies)
    BY DEF Replies, TypeOK
  <2>2. /\ Len(Append(up, new)) = Len(up) + 1 /\ Append(up, new)[Len(up) + 1] = new
        /\ \A i \in 1 .. Len(up) : Append(up, new)[i] = up[i]
    BY <2>1, Appended
  <2>3. CASE up' = up
    BY <2>3
  <2>4. CASE ReplyOn(l, kind, s)
    <3>1. up' = up \/ (up' = Append(up, new) /\ l = link /\ link = known)
      BY <2>4 DEF ReplyOn
    <3>2. QED
      BY <2>2, <3>1
  <2>5. QED
    BY <2>3, <2>4
<1>3. \A i \in 1 .. Len(up) : up'[i] = up[i]
  BY <1>2
<1>4. \A i \in 1 .. Len(up') : i \in 1 .. Len(up) \/ (i = Len(up) + 1 /\ up'[i] = new)
  BY <1>1, <1>2
<1>5. 1 .. Len(up) \subseteq 1 .. Len(up')
  BY <1>1, <1>2
<1>6. \A t \in Sessions : t # s /\ Silent(t) => Silent(t)'
  BY <1>3, <1>4 DEF Silent
<1>7. \A t \in Sessions : Announced(t) => Announced(t)'
  BY <1>3, <1>5 DEF Announced, Says
<1>8. SilentBefore' /\ LinksAreFresh'
  BY <1>1, <1>6 DEF HearingInv, SilentBefore, LinksAreFresh
<1>9. ErrorAlone'
  <2>1. ASSUME NEW i \in 1 .. Len(up), up[i].kind = "error"
        PROVE  /\ up[i].session # s /\ stage'[up[i].session] = "ended"
               /\ \A j \in 1 .. Len(up') : up'[j].session = up[i].session => j = i
    <3>1. /\ stage[up[i].session] = "ended"
          /\ \A j \in 1 .. Len(up) : up[j].session = up[i].session => j = i
      BY <2>1 DEF HearingInv, ErrorAlone
    <3>2. QED
      BY <1>1, <1>3, <1>4, <3>1
  <2>2. kind = "error" => Silent(s) /\ stage'[s] = "ended"
    BY <1>1 DEF HearingInv, SilentBefore
  <2>3. ASSUME NEW i \in 1 .. Len(up'), up'[i].kind = "error", i = Len(up) + 1, up'[i] = new
        PROVE  /\ stage'[up'[i].session] = "ended"
               /\ \A j \in 1 .. Len(up') : up'[j].session = up'[i].session => j = i
    <3>1. Silent(s) /\ stage'[s] = "ended" /\ up'[i].session = s
      BY <2>2, <2>3
    <3>2. \A j \in 1 .. Len(up) : up'[j].session # s
      BY <1>3, <3>1 DEF Silent
    <3>3. QED
      BY <1>4, <2>3, <3>1, <3>2
  <2>4. QED
    BY <1>3, <1>4, <2>1, <2>3 DEF ErrorAlone
<1>10. TableIsAlive'
  BY <1>1, <1>6 DEF HearingInv, TableIsAlive, TypeOK
<1>11. OpenIsAnnounced'
  <2> SUFFICES ASSUME NEW t \in Sessions, Heeded(t), stage'[t] = "open", via[t] = link, link = known
               PROVE  phase[t] = "live" \/ Announced(t)'
    BY DEF OpenIsAnnounced, Heeded
  <2>1. CASE stage[t] = "open"
    BY <1>7, <2>1 DEF HearingInv, OpenIsAnnounced
  <2>2. CASE stage[t] # "open"
    <3>1. t = s /\ kind = "connected" /\ ReplyOn(via[s], kind, s)
      BY <1>1, <2>2
    <3>2. up' = Append(up, new)
      BY <3>1 DEF ReplyOn
    <3>3. new \in Replies /\ up \in Seq(Replies)
      BY DEF Replies, TypeOK
    <3>4. Len(up') = Len(up) + 1 /\ up'[Len(up) + 1] = new
      BY <3>2, <3>3, Appended
    <3>5. Len(up) + 1 \in 1 .. Len(up')
      BY <1>1, <3>4
    <3>6. QED
      BY <3>1, <3>4, <3>5 DEF Announced, Says
  <2>3. QED
    BY <2>1, <2>2
<1>12. OutputIsLate'
  <2> SUFFICES ASSUME NEW t \in Sessions, NEW i \in 1 .. Len(up'), Says(i, "data", t)', Heeded(t)
               PROVE  phase[t] = "live" \/ \E j \in 1 .. i - 1 : Says(j, "connected", t)'
    BY DEF OutputIsLate, Heeded
  <2>1. CASE i \in 1 .. Len(up)
    <3>1. Says(i, "data", t)
      BY <1>3, <2>1 DEF Says
    <3>2. ASSUME NEW j \in 1 .. i - 1, Says(j, "connected", t)
          PROVE  Says(j, "connected", t)'
      <4>1. j \in 1 .. Len(up)
        BY <1>1, <2>1
      <4>2. QED
        BY <1>3, <3>2, <4>1 DEF Says
    <3>3. phase[t] = "live" \/ \E j \in 1 .. i - 1 : Says(j, "connected", t)
      BY <2>1, <3>1 DEF HearingInv, OutputIsLate
    <3>4. QED
      BY <3>2, <3>3
  <2>2. CASE i = Len(up) + 1 /\ up'[i] = new
    <3>1. Len(up') # Len(up)
      BY <1>1, <2>2
    <3>2. t = s /\ kind = "data" /\ via[s] = link /\ link = known /\ stage[s] = "open"
      BY <1>2, <2>2, <3>1 DEF Says
    <3>3. phase[s] = "live" \/ Announced(s)
      BY <3>2 DEF HearingInv, OpenIsAnnounced
    <3>4. ASSUME NEW j \in 1 .. Len(up), Says(j, "connected", s)
          PROVE  j \in 1 .. i - 1 /\ Says(j, "connected", s)'
      BY <1>1, <1>3, <2>2, <3>4 DEF Says
    <3>5. QED
      BY <3>2, <3>3, <3>4 DEF Announced
  <2>3. QED
    BY <1>4, <2>1, <2>2
<1>13. QED
  BY <1>8, <1>9, <1>10, <1>11, <1>12 DEF HearingInv

LEMMA QuietStepHears ==
  ASSUME TypeInv, TypeInv', OrderInv, HearingInv,
         \/ UserStep \/ ConnectRefused \/ ConnectGoes \/ ServerRestart
         \/ \E s \in Sessions : Timeout(s)
  PROVE  HearingInv'
<1> USE DEF TypeInv
<1>1. UNCHANGED <<via, link, links, stage>>
  BY DEF UserStep, ConnectAsked, Disconnect, BrowserCloses, BrowserFails, Leave, ConnectRefused,
         ConnectGoes, ServerRestart, Timeout, net, agent
<1>2. Part(up', up, 0) /\ ((up' = up /\ known' = known) \/ ServerRestart)
  <2>1. CASE ServerRestart
    BY <2>1, EmptyIsPart DEF ServerRestart, TypeOK
  <2>2. CASE ~ServerRestart
    <3>1. up' = up /\ known' = known
      BY <2>2 DEF UserStep, ConnectAsked, Disconnect, BrowserCloses, BrowserFails, Leave,
                  ConnectRefused, ConnectGoes, Timeout, net, wires
    <3>2. QED
      BY <3>1, Whole DEF TypeOK
  <2>3. QED
    BY <2>1, <2>2
<1>3. LinksAreFresh'
  BY <1>1, <1>2, Numbers DEF HearingInv, LinksAreFresh, ServerRestart, TypeOK
<1>4. ASSUME NEW s \in Sessions, Heeded(s)'
      PROVE  \/ Heeded(s) /\ phase'[s] = phase[s]
             \/ phase'[s] = "connecting" /\ stage'[s] = "none"
  <2>1. CASE ConnectAsked \/ ConnectRefused
    BY <1>4, <2>1 DEF ConnectAsked, ConnectRefused, server, shown, Heeded
  <2>2. CASE ConnectGoes
    <3>1. born' \in Sessions /\ born' > born
      BY <2>2, Numbers DEF ConnectGoes, TypeOK, Sessions
    <3>2. CASE s = born'
      BY <1>1, <1>4, <2>2, <3>1, <3>2 DEF ConnectGoes, Heeded, OrderInv, Fresh, TypeOK
    <3>3. CASE s # born'
      BY <1>4, <2>2, <3>3 DEF ConnectGoes, Heeded, TypeOK
    <3>4. QED
      BY <3>2, <3>3
  <2>3. CASE Disconnect
    BY <1>4, <2>3 DEF Disconnect, Leave, Over, Heeded
  <2>4. CASE BrowserCloses \/ BrowserFails \/ ServerRestart
    BY <1>4, <2>4 DEF BrowserCloses, BrowserFails, ServerRestart, Heeded
  <2>5. CASE \E t \in Sessions : Timeout(t)
    BY <1>4, <2>5 DEF Timeout, Over, browser, Heeded
  <2>6. QED
    BY <2>1, <2>2, <2>3, <2>4, <2>5 DEF UserStep
<1>5. ASSUME NEW s \in Sessions, stage'[s] = "open", via'[s] = link', link' = known'
      PROVE  via[s] = link /\ link = known /\ up' = up
  <2>1. via'[s] # 0
    BY <1>5 DEF TypeOK
  <2>2. ~ServerRestart
    BY <1>5, <2>1 DEF ServerRestart
  <2>3. QED
    BY <1>1, <1>2, <1>5, <2>2
<1>6. QED
  BY <1>1, <1>2, <1>3, <1>4, <1>5, LessHeard

LEMMA LinkStepHears ==
  ASSUME TypeInv, TypeInv', OrderInv, HearingInv,
         LinkMade \/ ServerLoses \/ AgentLoses \/ AgentRestart
  PROVE  HearingInv'
<1> USE DEF TypeInv
<1>1. UNCHANGED <<via, ui, table, phase>>
  BY DEF LinkMade, ServerLoses, AgentLoses, AgentRestart, browser, server, shown, agent
<1>2. Part(up', up, 0)
  <2>1. CASE LinkMade \/ ServerLoses
    BY <2>1, Whole DEF LinkMade, ServerLoses, wires, TypeOK
  <2>2. CASE AgentLoses \/ AgentRestart
    BY <2>2, PrefixIsPart DEF AgentLoses, AgentRestart, TypeOK
  <2>3. QED
    BY <2>1, <2>2
<1>3. LinksAreFresh'
  <2>1. links \in Nat /\ \A s \in Sessions : via[s] \in Nat /\ via[s] <= links
    <3>1. links \in Nat
      BY Numbers DEF TypeOK
    <3>2. \A s \in Sessions : via[s] \in Links \cup {0}
      BY DEF TypeOK
    <3>3. QED
      BY <3>1, <3>2, Numbers DEF HearingInv, LinksAreFresh
  <2>2. CASE LinkMade
    BY <1>1, <2>1, <2>2 DEF LinkMade, LinksAreFresh
  <2>3. CASE ServerLoses \/ AgentLoses \/ AgentRestart
    <3>1. links' = links /\ link' \in {link, 0} /\ known' \in {known, 0}
      BY <2>3 DEF ServerLoses, AgentLoses, AgentRestart
    <3>2. QED
      BY <1>1, <2>1, <3>1 DEF HearingInv, LinksAreFresh
  <2>4. QED
    BY <2>2, <2>3
<1>4. \A s \in Sessions :
        /\ stage'[s] \in {"none", "opening"} => stage[s] \in {"none", "opening"}
        /\ stage[s] = "ended" => stage'[s] = "ended"
        /\ stage'[s] = "open" => stage[s] = "open"
  BY DEF LinkMade, ServerLoses, AgentLoses, AgentRestart, agent, TypeOK
<1>5. ASSUME NEW s \in Sessions, stage'[s] = "open", via'[s] = link', link' = known'
      PROVE  FALSE
  <2>1. via'[s] # 0
    BY <1>5 DEF TypeOK
  <2>2. ~LinkMade
    BY <1>1, <1>5, Numbers DEF LinkMade, HearingInv, LinksAreFresh, TypeOK, Links
  <2>3. QED
    BY <1>5, <2>1, <2>2 DEF ServerLoses, AgentLoses, AgentRestart
<1>6. \A s \in Sessions : Heeded(s)' => Heeded(s) /\ phase'[s] = phase[s]
  BY <1>1 DEF Heeded
<1>7. QED
  BY <1>2, <1>3, <1>4, <1>5, <1>6, LessHeard

LEMMA HeardStepHears ==
  ASSUME TypeInv, TypeInv', HearingInv, HeardStep
  PROVE  HearingInv'
<1> USE DEF TypeInv
<1>1. Receive
  BY DEF HeardStep, HeardUnknown, HeardTooLate, HeardConnected, HeardData, HeardError, HeardClosed, Heard
<1>2. Head(up) = up[1] /\ ui' = ui
  BY <1>1 DEF Receive, TypeOK, browser
<1>3. PICK h : h = up[1].session
  OBVIOUS
<1>4. CASE HeardUnknown \/ HeardTooLate
  <2>1. table' \subseteq table /\ phase' = phase /\ \A s : Heeded(s)' => s # h
    BY <1>2, <1>3, <1>4 DEF HeardUnknown, HeardTooLate, shown, Heeded
  <2>2. QED
    BY <1>1, <1>3, <2>1, FirstHeard
<1>5. ASSUME NEW t \in Sessions, HeardConnected(t)
      PROVE  HearingInv'
  <2>1. h = t /\ up[1].kind = "connected" /\ table' = table /\ phase' = [phase EXCEPT ![t] = "live"]
    BY <1>2, <1>3, <1>5 DEF HeardConnected, Heard
  <2>2. \A s \in Sessions : s # t => phase'[s] = phase[s]
    BY <2>1 DEF TypeOK
  <2>3. phase'[t] = "live"
    BY <2>1 DEF TypeOK
  <2>4. QED
    BY <1>1, <1>3, <2>1, <2>2, <2>3, FirstHeard
<1>6. ASSUME NEW t \in Sessions, HeardData(t)
      PROVE  HearingInv'
  <2>1. h = t /\ up[1].kind = "data" /\ table' = table /\ phase' = phase
    BY <1>2, <1>3, <1>6 DEF HeardData, Heard
  <2>2. QED
    BY <1>1, <1>3, <2>1, FirstHeard
<1>7. ASSUME NEW t \in Sessions, HeardError(t)
      PROVE  HearingInv'
  <2>1. h = t /\ up[1].kind = "error" /\ table' = table
    BY <1>2, <1>3, <1>7 DEF HeardError, Heard
  <2>2. \A s \in Sessions : s # t => phase'[s] = phase[s]
    BY <1>7 DEF HeardError, Over
  <2>3. QED
    BY <1>1, <1>3, <2>1, <2>2, FirstHeard
<1>8. ASSUME NEW t \in Sessions, HeardClosed(t)
      PROVE  HearingInv'
  <2>1. h = t /\ table' = table \ {t}
    BY <1>2, <1>3, <1>8 DEF HeardClosed, Heard
  <2>2. \A s \in Sessions : s # t => phase'[s] = phase[s]
    BY <1>8 DEF HeardClosed, Over
  <2>3. ~Heeded(t)'
    BY <2>1 DEF Heeded
  <2>4. QED
    BY <1>1, <1>3, <2>1, <2>2, <2>3, FirstHeard
<1>9. QED
  BY <1>4, <1>5, <1>6, <1>7, <1>8 DEF HeardStep

LEMMA TakeOpenHears ==
  ASSUME TypeInv, TypeInv', OrderInv, HearingInv, NEW s \in Sessions, TakeOpen(s)
  PROVE  HearingInv'
<1> USE DEF TypeInv
<1>1. UNCHANGED <<ui, table, phase, up, link, known, links>>
  BY DEF TakeOpen, browser, server, shown, net
<1>2. stage[s] = "none"
  <2>1. down \in Seq(Orders)
    BY DEF TypeOK
  <2>2. down # <<>> /\ Head(down) = [kind |-> "open", session |-> s]
    BY DEF TakeOpen, Take
  <2>3. 1 \in 1 .. Len(down) /\ Head(down) = down[1]
    BY <2>1, <2>2, TailIsPart
  <2>4. down[1].kind = "open" /\ down[1].session = s
    BY <2>2, <2>3
  <2>5. QED
    BY <2>3, <2>4 DEF OrderInv, OpenedOnce
<1>3. CASE UNCHANGED agent
  <2>1. UNCHANGED <<stage, via>>
    BY <1>3 DEF agent
  <2>2. LinksAreFresh'
    BY <1>1, <2>1 DEF HearingInv, LinksAreFresh
  <2>3. Part(up', up, 0)
    BY <1>1, Whole DEF TypeOK
  <2>4. \A t \in Sessions : Heeded(t)' => Heeded(t)
    BY <1>1 DEF Heeded
  <2>5. QED
    BY <1>1, <2>1, <2>2, <2>3, <2>4, LessHeard
<1>4. CASE link # 0 /\ stage' = [stage EXCEPT ![s] = "opening"] /\ via' = [via EXCEPT ![s] = link]
  <2>1. \A t \in Sessions : /\ stage'[t] = IF t = s THEN "opening" ELSE stage[t]
                            /\ via'[t] = IF t = s THEN link ELSE via[t]
    BY <1>4 DEF TypeOK
  <2>2. LinksAreFresh'
    BY <1>1, <2>1 DEF HearingInv, LinksAreFresh
  <2>3. Part(up', up, 0)
    BY <1>1, Whole DEF TypeOK
  <2>4. \A t \in Sessions : Heeded(t)' => Heeded(t)
    BY <1>1 DEF Heeded
  <2>5. QED
    BY <1>1, <1>2, <2>1, <2>2, <2>3, <2>4, LessHeard
<1>5. QED
  BY <1>3, <1>4 DEF TakeOpen

LEMMA AgentStepHears ==
  ASSUME TypeInv, TypeInv', HearingInv, NEW s \in Sessions, TakeClose(s) \/ AgentStep(s)
  PROVE  HearingInv'
<1> USE DEF TypeInv
<1>1. UNCHANGED <<ui, table, phase, via, link, known, links>>
  BY DEF TakeClose, AgentStep, Opened, OpenFails, Prints, Exits, PumpEnds, browser, server, shown, net, agent
<1>2. CASE Opened(s)
  BY <1>1, <1>2, MoreHeard DEF Opened, Reply
<1>3. CASE OpenFails(s)
  BY <1>1, <1>3, MoreHeard DEF OpenFails, Reply
<1>4. CASE Prints(s)
  <2>1. stage' = [stage EXCEPT ![s] = "open"] /\ stage[s] = "open"
    BY <1>4 DEF Prints, agent, TypeOK
  <2>2. QED
    BY <1>1, <1>4, <2>1, MoreHeard DEF Prints, Reply
<1>5. ASSUME Stopped(s), stage[s] \in {"open", "dying"}, up' = up \/ \E l : ReplyOn(l, "closed", s)
      PROVE  HearingInv'
  <2>1. PICK x \in {"dying", "ended"} : stage' = [stage EXCEPT ![s] = x]
    BY <1>5 DEF Stopped
  <2>2. QED
    BY <1>1, <1>5, <2>1, MoreHeard
<1>6. CASE Exits(s)
  BY <1>5, <1>6 DEF Exits, Reply
<1>7. CASE PumpEnds(s)
  BY <1>1, <1>7, MoreHeard DEF PumpEnds, Reply
<1>8. CASE stage[s] = "open" /\ (CloseShell(s) \/ CloseProxy(s))
  BY <1>5, <1>8 DEF CloseShell, CloseProxy
<1>9. CASE NothingToClose(s)
  <2>1. UNCHANGED <<stage, up>>
    BY <1>9 DEF NothingToClose
  <2>2. LinksAreFresh'
    BY <1>1 DEF HearingInv, LinksAreFresh
  <2>3. Part(up', up, 0)
    BY <2>1, Whole DEF TypeOK
  <2>4. \A t \in Sessions : Heeded(t)' => Heeded(t)
    BY <1>1 DEF Heeded
  <2>5. QED
    BY <1>1, <2>1, <2>2, <2>3, <2>4, LessHeard
<1>10. QED
  BY <1>2, <1>3, <1>4, <1>6, <1>7, <1>8, <1>9 DEF AgentStep, TakeClose

LEMMA StepHears ==
  ASSUME TypeInv, TypeInv', OrderInv, HearingInv, Next
  PROVE  HearingInv'
<1>1. CASE UserStep \/ ConnectRefused \/ ConnectGoes \/ ServerRestart \/ \E s \in Sessions : Timeout(s)
  BY <1>1, QuietStepHears
<1>2. CASE LinkMade \/ ServerLoses \/ AgentLoses \/ AgentRestart
  BY <1>2, LinkStepHears
<1>3. CASE HeardStep
  BY <1>3, HeardStepHears
<1>4. CASE TakeStep \/ \E s \in Sessions : AgentStep(s)
  BY <1>4, TakeOpenHears, AgentStepHears DEF TakeStep
<1>5. QED
  BY <1>1, <1>2, <1>3, <1>4 DEF Next, AgentStep

-----------------------------------------------------------------------------
(***************************************************************************)
(* The contract.                                                             *)
(***************************************************************************)
LEMMA InitInv == Init => SessionInv
<1> SUFFICES ASSUME Init PROVE SessionInv
  OBVIOUS
<1>1. TypeOK /\ Spare
  BY InitType DEF TypeInv
<1>2. OrderInv
  BY Numbers DEF Init, OrderInv, Fresh, OpenedOnce
<1>3. HearingInv
  BY DEF Init, HearingInv, SilentBefore, Silent, ErrorAlone, TableIsAlive, LinksAreFresh,
         OpenIsAnnounced, OutputIsLate
<1>4. QED
  BY <1>1, <1>2, <1>3 DEF SessionInv

LEMMA StepInv == SessionInv /\ [Next]_vars => SessionInv'
<1> SUFFICES ASSUME SessionInv, [Next]_vars PROVE SessionInv'
  OBVIOUS
<1>1. TypeInv /\ TypeInv'
  BY StepType DEF SessionInv, TypeInv
<1>2. CASE Next
  BY <1>1, <1>2, StepOrders, StepHears DEF SessionInv, TypeInv
<1>3. CASE UNCHANGED vars
  <2>1. UNCHANGED <<ui, current, born, table, phase, known, link, links, down, up, stage, via>>
    BY <1>3 DEF vars, browser, server, shown, net, wires, agent
  <2>2. OrderInv'
    BY <2>1 DEF SessionInv, OrderInv, Fresh, OpenedOnce
  <2>3. HearingInv'
    BY <2>1 DEF SessionInv, HearingInv, SilentBefore, Silent, ErrorAlone, TableIsAlive, LinksAreFresh,
                OpenIsAnnounced, OutputIsLate, Heeded, Announced, Says
  <2>4. QED
    BY <1>1, <2>2, <2>3 DEF SessionInv, TypeInv
<1>4. QED
  BY <1>2, <1>3

(* Sessions end for the browser.                                            *)
LEMMA OverIsEnd ==
  ASSUME TypeOK, TypeOK', NEW ss, Over(ss), UNCHANGED output
  PROVE  Contract!End
BY DEF Contract!End, Contract!Changes, Over, TypeOK, Phase

LEMMA StepContract ==
  ASSUME SessionInv, TypeOK', [Next]_vars
  PROVE  [Contract!Next]_(Contract!vars)
<1>1. TypeOK
  BY DEF SessionInv
<1>2. CASE UNCHANGED <<phase, output>>
  BY <1>2 DEF Contract!vars
<1>3. CASE ConnectGoes
  <2>1. born \in Nat /\ born' = born + 1 /\ born' \in Sessions
    BY <1>1, <1>3, Numbers DEF ConnectGoes, SessionInv, Spare, TypeOK, Sessions
  <2>2. phase[born'] = "none"
    BY <2>1 DEF SessionInv, OrderInv, Fresh
  <2>3. phase' = [phase EXCEPT ![born'] = IF ui THEN "connecting" ELSE "none"] /\ output' = output
    BY <1>3, <2>2 DEF ConnectGoes
  <2>4. Contract!Connect
    BY <1>1, <2>1, <2>2, <2>3 DEF Contract!Connect, Contract!Changes, TypeOK, Phase
  <2>5. QED
    BY <2>4 DEF Contract!Next
<1>4. ASSUME NEW ss, Over(ss), UNCHANGED output
      PROVE  Contract!Next
  BY <1>1, <1>4, OverIsEnd DEF Contract!Next
<1>5. CASE HeardStep
  <2>1. ASSUME NEW s \in Sessions, HeardConnected(s)
        PROVE  Contract!Next
    <3>1. Heeded(s) /\ up # <<>> /\ Head(up) = [kind |-> "connected", session |-> s]
          /\ phase' = [phase EXCEPT ![s] = "live"] /\ output' = output
      BY <2>1 DEF HeardConnected, Heard, Receive, Heeded
    <3>2. ~Silent(s)
      <4>1. up \in Seq(Replies)
        BY <1>1 DEF TypeOK
      <4>2. 1 \in 1 .. Len(up) /\ up[1].session = s
        BY <3>1, <4>1, TailIsPart
      <4>3. QED
        BY <4>2 DEF Silent
    <3>3. phase[s] \in {"connecting", "live"}
      BY <3>1, <3>2 DEF SessionInv, HearingInv, TableIsAlive, Heeded
    <3>4. Contract!Succeed
      BY <1>1, <3>1, <3>3 DEF Contract!Succeed, Contract!Changes, TypeOK, Phase
    <3>5. QED
      BY <3>4 DEF Contract!Next
  <2>2. ASSUME NEW s \in Sessions, HeardData(s)
        PROVE  Contract!Next
    <3>1. Heeded(s) /\ up # <<>> /\ Head(up) = [kind |-> "data", session |-> s]
          /\ phase' = phase /\ output' = output \cup {s}
      BY <2>2 DEF HeardData, Heard, Receive, Heeded
    <3>2. 1 \in 1 .. Len(up) /\ Says(1, "data", s)
      <4>1. up \in Seq(Replies)
        BY <1>1 DEF TypeOK
      <4>2. QED
        BY <3>1, <4>1, TailIsPart DEF Says
    <3>3. ~\E j \in 1 .. 1 - 1 : Says(j, "connected", s)
      OBVIOUS
    <3>4. phase[s] = "live"
      BY <3>1, <3>2, <3>3 DEF SessionInv, HearingInv, OutputIsLate
    <3>5. Contract!Show
      BY <3>1, <3>4 DEF Contract!Show
    <3>6. QED
      BY <3>5 DEF Contract!Next
  <2>3. CASE \E s \in Sessions : HeardError(s) \/ HeardClosed(s)
    BY <1>4, <2>3 DEF HeardError, HeardClosed
  <2>4. CASE HeardUnknown \/ HeardTooLate
    BY <1>2, <2>4 DEF HeardUnknown, HeardTooLate, shown
  <2>5. QED
    BY <1>5, <2>1, <2>2, <2>3, <2>4 DEF HeardStep
<1>6. CASE UserStep \/ ServerRestart \/ \E s \in Sessions : Timeout(s)
  <2>1. CASE ConnectAsked
    BY <1>2, <2>1 DEF ConnectAsked, shown
  <2>2. CASE ~ConnectAsked
    <3>1. UNCHANGED output
      BY <1>6, <2>2 DEF UserStep, Disconnect, BrowserCloses, BrowserFails, Leave, ServerRestart, Timeout
    <3>2. \E ss : Over(ss)
      BY <1>6, <2>2 DEF UserStep, Disconnect, BrowserCloses, BrowserFails, ServerRestart, Timeout
    <3>3. QED
      BY <1>4, <3>1, <3>2
  <2>3. QED
    BY <2>1, <2>2
<1>7. CASE ConnectRefused \/ TakeStep \/ \E s \in Sessions : AgentStep(s)
  BY <1>2, <1>7
  DEF ConnectRefused, TakeStep, TakeOpen, TakeClose, AgentStep, Opened, OpenFails, Prints, Exits,
      PumpEnds, shown
<1>8. CASE LinkMade \/ ServerLoses \/ AgentLoses \/ AgentRestart \/ UNCHANGED vars
  BY <1>2, <1>8 DEF LinkMade, ServerLoses, AgentLoses, AgentRestart, vars, shown
<1>9. QED
  BY <1>3, <1>5, <1>6, <1>7, <1>8 DEF Next, AgentStep

(* Browser, server and agent together implement TerminalContract: whatever   *)
(* is lost, late or restarted, a session that is over for the user is never  *)
(* shown alive again, and nothing is shown of one that did not come alive.   *)
THEOREM TerminalsKeepContract == Spec => ImplementsContract
<1>1. Init => Contract!Init
  BY DEF Init, Contract!Init
<1>2. SessionInv /\ SessionInv' /\ [Next]_vars => [Contract!Next]_(Contract!vars)
  BY StepContract DEF SessionInv
<1>3. QED
  BY <1>1, <1>2, InitInv, StepInv, PTL DEF Spec, ImplementsContract, Contract!Spec
-----------------------------------------------------------------------------
(***************************************************************************)
(* Nobody is left waiting without a timer.                                   *)
(***************************************************************************)
LEMMA TimedNext ==
  ASSUME TypeOK, ConnectingIsTimed, [Next]_vars
  PROVE  ConnectingIsTimed'
<1>1. ASSUME \A s \in Sessions : phase'[s] = "connecting" =>
               phase[s] = "connecting" /\ (s \in timers => s \in timers')
      PROVE  ConnectingIsTimed'
  BY <1>1 DEF ConnectingIsTimed
<1>2. CASE ConnectGoes
  <2>1. timers' = timers \cup {born'}
    BY <1>2 DEF ConnectGoes, Request
  <2>2. \A s \in Sessions : s # born' => phase'[s] = phase[s]
    BY <1>2 DEF ConnectGoes, TypeOK
  <2>3. QED
    BY <2>1, <2>2 DEF ConnectingIsTimed
<1>3. CASE UserStep
  BY <1>1, <1>3
  DEF UserStep, ConnectAsked, Disconnect, BrowserCloses, BrowserFails, Leave, Over, server, shown
<1>4. CASE HeardStep
  <2>1. CASE HeardUnknown \/ HeardTooLate \/ \E s \in Sessions : HeardData(s)
    BY <1>1, <2>1 DEF HeardUnknown, HeardTooLate, HeardData, shown
  <2>2. ASSUME NEW s \in Sessions, HeardConnected(s)
        PROVE  ConnectingIsTimed'
    BY <1>1, <2>2 DEF HeardConnected, TypeOK
  <2>3. ASSUME NEW s \in Sessions, HeardError(s) \/ HeardClosed(s)
        PROVE  ConnectingIsTimed'
    BY <1>1, <2>3 DEF HeardError, HeardClosed, Over
  <2>4. QED
    BY <1>4, <2>1, <2>2, <2>3 DEF HeardStep
<1>5. ASSUME NEW s \in Sessions, Timeout(s)
      PROVE  ConnectingIsTimed'
  BY <1>1, <1>5 DEF Timeout, Over
<1>6. CASE ServerRestart
  BY <1>1, <1>6 DEF ServerRestart, Over
<1>7. CASE ConnectRefused \/ TakeStep \/ \E s \in Sessions : AgentStep(s)
  BY <1>1, <1>7
  DEF ConnectRefused, TakeStep, TakeOpen, TakeClose, AgentStep, Opened, OpenFails, Prints, Exits,
      PumpEnds, server, shown
<1>8. CASE LinkMade \/ ServerLoses \/ AgentLoses \/ AgentRestart \/ UNCHANGED vars
  BY <1>1, <1>8 DEF LinkMade, ServerLoses, AgentLoses, AgentRestart, vars, server, shown
<1>9. QED
  BY <1>2, <1>3, <1>4, <1>5, <1>6, <1>7, <1>8 DEF Next, AgentStep

(* Whatever answers come, fail to come or come too late, and whoever         *)
(* restarts: a user who sees "Connecting..." has a timer running at the      *)
(* server, which is there until the session is alive or over.                *)
THEOREM AnswerIsTimed == Spec => []ConnectingIsTimed
<1>1. Init => ConnectingIsTimed
  BY DEF Init, ConnectingIsTimed
<1>2. TypeInv /\ ConnectingIsTimed /\ [Next]_vars => ConnectingIsTimed'
  BY TimedNext DEF TypeInv
<1>3. QED
  BY <1>1, <1>2, InitType, StepType, PTL DEF Spec

-----------------------------------------------------------------------------
(***************************************************************************)
(* The order to close a shell.                                               *)
(***************************************************************************)
Kept(s) ==
  /\ stage[s] = "open" /\ OrderedToClose(s) =>
       \/ mode'[s] = "shell" /\ stage'[s] = "open" /\ OrderedToClose(s)'
       \/ stage'[s] \in {"dying", "ended"}
  /\ stage[s] = "dying" => stage'[s] \in {"dying", "ended"}

(* Nothing of what the agent is told is lost, and the shell stays.           *)
LEMMA MoreOrders ==
  ASSUME TypeOK, NEW s \in Sessions, mode[s] = "shell", stage'[s] = stage[s],
         stage[s] = "open" => mode'[s] = "shell",
         \/ down' = down
         \/ \E kind \in {"open", "close"}, t \in Sessions : Order(kind, t)
  PROVE  Kept(s)
<1>1. SUFFICES ASSUME OrderedToClose(s) PROVE OrderedToClose(s)'
  BY DEF Kept
<1>2. CASE down' = down
  BY <1>1, <1>2 DEF OrderedToClose
<1>3. ASSUME NEW kind \in {"open", "close"}, NEW t \in Sessions,
             down' = Append(down, [kind |-> kind, session |-> t])
      PROVE  OrderedToClose(s)'
  <2>1. down \in Seq(Orders) /\ Len(down) \in Nat /\ [kind |-> kind, session |-> t] \in Orders
    BY DEF TypeOK, Orders
  <2>2. Len(down') = Len(down) + 1 /\ \A i \in 1 .. Len(down) : down'[i] = down[i]
    BY <1>3, <2>1, Appended
  <2>3. QED
    BY <1>1, <2>1, <2>2 DEF OrderedToClose
<1>4. QED
  BY <1>2, <1>3 DEF Order

(* An order about another session, or to open one, is taken.                 *)
LEMMA OthersTaken ==
  ASSUME TypeOK, NEW s \in Sessions, NEW kind, NEW t, Take(kind, t), kind = "open" \/ t # s,
         OrderedToClose(s)
  PROVE  OrderedToClose(s)'
<1>1. down \in Seq(Orders) /\ down # <<>> /\ down' = Tail(down)
  BY DEF TypeOK, Take
<1>2. Part(down', down, 1) /\ Len(down) \in Nat \ {0} /\ down' \in Seq(Orders)
      /\ down[1] = [kind |-> kind, session |-> t]
  BY <1>1, TailIsPart DEF Take
<1>3. PICK i \in 1 .. Len(down) : down[i] = [kind |-> "close", session |-> s]
  BY DEF OrderedToClose
<1>4. i # 1
  BY <1>2, <1>3
<1>5. Len(down') = Len(down) - 1
  BY <1>1
<1>6. i - 1 \in 1 .. Len(down') /\ down'[i - 1] = down[(i - 1) + 1] /\ (i - 1) + 1 = i
  BY <1>2, <1>4, <1>5 DEF Part
<1>7. QED
  BY <1>3, <1>6 DEF OrderedToClose

LEMMA TakeKeeps ==
  ASSUME TypeOK, OrderInv, NEW s \in Sessions, mode[s] = "shell",
         NEW t \in Sessions, TakeOpen(t) \/ TakeClose(t)
  PROVE  Kept(s)
<1>1. mode' = mode
  BY DEF TakeOpen, TakeClose, server
<1>2. CASE TakeOpen(t)
  <2>1. Take("open", t)
    BY <1>2 DEF TakeOpen
  <2>2. stage[t] = "none"
    <3>1. down \in Seq(Orders) /\ down # <<>>
      BY <2>1 DEF Take, TypeOK
    <3>2. 1 \in 1 .. Len(down) /\ down[1] = [kind |-> "open", session |-> t]
      BY <2>1, <3>1, TailIsPart DEF Take
    <3>3. QED
      BY <3>2 DEF OrderInv, OpenedOnce
  <2>3. s # t => stage'[s] = stage[s]
    BY <1>2 DEF TakeOpen, agent, TypeOK
  <2>4. QED
    BY <1>1, <2>1, <2>2, <2>3, OthersTaken DEF Kept
<1>3. CASE TakeClose(t)
  <2>1. Take("close", t)
    BY <1>3 DEF TakeClose
  <2>2. CASE s # t
    <3>1. stage'[s] = stage[s]
      BY <1>3, <2>2 DEF TakeClose, CloseShell, CloseProxy, Stopped, NothingToClose, TypeOK
    <3>2. QED
      BY <1>1, <2>1, <2>2, <3>1, OthersTaken DEF Kept
  <2>3. CASE s = t
    <3>1. stage[s] = "open" => stage'[s] = "dying"
      BY <1>3, <2>3 DEF TakeClose, CloseShell, CloseProxy, Stopped, NothingToClose, TypeOK
    <3>2. stage[s] = "dying" => stage'[s] = "dying"
      BY <1>3, <2>3 DEF TakeClose, NothingToClose
    <3>3. QED
      BY <3>1, <3>2 DEF Kept
  <2>4. QED
    BY <2>2, <2>3
<1>4. QED
  BY <1>2, <1>3

LEMMA StepKeeps ==
  ASSUME TypeInv, OrderInv, [Next]_vars, NEW s \in Sessions, mode[s] = "shell"
  PROVE  Kept(s)
<1>1. TypeOK
  BY DEF TypeInv
<1>2. CASE ConnectGoes
  <2>1. born \in Nat /\ born' = born + 1 /\ born' \in Sessions
    BY <1>2, Numbers DEF ConnectGoes, TypeInv, Spare, TypeOK, Sessions
  <2>2. stage[born'] = "none" /\ stage' = stage
    BY <1>2, <2>1 DEF ConnectGoes, agent, OrderInv, Fresh
  <2>3. s # born' => mode'[s] = mode[s]
    BY <1>1, <1>2 DEF ConnectGoes, TypeOK
  <2>4. Order("open", born')
    BY <1>2 DEF ConnectGoes, Request
  <2>5. QED
    BY <1>1, <2>1, <2>2, <2>3, <2>4, MoreOrders
<1>3. CASE Disconnect \/ BrowserCloses
  <2>1. Leave /\ mode' = mode /\ stage' = stage
    BY <1>3 DEF Disconnect, BrowserCloses, Leave, agent
  <2>2. current \in table => current \in Sessions /\ Order("close", current)
    BY <1>1, <2>1 DEF Leave, TypeOK
  <2>3. current \notin table => down' = down
    BY <2>1 DEF Leave
  <2>4. QED
    BY <1>1, <2>1, <2>2, <2>3, MoreOrders
<1>4. CASE ConnectAsked \/ BrowserFails \/ ConnectRefused \/ HeardStep \/ ServerRestart
           \/ \E t \in Sessions : Timeout(t)
  <2>1. mode' = mode /\ stage' = stage /\ down' = down
    BY <1>4
    DEF ConnectAsked, BrowserFails, ConnectRefused, HeardStep, HeardUnknown, HeardTooLate,
        HeardConnected, HeardData, HeardError, HeardClosed, Heard, Receive, ServerRestart, Timeout,
        server, wires, agent
  <2>2. QED
    BY <1>1, <2>1, MoreOrders
<1>5. CASE LinkMade \/ ServerLoses \/ UNCHANGED vars
  <2>1. mode' = mode /\ stage' = stage /\ down' = down
    BY <1>5 DEF LinkMade, ServerLoses, vars, server, wires, agent
  <2>2. QED
    BY <1>1, <2>1, MoreOrders
<1>6. CASE TakeStep
  BY <1>1, <1>6, TakeKeeps DEF TakeStep
<1>7. ASSUME NEW t \in Sessions, AgentStep(t)
      PROVE  Kept(s)
  <2>1. mode' = mode /\ down' = down
    BY <1>7 DEF AgentStep, Opened, OpenFails, Prints, Exits, PumpEnds, server
  <2>2. CASE stage'[s] = stage[s]
    BY <1>1, <2>1, <2>2, MoreOrders
  <2>3. CASE stage'[s] # stage[s]
    <3>1. s = t
      BY <1>1, <1>7, <2>3
      DEF AgentStep, Opened, OpenFails, Prints, Exits, PumpEnds, Stopped, agent, TypeOK
    <3>2. stage[s] \in {"open", "dying"} => stage'[s] \in {"dying", "ended"}
      BY <1>1, <1>7, <2>3, <3>1
      DEF AgentStep, Opened, OpenFails, Prints, Exits, PumpEnds, Stopped, agent, TypeOK
    <3>3. QED
      BY <3>2 DEF Kept
  <2>4. QED
    BY <2>2, <2>3
<1>8. CASE AgentLoses \/ AgentRestart
  BY <1>8 DEF AgentLoses, AgentRestart, Kept
<1>9. QED
  BY <1>2, <1>3, <1>4, <1>5, <1>6, <1>7, <1>8 DEF Next, UserStep, AgentStep

(* Once a shell is ordered to be closed, no loss of messages or connections  *)
(* makes the agent forget it: the order is in its channel until the shell is *)
(* being closed, and a shell that is being closed is not opened again by an  *)
(* order that comes late.                                                    *)
THEOREM OrderedCloseIsKept == Spec => CloseIsKept
<1>1. TypeInv /\ OrderInv /\ [Next]_vars => (\A s \in Sessions : mode[s] = "shell" => Kept(s))
  BY StepKeeps
<1>2. SessionInv => TypeInv /\ OrderInv
  BY DEF SessionInv, TypeInv
<1>3. TypeInv /\ OrderInv /\ [Next]_vars =>
        [\A s \in Sessions : mode[s] = "shell" =>
           /\ stage[s] = "open" /\ OrderedToClose(s) =>
                \/ mode'[s] = "shell" /\ stage'[s] = "open" /\ OrderedToClose(s)'
                \/ stage'[s] \in {"dying", "ended"}
           /\ stage[s] = "dying" => stage'[s] \in {"dying", "ended"}]_vars
  BY <1>1 DEF Kept
<1>4. QED
  BY <1>2, <1>3, InitInv, StepInv, PTL DEF Spec, CloseIsKept

=============================================================================
