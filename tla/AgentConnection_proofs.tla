----------------------- MODULE AgentConnection_proofs -----------------------
(***************************************************************************)
(* Proofs about AgentConnection, for any hosts and connections and any      *)
(* number of failures.                                                      *)
(***************************************************************************)
EXTENDS AgentConnection, TLAPS

LEMMA InitType == Init => TypeOK
BY DEF Init, TypeOK, AtMostOne, Idle, Resolver, Alerter, Monitor

(* A connection takes its host's place in the registry, alone.              *)
LEMMA ConnectType ==
  ASSUME TypeOK, NEW s \in Sockets, Connect(s)
  PROVE  TypeOK'
<1>1. HostOf[s] \in Hosts
  BY HostOfAssumption
<1>2. phase' \in [Sockets -> {"unused", "open", "closing", "closed"}]
      /\ grace' \subseteq Hosts /\ shown' \in [Hosts -> BOOLEAN]
  BY <1>1 DEF Connect, TypeOK
<1>3. /\ current' \in [Hosts -> SUBSET Sockets]
      /\ newest' \in [Hosts -> SUBSET Sockets]
      /\ timer' \in [Hosts -> SUBSET Sockets]
  BY <1>1 DEF Connect, TypeOK
<1>4. ASSUME NEW h \in Hosts
      PROVE  /\ AtMostOne(current'[h]) /\ AtMostOne(newest'[h]) /\ AtMostOne(timer'[h])
             /\ \A t \in current'[h] \cup newest'[h] \cup timer'[h] : HostOf[t] = h
  BY <1>1 DEF Connect, TypeOK, AtMostOne
<1>5. resolver' \in [Sockets -> Resolver]
  BY DEF Connect, TypeOK, Resolver
<1>6. due' \in [Hosts -> SUBSET Nat]
  BY <1>1 DEF Connect, TypeOK, ToClear
<1>7. QED
  BY <1>2, <1>3, <1>4, <1>5, <1>6 DEF Connect, TypeOK, table, checks, AtMostOne

LEMMA UnregisterType ==
  ASSUME TypeOK, NEW s \in Sockets, Unregister(s)
  PROVE  /\ current' \in [Hosts -> SUBSET Sockets]
         /\ \A h \in Hosts : current'[h] \subseteq current[h]
         /\ grace' \subseteq Hosts
         /\ closer' \subseteq Sockets
BY HostOfAssumption DEF Unregister, TypeOK

(* Either handler of a lost socket.                                         *)
LEMMA LossType ==
  ASSUME TypeOK, NEW s \in Sockets, SocketError(s) \/ SocketClose(s)
  PROVE  TypeOK'
<1>1. Unregister(s)
  BY DEF SocketError, SocketClose
<1>2. phase' \in [Sockets -> {"unused", "open", "closing", "closed"}]
  BY DEF SocketError, SocketClose, TypeOK
<1>3. ASSUME NEW h \in Hosts
      PROVE  /\ AtMostOne(current'[h]) /\ AtMostOne(newest'[h]) /\ AtMostOne(timer'[h])
             /\ \A t \in current'[h] \cup newest'[h] \cup timer'[h] : HostOf[t] = h
  BY <1>1, UnregisterType DEF SocketError, SocketClose, TypeOK, AtMostOne
<1>4. QED
  BY <1>1, <1>2, <1>3, UnregisterType
  DEF SocketError, SocketClose, TypeOK, AtMostOne, table, checks

LEMMA CloserSchedulesType ==
  ASSUME TypeOK, NEW s \in Sockets, CloserSchedules(s)
  PROVE  TypeOK'
<1>1. HostOf[s] \in Hosts
  BY HostOfAssumption
<1>2. timer' \in [Hosts -> SUBSET Sockets] /\ closer' \subseteq Sockets
  BY <1>1 DEF CloserSchedules, TypeOK
<1>3. ASSUME NEW h \in Hosts
      PROVE  /\ AtMostOne(current'[h]) /\ AtMostOne(newest'[h]) /\ AtMostOne(timer'[h])
             /\ \A t \in current'[h] \cup newest'[h] \cup timer'[h] : HostOf[t] = h
  BY <1>1 DEF CloserSchedules, TypeOK, AtMostOne, registry
<1>4. QED
  BY <1>2, <1>3 DEF CloserSchedules, TypeOK, AtMostOne, registry, display, table, checks

LEMMA TimerFiresType ==
  ASSUME TypeOK, NEW h \in Hosts, TimerFires(h)
  PROVE  TypeOK'
<1>1. timer' \in [Hosts -> SUBSET Sockets]
      /\ alerter' \in [Sockets -> Alerter]
  BY DEF TimerFires, TypeOK, Alerter
<1>2. ASSUME NEW g \in Hosts
      PROVE  /\ AtMostOne(current'[g]) /\ AtMostOne(newest'[g]) /\ AtMostOne(timer'[g])
             /\ \A t \in current'[g] \cup newest'[g] \cup timer'[g] : HostOf[t] = g
  BY DEF TimerFires, TypeOK, AtMostOne, registry
<1>3. QED
  BY <1>1, <1>2 DEF TimerFires, TypeOK, AtMostOne, registry, display, table, checks

LEMMA RaiseType ==
  ASSUME TypeOK, NEW h \in Hosts, Raise(h)
  PROVE  alerts' \in [Hosts -> SUBSET Nat] /\ raised' \in Nat
BY DEF Raise, TypeOK

LEMMA AssignType ==
  ASSUME TypeOK, NEW h \in Hosts, NEW a \in Nat, AssignAlert(h, a)
  PROVE  alerts' \in [Hosts -> SUBSET Nat]
BY DEF AssignAlert, TypeOK

(* Steps of the tasks behind an alert.                                      *)
LEMMA TaskType ==
  ASSUME TypeOK, NEW s \in Sockets,
         \/ AlerterChecks(s) \/ AlerterCreates(s) \/ AlerterAssigns(s)
         \/ ResolverReads(s) \/ ResolverResolves(s)
  PROVE  TypeOK'
<1> HostOf[s] \in Hosts
  BY HostOfAssumption
<1>1. CASE AlerterChecks(s)
  <2>1. alerter' \in [Sockets -> Alerter]
    BY <1>1 DEF AlerterChecks, TypeOK, Alerter, Idle
  <2>2. QED
    BY <1>1, <2>1 DEF AlerterChecks, TypeOK, AtMostOne, registry, display, table, checks
<1>2. CASE AlerterCreates(s)
  <2>1. alerts' \in [Hosts -> SUBSET Nat] /\ raised' \in Nat
    BY <1>2, RaiseType DEF AlerterCreates
  <2>2. alerter' \in [Sockets -> Alerter]
    <3>1. Idle \in Alerter /\ [at |-> "assigning", alert |-> raised + 1] \in Alerter
      BY DEF TypeOK, Alerter, Idle
    <3>2. QED
      BY <1>2, <3>1 DEF AlerterCreates, TypeOK
  <2>3. QED
    BY <1>2, <2>1, <2>2 DEF AlerterCreates, TypeOK, AtMostOne, registry, display, checks
<1>6. CASE AlerterAssigns(s)
  <2>1. alerter' \in [Sockets -> Alerter]
    BY <1>6 DEF AlerterAssigns, TypeOK, Alerter, Idle
  <2>2. alerter[s].alert \in Nat
    BY <1>6 DEF AlerterAssigns, TypeOK, Alerter
  <2>3. alerts' \in [Hosts -> SUBSET Nat]
    BY <1>6, <2>2, AssignType DEF AlerterAssigns
  <2>4. QED
    BY <1>6, <2>1, <2>3 DEF AlerterAssigns, TypeOK, AtMostOne, registry, display, checks
<1>3. CASE ResolverReads(s)
  <2>1. resolver' \in [Sockets -> Resolver]
    <3>1. Idle \in Resolver
      BY DEF Idle, Resolver
    <3>2. \A a \in alerts[HostOf[s]] : [at |-> "resolving", alert |-> a] \in Resolver
      BY DEF TypeOK, Resolver
    <3>3. QED
      BY <1>3, <3>1, <3>2 DEF ResolverReads, TypeOK
  <2>2. QED
    BY <1>3, <2>1 DEF ResolverReads, TypeOK, AtMostOne, registry, display, table, checks
<1>4. CASE ResolverResolves(s)
  <2>1. resolver' \in [Sockets -> Resolver] /\ alerts' \in [Hosts -> SUBSET Nat]
    BY <1>4 DEF ResolverResolves, TypeOK, Idle, Resolver
  <2>2. QED
    BY <1>4, <2>1 DEF ResolverResolves, TypeOK, AtMostOne, registry, display, checks
<1>5. QED
  BY <1>1, <1>2, <1>3, <1>4, <1>6

(* Steps of the monitor, its failure, and what it looks at.                 *)
LEMMA MonitorType ==
  ASSUME TypeOK,
         \/ MonitorStep
         \/ MonitorFails
         \/ \E h \in Hosts : HostGoesQuiet(h) \/ HostReports(h)
  PROVE  TypeOK'
<1>1. CASE MonitorBegin
  BY <1>1 DEF MonitorBegin, TypeOK, AtMostOne, Monitor, registry, display, tasks, table
<1>2. ASSUME NEW h \in Hosts, MonitorChecks(h) PROVE TypeOK'
  BY <1>2 DEF MonitorChecks, TypeOK, AtMostOne, Monitor, registry, display, tasks, table
<1>3. CASE MonitorCreates
  <2>1. monitor.host \in Hosts
    BY <1>3 DEF MonitorCreates, TypeOK, Monitor
  <2>2. alerts' \in [Hosts -> SUBSET Nat] /\ raised' \in Nat
    BY <1>3, <2>1, RaiseType DEF MonitorCreates
  <2>3. monitor' \in Monitor
    BY <1>3, <2>1 DEF MonitorCreates, TypeOK, Monitor
  <2>4. QED
    BY <1>3, <2>2, <2>3 DEF MonitorCreates, TypeOK, AtMostOne, registry, display, tasks
<1>8. CASE MonitorAssigns
  <2>1. monitor.host \in Hosts /\ monitor.alert \in Nat
    BY <1>8 DEF MonitorAssigns, TypeOK, Monitor
  <2>2. alerts' \in [Hosts -> SUBSET Nat]
    BY <1>8, <2>1, AssignType DEF MonitorAssigns
  <2>3. QED
    BY <1>8, <2>2 DEF MonitorAssigns, TypeOK, AtMostOne, Monitor, registry, display, tasks
<1>4. CASE MonitorEnds
  BY <1>4 DEF MonitorEnds, TypeOK, AtMostOne, Monitor, Idle, registry, display, tasks, table
<1>5. CASE MonitorFails
  BY <1>5 DEF MonitorFails, Fails, TypeOK, AtMostOne, Monitor, Idle, registry, display, tasks, table
<1>6. ASSUME NEW h \in Hosts, HostGoesQuiet(h) \/ HostReports(h) PROVE TypeOK'
  <2>1. UNCHANGED <<registry, display, tasks, table, monitor, todo, failures>>
    BY <1>6 DEF HostGoesQuiet, HostReports
  <2>2. stale' \in [Hosts -> BOOLEAN]
    BY <1>6 DEF HostGoesQuiet, HostReports, TypeOK
  <2>3. QED
    BY <2>1, <2>2 DEF TypeOK, AtMostOne, registry, display, tasks, table
<1>7. QED
  BY <1>1, <1>2, <1>3, <1>4, <1>5, <1>6, <1>8 DEF MonitorStep

LEMMA FailureType ==
  ASSUME TypeOK, ServerRestart \/ \E s \in Sockets : TaskFails(s)
  PROVE  TypeOK'
<1>1. CASE ServerRestart
  <2>1. Idle \in Resolver /\ Idle \in Alerter /\ Idle \in Monitor
    BY DEF Idle, Resolver, Alerter, Monitor
  <2>2. /\ phase' \in [Sockets -> {"unused", "open", "closing", "closed"}]
        /\ failures' \in Nat
    BY <1>1 DEF ServerRestart, Fails, TypeOK
  <2>3. QED
    BY <1>1, <2>1, <2>2 DEF ServerRestart, TypeOK, AtMostOne, table
<1>2. ASSUME NEW s \in Sockets, TaskFails(s) PROVE TypeOK'
  <2>1. /\ closer' \subseteq Sockets
        /\ resolver' \in [Sockets -> Resolver]
        /\ alerter' \in [Sockets -> Alerter]
    <3>1. Idle \in Resolver /\ Idle \in Alerter
      BY DEF Idle, Resolver, Alerter
    <3>2. QED
      BY <1>2, <3>1 DEF TaskFails, TypeOK
  <2>2. QED
    BY <1>2, <2>1 DEF TaskFails, Fails, TypeOK, AtMostOne, registry, display, table, checks
<1>3. QED
  BY <1>1, <1>2

LEMMA StepType == TypeOK /\ [Next]_vars => TypeOK'
<1> SUFFICES ASSUME TypeOK, [Next]_vars PROVE TypeOK'
  OBVIOUS
<1>1. ASSUME NEW s \in Sockets, Connect(s) PROVE TypeOK'
  BY <1>1, ConnectType
<1>2. ASSUME NEW s \in Sockets, BeginClosing(s) PROVE TypeOK'
  BY <1>2 DEF BeginClosing, TypeOK, AtMostOne, display, tasks, table, checks
<1>3. ASSUME NEW s \in Sockets, SocketError(s) \/ SocketClose(s) PROVE TypeOK'
  BY <1>3, LossType
<1>4. ASSUME NEW s \in Sockets, CloserSchedules(s) PROVE TypeOK'
  BY <1>4, CloserSchedulesType
<1>5. ASSUME NEW h \in Hosts, TimerFires(h) PROVE TypeOK'
  BY <1>5, TimerFiresType
<1>6. ASSUME NEW h \in Hosts, GraceExpires(h) PROVE TypeOK'
  BY <1>6 DEF GraceExpires, TypeOK, AtMostOne, registry, tasks, table, checks
<1>7. ASSUME NEW s \in Sockets,
             \/ AlerterChecks(s) \/ AlerterCreates(s) \/ AlerterAssigns(s)
             \/ ResolverReads(s) \/ ResolverResolves(s)
      PROVE  TypeOK'
  BY <1>7, TaskType
<1>8. CASE MonitorStep \/ MonitorFails \/ \E h \in Hosts : HostGoesQuiet(h) \/ HostReports(h)
  BY <1>8, MonitorType
<1>9. CASE ServerRestart \/ \E s \in Sockets : TaskFails(s)
  BY <1>9, FailureType
<1>10. CASE UNCHANGED vars
  BY <1>10 DEF TypeOK, AtMostOne, vars, registry, display, tasks, table, checks
<1>11. QED
  BY <1>1, <1>2, <1>3, <1>4, <1>5, <1>6, <1>7, <1>8, <1>9, <1>10 DEF Next, HandlerStep

(* The maps of the hub hold at most one socket of the host, and every       *)
(* task keeps its type.                                                     *)
THEOREM TypeCorrect == Spec => []TypeOK
BY InitType, StepType, PTL DEF Spec

-----------------------------------------------------------------------------
LEMMA StepReachable ==
  TypeOK /\ LiveAgentIsReachable /\ [Next]_vars => LiveAgentIsReachable'
<1> SUFFICES ASSUME TypeOK, LiveAgentIsReachable, [Next]_vars PROVE LiveAgentIsReachable'
  OBVIOUS
<1>1. ASSUME NEW s \in Sockets, Connect(s) PROVE LiveAgentIsReachable'
  <2>1. HostOf[s] \in Hosts
    BY HostOfAssumption
  <2>2. ASSUME NEW h \in Hosts, NEW t \in newest'[h], phase'[t] = "open"
        PROVE  current'[h] = {t} /\ shown'[h]
    <3>1. CASE h = HostOf[s]
      BY <1>1, <2>1, <2>2, <3>1 DEF Connect, TypeOK
    <3>2. CASE h # HostOf[s]
      <4>1. t \in newest[h] /\ t # s /\ t \in Sockets
        BY <1>1, <2>2, <3>2 DEF Connect, TypeOK
      <4>2. phase[t] = "open"
        BY <1>1, <2>2, <4>1 DEF Connect, TypeOK
      <4>3. QED
        BY <1>1, <3>2, <4>1, <4>2 DEF Connect, LiveAgentIsReachable, TypeOK
    <3>3. QED
      BY <3>1, <3>2
  <2>3. QED
    BY <2>2 DEF LiveAgentIsReachable
<1>2. ASSUME NEW s \in Sockets, BeginClosing(s) PROVE LiveAgentIsReachable'
  BY <1>2 DEF BeginClosing, LiveAgentIsReachable, TypeOK, display
<1>3. ASSUME NEW s \in Sockets, SocketError(s) \/ SocketClose(s) PROVE LiveAgentIsReachable'
  <2>1. Unregister(s) /\ newest' = newest /\ shown' = shown
    BY <1>3 DEF SocketError, SocketClose
  <2>2. ASSUME NEW h \in Hosts, NEW t \in newest'[h], phase'[t] = "open"
        PROVE  current'[h] = {t} /\ shown'[h]
    <3>1. t \in newest[h] /\ t \in Sockets
      BY <2>1, <2>2 DEF TypeOK
    <3>2. t # s /\ phase[t] = "open"
      BY <1>3, <2>2, <3>1 DEF SocketError, SocketClose, TypeOK
    <3>3. current[h] = {t} /\ shown[h]
      BY <3>1, <3>2 DEF LiveAgentIsReachable
    <3>4. current'[h] = current[h]
      BY <2>1, <3>2, <3>3, HostOfAssumption DEF Unregister, TypeOK
    <3>5. QED
      BY <2>1, <3>3, <3>4
  <2>3. QED
    BY <2>2 DEF LiveAgentIsReachable
<1>4. ASSUME NEW h \in Hosts, GraceExpires(h) PROVE LiveAgentIsReachable'
  <2>1. phase' = phase /\ newest' = newest /\ current' = current
    BY <1>4 DEF GraceExpires, registry
  <2>2. ASSUME NEW g \in Hosts, NEW t \in newest[g], phase[t] = "open"
        PROVE  current[g] = {t} /\ shown'[g]
    <3>1. current[g] = {t} /\ shown[g]
      BY <2>2 DEF LiveAgentIsReachable
    <3>2. isConnected(g)
      BY <2>2, <3>1 DEF isConnected
    <3>3. QED
      BY <1>4, <3>1, <3>2 DEF GraceExpires, TypeOK
  <2>3. QED
    BY <2>1, <2>2 DEF LiveAgentIsReachable
<1>5. CASE ServerRestart
  BY <1>5 DEF ServerRestart, LiveAgentIsReachable, TypeOK
<1>6. CASE UNCHANGED <<phase, current, newest, shown>>
  BY <1>6 DEF LiveAgentIsReachable
<1>7. ASSUME NEW s \in Sockets,
             \/ CloserSchedules(s) \/ AlerterChecks(s) \/ AlerterCreates(s) \/ AlerterAssigns(s)
             \/ ResolverReads(s) \/ ResolverResolves(s) \/ TaskFails(s)
      PROVE  LiveAgentIsReachable'
  BY <1>6, <1>7 DEF CloserSchedules, AlerterChecks, AlerterCreates, AlerterAssigns, ResolverReads,
     ResolverResolves, TaskFails, registry, display
<1>8. ASSUME NEW h \in Hosts,
             TimerFires(h) \/ MonitorChecks(h) \/ HostGoesQuiet(h) \/ HostReports(h)
      PROVE  LiveAgentIsReachable'
  BY <1>6, <1>8 DEF TimerFires, MonitorChecks, HostGoesQuiet, HostReports, registry, display
<1>9. CASE MonitorBegin \/ MonitorCreates \/ MonitorAssigns \/ MonitorEnds \/ MonitorFails
  BY <1>6, <1>9 DEF MonitorBegin, MonitorCreates, MonitorAssigns, MonitorEnds, MonitorFails,
     registry, display
<1>10. CASE UNCHANGED vars
  BY <1>6, <1>10 DEF vars, registry, display
<1>11. QED
  BY <1>1, <1>2, <1>3, <1>4, <1>5, <1>7, <1>8, <1>9, <1>10 DEF Next, HandlerStep, MonitorStep

(* The socket an agent connected with last stays registered, and users see  *)
(* the agent connected, until that socket closes: no handler of an earlier  *)
(* socket, no grace timer and no failed query takes it away.                *)
THEOREM LiveAgentStaysReachable == Spec => []LiveAgentIsReachable
<1>1. Init => LiveAgentIsReachable
  BY DEF Init, LiveAgentIsReachable
<1>2. QED
  BY <1>1, StepReachable, TypeCorrect, PTL DEF Spec
-----------------------------------------------------------------------------
LEMMA AssignedMeans ==
  \A h \in Hosts : \A a :
    a \in Assigned(h) <=>
      \/ \E s \in Sockets : HostOf[s] = h /\ alerter[s].at = "assigning" /\ alerter[s].alert = a
      \/ monitor.at = "assigning" /\ monitor.host = h /\ monitor.alert = a
BY DEF Assigned

LEMMA AssignedThen ==
  \A h \in Hosts : \A a :
    a \in Assigned(h)' <=>
      \/ \E s \in Sockets :
           HostOf[s] = h /\ alerter'[s].at = "assigning" /\ alerter'[s].alert = a
      \/ monitor'.at = "assigning" /\ monitor'.host = h /\ monitor'.alert = a
BY DEF Assigned

(* A step that promises a host no further alert and lets no further task    *)
(* raise one keeps the invariant.                                           *)
LEMMA RoomKept ==
  ASSUME TwoAlertsInv, TypeOK',
         \A s \in Sockets : alerter'[s] # Idle => alerter[s] # Idle,
         \A h \in Hosts : /\ Promised(h)' \subseteq Promised(h)
                          /\ TimerCreates(h)' => TimerCreates(h)
                          /\ MonitorToCreate(h)' => MonitorToCreate(h)
  PROVE  TwoAlertsInv'
<1>1. OneAlerter'
  BY DEF TwoAlertsInv, OneAlerter
<1>2. ASSUME NEW h \in Hosts PROVE RoomFor(h)'
  <2>1. RoomFor(h)
    BY DEF TwoAlertsInv
  <2>2. QED
    BY <2>1 DEF RoomFor, AtMostTwo, AtMostOne
<1>3. QED
  BY <1>1, <1>2 DEF TwoAlertsInv

(* Such are the steps that raise and assign nothing.                        *)
LEMMA NothingPromised ==
  ASSUME \A h \in Hosts : alerts'[h] \subseteq alerts[h],
         \A s \in Sockets :
           alerter'[s].at \in {"creating", "assigning"} => alerter'[s] = alerter[s],
         monitor'.at \in {"creating", "assigning"} => monitor' = monitor
  PROVE  \A h \in Hosts : /\ Promised(h)' \subseteq Promised(h)
                          /\ TimerCreates(h)' => TimerCreates(h)
                          /\ MonitorToCreate(h)' => MonitorToCreate(h)
<1>1. TAKE h \in Hosts
<1>2. Assigned(h)' \subseteq Assigned(h)
  BY AssignedMeans, AssignedThen
<1>3. TimerCreates(h)' => TimerCreates(h)
  BY DEF TimerCreates
<1>4. MonitorToCreate(h)' => MonitorToCreate(h)
  BY DEF MonitorToCreate
<1>5. QED
  BY <1>2, <1>3, <1>4 DEF Promised

(* A host's timer starts its task only when no other task of it is left.    *)
LEMMA TimerStartsOne ==
  ASSUME Prompt, TwoAlertsInv, TypeOK', NEW h \in Hosts, TimerFires(h)
  PROVE  TwoAlertsInv'
<1>1. UNCHANGED <<alerts, monitor>>
  BY DEF TimerFires, table, checks
<1>2. \A s \in Sockets : HostOf[s] = h => alerter[s] = Idle
  BY DEF TimerFires, Working
<1>3. AtMostOne(timer[h]) /\ \A s \in timer[h] : HostOf[s] = h
  BY DEF TwoAlertsInv, TypeOK
<1>4. \A s \in Sockets :
        alerter'[s] = alerter[s] \/ (s \in timer[h] /\ alerter'[s] = [at |-> "checking"])
  BY DEF TimerFires, TwoAlertsInv, TypeOK
<1>5. OneAlerter'
  <2>1. SUFFICES ASSUME NEW s \in Sockets, NEW t \in Sockets, HostOf[s] = HostOf[t],
                        alerter'[s] # Idle, alerter'[t] # Idle
                 PROVE  s = t
    BY DEF OneAlerter
  <2>2. CASE HostOf[s] = h
    BY <1>2, <1>3, <1>4, <2>1, <2>2 DEF AtMostOne
  <2>3. CASE HostOf[s] # h
    <3>1. alerter'[s] = alerter[s] /\ alerter'[t] = alerter[t]
      BY <1>3, <1>4, <2>1, <2>3
    <3>2. QED
      BY <2>1, <3>1 DEF TwoAlertsInv, OneAlerter
  <2>4. QED
    BY <2>2, <2>3
<1>6. ASSUME NEW g \in Hosts PROVE RoomFor(g)'
  <2>1. /\ Promised(g)' \subseteq Promised(g)
        /\ TimerCreates(g)' => TimerCreates(g)
        /\ MonitorToCreate(g)' => MonitorToCreate(g)
    <3>1. \A s \in Sockets :
            alerter'[s].at \in {"creating", "assigning"} => alerter'[s] = alerter[s]
      BY <1>4
    <3>2. QED
      BY <1>1, <3>1, NothingPromised
  <2>2. RoomFor(g)
    BY DEF TwoAlertsInv
  <2>3. QED
    BY <2>1, <2>2 DEF RoomFor, AtMostTwo, AtMostOne
<1>7. QED
  BY <1>5, <1>6 DEF TwoAlertsInv

(* No task of a host but one is at anything.                                *)
LEMMA OtherTasksIdle ==
  ASSUME TwoAlertsInv, NEW s \in Sockets, alerter[s] # Idle
  PROVE  \A t \in Sockets : HostOf[t] = HostOf[s] /\ t # s => alerter[t] = Idle
BY DEF TwoAlertsInv, OneAlerter

(* The check of a timer's task: when it finds no alert, the monitor alone   *)
(* can have promised one.                                                   *)
LEMMA TimerFindsNone ==
  ASSUME TwoAlertsInv, TypeOK', NEW s \in Sockets, AlerterChecks(s)
  PROVE  TwoAlertsInv'
<1> DEFINE h == HostOf[s]
<1>1. /\ UNCHANGED <<alerts, monitor>> /\ h \in Hosts
      /\ alerter[s].at = "checking" /\ alerter[s] # Idle
  BY HostOfAssumption DEF AlerterChecks, table, checks, Idle
<1>2. \A t \in Sockets \ {s} : alerter'[t] = alerter[t]
  BY DEF AlerterChecks, TwoAlertsInv, TypeOK
<1>3. alerter'[s] = Idle \/ (alerter'[s] = [at |-> "creating"] /\ alerts[h] = {})
  BY DEF AlerterChecks, TwoAlertsInv, TypeOK
<1>4. OneAlerter'
  BY <1>1, <1>2 DEF TwoAlertsInv, OneAlerter
<1>5. ASSUME NEW g \in Hosts PROVE RoomFor(g)'
  <2>1. Promised(g)' \subseteq Promised(g)
    <3>1. Assigned(g)' \subseteq Assigned(g)
      BY <1>1, <1>2, <1>3, AssignedMeans, AssignedThen DEF Idle
    <3>2. QED
      BY <1>1, <3>1 DEF Promised
  <2>2. RoomFor(g) /\ (MonitorToCreate(g)' <=> MonitorToCreate(g))
    BY <1>1 DEF TwoAlertsInv, MonitorToCreate
  <2>3. CASE TimerCreates(g)' => TimerCreates(g)
    BY <2>1, <2>2, <2>3 DEF RoomFor, AtMostTwo, AtMostOne
  <2>4. CASE TimerCreates(g)' /\ ~TimerCreates(g)
    <3>1. g = h /\ alerts[h] = {}
      BY <1>2, <1>3, <2>4 DEF TimerCreates, Idle
    <3>2. \A a \in Promised(g) :
            monitor.at = "assigning" /\ monitor.host = h /\ monitor.alert = a
      BY <1>1, <3>1, OtherTasksIdle, AssignedMeans DEF Promised, Idle
    <3>3. AtMostOne(Promised(g)) /\ (MonitorToCreate(g) => Promised(g) = {})
      BY <3>2 DEF AtMostOne, MonitorToCreate
    <3>4. QED
      BY <2>1, <2>2, <3>3 DEF RoomFor, AtMostTwo, AtMostOne
  <2>5. QED
    BY <2>3, <2>4
<1>6. QED
  BY <1>4, <1>5 DEF TwoAlertsInv

(* The monitor's check: when it finds no alert, the one task of a timer     *)
(* alone can have promised one.                                             *)
LEMMA MonitorFindsNone ==
  ASSUME TwoAlertsInv, TypeOK', NEW h \in Hosts, MonitorChecks(h)
  PROVE  TwoAlertsInv'
<1>1. UNCHANGED <<alerts, alerter>> /\ monitor.at = "checking"
  BY DEF MonitorChecks, table, tasks
<1>2. monitor' = monitor \/ (monitor' = [at |-> "creating", host |-> h] /\ alerts[h] = {})
  BY DEF MonitorChecks
<1>3. OneAlerter'
  BY <1>1 DEF TwoAlertsInv, OneAlerter
<1>4. ASSUME NEW g \in Hosts PROVE RoomFor(g)'
  <2>1. Promised(g)' \subseteq Promised(g)
    <3>1. Assigned(g)' \subseteq Assigned(g)
      BY <1>1, <1>2, AssignedMeans, AssignedThen
    <3>2. QED
      BY <1>1, <3>1 DEF Promised
  <2>2. RoomFor(g) /\ (TimerCreates(g)' <=> TimerCreates(g))
    BY <1>1 DEF TwoAlertsInv, TimerCreates
  <2>3. CASE MonitorToCreate(g)' => MonitorToCreate(g)
    BY <2>1, <2>2, <2>3 DEF RoomFor, AtMostTwo, AtMostOne
  <2>4. CASE MonitorToCreate(g)' /\ ~MonitorToCreate(g)
    <3>1. g = h /\ alerts[h] = {}
      BY <1>1, <1>2, <2>4 DEF MonitorToCreate
    <3>2. \A a \in Promised(g) : \E s \in Sockets :
            HostOf[s] = h /\ alerter[s].at = "assigning" /\ alerter[s].alert = a
      BY <1>1, <3>1, AssignedMeans DEF Promised
    <3>3. \A s, t \in Sockets :
            HostOf[s] = h /\ HostOf[t] = h
              /\ alerter[s].at \in {"creating", "assigning"}
              /\ alerter[t].at \in {"creating", "assigning"} => s = t
      BY DEF TwoAlertsInv, OneAlerter, Idle
    <3>4. AtMostOne(Promised(g)) /\ (TimerCreates(g) => Promised(g) = {})
      BY <3>1, <3>2, <3>3 DEF AtMostOne, TimerCreates
    <3>5. QED
      BY <2>1, <2>2, <3>4 DEF RoomFor, AtMostTwo, AtMostOne
  <2>5. QED
    BY <2>3, <2>4
<1>5. QED
  BY <1>3, <1>4 DEF TwoAlertsInv

(* A task of a timer raises its alert, and no other task of the host would. *)
LEMMA TimerRaises ==
  ASSUME TwoAlertsInv, TypeOK', NEW s \in Sockets, AlerterCreates(s)
  PROVE  TwoAlertsInv'
<1> DEFINE h == HostOf[s]
           a == raised + 1
<1>1. /\ monitor' = monitor /\ h \in Hosts
      /\ alerter[s].at = "creating" /\ alerter[s] # Idle
  BY HostOfAssumption DEF AlerterCreates, checks, Idle
<1>2. \A t \in Sockets \ {s} : alerter'[t] = alerter[t]
  BY DEF AlerterCreates, TwoAlertsInv, TypeOK
<1>3. alerter'[s] = Idle \/ alerter'[s] = [at |-> "assigning", alert |-> a]
  BY DEF AlerterCreates, TwoAlertsInv, TypeOK
<1>4. /\ alerts'[h] = alerts[h] \cup {a}
      /\ \A g \in Hosts \ {h} : alerts'[g] = alerts[g]
  BY <1>1 DEF AlerterCreates, Raise, TwoAlertsInv, TypeOK
<1>5. OneAlerter'
  BY <1>1, <1>2 DEF TwoAlertsInv, OneAlerter
<1>6. ASSUME NEW g \in Hosts PROVE RoomFor(g)'
  <2>1. RoomFor(g) /\ (MonitorToCreate(g)' <=> MonitorToCreate(g))
    BY <1>1 DEF TwoAlertsInv, MonitorToCreate
  <2>2. CASE g = h
    <3>1. Promised(g)' \subseteq Promised(g) \cup {a}
      <4>1. Assigned(g)' \subseteq Assigned(g) \cup {a}
        BY <1>1, <1>2, <1>3, AssignedMeans, AssignedThen DEF Idle
      <4>2. QED
        BY <1>4, <2>2, <4>1 DEF Promised
    <3>2. TimerCreates(g)
      BY <1>1, <2>2 DEF TimerCreates
    <3>3. ~TimerCreates(g)'
      BY <1>1, <1>2, <1>3, <2>2, OtherTasksIdle DEF TimerCreates, Idle
    <3>4. QED
      BY <2>1, <3>1, <3>2, <3>3 DEF RoomFor, AtMostTwo, AtMostOne
  <2>3. CASE g # h
    <3>1. Promised(g)' \subseteq Promised(g)
      <4>1. Assigned(g)' \subseteq Assigned(g)
        BY <1>1, <1>2, <2>3, AssignedMeans, AssignedThen
      <4>2. QED
        BY <1>4, <2>3, <4>1 DEF Promised
    <3>2. TimerCreates(g)' <=> TimerCreates(g)
      BY <1>2, <2>3 DEF TimerCreates
    <3>3. QED
      BY <2>1, <3>1, <3>2 DEF RoomFor, AtMostTwo, AtMostOne
  <2>4. QED
    BY <2>2, <2>3
<1>7. QED
  BY <1>5, <1>6 DEF TwoAlertsInv

LEMMA MonitorRaises ==
  ASSUME TwoAlertsInv, TypeOK', MonitorCreates
  PROVE  TwoAlertsInv'
<1> DEFINE h == monitor.host
           a == raised + 1
<1>1. alerter' = alerter /\ monitor.at = "creating" /\ h \in Hosts
  BY DEF MonitorCreates, tasks, TwoAlertsInv, TypeOK, Monitor
<1>2. \/ monitor' = [at |-> "checking"]
      \/ monitor' = [at |-> "assigning", host |-> h, alert |-> a]
  BY DEF MonitorCreates
<1>3. /\ alerts'[h] = alerts[h] \cup {a}
      /\ \A g \in Hosts \ {h} : alerts'[g] = alerts[g]
  BY <1>1 DEF MonitorCreates, Raise, TwoAlertsInv, TypeOK
<1>4. OneAlerter'
  BY <1>1 DEF TwoAlertsInv, OneAlerter
<1>5. ASSUME NEW g \in Hosts PROVE RoomFor(g)'
  <2>1. /\ RoomFor(g) /\ ~MonitorToCreate(g)'
        /\ TimerCreates(g)' <=> TimerCreates(g)
    BY <1>1, <1>2 DEF TwoAlertsInv, MonitorToCreate, TimerCreates
  <2>2. CASE g = h
    <3>1. Promised(g)' \subseteq Promised(g) \cup {a}
      <4>1. Assigned(g)' \subseteq Assigned(g) \cup {a}
        BY <1>1, <1>2, AssignedMeans, AssignedThen
      <4>2. QED
        BY <1>3, <2>2, <4>1 DEF Promised
    <3>2. MonitorToCreate(g)
      BY <1>1, <2>2 DEF MonitorToCreate
    <3>3. QED
      BY <2>1, <3>1, <3>2 DEF RoomFor, AtMostTwo, AtMostOne
  <2>3. CASE g # h
    <3>1. Promised(g)' \subseteq Promised(g)
      <4>1. Assigned(g)' \subseteq Assigned(g)
        BY <1>1, <1>2, <2>3, AssignedMeans, AssignedThen
      <4>2. QED
        BY <1>3, <2>3, <4>1 DEF Promised
    <3>2. QED
      BY <2>1, <3>1 DEF RoomFor, AtMostTwo, AtMostOne
  <2>4. QED
    BY <2>2, <2>3
<1>6. QED
  BY <1>4, <1>5 DEF TwoAlertsInv

(* The assignment activates an alert that was promised already.             *)
LEMMA AssignsPromised ==
  ASSUME TwoAlertsInv, TypeOK', MonitorAssigns \/ \E s \in Sockets : AlerterAssigns(s)
  PROVE  TwoAlertsInv'
<1>1. ASSUME NEW s \in Sockets, AlerterAssigns(s) PROVE TwoAlertsInv'
  <2>1. /\ monitor' = monitor /\ HostOf[s] \in Hosts
        /\ alerter[s].at = "assigning" /\ alerter[s] # Idle
    BY <1>1, HostOfAssumption DEF AlerterAssigns, checks, Idle
  <2>2. alerter'[s] = Idle /\ \A t \in Sockets \ {s} : alerter'[t] = alerter[t]
    BY <1>1 DEF AlerterAssigns, TwoAlertsInv, TypeOK
  <2>3. \A h \in Hosts : alerts'[h] \subseteq alerts[h] \cup Assigned(h)
    BY <1>1, <2>1, AssignedMeans DEF AlerterAssigns, AssignAlert, TwoAlertsInv, TypeOK
  <2>4. ASSUME NEW h \in Hosts
        PROVE  /\ Promised(h)' \subseteq Promised(h)
               /\ TimerCreates(h)' => TimerCreates(h)
               /\ MonitorToCreate(h)' => MonitorToCreate(h)
    <3>1. Assigned(h)' \subseteq Assigned(h)
      BY <2>1, <2>2, AssignedMeans, AssignedThen DEF Idle
    <3>2. QED
      BY <2>1, <2>2, <2>3, <3>1 DEF Promised, TimerCreates, MonitorToCreate, Idle
  <2>5. \A t \in Sockets : alerter'[t] # Idle => alerter[t] # Idle
    BY <2>1, <2>2
  <2>6. QED
    BY <2>4, <2>5, RoomKept
<1>2. CASE MonitorAssigns
  <2>1. alerter' = alerter /\ monitor.at = "assigning" /\ monitor.host \in Hosts
    BY <1>2 DEF MonitorAssigns, tasks, TwoAlertsInv, TypeOK, Monitor
  <2>2. monitor' = [at |-> "checking"]
    BY <1>2 DEF MonitorAssigns
  <2>3. \A h \in Hosts : alerts'[h] \subseteq alerts[h] \cup Assigned(h)
    BY <1>2, <2>1, AssignedMeans DEF MonitorAssigns, AssignAlert, TwoAlertsInv, TypeOK
  <2>4. ASSUME NEW h \in Hosts
        PROVE  /\ Promised(h)' \subseteq Promised(h)
               /\ TimerCreates(h)' => TimerCreates(h)
               /\ MonitorToCreate(h)' => MonitorToCreate(h)
    <3>1. Assigned(h)' \subseteq Assigned(h)
      BY <2>1, <2>2, AssignedMeans, AssignedThen
    <3>2. QED
      BY <2>1, <2>2, <2>3, <3>1 DEF Promised, TimerCreates, MonitorToCreate
  <2>5. QED
    BY <2>1, <2>4, RoomKept
<1>3. QED
  BY <1>1, <1>2

(* The steps that leave the tasks and the alerts of all hosts as they were, *)
(* or end some.                                                             *)
LEMMA EndingKeeps ==
  ASSUME TwoAlertsInv, TypeOK',
         \A h \in Hosts : alerts'[h] \subseteq alerts[h],
         \A s \in Sockets : alerter'[s] \in {alerter[s], Idle},
         monitor' = monitor \/ monitor' \in {Idle, [at |-> "checking"]}
  PROVE  TwoAlertsInv'
<1>1. \A s \in Sockets :
        /\ alerter'[s].at \in {"creating", "assigning"} => alerter'[s] = alerter[s]
        /\ alerter'[s] # Idle => alerter[s] # Idle
  BY DEF Idle
<1>2. monitor'.at \in {"creating", "assigning"} => monitor' = monitor
  BY DEF Idle
<1>3. QED
  BY <1>1, <1>2, NothingPromised, RoomKept

LEMMA StepTwoAlerts ==
  ASSUME Prompt, TwoAlertsInv, [Next]_vars
  PROVE  TwoAlertsInv'
<1>1. TypeOK /\ TypeOK'
  BY StepType DEF TwoAlertsInv
<1>2. ASSUME NEW h \in Hosts, TimerFires(h) PROVE TwoAlertsInv'
  BY <1>1, <1>2, TimerStartsOne
<1>3. ASSUME NEW s \in Sockets, AlerterChecks(s) PROVE TwoAlertsInv'
  BY <1>1, <1>3, TimerFindsNone
<1>4. ASSUME NEW s \in Sockets, AlerterCreates(s) PROVE TwoAlertsInv'
  BY <1>1, <1>4, TimerRaises
<1>5. ASSUME NEW h \in Hosts, MonitorChecks(h) PROVE TwoAlertsInv'
  BY <1>1, <1>5, MonitorFindsNone
<1>6. CASE MonitorCreates
  BY <1>1, <1>6, MonitorRaises
<1>7. CASE MonitorAssigns \/ \E s \in Sockets : AlerterAssigns(s)
  BY <1>1, <1>7, AssignsPromised
<1>8. CASE UNCHANGED <<alerter, alerts, monitor>>
  BY <1>1, <1>8, EndingKeeps
<1>9. ASSUME NEW s \in Sockets,
             \/ Connect(s) \/ BeginClosing(s) \/ SocketError(s) \/ SocketClose(s)
             \/ CloserSchedules(s) \/ ResolverReads(s)
      PROVE  TwoAlertsInv'
  BY <1>8, <1>9 DEF Connect, BeginClosing, SocketError, SocketClose, CloserSchedules,
     ResolverReads, tasks, table, checks
<1>10. ASSUME NEW h \in Hosts, GraceExpires(h) \/ HostGoesQuiet(h) \/ HostReports(h)
      PROVE  TwoAlertsInv'
  BY <1>8, <1>10 DEF GraceExpires, HostGoesQuiet, HostReports, tasks, table, checks
<1>11. ASSUME NEW s \in Sockets, ResolverResolves(s) PROVE TwoAlertsInv'
  <2>1. UNCHANGED <<alerter, monitor>>
    BY <1>11 DEF ResolverResolves, checks
  <2>2. \A h \in Hosts : alerts'[h] \subseteq alerts[h]
    BY <1>1, <1>11 DEF ResolverResolves, TypeOK
  <2>3. QED
    BY <1>1, <2>1, <2>2, EndingKeeps
<1>12. ASSUME NEW s \in Sockets, TaskFails(s) PROVE TwoAlertsInv'
  <2>1. UNCHANGED <<alerts, monitor>>
    BY <1>12 DEF TaskFails, table, checks
  <2>2. \A t \in Sockets : alerter'[t] \in {alerter[t], Idle}
    BY <1>1, <1>12 DEF TaskFails, TypeOK
  <2>3. QED
    BY <1>1, <2>1, <2>2, EndingKeeps
<1>13. CASE MonitorBegin \/ MonitorEnds \/ MonitorFails
  <2>1. UNCHANGED <<alerts, alerter>>
    BY <1>13 DEF MonitorBegin, MonitorEnds, MonitorFails, table, tasks
  <2>2. monitor' \in {Idle, [at |-> "checking"]}
    BY <1>13 DEF MonitorBegin, MonitorEnds, MonitorFails
  <2>3. QED
    BY <1>1, <2>1, <2>2, EndingKeeps
<1>14. CASE ServerRestart
  <2>1. UNCHANGED alerts /\ monitor' = Idle /\ \A t \in Sockets : alerter'[t] = Idle
    BY <1>14 DEF ServerRestart, table
  <2>2. QED
    BY <1>1, <2>1, EndingKeeps
<1>15. CASE UNCHANGED vars
  BY <1>8, <1>15 DEF vars, tasks, table, checks
<1>16. QED
  BY <1>2, <1>3, <1>4, <1>5, <1>6, <1>7, <1>9, <1>10, <1>11, <1>12, <1>13, <1>14, <1>15
  DEF Next, HandlerStep, MonitorStep

(* Where queries are prompt, a host never has a third active host_down      *)
(* alert, however its connections come and go beside the monitor.           *)
THEOREM NoThirdAlert ==
  ASSUME Prompt
  PROVE  Spec => []TwoAlertsAtMost
<1>1. Init => TwoAlertsInv
  <2>1. ASSUME Init PROVE TwoAlertsInv
    <3>1. TypeOK /\ OneAlerter
      BY <2>1, InitType DEF Init, OneAlerter
    <3>2. \A s \in Sockets : alerter[s].at = "idle"
      BY <2>1 DEF Init, Idle
    <3>3. monitor.at = "idle"
      BY <2>1 DEF Init, Idle
    <3>4. \A h \in Hosts : Promised(h) = {}
      BY <2>1, <3>2, <3>3, AssignedMeans DEF Init, Promised
    <3>5. QED
      BY <3>1, <3>4 DEF TwoAlertsInv, RoomFor, AtMostTwo, AtMostOne
  <2>2. QED
    BY <2>1
<1>2. TwoAlertsInv /\ [Next]_vars => TwoAlertsInv'
  BY StepTwoAlerts
<1>3. TwoAlertsInv => TwoAlertsAtMost
  BY DEF TwoAlertsInv, RoomFor, TwoAlertsAtMost, Promised, AtMostTwo
<1>4. QED
  BY <1>1, <1>2, <1>3, PTL DEF Spec
-----------------------------------------------------------------------------
(***************************************************************************)
(* Nothing that is to be dealt with is dropped.                             *)
(***************************************************************************)
(* The steps that leave the registry and the badge alone.                   *)
HubStill == UNCHANGED <<phase, current, newest, due, grace, shown>>

LEMMA TasksLeaveHub ==
  ASSUME \/ \E s \in Sockets : \/ CloserSchedules(s) \/ AlerterChecks(s) \/ AlerterCreates(s)
                               \/ AlerterAssigns(s) \/ ResolverReads(s) \/ ResolverResolves(s) \/ TaskFails(s)
         \/ \E h \in Hosts : TimerFires(h) \/ HostGoesQuiet(h) \/ HostReports(h)
         \/ MonitorStep \/ MonitorFails \/ UNCHANGED vars
  PROVE  HubStill
<1>1. ASSUME NEW s \in Sockets,
             \/ CloserSchedules(s) \/ AlerterChecks(s) \/ AlerterCreates(s) \/ AlerterAssigns(s)
             \/ ResolverReads(s) \/ ResolverResolves(s) \/ TaskFails(s)
      PROVE  HubStill
  BY <1>1 DEF CloserSchedules, AlerterChecks, AlerterCreates, AlerterAssigns, ResolverReads,
     ResolverResolves, TaskFails, registry, display, HubStill
<1>2. ASSUME NEW h \in Hosts, TimerFires(h) \/ HostGoesQuiet(h) \/ HostReports(h)
      PROVE  HubStill
  BY <1>2 DEF TimerFires, HostGoesQuiet, HostReports, registry, display, HubStill
<1>3. CASE MonitorStep \/ MonitorFails
  BY <1>3 DEF MonitorStep, MonitorFails, MonitorBegin, MonitorChecks, MonitorCreates,
     MonitorAssigns, MonitorEnds, registry, display, HubStill
<1>4. CASE UNCHANGED vars
  BY <1>4 DEF vars, registry, display, HubStill
<1>5. QED
  BY <1>1, <1>2, <1>3, <1>4

(* A lost socket: what either handler does to its host, and to no other.    *)
LEMMA LossOf ==
  ASSUME TypeOK, NEW s \in Sockets, SocketError(s) \/ SocketClose(s), NEW h \in Hosts
  PROVE  /\ current[h] = {s} => current'[h] = {} /\ h \in grace' /\ s \in closer' /\ HostOf[s] = h
         /\ current[h] # {s} => /\ current'[h] = current[h]
                                /\ \A t \in current[h] : phase'[t] = phase[t]
         /\ closer \subseteq closer' /\ grace \subseteq grace'
<1>1. Unregister(s) /\ HostOf[s] \in Hosts
  BY HostOfAssumption DEF SocketError, SocketClose
<1>2. \A t \in Sockets \ {s} : phase'[t] = phase[t]
  BY DEF SocketError, SocketClose, TypeOK
<1>3. current[h] = {s} => HostOf[s] = h
  BY DEF TypeOK
<1>4. current[h] # {s} => s \notin current[h]
  BY DEF TypeOK, AtMostOne
<1>5. current[h] \subseteq Sockets
  BY DEF TypeOK
<1>6. CASE current[h] = {s}
  BY <1>1, <1>3, <1>6 DEF Unregister, TypeOK
<1>7. CASE current[h] # {s}
  <2>1. current'[h] = current[h]
    BY <1>1, <1>7 DEF Unregister, TypeOK
  <2>2. closer \subseteq closer' /\ grace \subseteq grace'
    BY <1>1 DEF Unregister
  <2>3. QED
    BY <1>2, <1>4, <1>5, <1>7, <2>1, <2>2
<1>8. QED
  BY <1>6, <1>7

(* A new connection: its host, and no other.                                *)
LEMMA ConnectOf ==
  ASSUME TypeOK, NEW s \in Sockets, Connect(s), NEW h \in Hosts
  PROVE  /\ HostOf[s] = h => current'[h] = {s} /\ phase'[s] = "open" /\ newest'[h] = {s}
         /\ HostOf[s] # h => /\ \A t \in current[h] : phase'[t] = phase[t]
                             /\ current'[h] = current[h] /\ newest'[h] = newest[h]
                             /\ shown'[h] = shown[h] /\ (h \in grace' <=> h \in grace)
                             /\ timer'[h] = timer[h] /\ due'[h] = due[h]
<1>1. HostOf[s] \in Hosts
  BY HostOfAssumption
<1>2. \A t \in current[h] : HostOf[t] = h /\ t \in Sockets
  BY DEF TypeOK
<1>3. \A t \in Sockets : phase'[t] = IF t = s THEN "open" ELSE phase[t]
  BY DEF Connect, TypeOK
<1>4. HostOf[s] # h => \A t \in current[h] : phase'[t] = phase[t]
  BY <1>2, <1>3
<1>5. QED
  BY <1>1, <1>3, <1>4 DEF Connect, TypeOK

LEMMA ClosingOf ==
  ASSUME TypeOK, NEW s \in Sockets, BeginClosing(s)
  PROVE  /\ phase[s] = "open" /\ UNCHANGED <<current, newest, due, display, tasks, table, failures>>
         /\ \A t \in Sockets : phase'[t] = IF t = s THEN "closing" ELSE phase[t]
BY DEF BeginClosing, TypeOK

-----------------------------------------------------------------------------
(* A socket leaves the registry with its close event at the latest, so a    *)
(* registered one that is not open has that event to come.                  *)
LEMMA RegisteredNext == TypeOK /\ RegisteredAlive /\ [Next]_vars => RegisteredAlive'
<1>1. SUFFICES ASSUME TypeOK, RegisteredAlive, [Next]_vars PROVE RegisteredAlive'
  OBVIOUS
<1>2. ASSUME NEW s \in Sockets, Connect(s) PROVE RegisteredAlive'
  BY <1>1, <1>2, ConnectOf DEF RegisteredAlive
<1>3. ASSUME NEW s \in Sockets, BeginClosing(s) PROVE RegisteredAlive'
  BY <1>1, <1>3, ClosingOf DEF RegisteredAlive, TypeOK
<1>4. ASSUME NEW s \in Sockets, SocketError(s) \/ SocketClose(s) PROVE RegisteredAlive'
  BY <1>1, <1>4, LossOf DEF RegisteredAlive
<1>5. CASE ServerRestart
  BY <1>5 DEF ServerRestart, RegisteredAlive
<1>6. CASE UNCHANGED <<phase, current>>
  BY <1>1, <1>6 DEF RegisteredAlive
<1>7. ASSUME NEW h \in Hosts, GraceExpires(h) PROVE RegisteredAlive'
  BY <1>6, <1>7 DEF GraceExpires, registry
<1>8. QED
  BY <1>1, <1>2, <1>3, <1>4, <1>5, <1>6, <1>7, TasksLeaveHub DEF Next, HandlerStep, HubStill

LEMMA BadgeNext ==
  TypeOK /\ RegisteredAlive /\ BadgeWillTurn /\ [Next]_vars => BadgeWillTurn'
<1>1. SUFFICES ASSUME TypeOK, RegisteredAlive, BadgeWillTurn, [Next]_vars PROVE BadgeWillTurn'
  OBVIOUS
<1>2. ASSUME NEW s \in Sockets, Connect(s) PROVE BadgeWillTurn'
  BY <1>1, <1>2, ConnectOf DEF BadgeWillTurn, isConnected, CloseToCome
<1>3. ASSUME NEW s \in Sockets, BeginClosing(s) PROVE BadgeWillTurn'
  BY <1>1, <1>3, ClosingOf DEF BadgeWillTurn, isConnected, CloseToCome, TypeOK, display
<1>4. ASSUME NEW s \in Sockets, SocketError(s) \/ SocketClose(s) PROVE BadgeWillTurn'
  <2>1. shown' = shown
    BY <1>4 DEF SocketError, SocketClose
  <2>2. QED
    BY <1>1, <1>4, <2>1, LossOf DEF BadgeWillTurn, isConnected, CloseToCome
<1>5. ASSUME NEW h \in Hosts, GraceExpires(h) PROVE BadgeWillTurn'
  BY <1>1, <1>5 DEF GraceExpires, BadgeWillTurn, isConnected, CloseToCome, registry, TypeOK
<1>6. CASE ServerRestart
  BY <1>6 DEF ServerRestart, BadgeWillTurn
<1>7. CASE HubStill
  BY <1>1, <1>7 DEF HubStill, BadgeWillTurn, isConnected, CloseToCome
<1>8. QED
  BY <1>1, <1>2, <1>3, <1>4, <1>5, <1>6, <1>7, TasksLeaveHub DEF Next, HandlerStep

(* The badge of a host that is gone is never forgotten: its grace timer     *)
(* runs, or the close event that starts it is to come.  What UiLearnsOffline *)
(* needs besides is that timers fire and closing handshakes end.            *)
THEOREM BadgeIsNeverForgotten == Spec => []BadgeWillTurn
<1>1. Init => RegisteredAlive /\ BadgeWillTurn
  BY DEF Init, RegisteredAlive, BadgeWillTurn
<1>2. QED
  BY <1>1, RegisteredNext, BadgeNext, TypeCorrect, PTL DEF Spec

-----------------------------------------------------------------------------
Watched(h) == isConnected(h) \/ LossOnRecord(h)

(* A step of the server that fails nothing.                                 *)
NoFailure ==
  \/ \E s \in Sockets : Connect(s) \/ BeginClosing(s) \/ SocketError(s)
  \/ HandlerStep
  \/ MonitorStep
  \/ \E h \in Hosts : HostGoesQuiet(h) \/ HostReports(h)
  \/ UNCHANGED vars

LEMMA ShortOfFailures ==
  ASSUME TypeOK, [Next]_vars, failures' = 0
  PROVE  failures = 0 /\ NoFailure
<1>1. ~Fails
  BY DEF Fails, TypeOK
<1>2. NoFailure
  BY <1>1 DEF Next, NoFailure, TaskFails, MonitorFails, ServerRestart
<1>3. failures' = failures
  <2>1. CASE \E s \in Sockets : Connect(s) \/ BeginClosing(s) \/ SocketError(s)
    BY <2>1 DEF Connect, BeginClosing, SocketError
  <2>2. CASE HandlerStep
    BY <2>2 DEF HandlerStep, SocketClose, CloserSchedules, AlerterChecks, AlerterCreates,
       AlerterAssigns, ResolverReads, ResolverResolves, GraceExpires, TimerFires
  <2>3. CASE MonitorStep
    BY <2>3 DEF MonitorStep, MonitorBegin, MonitorChecks, MonitorCreates, MonitorAssigns,
       MonitorEnds
  <2>4. CASE \E h \in Hosts : HostGoesQuiet(h) \/ HostReports(h)
    BY <2>4 DEF HostGoesQuiet, HostReports
  <2>5. QED
    BY <1>2, <2>1, <2>2, <2>3, <2>4 DEF NoFailure, vars
<1>4. QED
  BY <1>2, <1>3

(* A host that is connected, or whose loss is on record, stays so until its *)
(* timer fires.                                                             *)
LEMMA WatchedStays ==
  ASSUME TypeOK, NEW h \in Hosts, Watched(h), NoFailure, ~TimerFires(h)
  PROVE  Watched(h)'
<1>1. ASSUME NEW s \in Sockets, Connect(s) PROVE Watched(h)'
  <2>1. closer' = closer
    BY <1>1 DEF Connect
  <2>2. QED
    BY <1>1, <2>1, ConnectOf DEF Watched, isConnected, LossOnRecord, CloseToCome
<1>2. ASSUME NEW s \in Sockets, BeginClosing(s) PROVE Watched(h)'
  BY <1>2, ClosingOf DEF Watched, isConnected, LossOnRecord, CloseToCome, TypeOK, tasks
<1>3. ASSUME NEW s \in Sockets, SocketError(s) \/ SocketClose(s) PROVE Watched(h)'
  <2>1. timer' = timer
    BY <1>3 DEF SocketError, SocketClose
  <2>2. QED
    BY <1>3, <2>1, LossOf DEF Watched, isConnected, LossOnRecord, CloseToCome
<1>4. ASSUME NEW s \in Sockets, CloserSchedules(s) PROVE Watched(h)'
  <2>1. UNCHANGED <<phase, current>>
    BY <1>4 DEF CloserSchedules, registry
  <2>2. timer[h] # {} => timer'[h] # {}
    BY <1>4 DEF CloserSchedules, TypeOK
  <2>3. \A t \in closer : HostOf[t] = h => t \in closer' \/ timer'[h] # {}
    BY <1>4 DEF CloserSchedules, TypeOK
  <2>4. QED
    BY <2>1, <2>2, <2>3 DEF Watched, isConnected, LossOnRecord, CloseToCome
<1>5. ASSUME NEW g \in Hosts, TimerFires(g) PROVE Watched(h)'
  <2>1. UNCHANGED <<phase, current, closer>> /\ timer'[h] = timer[h]
    BY <1>5 DEF TimerFires, TypeOK, registry
  <2>2. QED
    BY <2>1 DEF Watched, isConnected, LossOnRecord, CloseToCome
<1>6. CASE UNCHANGED <<phase, current, closer, timer>>
  BY <1>6 DEF Watched, isConnected, LossOnRecord, CloseToCome
<1>7. ASSUME NEW s \in Sockets,
             \/ AlerterChecks(s) \/ AlerterCreates(s) \/ AlerterAssigns(s)
             \/ ResolverReads(s) \/ ResolverResolves(s)
      PROVE  Watched(h)'
  BY <1>6, <1>7 DEF AlerterChecks, AlerterCreates, AlerterAssigns, ResolverReads, ResolverResolves,
     registry
<1>8. ASSUME NEW g \in Hosts, GraceExpires(g) \/ HostGoesQuiet(g) \/ HostReports(g)
      PROVE  Watched(h)'
  BY <1>6, <1>8 DEF GraceExpires, HostGoesQuiet, HostReports, registry, tasks
<1>9. CASE MonitorStep
  BY <1>6, <1>9 DEF MonitorStep, MonitorBegin, MonitorChecks, MonitorCreates, MonitorAssigns,
     MonitorEnds, registry, tasks
<1>10. CASE UNCHANGED vars
  BY <1>6, <1>10 DEF vars, registry, tasks
<1>11. QED
  BY <1>1, <1>2, <1>3, <1>4, <1>5, <1>7, <1>8, <1>9, <1>10 DEF NoFailure, HandlerStep

(* With prompt queries, the resolver of a connection is done before the     *)
(* timer of the loss that follows it fires.                                 *)
LEMMA ResolverNext ==
  ASSUME Prompt, TypeOK, NoStaleResolver, [Next]_vars
  PROVE  NoStaleResolver'
<1>1. SUFFICES ASSUME failures' = 0, NEW s \in Sockets, resolver'[s] # Idle
               PROVE  Watched(HostOf[s])'
  BY DEF NoStaleResolver, Watched
<1>2. failures = 0 /\ NoFailure
  BY <1>1, ShortOfFailures
<1>3. HostOf[s] \in Hosts
  BY HostOfAssumption
<1>4. CASE resolver[s] # Idle
  <2>1. Watched(HostOf[s])
    BY <1>2, <1>4 DEF NoStaleResolver, Watched
  <2>2. ~TimerFires(HostOf[s])
    BY <1>4 DEF TimerFires, Working
  <2>3. QED
    BY <1>2, <1>3, <2>1, <2>2, WatchedStays
<1>5. CASE resolver[s] = Idle
  <2>1. Connect(s)
    <3>1. ASSUME NEW t \in Sockets, Connect(t) PROVE t = s
      BY <1>1, <1>5, <3>1 DEF Connect, TypeOK
    <3>2. ASSUME NEW t \in Sockets, ResolverReads(t) \/ ResolverResolves(t) PROVE t # s
      BY <1>5, <3>2 DEF ResolverReads, ResolverResolves, Idle
    <3>3. ASSUME NEW t \in Sockets, ResolverReads(t) \/ ResolverResolves(t) PROVE FALSE
      BY <1>1, <1>5, <3>2, <3>3 DEF ResolverReads, ResolverResolves, TypeOK
    <3>4. resolver' # resolver
      BY <1>1, <1>5
    <3>5. ASSUME NEW t \in Sockets,
                 \/ BeginClosing(t) \/ SocketError(t) \/ SocketClose(t) \/ CloserSchedules(t)
                 \/ AlerterChecks(t) \/ AlerterCreates(t) \/ AlerterAssigns(t)
          PROVE  FALSE
      BY <3>4, <3>5 DEF BeginClosing, SocketError, SocketClose, CloserSchedules, AlerterChecks,
         AlerterCreates, AlerterAssigns, tasks
    <3>6. ASSUME NEW g \in Hosts,
                 GraceExpires(g) \/ TimerFires(g) \/ HostGoesQuiet(g) \/ HostReports(g)
          PROVE  FALSE
      BY <3>4, <3>6 DEF GraceExpires, TimerFires, HostGoesQuiet, HostReports, tasks
    <3>7. ~MonitorStep /\ ~UNCHANGED vars
      BY <3>4 DEF MonitorStep, MonitorBegin, MonitorChecks, MonitorCreates, MonitorAssigns,
         MonitorEnds, tasks, vars
    <3>8. QED
      BY <1>2, <3>1, <3>3, <3>5, <3>6, <3>7 DEF NoFailure, HandlerStep
  <2>2. QED
    BY <1>3, <2>1, ConnectOf DEF Watched, isConnected
<1>6. QED
  BY <1>4, <1>5

Alarmed(h) == alerts[h] # {} \/ \E s \in Sockets : HostOf[s] = h /\ alerter[s] # Idle

(* An alert, or a task on its way to one, stays while no task resolves it.  *)
LEMMA AlarmedStays ==
  ASSUME TypeOK, NEW h \in Hosts, Alarmed(h), NoFailure,
         \A s \in Sockets : HostOf[s] = h => resolver[s] = Idle
  PROVE  Alarmed(h)'
<1>1. ASSUME NEW s \in Sockets, AlerterChecks(s) PROVE Alarmed(h)'
  <2>1. alerts' = alerts
    BY <1>1 DEF AlerterChecks, table
  <2>2. \A t \in Sockets : t # s => alerter'[t] = alerter[t]
    BY <1>1 DEF AlerterChecks, TypeOK
  <2>3. HostOf[s] = h => alerts[h] # {} \/ alerter'[s] = [at |-> "creating"]
    BY <1>1 DEF AlerterChecks, TypeOK
  <2>4. QED
    BY <2>1, <2>2, <2>3 DEF Alarmed, Idle
<1>2. ASSUME NEW s \in Sockets, AlerterCreates(s) PROVE Alarmed(h)'
  <2>1. HostOf[s] \in Hosts /\ \A t \in Sockets : t # s => alerter'[t] = alerter[t]
    BY <1>2, HostOfAssumption DEF AlerterCreates, TypeOK
  <2>2. alerts[h] \subseteq alerts'[h] /\ (HostOf[s] = h => alerts'[h] # {})
    BY <1>2, <2>1 DEF AlerterCreates, Raise, TypeOK
  <2>3. QED
    BY <2>1, <2>2 DEF Alarmed
<1>11. ASSUME NEW s \in Sockets, AlerterAssigns(s) PROVE Alarmed(h)'
  <2>1. HostOf[s] \in Hosts /\ \A t \in Sockets : t # s => alerter'[t] = alerter[t]
    BY <1>11, HostOfAssumption DEF AlerterAssigns, TypeOK
  <2>2. alerts[h] \subseteq alerts'[h] /\ (HostOf[s] = h => alerts'[h] # {})
    BY <1>11, <2>1 DEF AlerterAssigns, AssignAlert, TypeOK
  <2>3. QED
    BY <2>1, <2>2 DEF Alarmed
<1>3. ASSUME NEW s \in Sockets, ResolverResolves(s) PROVE Alarmed(h)'
  <2>1. HostOf[s] # h
    BY <1>3 DEF ResolverResolves, Idle
  <2>2. alerts'[h] = alerts[h] /\ alerter' = alerter
    BY <1>3, <2>1 DEF ResolverResolves, TypeOK
  <2>3. QED
    BY <2>2 DEF Alarmed
<1>4. ASSUME NEW g \in Hosts, TimerFires(g) PROVE Alarmed(h)'
  <2>1. alerts' = alerts /\ \A t \in Sockets : alerter'[t] \in {alerter[t], [at |-> "checking"]}
    BY <1>4 DEF TimerFires, TypeOK, table
  <2>2. QED
    BY <2>1 DEF Alarmed, Idle
<1>5. CASE MonitorCreates \/ MonitorAssigns
  <2>1. alerter' = alerter /\ alerts[h] \subseteq alerts'[h]
    BY <1>5 DEF MonitorCreates, MonitorAssigns, Raise, AssignAlert, TypeOK, tasks
  <2>2. QED
    BY <2>1 DEF Alarmed
<1>6. CASE UNCHANGED <<alerts, alerter>>
  BY <1>6 DEF Alarmed
<1>7. ASSUME NEW s \in Sockets,
             \/ Connect(s) \/ BeginClosing(s) \/ SocketError(s) \/ SocketClose(s)
             \/ CloserSchedules(s) \/ ResolverReads(s)
      PROVE  Alarmed(h)'
  BY <1>6, <1>7 DEF Connect, BeginClosing, SocketError, SocketClose, CloserSchedules,
     ResolverReads, tasks, table
<1>8. ASSUME NEW g \in Hosts,
             GraceExpires(g) \/ MonitorChecks(g) \/ HostGoesQuiet(g) \/ HostReports(g)
      PROVE  Alarmed(h)'
  BY <1>6, <1>8 DEF GraceExpires, MonitorChecks, HostGoesQuiet, HostReports, tasks, table
<1>9. CASE MonitorBegin \/ MonitorEnds \/ UNCHANGED vars
  BY <1>6, <1>9 DEF MonitorBegin, MonitorEnds, vars, tasks, table
<1>10. QED
  BY <1>1, <1>2, <1>3, <1>4, <1>5, <1>7, <1>8, <1>9, <1>11 DEF NoFailure, HandlerStep, MonitorStep

(* A host without a first connection has none to lose.                      *)
LEMMA FirstConnection ==
  ASSUME TypeOK, NEW h \in Hosts, newest[h] = {}, newest'[h] # {}, NoFailure
  PROVE  isConnected(h)'
<1>1. ~HubStill
  BY DEF HubStill
<1>2. PICK s \in Sockets : Connect(s)
  <2>1. ASSUME NEW s \in Sockets, BeginClosing(s) \/ SocketError(s) \/ SocketClose(s) PROVE FALSE
    BY <2>1 DEF BeginClosing, SocketError, SocketClose
  <2>2. ASSUME NEW g \in Hosts, GraceExpires(g) PROVE FALSE
    BY <2>2 DEF GraceExpires, registry
  <2>3. QED
    BY <1>1, <2>1, <2>2, TasksLeaveHub DEF NoFailure, HandlerStep
<1>3. QED
  BY <1>2, ConnectOf DEF isConnected

LEMMA HandledNext ==
  ASSUME Prompt, TypeOK, NoStaleResolver, LossIsHandled, [Next]_vars
  PROVE  LossIsHandled'
<1>1. SUFFICES ASSUME failures' = 0, NEW h \in Hosts, newest'[h] # {}, ~isConnected(h)'
               PROVE  Alarmed(h)' \/ LossOnRecord(h)'
  BY DEF LossIsHandled, Alarmed
<1>2. failures = 0 /\ NoFailure
  BY <1>1, ShortOfFailures
<1>3. newest[h] # {}
  BY <1>1, <1>2, FirstConnection
<1>4. CASE TimerFires(h)
  <2>1. ~isConnected(h)
    BY <1>1, <1>4 DEF TimerFires, isConnected, registry
  <2>2. PICK s \in timer[h] : s \in Sockets /\ HostOf[s] = h
    BY <1>4 DEF TimerFires, TypeOK
  <2>3. alerter'[s] = [at |-> "checking"]
    BY <1>4, <2>1, <2>2 DEF TimerFires
  <2>4. QED
    BY <2>2, <2>3 DEF Alarmed, Idle
<1>5. CASE Watched(h) /\ ~TimerFires(h)
  BY <1>1, <1>2, <1>5, WatchedStays DEF Watched
<1>6. CASE ~Watched(h)
  <2>1. Alarmed(h)
    BY <1>2, <1>3, <1>6 DEF LossIsHandled, Watched, Alarmed
  <2>2. \A s \in Sockets : HostOf[s] = h => resolver[s] = Idle
    BY <1>2, <1>6 DEF NoStaleResolver, Watched
  <2>3. QED
    BY <1>2, <2>1, <2>2, AlarmedStays
<1>7. QED
  BY <1>4, <1>5, <1>6

(* Where queries are prompt, no loss of a connection is dropped: until the  *)
(* host has its alert there is a close event, a look-up, a timer or a task  *)
(* of it to come, whatever the handlers of its other connections do, and    *)
(* unless something fails.                                                  *)
THEOREM NoLossIsDropped ==
  ASSUME Prompt
  PROVE  Spec => []LossIsHandled
<1>1. Init => NoStaleResolver /\ LossIsHandled
  BY DEF Init, NoStaleResolver, LossIsHandled
<1>2. TypeOK /\ NoStaleResolver /\ LossIsHandled /\ [Next]_vars
        => NoStaleResolver' /\ LossIsHandled'
  BY ResolverNext, HandledNext
<1>3. QED
  BY <1>1, <1>2, TypeCorrect, PTL DEF Spec
-----------------------------------------------------------------------------
(***************************************************************************)
(* The alert a connection is to clear.                                      *)
(***************************************************************************)
(* What any step does to the alerts of a host and to those promised it.     *)
AlertsMove(h) ==
  /\ alerts'[h] \subseteq alerts[h] \cup Assigned(h) \cup {raised + 1}
  /\ Assigned(h)' \subseteq Assigned(h) \cup {raised + 1}
  /\ raised' = raised =>
       /\ alerts'[h] \subseteq alerts[h] \cup Assigned(h)
       /\ Assigned(h)' \subseteq Assigned(h)
  /\ ~Raising(h) /\ alerts[h] # {} => alerts'[h] \subseteq alerts[h] /\ ~Raising(h)'

LEMMA RaisingMeans ==
  \A h \in Hosts : ~Raising(h) =>
    /\ Assigned(h) = {}
    /\ \A s \in Sockets : HostOf[s] = h => alerter[s].at \notin {"creating", "assigning"}
    /\ monitor.at \in {"creating", "assigning"} => monitor.host # h
BY AssignedMeans DEF Raising

LEMMA EndingMoves ==
  ASSUME NEW h \in Hosts, raised' = raised, alerts'[h] \subseteq alerts[h],
         \A s \in Sockets :
           alerter'[s].at \in {"creating", "assigning"} => alerter'[s] = alerter[s],
         monitor'.at \in {"creating", "assigning"} => monitor' = monitor
  PROVE  AlertsMove(h)
<1>1. Assigned(h)' \subseteq Assigned(h)
  BY AssignedMeans, AssignedThen
<1>2. ~Raising(h) => ~Raising(h)'
  BY DEF Raising
<1>3. QED
  BY <1>1, <1>2 DEF AlertsMove

LEMMA TimerMoves ==
  ASSUME TypeOK, NEW h \in Hosts, NEW s \in Sockets,
         AlerterChecks(s) \/ AlerterCreates(s) \/ AlerterAssigns(s)
  PROVE  AlertsMove(h)
<1> DEFINE g == HostOf[s]
<1>1. monitor' = monitor /\ g \in Hosts
  BY HostOfAssumption DEF AlerterChecks, AlerterCreates, AlerterAssigns, checks
<1>2. \A t \in Sockets \ {s} : alerter'[t] = alerter[t]
  BY DEF AlerterChecks, AlerterCreates, AlerterAssigns, TypeOK
<1>3. CASE AlerterChecks(s)
  <2>1. UNCHANGED <<alerts, raised>>
    BY <1>3 DEF AlerterChecks, table
  <2>2. alerter'[s] = Idle \/ (alerter'[s] = [at |-> "creating"] /\ alerts[g] = {})
    BY <1>3 DEF AlerterChecks, TypeOK
  <2>3. Assigned(h)' \subseteq Assigned(h)
    BY <1>1, <1>2, <2>2, AssignedMeans, AssignedThen DEF Idle
  <2>4. ~Raising(h) /\ alerts[h] # {} => ~Raising(h)'
    BY <1>1, <1>2, <2>2 DEF Raising, Idle
  <2>5. QED
    BY <2>1, <2>3, <2>4 DEF AlertsMove
<1>4. CASE AlerterCreates(s)
  <2>1. alerter[s].at = "creating" /\ raised' = raised + 1 /\ raised' # raised
    BY <1>4 DEF AlerterCreates, Raise, TypeOK
  <2>2. alerter'[s] = Idle \/ alerter'[s] = [at |-> "assigning", alert |-> raised + 1]
    BY <1>4 DEF AlerterCreates, TypeOK
  <2>3. /\ alerts'[g] = alerts[g] \cup {raised + 1}
        /\ g # h => alerts'[h] = alerts[h]
    BY <1>1, <1>4 DEF AlerterCreates, Raise, TypeOK
  <2>4. Assigned(h)' \subseteq Assigned(h) \cup {raised + 1}
    BY <1>1, <1>2, <2>2, AssignedMeans, AssignedThen DEF Idle
  <2>5. ~Raising(h) => g # h /\ ~Raising(h)'
    BY <1>1, <1>2, <2>1 DEF Raising
  <2>6. QED
    BY <2>1, <2>3, <2>4, <2>5 DEF AlertsMove
<1>5. CASE AlerterAssigns(s)
  <2>1. alerter[s].at = "assigning" /\ raised' = raised /\ alerter'[s] = Idle
    BY <1>5 DEF AlerterAssigns, TypeOK
  <2>2. /\ alerts'[g] = alerts[g] \cup {alerter[s].alert}
        /\ g # h => alerts'[h] = alerts[h]
    BY <1>1, <1>5 DEF AlerterAssigns, AssignAlert, TypeOK
  <2>3. Assigned(h)' \subseteq Assigned(h) /\ alerter[s].alert \in Assigned(g)
    BY <1>1, <1>2, <2>1, AssignedMeans, AssignedThen DEF Idle
  <2>4. ~Raising(h) => g # h /\ ~Raising(h)'
    BY <1>1, <1>2, <2>1 DEF Raising
  <2>5. QED
    BY <2>1, <2>2, <2>3, <2>4 DEF AlertsMove
<1>6. QED
  BY <1>3, <1>4, <1>5

LEMMA MonitorMoves ==
  ASSUME TypeOK, NEW h \in Hosts,
         MonitorCreates \/ MonitorAssigns \/ \E g \in Hosts : MonitorChecks(g)
  PROVE  AlertsMove(h)
<1>1. alerter' = alerter
  BY DEF MonitorCreates, MonitorAssigns, MonitorChecks, tasks
<1>2. ASSUME NEW g \in Hosts, MonitorChecks(g) PROVE AlertsMove(h)
  <2>1. UNCHANGED <<alerts, raised>> /\ monitor.at = "checking"
    BY <1>2 DEF MonitorChecks, table
  <2>2. monitor' = monitor \/ (monitor' = [at |-> "creating", host |-> g] /\ alerts[g] = {})
    BY <1>2 DEF MonitorChecks
  <2>3. Assigned(h)' \subseteq Assigned(h)
    BY <1>1, <2>1, <2>2, AssignedMeans, AssignedThen
  <2>4. ~Raising(h) /\ alerts[h] # {} => ~Raising(h)'
    BY <1>1, <2>1, <2>2 DEF Raising
  <2>5. QED
    BY <2>1, <2>3, <2>4 DEF AlertsMove
<1> DEFINE g == monitor.host
<1>3. CASE MonitorCreates
  <2>1. /\ monitor.at = "creating" /\ g \in Hosts
        /\ raised' = raised + 1 /\ raised' # raised
    BY <1>3 DEF MonitorCreates, Raise, TypeOK, Monitor
  <2>2. \/ monitor' = [at |-> "checking"]
        \/ monitor' = [at |-> "assigning", host |-> g, alert |-> raised + 1]
    BY <1>3 DEF MonitorCreates
  <2>3. /\ alerts'[g] = alerts[g] \cup {raised + 1}
        /\ g # h => alerts'[h] = alerts[h]
    BY <1>3, <2>1 DEF MonitorCreates, Raise, TypeOK
  <2>4. Assigned(h)' \subseteq Assigned(h) \cup {raised + 1}
    BY <1>1, <2>2, AssignedMeans, AssignedThen
  <2>5. ~Raising(h) => g # h /\ ~Raising(h)'
    BY <1>1, <2>1, <2>2 DEF Raising
  <2>6. QED
    BY <2>1, <2>3, <2>4, <2>5 DEF AlertsMove
<1>4. CASE MonitorAssigns
  <2>1. /\ monitor.at = "assigning" /\ g \in Hosts /\ raised' = raised
        /\ monitor' = [at |-> "checking"]
    BY <1>4 DEF MonitorAssigns, TypeOK, Monitor
  <2>2. /\ alerts'[g] = alerts[g] \cup {monitor.alert}
        /\ g # h => alerts'[h] = alerts[h]
    BY <1>4, <2>1 DEF MonitorAssigns, AssignAlert, TypeOK
  <2>3. Assigned(h)' \subseteq Assigned(h) /\ monitor.alert \in Assigned(g)
    BY <1>1, <2>1, AssignedMeans, AssignedThen
  <2>4. ~Raising(h) => g # h /\ ~Raising(h)'
    BY <1>1, <2>1 DEF Raising
  <2>5. QED
    BY <2>1, <2>2, <2>3, <2>4 DEF AlertsMove
<1>5. QED
  BY <1>2, <1>3, <1>4

LEMMA StepMoves ==
  ASSUME TypeOK, [Next]_vars, NEW h \in Hosts
  PROVE  AlertsMove(h)
<1>1. CASE UNCHANGED <<alerts, raised, alerter, monitor>>
  BY <1>1, EndingMoves
<1>2. ASSUME NEW s \in Sockets,
             \/ Connect(s) \/ BeginClosing(s) \/ SocketError(s) \/ SocketClose(s)
             \/ CloserSchedules(s) \/ ResolverReads(s)
      PROVE  AlertsMove(h)
  BY <1>1, <1>2 DEF Connect, BeginClosing, SocketError, SocketClose, CloserSchedules,
     ResolverReads, tasks, table, checks
<1>3. ASSUME NEW g \in Hosts, GraceExpires(g) \/ HostGoesQuiet(g) \/ HostReports(g)
      PROVE  AlertsMove(h)
  BY <1>1, <1>3 DEF GraceExpires, HostGoesQuiet, HostReports, tasks, table, checks
<1>4. ASSUME NEW g \in Hosts, TimerFires(g) PROVE AlertsMove(h)
  <2>1. UNCHANGED <<alerts, raised, monitor>>
    BY <1>4 DEF TimerFires, table, checks
  <2>2. \A s \in Sockets : alerter'[s] \in {alerter[s], [at |-> "checking"]}
    BY <1>4 DEF TimerFires, TypeOK
  <2>3. QED
    BY <2>1, <2>2, EndingMoves
<1>5. ASSUME NEW s \in Sockets, ResolverResolves(s) PROVE AlertsMove(h)
  <2>1. UNCHANGED <<raised, alerter, monitor>> /\ alerts'[h] \subseteq alerts[h]
    BY <1>5 DEF ResolverResolves, TypeOK, checks
  <2>2. QED
    BY <2>1, EndingMoves
<1>6. ASSUME NEW s \in Sockets, TaskFails(s) PROVE AlertsMove(h)
  <2>1. UNCHANGED <<alerts, raised, monitor>>
    BY <1>6 DEF TaskFails, table, checks
  <2>2. \A t \in Sockets : alerter'[t] \in {alerter[t], Idle}
    BY <1>6 DEF TaskFails, TypeOK
  <2>3. QED
    BY <2>1, <2>2, EndingMoves DEF Idle
<1>7. CASE MonitorBegin \/ MonitorEnds \/ MonitorFails
  <2>1. UNCHANGED <<alerts, raised, alerter>> /\ monitor' \in {Idle, [at |-> "checking"]}
    BY <1>7 DEF MonitorBegin, MonitorEnds, MonitorFails, table, tasks
  <2>2. QED
    BY <2>1, EndingMoves DEF Idle
<1>8. CASE ServerRestart
  <2>1. UNCHANGED <<alerts, raised>> /\ monitor' = Idle /\ \A t \in Sockets : alerter'[t] = Idle
    BY <1>8 DEF ServerRestart, table
  <2>2. QED
    BY <2>1, EndingMoves DEF Idle
<1>9. ASSUME NEW s \in Sockets, AlerterChecks(s) \/ AlerterCreates(s) \/ AlerterAssigns(s)
      PROVE  AlertsMove(h)
  BY <1>9, TimerMoves
<1>10. CASE MonitorCreates \/ MonitorAssigns \/ \E g \in Hosts : MonitorChecks(g)
  BY <1>10, MonitorMoves
<1>11. CASE UNCHANGED vars
  BY <1>1, <1>11 DEF vars, tasks, table, checks
<1>12. QED
  BY <1>2, <1>3, <1>4, <1>5, <1>6, <1>7, <1>8, <1>9, <1>10, <1>11
  DEF Next, HandlerStep, MonitorStep

LEMMA RaisedMoves ==
  ASSUME TypeOK, [Next]_vars
  PROVE  raised' \in {raised, raised + 1}
<1>1. CASE raised' = raised
  BY <1>1
<1>2. ASSUME NEW s \in Sockets,
             \/ Connect(s) \/ BeginClosing(s) \/ SocketError(s) \/ SocketClose(s)
             \/ CloserSchedules(s) \/ AlerterChecks(s) \/ AlerterCreates(s) \/ AlerterAssigns(s)
             \/ ResolverReads(s) \/ ResolverResolves(s) \/ TaskFails(s)
      PROVE  raised' \in {raised, raised + 1}
  BY <1>2 DEF Connect, BeginClosing, SocketError, SocketClose, CloserSchedules, AlerterChecks,
     AlerterCreates, AlerterAssigns, Raise, ResolverReads, ResolverResolves, TaskFails, table
<1>3. ASSUME NEW h \in Hosts,
             GraceExpires(h) \/ TimerFires(h) \/ HostGoesQuiet(h) \/ HostReports(h)
      PROVE  raised' \in {raised, raised + 1}
  BY <1>3 DEF GraceExpires, TimerFires, HostGoesQuiet, HostReports, table
<1>4. CASE MonitorStep \/ MonitorFails \/ ServerRestart \/ UNCHANGED vars
  BY <1>4 DEF MonitorStep, MonitorBegin, MonitorChecks, MonitorCreates, MonitorAssigns,
     MonitorEnds, MonitorFails, Raise, ServerRestart, vars, table
<1>5. QED
  BY <1>2, <1>3, <1>4 DEF Next, HandlerStep

(* Only a connection of the host gives it an alert to clear.                *)
LEMMA DueMoves ==
  ASSUME TypeOK, [Next]_vars, NEW h \in Hosts
  PROVE  \/ due'[h] = due[h] /\ newest'[h] = newest[h]
         \/ \E s \in Sockets :
              /\ Connect(s) /\ HostOf[s] = h /\ newest'[h] = {s}
              /\ due'[h] = ToClear(h) /\ resolver'[s].at = "reading"
<1>1. ASSUME NEW s \in Sockets, Connect(s), HostOf[s] # h
      PROVE  due'[h] = due[h] /\ newest'[h] = newest[h]
  BY <1>1, ConnectOf
<1>2. ASSUME NEW s \in Sockets, Connect(s), HostOf[s] = h
      PROVE  newest'[h] = {s} /\ due'[h] = ToClear(h) /\ resolver'[s].at = "reading"
  BY <1>2 DEF Connect, TypeOK
<1>3. ASSUME NEW s \in Sockets, BeginClosing(s) \/ SocketError(s) \/ SocketClose(s)
      PROVE  UNCHANGED <<due, newest>>
  BY <1>3 DEF BeginClosing, SocketError, SocketClose
<1>4. ASSUME NEW g \in Hosts, GraceExpires(g) PROVE UNCHANGED <<due, newest>>
  BY <1>4 DEF GraceExpires, registry
<1>5. CASE ServerRestart
  BY <1>5 DEF ServerRestart
<1>6. CASE HubStill
  BY <1>6 DEF HubStill
<1>7. QED
  BY <1>1, <1>2, <1>3, <1>4, <1>5, <1>6, TasksLeaveHub DEF Next, HandlerStep

LEMMA NumbersNext ==
  ASSUME TypeOK, NumbersGrow, [Next]_vars
  PROVE  NumbersGrow'
<1>1. SUFFICES ASSUME NEW h \in Hosts, NEW a \in due'[h] \cup Promised(h)' PROVE a <= raised'
  BY DEF NumbersGrow
<1>2. raised \in Nat /\ raised' \in {raised, raised + 1}
  BY RaisedMoves DEF TypeOK
<1>3. \A b \in due[h] \cup Promised(h) : b <= raised /\ b \in Nat
  <2>1. \A b \in due[h] \cup alerts[h] : b \in Nat
    BY DEF TypeOK
  <2>2. \A b \in Assigned(h) : b \in Nat
    BY AssignedMeans DEF TypeOK, Alerter, Monitor
  <2>3. QED
    BY <2>1, <2>2 DEF NumbersGrow, Promised
<1>4. AlertsMove(h)
  BY StepMoves
<1>5. CASE a \in due'[h]
  <2>1. due'[h] \subseteq due[h] \cup Promised(h)
    BY DueMoves DEF ToClear, Promised
  <2>2. QED
    BY <1>2, <1>3, <1>5, <2>1
<1>6. CASE a \in Promised(h)'
  <2>1. a \in Promised(h) \/ (a = raised + 1 /\ raised' # raised)
    BY <1>4, <1>6 DEF AlertsMove, Promised
  <2>2. QED
    BY <1>2, <1>3, <2>1
<1>7. QED
  BY <1>5, <1>6

(* While it is active nobody raises another; once it is resolved no task    *)
(* has it to assign.                                                        *)
LEMMA AloneNext ==
  ASSUME TypeOK, NumbersGrow, DueStandsAlone, [Next]_vars, NEW h \in Hosts
  PROVE  /\ AtMostOne(due'[h])
         /\ due'[h] \cap Assigned(h)' = {}
         /\ due'[h] \cap alerts'[h] # {} => alerts'[h] \subseteq due'[h] /\ ~Raising(h)'
         /\ due'[h] = due[h] => due'[h] \cap alerts'[h] \subseteq alerts[h]
<1>1. AlertsMove(h)
  BY StepMoves
<1>2. raised + 1 \notin due[h]
  BY DEF NumbersGrow, TypeOK
<1>3. /\ AtMostOne(due[h]) /\ due[h] \cap Assigned(h) = {}
      /\ due[h] \cap alerts[h] # {} => alerts[h] \subseteq due[h] /\ ~Raising(h)
  BY DEF DueStandsAlone
<1>4. CASE due'[h] = due[h]
  <2>1. due'[h] \cap Assigned(h)' = {} /\ due'[h] \cap alerts'[h] \subseteq alerts[h]
    BY <1>1, <1>2, <1>3, <1>4 DEF AlertsMove
  <2>2. ASSUME due'[h] \cap alerts'[h] # {}
        PROVE  alerts'[h] \subseteq due'[h] /\ ~Raising(h)'
    <3>1. alerts[h] # {} /\ alerts[h] \subseteq due[h] /\ ~Raising(h)
      BY <1>3, <1>4, <2>1, <2>2
    <3>2. QED
      BY <1>1, <1>4, <3>1 DEF AlertsMove
  <2>3. QED
    BY <1>3, <1>4, <2>1, <2>2
<1>5. ASSUME NEW s \in Sockets, Connect(s), due'[h] = ToClear(h), due'[h] # due[h]
      PROVE  /\ AtMostOne(due'[h])
             /\ due'[h] \cap Assigned(h)' = {}
             /\ due'[h] \cap alerts'[h] # {} => alerts'[h] \subseteq due'[h] /\ ~Raising(h)'
  <2>1. UNCHANGED <<alerts, raised, alerter, monitor>>
    BY <1>5 DEF Connect, table, checks
  <2>2. AtMostOne(ToClear(h)) /\ (ToClear(h) # {} => ToClear(h) = alerts[h] /\ ~Raising(h))
    BY DEF ToClear, AtMostOne
  <2>3. ~Raising(h) => ~Raising(h)' /\ Assigned(h)' = {}
    <3>1. ~Raising(h) => ~Raising(h)'
      BY <2>1 DEF Raising
    <3>2. Assigned(h)' \subseteq Assigned(h)
      BY <2>1, AssignedMeans, AssignedThen
    <3>3. QED
      BY <3>1, <3>2, RaisingMeans
  <2>4. QED
    BY <1>5, <2>1, <2>2, <2>3
<1>6. QED
  BY <1>4, <1>5, DueMoves

Clears(s, a) == resolver[s].at = "reading" \/ resolver[s] = [at |-> "resolving", alert |-> a]

(* The task of the newest connection finds the host's one alert, and leaves *)
(* off when it is resolved.                                                 *)
LEMMA ResolverStays ==
  ASSUME TypeOK, DueStandsAlone, NoFailure, NEW h \in Hosts, NEW s \in newest[h],
         NEW a \in due[h] \cap alerts[h], a \in alerts'[h],
         Clears(s, a), newest'[h] = newest[h]
  PROVE  Clears(s, a)'
<1>1. s \in Sockets /\ HostOf[s] = h
  BY DEF TypeOK
<1>2. CASE resolver'[s] = resolver[s]
  BY <1>2 DEF Clears
<1>3. ASSUME NEW t \in Sockets, Connect(t) PROVE Clears(s, a)'
  <2>1. CASE t = s
    BY <1>1, <1>3, <2>1 DEF Connect, Clears, TypeOK
  <2>2. CASE t # s
    BY <1>1, <1>2, <1>3, <2>2 DEF Connect, TypeOK
  <2>3. QED
    BY <2>1, <2>2
<1>4. ASSUME NEW t \in Sockets, ResolverReads(t) PROVE Clears(s, a)'
  <2>1. CASE t = s
    <3>1. \A b \in alerts[h] : b = a
      BY DEF DueStandsAlone, AtMostOne
    <3>2. resolver'[s] = [at |-> "resolving", alert |-> a]
      BY <1>1, <1>4, <2>1, <3>1 DEF ResolverReads, TypeOK
    <3>3. QED
      BY <3>2 DEF Clears
  <2>2. CASE t # s
    BY <1>1, <1>2, <1>4, <2>2 DEF ResolverReads, TypeOK
  <2>3. QED
    BY <2>1, <2>2
<1>5. ASSUME NEW t \in Sockets, ResolverResolves(t) PROVE Clears(s, a)'
  <2>1. t # s
    <3>1. SUFFICES ASSUME t = s PROVE FALSE
      OBVIOUS
    <3>2. resolver[s] = [at |-> "resolving", alert |-> a]
      BY <1>5, <3>1 DEF ResolverResolves, Clears
    <3>3. alerts'[h] = alerts[h] \ {a}
      BY <1>1, <1>5, <3>1, <3>2 DEF ResolverResolves, TypeOK
    <3>4. QED
      BY <3>3
  <2>2. QED
    BY <1>1, <1>2, <1>5, <2>1 DEF ResolverResolves, TypeOK
<1>6. ASSUME NEW t \in Sockets,
             \/ BeginClosing(t) \/ SocketError(t) \/ SocketClose(t) \/ CloserSchedules(t)
             \/ AlerterChecks(t) \/ AlerterCreates(t) \/ AlerterAssigns(t)
      PROVE  Clears(s, a)'
  BY <1>2, <1>6 DEF BeginClosing, SocketError, SocketClose, CloserSchedules, AlerterChecks,
     AlerterCreates, AlerterAssigns, tasks
<1>7. ASSUME NEW g \in Hosts,
             GraceExpires(g) \/ TimerFires(g) \/ HostGoesQuiet(g) \/ HostReports(g)
      PROVE  Clears(s, a)'
  BY <1>2, <1>7 DEF GraceExpires, TimerFires, HostGoesQuiet, HostReports, tasks
<1>8. CASE MonitorStep \/ UNCHANGED vars
  BY <1>2, <1>8 DEF MonitorStep, MonitorBegin, MonitorChecks, MonitorCreates, MonitorAssigns,
     MonitorEnds, vars, tasks
<1>9. QED
  BY <1>3, <1>4, <1>5, <1>6, <1>7, <1>8 DEF NoFailure, HandlerStep

LEMMA DueNext ==
  ASSUME DueInv, [Next]_vars
  PROVE  DueInv'
<1>1. TypeOK /\ TypeOK' /\ NumbersGrow /\ DueStandsAlone /\ DueHasResolver
  BY StepType DEF DueInv
<1>2. NumbersGrow'
  BY <1>1, NumbersNext
<1>3. DueStandsAlone'
  BY <1>1, AloneNext DEF DueStandsAlone
<1>4. DueHasResolver'
  <2>1. SUFFICES ASSUME failures' = 0, NEW h \in Hosts, NEW a \in due'[h] \cap alerts'[h]
                 PROVE  \E s \in newest'[h] : Clears(s, a)'
    BY DEF DueHasResolver, Clears
  <2>2. failures = 0 /\ NoFailure
    BY <1>1, <2>1, ShortOfFailures
  <2>3. CASE due'[h] = due[h] /\ newest'[h] = newest[h]
    <3>1. a \in due[h] \cap alerts[h]
      BY <1>1, <2>1, <2>3, AloneNext
    <3>2. PICK s \in newest[h] : Clears(s, a)
      BY <1>1, <2>2, <3>1 DEF DueHasResolver, Clears
    <3>3. QED
      BY <1>1, <2>1, <2>2, <2>3, <3>1, <3>2, ResolverStays
  <2>4. ASSUME NEW s \in Sockets, newest'[h] = {s}, resolver'[s].at = "reading"
        PROVE  \E t \in newest'[h] : Clears(t, a)'
    BY <2>4 DEF Clears
  <2>5. QED
    BY <1>1, <2>3, <2>4, DueMoves
<1>5. QED
  BY <1>1, <1>2, <1>3, <1>4 DEF DueInv

(* The one alert a host has when it connects, while no task is about to     *)
(* raise or assign another, always has the task of the newest connection on *)
(* it, reading or about to resolve that very alert, until it is resolved    *)
(* for good: however often the host comes and goes, beside the monitor,     *)
(* whatever queries take, and unless something fails.                       *)
THEOREM DueAlertIsInHand == Spec => []DueHasResolver
<1>1. Init => DueInv
  <2>1. ASSUME Init PROVE DueInv
    <3>1. TypeOK /\ \A h \in Hosts : due[h] = {} /\ alerts[h] = {}
      BY <2>1, InitType DEF Init
    <3>2. \A h \in Hosts : Assigned(h) = {}
      BY <2>1, AssignedMeans DEF Init, Idle
    <3>3. QED
      BY <3>1, <3>2
      DEF DueInv, NumbersGrow, Promised, DueStandsAlone, DueHasResolver, AtMostOne
  <2>2. QED
    BY <2>1
<1>2. DueInv /\ [Next]_vars => DueInv'
  BY DueNext
<1>3. DueInv => DueHasResolver
  BY DEF DueInv
<1>4. QED
  BY <1>1, <1>2, <1>3, PTL DEF Spec

=============================================================================
