-------------------------- MODULE AgentConnection --------------------------
(***************************************************************************)
(* The WebSocket hub of agentWs.js and what hangs on it: the registry of    *)
(* agents' connections, the badge users see, the host_down alerts raised    *)
(* ten seconds after a connection is lost and resolved when the agent is    *)
(* back, and the host status monitor, the fallback that raises the same     *)
(* alerts from the time of the last report.                                 *)
(*                                                                          *)
(* Handlers run on one event loop: what a handler does up to an await is    *)
(* one step, each awaited query that matters another, and sockets, timers   *)
(* and other handlers come in between.  Alerts are switched on throughout;  *)
(* a task that finds them switched off ends as one whose query fails.       *)
(***************************************************************************)
EXTENDS Naturals, FiniteSets

CONSTANTS
  Hosts,
  Sockets,      \* connections the agents may make
  HostOf,       \* the host a connection belongs to
  Prompt,       \* whether queries are answered long before the next timer fires
  MaxFailures   \* bound on restarts of the server and failed queries

ASSUME HostOfAssumption == HostOf \in [Sockets -> Hosts]
ASSUME PromptAssumption == Prompt \in BOOLEAN

AtMostOne(S) == \A x, y \in S : x = y

Resolver == [at : {"idle", "reading"}] \cup [at : {"resolving"}, alert : Nat]
Alerter  == [at : {"idle", "checking", "creating"}] \cup [at : {"assigning"}, alert : Nat]
Monitor  == [at : {"idle", "checking"}] \cup [at : {"creating"}, host : Hosts]
              \cup [at : {"assigning"}, host : Hosts, alert : Nat]

VARIABLES
  phase,      \* the readyState of a socket
  current,    \* apiIdToSocket: {} or the socket registered for the host
  newest,     \* history: the socket that connected last
  grace,      \* pendingUiGraceTimers
  shown,      \* what the status stream last told a user's browser
  timer,      \* pendingDisconnectTimers: {} or the socket whose loss set it
  closer,     \* lost sockets whose handler is looking up the host
  resolver,   \* what the task started by a connection is at
  alerter,    \* what the task started by a socket's timer is at
  alerts,     \* a host's active host_down alerts, numbered as they are raised
  raised,     \* how many alerts were raised
  due,        \* history: the alert that the newest connection is to clear
  stale,      \* hosts that have not reported for three update intervals
  monitor,    \* what the monitor is at
  todo,       \* hosts it found stale and has yet to deal with
  failures

registry == <<phase, current, newest, due>>
display  == <<grace, shown>>
tasks    == <<timer, closer, resolver, alerter>>
table    == <<alerts, raised>>
checks   == <<stale, monitor, todo>>
vars     == <<registry, display, tasks, table, checks, failures>>

TypeOK ==
  /\ phase \in [Sockets -> {"unused", "open", "closing", "closed"}]
  /\ current \in [Hosts -> SUBSET Sockets]
  /\ newest \in [Hosts -> SUBSET Sockets]
  /\ timer \in [Hosts -> SUBSET Sockets]
  /\ \A h \in Hosts :
       /\ AtMostOne(current[h]) /\ AtMostOne(newest[h]) /\ AtMostOne(timer[h])
       /\ \A s \in current[h] \cup newest[h] \cup timer[h] : HostOf[s] = h
  /\ grace \subseteq Hosts
  /\ shown \in [Hosts -> BOOLEAN]
  /\ closer \subseteq Sockets
  /\ resolver \in [Sockets -> Resolver]
  /\ alerter \in [Sockets -> Alerter]
  /\ alerts \in [Hosts -> SUBSET Nat]
  /\ raised \in Nat
  /\ due \in [Hosts -> SUBSET Nat]
  /\ stale \in [Hosts -> BOOLEAN]
  /\ monitor \in Monitor
  /\ todo \subseteq Hosts
  /\ failures \in Nat

Idle == [at |-> "idle"]

Init ==
  /\ phase = [s \in Sockets |-> "unused"]
  /\ current = [h \in Hosts |-> {}]
  /\ newest = [h \in Hosts |-> {}]
  /\ grace = {}
  /\ shown = [h \in Hosts |-> FALSE]
  /\ timer = [h \in Hosts |-> {}]
  /\ closer = {}
  /\ resolver = [s \in Sockets |-> Idle]
  /\ alerter = [s \in Sockets |-> Idle]
  /\ alerts = [h \in Hosts |-> {}]
  /\ raised = 0
  /\ due = [h \in Hosts |-> {}]
  /\ stale = [h \in Hosts |-> FALSE]
  /\ monitor = Idle
  /\ todo = {}
  /\ failures = 0

-----------------------------------------------------------------------------
(***************************************************************************)
(* Sockets.                                                                 *)
(***************************************************************************)
isConnected(h) == \E s \in current[h] : phase[s] = "open"

(* A task found no alert of the host and is about to raise one, or has      *)
(* raised one that it may yet assign.                                       *)
Raising(h) ==
  \/ \E s \in Sockets : HostOf[s] = h /\ alerter[s].at \in {"creating", "assigning"}
  \/ monitor.at \in {"creating", "assigning"} /\ monitor.host = h

(* What a new connection is to clear: the host's one alert, unless a task   *)
(* is about to add to it or to change it.                                   *)
ToClear(h) == IF AtMostOne(alerts[h]) /\ ~Raising(h) THEN alerts[h] ELSE {}

\* Mutant: alerts are resolved only when a host_down timer was pending.
ConnectResolvingPending(s) ==
  LET h == HostOf[s]
  IN  /\ phase[s] = "unused"
      /\ phase' = [phase EXCEPT ![s] = "open"]
      /\ current' = [current EXCEPT ![h] = {s}]
      /\ newest' = [newest EXCEPT ![h] = {s}]
      /\ due' = [due EXCEPT ![h] = ToClear(h)]
      /\ grace' = grace \ {h}
      /\ shown' = [shown EXCEPT ![h] = TRUE]
      /\ timer' = [timer EXCEPT ![h] = {}]
      /\ resolver' = IF timer[h] = {} THEN resolver
                     ELSE [resolver EXCEPT ![s] = [at |-> "reading"]]
      /\ UNCHANGED <<closer, alerter, table, checks, failures>>

(***************************************************************************)
(* The upgrade is accepted: the socket takes the place of any other of its  *)
(* host, both timers are cancelled, the stream is told, and a task that     *)
(* resolves the host's alert begins.                                        *)
(***************************************************************************)
Connect(s) ==
  LET h == HostOf[s]
  IN  /\ phase[s] = "unused"
      /\ phase' = [phase EXCEPT ![s] = "open"]
      /\ current' = [current EXCEPT ![h] = {s}]
      /\ newest' = [newest EXCEPT ![h] = {s}]
      /\ due' = [due EXCEPT ![h] = ToClear(h)]
      /\ grace' = grace \ {h}
      /\ shown' = [shown EXCEPT ![h] = TRUE]
      /\ timer' = [timer EXCEPT ![h] = {}]
      /\ resolver' = [resolver EXCEPT ![s] = [at |-> "reading"]]
      /\ UNCHANGED <<closer, alerter, table, checks, failures>>

(* The closing handshake begins, or the connection breaks: no handler runs. *)
BeginClosing(s) ==
  /\ phase[s] = "open"
  /\ phase' = [phase EXCEPT ![s] = "closing"]
  /\ UNCHANGED <<current, newest, due, display, tasks, table, checks, failures>>

\* Mutant: whatever socket is registered for the host is removed.
UnregisterHost(s) ==
  LET h == HostOf[s]
  IN  /\ current' = [current EXCEPT ![h] = {}]
      /\ grace' = grace \cup {h}
      /\ closer' = closer \cup {s}

(***************************************************************************)
(* What both handlers of a lost socket do if it is still the registered     *)
(* one: the badge gets its grace timer and the host is looked up.           *)
(***************************************************************************)
Unregister(s) ==
  LET h == HostOf[s]
  IN  IF current[h] = {s}
        THEN /\ current' = [current EXCEPT ![h] = {}]
             /\ grace' = grace \cup {h}
             /\ closer' = closer \cup {s}
        ELSE UNCHANGED <<current, grace, closer>>

\* Mutant: the error handler leaves the grace timer to the close handler.
ErrorWithoutGrace(s) ==
  /\ phase[s] \in {"open", "closing"}
  /\ phase' = [phase EXCEPT ![s] = "closing"]
  /\ current' = [current EXCEPT ![HostOf[s]] = @ \ {s}]
  /\ closer' = closer \cup (current[HostOf[s]] \cap {s})
  /\ UNCHANGED <<newest, due, display, timer, resolver, alerter, table, checks, failures>>

\* Mutant: the error handler leaves the alert to the close handler.
ErrorWithoutAlert(s) ==
  /\ phase[s] \in {"open", "closing"}
  /\ phase' = [phase EXCEPT ![s] = "closing"]
  /\ current' = [current EXCEPT ![HostOf[s]] = @ \ {s}]
  /\ grace' = IF current[HostOf[s]] = {s} THEN grace \cup {HostOf[s]} ELSE grace
  /\ UNCHANGED <<newest, due, shown, tasks, table, checks, failures>>

SocketError(s) ==
  /\ phase[s] \in {"open", "closing"}
  /\ phase' = [phase EXCEPT ![s] = "closing"]
  /\ Unregister(s)
  /\ UNCHANGED <<newest, due, shown, timer, resolver, alerter, table, checks, failures>>

SocketClose(s) ==
  /\ phase[s] = "closing"
  /\ phase' = [phase EXCEPT ![s] = "closed"]
  /\ Unregister(s)
  /\ UNCHANGED <<newest, due, shown, timer, resolver, alerter, table, checks, failures>>

-----------------------------------------------------------------------------
(***************************************************************************)
(* The badge.                                                               *)
(***************************************************************************)
GraceExpires(h) ==
  /\ h \in grace
  /\ grace' = grace \ {h}
  /\ shown' = IF isConnected(h) THEN shown ELSE [shown EXCEPT ![h] = FALSE]
  /\ UNCHANGED <<registry, tasks, table, checks, failures>>

-----------------------------------------------------------------------------
\* Mutant: a timer is set beside the one that runs.
CloserAddsTimer(s) ==
  /\ s \in closer
  /\ closer' = closer \ {s}
  /\ timer' = [timer EXCEPT ![HostOf[s]] = @ \cup {s}]
  /\ UNCHANGED <<registry, display, resolver, alerter, table, checks, failures>>

(***************************************************************************)
(* host_down alerts: the host was looked up and the timer is set, unless    *)
(* one is already; the timer fires; the task it starts looks for an active  *)
(* alert of the host and, when it found none, creates one.                  *)
(***************************************************************************)
CloserSchedules(s) ==
  LET h == HostOf[s]
  IN  /\ s \in closer
      /\ closer' = closer \ {s}
      /\ timer' = IF timer[h] = {} THEN [timer EXCEPT ![h] = {s}] ELSE timer
      /\ UNCHANGED <<registry, display, resolver, alerter, table, checks, failures>>

Working(h) ==
  \E s \in Sockets :
    HostOf[s] = h /\ (s \in closer \/ resolver[s] # Idle \/ alerter[s] # Idle)

TimerFires(h) ==
  /\ Prompt => ~Working(h)
  /\ timer[h] # {}
  /\ timer' = [timer EXCEPT ![h] = {}]
  /\ alerter' = IF isConnected(h) THEN alerter
                ELSE [s \in Sockets |-> IF s \in timer[h] THEN [at |-> "checking"] ELSE alerter[s]]
  /\ UNCHANGED <<registry, display, closer, resolver, table, checks, failures>>

\* Mutant: existing alerts are not looked for.
AlwaysCreates(s) ==
  /\ alerter[s].at = "checking"
  /\ alerter' = [alerter EXCEPT ![s] = [at |-> "creating"]]
  /\ UNCHANGED <<registry, display, timer, closer, resolver, table, checks, failures>>

AlerterChecks(s) ==
  /\ alerter[s].at = "checking"
  /\ alerter' = [alerter EXCEPT ![s] =
                   IF alerts[HostOf[s]] = {} THEN [at |-> "creating"] ELSE Idle]
  /\ UNCHANGED <<registry, display, timer, closer, resolver, table, checks, failures>>

Raise(h) ==
  /\ alerts' = [alerts EXCEPT ![h] = @ \cup {raised + 1}]
  /\ raised' = raised + 1

(***************************************************************************)
(* The alert is raised and, where the administrator's settings say so,      *)
(* assigned to a user by a query of its own: assignAlertToUser also makes   *)
(* it active again, if it was resolved in between.                          *)
(***************************************************************************)
AlerterCreates(s) ==
  /\ alerter[s].at = "creating"
  /\ \E next \in {Idle, [at |-> "assigning", alert |-> raised + 1]} :
       alerter' = [alerter EXCEPT ![s] = next]
  /\ Raise(HostOf[s])
  /\ UNCHANGED <<registry, display, timer, closer, resolver, checks, failures>>

AssignAlert(h, a) == alerts' = [alerts EXCEPT ![h] = @ \cup {a}]

AlerterAssigns(s) ==
  /\ alerter[s].at = "assigning"
  /\ AssignAlert(HostOf[s], alerter[s].alert)
  /\ alerter' = [alerter EXCEPT ![s] = Idle]
  /\ UNCHANGED <<registry, display, timer, closer, resolver, raised, checks, failures>>

(***************************************************************************)
(* The task of a new connection: it looks for one active alert of the host  *)
(* and then resolves it.                                                    *)
(***************************************************************************)
ResolverReads(s) ==
  /\ resolver[s].at = "reading"
  /\ \/ /\ alerts[HostOf[s]] = {}
        /\ resolver' = [resolver EXCEPT ![s] = Idle]
     \/ \E a \in alerts[HostOf[s]] :
          resolver' = [resolver EXCEPT ![s] = [at |-> "resolving", alert |-> a]]
  /\ UNCHANGED <<registry, display, timer, closer, alerter, table, checks, failures>>

ResolverResolves(s) ==
  /\ resolver[s].at = "resolving"
  /\ alerts' = [alerts EXCEPT ![HostOf[s]] = @ \ {resolver[s].alert}]
  /\ resolver' = [resolver EXCEPT ![s] = Idle]
  /\ UNCHANGED <<registry, display, timer, closer, alerter, raised, checks, failures>>

-----------------------------------------------------------------------------
(***************************************************************************)
(* The host status monitor reads all hosts and, one after the other, raises *)
(* an alert for those that were stale and have none, which it may assign as *)
(* well.  Its branch for hosts that are back asks for the status "offline", *)
(* which nothing gives a host, so it is no action of the model.             *)
(***************************************************************************)
MonitorBegin ==
  /\ monitor = Idle
  /\ todo' = {h \in Hosts : stale[h]}
  /\ monitor' = [at |-> "checking"]
  /\ UNCHANGED <<registry, display, tasks, table, stale, failures>>

\* Mutant: alerts of other hosts count as this host's.
MonitorChecksAny(h) ==
  /\ monitor.at = "checking"
  /\ h \in todo
  /\ todo' = todo \ {h}
  /\ monitor' = IF \A g \in Hosts : alerts[g] = {} THEN [at |-> "creating", host |-> h]
                ELSE monitor
  /\ UNCHANGED <<registry, display, tasks, table, stale, failures>>

MonitorChecks(h) ==
  /\ monitor.at = "checking"
  /\ h \in todo
  /\ todo' = todo \ {h}
  /\ monitor' = IF alerts[h] = {} THEN [at |-> "creating", host |-> h] ELSE monitor
  /\ UNCHANGED <<registry, display, tasks, table, stale, failures>>

MonitorCreates ==
  /\ monitor.at = "creating"
  /\ Raise(monitor.host)
  /\ monitor' \in {[at |-> "checking"],
                   [at |-> "assigning", host |-> monitor.host, alert |-> raised + 1]}
  /\ UNCHANGED <<registry, display, tasks, stale, todo, failures>>

MonitorAssigns ==
  /\ monitor.at = "assigning"
  /\ AssignAlert(monitor.host, monitor.alert)
  /\ monitor' = [at |-> "checking"]
  /\ UNCHANGED <<registry, display, tasks, raised, stale, todo, failures>>

MonitorEnds ==
  /\ monitor.at = "checking"
  /\ todo = {}
  /\ monitor' = Idle
  /\ UNCHANGED <<registry, display, tasks, table, stale, todo, failures>>

(* Reports reach the server over HTTP, whatever the host's socket does.     *)
HostGoesQuiet(h) ==
  /\ ~stale[h]
  /\ stale' = [stale EXCEPT ![h] = TRUE]
  /\ UNCHANGED <<registry, display, tasks, table, monitor, todo, failures>>

HostReports(h) ==
  /\ stale[h]
  /\ stale' = [stale EXCEPT ![h] = FALSE]
  /\ UNCHANGED <<registry, display, tasks, table, monitor, todo, failures>>

-----------------------------------------------------------------------------
(***************************************************************************)
(* A query fails, which ends the task that made it, or the server restarts, *)
(* and nothing remains but the tables.                                      *)
(***************************************************************************)
Fails == failures < MaxFailures /\ failures' = failures + 1

TaskFails(s) ==
  /\ Fails
  /\ \/ /\ s \in closer
        /\ closer' = closer \ {s}
        /\ UNCHANGED <<resolver, alerter>>
     \/ /\ resolver[s] # Idle
        /\ resolver' = [resolver EXCEPT ![s] = Idle]
        /\ UNCHANGED <<closer, alerter>>
     \/ /\ alerter[s] # Idle
        /\ alerter' = [alerter EXCEPT ![s] = Idle]
        /\ UNCHANGED <<closer, resolver>>
  /\ UNCHANGED <<registry, display, timer, table, checks>>

MonitorFails ==
  /\ Fails
  /\ monitor # Idle
  /\ monitor' = Idle
  /\ todo' = {}
  /\ UNCHANGED <<registry, display, tasks, table, stale>>

ServerRestart ==
  /\ Fails
  /\ phase' = [s \in Sockets |-> IF phase[s] = "unused" THEN "unused" ELSE "closed"]
  /\ current' = [h \in Hosts |-> {}]
  /\ grace' = {}
  /\ shown' = [h \in Hosts |-> FALSE]
  /\ timer' = [h \in Hosts |-> {}]
  /\ closer' = {}
  /\ resolver' = [s \in Sockets |-> Idle]
  /\ alerter' = [s \in Sockets |-> Idle]
  /\ monitor' = Idle
  /\ todo' = {}
  /\ UNCHANGED <<newest, due, table, stale>>

-----------------------------------------------------------------------------
HandlerStep ==
  \/ \E s \in Sockets :
       \/ SocketClose(s)
       \/ CloserSchedules(s)
       \/ AlerterChecks(s)
       \/ AlerterCreates(s)
       \/ AlerterAssigns(s)
       \/ ResolverReads(s)
       \/ ResolverResolves(s)
  \/ \E h \in Hosts : GraceExpires(h) \/ TimerFires(h)

MonitorStep ==
  \/ MonitorBegin
  \/ \E h \in Hosts : MonitorChecks(h)
  \/ MonitorCreates
  \/ MonitorAssigns
  \/ MonitorEnds

Next ==
  \/ \E s \in Sockets : Connect(s) \/ BeginClosing(s) \/ SocketError(s)
  \/ HandlerStep
  \/ MonitorStep
  \/ \E h \in Hosts : HostGoesQuiet(h) \/ HostReports(h)
  \/ \E s \in Sockets : TaskFails(s)
  \/ MonitorFails
  \/ ServerRestart

Spec == Init /\ [][Next]_vars

(***************************************************************************)
(* The event loop runs handlers and timers, the ws library ends a closing   *)
(* handshake that takes too long, and the queue repeats the monitor's job.  *)
(***************************************************************************)
FairSpec == Spec /\ WF_vars(HandlerStep) /\ WF_vars(MonitorStep)
-----------------------------------------------------------------------------
(***************************************************************************)
(* Properties.                                                              *)
(***************************************************************************)

(* An agent whose last connection is open is the one that messages to its   *)
(* host reach, and users see it connected, whatever the handlers of its     *)
(* earlier sockets still do.                                                *)
LiveAgentIsReachable ==
  \A h \in Hosts : \A s \in newest[h] :
    phase[s] = "open" => current[h] = {s} /\ shown[h]

(* "De-duplicate: check existing active host_down alerts": the check and    *)
(* the creation are apart, and so are the creation and the assignment that  *)
(* activates the alert again; so the task of a timer and the monitor may    *)
(* each leave a host one.  With prompt queries it never has a third, since  *)
(* the tasks of its other timers see what is there.                         *)
AtMostTwo(S) == \A x, y, z \in S : x = y \/ y = z \/ x = z

TwoAlertsAtMost == \A h \in Hosts : AtMostTwo(alerts[h])

(* "If it hasn't reconnected by then, notify subscribers so the badge flips *)
(* to offline".                                                             *)
UiLearnsOffline ==
  \A h \in Hosts : ~isConnected(h) ~> (~shown[h] \/ isConnected(h))

(* A host that was connected and stays away gets its alert, whichever       *)
(* handlers of earlier connections and disconnections are still under way;  *)
(* only a failed query or a restart can prevent that.                       *)
LossIsNoticed ==
  \A h \in Hosts :
    (newest[h] # {} /\ ~isConnected(h)) ~> (alerts[h] # {} \/ isConnected(h) \/ failures > 0)

(* "Resolve any existing host_down alerts when host reconnects", for an     *)
(* alert that was the host's only one when it did, while no task was about  *)
(* to add another or to assign one: whatever the monitor and the handlers   *)
(* of other connections do from then on, it is resolved.                    *)
DueAlert(h) == isConnected(h) /\ due[h] \cap alerts[h] # {}

ReturnClears == \A h \in Hosts : DueAlert(h) ~> (~DueAlert(h) \/ failures > 0)

(* The fallback: a host that stays stale gets an alert, also when the       *)
(* server restarted or a query failed after its connection was lost.        *)
StaleIsNoticed == \A h \in Hosts : stale[h] ~> (~stale[h] \/ alerts[h] # {})

(* "Resolve any existing host_down alerts when host reconnects": a host     *)
(* that stays connected does not keep an alert that it is down.             *)
ConnectedIsClear ==
  \A h \in Hosts :
    (isConnected(h) /\ alerts[h] # {}) ~> (~isConnected(h) \/ alerts[h] = {})
-----------------------------------------------------------------------------
(***************************************************************************)
(* The inductive invariant behind TwoAlertsAtMost, where queries are        *)
(* prompt: a host has one task of a timer at a time; and what such a task   *)
(* or the monitor is about to add to its alerts is counted already.         *)
(***************************************************************************)
OneAlerter ==
  \A s, t \in Sockets :
    HostOf[s] = HostOf[t] /\ alerter[s] # Idle /\ alerter[t] # Idle => s = t

(* The alerts of a host that a task has raised and may yet assign.          *)
Assigned(h) ==
  {alerter[s].alert : s \in {t \in Sockets : HostOf[t] = h /\ alerter[t].at = "assigning"}}
    \cup IF monitor.at = "assigning" /\ monitor.host = h THEN {monitor.alert} ELSE {}

Promised(h) == alerts[h] \cup Assigned(h)

TimerCreates(h)   == \E s \in Sockets : HostOf[s] = h /\ alerter[s].at = "creating"
MonitorToCreate(h) == monitor.at = "creating" /\ monitor.host = h

RoomFor(h) ==
  /\ AtMostTwo(Promised(h))
  /\ TimerCreates(h) \/ MonitorToCreate(h) => AtMostOne(Promised(h))
  /\ TimerCreates(h) /\ MonitorToCreate(h) => Promised(h) = {}

TwoAlertsInv == TypeOK /\ OneAlerter /\ \A h \in Hosts : RoomFor(h)
-----------------------------------------------------------------------------
(***************************************************************************)
(* What UiLearnsOffline, LossIsNoticed and ReturnClears live on: as long as *)
(* the badge, the loss or the alert waits to be dealt with, something is    *)
(* under way that will.                                                     *)
(***************************************************************************)
RegisteredAlive == \A h \in Hosts : \A s \in current[h] : phase[s] \in {"open", "closing"}

CloseToCome(h) == \E s \in current[h] : phase[s] = "closing"

(* A host that is shown connected and is not has its grace timer running, or *)
(* a socket registered whose close event will set it.                       *)
BadgeWillTurn ==
  \A h \in Hosts : shown[h] /\ ~isConnected(h) => h \in grace \/ CloseToCome(h)

(* The loss of a connection is on record: a socket about to close, a handler *)
(* looking up its host, or the host's timer.                                *)
LossOnRecord(h) == CloseToCome(h) \/ (\E s \in closer : HostOf[s] = h) \/ timer[h] # {}

(* A host that was connected and is not has an alert, or a task about to    *)
(* check for one or raise it, or a loss on record; short of failures.       *)
LossIsHandled ==
  failures = 0 =>
    \A h \in Hosts : newest[h] # {} /\ ~isConnected(h) =>
      \/ alerts[h] # {}
      \/ \E s \in Sockets : HostOf[s] = h /\ alerter[s] # Idle
      \/ LossOnRecord(h)

(* A task of an earlier connection may still resolve the alert of this loss *)
(* only while the loss is on record, and so leads to another.               *)
NoStaleResolver ==
  failures = 0 =>
    \A s \in Sockets : resolver[s] # Idle =>
      isConnected(HostOf[s]) \/ LossOnRecord(HostOf[s])

(* The alert a connection is to clear has the task of that connection on it, *)
(* reading or about to resolve that very alert; short of failures.          *)
DueHasResolver ==
  failures = 0 =>
    \A h \in Hosts : \A a \in due[h] \cap alerts[h] :
      \E s \in newest[h] :
        resolver[s].at = "reading" \/ resolver[s] = [at |-> "resolving", alert |-> a]

(* Until it is resolved it stays the host's only alert, and no task is about *)
(* to raise another; from then on no task makes it active again.            *)
DueStandsAlone ==
  \A h \in Hosts :
    /\ AtMostOne(due[h])
    /\ due[h] \cap Assigned(h) = {}
    /\ due[h] \cap alerts[h] # {} => alerts[h] \subseteq due[h] /\ ~Raising(h)

NumbersGrow == \A h \in Hosts : \A a \in due[h] \cup Promised(h) : a <= raised

DueInv == TypeOK /\ NumbersGrow /\ DueStandsAlone /\ DueHasResolver

=============================================================================
