-------------------------- MODULE TerminalSessions --------------------------
(***************************************************************************)
(* Terminals in the browser on a shell of a host (sshTerminalWs.js, shell.go *)
(* and the SSH proxy of serve.go): the browser's WebSocket to the server,   *)
(* the server's table of sessions and their timers, the agent's WebSocket,  *)
(* and the sessions the agent has opened, in one of two modes: a shell of   *)
(* its own, or a proxied SSH connection.                                    *)
(*                                                                          *)
(* One browser socket and one host: others share nothing with them.         *)
(***************************************************************************)
EXTENDS Naturals, Sequences

CONSTANTS
  MaxSessions,  \* bound on the sessions the browser asks for
  MaxBreaks     \* bound on lost connections and restarts

ASSUME BoundsAssumption == MaxSessions \in Nat /\ MaxBreaks \in Nat

Sessions == 1 .. MaxSessions
Links    == 1 .. MaxBreaks + 1      \* the agent's connections, 0 for none
Modes    == {"shell", "proxy"}
Phase    == {"none", "connecting", "live", "over"}
Stage    == {"none", "opening", "open", "dying", "ended"}
Orders   == [kind : {"open", "close"}, session : Sessions]
Replies  == [kind : {"connected", "data", "error", "closed"}, session : Sessions]

VARIABLES
  ui,        \* whether the browser's socket is open
  current,   \* proxySessionId, 0 for null
  awaiting,  \* connect messages whose handlers await the credentials
  born,      \* identifiers used
  mode,      \* the mode of each session
  table,     \* sshProxySessions of the server
  timers,    \* pendingConnectTimers
  phase,     \* what the browser was told of each session
  output,    \* sessions that have shown output
  known,     \* the connection the server has registered
  link,      \* globalWsConn: the connection the agent has
  links,     \* connections made
  down,      \* messages to the agent, in its channel and under way
  up,        \* messages to the server
  stage,     \* what the agent has of each session
  via,       \* the connection a session of the agent writes to
  breaks

browser == <<ui, current, awaiting>>
server  == <<born, mode, table, timers>>
shown   == <<phase, output>>
net     == <<known, link, links, breaks>>
wires   == <<down, up>>
agent   == <<stage, via>>
vars    == <<browser, server, shown, net, wires, agent>>

TypeOK ==
  /\ ui \in BOOLEAN
  /\ current \in 0 .. MaxSessions
  /\ awaiting \in Nat
  /\ born \in 0 .. MaxSessions
  /\ mode \in [Sessions -> Modes]
  /\ table \subseteq Sessions
  /\ timers \subseteq Sessions
  /\ phase \in [Sessions -> Phase]
  /\ output \subseteq Sessions
  /\ known \in Links \cup {0} /\ link \in Links \cup {0}
  /\ links \in 0 .. MaxBreaks + 1
  /\ down \in Seq(Orders)
  /\ up \in Seq(Replies)
  /\ stage \in [Sessions -> Stage]
  /\ via \in [Sessions -> Links \cup {0}]
  /\ \A s \in Sessions : stage[s] # "none" => via[s] # 0
  /\ breaks \in 0 .. MaxBreaks

Init ==
  /\ ui = TRUE /\ current = 0 /\ awaiting = 0
  /\ born = 0 /\ mode = [s \in Sessions |-> "shell"]
  /\ table = {} /\ timers = {}
  /\ phase = [s \in Sessions |-> "none"] /\ output = {}
  /\ known = 0 /\ link = 0 /\ links = 0
  /\ down = <<>> /\ up = <<>>
  /\ stage = [s \in Sessions |-> "none"]
  /\ via = [s \in Sessions |-> 0]
  /\ breaks = 0

-----------------------------------------------------------------------------
(* What the server writes to a connection the agent has lost is lost, and   *)
(* what the agent writes to one that is not the server's.                   *)
Order(kind, s) ==
  down' = IF known # 0 /\ known = link
            THEN Append(down, [kind |-> kind, session |-> s]) ELSE down

ReplyOn(l, kind, s) ==
  up' = IF l = link /\ link = known
          THEN Append(up, [kind |-> kind, session |-> s]) ELSE up

Reply(kind, s) == ReplyOn(via[s], kind, s)

Over(ss) == phase' = [s \in Sessions |->
                        IF s \in ss /\ phase[s] \in {"connecting", "live"} THEN "over"
                                                                        ELSE phase[s]]

(* A connect message is refused while there is a session; its handler may   *)
(* have to await the saved credentials.                                     *)
ConnectAsked ==
  /\ ui /\ current = 0
  /\ born + awaiting < MaxSessions
  /\ awaiting' = awaiting + 1
  /\ UNCHANGED <<ui, current, server, shown, net, wires, agent>>

(* Without an agent's connection the user is told, and there is no session. *)
ConnectRefused ==
  /\ awaiting > 0 /\ known = 0
  /\ awaiting' = awaiting - 1
  /\ UNCHANGED <<ui, current, server, shown, net, wires, agent>>

\* Mutant: the request is sent without a timer.
RequestUntimed(s) ==
  /\ Order("open", s)
  /\ UNCHANGED timers

(* sendAgentConnectRequest *)
Request(s) ==
  /\ Order("open", s)
  /\ timers' = timers \cup {s}

(* Nothing is checked again after the credentials have come. *)
ConnectGoes ==
  /\ awaiting > 0 /\ known # 0
  /\ awaiting' = awaiting - 1
  /\ born' = born + 1
  /\ current' = born'
  /\ mode' \in {[mode EXCEPT ![born'] = m] : m \in Modes}
  /\ table' = table \cup {born'}
  /\ phase' = [phase EXCEPT ![born'] = IF ui THEN "connecting" ELSE @]
  /\ Request(born')
  /\ UNCHANGED <<ui, output, net, up, agent>>

\* Mutant: only the user is told that the time is over.
TimeoutTells(s) ==
  /\ s \in timers
  /\ timers' = timers \ {s}
  /\ Over({s})
  /\ UNCHANGED <<browser, born, mode, table, output, net, wires, agent>>

(* The agent has not answered within 30 seconds. *)
Timeout(s) ==
  /\ s \in timers
  /\ timers' = timers \ {s}
  /\ table' = table \ {s}
  /\ Over({s})
  /\ UNCHANGED <<browser, born, mode, output, net, wires, agent>>

(* A session that is in the table is closed at the agent and forgotten; its *)
(* timer stays.                                                             *)
Leave ==
  /\ IF current \in table
       THEN Order("close", current) /\ table' = table \ {current}
       ELSE UNCHANGED <<down, table>>
  /\ current' = 0
  /\ UNCHANGED <<awaiting, born, mode, timers, output, net, up, agent>>

Disconnect ==
  /\ ui /\ current # 0
  /\ Leave
  /\ Over({current})
  /\ UNCHANGED ui

BrowserCloses ==
  /\ ui /\ ui' = FALSE
  /\ Leave
  /\ Over(Sessions)

(* The socket fails: the table forgets the session, the agent hears nothing. *)
BrowserFails ==
  /\ ui /\ ui' = FALSE
  /\ table' = table \ {current}
  /\ current' = 0
  /\ Over(Sessions)
  /\ UNCHANGED <<awaiting, born, mode, timers, output, net, wires, agent>>

(* handleSshProxyMessage *)
Receive ==
  /\ up # <<>>
  /\ up' = Tail(up)
  /\ UNCHANGED <<browser, born, mode, net, down, agent>>

HeardUnknown ==
  /\ Receive
  /\ Head(up).session \notin table
  /\ UNCHANGED <<table, timers, shown>>

HeardTooLate ==
  /\ Receive /\ ~ui
  /\ Head(up).session \in table
  /\ table' = table \ {Head(up).session}
  /\ UNCHANGED <<timers, shown>>

Heard(kind, s) ==
  /\ Receive /\ ui
  /\ Head(up) = [kind |-> kind, session |-> s]
  /\ s \in table

HeardConnected(s) ==
  /\ Heard("connected", s)
  /\ timers' = timers \ {s}
  /\ phase' = [phase EXCEPT ![s] = "live"]
  /\ UNCHANGED <<table, output>>

HeardData(s) ==
  /\ Heard("data", s)
  /\ output' = output \cup {s}
  /\ UNCHANGED <<table, timers, phase>>

(* An error ends the session for the browser, but the table keeps it. *)
HeardError(s) ==
  /\ Heard("error", s)
  /\ timers' = timers \ {s}
  /\ Over({s})
  /\ UNCHANGED <<table, output>>

HeardClosed(s) ==
  /\ Heard("closed", s)
  /\ timers' = timers \ {s}
  /\ table' = table \ {s}
  /\ Over({s})
  /\ UNCHANGED output

-----------------------------------------------------------------------------
(* The agent's main loop takes a message.  It starts a goroutine for a      *)
(* session if it has a connection, and closes one that is open by then.     *)
Take(kind, s) ==
  /\ down # <<>>
  /\ Head(down) = [kind |-> kind, session |-> s]
  /\ down' = Tail(down)

\* Mutant: the goroutine starts without a connection, too.
TakeOpenAlways(s) ==
  /\ Take("open", s)
  /\ stage' = [stage EXCEPT ![s] = "opening"]
  /\ via' = [via EXCEPT ![s] = link]
  /\ UNCHANGED <<browser, server, shown, net, up>>

TakeOpen(s) ==
  /\ Take("open", s)
  /\ IF link # 0
       THEN /\ stage' = [stage EXCEPT ![s] = "opening"]
            /\ via' = [via EXCEPT ![s] = link]
       ELSE UNCHANGED agent
  /\ UNCHANGED <<browser, server, shown, net, up>>

(* A proxied connection is over at once; a shell is when the goroutine that  *)
(* reads its output has noticed.                                            *)
Stopped(s) ==
  stage' = [stage EXCEPT ![s] = IF mode[s] = "shell" THEN "dying" ELSE "ended"]

(* A proxied connection answers on the connection the agent has now, and    *)
(* stays if it has none.                                                    *)
CloseShell(s) == mode[s] = "shell" /\ Stopped(s) /\ UNCHANGED up

CloseProxy(s) ==
  /\ mode[s] = "proxy" /\ link # 0
  /\ Stopped(s)
  /\ ReplyOn(link, "closed", s)

NothingToClose(s) ==
  /\ stage[s] # "open" \/ (mode[s] = "proxy" /\ link = 0)
  /\ UNCHANGED <<stage, up>>

\* Mutant: shells are looked for among the proxied connections.
TakeCloseOfProxy(s) ==
  /\ Take("close", s)
  /\ \/ stage[s] = "open" /\ CloseProxy(s)
     \/ mode[s] = "shell" /\ UNCHANGED <<stage, up>>
     \/ NothingToClose(s)
  /\ UNCHANGED <<browser, server, shown, net, via>>

TakeClose(s) ==
  /\ Take("close", s)
  /\ \/ stage[s] = "open" /\ (CloseShell(s) \/ CloseProxy(s))
     \/ NothingToClose(s)
  /\ UNCHANGED <<browser, server, shown, net, via>>

(* The shell is spawned, or the SSH server answers; or else it fails. *)
Opened(s) ==
  /\ stage[s] = "opening"
  /\ stage' = [stage EXCEPT ![s] = "open"]
  /\ Reply("connected", s)
  /\ UNCHANGED <<browser, server, shown, net, down, via>>

OpenFails(s) ==
  /\ stage[s] = "opening"
  /\ stage' = [stage EXCEPT ![s] = "ended"]
  /\ Reply("error", s)
  /\ UNCHANGED <<browser, server, shown, net, down, via>>

(* Output of one session, once, for the bound. *)
Prints(s) ==
  /\ stage[s] = "open" /\ output = {}
  /\ \A i \in 1 .. Len(up) : up[i].kind # "data"
  /\ Reply("data", s)
  /\ UNCHANGED <<browser, server, shown, net, down, agent>>

(* The shell, or the SSH connection, ends by itself. *)
Exits(s) ==
  /\ stage[s] = "open"
  /\ Stopped(s)
  /\ IF mode[s] = "proxy" THEN Reply("closed", s) ELSE UNCHANGED up
  /\ UNCHANGED <<browser, server, shown, net, down, via>>

PumpEnds(s) ==
  /\ stage[s] = "dying"
  /\ stage' = [stage EXCEPT ![s] = "ended"]
  /\ Reply("closed", s)
  /\ UNCHANGED <<browser, server, shown, net, down, via>>

-----------------------------------------------------------------------------
LinkMade ==
  /\ link = 0
  /\ links < MaxBreaks + 1
  /\ links' = links + 1
  /\ link' = links' /\ known' = links'
  /\ UNCHANGED <<breaks, browser, server, shown, wires, agent>>

(* The server loses the socket first. *)
ServerLoses ==
  /\ known # 0
  /\ \/ known = link /\ breaks < MaxBreaks /\ breaks' = breaks + 1
     \/ known # link /\ UNCHANGED breaks
  /\ known' = 0
  /\ UNCHANGED <<link, links, browser, server, shown, wires, agent>>

Prefixes(wire) == {SubSeq(wire, 1, n) : n \in 0 .. Len(wire)}

(* The agent leaves the connection and closes the shells it has opened; the *)
(* messages it has read stay in its channel.                                *)
AgentLoses ==
  /\ link # 0
  /\ \/ known = link /\ breaks < MaxBreaks /\ breaks' = breaks + 1
     \/ known # link /\ UNCHANGED breaks
  /\ link' = 0
  /\ stage' = [s \in Sessions |->
                 IF stage[s] = "open" /\ mode[s] = "shell" THEN "dying" ELSE stage[s]]
  /\ down' \in Prefixes(down) /\ up' \in Prefixes(up)
  /\ UNCHANGED <<known, links, browser, server, shown, via>>

AgentRestart ==
  /\ breaks < MaxBreaks /\ breaks' = breaks + 1
  /\ link' = 0
  /\ stage' = [s \in Sessions |-> IF stage[s] = "none" THEN "none" ELSE "ended"]
  /\ down' = <<>> /\ up' \in Prefixes(up)
  /\ UNCHANGED <<known, links, browser, server, shown, via>>

ServerRestart ==
  /\ breaks < MaxBreaks /\ breaks' = breaks + 1
  /\ known' = 0
  /\ ui' = FALSE /\ current' = 0 /\ awaiting' = 0
  /\ table' = {} /\ timers' = {}
  /\ Over(Sessions)
  /\ up' = <<>>
  /\ UNCHANGED <<link, links, born, mode, output, down, agent>>

-----------------------------------------------------------------------------
UserStep == ConnectAsked \/ Disconnect \/ BrowserCloses \/ BrowserFails

HeardStep ==
  \/ HeardUnknown \/ HeardTooLate
  \/ \E s \in Sessions : \/ HeardConnected(s) \/ HeardData(s)
                         \/ HeardError(s) \/ HeardClosed(s)

TakeStep == \E s \in Sessions : TakeOpen(s) \/ TakeClose(s)

Next ==
  \/ UserStep \/ ConnectRefused \/ ConnectGoes \/ HeardStep \/ TakeStep
  \/ \E s \in Sessions : Timeout(s) \/ Opened(s) \/ OpenFails(s) \/ Prints(s)
                           \/ Exits(s) \/ PumpEnds(s)
  \/ LinkMade \/ ServerLoses \/ AgentLoses \/ AgentRestart \/ ServerRestart

Spec == Init /\ [][Next]_vars

(* Timers fire, the agent's main loop takes its messages, and a goroutine   *)
(* that reads a closed shell notices.  Nothing is assumed of users, of what *)
(* a shell does, or of the network.                                         *)
Fairness ==
  /\ \A s \in Sessions : WF_vars(Timeout(s)) /\ WF_vars(PumpEnds(s))
  /\ WF_vars(TakeStep)

FairSpec == Spec /\ Fairness

-----------------------------------------------------------------------------
(* The browser's view is that of the contract: an answer that comes after a *)
(* timeout or a disconnect does not bring the session back to life.         *)
Contract == INSTANCE TerminalContract
ImplementsContract == Contract!Spec

(* The user is never left at "Connecting...": whatever becomes of the agent  *)
(* and the messages, a session comes alive or is over (sendAgentConnectRequest). *)
EveryConnectAnswered ==
  \A s \in Sessions : phase[s] = "connecting" ~> phase[s] # "connecting"

OrderedToClose(s) == \E i \in 1 .. Len(down) : down[i] = [kind |-> "close", session |-> s]

(* A shell that is open when the order to close it is on its way is gone    *)
(* later, though the connection breaks before the order arrives.            *)
ClosedShellGoes ==
  \A s \in Sessions :
    (mode[s] = "shell" /\ stage[s] = "open" /\ OrderedToClose(s)) ~> stage[s] = "ended"

(* A shell the agent has open writes to the connection it has: the comment   *)
(* on closeAllShellSessions says no PTY survives the connection.             *)
NoOrphanedPty ==
  \A s \in Sessions : mode[s] = "shell" /\ stage[s] = "open" => via[s] = link

(* A browser has one session at a time: a second connect is refused with     *)
(* "Already connected".                                                      *)
OneSessionPerBrowser ==
  \A s, t \in Sessions : phase[s] = "live" /\ phase[t] = "live" => s = t

(* The safety core of EveryConnectAnswered: whoever is left at               *)
(* "Connecting..." has a timer running that will tell them otherwise.       *)
ConnectingIsTimed == \A s \in Sessions : phase[s] = "connecting" => s \in timers

(* The safety core of ClosedShellGoes: an order to close a shell that is     *)
(* open stays in the agent's channel until the shell is being closed, and   *)
(* is lost with a connection only if the shell is closed for that; and a    *)
(* shell that is being closed is never opened again.                        *)
CloseIsKept ==
  [][\A s \in Sessions : mode[s] = "shell" =>
       /\ stage[s] = "open" /\ OrderedToClose(s) =>
            \/ mode'[s] = "shell" /\ stage'[s] = "open" /\ OrderedToClose(s)'
            \/ stage'[s] \in {"dying", "ended"}
       /\ stage[s] = "dying" => stage'[s] \in {"dying", "ended"}]_vars

=============================================================================
