---------------------------- MODULE PatchWindows ----------------------------
(***************************************************************************)
(* Maintenance windows: the rows of patch_windows, the scheduler of         *)
(* server.js that turns a window that is due into a patch job once a        *)
(* minute, and the administrator's requests that edit windows meanwhile.    *)
(*                                                                          *)
(* Time is counted in minutes, the unit of the cron expressions: a          *)
(* next_run_at is always the beginning of a minute, so it is due from the   *)
(* minute it names on.  A cron expression is the set of minutes it matches. *)
(* Every awaited query is a step, and edits, the clock and failures come in *)
(* between; what a job then does is the business of PatchJobs.              *)
(***************************************************************************)
EXTENDS Naturals, FiniteSets

CONSTANTS
  Windows,
  Crons,        \* cron expressions
  Matches,      \* the minutes a cron expression matches
  Horizon,      \* how many minutes ahead computeNextRun looks
  Editors,      \* slots for administrators' requests running at the same time
  MaxTime,      \* bound on the clock
  MaxEdits,     \* bound on edits of windows
  MaxFailures   \* bound on crashes and failed queries

ASSUME MatchesAssumption == Matches \in [Crons -> SUBSET Nat]
ASSUME HorizonAssumption == Horizon \in Nat
ASSUME NoCronAssumption  == "none" \notin Crons

Types == {"recurring", "once"}

(***************************************************************************)
(* A nullable column, and a row that may not exist, is a set with at most   *)
(* one element.                                                             *)
(***************************************************************************)
AtMostOne(S) == \A x, y \in S : x = y

Window ==
  {row \in [enabled : BOOLEAN, type : Types, cron : Crons \cup {"none"}, next : SUBSET Nat] :
     AtMostOne(row.next)}

Scheduler ==
  [at : {"idle", "filter", "create", "stale", "refresh"}]
    \cup [at : {"advance"}, window : Windows]

Update == [kind : {"create", "update", "switch"}, window : Windows, row : Window]

VARIABLES
  clock,
  windows,    \* patch_windows; a window's row is {} when there is none
  born,       \* identifiers that were given to a window
  edit,       \* what administrators' requests are about to write
  tick,       \* where the scheduler's tick is
  seen,       \* the rows as the tick read them
  now,        \* the time the tick compared them with
  todo,       \* windows the tick has yet to deal with
  started,    \* history: occurrences of a window a job was created for, since
              \*   its last edit
  repeats,    \* history: how many more jobs than occurrences that were
  edits,      \* edits so far
  failures    \* crashes and failed queries so far

table   == <<windows, born>>
history == <<started, repeats>>
vars    == <<clock, table, edit, tick, seen, now, todo, history, edits, failures>>

TypeOK ==
  /\ clock \in Nat
  /\ windows \in [Windows -> SUBSET Window]
  /\ \A w \in Windows : AtMostOne(windows[w]) /\ AtMostOne(seen[w])
  /\ \A e \in Editors : AtMostOne(edit[e])
  /\ born \subseteq Windows
  /\ edit \in [Editors -> SUBSET Update]
  /\ tick \in Scheduler
  /\ seen \in [Windows -> SUBSET Window]
  /\ now \in Nat
  /\ todo \subseteq Windows
  /\ started \in [Windows -> SUBSET Nat]
  /\ repeats \in [Windows -> Nat]
  /\ edits \in Nat
  /\ failures \in Nat

Idle == [at |-> "idle"]

Init ==
  /\ clock = 0
  /\ windows = [w \in Windows |-> {}]
  /\ born = {}
  /\ edit = [e \in Editors |-> {}]
  /\ tick = Idle
  /\ seen = [w \in Windows |-> {}]
  /\ now = 0
  /\ todo = {}
  /\ started = [w \in Windows |-> {}]
  /\ repeats = [w \in Windows |-> 0]
  /\ edits = 0
  /\ failures = 0

(* The row with "enabled" and next_run_at written, the rest left alone.     *)
With(row, enabled, next) ==
  [enabled |-> enabled, type |-> row.type, cron |-> row.cron, next |-> next]

Due(row, time) == \E m \in row.next : m <= time

-----------------------------------------------------------------------------
(***************************************************************************)
(* computeNextRun: the first matching minute after the current one.         *)
(***************************************************************************)
\* Mutant: the search begins with the current minute.
NextRunFromNow(cron, time) ==
  IF cron = "none" THEN {}
  ELSE {m \in Matches[cron] : /\ time <= m
                              /\ m <= time + Horizon
                              /\ \A k \in Matches[cron] : time <= k => m <= k}

\* Mutant: the search does not stop at the first match.
EveryRun(cron, time) ==
  IF cron = "none" THEN {}
  ELSE {m \in Matches[cron] : time < m /\ m <= time + Horizon}

NextRun(cron, time) ==
  IF cron = "none" THEN {}
  ELSE {m \in Matches[cron] : /\ time < m
                              /\ m <= time + Horizon
                              /\ \A k \in Matches[cron] : time < k => m <= k}

-----------------------------------------------------------------------------
(***************************************************************************)
(* Administration.  A request reads the row, computes next_run_at, and      *)
(* later writes: all the fields of the form, or, when only "enabled" is     *)
(* sent, that field and next_run_at.                                        *)
(***************************************************************************)
EditBegin(e, update) ==
  /\ edits < MaxEdits
  /\ edit[e] = {}
  /\ edit' = [edit EXCEPT ![e] = {update}]
  /\ born' = born \cup {update.window}
  /\ edits' = edits + 1
  /\ UNCHANGED <<clock, windows, tick, seen, now, todo, history, failures>>

ScheduleOf(type) == IF type = "recurring" THEN Crons ELSE Crons \cup {"none"}

CreateWindow(e, w) ==
  /\ w \notin born
  /\ \E type \in Types : \E cron \in ScheduleOf(type) :
       EditBegin(e, [kind |-> "create", window |-> w,
                     row |-> [enabled |-> TRUE, type |-> type, cron |-> cron,
                              next |-> NextRun(cron, clock)]])

UpdateWindow(e, w) ==
  /\ windows[w] # {}
  /\ \E on \in BOOLEAN, type \in Types, cron \in Crons :
       EditBegin(e, [kind |-> "update", window |-> w,
                     row |-> [enabled |-> on, type |-> type, cron |-> cron,
                              next |-> NextRun(cron, clock)]])

SwitchWindow(e, w) ==
  \E row \in windows[w] :
    EditBegin(e, [kind |-> "switch", window |-> w,
                  row |-> With(row, ~row.enabled, NextRun(row.cron, clock))])

Written(update) ==
  CASE update.kind = "create" -> {update.row}
    [] update.kind = "update" -> {update.row : old \in windows[update.window]}
    [] update.kind = "switch" -> {With(old, update.row.enabled, update.row.next)
                                    : old \in windows[update.window]}

EditCommit(e) ==
  /\ \E update \in edit[e] :
       /\ windows' = [windows EXCEPT ![update.window] = Written(update)]
       /\ started' = [started EXCEPT ![update.window] = {}]
       /\ repeats' = [repeats EXCEPT ![update.window] = 0]
  /\ edit' = [edit EXCEPT ![e] = {}]
  /\ UNCHANGED <<clock, born, tick, seen, now, todo, edits, failures>>

DeleteWindow(w) ==
  /\ edits < MaxEdits
  /\ windows[w] # {}
  /\ windows' = [windows EXCEPT ![w] = {}]
  /\ edits' = edits + 1
  /\ UNCHANGED <<clock, born, edit, tick, seen, now, todo, history, failures>>

-----------------------------------------------------------------------------
(***************************************************************************)
(* A tick.  It reads the enabled windows, takes the time, and deals with    *)
(* those that are due one after the other: it has a job created, which may  *)
(* fail, and then moves next_run_at on, as it read the window.              *)
(***************************************************************************)
TickBegin ==
  /\ tick = Idle
  /\ tick' = [at |-> "filter"]
  /\ seen' = [w \in Windows |-> {row \in windows[w] : row.enabled}]
  /\ UNCHANGED <<clock, table, edit, now, todo, history, edits, failures>>

TickFilter ==
  /\ tick.at = "filter"
  /\ now' = clock
  /\ todo' = {w \in Windows : \E row \in seen[w] : Due(row, clock)}
  /\ tick' = [at |-> "create"]
  /\ UNCHANGED <<clock, table, edit, seen, history, edits, failures>>

(***************************************************************************)
(* createPatchJob succeeds.  The row the job refers to must still exist.    *)
(* An occurrence counts as run when the row is still as the tick read it.   *)
(***************************************************************************)
StartJob(w) ==
  /\ tick.at = "create"
  /\ w \in todo
  /\ windows[w] # {}
  /\ tick' = [at |-> "advance", window |-> w]
  /\ IF windows[w] = seen[w]
       THEN /\ started' = [started EXCEPT ![w] = @ \cup UNION {row.next : row \in seen[w]}]
            /\ repeats' = IF \E row \in seen[w] : row.next \cap started[w] # {}
                            THEN [repeats EXCEPT ![w] = @ + 1] ELSE repeats
       ELSE UNCHANGED history
  /\ UNCHANGED <<clock, table, edit, seen, now, todo, edits, failures>>

\* Mutant: only a window whose job was created is moved on.
NoJobNoAdvance(w) ==
  /\ tick.at = "create"
  /\ w \in todo
  /\ todo' = todo \ {w}
  /\ UNCHANGED <<clock, table, edit, tick, seen, now, history, edits, failures>>

NoJob(w) ==
  /\ tick.at = "create"
  /\ w \in todo
  /\ tick' = [at |-> "advance", window |-> w]
  /\ UNCHANGED <<clock, table, edit, seen, now, todo, history, edits, failures>>

\* Mutant: a one-time window is moved on like a recurring one.
AdvancedByCron(row) == NextRun(row.cron, clock)

Advanced(row) == IF row.type = "recurring" THEN NextRun(row.cron, clock) ELSE {}

Advance ==
  /\ tick.at = "advance"
  /\ \E row \in seen[tick.window] :
       windows' = [windows EXCEPT ![tick.window] =
                     {With(old, Advanced(row) # {} \/ row.type # "once", Advanced(row)) : old \in @}]
  /\ todo' = todo \ {tick.window}
  /\ tick' = [at |-> "create"]
  /\ UNCHANGED <<clock, born, edit, seen, now, history, edits, failures>>

AdvanceFails ==
  /\ tick.at = "advance"
  /\ failures < MaxFailures
  /\ failures' = failures + 1
  /\ todo' = todo \ {tick.window}
  /\ tick' = [at |-> "create"]
  /\ UNCHANGED <<clock, table, edit, seen, now, history, edits>>

AllStarted ==
  /\ tick.at = "create"
  /\ todo = {}
  /\ tick' = [at |-> "stale"]
  /\ UNCHANGED <<clock, table, edit, seen, now, todo, history, edits, failures>>

(***************************************************************************)
(* refreshWindowSchedules, the last thing a tick does: enabled recurring    *)
(* windows with no next_run_at, or one that is not in the future, get one.  *)
(***************************************************************************)
\* Mutant: a window that has no next_run_at is not looked at.
StaleWindowsWithNext ==
  [w \in Windows |->
    {row \in windows[w] : row.enabled /\ row.type = "recurring" /\ Due(row, clock)}]

StaleWindows ==
  [w \in Windows |->
    {row \in windows[w] :
       row.enabled /\ row.type = "recurring" /\ (row.next = {} \/ Due(row, clock))}]

RefreshBegin ==
  /\ tick.at = "stale"
  /\ seen' = StaleWindows
  /\ todo' = {w \in Windows : StaleWindows[w] # {}}
  /\ tick' = [at |-> "refresh"]
  /\ UNCHANGED <<clock, table, edit, now, history, edits, failures>>

(* The update of a row that is gone throws, which ends the tick. *)
RefreshWindow(w) ==
  /\ tick.at = "refresh"
  /\ w \in todo
  /\ \E row \in seen[w] :
       LET next == NextRun(row.cron, clock)
           gone == next # {} /\ windows[w] = {}
       IN  /\ windows' = IF next = {} THEN windows
                         ELSE [windows EXCEPT ![w] = {With(old, old.enabled, next) : old \in @}]
           /\ todo' = IF gone THEN {} ELSE todo \ {w}
           /\ tick' = IF gone THEN Idle ELSE tick
  /\ UNCHANGED <<clock, born, edit, seen, now, history, edits, failures>>

TickEnd ==
  /\ tick.at = "refresh"
  /\ todo = {}
  /\ tick' = Idle
  /\ UNCHANGED <<clock, table, edit, seen, now, todo, history, edits, failures>>

(***************************************************************************)
(* A query of the tick fails, or the server restarts.                       *)
(***************************************************************************)
TickFails ==
  /\ tick # Idle
  /\ failures < MaxFailures
  /\ failures' = failures + 1
  /\ tick' = Idle
  /\ todo' = {}
  /\ UNCHANGED <<clock, table, edit, seen, now, history, edits>>

ServerCrash ==
  /\ failures < MaxFailures
  /\ failures' = failures + 1
  /\ tick' = Idle
  /\ todo' = {}
  /\ edit' = [e \in Editors |-> {}]
  /\ UNCHANGED <<clock, table, seen, now, history, edits>>

MinutePasses ==
  /\ clock < MaxTime
  /\ clock' = clock + 1
  /\ UNCHANGED <<table, edit, tick, seen, now, todo, history, edits, failures>>

-----------------------------------------------------------------------------
EditStep ==
  \/ \E e \in Editors, w \in Windows :
       CreateWindow(e, w) \/ UpdateWindow(e, w) \/ SwitchWindow(e, w)
  \/ \E e \in Editors : EditCommit(e)
  \/ \E w \in Windows : DeleteWindow(w)

TickStep ==
  \/ TickBegin
  \/ TickFilter
  \/ \E w \in Windows : StartJob(w) \/ NoJob(w)
  \/ Advance
  \/ AllStarted
  \/ RefreshBegin
  \/ \E w \in Windows : RefreshWindow(w)
  \/ TickEnd

Next ==
  \/ EditStep
  \/ TickStep
  \/ AdvanceFails
  \/ TickFails
  \/ ServerCrash
  \/ MinutePasses

Spec == Init /\ [][Next]_vars

(***************************************************************************)
(* The interval brings the next tick and the event loop runs it to its end. *)
(***************************************************************************)
FairSpec == Spec /\ WF_vars(TickStep)
-----------------------------------------------------------------------------
(***************************************************************************)
(* Properties.                                                              *)
(***************************************************************************)

(* An occurrence of a window is run once.  The job is created before        *)
(* next_run_at is moved on, so a crash or a failed update between the two   *)
(* may run it again, but never more often than something failed.            *)
RepeatsNeedFailures == \A w \in Windows : repeats[w] <= failures

(* A one-time window never runs a second occurrence, until it is edited.    *)
OnceIsOnce ==
  \A w \in Windows : \A row \in windows[w] :
    row.type = "once" => \A m, n \in started[w] : m = n

(* "Leaving it in the past causes an infinite retry loop that blocks the    *)
(* window permanently": a window that is due does not stay so.              *)
DueMovesOn ==
  \A w \in Windows :
    (\E row \in windows[w] : row.enabled /\ Due(row, clock))
      ~> ~(\E row \in windows[w] : row.enabled /\ Due(row, clock))

(* A window the refresh should give a next_run_at.                          *)
Unscheduled(w) ==
  \E row \in windows[w] :
    row.enabled /\ row.type = "recurring" /\ row.next = {} /\ NextRun(row.cron, clock) # {}

(* An enabled recurring window without next_run_at - its next occurrence    *)
(* was too far away for computeNextRun - gets one when it comes in reach.   *)
MissingIsScheduled == \A w \in Windows : Unscheduled(w) ~> ~Unscheduled(w)

(* "We never accidentally leap-frog an imminent occurrence that the         *)
(* due-window query hasn't processed yet": the refresh moves next_run_at    *)
(* only when the tick's own query had found it due.                         *)
NoLeapFrog ==
  [][tick.at = "refresh" /\ edit' = edit =>
       \A w \in Windows : \A old \in windows[w], new \in windows'[w] :
         old.next # new.next => \A m \in old.next : m <= now]_vars
-----------------------------------------------------------------------------
(***************************************************************************)
(* The inductive invariant behind RepeatsNeedFailures.  A window may be run *)
(* again for an occurrence only while its next_run_at still names it and no *)
(* tick is about to move it on, and that state of affairs takes a failure   *)
(* no repetition has used up yet.                                           *)
(***************************************************************************)
Repeatable(w) ==
  /\ \E row \in windows[w] : row.next \cap started[w] # {}
  /\ tick # [at |-> "advance", window |-> w]

StartedIsPast == \A w \in Windows : \A m \in started[w] : m <= clock

TodoIsDue ==
  /\ now <= clock
  /\ tick.at \in {"create", "advance"} =>
       \A w \in todo : \A row \in seen[w] : \A m \in row.next : m <= now

AdvancesTodo == tick.at = "advance" => tick.window \in todo

RepeatableNeedsFailure == \A w \in Windows : Repeatable(w) => repeats[w] < failures

RepeatInv ==
  /\ TypeOK
  /\ StartedIsPast
  /\ TodoIsDue
  /\ RepeatableNeedsFailure
  /\ RepeatsNeedFailures

(***************************************************************************)
(* The inductive invariant behind OnceIsOnce.  What may still write the     *)
(* next_run_at of a one-time window that ran is a tick that read it as      *)
(* one-time; a tick that read it as recurring did so before the edit, and   *)
(* then it has not run since.                                               *)
(***************************************************************************)
Once(rows) == \E row \in rows : row.type = "once"

OnceIsSpent ==
  \A w \in Windows : Once(windows[w]) /\ started[w] # {} =>
    /\ AtMostOne(started[w])
    /\ \A row \in windows[w] : row.next \subseteq started[w]

StaleIsUnrun ==
  \A w \in Windows :
    /\ Once(windows[w])
    /\ \E row \in seen[w] : row.type = "recurring"
    /\ tick.at = "filter" \/ (tick.at \in {"create", "advance", "refresh"} /\ w \in todo)
    => started[w] = {}

RefreshesRecurring ==
  tick.at = "refresh" => \A w \in todo : \A row \in seen[w] : row.type = "recurring"

OnceInv ==
  /\ TypeOK
  /\ AdvancesTodo
  /\ RefreshesRecurring
  /\ OnceIsSpent
  /\ StaleIsUnrun
  /\ OnceIsOnce
=============================================================================
