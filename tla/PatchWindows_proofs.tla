------------------------ MODULE PatchWindows_proofs ------------------------
(***************************************************************************)
(* Proofs about PatchWindows, for any windows and schedules, any number of  *)
(* requests at the same time, and any number of edits and failures.         *)
(***************************************************************************)
EXTENDS PatchWindows, TLAPS

(* computeNextRun returns at most one minute, and only a later one: that is *)
(* what keeps a window from being due again for the minute it just ran in.  *)
LEMMA NextRunIsLater ==
  ASSUME NEW cron \in Crons \cup {"none"}, NEW time \in Nat
  PROVE  /\ NextRun(cron, time) \subseteq Nat
         /\ AtMostOne(NextRun(cron, time))
         /\ \A m \in NextRun(cron, time) : time < m
<1>1. CASE cron = "none"
  BY <1>1 DEF NextRun, AtMostOne
<1>2. CASE cron # "none"
  <2>1. Matches[cron] \subseteq Nat
    BY <1>2, MatchesAssumption
  <2>2. NextRun(cron, time) \subseteq Matches[cron] /\ \A m \in NextRun(cron, time) :
          time < m /\ \A k \in Matches[cron] : time < k => m <= k
    BY <1>2 DEF NextRun
  <2>3. ASSUME NEW m \in NextRun(cron, time), NEW k \in NextRun(cron, time) PROVE m = k
    <3>1. m \in Nat /\ k \in Nat
      BY <2>1, <2>2
    <3>2. m <= k /\ k <= m
      BY <2>2
    <3>3. QED
      BY <3>1, <3>2
  <2>4. QED
    BY <2>1, <2>2, <2>3 DEF AtMostOne
<1>3. QED
  BY <1>1, <1>2

(* What a row may be.                                                       *)
LEMMA WindowShape ==
  ASSUME NEW row
  PROVE  row \in Window <=>
           /\ row \in [enabled : BOOLEAN, type : Types, cron : Crons \cup {"none"}, next : SUBSET Nat]
           /\ AtMostOne(row.next)
BY DEF Window

(* Writing "enabled" and next_run_at keeps a row a row.                     *)
LEMMA WithType ==
  ASSUME NEW row \in Window, NEW on \in BOOLEAN, NEW next \in SUBSET Nat, AtMostOne(next)
  PROVE  With(row, on, next) \in Window
BY WindowShape DEF With

(* A request takes hold of a slot with what it is going to write.           *)
LEMMA EditBeginType ==
  ASSUME TypeOK, NEW e \in Editors, NEW update \in Update, EditBegin(e, update)
  PROVE  TypeOK'
<1>1. edit' \in [Editors -> SUBSET Update] /\ \A d \in Editors : AtMostOne(edit'[d])
  BY DEF EditBegin, TypeOK, AtMostOne
<1>2. born' \subseteq Windows /\ edits' \in Nat
  BY DEF EditBegin, TypeOK, Update
<1>3. QED
  BY <1>1, <1>2 DEF EditBegin, TypeOK, table, history

(* What an update makes of the rows of its window.                          *)
LEMMA WrittenType ==
  ASSUME TypeOK, NEW update \in Update
  PROVE  Written(update) \subseteq Window /\ AtMostOne(Written(update))
<1>1. update.window \in Windows /\ update.row \in Window
      /\ update.kind \in {"create", "update", "switch"}
  BY DEF Update
<1>2. windows[update.window] \subseteq Window /\ AtMostOne(windows[update.window])
  BY <1>1 DEF TypeOK
<1>3. CASE update.kind = "create"
  BY <1>1, <1>3 DEF Written, AtMostOne
<1>4. CASE update.kind = "update"
  BY <1>1, <1>4 DEF Written, AtMostOne
<1>5. CASE update.kind = "switch"
  <2>1. update.row.enabled \in BOOLEAN /\ update.row.next \in SUBSET Nat /\ AtMostOne(update.row.next)
    BY <1>1, WindowShape
  <2>2. Written(update) = {With(old, update.row.enabled, update.row.next) : old \in windows[update.window]}
    BY <1>5 DEF Written
  <2>3. \A old \in windows[update.window] :
          With(old, update.row.enabled, update.row.next) \in Window
    BY <1>2, <2>1, WithType
  <2>4. Written(update) \subseteq Window
    BY <2>2, <2>3
  <2>5. AtMostOne(Written(update))
    BY <1>2, <2>2 DEF AtMostOne
  <2>6. QED
    BY <2>4, <2>5
<1>6. QED
  BY <1>1, <1>3, <1>4, <1>5

(***************************************************************************)
(* Type correctness.                                                        *)
(***************************************************************************)
(* The empty tables have their types.                                       *)
LEMMA TypeInit == Init => TypeOK
BY DEF Init, TypeOK, AtMostOne, Idle, Scheduler

(* Every step of an editor, of the tick, and every failure keeps the types. *)
LEMMA TypeNext == TypeOK /\ [Next]_vars => TypeOK'
<1> SUFFICES ASSUME TypeOK, [Next]_vars PROVE TypeOK'
  OBVIOUS
<1>1. ASSUME NEW e \in Editors, NEW w \in Windows, CreateWindow(e, w) PROVE TypeOK'
  <2>1. PICK type \in Types : \E cron \in ScheduleOf(type) :
          EditBegin(e, [kind |-> "create", window |-> w,
                        row |-> [enabled |-> TRUE, type |-> type, cron |-> cron,
                                 next |-> NextRun(cron, clock)]])
    BY <1>1 DEF CreateWindow
  <2>. PICK cron \in ScheduleOf(type) :
          EditBegin(e, [kind |-> "create", window |-> w,
                        row |-> [enabled |-> TRUE, type |-> type, cron |-> cron,
                                 next |-> NextRun(cron, clock)]])
    BY <2>1
  <2>2. cron \in Crons \cup {"none"} /\ clock \in Nat
    BY DEF ScheduleOf, TypeOK
  <2>3. [enabled |-> TRUE, type |-> type, cron |-> cron, next |-> NextRun(cron, clock)] \in Window
    BY <2>2, NextRunIsLater, WindowShape
  <2>4. QED
    BY <2>3, EditBeginType DEF Update
<1>2. ASSUME NEW e \in Editors, NEW w \in Windows, UpdateWindow(e, w) PROVE TypeOK'
  <2>1. PICK on \in BOOLEAN, type \in Types, cron \in Crons :
          EditBegin(e, [kind |-> "update", window |-> w,
                        row |-> [enabled |-> on, type |-> type, cron |-> cron,
                                 next |-> NextRun(cron, clock)]])
    BY <1>2 DEF UpdateWindow
  <2>2. clock \in Nat
    BY DEF TypeOK
  <2>3. [enabled |-> on, type |-> type, cron |-> cron, next |-> NextRun(cron, clock)] \in Window
    BY <2>2, NextRunIsLater, WindowShape
  <2>4. QED
    BY <2>1, <2>3, EditBeginType DEF Update
<1>3. ASSUME NEW e \in Editors, NEW w \in Windows, SwitchWindow(e, w) PROVE TypeOK'
  <2>1. PICK row \in windows[w] :
          EditBegin(e, [kind |-> "switch", window |-> w,
                        row |-> With(row, ~row.enabled, NextRun(row.cron, clock))])
    BY <1>3 DEF SwitchWindow
  <2>2. row \in Window /\ clock \in Nat
    BY DEF TypeOK
  <2>3. row.cron \in Crons \cup {"none"} /\ row.enabled \in BOOLEAN
    BY <2>2, WindowShape
  <2>4. With(row, ~row.enabled, NextRun(row.cron, clock)) \in Window
    BY <2>2, <2>3, NextRunIsLater, WithType
  <2>5. QED
    BY <2>1, <2>4, EditBeginType DEF Update
<1>4. ASSUME NEW e \in Editors, EditCommit(e) PROVE TypeOK'
  <2>1. PICK update \in edit[e] :
          /\ windows' = [windows EXCEPT ![update.window] = Written(update)]
          /\ started' = [started EXCEPT ![update.window] = {}]
          /\ repeats' = [repeats EXCEPT ![update.window] = 0]
    BY <1>4 DEF EditCommit
  <2>2. update \in Update /\ update.window \in Windows
    BY DEF TypeOK, Update
  <2>3. Written(update) \subseteq Window /\ AtMostOne(Written(update))
    BY <2>2, WrittenType
  <2>4. windows' \in [Windows -> SUBSET Window] /\ \A w \in Windows : AtMostOne(windows'[w])
    BY <2>1, <2>2, <2>3 DEF TypeOK
  <2>5. started' \in [Windows -> SUBSET Nat] /\ repeats' \in [Windows -> Nat]
    BY <2>1, <2>2 DEF TypeOK
  <2>6. edit' \in [Editors -> SUBSET Update] /\ \A d \in Editors : AtMostOne(edit'[d])
    BY <1>4 DEF EditCommit, TypeOK, AtMostOne
  <2>7. QED
    BY <1>4, <2>4, <2>5, <2>6 DEF EditCommit, TypeOK
<1>5. ASSUME NEW w \in Windows, DeleteWindow(w) PROVE TypeOK'
  BY <1>5 DEF DeleteWindow, TypeOK, AtMostOne, history
<1>6. CASE TickBegin
  <2>1. seen' \in [Windows -> SUBSET Window] /\ \A w \in Windows : AtMostOne(seen'[w])
    BY <1>6 DEF TickBegin, TypeOK, AtMostOne
  <2>2. QED
    BY <1>6, <2>1 DEF TickBegin, TypeOK, Scheduler, table, history
<1>7. CASE TickFilter
  BY <1>7 DEF TickFilter, TypeOK, Scheduler, table, history
<1>8. ASSUME NEW w \in Windows, StartJob(w) PROVE TypeOK'
  <2>1. UNION {row.next : row \in seen[w]} \subseteq Nat
    BY WindowShape DEF TypeOK
  <2>2. started' \in [Windows -> SUBSET Nat]
    BY <1>8, <2>1 DEF StartJob, TypeOK, history
  <2>3. repeats' \in [Windows -> Nat]
    BY <1>8 DEF StartJob, TypeOK, history
  <2>4. QED
    BY <1>8, <2>2, <2>3 DEF StartJob, TypeOK, Scheduler, table
<1>9. ASSUME NEW w \in Windows, NoJob(w) PROVE TypeOK'
  BY <1>9 DEF NoJob, TypeOK, Scheduler, table, history
<1>10. CASE Advance
  <2>1. tick.window \in Windows
    BY <1>10 DEF Advance, TypeOK, Scheduler
  <2>2. PICK row \in seen[tick.window] :
          windows' = [windows EXCEPT ![tick.window] =
                        {With(old, Advanced(row) # {} \/ row.type # "once", Advanced(row)) : old \in windows[tick.window]}]
    BY <1>10, <2>1 DEF Advance, TypeOK
  <2>3. row \in Window /\ clock \in Nat
    BY <2>1 DEF TypeOK
  <2>4. Advanced(row) \in SUBSET Nat /\ AtMostOne(Advanced(row))
    BY <2>3, WindowShape, NextRunIsLater DEF Advanced, AtMostOne
  <2> DEFINE on == Advanced(row) # {} \/ row.type # "once"
             Moved == {With(old, on, Advanced(row)) : old \in windows[tick.window]}
  <2>5. on \in BOOLEAN
    OBVIOUS
  <2> HIDE DEF on
  <2>6. Moved \subseteq Window /\ AtMostOne(Moved)
    <3>1. \A old \in Window : With(old, on, Advanced(row)) \in Window
      BY <2>4, <2>5, WithType
    <3>2. windows[tick.window] \subseteq Window /\ AtMostOne(windows[tick.window])
      BY <2>1 DEF TypeOK
    <3>3. QED
      BY <3>1, <3>2 DEF AtMostOne
  <2>7. windows' = [windows EXCEPT ![tick.window] = Moved]
    BY <2>2 DEF on
  <2> HIDE DEF Moved
  <2>8. windows' \in [Windows -> SUBSET Window] /\ \A w \in Windows : AtMostOne(windows'[w])
    BY <2>1, <2>6, <2>7 DEF TypeOK
  <2>9. QED
    BY <1>10, <2>8 DEF Advance, TypeOK, Scheduler, history
<1>11. CASE AdvanceFails
  BY <1>11 DEF AdvanceFails, TypeOK, Scheduler, table, history
<1>12. CASE AllStarted
  BY <1>12 DEF AllStarted, TypeOK, Scheduler, table, history
<1>13. CASE RefreshBegin
  <2>1. seen' \in [Windows -> SUBSET Window] /\ \A w \in Windows : AtMostOne(seen'[w])
    BY <1>13 DEF RefreshBegin, StaleWindows, TypeOK, AtMostOne
  <2>2. QED
    BY <1>13, <2>1 DEF RefreshBegin, TypeOK, Scheduler, table, history
<1>14. ASSUME NEW w \in Windows, RefreshWindow(w) PROVE TypeOK'
  <2>1. PICK row \in seen[w] :
          LET next == NextRun(row.cron, clock)
              gone == next # {} /\ windows[w] = {}
          IN  /\ windows' = IF next = {} THEN windows
                            ELSE [windows EXCEPT ![w] = {With(old, old.enabled, next) : old \in windows[w]}]
              /\ todo' = IF gone THEN {} ELSE todo \ {w}
              /\ tick' = IF gone THEN Idle ELSE tick
    BY <1>14 DEF RefreshWindow, TypeOK
  <2> DEFINE next  == NextRun(row.cron, clock)
             Moved == {With(old, old.enabled, next) : old \in windows[w]}
  <2>2. row \in Window /\ clock \in Nat
    BY DEF TypeOK
  <2>3. next \in SUBSET Nat /\ AtMostOne(next)
    BY <2>2, WindowShape, NextRunIsLater
  <2>4. windows' = windows \/ windows' = [windows EXCEPT ![w] = Moved]
    BY <2>1
  <2> HIDE DEF next
  <2>5. Moved \subseteq Window /\ AtMostOne(Moved)
    <3>1. \A old \in Window : With(old, old.enabled, next) \in Window
      BY <2>3, WithType, WindowShape
    <3>2. windows[w] \subseteq Window /\ AtMostOne(windows[w])
      BY DEF TypeOK
    <3>3. QED
      BY <3>1, <3>2 DEF AtMostOne
  <2> HIDE DEF Moved
  <2>6. windows' \in [Windows -> SUBSET Window] /\ \A v \in Windows : AtMostOne(windows'[v])
    BY <2>4, <2>5 DEF TypeOK
  <2>7. todo' \subseteq Windows /\ tick' \in Scheduler
    BY <2>1 DEF TypeOK, Idle, Scheduler
  <2>8. QED
    BY <1>14, <2>6, <2>7 DEF RefreshWindow, TypeOK, history
<1>15. CASE TickEnd
  BY <1>15 DEF TickEnd, TypeOK, Idle, Scheduler, table, history
<1>16. CASE TickFails
  BY <1>16 DEF TickFails, TypeOK, Idle, Scheduler, table, history
<1>17. CASE ServerCrash
  BY <1>17 DEF ServerCrash, TypeOK, AtMostOne, Idle, Scheduler, table, history
<1>18. CASE MinutePasses
  BY <1>18 DEF MinutePasses, TypeOK, table, history
<1>19. CASE UNCHANGED vars
  BY <1>19 DEF vars, TypeOK, table, history
<1>20. QED
  BY <1>1, <1>2, <1>3, <1>4, <1>5, <1>6, <1>7, <1>8, <1>9, <1>10, <1>11, <1>12, <1>13, <1>14,
     <1>15, <1>16, <1>17, <1>18, <1>19 DEF Next, EditStep, TickStep

(* TypeOK holds in every reachable state; above all, a window never has two *)
(* rows or two values of next_run_at.                                       *)
THEOREM TypeCorrect == Spec => []TypeOK
<1>1. QED
  BY TypeInit, TypeNext, PTL DEF Spec
-----------------------------------------------------------------------------
(***************************************************************************)
(* An occurrence is run again only after a failure.                         *)
(***************************************************************************)
RepeatParts ==
  /\ StartedIsPast
  /\ TodoIsDue
  /\ RepeatableNeedsFailure
  /\ RepeatsNeedFailures

(* A step that records no job and makes no window repeatable, except by a   *)
(* failure, keeps the invariant.                                            *)
LEMMA NothingRuns ==
  ASSUME RepeatInv, TypeOK', TodoIsDue', history' = history,
         clock <= clock', failures <= failures',
         \A w \in Windows : Repeatable(w)' => Repeatable(w) \/ failures < failures'
  PROVE  RepeatParts'
<1>1. started' = started /\ repeats' = repeats
  BY DEF history
<1>2. clock \in Nat /\ clock' \in Nat /\ failures \in Nat /\ failures' \in Nat
      /\ \A w \in Windows : repeats[w] \in Nat /\ started[w] \subseteq Nat
  BY DEF RepeatInv, TypeOK
<1>3. StartedIsPast'
  BY <1>1, <1>2 DEF RepeatInv, StartedIsPast
<1>4. RepeatsNeedFailures'
  BY <1>1, <1>2 DEF RepeatInv, RepeatsNeedFailures
<1>5. RepeatableNeedsFailure'
  <2>1. ASSUME NEW w \in Windows, Repeatable(w)' PROVE repeats[w] < failures'
    BY <1>2, <2>1 DEF RepeatInv, RepeatableNeedsFailure, RepeatsNeedFailures
  <2>2. QED
    BY <1>1, <2>1 DEF RepeatableNeedsFailure
<1>6. QED
  BY <1>3, <1>4, <1>5 DEF RepeatParts

(* Nothing has run and no tick has begun.                                   *)
LEMMA RepeatInit == Init => RepeatInv
<1> SUFFICES ASSUME Init PROVE RepeatInv
  OBVIOUS
<1>1. TypeOK
  BY TypeInit
<1>2. QED
  BY <1>1 DEF Init, RepeatInv, StartedIsPast, TodoIsDue, RepeatableNeedsFailure,
              Repeatable, RepeatsNeedFailures, Idle

(* Every step keeps the invariant.                                          *)
LEMMA RepeatNext == RepeatInv /\ [Next]_vars => RepeatInv'
<1> SUFFICES ASSUME RepeatInv, [Next]_vars PROVE RepeatInv'
  OBVIOUS
<1>1. TypeOK /\ TypeOK'
  BY TypeNext DEF RepeatInv
<1> SUFFICES RepeatParts'
  BY <1>1 DEF RepeatInv, RepeatParts
<1>2. clock \in Nat /\ now \in Nat /\ failures \in Nat /\ now <= clock
  BY <1>1 DEF TypeOK, RepeatInv, TodoIsDue
<1>3. ASSUME NEW e \in Editors, NEW update, EditBegin(e, update) PROVE RepeatParts'
  BY <1>1, <1>2, <1>3, NothingRuns DEF EditBegin, RepeatInv, TodoIsDue, Repeatable, history
<1>4. ASSUME NEW e \in Editors, EditCommit(e) PROVE RepeatParts'
  <2>1. PICK update \in edit[e] :
          /\ windows' = [windows EXCEPT ![update.window] = Written(update)]
          /\ started' = [started EXCEPT ![update.window] = {}]
          /\ repeats' = [repeats EXCEPT ![update.window] = 0]
    BY <1>4 DEF EditCommit
  <2> DEFINE w == update.window
  <2>2. w \in Windows
    BY <1>1 DEF TypeOK, Update
  <2>3. UNCHANGED <<clock, tick, seen, now, todo, failures>>
    BY <1>4 DEF EditCommit
  <2>4. started'[w] = {} /\ repeats'[w] = 0
    BY <1>1, <2>1, <2>2 DEF TypeOK
  <2>5. \A v \in Windows \ {w} :
          windows'[v] = windows[v] /\ started'[v] = started[v] /\ repeats'[v] = repeats[v]
    BY <1>1, <2>1 DEF TypeOK
  <2> HIDE DEF w
  <2>6. StartedIsPast'
    BY <2>3, <2>4, <2>5 DEF RepeatInv, StartedIsPast
  <2>7. TodoIsDue'
    BY <2>3 DEF RepeatInv, TodoIsDue
  <2>8. RepeatsNeedFailures'
    BY <1>2, <2>3, <2>4, <2>5 DEF RepeatInv, RepeatsNeedFailures
  <2>9. RepeatableNeedsFailure'
    <3>1. ~ Repeatable(w)'
      BY <2>4 DEF Repeatable
    <3>2. \A v \in Windows \ {w} : Repeatable(v)' => Repeatable(v)
      BY <2>3, <2>5 DEF Repeatable
    <3>3. QED
      BY <2>2, <2>3, <2>5, <3>1, <3>2 DEF RepeatInv, RepeatableNeedsFailure
  <2>10. QED
    BY <2>6, <2>7, <2>8, <2>9 DEF RepeatParts
<1>5. ASSUME NEW w \in Windows, DeleteWindow(w) PROVE RepeatParts'
  <2>1. \A v \in Windows : windows'[v] = windows[v] \/ windows'[v] = {}
    BY <1>1, <1>5 DEF DeleteWindow, TypeOK
  <2>2. QED
    BY <1>1, <1>2, <1>5, <2>1, NothingRuns
       DEF DeleteWindow, RepeatInv, TodoIsDue, Repeatable, history
<1>6. CASE TickBegin
  BY <1>1, <1>2, <1>6, NothingRuns
     DEF TickBegin, RepeatInv, TodoIsDue, Repeatable, Idle, table, history
<1>7. CASE TickFilter
  <2>1. \A w \in todo' : \A row \in seen[w] : \A m \in row.next : m <= clock
    <3>1. ASSUME NEW w \in todo', NEW row \in seen[w], NEW m \in row.next PROVE m <= clock
      <4>1. w \in Windows /\ \E other \in seen[w] : Due(other, clock)
        BY <1>7, <3>1 DEF TickFilter
      <4>2. Due(row, clock) /\ AtMostOne(row.next)
        BY <1>1, <4>1, WindowShape DEF TypeOK, AtMostOne
      <4>3. QED
        BY <4>2 DEF Due, AtMostOne
    <3>2. QED
      BY <3>1
  <2>2. TodoIsDue'
    BY <1>2, <1>7, <2>1 DEF TickFilter, TodoIsDue
  <2>3. \A w \in Windows : Repeatable(w)' => Repeatable(w)
    BY <1>7 DEF TickFilter, Repeatable, table, history
  <2>4. QED
    BY <1>1, <1>2, <1>7, <2>2, <2>3, NothingRuns DEF TickFilter, history
<1>8. ASSUME NEW w \in Windows, StartJob(w) PROVE RepeatParts'
  <2> DEFINE ran == UNION {row.next : row \in seen[w]}
  <2>1. /\ tick.at = "create" /\ w \in todo /\ tick' = [at |-> "advance", window |-> w]
        /\ UNCHANGED <<clock, windows, seen, now, todo, failures>>
    BY <1>8 DEF StartJob, table
  <2>2. \A m \in ran : m <= clock
    <3>1. \A row \in seen[w] : \A m \in row.next : m \in Nat /\ m <= now
      BY <1>1, <2>1, WindowShape DEF RepeatInv, TodoIsDue, TypeOK
    <3>2. QED
      BY <1>2, <3>1
  <2>3. TodoIsDue'
    BY <2>1 DEF RepeatInv, TodoIsDue
  <2>4. ~ Repeatable(w)' /\ \A v \in Windows : Repeatable(v) => repeats[v] < failures
    BY <2>1 DEF RepeatInv, Repeatable, RepeatableNeedsFailure
  <2>5. CASE windows[w] # seen[w]
    <3>1. history' = history
      BY <1>8, <2>5 DEF StartJob
    <3>2. \A v \in Windows : Repeatable(v)' => Repeatable(v)
      BY <2>1, <2>4, <3>1 DEF Repeatable, history
    <3>3. QED
      BY <1>1, <1>2, <2>1, <2>3, <3>1, <3>2, NothingRuns
  <2>6. CASE windows[w] = seen[w]
    <3>1. /\ started' = [started EXCEPT ![w] = @ \cup ran]
          /\ repeats' = IF \E row \in seen[w] : row.next \cap started[w] # {}
                          THEN [repeats EXCEPT ![w] = @ + 1] ELSE repeats
      BY <1>8, <2>6 DEF StartJob
    <3>2. started'[w] = started[w] \cup ran /\ \A v \in Windows \ {w} : started'[v] = started[v]
      BY <1>1, <3>1 DEF TypeOK
    <3> HIDE DEF ran
    <3>3. \A v \in Windows \ {w} : repeats'[v] = repeats[v]
      BY <1>1, <3>1 DEF TypeOK
    <3>4. repeats'[w] <= failures
      <4>1. repeats[w] \in Nat /\ repeats[w] <= failures
        BY <1>1 DEF TypeOK, RepeatInv, RepeatsNeedFailures
      <4>2. CASE \E row \in seen[w] : row.next \cap started[w] # {}
        <5>1. Repeatable(w)
          BY <2>1, <2>6, <4>2 DEF Repeatable
        <5>2. repeats'[w] = repeats[w] + 1
          BY <1>1, <3>1, <4>2 DEF TypeOK
        <5>3. QED
          BY <1>2, <2>4, <4>1, <5>1, <5>2
      <4>3. CASE ~ \E row \in seen[w] : row.next \cap started[w] # {}
        BY <3>1, <4>1, <4>3
      <4>4. QED
        BY <4>2, <4>3
    <3>5. StartedIsPast'
      BY <2>1, <2>2, <3>2 DEF RepeatInv, StartedIsPast
    <3>6. RepeatsNeedFailures'
      BY <2>1, <3>3, <3>4 DEF RepeatInv, RepeatsNeedFailures
    <3>7. RepeatableNeedsFailure'
      <4>1. \A v \in Windows \ {w} : Repeatable(v)' => Repeatable(v)
        BY <2>1, <3>2 DEF Repeatable
      <4>2. QED
        BY <2>1, <2>4, <3>3, <4>1 DEF RepeatableNeedsFailure
    <3>8. QED
      BY <2>3, <3>5, <3>6, <3>7 DEF RepeatParts
  <2>7. QED
    BY <2>5, <2>6
<1>9. ASSUME NEW w \in Windows, NoJob(w) PROVE RepeatParts'
  <2>1. \A v \in Windows : Repeatable(v)' => Repeatable(v)
    BY <1>9 DEF NoJob, Repeatable, table, history
  <2>2. QED
    BY <1>1, <1>2, <1>9, <2>1, NothingRuns DEF NoJob, RepeatInv, TodoIsDue, history
<1>10. CASE Advance
  <2>1. PICK w \in Windows : tick.window = w
    BY <1>1, <1>10 DEF Advance, TypeOK, Scheduler
  <2>2. PICK row \in seen[w] :
          windows' = [windows EXCEPT ![w] =
            {With(old, Advanced(row) # {} \/ row.type # "once", Advanced(row)) : old \in windows[w]}]
    BY <1>1, <1>10, <2>1 DEF Advance, TypeOK
  <2>3. \A m \in Advanced(row) : clock < m
    BY <1>1, <1>2, <2>1, WindowShape, NextRunIsLater DEF Advanced, TypeOK
  <2>4. \A new \in windows'[w] : new.next = Advanced(row)
    BY <1>1, <2>1, <2>2 DEF With, TypeOK
  <2>5. \A v \in Windows \ {w} : windows'[v] = windows[v]
    BY <1>1, <2>2 DEF TypeOK
  <2>6. started' = started /\ tick' = [at |-> "create"] /\ tick.at = "advance"
    BY <1>10 DEF Advance, history
  <2>7. ~ Repeatable(w)'
    <3>1. \A m \in started[w] : m <= clock /\ m \in Nat
      BY <1>1, <2>1 DEF RepeatInv, StartedIsPast, TypeOK
    <3>2. Advanced(row) \cap started[w] = {}
      BY <1>2, <2>3, <3>1
    <3>3. QED
      BY <2>4, <2>6, <3>2 DEF Repeatable
  <2>8. \A v \in Windows \ {w} : tick # [at |-> "advance", window |-> v]
    BY <2>1
  <2>9. \A v \in Windows : Repeatable(v)' => Repeatable(v)
    BY <2>5, <2>6, <2>7, <2>8 DEF Repeatable
  <2>10. TodoIsDue'
    BY <1>10 DEF Advance, RepeatInv, TodoIsDue
  <2>11. clock' = clock /\ failures' = failures /\ history' = history
    BY <1>10 DEF Advance
  <2>12. QED
    BY <1>1, <1>2, <2>9, <2>10, <2>11, NothingRuns
<1>11. CASE AdvanceFails
  BY <1>1, <1>2, <1>11, NothingRuns DEF AdvanceFails, RepeatInv, TodoIsDue, history
<1>12. CASE AllStarted
  BY <1>1, <1>2, <1>12, NothingRuns DEF AllStarted, RepeatInv, TodoIsDue, Repeatable, table, history
<1>13. CASE RefreshBegin
  BY <1>1, <1>2, <1>13, NothingRuns DEF RefreshBegin, RepeatInv, TodoIsDue, Repeatable, table, history
<1>14. ASSUME NEW w \in Windows, RefreshWindow(w) PROVE RepeatParts'
  <2>1. PICK row \in seen[w] :
          LET next == NextRun(row.cron, clock)
              gone == next # {} /\ windows[w] = {}
          IN  /\ windows' = IF next = {} THEN windows
                            ELSE [windows EXCEPT ![w] = {With(old, old.enabled, next) : old \in windows[w]}]
              /\ todo' = IF gone THEN {} ELSE todo \ {w}
              /\ tick' = IF gone THEN Idle ELSE tick
    BY <1>1, <1>14 DEF RefreshWindow, TypeOK
  <2> DEFINE next == NextRun(row.cron, clock)
  <2>2. \A m \in next : clock < m
    <3>1. clock \in Nat /\ row \in Window
      BY <1>1 DEF TypeOK
    <3>2. row.cron \in Crons \cup {"none"}
      BY <3>1, WindowShape
    <3>3. QED
      BY <3>1, <3>2, NextRunIsLater
  <2>3. tick.at = "refresh" /\ tick'.at \in {"idle", "refresh"}
    BY <1>14, <2>1 DEF RefreshWindow, Idle
  <2>4. windows' = windows \/ windows' = [windows EXCEPT ![w] = {With(old, old.enabled, next) : old \in windows[w]}]
    BY <2>1
  <2> HIDE DEF next
  <2>5. \A v \in Windows : windows'[v] = windows[v] \/ \A new \in windows'[v] : new.next = next
    BY <1>1, <2>4 DEF With, TypeOK
  <2>6. \A v \in Windows : \A m \in started[v] : m <= clock /\ m \in Nat
    BY <1>1 DEF RepeatInv, StartedIsPast, TypeOK
  <2>7. \A v \in Windows : Repeatable(v)' => Repeatable(v)
    <3>1. \A v \in Windows : next \cap started[v] = {}
      BY <1>2, <2>2, <2>6
    <3>2. started' = started
      BY <1>14 DEF RefreshWindow, history
    <3>3. QED
      BY <2>3, <2>5, <3>1, <3>2 DEF Repeatable
  <2>8. TodoIsDue'
    BY <1>2, <1>14, <2>3 DEF RefreshWindow, TodoIsDue
  <2>9. clock' = clock /\ failures' = failures /\ history' = history
    BY <1>14 DEF RefreshWindow
  <2>10. QED
    BY <1>1, <1>2, <2>7, <2>8, <2>9, NothingRuns
<1>15. CASE TickEnd
  BY <1>1, <1>2, <1>15, NothingRuns DEF TickEnd, RepeatInv, TodoIsDue, Repeatable, Idle, table, history
<1>16. CASE TickFails
  BY <1>1, <1>2, <1>16, NothingRuns DEF TickFails, RepeatInv, TodoIsDue, Idle, history
<1>17. CASE ServerCrash
  BY <1>1, <1>2, <1>17, NothingRuns DEF ServerCrash, RepeatInv, TodoIsDue, Idle, history
<1>18. CASE MinutePasses
  <2>1. \A w \in Windows : Repeatable(w)' => Repeatable(w)
    BY <1>18 DEF MinutePasses, Repeatable, table, history
  <2>2. TodoIsDue'
    BY <1>2, <1>18 DEF MinutePasses, RepeatInv, TodoIsDue
  <2>3. QED
    BY <1>1, <1>2, <1>18, <2>1, <2>2, NothingRuns DEF MinutePasses, history
<1>19. CASE UNCHANGED vars
  BY <1>1, <1>2, <1>19, NothingRuns DEF vars, RepeatInv, TodoIsDue, Repeatable, table, history
<1>20. ASSUME NEW e \in Editors, NEW w \in Windows,
               CreateWindow(e, w) \/ UpdateWindow(e, w) \/ SwitchWindow(e, w)
       PROVE  RepeatParts'
  BY <1>3, <1>20 DEF CreateWindow, UpdateWindow, SwitchWindow
<1>21. QED
  BY <1>4, <1>5, <1>6, <1>7, <1>8, <1>9, <1>10, <1>11, <1>12, <1>13, <1>14, <1>15, <1>16, <1>17,
     <1>18, <1>19, <1>20 DEF Next, EditStep, TickStep

(* However often windows are edited and whatever fails, a window's          *)
(* occurrence is not run again more often than something failed: the tick's *)
(* order - create the job, then move next_run_at on - costs a job only when *)
(* it is cut between the two.                                               *)
THEOREM RepeatsBounded == Spec => []RepeatsNeedFailures
<1>1. RepeatInv => RepeatsNeedFailures
  BY DEF RepeatInv
<1>2. QED
  BY RepeatInit, RepeatNext, <1>1, PTL DEF Spec
-----------------------------------------------------------------------------
(***************************************************************************)
(* A one-time window runs one occurrence.                                   *)
(***************************************************************************)
(* A window keeps its part of the invariant when nothing happens to it.     *)
Untouched(w) == windows'[w] = windows[w] /\ started'[w] = started[w]

(* A step that leaves alone what the tick read, and lets it at most lose    *)
(* interest in windows, keeps the invariant if it does for the windows it   *)
(* touches.                                                                 *)
LEMMA OnlyTouched ==
  ASSUME OnceInv, TypeOK', AdvancesTodo', seen' = seen, todo' \subseteq todo,
         \/ tick'.at \in {"idle", "create", "stale"}
         \/ tick' = tick
         \/ tick.at = "create" /\ tick'.at = "advance",
         tick'.at = "create" => tick.at \in {"create", "advance"},
         \A w \in Windows : Untouched(w) \/
           /\ Once(windows'[w]) /\ started'[w] # {} =>
                /\ AtMostOne(started'[w])
                /\ \A row \in windows'[w] : row.next \subseteq started'[w]
           /\ Once(windows'[w]) /\ started'[w] # {} =>
                \/ Once(windows[w]) /\ started[w] # {}
                \/ \A row \in seen[w] : row.type # "recurring"
  PROVE  OnceInv'
<1>1. OnceIsSpent'
  BY DEF OnceInv, OnceIsSpent, Untouched, Once
<1>2. StaleIsUnrun'
  <2>1. ASSUME NEW w \in Windows, Once(windows'[w]),
               \E row \in seen[w] : row.type = "recurring",
               tick'.at = "filter" \/ (tick'.at \in {"create", "advance", "refresh"} /\ w \in todo')
        PROVE  started'[w] = {}
    <3>1. tick.at = "filter" \/ (tick.at \in {"create", "advance", "refresh"} /\ w \in todo)
      BY <2>1
    <3>2. Once(windows[w]) => started[w] = {}
      BY <2>1, <3>1 DEF OnceInv, StaleIsUnrun
    <3>3. QED
      BY <2>1, <3>2 DEF Untouched
  <2>2. QED
    BY <2>1 DEF StaleIsUnrun
<1>3. RefreshesRecurring'
  BY DEF OnceInv, RefreshesRecurring
<1>4. OnceIsOnce'
  BY <1>1 DEF OnceIsSpent, OnceIsOnce, Once, AtMostOne
<1>5. QED
  BY <1>1, <1>2, <1>3, <1>4 DEF OnceInv

(* There is no window.                                                      *)
LEMMA OnceInit == Init => OnceInv
<1> SUFFICES ASSUME Init PROVE OnceInv
  OBVIOUS
<1>1. TypeOK
  BY TypeInit
<1>2. QED
  BY <1>1 DEF Init, OnceInv, AdvancesTodo, RefreshesRecurring, OnceIsSpent, StaleIsUnrun, OnceIsOnce, Once, Idle

(* Every step keeps the invariant.                                          *)
LEMMA OnceNext == OnceInv /\ [Next]_vars => OnceInv'
<1> SUFFICES ASSUME OnceInv, [Next]_vars PROVE OnceInv'
  OBVIOUS
<1>1. TypeOK /\ TypeOK'
  BY TypeNext DEF OnceInv
<1>2. tick \in Scheduler /\ AdvancesTodo /\ clock \in Nat
  BY <1>1 DEF OnceInv, TypeOK
<1>3. ASSUME NEW e \in Editors, NEW update, EditBegin(e, update) PROVE OnceInv'
  BY <1>1, <1>2, <1>3, OnlyTouched DEF EditBegin, AdvancesTodo, Untouched, history
<1>4. ASSUME NEW e \in Editors, EditCommit(e) PROVE OnceInv'
  <2>1. PICK update \in edit[e] :
          /\ windows' = [windows EXCEPT ![update.window] = Written(update)]
          /\ started' = [started EXCEPT ![update.window] = {}]
    BY <1>4 DEF EditCommit
  <2>2. UNCHANGED <<tick, seen, todo>>
    BY <1>4 DEF EditCommit
  <2>3. \A w \in Windows : Untouched(w) \/ started'[w] = {}
    BY <1>1, <2>1 DEF TypeOK, Untouched
  <2>4. QED
    BY <1>1, <1>2, <2>2, <2>3, OnlyTouched DEF AdvancesTodo
<1>5. ASSUME NEW w \in Windows, DeleteWindow(w) PROVE OnceInv'
  <2>1. \A v \in Windows : Untouched(v) \/ windows'[v] = {}
    BY <1>1, <1>5 DEF DeleteWindow, TypeOK, Untouched, history
  <2>2. QED
    BY <1>1, <1>2, <1>5, <2>1, OnlyTouched DEF DeleteWindow, AdvancesTodo, Once
<1>6. CASE TickBegin
  <2>1. UNCHANGED <<windows, started>> /\ tick' = [at |-> "filter"]
    BY <1>6 DEF TickBegin, table, history
  <2>2. OnceIsSpent'
    BY <2>1 DEF OnceInv, OnceIsSpent
  <2>3. StaleIsUnrun'
    <3>1. \A w \in Windows : seen'[w] \subseteq windows[w] /\ AtMostOne(windows[w])
      BY <1>1, <1>6 DEF TickBegin, TypeOK
    <3>2. \A w \in Windows : Once(windows[w]) => ~ \E row \in seen'[w] : row.type = "recurring"
      BY <3>1 DEF Once, AtMostOne
    <3>3. QED
      BY <2>1, <3>2 DEF StaleIsUnrun
  <2>4. AdvancesTodo' /\ RefreshesRecurring'
    BY <2>1 DEF AdvancesTodo, RefreshesRecurring
  <2>5. OnceIsOnce'
    BY <2>1 DEF OnceInv, OnceIsOnce
  <2>6. QED
    BY <1>1, <2>2, <2>3, <2>4, <2>5 DEF OnceInv
<1>7. CASE TickFilter
  <2>1. UNCHANGED <<windows, started, seen>> /\ tick.at = "filter" /\ tick' = [at |-> "create"]
    BY <1>7 DEF TickFilter, table, history
  <2>2. OnceIsSpent' /\ OnceIsOnce'
    BY <2>1 DEF OnceInv, OnceIsSpent, OnceIsOnce
  <2>3. StaleIsUnrun'
    BY <2>1 DEF OnceInv, StaleIsUnrun
  <2>4. AdvancesTodo' /\ RefreshesRecurring'
    BY <2>1 DEF AdvancesTodo, RefreshesRecurring
  <2>5. QED
    BY <1>1, <2>2, <2>3, <2>4 DEF OnceInv
<1>8. ASSUME NEW w \in Windows, StartJob(w) PROVE OnceInv'
  <2> DEFINE ran == UNION {row.next : row \in seen[w]}
  <2>1. /\ tick.at = "create" /\ w \in todo /\ tick' = [at |-> "advance", window |-> w]
        /\ UNCHANGED <<windows, seen, todo>>
    BY <1>8 DEF StartJob, table
  <2>2. AdvancesTodo'
    BY <2>1 DEF AdvancesTodo
  <2>3. CASE windows[w] # seen[w]
    <3>1. \A v \in Windows : Untouched(v)
      BY <1>8, <2>1, <2>3 DEF StartJob, Untouched, history
    <3>2. QED
      BY <1>1, <2>1, <2>2, <3>1, OnlyTouched
  <2>4. CASE windows[w] = seen[w]
    <3>1. started' = [started EXCEPT ![w] = @ \cup ran]
      BY <1>8, <2>4 DEF StartJob
    <3>2. started'[w] = started[w] \cup ran /\ \A v \in Windows \ {w} : Untouched(v)
      BY <1>1, <2>1, <3>1 DEF TypeOK, Untouched
    <3>3. ASSUME Once(windows[w])
          PROVE  /\ AtMostOne(started'[w])
                 /\ \A row \in windows[w] : row.next \subseteq started'[w]
                 /\ \A row \in seen[w] : row.type # "recurring"
      <4>1. PICK row \in windows[w] : row.type = "once"
        BY <3>3 DEF Once
      <4>2. windows[w] = {row} /\ row \in Window
        BY <1>1 DEF TypeOK, AtMostOne
      <4>3. ran = row.next /\ AtMostOne(row.next)
        BY <2>4, <4>2, WindowShape
      <4>4. started[w] = {} \/ (AtMostOne(started[w]) /\ row.next \subseteq started[w])
        BY <3>3 DEF OnceInv, OnceIsSpent
      <4>5. AtMostOne(started'[w]) /\ row.next \subseteq started'[w]
        BY <3>2, <4>3, <4>4 DEF AtMostOne
      <4>6. QED
        BY <2>4, <4>1, <4>2, <4>5
    <3>4. \A v \in Windows : Untouched(v) \/
           /\ Once(windows'[v]) /\ started'[v] # {} =>
                /\ AtMostOne(started'[v])
                /\ \A row \in windows'[v] : row.next \subseteq started'[v]
           /\ Once(windows'[v]) /\ started'[v] # {} =>
                \/ Once(windows[v]) /\ started[v] # {}
                \/ \A row \in seen[v] : row.type # "recurring"
      BY <2>1, <3>2, <3>3
    <3>5. QED
      BY <1>1, <2>1, <2>2, <3>4, OnlyTouched
  <2>5. QED
    BY <2>3, <2>4
<1>9. ASSUME NEW w \in Windows, NoJob(w) PROVE OnceInv'
  BY <1>1, <1>2, <1>9, OnlyTouched DEF NoJob, AdvancesTodo, Untouched, table, history
<1>10. CASE Advance
  <2>1. PICK w \in Windows : tick.window = w /\ w \in todo
    BY <1>1, <1>2, <1>10 DEF Advance, TypeOK, Scheduler, AdvancesTodo
  <2>2. PICK row \in seen[w] :
          windows' = [windows EXCEPT ![w] =
            {With(old, Advanced(row) # {} \/ row.type # "once", Advanced(row)) : old \in windows[w]}]
    BY <1>1, <1>10, <2>1 DEF Advance, TypeOK
  <2>3. /\ tick.at = "advance" /\ tick' = [at |-> "create"]
        /\ UNCHANGED <<started, seen>> /\ todo' \subseteq todo
    BY <1>10 DEF Advance, history
  <2>4. /\ \A new \in windows'[w] : new.next = Advanced(row)
        /\ Once(windows'[w]) => Once(windows[w])
    BY <1>1, <2>1, <2>2 DEF With, TypeOK, Once
  <2>5. \A v \in Windows \ {w} : Untouched(v)
    BY <1>1, <2>2, <2>3 DEF TypeOK, Untouched
  <2>6. ASSUME Once(windows[w]), started[w] # {} PROVE AtMostOne(started[w]) /\ Advanced(row) = {}
    <3>1. row.type # "recurring"
      BY <2>1, <2>3, <2>6 DEF OnceInv, StaleIsUnrun
    <3>2. QED
      BY <2>6, <3>1 DEF OnceInv, OnceIsSpent, Advanced
  <2>7. \A v \in Windows : Untouched(v) \/
          /\ Once(windows'[v]) /\ started'[v] # {} =>
               /\ AtMostOne(started'[v])
               /\ \A r \in windows'[v] : r.next \subseteq started'[v]
          /\ Once(windows'[v]) /\ started'[v] # {} =>
               \/ Once(windows[v]) /\ started[v] # {}
               \/ \A r \in seen[v] : r.type # "recurring"
    BY <2>3, <2>4, <2>5, <2>6
  <2>8. AdvancesTodo'
    BY <2>3 DEF AdvancesTodo
  <2>9. QED
    BY <1>1, <2>3, <2>7, <2>8, OnlyTouched
<1>11. CASE AdvanceFails
  BY <1>1, <1>2, <1>11, OnlyTouched DEF AdvanceFails, AdvancesTodo, Untouched, table, history
<1>12. CASE AllStarted
  BY <1>1, <1>2, <1>12, OnlyTouched DEF AllStarted, AdvancesTodo, Untouched, table, history
<1>13. CASE RefreshBegin
  <2>1. UNCHANGED <<windows, started>> /\ tick' = [at |-> "refresh"] /\ seen' = StaleWindows
    BY <1>13 DEF RefreshBegin, table, history
  <2>2. OnceIsSpent' /\ OnceIsOnce'
    BY <2>1 DEF OnceInv, OnceIsSpent, OnceIsOnce
  <2>3. StaleIsUnrun'
    <3>1. \A w \in Windows : seen'[w] \subseteq windows[w] /\ AtMostOne(windows[w])
      BY <1>1, <2>1 DEF StaleWindows, TypeOK
    <3>2. \A w \in Windows : Once(windows[w]) => ~ \E row \in seen'[w] : row.type = "recurring"
      BY <3>1 DEF Once, AtMostOne
    <3>3. QED
      BY <2>1, <3>2 DEF StaleIsUnrun
  <2>4. AdvancesTodo' /\ RefreshesRecurring'
    <3>1. \A w \in todo' : w \in Windows
      BY <1>1 DEF TypeOK
    <3>2. \A w \in Windows : \A row \in seen'[w] : row.type = "recurring"
      BY <2>1 DEF StaleWindows
    <3>3. QED
      BY <2>1, <3>1, <3>2 DEF AdvancesTodo, RefreshesRecurring
  <2>5. QED
    BY <1>1, <2>2, <2>3, <2>4 DEF OnceInv
<1>14. ASSUME NEW w \in Windows, RefreshWindow(w) PROVE OnceInv'
  <2>1. PICK row \in seen[w] :
          LET next == NextRun(row.cron, clock)
              gone == next # {} /\ windows[w] = {}
          IN  /\ windows' = IF next = {} THEN windows
                            ELSE [windows EXCEPT ![w] = {With(old, old.enabled, next) : old \in windows[w]}]
              /\ todo' = IF gone THEN {} ELSE todo \ {w}
              /\ tick' = IF gone THEN Idle ELSE tick
    BY <1>1, <1>14 DEF RefreshWindow, TypeOK
  <2> DEFINE next == NextRun(row.cron, clock)
  <2>2. /\ tick.at = "refresh" /\ w \in todo /\ (tick' = tick \/ tick'.at = "idle")
        /\ UNCHANGED <<started, seen>> /\ todo' \subseteq todo
    BY <1>14, <2>1 DEF RefreshWindow, Idle, history
  <2>3. windows' = windows \/ windows' = [windows EXCEPT ![w] = {With(old, old.enabled, next) : old \in windows[w]}]
    BY <2>1
  <2> HIDE DEF next
  <2>4. /\ \A v \in Windows \ {w} : Untouched(v)
        /\ Once(windows'[w]) => Once(windows[w])
    BY <1>1, <2>2, <2>3 DEF With, TypeOK, Untouched, Once
  <2>5. Once(windows[w]) => started[w] = {}
    BY <2>2 DEF OnceInv, StaleIsUnrun, RefreshesRecurring
  <2>6. \A v \in Windows : Untouched(v) \/ (Once(windows'[v]) => started'[v] = {})
    BY <2>2, <2>4, <2>5
  <2>7. AdvancesTodo'
    BY <2>2 DEF AdvancesTodo
  <2>8. QED
    BY <1>1, <2>2, <2>6, <2>7, OnlyTouched
<1>15. CASE TickEnd
  BY <1>1, <1>2, <1>15, OnlyTouched DEF TickEnd, AdvancesTodo, Untouched, Idle, table, history
<1>16. CASE TickFails
  BY <1>1, <1>2, <1>16, OnlyTouched DEF TickFails, AdvancesTodo, Untouched, Idle, table, history
<1>17. CASE ServerCrash
  BY <1>1, <1>2, <1>17, OnlyTouched DEF ServerCrash, AdvancesTodo, Untouched, Idle, table, history
<1>18. CASE MinutePasses
  BY <1>1, <1>2, <1>18, OnlyTouched DEF MinutePasses, AdvancesTodo, Untouched, table, history
<1>19. CASE UNCHANGED vars
  BY <1>1, <1>2, <1>19, OnlyTouched DEF vars, AdvancesTodo, Untouched, table, history
<1>20. ASSUME NEW e \in Editors, NEW w \in Windows,
               CreateWindow(e, w) \/ UpdateWindow(e, w) \/ SwitchWindow(e, w)
       PROVE  OnceInv'
  BY <1>3, <1>20 DEF CreateWindow, UpdateWindow, SwitchWindow
<1>21. QED
  BY <1>4, <1>5, <1>6, <1>7, <1>8, <1>9, <1>10, <1>11, <1>12, <1>13, <1>14, <1>15, <1>16, <1>17,
     <1>18, <1>19, <1>20 DEF Next, EditStep, TickStep

(* A one-time window runs one occurrence until it is edited, whatever edits *)
(* come between what a tick reads and what it writes.                       *)
THEOREM OnceRunsOnce == Spec => []OnceIsOnce
<1>1. OnceInv => OnceIsOnce
  BY DEF OnceInv
<1>2. QED
  BY OnceInit, OnceNext, <1>1, PTL DEF Spec
=============================================================================
