---------------------- MODULE ComplianceScans_proofs ----------------------
(***************************************************************************)
(* Proofs about ComplianceScans, for any scanners and any number of scans,  *)
(* cancellations, retries, crashes and restarts.                            *)
(***************************************************************************)
EXTENDS ComplianceScans, SequenceTheorems, TLAPS

USE DEF Orders, Uploads, Cancel

LEMMA Bounds ==
  /\ MaxOrders \in Nat /\ MaxFaults \in Nat /\ MaxCancels \in Nat
  /\ \A n \in Orders : n \in Nat \ {0}
  /\ 0 \notin Orders
BY BoundsAssumption

(***************************************************************************)
(* The wire: what is appended, taken and lost.                              *)
(***************************************************************************)
LEMMA WireEntries ==
  ASSUME TypeOK
  PROVE  /\ Len(wire) \in Nat /\ DOMAIN wire = 1 .. Len(wire)
         /\ \A i \in DOMAIN wire : wire[i] \in Orders \cup {0}
<1>1. wire \in Seq(Orders \cup {0})
  BY DEF TypeOK
<1>2. QED
  BY <1>1, LenProperties, ElementOfSeq

LEMMA Appended ==
  ASSUME TypeOK, NEW m \in Orders \cup {0}
  PROVE  /\ Append(wire, m) \in Seq(Orders \cup {0})
         /\ DOMAIN Append(wire, m) = 1 .. Len(wire) + 1
         /\ \A i \in 1 .. Len(wire) : Append(wire, m)[i] = wire[i]
         /\ Append(wire, m)[Len(wire) + 1] = m
<1>1. wire \in Seq(Orders \cup {0})
  BY DEF TypeOK
<1>2. QED
  BY <1>1

LEMMA Taken ==
  ASSUME TypeOK, wire # <<>>
  PROVE  /\ Tail(wire) \in Seq(Orders \cup {0})
         /\ 1 \in DOMAIN wire /\ Head(wire) = wire[1] /\ Head(wire) \in Orders \cup {0}
         /\ \A i \in DOMAIN Tail(wire) : /\ i + 1 \in DOMAIN wire /\ i + 1 # 1
                                         /\ Tail(wire)[i] = wire[i + 1]
<1>1. wire \in Seq(Orders \cup {0})
  BY DEF TypeOK
<1>2. Tail(wire) \in Seq(Orders \cup {0}) /\ Head(wire) \in Orders \cup {0}
  BY <1>1, HeadTailProperties
<1>3. Len(wire) \in Nat \ {0} /\ Len(Tail(wire)) = Len(wire) - 1
      /\ \A i \in 1 .. Len(Tail(wire)) : Tail(wire)[i] = wire[i + 1]
  BY <1>1, HeadTailProperties, EmptySeq
<1>4. DOMAIN wire = 1 .. Len(wire) /\ DOMAIN Tail(wire) = 1 .. Len(Tail(wire))
  BY <1>1, <1>2, LenProperties
<1>5. Head(wire) = wire[1]
  BY <1>1
<1>6. QED
  BY <1>2, <1>3, <1>4, <1>5

LEMMA Lost ==
  ASSUME TypeOK, NEW read \in 0 .. Len(wire)
  PROVE  /\ SubSeq(wire, 1, read) \in Seq(Orders \cup {0})
         /\ \A i \in DOMAIN SubSeq(wire, 1, read) :
              i \in DOMAIN wire /\ SubSeq(wire, 1, read)[i] = wire[i]
<1>1. Len(wire) \in Nat /\ DOMAIN wire = 1 .. Len(wire)
  BY WireEntries
<1>2. \A i \in 1 .. read : wire[i] \in Orders \cup {0}
  BY <1>1, WireEntries
<1>3. /\ SubSeq(wire, 1, read) \in Seq(Orders \cup {0})
      /\ Len(SubSeq(wire, 1, read)) = read
      /\ \A i \in 1 .. read : SubSeq(wire, 1, read)[i] = wire[i]
  BY <1>1, <1>2, SubSeqProperties
<1>4. DOMAIN SubSeq(wire, 1, read) = 1 .. read
  BY <1>3, LenProperties
<1>5. QED
  BY <1>1, <1>3, <1>4

-----------------------------------------------------------------------------
(***************************************************************************)
(* Type correctness.  It rests on QueueInv, which bounds the orders, and on *)
(* TriesPaid, which bounds the uploads.                                     *)
(***************************************************************************)
LEMMA UploadType ==
  ASSUME TypeOK, NEW n \in Orders, NEW try \in Uploads, NEW found \in SUBSET Types,
         Upload(n, try, found)
  PROVE  tries' \in [Orders -> 0 .. MaxFaults + 1] /\ posts' \subseteq Post
<1>1. try \in 0 .. MaxFaults + 1
  BY Bounds
<1>2. tries' \in [Orders -> 0 .. MaxFaults + 1]
  BY <1>1 DEF Upload, TypeOK
<1>3. \A on \in SUBSET found : [order |-> n, try |-> try, results |-> on] \in Post
  BY DEF Post
<1>4. QED
  BY <1>2, <1>3 DEF Upload, TypeOK

LEMMA EndType ==
  ASSUME TypeOK, NEW n \in Orders, End(n)
  PROVE  /\ scan' \in [Orders -> Stage] /\ cancelFn' \in Orders \cup {0}
         /\ results' \in [Orders -> SUBSET Types]
BY DEF End, TypeOK, Stage

(* An order that may still come is within the bounds.                       *)
LEMMA NextOrder ==
  ASSUME TypeOK, QueueInv, OrderToCome \/ asked < MaxOrders
  PROVE  orders + 1 \in Orders /\ orders + 1 \in 0 .. MaxOrders + MaxFaults
<1>1. /\ orders \in Nat /\ asked \in Nat /\ faults \in Nat
      /\ asked <= MaxOrders /\ faults <= MaxFaults
  BY Bounds DEF TypeOK
<1>2. CASE OrderToCome
  BY <1>1, <1>2, Bounds DEF QueueInv, OrdersPaid
<1>3. CASE ~OrderToCome /\ asked < MaxOrders
  BY <1>1, <1>3, Bounds DEF QueueInv, OrdersPaid
<1>4. QED
  BY <1>2, <1>3

LEMMA RecordType ==
  ASSUME TypeOK, NEW task \in Task, task.at = "recording" => task.order \in Orders,
         NEW type \in task.types, Record(task, type)
  PROVE  DOMAIN rows' \subseteq Keys /\ (\A k \in DOMAIN rows' : rows'[k] \in Status)
         /\ stale' \subseteq Keys
<1>1. Row(task.order, type, 0) \in Keys
  BY Bounds DEF Record, Row, Keys, Task
<1>2. QED
  BY <1>1 DEF Record, TypeOK, Status

LEMMA WorkType == TypeOK /\ QueueInv /\ Work => TypeOK'
<1>1. SUFFICES ASSUME TypeOK, QueueInv, Work PROVE TypeOK'
  OBVIOUS
<1>2. Idle \in Task
  BY DEF Idle, Task
<1>3. CASE WorkerTake
  <2>1. worker' \in Task
    BY <1>3 DEF WorkerTake, Idle, Task
  <2>2. QED
    BY <1>1, <1>3, <2>1 DEF WorkerTake, TypeOK, table, agent, link, counts
<1>4. CASE WorkerDelays
  BY <1>1, <1>2, <1>4 DEF WorkerDelays, TypeOK, table, agent, link, counts
<1>5. CASE WorkerLoad
  <2>1. worker' \in Task
    BY <1>1, <1>5 DEF WorkerLoad, TypeOK, Task
  <2>2. QED
    BY <1>1, <1>5, <2>1 DEF WorkerLoad, TypeOK, table, agent, link, counts
<1>6. CASE WorkerSkips
  BY <1>1, <1>2, <1>6 DEF WorkerSkips, TypeOK, table, agent, link, counts
<1>7. CASE WorkerSend
  <2>1. orders' \in Orders /\ orders' \in 0 .. MaxOrders + MaxFaults
    BY <1>1, <1>7, NextOrder DEF WorkerSend, OrderToCome
  <2>2. wire' \in Seq(Orders \cup {Cancel})
    BY <1>1, <1>7, <2>1, Appended DEF WorkerSend
  <2>3. worker' \in Task
    BY <1>1, <1>7, <2>1 DEF WorkerSend, TypeOK, Task
  <2>4. QED
    BY <1>1, <1>7, <2>1, <2>2, <2>3 DEF WorkerSend, TypeOK, table, agent
<1>8. CASE WorkerRecord
  <2>1. PICK type \in worker.types :
          /\ Record(worker, type)
          /\ worker' = [worker EXCEPT !.types = @ \ {type}]
          /\ UNCHANGED <<job, bulk, canceller, agent, link, posts, counts>>
    BY <1>8 DEF WorkerRecord
  <2>2. worker' \in Task
    BY <1>1, <2>1 DEF TypeOK, Task
  <2>3. worker \in Task /\ (worker.at = "recording" => worker.order \in Orders)
    BY <1>1 DEF TypeOK, QueueInv, RecordsItsOrder
  <2>4. DOMAIN rows' \subseteq Keys /\ (\A k \in DOMAIN rows' : rows'[k] \in Status)
        /\ stale' \subseteq Keys
    BY <1>1, <2>1, <2>3, RecordType
  <2>5. QED
    BY <1>1, <2>1, <2>2, <2>4 DEF TypeOK, agent, link, counts
<1>9. CASE WorkerDone
  BY <1>1, <1>2, <1>9 DEF WorkerDone, TypeOK, table, agent, link, counts
<1>10. QED
  BY <1>1, <1>3, <1>4, <1>5, <1>6, <1>7, <1>8, <1>9 DEF Work

LEMMA BulkType == TypeOK /\ QueueInv /\ (BulkSend \/ BulkRecord) => TypeOK'
<1>1. SUFFICES ASSUME TypeOK, QueueInv, BulkSend \/ BulkRecord PROVE TypeOK'
  OBVIOUS
<1>2. CASE BulkSend
  <2>1. orders' \in Orders /\ orders' \in 0 .. MaxOrders + MaxFaults /\ orders' = orders + 1
    BY <1>1, <1>2, NextOrder DEF BulkSend
  <2>2. wire' \in Seq(Orders \cup {Cancel})
    BY <1>1, <1>2, <2>1, Appended DEF BulkSend
  <2>3. bulk' \in Task
    BY <1>2, <2>1 DEF BulkSend, Task
  <2>4. asked' \in 0 .. MaxOrders
    BY <1>1, <1>2, Bounds DEF BulkSend, TypeOK
  <2>5. QED
    BY <1>1, <1>2, <2>1, <2>2, <2>3, <2>4 DEF BulkSend, TypeOK, table, agent
<1>3. CASE BulkRecord
  <2>1. PICK type \in bulk.types :
          /\ Record(bulk, type)
          /\ bulk' = IF bulk.types = {type} THEN Idle ELSE [bulk EXCEPT !.types = @ \ {type}]
          /\ UNCHANGED <<job, worker, canceller, agent, link, posts, counts>>
    BY <1>3 DEF BulkRecord
  <2>2. bulk' \in Task
    BY <1>1, <2>1 DEF TypeOK, Task, Idle
  <2>3. bulk \in Task /\ (bulk.at = "recording" => bulk.order \in Orders)
    BY <1>1 DEF TypeOK, QueueInv, RecordsItsOrder
  <2>4. DOMAIN rows' \subseteq Keys /\ (\A k \in DOMAIN rows' : rows'[k] \in Status)
        /\ stale' \subseteq Keys
    BY <1>1, <2>1, <2>3, RecordType
  <2>5. QED
    BY <1>1, <2>1, <2>2, <2>4 DEF TypeOK, agent, link, counts
<1>4. QED
  BY <1>1, <1>2, <1>3

LEMMA ScanType ==
  ASSUME TypeOK, QueueInv, TriesPaid, NEW n \in Orders,
         Begin(n) \/ NothingToSend(n) \/ Collect(n) \/ Resend(n) \/ GiveUp(n)
  PROVE  TypeOK'
<1>1. CASE Begin(n)
  BY <1>1 DEF Begin, TypeOK, Stage, server, table, link, counts
<1>2. CASE NothingToSend(n)
  BY <1>2, EndType DEF NothingToSend, TypeOK, server, table, link, counts
<1>3. CASE Collect(n)
  <2>1. PICK found \in SUBSET Types :
          results' = [results EXCEPT ![n] = found] /\ Upload(n, 1, found)
    BY <1>3 DEF Collect
  <2>2. 1 \in Uploads
    BY Bounds
  <2>3. tries' \in [Orders -> 0 .. MaxFaults + 1] /\ posts' \subseteq Post
    BY <2>1, <2>2, UploadType
  <2>4. results' \in [Orders -> SUBSET Types] /\ scan' \in [Orders -> Stage]
    BY <1>3, <2>1 DEF Collect, TypeOK, Stage
  <2>5. QED
    BY <1>3, <2>3, <2>4 DEF Collect, TypeOK, server, table, link, counts
<1>4. CASE Resend(n)
  <2>1. faults' \in 0 .. MaxFaults
    BY <1>4, Bounds DEF Resend, TypeOK
  <2>2. tries[n] + 1 \in Uploads
    BY <1>4, Bounds DEF Resend, TypeOK, TriesPaid
  <2>3. results[n] \in SUBSET Types
    BY DEF TypeOK
  <2>4. tries' \in [Orders -> 0 .. MaxFaults + 1] /\ posts' \subseteq Post
    BY <1>4, <2>2, <2>3, UploadType DEF Resend
  <2>5. QED
    BY <1>4, <2>1, <2>4 DEF Resend, TypeOK, server, table, link
<1>5. CASE GiveUp(n)
  <2>1. faults' \in 0 .. MaxFaults
    BY <1>5, Bounds DEF GiveUp, TypeOK
  <2>2. QED
    BY <1>5, <2>1, EndType DEF GiveUp, TypeOK, server, table, link
<1>6. QED
  BY <1>1, <1>2, <1>3, <1>4, <1>5

LEMMA ScheduledType == TypeOK /\ QueueInv /\ ScheduledScan => TypeOK'
<1>1. SUFFICES ASSUME TypeOK, QueueInv, ScheduledScan PROVE TypeOK'
  OBVIOUS
<1>2. PICK found \in SUBSET Types : Upload(orders', 1, found)
  BY <1>1 DEF ScheduledScan
<1>3. orders' \in Orders /\ orders' \in 0 .. MaxOrders + MaxFaults
  BY <1>1, NextOrder DEF ScheduledScan
<1>4. 1 \in Uploads
  BY Bounds
<1>5. tries' \in [Orders -> 0 .. MaxFaults + 1] /\ posts' \subseteq Post
  BY <1>1, <1>2, <1>3, <1>4, UploadType
<1>6. asked' \in 0 .. MaxOrders
  BY <1>1, Bounds DEF ScheduledScan, TypeOK
<1>7. QED
  BY <1>1, <1>3, <1>5, <1>6 DEF ScheduledScan, TypeOK, server, table, link

LEMMA PostType ==
  ASSUME TypeOK, NEW p \in posts, Answer(p) \/ \E t \in Types : Ingest(p, t)
  PROVE  TypeOK'
<1>1. /\ p \in Post /\ p.order \in Orders /\ p.try \in Uploads
      /\ p = [order |-> p.order, try |-> p.try, results |-> p.results]
  BY DEF TypeOK, Post
<1>2. CASE Answer(p)
  BY <1>1, <1>2, EndType DEF Answer, TypeOK, server, table, link, counts
<1>3. ASSUME NEW t \in Types, Ingest(p, t) PROVE TypeOK'
  <2>1. Row(p.order, t, p.try) \in Keys
    BY <1>1, Bounds DEF Row, Keys
  <2>2. [p EXCEPT !.results = @ \ {t}] \in Post
    BY <1>1 DEF Post
  <2>3. posts' \subseteq Post
    BY <1>3, <2>2 DEF Ingest, TypeOK
  <2>4. DOMAIN rows' \subseteq Keys /\ \A k \in DOMAIN rows' : rows'[k] \in Status
    BY <1>3, <2>1 DEF Ingest, TypeOK, Status
  <2>5. QED
    BY <1>3, <2>3, <2>4 DEF Ingest, TypeOK, server, agent, link, counts
<1>4. QED
  BY <1>2, <1>3

LEMMA WireType ==
  ASSUME TypeOK,
         CancelPush \/ TakeOrder \/ TakeCancel \/ Disconnect \/ AgentRestart \/ ServerRestart
  PROVE  TypeOK'
<1>1. CASE CancelPush
  <2>1. cancels' \in 0 .. MaxCancels
    BY <1>1, Bounds DEF CancelPush, TypeOK
  <2>2. wire' \in Seq(Orders \cup {Cancel})
    BY <1>1, Appended DEF CancelPush, TypeOK
  <2>3. QED
    BY <1>1, <2>1, <2>2 DEF CancelPush, TypeOK, table, agent
<1>2. CASE TakeOrder
  <2>1. wire' \in Seq(Orders \cup {Cancel}) /\ Head(wire) \in Orders
    BY <1>2, Taken DEF TakeOrder
  <2>2. scan' \in [Orders -> Stage]
    BY <1>2 DEF TakeOrder, TypeOK, Stage
  <2>3. QED
    BY <1>2, <2>1, <2>2 DEF TakeOrder, TypeOK, server, table, counts
<1>3. CASE TakeCancel
  <2>1. wire' \in Seq(Orders \cup {Cancel})
    BY <1>3, Taken DEF TakeCancel
  <2>2. scan' \in [Orders -> Stage]
    BY <1>3 DEF TakeCancel, TypeOK, Stage
  <2>3. QED
    BY <1>3, <2>1, <2>2 DEF TakeCancel, TypeOK, server, table, counts
<1>4. CASE Disconnect
  <2>1. wire' \in Seq(Orders \cup {Cancel})
    BY <1>4, Lost DEF Disconnect
  <2>2. QED
    BY <1>4, <2>1 DEF Disconnect, TypeOK, server, table, agent, counts
<1>5. CASE AgentRestart
  <2>1. faults' \in 0 .. MaxFaults
    BY <1>5, Bounds DEF AgentRestart, TypeOK
  <2>2. wire' \in Seq(Orders \cup {Cancel})
    BY <1>5 DEF AgentRestart
  <2>3. scan' \in [Orders -> Stage] /\ results' \in [Orders -> SUBSET Types]
    BY <1>5 DEF AgentRestart, TypeOK, Stage
  <2>4. QED
    BY <1>5, <2>1, <2>2, <2>3 DEF AgentRestart, TypeOK, server, table
<1>6. CASE ServerRestart
  <2>1. faults' \in 0 .. MaxFaults
    BY <1>6, Bounds DEF ServerRestart, TypeOK
  <2>2. wire' \in Seq(Orders \cup {Cancel})
    BY <1>6, Lost DEF ServerRestart
  <2>3. Idle \in Task
    BY DEF Idle, Task
  <2>4. QED
    BY <1>6, <2>1, <2>2, <2>3 DEF ServerRestart, TypeOK, agent
<1>7. QED
  BY <1>1, <1>2, <1>3, <1>4, <1>5, <1>6

LEMMA TableType ==
  ASSUME TypeOK, CancelMark \/ TimePasses \/ Cleanup
  PROVE  TypeOK'
<1>1. CASE CancelMark
  BY <1>1 DEF CancelMark, TypeOK, Status, agent, link, counts
<1>2. CASE TimePasses
  BY <1>2 DEF TimePasses, TypeOK, Status, server, agent, link, counts
<1>3. CASE CleanupFind
  BY <1>3 DEF CleanupFind, TypeOK, Running, server, agent, link, counts
<1>4. CASE CleanupMark
  BY <1>4 DEF CleanupMark, TypeOK, Status, server, agent, link, counts
<1>5. QED
  BY <1>1, <1>2, <1>3, <1>4 DEF Cleanup

LEMMA QueueType ==
  ASSUME TypeOK, Trigger \/ Due \/ Connect
  PROVE  TypeOK'
<1>1. CASE Trigger
  <2>1. asked' \in 0 .. MaxOrders
    BY <1>1, Bounds DEF Trigger, TypeOK
  <2>2. QED
    BY <1>1, <2>1 DEF Trigger, TypeOK, table, agent, link
<1>2. CASE Due
  BY <1>2 DEF Due, TypeOK, table, agent, link, counts
<1>3. CASE Connect
  BY <1>3 DEF Connect, TypeOK, table, agent, counts
<1>4. QED
  BY <1>1, <1>2, <1>3

LEMMA TypeNext == TypeOK /\ QueueInv /\ TriesPaid /\ [Next]_vars => TypeOK'
<1>1. SUFFICES ASSUME TypeOK, QueueInv, TriesPaid, [Next]_vars PROVE TypeOK'
  OBVIOUS
<1>2. CASE UNCHANGED vars
  BY <1>1, <1>2 DEF TypeOK, vars, server, table, agent, link, counts
<1>3. CASE Next
  BY <1>1, <1>3, QueueType, WorkType, BulkType, WireType, TableType, ScanType, ScheduledType,
     PostType DEF Next
<1>4. QED
  BY <1>1, <1>2, <1>3

-----------------------------------------------------------------------------
(***************************************************************************)
(* The queue: an order is sent for each time one was asked for, or once     *)
(* more after a restart.                                                    *)
(***************************************************************************)
LEMMA Numbers ==
  ASSUME TypeOK
  PROVE  orders \in Nat /\ asked \in Nat /\ faults \in Nat
BY Bounds DEF TypeOK

(* Steps away from the queue leave its side as it is.                       *)
LEMMA QueueKept ==
  ASSUME TypeOK, TypeOK', QueueInv, UNCHANGED <<job, worker, bulk>>,
         \/ orders' = orders /\ asked' = asked
         \/ orders' = orders + 1 /\ asked' = asked + 1,
         faults' \in {faults, faults + 1}
  PROVE  QueueInv'
<1>1. WorkerHasJob' /\ RecordsItsOrder'
  BY DEF QueueInv, WorkerHasJob, RecordsItsOrder
<1>2. OrderToCome' <=> OrderToCome
  BY DEF OrderToCome
<1>3. OrdersPaid'
  BY <1>2, Numbers DEF QueueInv, OrdersPaid
<1>4. QED
  BY <1>1, <1>3 DEF QueueInv

LEMMA WorkQueue == TypeOK /\ TypeOK' /\ QueueInv /\ Work => QueueInv'
<1>1. SUFFICES ASSUME TypeOK, TypeOK', QueueInv, Work PROVE QueueInv'
  OBVIOUS
<1>2. /\ WorkerHasJob /\ RecordsItsOrder /\ OrdersPaid
      /\ orders \in Nat /\ asked \in Nat /\ faults \in Nat
  BY <1>1, Numbers DEF QueueInv
<1>3. CASE WorkerTake
  <2>1. worker'.at = "begun" /\ job' = "active" /\ UNCHANGED <<bulk, orders, asked, faults>>
    BY <1>3 DEF WorkerTake, Idle, counts
  <2>2. OrderToCome /\ OrderToCome'
    BY <1>3, <2>1 DEF WorkerTake, OrderToCome
  <2>3. QED
    BY <1>2, <2>1, <2>2 DEF QueueInv, WorkerHasJob, RecordsItsOrder, OrdersPaid
<1>4. CASE WorkerDelays
  <2>1. worker'.at = "idle" /\ job' = "delayed" /\ UNCHANGED <<bulk, orders, asked, faults>>
    BY <1>4 DEF WorkerDelays, Idle, counts
  <2>2. OrderToCome /\ OrderToCome'
    BY <1>4, <2>1 DEF WorkerDelays, OrderToCome
  <2>3. QED
    BY <1>2, <2>1, <2>2 DEF QueueInv, WorkerHasJob, RecordsItsOrder, OrdersPaid
<1>5. CASE WorkerLoad
  <2>1. /\ worker.at = "begun" /\ worker'.at = "loaded"
        /\ UNCHANGED <<job, bulk, orders, asked, faults>>
    BY <1>1, <1>5 DEF WorkerLoad, TypeOK, Task, counts
  <2>2. OrderToCome /\ OrderToCome'
    BY <2>1 DEF OrderToCome
  <2>3. QED
    BY <1>2, <2>1, <2>2 DEF QueueInv, WorkerHasJob, RecordsItsOrder, OrdersPaid
<1>6. CASE WorkerSkips \/ WorkerDone
  <2>1. worker'.at = "idle" /\ job' = "none" /\ UNCHANGED <<bulk, orders, asked, faults>>
    BY <1>6 DEF WorkerSkips, WorkerDone, Idle, counts
  <2>2. ~OrderToCome'
    BY <2>1 DEF OrderToCome
  <2>3. QED
    BY <1>2, <2>1, <2>2 DEF QueueInv, WorkerHasJob, RecordsItsOrder, OrdersPaid
<1>7. CASE WorkerSend
  <2>1. /\ worker.at = "loaded" /\ worker'.at = "recording" /\ worker'.order = orders'
        /\ orders' = orders + 1 /\ UNCHANGED <<job, bulk, asked, faults>>
    BY <1>1, <1>7 DEF WorkerSend, TypeOK, Task
  <2>2. orders' \in Orders
    BY <1>1, <2>1, NextOrder DEF OrderToCome
  <2>3. job' = "active"
    BY <1>2, <2>1 DEF WorkerHasJob
  <2>4. OrderToCome /\ ~OrderToCome'
    BY <2>1, <2>3 DEF OrderToCome
  <2>5. QED
    BY <1>2, <2>1, <2>2, <2>3, <2>4 DEF QueueInv, WorkerHasJob, RecordsItsOrder, OrdersPaid
<1>8. CASE WorkerRecord
  <2>1. /\ worker.at = "recording" /\ worker'.at = "recording" /\ worker'.order = worker.order
        /\ UNCHANGED <<job, bulk, orders, asked, faults>>
    BY <1>1, <1>8 DEF WorkerRecord, Record, TypeOK, Task, counts
  <2>2. OrderToCome' <=> OrderToCome
    BY <2>1 DEF OrderToCome
  <2>3. QED
    BY <1>2, <2>1, <2>2 DEF QueueInv, WorkerHasJob, RecordsItsOrder, OrdersPaid
<1>9. QED
  BY <1>1, <1>3, <1>4, <1>5, <1>6, <1>7, <1>8 DEF Work

LEMMA QueueNext == TypeOK /\ TypeOK' /\ QueueInv /\ [Next]_vars => QueueInv'
<1>1. SUFFICES ASSUME TypeOK, TypeOK', QueueInv, [Next]_vars PROVE QueueInv'
  OBVIOUS
<1>2. /\ WorkerHasJob /\ RecordsItsOrder /\ OrdersPaid
      /\ orders \in Nat /\ asked \in Nat /\ faults \in Nat
  BY <1>1, Numbers DEF QueueInv
<1>3. CASE Trigger
  <2>1. /\ job = "none" /\ job' = "waiting" /\ asked' = asked + 1
        /\ UNCHANGED <<worker, bulk, orders, faults>>
    BY <1>3 DEF Trigger
  <2>2. ~OrderToCome /\ OrderToCome'
    <3>1. worker.at = "idle"
      BY <1>2, <2>1 DEF WorkerHasJob
    <3>2. QED
      BY <2>1, <3>1 DEF OrderToCome
  <2>3. QED
    BY <1>2, <2>1, <2>2 DEF QueueInv, WorkerHasJob, RecordsItsOrder, OrdersPaid
<1>4. CASE Due \/ Connect
  <2>1. /\ job' = job \/ (job = "delayed" /\ job' = "waiting")
        /\ UNCHANGED <<worker, bulk, orders, asked, faults>>
    BY <1>4 DEF Due, Connect, counts
  <2>2. OrderToCome' <=> OrderToCome
    BY <2>1 DEF OrderToCome
  <2>3. QED
    BY <1>2, <2>1, <2>2 DEF QueueInv, WorkerHasJob, RecordsItsOrder, OrdersPaid
<1>5. CASE BulkSend
  <2>1. /\ orders' = orders + 1 /\ asked' = asked + 1 /\ bulk'.order = orders'
        /\ UNCHANGED <<job, worker, faults>>
    BY <1>5 DEF BulkSend
  <2>2. orders' \in Orders
    BY <1>1, <1>5, <2>1, NextOrder DEF BulkSend
  <2>3. OrderToCome' <=> OrderToCome
    BY <2>1 DEF OrderToCome
  <2>4. QED
    BY <1>2, <2>1, <2>2, <2>3 DEF QueueInv, WorkerHasJob, RecordsItsOrder, OrdersPaid
<1>6. CASE BulkRecord
  <2>1. /\ bulk'.at = "recording" => bulk.at = "recording" /\ bulk'.order = bulk.order
        /\ UNCHANGED <<job, worker, orders, asked, faults>>
    BY <1>1, <1>6 DEF BulkRecord, Record, TypeOK, Task, Idle, counts
  <2>2. OrderToCome' <=> OrderToCome
    BY <2>1 DEF OrderToCome
  <2>3. QED
    BY <1>2, <2>1, <2>2 DEF QueueInv, WorkerHasJob, RecordsItsOrder, OrdersPaid
<1>7. CASE ServerRestart
  <2>1. /\ worker'.at = "idle" /\ bulk'.at = "idle" /\ job' # "active"
        /\ faults' = faults + 1 /\ UNCHANGED <<orders, asked>>
    BY <1>7 DEF ServerRestart, Idle
  <2>2. WorkerHasJob' /\ RecordsItsOrder'
    BY <2>1 DEF WorkerHasJob, RecordsItsOrder
  <2>3. OrdersPaid'
    BY <1>2, <2>1 DEF OrdersPaid
  <2>4. QED
    BY <2>2, <2>3 DEF QueueInv
<1>8. CASE CancelPush \/ CancelMark \/ TakeOrder \/ TakeCancel \/ TimePasses \/ Cleanup
            \/ Disconnect \/ AgentRestart \/ ScheduledScan \/ UNCHANGED vars
  BY <1>1, <1>8, QueueKept
  DEF CancelPush, CancelMark, TakeOrder, TakeCancel, TimePasses, Cleanup, CleanupFind,
      CleanupMark, Disconnect, AgentRestart, ScheduledScan, vars, server, counts
<1>9. ASSUME NEW n \in Orders,
             Begin(n) \/ NothingToSend(n) \/ Collect(n) \/ Resend(n) \/ GiveUp(n)
      PROVE  QueueInv'
  BY <1>1, <1>9, QueueKept DEF Begin, NothingToSend, Collect, Resend, GiveUp, server, counts
<1>10. ASSUME NEW p \in posts, Answer(p) \/ \E t \in Types : Ingest(p, t) PROVE QueueInv'
  BY <1>1, <1>10, QueueKept DEF Answer, Ingest, server, counts
<1>11. QED
  BY <1>1, <1>3, <1>4, <1>5, <1>6, <1>7, <1>8, <1>9, <1>10, WorkQueue DEF Next

-----------------------------------------------------------------------------
(***************************************************************************)
(* The agent: no order reaches a goroutine twice, so none replaces a scan   *)
(* whose cancel function is installed.                                      *)
(***************************************************************************)
(* What is left of the wire is no newer than before, and its scans have not *)
(* begun.                                                                   *)
LEMMA FreshPart ==
  ASSUME TypeOK, WireFresh, NEW d \in Nat, orders' \in Nat, orders' >= orders,
         \A i \in DOMAIN wire' : /\ i \in Nat /\ i + d \in DOMAIN wire
                                 /\ wire'[i] = wire[i + d]
                                 /\ wire'[i] # Cancel => scan'[wire'[i]] = "none",
         \A n \in Orders : n > orders' => scan'[n] = "none"
  PROVE  WireFresh'
<1>1. SUFFICES ASSUME NEW i \in DOMAIN wire', wire'[i] # Cancel
               PROVE  /\ wire'[i] <= orders'
                      /\ \A j \in DOMAIN wire' : wire'[j] = wire'[i] => j = i
  BY DEF WireFresh
<1>2. wire[i + d] \in Orders /\ wire[i + d] <= orders
  BY <1>1, WireEntries DEF WireFresh
<1>3. wire'[i] <= orders'
  BY <1>1, <1>2, Numbers, Bounds
<1>4. ASSUME NEW j \in DOMAIN wire', wire'[j] = wire'[i] PROVE j = i
  <2>1. i + d \in DOMAIN wire /\ j + d \in DOMAIN wire /\ wire[j + d] = wire[i + d]
        /\ wire[i + d] # Cancel /\ i \in Nat /\ j \in Nat
    BY <1>1, <1>4
  <2>2. j + d = i + d
    BY <2>1 DEF WireFresh
  <2>3. QED
    BY <2>1, <2>2
<1>5. QED
  BY <1>3, <1>4

LEMMA FreshKept ==
  ASSUME TypeOK, WireFresh, UNCHANGED <<wire, orders>>,
         \A n \in Orders : scan[n] = "none" => scan'[n] = "none"
  PROVE  WireFresh'
<1>1. \A i \in DOMAIN wire : wire[i] \in Orders \cup {0}
  BY WireEntries
<1>2. QED
  BY <1>1 DEF WireFresh

(* A number that was never used may join, and a cancellation always may.    *)
LEMMA FreshAppended ==
  ASSUME TypeOK, WireFresh, UNCHANGED scan, NEW m \in Orders \cup {0}, wire' = Append(wire, m),
         \/ m = Cancel /\ orders' = orders
         \/ m = orders + 1 /\ orders' = orders + 1
  PROVE  WireFresh'
<1>1. /\ DOMAIN wire' = 1 .. Len(wire) + 1 /\ DOMAIN wire = 1 .. Len(wire) /\ Len(wire) \in Nat
      /\ \A i \in 1 .. Len(wire) : wire'[i] = wire[i] /\ wire[i] \in Orders \cup {0}
      /\ wire'[Len(wire) + 1] = m
  BY Appended, WireEntries
<1>2. orders \in Nat
  BY Numbers
<1>3. \A i \in 1 .. Len(wire) : wire[i] # Cancel => wire[i] <= orders /\ wire[i] # orders + 1
  BY <1>1, <1>2, Bounds DEF WireFresh
<1>4. m # Cancel => m = orders + 1 /\ m \in Orders /\ scan[m] = "none"
  BY <1>2 DEF WireFresh
<1>5. ASSUME NEW i \in DOMAIN wire', wire'[i] # Cancel
      PROVE  /\ wire'[i] <= orders' /\ scan'[wire'[i]] = "none"
             /\ \A j \in DOMAIN wire' : wire'[j] = wire'[i] => j = i
  <2>1. CASE i = Len(wire) + 1
    <3>1. m # Cancel /\ wire'[i] = m
      BY <1>1, <1>5, <2>1
    <3>2. \A j \in 1 .. Len(wire) : wire'[j] # m
      BY <1>1, <1>3, <1>4, <3>1
    <3>3. QED
      BY <1>1, <1>2, <1>4, <2>1, <3>1, <3>2
  <2>2. CASE i \in 1 .. Len(wire)
    <3>1. wire'[i] = wire[i] /\ wire[i] # Cancel /\ wire[i] \in Orders
      BY <1>1, <1>5, <2>2
    <3>2. wire[i] <= orders /\ scan[wire[i]] = "none"
          /\ \A j \in 1 .. Len(wire) : wire[j] = wire[i] => j = i
      BY <1>1, <2>2, <3>1 DEF WireFresh
    <3>3. wire'[Len(wire) + 1] # wire[i]
      BY <1>1, <1>3, <1>4, <2>2, <3>1
    <3>4. QED
      BY <1>1, <1>2, <3>1, <3>2, <3>3, Bounds
  <2>3. QED
    BY <1>1, <1>5, <2>1, <2>2
<1>6. \A n \in Orders : n > orders' => scan'[n] = "none"
  BY <1>2, Bounds DEF WireFresh
<1>7. QED
  BY <1>5, <1>6 DEF WireFresh

AgentInv == WireFresh /\ TriesPaid /\ CancelIsLive

(* The steps of the server that send nothing.                               *)
LEMMA AgentKept ==
  ASSUME TypeOK, TypeOK', AgentInv, UNCHANGED <<agent, wire, orders, faults>>
  PROVE  AgentInv'
<1>1. WireFresh'
  BY FreshKept DEF AgentInv, agent
<1>2. TriesPaid' /\ CancelIsLive'
  BY DEF AgentInv, TriesPaid, CancelIsLive, agent
<1>3. QED
  BY <1>1, <1>2 DEF AgentInv

LEMMA PaidKept ==
  ASSUME TypeOK, TypeOK', TriesPaid, UNCHANGED tries, faults' \in {faults, faults + 1}
  PROVE  TriesPaid'
BY Bounds DEF TypeOK, TriesPaid

(* An upload is the first, or a retry that a fault accounts for.            *)
LEMMA UploadPaid ==
  ASSUME TypeOK, TypeOK', TriesPaid, NEW n \in Orders, NEW try, NEW found, Upload(n, try, found),
         \/ try = 1 /\ faults' = faults
         \/ try = tries[n] + 1 /\ faults' = faults + 1
  PROVE  TriesPaid'
<1>1. \A k \in Orders : tries'[k] = IF k = n THEN try ELSE tries[k]
  BY DEF Upload, TypeOK
<1>2. faults \in Nat /\ faults' \in Nat /\ \A k \in Orders : tries[k] \in Nat
  BY Bounds DEF TypeOK
<1>3. \A k \in Orders : tries[k] <= faults + 1
  BY DEF TriesPaid
<1>4. ASSUME NEW k \in Orders PROVE tries'[k] <= faults' + 1
  BY <1>1, <1>2, <1>3
<1>5. QED
  BY <1>4 DEF TriesPaid

LEMMA EndLives ==
  ASSUME TypeOK, WireFresh, NEW n \in Orders, End(n), scan[n] # "none", UNCHANGED <<wire, orders>>
  PROVE  WireFresh' /\ CancelIsLive'
<1>1. \A k \in Orders : scan[k] = "none" => scan'[k] = "none"
  BY DEF End, TypeOK
<1>2. QED
  BY <1>1, FreshKept DEF End, CancelIsLive

LEMMA SendingLives ==
  ASSUME TypeOK, TypeOK', AgentInv, Work \/ BulkSend \/ BulkRecord, QueueInv
  PROVE  AgentInv'
<1>1. CASE WorkerSend \/ BulkSend
  <2>1. /\ orders' = orders + 1 /\ wire' = Append(wire, orders + 1)
        /\ UNCHANGED <<agent, faults>>
    BY <1>1 DEF WorkerSend, BulkSend
  <2>2. orders + 1 \in Orders
    BY <1>1, NextOrder DEF WorkerSend, BulkSend, OrderToCome
  <2>3. WireFresh'
    BY <2>1, <2>2, FreshAppended DEF AgentInv, agent
  <2>4. TriesPaid' /\ CancelIsLive'
    BY <2>1, PaidKept DEF AgentInv, CancelIsLive, agent
  <2>5. QED
    BY <2>3, <2>4 DEF AgentInv
<1>2. CASE WorkerTake \/ WorkerDelays \/ WorkerLoad \/ WorkerSkips \/ WorkerDone
  BY <1>2, AgentKept
  DEF WorkerTake, WorkerDelays, WorkerLoad, WorkerSkips, WorkerDone, link, counts
<1>3. CASE WorkerRecord \/ BulkRecord
  BY <1>3, AgentKept DEF WorkerRecord, BulkRecord, link, counts
<1>4. QED
  BY <1>1, <1>2, <1>3 DEF Work

LEMMA WireLives ==
  ASSUME TypeOK, TypeOK', AgentInv,
         CancelPush \/ TakeOrder \/ TakeCancel \/ Disconnect \/ AgentRestart \/ ServerRestart
  PROVE  AgentInv'
<1>1. orders \in Nat
  BY Numbers
<1>2. CASE CancelPush
  <2>1. WireFresh'
    <3>1. CASE connected
      BY <1>2, <3>1, FreshAppended DEF CancelPush, AgentInv, agent
    <3>2. CASE ~connected
      BY <1>2, <3>2, FreshKept DEF CancelPush, AgentInv, agent
    <3>3. QED
      BY <3>1, <3>2
  <2>2. QED
    BY <1>2, <2>1, PaidKept DEF CancelPush, AgentInv, CancelIsLive, agent
<1>3. CASE TakeOrder
  <2>1. /\ wire # <<>> /\ wire' = Tail(wire) /\ wire[1] # Cancel /\ 1 \in DOMAIN wire
        /\ wire[1] \in Orders
        /\ \A i \in DOMAIN wire' : /\ i + 1 \in DOMAIN wire /\ i + 1 # 1
                                   /\ wire'[i] = wire[i + 1]
        /\ \A n \in Orders : scan'[n] = IF n = wire[1] THEN "starting" ELSE scan[n]
    BY <1>3, Taken DEF TakeOrder, TypeOK
  <2>2. wire[1] <= orders /\ scan[wire[1]] = "none"
    BY <2>1 DEF AgentInv, WireFresh
  <2>3. \A i \in DOMAIN wire' : i \in Nat /\ wire'[i] \in Orders \cup {0}
    <3>1. wire' \in Seq(Orders \cup {0})
      BY DEF TypeOK
    <3>2. DOMAIN wire' = 1 .. Len(wire') /\ Len(wire') \in Nat
      BY <3>1, LenProperties
    <3>3. QED
      BY <3>1, <3>2, ElementOfSeq
  <2>4. \A i \in DOMAIN wire' : wire'[i] # Cancel => scan'[wire'[i]] = "none"
    <3>1. ASSUME NEW i \in DOMAIN wire', wire'[i] # Cancel PROVE scan'[wire'[i]] = "none"
      <4>1. wire[i + 1] # wire[1] /\ scan[wire[i + 1]] = "none"
        BY <2>1, <3>1 DEF AgentInv, WireFresh
      <4>2. QED
        BY <2>1, <2>3, <3>1, <4>1
    <3>2. QED
      BY <3>1
  <2>5. \A n \in Orders : n > orders' => scan'[n] = "none"
    BY <1>1, <1>3, <2>1, <2>2, Bounds DEF TakeOrder, AgentInv, WireFresh, counts
  <2>6. WireFresh'
    BY <1>1, <1>3, <2>1, <2>3, <2>4, <2>5, FreshPart DEF TakeOrder, AgentInv, counts
  <2>7. CancelIsLive'
    BY <1>3, <2>1, <2>2 DEF TakeOrder, AgentInv, CancelIsLive, TypeOK
  <2>8. QED
    BY <1>3, <2>6, <2>7, PaidKept DEF TakeOrder, AgentInv, counts
<1>4. CASE TakeCancel
  <2>1. /\ wire' = Tail(wire) /\ cancelFn' = 0
        /\ \A i \in DOMAIN wire' : i + 1 \in DOMAIN wire /\ wire'[i] = wire[i + 1]
        /\ \A n \in Orders : scan[n] = "none" => scan'[n] = "none"
    BY <1>4, Taken DEF TakeCancel
  <2>2. \A i \in DOMAIN wire' : i \in Nat /\ wire'[i] \in Orders \cup {0}
    <3>1. wire' \in Seq(Orders \cup {0})
      BY DEF TypeOK
    <3>2. DOMAIN wire' = 1 .. Len(wire') /\ Len(wire') \in Nat
      BY <3>1, LenProperties
    <3>3. QED
      BY <3>1, <3>2, ElementOfSeq
  <2>3. \A i \in DOMAIN wire' : wire'[i] # Cancel => scan'[wire'[i]] = "none"
    BY <2>1, <2>2 DEF AgentInv, WireFresh
  <2>4. WireFresh'
    BY <1>1, <1>4, <2>1, <2>2, <2>3, FreshPart DEF TakeCancel, AgentInv, WireFresh, counts
  <2>5. QED
    BY <1>4, <2>1, <2>4, PaidKept DEF TakeCancel, AgentInv, CancelIsLive, counts
<1>5. CASE Disconnect \/ ServerRestart
  <2>1. /\ UNCHANGED <<scan, cancelFn, tries, orders>> /\ faults' \in {faults, faults + 1}
        /\ \A i \in DOMAIN wire' : i \in DOMAIN wire /\ wire'[i] = wire[i]
    BY <1>5, Lost DEF Disconnect, ServerRestart, agent, counts
  <2>2. \A i \in DOMAIN wire' : i \in Nat /\ i + 0 = i
    BY <2>1, WireEntries
  <2>3. WireFresh'
    BY <1>1, <2>1, <2>2, FreshPart DEF AgentInv, WireFresh
  <2>4. QED
    BY <2>1, <2>3, PaidKept DEF AgentInv, CancelIsLive
<1>6. CASE AgentRestart
  <2>1. WireFresh'
    BY <1>6 DEF AgentRestart, AgentInv, WireFresh
  <2>2. QED
    BY <1>6, <2>1, PaidKept DEF AgentRestart, AgentInv, CancelIsLive
<1>7. QED
  BY <1>2, <1>3, <1>4, <1>5, <1>6

LEMMA ScanLives ==
  ASSUME TypeOK, TypeOK', AgentInv, NEW n \in Orders,
         Begin(n) \/ NothingToSend(n) \/ Collect(n) \/ Resend(n) \/ GiveUp(n)
  PROVE  AgentInv'
<1>1. CASE Begin(n)
  <2>1. \A k \in Orders : scan'[k] = IF k = n THEN "running" ELSE scan[k]
    BY <1>1 DEF Begin, TypeOK
  <2>2. WireFresh'
    BY <1>1, <2>1, FreshKept DEF Begin, AgentInv, link, counts
  <2>3. QED
    BY <1>1, <2>1, <2>2, PaidKept DEF Begin, AgentInv, CancelIsLive, counts
<1>2. CASE NothingToSend(n)
  BY <1>2, EndLives, PaidKept DEF NothingToSend, AgentInv, link, counts
<1>3. CASE Collect(n)
  <2>1. \A k \in Orders : scan'[k] = IF k = n THEN "sending" ELSE scan[k]
    BY <1>3 DEF Collect, TypeOK
  <2>2. WireFresh'
    BY <1>3, <2>1, FreshKept DEF Collect, AgentInv, link, counts
  <2>3. CancelIsLive'
    BY <1>3, <2>1 DEF Collect, AgentInv, CancelIsLive, TypeOK
  <2>4. TriesPaid'
    BY <1>3, UploadPaid DEF Collect, AgentInv, counts
  <2>5. QED
    BY <2>2, <2>3, <2>4 DEF AgentInv
<1>4. CASE Resend(n)
  <2>1. TriesPaid'
    BY <1>4, UploadPaid DEF Resend, AgentInv
  <2>2. WireFresh' /\ CancelIsLive'
    BY <1>4, FreshKept DEF Resend, AgentInv, CancelIsLive, link
  <2>3. QED
    BY <2>1, <2>2 DEF AgentInv
<1>5. CASE GiveUp(n)
  BY <1>5, EndLives, PaidKept DEF GiveUp, AgentInv, link
<1>6. QED
  BY <1>1, <1>2, <1>3, <1>4, <1>5

LEMMA ScheduledLives ==
  ASSUME TypeOK, TypeOK', QueueInv, AgentInv, ScheduledScan
  PROVE  AgentInv'
<1>1. orders' = orders + 1 /\ orders \in Nat /\ orders' \in Orders
      /\ UNCHANGED <<scan, cancelFn, wire, faults>>
  BY Numbers, NextOrder DEF ScheduledScan, link
<1>2. \A i \in DOMAIN wire : i \in Nat /\ i + 0 = i
  BY WireEntries
<1>3. WireFresh'
  BY <1>1, <1>2, FreshPart, Bounds DEF AgentInv, WireFresh
<1>4. TriesPaid'
  BY <1>1, UploadPaid DEF ScheduledScan, AgentInv
<1>5. QED
  BY <1>1, <1>3, <1>4 DEF AgentInv, CancelIsLive

LEMMA AgentNext == TypeOK /\ TypeOK' /\ QueueInv /\ AgentInv /\ [Next]_vars => AgentInv'
<1>1. SUFFICES ASSUME TypeOK, TypeOK', QueueInv, AgentInv, [Next]_vars PROVE AgentInv'
  OBVIOUS
<1>2. CASE Trigger \/ Due \/ CancelMark \/ TimePasses \/ Cleanup \/ Connect \/ UNCHANGED vars
  BY <1>1, <1>2, AgentKept
  DEF Trigger, Due, CancelMark, TimePasses, Cleanup, CleanupFind, CleanupMark, Connect,
      vars, link, counts
<1>3. ASSUME NEW p \in posts, Answer(p) PROVE AgentInv'
  <2>1. p.order \in Orders
    BY <1>1 DEF TypeOK, Post
  <2>2. CASE End(p.order) /\ scan[p.order] = "sending"
    BY <1>1, <1>3, <2>1, <2>2, EndLives, PaidKept DEF Answer, AgentInv, link, counts
  <2>3. CASE UNCHANGED <<scan, cancelFn, results>>
    BY <1>1, <1>3, <2>3, AgentKept DEF Answer, agent, link, counts
  <2>4. QED
    BY <1>3, <2>2, <2>3 DEF Answer
<1>4. ASSUME NEW p \in posts, NEW t \in Types, Ingest(p, t) PROVE AgentInv'
  BY <1>1, <1>4, AgentKept DEF Ingest, link, counts
<1>5. QED
  BY <1>1, <1>2, <1>3, <1>4, SendingLives, WireLives, ScanLives, ScheduledLives DEF Next

-----------------------------------------------------------------------------
(***************************************************************************)
(* The rows: what may be written over never holds results.                  *)
(***************************************************************************)
Kept == \A k \in DOMAIN rows :
          rows[k] = "reported" => k \in DOMAIN rows' /\ rows'[k] = rows[k]

LEMMA TableKept ==
  ASSUME RowsTold, UNCHANGED rows, stale' \in {stale, {}}
  PROVE  RowsTold' /\ Kept
BY DEF RowsTold, Kept

(* A placeholder is written over nothing but itself.                        *)
LEMMA RecordTold ==
  ASSUME RowsTold, NEW task, NEW type, Record(task, type)
  PROVE  RowsTold' /\ Kept
<1> DEFINE new == Row(task.order, type, 0)
<1>1. new.try = 0
  BY DEF Row
<1>2. /\ DOMAIN rows' = DOMAIN rows \cup {new} /\ stale' = stale
      /\ \A k \in DOMAIN rows' : rows'[k] = IF k = new THEN "running" ELSE rows[k]
  BY DEF Record
<1> HIDE DEF new
<1>3. RowsTold'
  BY <1>1, <1>2 DEF RowsTold
<1>4. Kept
  BY <1>1, <1>2 DEF RowsTold, Kept
<1>5. QED
  BY <1>3, <1>4

(* Results replace the placeholders, and go to a row of their own.          *)
LEMMA IngestTold ==
  ASSUME TypeOK, RowsTold, NEW p \in posts, NEW t \in Types, Ingest(p, t)
  PROVE  RowsTold' /\ Kept
<1> DEFINE new == Row(p.order, t, p.try)
<1>1. new.try # 0
  BY Bounds DEF Row, TypeOK, Post
<1>2. /\ DOMAIN rows' = (DOMAIN rows \ Running) \cup {new} /\ stale' = stale
      /\ \A k \in DOMAIN rows' : rows'[k] = IF k = new THEN "reported" ELSE rows[k]
  BY DEF Ingest
<1> HIDE DEF new
<1>3. RowsTold'
  BY <1>1, <1>2 DEF RowsTold
<1>4. Kept
  BY <1>2 DEF Kept, Running
<1>5. QED
  BY <1>3, <1>4

LEMMA TableTold ==
  ASSUME RowsTold, CancelMark \/ TimePasses \/ Cleanup
  PROVE  RowsTold' /\ Kept
<1>1. CASE CancelMark
  BY <1>1 DEF CancelMark, RowsTold, Kept, Running
<1>2. CASE TimePasses
  BY <1>2 DEF TimePasses, RowsTold, Kept, Running
<1>3. CASE CleanupFind
  BY <1>3 DEF CleanupFind, RowsTold, Kept, Running
<1>4. CASE CleanupMark
  BY <1>4 DEF CleanupMark, RowsTold, Kept
<1>5. QED
  BY <1>1, <1>2, <1>3, <1>4 DEF Cleanup

LEMMA RowsNext == TypeOK /\ RowsTold /\ [Next]_vars => RowsTold' /\ Kept
<1>1. SUFFICES ASSUME TypeOK, RowsTold, [Next]_vars PROVE RowsTold' /\ Kept
  OBVIOUS
<1>2. CASE WorkerRecord \/ BulkRecord
  BY <1>1, <1>2, RecordTold DEF WorkerRecord, BulkRecord
<1>3. CASE Trigger \/ Due \/ WorkerTake \/ WorkerDelays \/ WorkerLoad \/ WorkerSkips \/ WorkerSend
            \/ WorkerDone \/ BulkSend \/ CancelPush \/ TakeOrder \/ TakeCancel \/ ScheduledScan
            \/ Connect \/ Disconnect \/ AgentRestart \/ ServerRestart \/ UNCHANGED vars
  <2>1. rows' = rows /\ stale' \in {stale, {}}
    BY <1>3
    DEF Trigger, Due, WorkerTake, WorkerDelays, WorkerLoad, WorkerSkips, WorkerSend, WorkerDone,
        BulkSend, CancelPush, TakeOrder, TakeCancel, ScheduledScan, Connect, Disconnect,
        AgentRestart, ServerRestart, vars, table
  <2>2. QED
    BY <1>1, <2>1, TableKept
<1>4. ASSUME NEW n \in Orders,
             Begin(n) \/ NothingToSend(n) \/ Collect(n) \/ Resend(n) \/ GiveUp(n)
      PROVE  RowsTold' /\ Kept
  BY <1>1, <1>4, TableKept DEF Begin, NothingToSend, Collect, Resend, GiveUp, table
<1>5. ASSUME NEW p \in posts, Answer(p) PROVE RowsTold' /\ Kept
  BY <1>1, <1>5, TableKept DEF Answer, table
<1>6. QED
  BY <1>1, <1>2, <1>3, <1>4, <1>5, IngestTold, TableTold DEF Next, Work

-----------------------------------------------------------------------------
LEMMA InitScans == Init => ScanInv
<1>1. SUFFICES ASSUME Init PROVE ScanInv
  OBVIOUS
<1>2. 0 \in 0 .. MaxFaults + 1 /\ 0 \in 0 .. MaxOrders + MaxFaults /\ 0 \in 0 .. MaxOrders
      /\ 0 \in 0 .. MaxCancels /\ 0 \in 0 .. MaxFaults
  BY Bounds
<1>3. <<>> \in Seq(Orders \cup {Cancel}) /\ DOMAIN <<>> = {}
  OBVIOUS
<1>4. Idle \in Task
  BY DEF Idle, Task
<1>5. TypeOK
  BY <1>1, <1>2, <1>3, <1>4 DEF Init, TypeOK, Stage
<1>6. QueueInv
  BY <1>1 DEF Init, QueueInv, WorkerHasJob, RecordsItsOrder, OrdersPaid, OrderToCome, Idle
<1>7. WireFresh /\ TriesPaid /\ CancelIsLive /\ RowsTold
  BY <1>1, <1>3 DEF Init, WireFresh, TriesPaid, CancelIsLive, RowsTold
<1>8. QED
  BY <1>5, <1>6, <1>7 DEF ScanInv

LEMMA ScanNext == ScanInv /\ [Next]_vars => ScanInv' /\ Kept
<1>1. SUFFICES ASSUME ScanInv, [Next]_vars PROVE ScanInv' /\ Kept
  OBVIOUS
<1>2. TypeOK'
  BY <1>1, TypeNext DEF ScanInv
<1>3. QueueInv' /\ AgentInv' /\ RowsTold' /\ Kept
  BY <1>1, <1>2, QueueNext, AgentNext, RowsNext DEF ScanInv, AgentInv
<1>4. QED
  BY <1>2, <1>3 DEF ScanInv, AgentInv

(* Every reachable state is of the types the module states: the orders are  *)
(* no more than were asked for and lost, the uploads no more than failed.   *)
THEOREM TypeCorrect == Spec => []TypeOK
<1>1. ScanInv => TypeOK
  BY DEF ScanInv
<1>2. ScanInv /\ [Next]_vars => ScanInv'
  BY ScanNext
<1>3. QED
  BY InitScans, <1>1, <1>2, PTL DEF Spec

(* A cancellation is never spent on a scan that is over, however orders,    *)
(* cancellations, goroutines and restarts follow each other.                *)
THEOREM CancelReachesALiveScan == Spec => []CancelIsLive
<1>1. ScanInv => CancelIsLive
  BY DEF ScanInv
<1>2. ScanInv /\ [Next]_vars => ScanInv'
  BY ScanNext
<1>3. QED
  BY InitScans, <1>1, <1>2, PTL DEF Spec

(* The results of a scan are never written over nor removed: not by a       *)
(* cancellation, a cleanup that found its rows earlier, nor a late record.  *)
THEOREM ResultsAreKept == Spec => ResultsStay
<1>1. ScanInv /\ [Next]_vars => ScanInv' /\ [Kept]_vars
  BY ScanNext
<1>2. QED
  BY InitScans, <1>1, PTL DEF Spec, ResultsStay, Kept
=============================================================================
