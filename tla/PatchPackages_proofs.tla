----------------------- MODULE PatchPackages_proofs -----------------------
(***************************************************************************)
(* Proofs about PatchPackages, for any packages, policies and versions, any *)
(* number of goroutines that collect and of report handlers at the same     *)
(* time, and any number of retries and repeated executions.                 *)
(***************************************************************************)
EXTENDS PatchPackages, TLAPS, FiniteSetTheorems

USE DEF Versions, NoVersion, Inventory, ActiveHost, CompletedHost, HostStatus

(* The results of an execution: a function from some of the packages.       *)
LEMMA ResultsShape ==
  ASSUME NEW f
  PROVE  f \in Results <=> \E S \in SUBSET Packages : f \in [S -> Result]
BY DEF Results

LEMMA ResultsAre ==
  ASSUME NEW f \in Results
  PROVE  /\ DOMAIN f \subseteq Packages
         /\ \A p \in DOMAIN f : f[p] \in Result
BY ResultsShape

(* A package that was just dealt with joins the results.                    *)
LEMMA ResultsGrow ==
  ASSUME NEW f \in Results, NEW p \in Packages, NEW result \in Result
  PROVE  [q \in DOMAIN f \cup {p} |-> IF q = p THEN result ELSE f[q]] \in Results
<1>1. DOMAIN f \cup {p} \in SUBSET Packages
  BY ResultsAre
<1>2. [q \in DOMAIN f \cup {p} |-> IF q = p THEN result ELSE f[q]] \in [DOMAIN f \cup {p} -> Result]
  BY ResultsAre
<1>3. QED
  BY <1>1, <1>2, ResultsShape

LEMMA NoResults == <<>> \in Results
<1>1. <<>> \in [{} -> Result]
  OBVIOUS
<1>2. QED
  BY <1>1, ResultsShape

(* A collector that is not idle has an assignment in hand.                  *)
LEMMA CollectorShape ==
  ASSUME NEW c \in CollectorState
  PROVE  /\ c.at # "idle" <=> c # Idle
         /\ c # Idle => /\ c.at \in {"offered", "snapshot", "execute"}
                        /\ c.packages \in SUBSET Packages
                        /\ c.done \in Results
                        /\ c.expired \in BOOLEAN
                        /\ c = [at |-> c.at, packages |-> c.packages, done |-> c.done,
                                expired |-> c.expired]
BY DEF CollectorState, Idle

LEMMA HandlerShape ==
  ASSUME NEW h \in HandlerState
  PROVE  /\ h.at = "rows" => /\ h.report \in Reports /\ h.left \in SUBSET Packages
                             /\ h = [at |-> "rows", report |-> h.report, left |-> h.left]
         /\ h.at = "host" => h.report \in Reports /\ h.counts \in Counts
         /\ h = Idle => h.at = "idle"
BY DEF HandlerState, Idle

(* The counts a handler takes are numbers of packages.                      *)
LEMMA TallyIsCounts ==
  ASSUME selected \subseteq Packages
  PROVE  Tally \in Counts
<1>1. IsFiniteSet(Packages) /\ Cardinality(Packages) \in Nat
  BY PackagesAssumption, FS_CardinalityType
<1>2. ASSUME NEW S \in SUBSET Packages PROVE Cardinality(S) \in 0 .. Cardinality(Packages)
  BY <1>1, FS_Subset, FS_CardinalityType
<1>3. QED
  BY <1>2 DEF Tally, Counts

(* filterPackagesForPolicy returns only packages the policy permits.        *)
LEMMA FilterIsSound ==
  ASSUME NEW pol \in PolicyChoices, NEW list \in Inventory, NEW p \in FilterPackages(pol, list)
  PROVE  p \in Packages /\ Permits(pol, list, p)
<1>1. p \in Packages /\ list[p].current < list[p].available
      /\ (pol.type = "security_only" => p \in SecurityPackages)
  BY DEF FilterPackages, AfterIncludes, Candidates, NeedsUpdate
<1>2. ~NamedBy(pol, "exclude", p)
  BY DEF FilterPackages, NamedBy, SomeMatches, OfKind
<1>3. ASSUME ~NamedBy(pol, "include", p), NEW i \in DOMAIN pol.filters
      PROVE  pol.filters[i].kind = "exclude"
  <2>1. OfKind(pol.filters, "include") = {}
    BY <1>3 DEF FilterPackages, AfterIncludes, NamedBy, SomeMatches, OfKind
  <2>2. pol.filters[i] \in Filter
    BY PolicyAssumption DEF Policy
  <2>3. QED
    BY <2>1, <2>2 DEF OfKind, Filter
<1>4. QED
  BY <1>1, <1>2, <1>3 DEF Permits

-----------------------------------------------------------------------------
(***************************************************************************)
(* Type correctness, action by action where a step is not plain.            *)
(***************************************************************************)
LEMMA InitType == Init => TypeOK
<1>1. SUFFICES ASSUME Init PROVE TypeOK
  OBVIOUS
<1>2. installed \in [Packages -> Versions] /\ latest \in [Packages -> Versions]
  BY <1>1, LimitsAssumption DEF Init
<1>3. AllListed \in Inventory
  BY <1>2 DEF AllListed
<1>4. results \in [Packages -> Result]
  BY <1>1 DEF Init, Result
<1>5. counts \in Counts
  BY <1>1, PackagesAssumption, FS_CardinalityType DEF Init, Counts
<1>6. handler \in [Slots -> HandlerState] /\ collector \in [Collectors -> CollectorState]
  BY <1>1 DEF Init, Idle, HandlerState, CollectorState
<1>7. QED
  BY <1>1, <1>2, <1>3, <1>4, <1>5, <1>6, LimitsAssumption DEF Init, TypeOK, Idle, Snapshots

(* The state of one goroutine is replaced.                                  *)
LEMMA OneCollector ==
  ASSUME TypeOK, NEW c \in Collectors, NEW state \in CollectorState,
         collector' = [collector EXCEPT ![c] = state]
  PROVE  /\ collector' \in [Collectors -> CollectorState]
         /\ \A d \in Collectors : collector'[d] = IF d = c THEN state ELSE collector[d]
BY DEF TypeOK

(* What the agent hands to Finish is a result, and leaves it executing.     *)
LEMMA FinishType ==
  ASSUME TypeOK, NEW c \in Collectors, collector[c].at = "execute",
         NEW p \in Packages, NEW result \in Result, Finish(c, p, result)
  PROVE  /\ collector' \in [Collectors -> CollectorState]
         /\ \A d \in Collectors \ {c} : collector'[d] = collector[d]
         /\ collector[c] # Idle /\ collector'[c] # Idle
         /\ collector'[c].packages = collector[c].packages
         /\ collector'[c].expired = collector[c].expired
         /\ collector'[c].done = [q \in DOMAIN collector[c].done \cup {p} |->
                                    IF q = p THEN result ELSE collector[c].done[q]]
<1> DEFINE now == collector[c]
<1>1. collector \in [Collectors -> CollectorState] /\ now \in CollectorState
  BY DEF TypeOK
<1>2. now # Idle
  BY DEF Idle
<1>3. now.done \in Results /\ now.packages \in SUBSET Packages /\ now.expired \in BOOLEAN
      /\ now = [at |-> "execute", packages |-> now.packages, done |-> now.done,
                expired |-> now.expired]
  BY <1>1, <1>2, CollectorShape
<1> DEFINE done == [q \in DOMAIN now.done \cup {p} |-> IF q = p THEN result ELSE now.done[q]]
           next == [at |-> "execute", packages |-> now.packages, done |-> done,
                    expired |-> now.expired]
<1>4. done \in Results
  BY <1>3, ResultsGrow
<1>5. next \in CollectorState
  BY <1>3, <1>4 DEF CollectorState
<1>6. collector' = [collector EXCEPT ![c] = [now EXCEPT !.done = done]]
  BY DEF Finish
<1>7. [now EXCEPT !.done = done] = next
  BY <1>3
<1>8. collector' = [collector EXCEPT ![c] = next]
  BY <1>6, <1>7
<1>9. next # Idle
  BY DEF Idle
<1>10. QED
  BY <1>2, <1>5, <1>8, <1>9, OneCollector

LEMMA UpdatePackageType ==
  ASSUME TypeOK, NEW c \in Collectors, NEW p \in Packages, UpdatePackage(c, p)
  PROVE  TypeOK'
<1>1. PICK ok \in BOOLEAN, to \in {installed[p], latest[p]} :
        /\ installed' = [installed EXCEPT ![p] = to]
        /\ \E version \in {to, NoVersion} : Finish(c, p, ResultStatus(p, ok, version))
        /\ achieved' = IF ok THEN achieved \cup {p} ELSE achieved
  BY DEF UpdatePackage
<1>2. PICK version \in {to, NoVersion} : Finish(c, p, ResultStatus(p, ok, version))
  BY <1>1
<1>3. to \in Versions
  BY <1>1 DEF TypeOK
<1>4. ResultStatus(p, ok, version) \in Result
  BY DEF ResultStatus, Result
<1>5. collector' \in [Collectors -> CollectorState]
  BY <1>2, <1>4, FinishType DEF UpdatePackage
<1>6. installed' \in [Packages -> Versions]
  BY <1>1, <1>3 DEF TypeOK
<1>7. asked' \subseteq Packages /\ achieved' \subseteq Packages
  BY <1>1 DEF UpdatePackage, TypeOK
<1>8. QED
  BY <1>5, <1>6, <1>7 DEF UpdatePackage, TypeOK, job

LEMMA IdleCollector == Idle \in CollectorState
BY DEF Idle, CollectorState

LEMMA SendReportType ==
  ASSUME TypeOK, NEW c \in Collectors, SendReport(c)
  PROVE  TypeOK'
<1>1. CaptureSnapshot \in Snapshots /\ {} \in Snapshots
  BY DEF TypeOK, CaptureSnapshot, Snapshots
<1>2. collector[c].done \in Results
  BY CollectorShape DEF TypeOK, SendReport, Idle
<1>3. OverallStatus(collector[c].done) \in {"failed"} \cup CompletedHost
  BY DEF OverallStatus
<1>4. MaxSends \in 1 .. MaxSends
  BY LimitsAssumption
<1>5. \A captured \in BOOLEAN :
        [done |-> collector[c].done, status |-> OverallStatus(collector[c].done),
         post |-> IF manager = "unix" /\ captured THEN CaptureSnapshot ELSE {},
         sends |-> MaxSends] \in Reports
  BY <1>1, <1>2, <1>3, <1>4 DEF Reports
<1>6. calls' \subseteq Reports
  BY <1>5, CapturesAssumption DEF SendReport, TypeOK
<1>7. collector' \in [Collectors -> CollectorState]
  BY IdleCollector, OneCollector DEF SendReport
<1>8. QED
  BY <1>6, <1>7 DEF SendReport, TypeOK, host, job, history

(* What each step of a goroutine that is no Finish leaves in its state.     *)
LEMMA FetchKeeps ==
  ASSUME TypeOK, NEW c \in Collectors, Fetch(c)
  PROVE  /\ collector' \in [Collectors -> CollectorState]
         /\ \A d \in Collectors \ {c} : collector'[d] = collector[d]
         /\ collector'[c].packages = selected /\ collector'[c].done = <<>>
<1> DEFINE next == [at |-> "offered", packages |-> selected, done |-> <<>>, expired |-> FALSE]
<1>1. next \in CollectorState
  BY NoResults DEF CollectorState, TypeOK
<1>2. QED
  BY <1>1, OneCollector DEF Fetch

LEMMA StepKeeps ==
  ASSUME TypeOK, NEW c \in Collectors, Announce(c) \/ ContextEnds(c)
  PROVE  /\ collector' \in [Collectors -> CollectorState]
         /\ \A d \in Collectors \ {c} : collector'[d] = collector[d]
         /\ collector[c] # Idle /\ collector'[c] # Idle
         /\ collector'[c].packages = collector[c].packages
         /\ collector'[c].done = collector[c].done
         /\ collector[c].expired => collector'[c].expired
<1> DEFINE now == collector[c]
<1>1. now \in CollectorState
  BY DEF TypeOK
<1>2. now.at # "idle"
  BY DEF Announce, ContextEnds
<1>3. now # Idle /\ now.done \in Results /\ now.packages \in SUBSET Packages
      /\ now.at \in {"offered", "snapshot", "execute"} /\ now.expired \in BOOLEAN
      /\ now = [at |-> now.at, packages |-> now.packages, done |-> now.done,
                expired |-> now.expired]
  BY <1>1, <1>2, CollectorShape
<1>4. PICK next \in CollectorState :
        /\ collector' = [collector EXCEPT ![c] = next]
        /\ next # Idle /\ next.packages = now.packages /\ next.done = now.done
        /\ now.expired => next.expired
  <2>1. CASE Announce(c)
    <3> DEFINE at == IF now.at = "offered" THEN "snapshot" ELSE "execute"
               next == [now EXCEPT !.at = at]
    <3>1. next = [at |-> at, packages |-> now.packages, done |-> now.done,
                  expired |-> now.expired]
      BY <1>3
    <3>2. next \in CollectorState /\ next # Idle
      BY <1>3, <3>1 DEF CollectorState, Idle
    <3>3. collector' = [collector EXCEPT ![c] = next]
      BY <2>1 DEF Announce
    <3>4. QED
      BY <3>1, <3>2, <3>3
  <2>2. CASE ContextEnds(c)
    <3> DEFINE next == [now EXCEPT !.expired = TRUE]
    <3>1. next \in CollectorState /\ next # Idle
      BY <1>3 DEF CollectorState, Idle
    <3>2. next.packages = now.packages /\ next.done = now.done /\ next.expired
      BY <1>3
    <3>3. collector' = [collector EXCEPT ![c] = next]
      BY <2>2 DEF ContextEnds
    <3>4. QED
      BY <3>1, <3>2, <3>3
  <2>3. QED
    BY <2>1, <2>2
<1>5. QED
  BY <1>3, <1>4, OneCollector

LEMMA AgentStepType == TypeOK /\ AgentStep => TypeOK'
<1>1. SUFFICES ASSUME TypeOK, AgentStep PROVE TypeOK'
  OBVIOUS
<1>2. ASSUME NEW c \in Collectors, Fetch(c) PROVE TypeOK'
  <2>1. collections' \in Nat
    BY <1>1, <1>2 DEF Fetch, TypeOK
  <2>2. QED
    BY <1>1, <1>2, <2>1, FetchKeeps DEF Fetch, TypeOK, host, job, history
<1>3. ASSUME NEW c \in Collectors, OfferLost(c) PROVE TypeOK'
  <2>1. collector' \in [Collectors -> CollectorState]
    BY <1>1, <1>3, IdleCollector, OneCollector DEF OfferLost
  <2>2. QED
    BY <1>1, <1>3, <2>1 DEF OfferLost, TypeOK, host, job, history
<1>4. ASSUME NEW c \in Collectors, Announce(c) PROVE TypeOK'
  <2>1. asked' \subseteq Packages /\ assignment' \in HostStatus
    BY <1>1, <1>4 DEF Announce, TypeOK, Commanded
  <2>2. QED
    BY <1>1, <1>4, <2>1, StepKeeps DEF Announce, TypeOK, host
<1>5. ASSUME NEW c \in Collectors, NEW p \in Packages, UpdatePackage(c, p) PROVE TypeOK'
  BY <1>1, <1>5, UpdatePackageType
<1>6. ASSUME NEW c \in Collectors, NEW p \in Packages, SkipPackage(c, p) PROVE TypeOK'
  <2>1. "skipped" \in Result
    BY DEF Result
  <2>2. collector' \in [Collectors -> CollectorState]
    BY <1>1, <1>6, <2>1, FinishType DEF SkipPackage
  <2>3. QED
    BY <1>1, <1>6, <2>2 DEF SkipPackage, TypeOK, host, job, history
<1>7. ASSUME NEW c \in Collectors, ContextEnds(c) PROVE TypeOK'
  BY <1>1, <1>7, StepKeeps DEF ContextEnds, TypeOK, host, job, history
<1>8. ASSUME NEW c \in Collectors, SendReport(c) PROVE TypeOK'
  BY <1>1, <1>8, SendReportType
<1>9. CASE AgentCrash
  <2>1. collector' \in [Collectors -> CollectorState]
    BY <1>9, IdleCollector DEF AgentCrash
  <2>2. QED
    BY <1>1, <1>9, <2>1 DEF AgentCrash, TypeOK, host, job, history
<1>10. QED
  BY <1>1, <1>2, <1>3, <1>4, <1>5, <1>6, <1>7, <1>8, <1>9 DEF AgentStep

(* A handler that ends leaves its slot idle.                                *)
LEMMA IdleType ==
  ASSUME TypeOK, NEW r \in Slots, Becomes(r, Idle)
  PROVE  /\ handler' \in [Slots -> HandlerState]
         /\ \A s \in Slots : handler'[s].at = "rows" =>
              handler'[s].left \subseteq DOMAIN handler'[s].report.done
<1>1. \A s \in Slots : handler'[s] = IF s = r THEN Idle ELSE handler[s]
  BY DEF Becomes, TypeOK
<1>2. Idle \in HandlerState /\ Idle.at = "idle"
  BY DEF Idle, HandlerState
<1>3. handler' \in [Slots -> HandlerState]
  BY <1>2 DEF Becomes, TypeOK
<1>4. QED
  BY <1>1, <1>2, <1>3 DEF TypeOK

LEMMA ResentType ==
  ASSUME NEW m \in Reports
  PROVE  Resent(m) \subseteq Reports
<1>1. m = [done |-> m.done, status |-> m.status, post |-> m.post, sends |-> m.sends]
      /\ m.done \in Results /\ m.status \in {"failed"} \cup CompletedHost
      /\ m.post \in Snapshots /\ m.sends \in 1 .. MaxSends
  BY DEF Reports
<1>2. CASE m.sends > 1
  <2>1. [m EXCEPT !.sends = @ - 1] =
          [done |-> m.done, status |-> m.status, post |-> m.post, sends |-> m.sends - 1]
    BY <1>1
  <2>2. m.sends - 1 \in 1 .. MaxSends
    BY <1>1, <1>2, LimitsAssumption
  <2>3. QED
    BY <1>1, <1>2, <2>1, <2>2 DEF Resent, Reports
<1>3. CASE ~(m.sends > 1)
  BY <1>3 DEF Resent
<1>4. QED
  BY <1>2, <1>3

LEMMA ReportStepType == TypeOK /\ ReportStep => TypeOK'
<1>1. SUFFICES ASSUME TypeOK, ReportStep PROVE TypeOK'
  OBVIOUS
<1>2. ASSUME NEW r \in Slots, NEW m \in calls, ReportBegin(r, m) PROVE TypeOK'
  <2>1. m \in Reports /\ DOMAIN m.done \in SUBSET Packages
    BY <1>1, ResultsAre DEF TypeOK, Reports
  <2>2. Resent(m) \subseteq Reports
    BY <2>1, ResentType
  <2>3. calls' \subseteq Reports
    BY <1>1, <1>2, <2>2 DEF ReportBegin, TypeOK
  <2>4. handler' \in [Slots -> HandlerState]
        /\ \A s \in Slots : handler'[s] =
             IF s = r THEN [at |-> "rows", report |-> m, left |-> DOMAIN m.done] ELSE handler[s]
    BY <1>1, <1>2, <2>1 DEF ReportBegin, Becomes, TypeOK, HandlerState
  <2>5. clashed' \in BOOLEAN
    BY <1>1, <1>2 DEF ReportBegin, TypeOK, Contradicts
  <2>6. QED
    BY <1>1, <1>2, <2>3, <2>4, <2>5 DEF ReportBegin, TypeOK, host, job
<1>3. ASSUME NEW r \in Slots, ReportRow(r) PROVE TypeOK'
  <2>1. PICK p \in handler[r].left :
          /\ results' = [results EXCEPT ![p] = handler[r].report.done[p]]
          /\ Becomes(r, [handler[r] EXCEPT !.left = @ \ {p}])
    BY <1>3 DEF ReportRow
  <2>2. /\ handler[r].at = "rows" /\ handler[r] \in HandlerState
        /\ handler[r].report \in Reports /\ handler[r].left \subseteq Packages
        /\ handler[r].left \subseteq DOMAIN handler[r].report.done
    BY <1>1, <1>3, HandlerShape DEF ReportRow, TypeOK
  <2>3. handler[r].report.done[p] \in Result
    BY <2>2, ResultsAre DEF Reports
  <2>4. results' \in [Packages -> Result]
    BY <1>1, <2>1, <2>2, <2>3 DEF TypeOK
  <2>5. handler' \in [Slots -> HandlerState]
        /\ \A s \in Slots : handler'[s] =
             IF s = r THEN [at |-> "rows", report |-> handler[r].report,
                            left |-> handler[r].left \ {p}]
                      ELSE handler[s]
    <3>1. [handler[r] EXCEPT !.left = @ \ {p}] =
            [at |-> "rows", report |-> handler[r].report, left |-> handler[r].left \ {p}]
      BY <2>2, HandlerShape
    <3>2. [at |-> "rows", report |-> handler[r].report, left |-> handler[r].left \ {p}]
            \in HandlerState
      BY <2>2 DEF HandlerState
    <3>3. QED
      BY <1>1, <2>1, <3>1, <3>2 DEF Becomes, TypeOK
  <2>6. \A s \in Slots : handler'[s].at = "rows" =>
          handler'[s].left \subseteq DOMAIN handler'[s].report.done
    <3>1. \A s \in Slots \ {r} : handler'[s] = handler[s]
      BY <2>5
    <3>2. handler'[r].left \subseteq handler[r].left /\ handler'[r].report = handler[r].report
      BY <2>5
    <3>3. QED
      BY <1>1, <2>2, <3>1, <3>2 DEF TypeOK
  <2>7. QED
    BY <1>1, <1>3, <2>4, <2>5, <2>6 DEF ReportRow, TypeOK, host, history
<1>4. ASSUME NEW r \in Slots, ReportCount(r) PROVE TypeOK'
  <2>1. handler[r].report \in Reports
    BY <1>1, <1>4, HandlerShape DEF ReportCount, TypeOK
  <2>2. Tally \in Counts
    BY <1>1, TallyIsCounts DEF TypeOK
  <2>3. handler' \in [Slots -> HandlerState]
        /\ \A s \in Slots : handler'[s] =
             IF s = r THEN [at |-> "host", report |-> handler[r].report, counts |-> Tally]
                      ELSE handler[s]
    BY <1>1, <1>4, <2>1, <2>2 DEF ReportCount, Becomes, TypeOK, HandlerState
  <2>4. QED
    BY <1>1, <1>4, <2>3 DEF ReportCount, TypeOK, host, job, history
<1>5. ASSUME NEW r \in Slots, ReportHost(r) PROVE TypeOK'
  <2>1. handler[r].report \in Reports /\ handler[r].counts \in Counts
    BY <1>1, <1>5, HandlerShape DEF ReportHost, TypeOK
  <2>2. assignment' \in HostStatus /\ counts' \in Counts /\ post' \in Snapshots
    BY <1>1, <1>5, <2>1 DEF ReportHost, TypeOK, Reports
  <2>3. Becomes(r, Idle)
    BY <1>5 DEF ReportHost
  <2>4. QED
    BY <1>1, <1>5, <2>2, <2>3, IdleType DEF ReportHost, TypeOK, host, history
<1>6. ASSUME NEW r \in Slots, ReportFails(r) PROVE TypeOK'
  BY <1>1, <1>6, IdleType DEF ReportFails, TypeOK, host, job, history
<1>7. ASSUME NEW m \in calls, CallLost(m) PROVE TypeOK'
  BY <1>1, <1>7 DEF CallLost, TypeOK, host, job, history
<1>8. QED
  BY <1>1, <1>2, <1>3, <1>4, <1>5, <1>6, <1>7 DEF ReportStep

LEMMA ServerStepType == TypeOK /\ ServerStep => TypeOK'
<1>1. SUFFICES ASSUME TypeOK, ServerStep PROVE TypeOK'
  OBVIOUS
<1>2. AllListed \in Inventory
  BY <1>1 DEF TypeOK, AllListed
<1>3. CASE ReportInventory
  BY <1>1, <1>2, <1>3 DEF ReportInventory, TypeOK, host, job, history
<1>4. CASE CreateBegin
  BY <1>1, <1>4 DEF CreateBegin, TypeOK, host, job, history
<1>5. CASE CreateCommit
  <2>1. creation.policy \in PolicyChoices
    BY <1>1, <1>5 DEF CreateCommit, TypeOK
  <2>2. FilterPackages(creation.policy, listed) \subseteq Packages
    BY <1>1, <2>1, FilterIsSound DEF TypeOK
  <2>3. QED
    BY <1>1, <1>5, <2>1, <2>2 DEF CreateCommit, TypeOK, host, Idle, history
<1>6. CASE CreateFails
  BY <1>1, <1>6 DEF CreateFails, TypeOK, host, job, Idle, history
<1>7. CASE Cancel
  BY <1>1, <1>7 DEF Cancel, TypeOK, host, history
<1>8. CASE Expire
  BY <1>1, <1>8 DEF Expire, TypeOK, host, history
<1>9. QED
  BY <1>1, <1>3, <1>4, <1>5, <1>6, <1>7, <1>8 DEF ServerStep

LEMMA WorldStepType ==
  ASSUME TypeOK, NEW p \in Packages, Publish(p) \/ UpdateByHand(p)
  PROVE  TypeOK'
<1>1. CASE Publish(p)
  <2>1. latest' \in [Packages -> Versions]
    BY <1>1, LimitsAssumption DEF Publish, TypeOK
  <2>2. QED
    BY <1>1, <2>1 DEF Publish, TypeOK, job, history
<1>2. CASE UpdateByHand(p)
  <2>1. installed' \in [Packages -> Versions]
    BY <1>2 DEF UpdateByHand, TypeOK
  <2>2. QED
    BY <1>2, <2>1 DEF UpdateByHand, TypeOK, job, history
<1>3. QED
  BY <1>1, <1>2

LEMMA StutterType == TypeOK /\ UNCHANGED vars => TypeOK'
BY DEF TypeOK, vars, host, job, history

(* Every reachable state is of the types the module states.                 *)
THEOREM TypeCorrect == Spec => []TypeOK
<1>1. TypeOK /\ [Next]_vars => TypeOK'
  BY StutterType, AgentStepType, ReportStepType, ServerStepType, WorldStepType DEF Next
<1>2. QED
  BY InitType, <1>1, PTL DEF Spec

-----------------------------------------------------------------------------
(***************************************************************************)
(* The agent never updates what the policy leaves alone.                    *)
(***************************************************************************)
(* The job's columns that say what was selected stay as they are, and so    *)
(* does what the agent asks for: then the invariant stays.                  *)
LEMMA SelectionKept ==
  ASSUME SelectionInv, TypeOK',
         UNCHANGED <<selected, basis, agreed, asked>>,
         assignment = "none" => UNCHANGED <<assignment, collector, calls, handler>>,
         assignment # "none" => assignment' # "none" /\ UNCHANGED creation,
         creation'.at = "read" => assignment' = "none",
         \A c \in Collectors : collector'[c] # Idle =>
           collector[c] # Idle /\ collector'[c].packages = collector[c].packages
  PROVE  SelectionInv'
<1>1. NothingBefore' /\ CreatedOnce'
  BY DEF SelectionInv, NothingBefore, CreatedOnce
<1>2. ChosenWell'
  BY DEF SelectionInv, ChosenWell, Permits, NamedBy, Hits
<1>3. HandedOut'
  BY DEF SelectionInv, HandedOut
<1>4. QED
  BY <1>1, <1>2, <1>3 DEF SelectionInv

(* Creation is the only step that selects, and what it selects is permitted.*)
LEMMA CreateSelects ==
  ASSUME SelectionInv, TypeOK', CreateCommit
  PROVE  SelectionInv'
<1>1. creation.policy \in PolicyChoices /\ listed \in Inventory /\ assignment = "none"
  BY DEF SelectionInv, TypeOK, CreateCommit, CreatedOnce
<1>2. (\A c \in Collectors : collector'[c] = Idle) /\ asked' = {}
  BY <1>1 DEF SelectionInv, NothingBefore, CreateCommit, history
<1>3. \A p \in selected' : Permits(agreed', basis', p)
  BY <1>1, FilterIsSound DEF CreateCommit
<1>4. selected' # {}
  BY DEF CreateCommit, WorthAJob
<1>5. assignment' = "pending" /\ creation' = Idle
  BY DEF CreateCommit
<1>6. NothingBefore' /\ CreatedOnce' /\ HandedOut' /\ asked' \subseteq selected'
  BY <1>2, <1>5 DEF NothingBefore, CreatedOnce, HandedOut, Idle
<1>7. ChosenWell'
  BY <1>3, <1>4 DEF ChosenWell, Permits, NamedBy, Hits
<1>8. QED
  BY <1>6, <1>7 DEF SelectionInv

LEMMA ServerSelects == SelectionInv /\ TypeOK' /\ ServerStep => SelectionInv'
<1>1. SUFFICES ASSUME SelectionInv, TypeOK', ServerStep PROVE SelectionInv'
  OBVIOUS
<1>2. CASE ReportInventory
  BY <1>1, <1>2, SelectionKept DEF ReportInventory, SelectionInv, CreatedOnce, job, history
<1>3. CASE CreateBegin
  BY <1>1, <1>3, SelectionKept DEF CreateBegin, SelectionInv, CreatedOnce, job, history
<1>4. CASE CreateCommit
  BY <1>1, <1>4, CreateSelects
<1>5. CASE CreateFails
  BY <1>1, <1>5, SelectionKept DEF CreateFails, SelectionInv, CreatedOnce, job, Idle, history
<1>6. CASE Cancel
  BY <1>1, <1>6, SelectionKept DEF Cancel, SelectionInv, CreatedOnce, history
<1>7. CASE Expire
  BY <1>1, <1>7, SelectionKept DEF Expire, SelectionInv, CreatedOnce, history
<1>8. QED
  BY <1>1, <1>2, <1>3, <1>4, <1>5, <1>6, <1>7 DEF ServerStep

LEMMA AgentSelects == SelectionInv /\ TypeOK' /\ AgentStep => SelectionInv'
<1>1. SUFFICES ASSUME SelectionInv, TypeOK', AgentStep PROVE SelectionInv'
  OBVIOUS
<1>2. ASSUME NEW c \in Collectors, collector[c] # Idle
      PROVE  assignment # "none" /\ collector[c].packages = selected
  BY <1>1, <1>2 DEF SelectionInv, NothingBefore, HandedOut
<1>3. TypeOK
  BY <1>1 DEF SelectionInv
<1>4. ASSUME NEW c \in Collectors, Fetch(c) PROVE SelectionInv'
  <2>1. assignment # "none" /\ assignment' = assignment
    BY <1>4 DEF Fetch, job
  <2>2. HandedOut'
    BY <1>1, <1>3, <1>4, FetchKeeps DEF Fetch, job, SelectionInv, HandedOut
  <2>3. QED
    BY <1>1, <1>4, <2>1, <2>2
    DEF Fetch, SelectionInv, NothingBefore, CreatedOnce, ChosenWell, Permits, NamedBy, Hits,
        job, history
<1>5. ASSUME NEW c \in Collectors, OfferLost(c) PROVE SelectionInv'
  <2>1. assignment # "none"
    BY <1>2, <1>5 DEF OfferLost, Idle
  <2>2. \A d \in Collectors : collector'[d] \in {collector[d], Idle}
    BY <1>3, <1>5 DEF OfferLost, TypeOK
  <2>3. QED
    BY <1>1, <1>5, <2>1, <2>2, SelectionKept
    DEF OfferLost, SelectionInv, CreatedOnce, job, history
<1>6. ASSUME NEW c \in Collectors, Announce(c) PROVE SelectionInv'
  <2>1. collector[c] # Idle /\ assignment # "none" /\ collector[c].packages = selected
        /\ selected # {}
    BY <1>1, <1>2, <1>3, <1>6, StepKeeps DEF SelectionInv, ChosenWell
  <2>2. asked' = asked
    BY <1>6, <2>1 DEF Announce, Commanded
  <2>3. \A d \in Collectors : collector'[d] # Idle =>
          collector[d] # Idle /\ collector'[d].packages = collector[d].packages
    BY <1>3, <1>6, <2>1, StepKeeps
  <2>4. QED
    BY <1>1, <1>6, <2>1, <2>2, <2>3, SelectionKept DEF Announce, SelectionInv, CreatedOnce
<1>7. ASSUME NEW c \in Collectors, NEW p \in Packages, UpdatePackage(c, p)
      PROVE  SelectionInv'
  <2>1. collector[c].at = "execute" /\ collector[c] # Idle
    BY <1>7 DEF UpdatePackage, Idle
  <2>2. assignment # "none" /\ collector[c].packages = selected
    BY <1>2, <2>1
  <2>3. p \in selected /\ asked' \subseteq selected
    BY <1>1, <1>7, <2>2 DEF UpdatePackage, Left, SelectionInv
  <2>4. \A d \in Collectors : collector'[d] # Idle =>
          collector[d] # Idle /\ collector'[d].packages = collector[d].packages
    <3>1. PICK ok \in BOOLEAN, version \in {installed[p], latest[p], NoVersion} :
            Finish(c, p, ResultStatus(p, ok, version))
      BY <1>7 DEF UpdatePackage
    <3>2. ResultStatus(p, ok, version) \in Result
      BY DEF ResultStatus, Result
    <3>3. QED
      BY <1>3, <2>1, <3>1, <3>2, FinishType
  <2>5. HandedOut'
    BY <1>1, <1>7, <2>4 DEF UpdatePackage, job, SelectionInv, HandedOut
  <2>6. QED
    BY <1>1, <1>7, <2>2, <2>3, <2>5
    DEF UpdatePackage, SelectionInv, NothingBefore, CreatedOnce, ChosenWell, Permits,
        NamedBy, Hits, job
<1>8. ASSUME NEW c \in Collectors, NEW p \in Packages, SkipPackage(c, p)
      PROVE  SelectionInv'
  <2>1. collector[c].at = "execute" /\ collector[c] # Idle
    BY <1>8 DEF SkipPackage, Idle
  <2>2. \A d \in Collectors : collector'[d] # Idle =>
          collector[d] # Idle /\ collector'[d].packages = collector[d].packages
    BY <1>3, <1>8, <2>1, FinishType DEF SkipPackage, Result
  <2>3. QED
    BY <1>1, <1>2, <1>8, <2>1, <2>2, SelectionKept
    DEF SkipPackage, SelectionInv, CreatedOnce, job, history
<1>9. ASSUME NEW c \in Collectors, ContextEnds(c) PROVE SelectionInv'
  <2>1. collector[c] # Idle /\ \A d \in Collectors : collector'[d] # Idle =>
          collector[d] # Idle /\ collector'[d].packages = collector[d].packages
    BY <1>3, <1>9, StepKeeps
  <2>2. QED
    BY <1>1, <1>2, <1>9, <2>1, SelectionKept
    DEF ContextEnds, SelectionInv, CreatedOnce, job, history
<1>10. ASSUME NEW c \in Collectors, SendReport(c) PROVE SelectionInv'
  <2>1. assignment # "none"
    BY <1>2, <1>10 DEF SendReport, Idle
  <2>2. \A d \in Collectors : collector'[d] \in {collector[d], Idle}
    BY <1>3, <1>10 DEF SendReport, TypeOK
  <2>3. QED
    BY <1>1, <1>10, <2>1, <2>2, SelectionKept
    DEF SendReport, SelectionInv, CreatedOnce, job, history
<1>11. CASE AgentCrash
  <2>1. assignment # "none" /\ \A d \in Collectors : collector'[d] = Idle
    BY <1>2, <1>11 DEF AgentCrash
  <2>2. QED
    BY <1>1, <1>11, <2>1, SelectionKept DEF AgentCrash, SelectionInv, CreatedOnce, job, history
<1>12. QED
  BY <1>1, <1>4, <1>5, <1>6, <1>7, <1>8, <1>9, <1>10, <1>11 DEF AgentStep

LEMMA ReportSelects == SelectionInv /\ TypeOK' /\ ReportStep => SelectionInv'
<1>1. SUFFICES ASSUME SelectionInv, TypeOK', ReportStep PROVE SelectionInv'
  OBVIOUS
<1>2. assignment # "none"
  <2>1. calls # {} \/ \E r \in Slots : handler[r] # Idle
    <3>1. ASSUME NEW r \in Slots, ReportRow(r) \/ ReportCount(r) PROVE handler[r] # Idle
      BY <3>1 DEF ReportRow, ReportCount, Idle
    <3>2. ASSUME NEW r \in Slots, ReportHost(r) \/ ReportFails(r) PROVE handler[r] # Idle
      BY <3>2 DEF ReportHost, ReportFails, Idle
    <3>3. QED
      BY <1>1, <3>1, <3>2 DEF ReportStep
  <2>2. QED
    BY <1>1, <2>1 DEF SelectionInv, NothingBefore
<1>3. ASSUME NEW r \in Slots, NEW m \in calls, ReportBegin(r, m) PROVE SelectionInv'
  BY <1>1, <1>2, <1>3, SelectionKept DEF ReportBegin, SelectionInv, CreatedOnce, job, history
<1>4. ASSUME NEW r \in Slots, ReportRow(r) PROVE SelectionInv'
  BY <1>1, <1>2, <1>4, SelectionKept DEF ReportRow, SelectionInv, CreatedOnce, history
<1>5. ASSUME NEW r \in Slots, ReportCount(r) PROVE SelectionInv'
  BY <1>1, <1>2, <1>5, SelectionKept DEF ReportCount, SelectionInv, CreatedOnce, job, history
<1>6. ASSUME NEW r \in Slots, ReportHost(r) PROVE SelectionInv'
  <2>1. assignment' # "none"
    BY <1>1, <1>6, HandlerShape DEF ReportHost, SelectionInv, TypeOK, Reports
  <2>2. QED
    BY <1>1, <1>2, <1>6, <2>1, SelectionKept DEF ReportHost, SelectionInv, CreatedOnce, history
<1>7. ASSUME NEW r \in Slots, ReportFails(r) PROVE SelectionInv'
  BY <1>1, <1>2, <1>7, SelectionKept DEF ReportFails, SelectionInv, CreatedOnce, job, history
<1>8. ASSUME NEW m \in calls, CallLost(m) PROVE SelectionInv'
  BY <1>1, <1>2, <1>8, SelectionKept DEF CallLost, SelectionInv, CreatedOnce, job, history
<1>9. QED
  BY <1>1, <1>3, <1>4, <1>5, <1>6, <1>7, <1>8 DEF ReportStep

LEMMA WorldSelects ==
  ASSUME SelectionInv, TypeOK', NEW p \in Packages, Publish(p) \/ UpdateByHand(p)
  PROVE  SelectionInv'
BY SelectionKept DEF Publish, UpdateByHand, SelectionInv, CreatedOnce, job, history

LEMMA InitSelects == Init => SelectionInv
BY InitType DEF Init, SelectionInv, NothingBefore, CreatedOnce, ChosenWell, HandedOut, Idle

LEMMA SelectionNext == SelectionInv /\ [Next]_vars => SelectionInv'
<1>1. SUFFICES ASSUME SelectionInv, [Next]_vars PROVE SelectionInv'
  OBVIOUS
<1>2. TypeOK'
  BY <1>1, AgentStepType, ReportStepType, ServerStepType, WorldStepType, StutterType
  DEF Next, SelectionInv
<1>3. CASE UNCHANGED vars
  BY <1>1, <1>2, <1>3, SelectionKept DEF vars, host, job, SelectionInv, CreatedOnce, history
<1>4. CASE Next
  BY <1>1, <1>2, <1>4, ServerSelects, AgentSelects, ReportSelects, WorldSelects DEF Next
<1>5. QED
  BY <1>1, <1>3, <1>4

(* Whatever the inventory, the filters, the retries and the restarts, the   *)
(* package manager is asked for nothing the policy does not permit.         *)
THEOREM AskedIsPermitted == Spec => []OnlySelected
<1>1. SelectionInv => OnlySelected
  BY DEF SelectionInv, ChosenWell, NothingBefore, OnlySelected
<1>2. QED
  BY InitSelects, SelectionNext, <1>1, PTL DEF Spec

-----------------------------------------------------------------------------
(***************************************************************************)
(* What is called completed did happen.  A step that adds no more than      *)
(* copies of a report already under way keeps what is known of reports; one *)
(* that takes no part in executing keeps what is known of executions.       *)
(***************************************************************************)
CopiesOnly ==
  \A m \in InFlight' : \E n \in InFlight : m.done = n.done /\ m.status = n.status

NoExecution ==
  \A c \in Collectors : collector'[c] # Idle =>
    /\ collector[c] # Idle
    /\ collector'[c].done = collector[c].done
    /\ collector[c].expired => collector'[c].expired

LEMMA ReportsKept ==
  ASSUME CarriedOutInv, CopiesOnly, UNCHANGED selected, achieved \subseteq achieved',
         assignment' = "completed" => assignment = "completed"
  PROVE  ReportIsWhole' /\ CompletedHappened'
<1>1. ReportIsWhole'
  <2>1. SUFFICES ASSUME NEW m \in InFlight', m.status = "completed", NEW p \in selected
                 PROVE  p \in DOMAIN m.done /\ Well(m.done[p]) /\ p \in achieved'
    BY DEF ReportIsWhole
  <2>2. PICK n \in InFlight : m.done = n.done /\ m.status = n.status
    BY <2>1 DEF CopiesOnly
  <2>3. p \in DOMAIN n.done /\ Well(n.done[p]) /\ p \in achieved
    BY <2>1, <2>2 DEF CarriedOutInv, ReportIsWhole
  <2>4. QED
    BY <2>2, <2>3
<1>2. CompletedHappened'
  BY DEF CarriedOutInv, CompletedHappened
<1>3. QED
  BY <1>1, <1>2

LEMMA ExecutionsKept ==
  ASSUME CarriedOutInv, NoExecution, achieved \subseteq achieved'
  PROVE  SkippedOnlyLate' /\ ResultsHappened'
<1>1. SkippedOnlyLate'
  BY DEF CarriedOutInv, SkippedOnlyLate, NoExecution
<1>2. ResultsHappened'
  BY DEF CarriedOutInv, ResultsHappened, NoExecution
<1>3. QED
  BY <1>1, <1>2

(* Handlers that stay as they are, or end, bring nothing new.               *)
LEMMA StayOrEnd ==
  ASSUME calls' \subseteq calls, \A r \in Slots : handler'[r] \in {handler[r], Idle}
  PROVE  CopiesOnly
BY DEF CopiesOnly, InFlight

(* The steps that neither execute nor report.                               *)
LEMMA CarriedKept ==
  ASSUME CarriedOutInv, SelectionInv', NoExecution, UNCHANGED <<selected, achieved>>,
         calls' \subseteq calls, \A r \in Slots : handler'[r] \in {handler[r], Idle},
         assignment' = "completed" => assignment = "completed"
  PROVE  CarriedOutInv'
BY StayOrEnd, ReportsKept, ExecutionsKept DEF CarriedOutInv

LEMMA ServerCarries == CarriedOutInv /\ SelectionInv' /\ ServerStep => CarriedOutInv'
<1>1. SUFFICES ASSUME CarriedOutInv, SelectionInv', ServerStep PROVE CarriedOutInv'
  OBVIOUS
<1>2. CASE ReportInventory
  BY <1>1, <1>2, CarriedKept DEF ReportInventory, NoExecution, job, history
<1>3. CASE CreateBegin
  BY <1>1, <1>3, CarriedKept DEF CreateBegin, NoExecution, job, history
<1>4. CASE CreateCommit
  <2>1. calls = {} /\ (\A r \in Slots : handler[r] = Idle)
        /\ \A c \in Collectors : collector[c] = Idle
    BY <1>1, <1>4 DEF CarriedOutInv, SelectionInv, CreatedOnce, NothingBefore, CreateCommit
  <2>2. InFlight' = {} /\ (\A c \in Collectors : collector'[c] = Idle) /\ assignment' = "pending"
    BY <1>4, <2>1 DEF CreateCommit, InFlight
  <2>3. QED
    BY <1>1, <2>2
    DEF CarriedOutInv, SkippedOnlyLate, ResultsHappened, ReportIsWhole, CompletedHappened
<1>5. CASE CreateFails
  BY <1>1, <1>5, CarriedKept DEF CreateFails, NoExecution, job, history
<1>6. CASE Cancel
  BY <1>1, <1>6, CarriedKept DEF Cancel, NoExecution, history
<1>7. CASE Expire
  BY <1>1, <1>7, CarriedKept DEF Expire, NoExecution, history
<1>8. QED
  BY <1>1, <1>2, <1>3, <1>4, <1>5, <1>6, <1>7 DEF ServerStep

LEMMA WorldCarries ==
  ASSUME CarriedOutInv, SelectionInv', NEW p \in Packages, Publish(p) \/ UpdateByHand(p)
  PROVE  CarriedOutInv'
BY CarriedKept DEF Publish, UpdateByHand, NoExecution, job, history

(* A package is done with: what its result says of it is true.              *)
LEMMA FinishKnows ==
  ASSUME CarriedOutInv, NEW c \in Collectors, collector[c].at = "execute",
         NEW p \in Packages, NEW result \in Result, Finish(c, p, result),
         \/ Well(result) /\ p \in achieved'
         \/ result = "failed"
         \/ result = "skipped" /\ collector[c].expired,
         achieved \subseteq achieved'
  PROVE  SkippedOnlyLate' /\ ResultsHappened'
<1> DEFINE now  == collector[c]
           next == collector'[c]
<1>1. /\ \A d \in Collectors \ {c} : collector'[d] = collector[d]
      /\ now # Idle /\ next # Idle /\ next.expired = now.expired
      /\ next.done = [q \in DOMAIN now.done \cup {p} |-> IF q = p THEN result ELSE now.done[q]]
  BY FinishType DEF CarriedOutInv, SelectionInv
<1>2. \A q \in DOMAIN next.done : \/ q = p /\ next.done[q] = result
                                  \/ q \in DOMAIN now.done /\ next.done[q] = now.done[q]
  BY <1>1
<1>3. ~Well("failed") /\ ~Well("skipped")
  BY DEF Well
<1>4. SkippedOnlyLate'
  <2>1. SUFFICES ASSUME NEW d \in Collectors, collector'[d] # Idle,
                        NEW q \in DOMAIN collector'[d].done
                 PROVE  \/ Well(collector'[d].done[q]) \/ collector'[d].done[q] = "failed"
                        \/ collector'[d].done[q] = "skipped" /\ collector'[d].expired
    BY DEF SkippedOnlyLate
  <2>2. CASE d = c
    BY <1>1, <1>2, <2>1, <2>2 DEF CarriedOutInv, SkippedOnlyLate
  <2>3. CASE d # c
    BY <1>1, <2>1, <2>3 DEF CarriedOutInv, SkippedOnlyLate
  <2>4. QED
    BY <2>2, <2>3
<1>5. ResultsHappened'
  <2>1. SUFFICES ASSUME NEW d \in Collectors, collector'[d] # Idle,
                        NEW q \in DOMAIN collector'[d].done, Well(collector'[d].done[q])
                 PROVE  q \in achieved'
    BY DEF ResultsHappened
  <2>2. CASE d = c
    BY <1>1, <1>2, <1>3, <2>1, <2>2 DEF CarriedOutInv, ResultsHappened
  <2>3. CASE d # c
    BY <1>1, <2>1, <2>3 DEF CarriedOutInv, ResultsHappened
  <2>4. QED
    BY <2>2, <2>3
<1>6. QED
  BY <1>4, <1>5

(* A report in which everything went well is about all that was selected.   *)
LEMMA CompletedReport ==
  ASSUME CarriedOutInv, NEW c \in Collectors, SendReport(c), ContextAllowsReport(c),
         OverallStatus(collector[c].done) = "completed", NEW p \in selected
  PROVE  p \in DOMAIN collector[c].done /\ Well(collector[c].done[p]) /\ p \in achieved
<1> DEFINE done == collector[c].done
<1>1. collector[c] # Idle /\ collector[c].packages = selected
  BY DEF SendReport, CarriedOutInv, SelectionInv, HandedOut, Idle
<1>2. manager # "none" /\ With(done, "failed") = {}
  BY DEF OverallStatus
<1>3. p \in DOMAIN done
  BY <1>1, <1>2 DEF SendReport, Left
<1>4. done[p] # "failed"
  BY <1>2, <1>3 DEF With
<1>5. Well(done[p])
  BY <1>1, <1>3, <1>4 DEF ContextAllowsReport, CarriedOutInv, SkippedOnlyLate
<1>6. QED
  BY <1>1, <1>3, <1>5 DEF CarriedOutInv, ResultsHappened

LEMMA SendCarries ==
  ASSUME CarriedOutInv, SelectionInv', NEW c \in Collectors, SendReport(c)
  PROVE  CarriedOutInv'
<1>1. UNCHANGED <<selected, achieved, assignment, handler>>
  BY DEF SendReport, job, history
<1>2. NoExecution
  BY DEF SendReport, NoExecution, CarriedOutInv, SelectionInv, TypeOK
<1>3. ASSUME NEW m \in calls', m \notin calls
      PROVE  /\ ContextAllowsReport(c) /\ m.done = collector[c].done
             /\ m.status = OverallStatus(collector[c].done)
  BY <1>3 DEF SendReport
<1>4. ReportIsWhole'
  <2>1. SUFFICES ASSUME NEW m \in InFlight', m.status = "completed", NEW p \in selected
                 PROVE  p \in DOMAIN m.done /\ Well(m.done[p]) /\ p \in achieved
    BY <1>1 DEF ReportIsWhole
  <2>2. CASE m \in InFlight
    BY <2>1, <2>2 DEF CarriedOutInv, ReportIsWhole
  <2>3. CASE m \in calls' /\ m \notin calls
    BY <1>3, <2>1, <2>3, CompletedReport
  <2>4. QED
    BY <1>1, <2>1, <2>2, <2>3 DEF InFlight
<1>5. CompletedHappened'
  BY <1>1 DEF CarriedOutInv, CompletedHappened
<1>6. QED
  BY <1>1, <1>2, <1>4, <1>5, ExecutionsKept DEF CarriedOutInv

LEMMA AgentCarries == CarriedOutInv /\ SelectionInv' /\ AgentStep => CarriedOutInv'
<1>1. SUFFICES ASSUME CarriedOutInv, SelectionInv', AgentStep PROVE CarriedOutInv'
  OBVIOUS
<1>2. TypeOK
  BY <1>1 DEF CarriedOutInv, SelectionInv
<1>3. ASSUME NEW c \in Collectors, Fetch(c) PROVE CarriedOutInv'
  <2>1. /\ \A d \in Collectors \ {c} : collector'[d] = collector[d]
        /\ collector'[c].done = <<>> /\ DOMAIN <<>> = {}
    BY <1>2, <1>3, FetchKeeps
  <2>2. UNCHANGED <<selected, achieved, assignment, calls, handler>>
    BY <1>3 DEF Fetch, job, history
  <2>3. SkippedOnlyLate' /\ ResultsHappened'
    BY <1>1, <2>1, <2>2 DEF CarriedOutInv, SkippedOnlyLate, ResultsHappened
  <2>4. ReportIsWhole' /\ CompletedHappened'
    BY <1>1, <2>2, StayOrEnd, ReportsKept
  <2>5. QED
    BY <1>1, <2>3, <2>4 DEF CarriedOutInv
<1>4. ASSUME NEW c \in Collectors, OfferLost(c) PROVE CarriedOutInv'
  <2>1. NoExecution
    BY <1>2, <1>4 DEF OfferLost, NoExecution, TypeOK
  <2>2. QED
    BY <1>1, <1>4, <2>1, CarriedKept DEF OfferLost, job, history
<1>5. ASSUME NEW c \in Collectors, Announce(c) PROVE CarriedOutInv'
  <2>1. NoExecution
    BY <1>2, <1>5, StepKeeps DEF NoExecution
  <2>2. assignment' = "completed" => assignment = "completed"
    BY <1>5 DEF Announce
  <2>3. QED
    BY <1>1, <1>5, <2>1, <2>2, CarriedKept DEF Announce
<1>6. ASSUME NEW c \in Collectors, NEW p \in Packages, UpdatePackage(c, p)
      PROVE  CarriedOutInv'
  <2>1. PICK ok \in BOOLEAN, version \in {installed[p], latest[p], NoVersion} :
          /\ Finish(c, p, ResultStatus(p, ok, version))
          /\ achieved' = IF ok THEN achieved \cup {p} ELSE achieved
    BY <1>6 DEF UpdatePackage
  <2>2. /\ ResultStatus(p, ok, version) \in Result
        /\ IF ok THEN Well(ResultStatus(p, ok, version)) ELSE ResultStatus(p, ok, version) = "failed"
    BY DEF ResultStatus, Result, Well
  <2>3. achieved \subseteq achieved' /\ (ok => p \in achieved')
    BY <2>1
  <2>4. SkippedOnlyLate' /\ ResultsHappened'
    BY <1>1, <1>6, <2>1, <2>2, <2>3, FinishKnows DEF UpdatePackage
  <2>5. UNCHANGED <<selected, assignment, calls, handler>>
    BY <1>6 DEF UpdatePackage, job
  <2>6. ReportIsWhole' /\ CompletedHappened'
    BY <1>1, <2>3, <2>5, StayOrEnd, ReportsKept
  <2>7. QED
    BY <1>1, <2>4, <2>6 DEF CarriedOutInv
<1>7. ASSUME NEW c \in Collectors, NEW p \in Packages, SkipPackage(c, p)
      PROVE  CarriedOutInv'
  <2>1. UNCHANGED <<selected, achieved, assignment, calls, handler>>
    BY <1>7 DEF SkipPackage, job, history
  <2>2. SkippedOnlyLate' /\ ResultsHappened'
    BY <1>1, <1>7, <2>1, FinishKnows DEF SkipPackage, Result
  <2>3. ReportIsWhole' /\ CompletedHappened'
    BY <1>1, <2>1, StayOrEnd, ReportsKept
  <2>4. QED
    BY <1>1, <2>2, <2>3 DEF CarriedOutInv
<1>8. ASSUME NEW c \in Collectors, ContextEnds(c) PROVE CarriedOutInv'
  <2>1. NoExecution
    BY <1>2, <1>8, StepKeeps DEF NoExecution
  <2>2. QED
    BY <1>1, <1>8, <2>1, CarriedKept DEF ContextEnds, job, history
<1>9. ASSUME NEW c \in Collectors, SendReport(c) PROVE CarriedOutInv'
  BY <1>1, <1>9, SendCarries
<1>10. CASE AgentCrash
  <2>1. NoExecution
    BY <1>10 DEF AgentCrash, NoExecution
  <2>2. QED
    BY <1>1, <1>10, <2>1, CarriedKept DEF AgentCrash, job, history
<1>11. QED
  BY <1>1, <1>3, <1>4, <1>5, <1>6, <1>7, <1>8, <1>9, <1>10 DEF AgentStep

(* A report begins to be handled, and may be sent once more.                *)
LEMMA BeginCopies ==
  ASSUME TypeOK, NEW r \in Slots, NEW m \in calls, ReportBegin(r, m)
  PROVE  /\ CopiesOnly
         /\ \A s \in Slots : handler'[s] =
              IF s = r THEN [at |-> "rows", report |-> m, left |-> DOMAIN m.done] ELSE handler[s]
<1>1. \A s \in Slots : handler'[s] =
        IF s = r THEN [at |-> "rows", report |-> m, left |-> DOMAIN m.done] ELSE handler[s]
  BY DEF ReportBegin, Becomes, TypeOK
<1>2. m \in Reports
  BY DEF TypeOK
<1>3. \A n \in Resent(m) : n.done = m.done /\ n.status = m.status
  BY <1>2 DEF Resent, Reports
<1>4. calls' \subseteq calls \cup Resent(m)
  BY DEF ReportBegin
<1>5. CopiesOnly
  <2>1. SUFFICES ASSUME NEW n \in InFlight'
                 PROVE  \E o \in InFlight : n.done = o.done /\ n.status = o.status
    BY DEF CopiesOnly
  <2>2. m \in InFlight
    BY DEF InFlight
  <2>3. CASE n \in calls'
    BY <1>3, <1>4, <2>2, <2>3 DEF InFlight
  <2>4. CASE \E s \in Slots : handler'[s] # Idle /\ n = handler'[s].report
    BY <1>1, <2>2, <2>4 DEF InFlight
  <2>5. QED
    BY <2>1, <2>3, <2>4 DEF InFlight
<1>6. QED
  BY <1>1, <1>5

(* A handler that goes on keeps its report.                                 *)
LEMMA SameReport ==
  ASSUME TypeOK, NEW r \in Slots, ReportRow(r) \/ ReportCount(r)
  PROVE  /\ CopiesOnly
         /\ handler[r].at = "rows" /\ handler[r] # Idle
         /\ handler[r] = [at |-> "rows", report |-> handler[r].report, left |-> handler[r].left]
         /\ \A s \in Slots \ {r} : handler'[s] = handler[s]
         /\ handler'[r].report = handler[r].report
<1>1. /\ handler[r].at = "rows" /\ handler[r] # Idle
      /\ handler[r] = [at |-> "rows", report |-> handler[r].report, left |-> handler[r].left]
  BY HandlerShape DEF ReportRow, ReportCount, TypeOK, Idle
<1>2. \A s \in Slots \ {r} : handler'[s] = handler[s]
  BY DEF ReportRow, ReportCount, Becomes, TypeOK
<1>3. handler'[r].report = handler[r].report
  BY <1>1 DEF ReportRow, ReportCount, Becomes, TypeOK
<1>4. CopiesOnly
  <2>1. calls' = calls
    BY DEF ReportRow, ReportCount
  <2>2. InFlight' \subseteq InFlight
    BY <1>1, <1>2, <1>3, <2>1 DEF InFlight
  <2>3. QED
    BY <2>2 DEF CopiesOnly
<1>5. QED
  BY <1>1, <1>2, <1>3, <1>4

LEMMA HandlersCarry == CarriedOutInv /\ SelectionInv' /\ ReportStep => CarriedOutInv'
<1>1. SUFFICES ASSUME CarriedOutInv, SelectionInv', ReportStep PROVE CarriedOutInv'
  OBVIOUS
<1>2. TypeOK
  BY <1>1 DEF CarriedOutInv, SelectionInv
<1>3. ASSUME CopiesOnly, UNCHANGED <<selected, achieved, assignment, collector>>
      PROVE  CarriedOutInv'
  BY <1>1, <1>3, ReportsKept, ExecutionsKept DEF CarriedOutInv, NoExecution
<1>4. ASSUME NEW r \in Slots, NEW m \in calls, ReportBegin(r, m) PROVE CarriedOutInv'
  BY <1>2, <1>3, <1>4, BeginCopies DEF ReportBegin, job
<1>5. ASSUME NEW r \in Slots, ReportRow(r) PROVE CarriedOutInv'
  BY <1>2, <1>3, <1>5, SameReport DEF ReportRow, history
<1>6. ASSUME NEW r \in Slots, ReportCount(r) PROVE CarriedOutInv'
  BY <1>2, <1>3, <1>6, SameReport DEF ReportCount, job, history
<1>7. ASSUME NEW r \in Slots, ReportHost(r) PROVE CarriedOutInv'
  <2>1. handler[r] # Idle /\ handler[r].report \in InFlight
    BY <1>7 DEF ReportHost, Idle, InFlight
  <2>2. /\ UNCHANGED <<selected, achieved, collector, calls>>
        /\ assignment' = handler[r].report.status
    BY <1>7 DEF ReportHost, history
  <2>3. \A s \in Slots : handler'[s] \in {handler[s], Idle}
    BY <1>2, <1>7 DEF ReportHost, Becomes, TypeOK
  <2>4. InFlight' \subseteq InFlight
    BY <2>2, <2>3 DEF InFlight
  <2>5. ReportIsWhole'
    BY <1>1, <2>2, <2>4 DEF CarriedOutInv, ReportIsWhole
  <2>6. CompletedHappened'
    BY <1>1, <2>1, <2>2 DEF CarriedOutInv, ReportIsWhole, CompletedHappened
  <2>7. SkippedOnlyLate' /\ ResultsHappened'
    BY <1>1, <2>2, ExecutionsKept DEF NoExecution
  <2>8. QED
    BY <1>1, <2>5, <2>6, <2>7 DEF CarriedOutInv
<1>8. ASSUME NEW r \in Slots, ReportFails(r) PROVE CarriedOutInv'
  <2>1. \A s \in Slots : handler'[s] \in {handler[s], Idle}
    BY <1>2, <1>8 DEF ReportFails, Becomes, TypeOK
  <2>2. QED
    BY <1>3, <1>8, <2>1, StayOrEnd DEF ReportFails, job, history
<1>9. ASSUME NEW m \in calls, CallLost(m) PROVE CarriedOutInv'
  BY <1>3, <1>9, StayOrEnd DEF CallLost, job, history
<1>10. QED
  BY <1>1, <1>4, <1>5, <1>6, <1>7, <1>8, <1>9 DEF ReportStep

LEMMA InitCarries == Init => CarriedOutInv
<1>1. SUFFICES ASSUME Init PROVE CarriedOutInv
  OBVIOUS
<1>2. InFlight = {} /\ (\A c \in Collectors : collector[c] = Idle) /\ assignment = "none"
  BY <1>1 DEF Init, InFlight
<1>3. QED
  BY <1>1, <1>2, InitSelects
  DEF CarriedOutInv, SkippedOnlyLate, ResultsHappened, ReportIsWhole, CompletedHappened

LEMMA CarriedOutNext == CarriedOutInv /\ [Next]_vars => CarriedOutInv'
<1>1. SUFFICES ASSUME CarriedOutInv, [Next]_vars PROVE CarriedOutInv'
  OBVIOUS
<1>2. SelectionInv'
  BY <1>1, SelectionNext DEF CarriedOutInv
<1>3. CASE UNCHANGED vars
  BY <1>1, <1>2, <1>3, CarriedKept DEF vars, job, history, NoExecution
<1>4. CASE Next
  BY <1>1, <1>2, <1>4, ServerCarries, AgentCarries, HandlersCarry, WorldCarries DEF Next
<1>5. QED
  BY <1>1, <1>3, <1>4

-----------------------------------------------------------------------------
(***************************************************************************)
(* filterPackagesForPolicy drops nothing the policy permits, so what was    *)
(* selected is neither less nor more than that.                             *)
(***************************************************************************)
LEMMA FilterIsComplete ==
  ASSUME NEW pol \in PolicyChoices, NEW list, NEW p \in Packages, Permits(pol, list, p)
  PROVE  p \in FilterPackages(pol, list)
<1>1. p \in Candidates(pol, list)
  BY DEF Permits, Candidates, NeedsUpdate
<1>2. ~SomeMatches(pol.filters, "exclude", p)
  BY DEF Permits, NamedBy, SomeMatches, OfKind
<1>3. OfKind(pol.filters, "include") # {} => SomeMatches(pol.filters, "include", p)
  <2>1. CASE NamedBy(pol, "include", p)
    BY <2>1 DEF NamedBy, SomeMatches, OfKind
  <2>2. CASE \A i \in DOMAIN pol.filters : pol.filters[i].kind = "exclude"
    BY <2>2 DEF OfKind
  <2>3. QED
    BY <2>1, <2>2 DEF Permits
<1>4. QED
  BY <1>1, <1>2, <1>3 DEF FilterPackages, AfterIncludes

SelectionIsExact ==
  assignment # "none" => selected = {p \in Packages : Permits(agreed, basis, p)}

(* Creation is the only step that writes selected, agreed or basis.         *)
LEMMA WrittenOnce ==
  ASSUME SelectionInv, [Next]_vars
  PROVE  \/ CreateCommit
         \/ /\ UNCHANGED <<selected, agreed, basis>>
            /\ assignment' # "none" => assignment # "none"
<1>1. CASE UNCHANGED vars
  BY <1>1 DEF vars, job
<1>2. ASSUME NEW p \in Packages, Publish(p) \/ UpdateByHand(p)
      PROVE  UNCHANGED <<selected, agreed, basis, assignment>>
  BY <1>2 DEF Publish, UpdateByHand, job
<1>3. CASE ServerStep
  BY <1>3 DEF ServerStep, ReportInventory, CreateBegin, CreateFails, Cancel, Expire, job
<1>4. CASE AgentStep
  <2>1. ASSUME NEW c \in Collectors, Announce(c)
        PROVE  UNCHANGED <<selected, agreed, basis>> /\ assignment # "none"
    BY <2>1 DEF Announce, SelectionInv, NothingBefore, Idle
  <2>2. ASSUME NEW c \in Collectors, Fetch(c) \/ OfferLost(c) \/ ContextEnds(c) \/ SendReport(c)
        PROVE  UNCHANGED <<selected, agreed, basis, assignment>>
    BY <2>2 DEF Fetch, OfferLost, ContextEnds, SendReport, job
  <2>3. ASSUME NEW c \in Collectors, NEW p \in Packages, UpdatePackage(c, p) \/ SkipPackage(c, p)
        PROVE  UNCHANGED <<selected, agreed, basis, assignment>>
    BY <2>3 DEF UpdatePackage, SkipPackage, job
  <2>4. CASE AgentCrash
    BY <2>4 DEF AgentCrash, job
  <2>5. QED
    BY <1>4, <2>1, <2>2, <2>3, <2>4 DEF AgentStep
<1>5. CASE ReportStep
  <2>1. ASSUME NEW r \in Slots, ReportHost(r)
        PROVE  UNCHANGED <<selected, agreed, basis>> /\ assignment # "none"
    BY <2>1 DEF ReportHost, SelectionInv, NothingBefore, Idle
  <2>2. ASSUME NEW r \in Slots, ReportRow(r) \/ ReportCount(r) \/ ReportFails(r)
        PROVE  UNCHANGED <<selected, agreed, basis, assignment>>
    BY <2>2 DEF ReportRow, ReportCount, ReportFails, job
  <2>3. ASSUME NEW m \in calls, CallLost(m) \/ \E r \in Slots : ReportBegin(r, m)
        PROVE  UNCHANGED <<selected, agreed, basis, assignment>>
    BY <2>3 DEF CallLost, ReportBegin, job
  <2>4. QED
    BY <1>5, <2>1, <2>2, <2>3 DEF ReportStep
<1>6. QED
  BY <1>1, <1>2, <1>3, <1>4, <1>5 DEF Next

LEMMA ExactNext == SelectionInv /\ SelectionIsExact /\ [Next]_vars => SelectionIsExact'
<1>1. SUFFICES ASSUME SelectionInv, SelectionIsExact, [Next]_vars PROVE SelectionIsExact'
  OBVIOUS
<1>2. CASE CreateCommit
  <2>1. creation.policy \in PolicyChoices /\ listed \in Inventory
    BY <1>1, <1>2 DEF CreateCommit, SelectionInv, TypeOK
  <2>2. FilterPackages(creation.policy, listed) =
          {p \in Packages : Permits(creation.policy, listed, p)}
    BY <2>1, FilterIsSound, FilterIsComplete
  <2>3. selected' = {p \in Packages : Permits(agreed', basis', p)}
    BY <1>2, <2>2 DEF CreateCommit
  <2>4. QED
    BY <2>3 DEF SelectionIsExact, Permits, NamedBy, Hits
<1>3. CASE UNCHANGED <<selected, agreed, basis>> /\ (assignment' # "none" => assignment # "none")
  BY <1>1, <1>3 DEF SelectionIsExact, Permits, NamedBy, Hits
<1>4. QED
  BY <1>1, <1>2, <1>3, WrittenOnce

(* Whatever goroutines, reports and copies of them overlap: an assignment   *)
(* that is called completed has had every package its policy permits        *)
(* updated, or found held.                                                  *)
THEOREM PolicyIsCarriedOut == Spec => []PolicyCarriedOut
<1>1. Init => SelectionIsExact
  BY DEF Init, SelectionIsExact
<1>2. CarriedOutInv => SelectionInv
  BY DEF CarriedOutInv
<1>3. CarriedOutInv /\ SelectionIsExact => PolicyCarriedOut
  BY DEF CarriedOutInv, CompletedHappened, SelectionIsExact, PolicyCarriedOut
<1>4. QED
  BY InitCarries, CarriedOutNext, ExactNext, <1>1, <1>2, <1>3, PTL DEF Spec

-----------------------------------------------------------------------------
(***************************************************************************)
(* The rows and counters of an assignment, as long as no report contradicts *)
(* another.                                                                 *)
(***************************************************************************)
Agreement == OneReport /\ RowsWritten /\ CountIsCurrent /\ CopiesRepeat

Settled == CompletedIsWhole /\ CountsAgree

LEMMA AgreementKept ==
  ASSUME Agreement, UNCHANGED <<selected, results>>,
         \A r \in Slots : handler'[r] \in {handler[r], Idle},
         assignment' \in CompletedHost => assignment' = assignment
  PROVE  Agreement'
<1>1. \A r \in Slots : handler'[r] # Idle => handler'[r] = handler[r]
  OBVIOUS
<1>2. \A r \in Slots : handler'[r].at \in {"rows", "host"} => handler'[r] = handler[r]
  BY DEF Idle
<1>3. Tally' = Tally
  BY DEF Tally
<1>4. OneReport' /\ CopiesRepeat'
  BY <1>1 DEF Agreement, OneReport, CopiesRepeat
<1>5. RowsWritten'
  BY <1>2 DEF Agreement, RowsWritten
<1>6. CountIsCurrent'
  BY <1>2, <1>3 DEF Agreement, CountIsCurrent
<1>7. QED
  BY <1>4, <1>5, <1>6 DEF Agreement

LEMMA SettledKept ==
  ASSUME Settled, UNCHANGED <<selected, counts>>, clashed => clashed',
         ~clashed' /\ assignment' \in CompletedHost => assignment' = assignment /\ results' = results
  PROVE  Settled'
BY DEF Settled, CompletedIsWhole, CountsAgree, RowsAre

(* The steps that touch neither rows nor counters, nor begin a report.      *)
LEMMA ReportKept ==
  ASSUME ReportInv, CarriedOutInv', UNCHANGED <<selected, results, counts, clashed>>,
         \A r \in Slots : handler'[r] \in {handler[r], Idle},
         assignment' \in CompletedHost => assignment' = assignment
  PROVE  ReportInv'
<1>1. ~clashed' => Agreement'
  BY AgreementKept DEF ReportInv, Agreement
<1>2. Settled'
  BY SettledKept DEF ReportInv, Settled
<1>3. QED
  BY <1>1, <1>2 DEF ReportInv, Agreement, Settled

LEMMA ServerReports == ReportInv /\ CarriedOutInv' /\ ServerStep => ReportInv'
<1>1. SUFFICES ASSUME ReportInv, CarriedOutInv', ServerStep PROVE ReportInv'
  OBVIOUS
<1>2. CASE ReportInventory
  BY <1>1, <1>2, ReportKept DEF ReportInventory, job, history
<1>3. CASE CreateBegin
  BY <1>1, <1>3, ReportKept DEF CreateBegin, job, history
<1>4. CASE CreateCommit
  <2>1. \A r \in Slots : handler[r] = Idle
    BY <1>1, <1>4 DEF ReportInv, CarriedOutInv, SelectionInv, CreatedOnce, NothingBefore, CreateCommit
  <2>2. (\A r \in Slots : handler'[r] = Idle) /\ assignment' = "pending"
    BY <1>4, <2>1 DEF CreateCommit
  <2>3. Agreement'
    BY <2>2 DEF Agreement, OneReport, RowsWritten, CountIsCurrent, CopiesRepeat, Idle
  <2>4. Settled'
    BY <2>2 DEF Settled, CompletedIsWhole, CountsAgree
  <2>5. QED
    BY <1>1, <2>3, <2>4 DEF ReportInv, Agreement, Settled
<1>5. CASE CreateFails
  BY <1>1, <1>5, ReportKept DEF CreateFails, job, history
<1>6. CASE Cancel
  BY <1>1, <1>6, ReportKept DEF Cancel, history
<1>7. CASE Expire
  BY <1>1, <1>7, ReportKept DEF Expire, history
<1>8. QED
  BY <1>1, <1>2, <1>3, <1>4, <1>5, <1>6, <1>7 DEF ServerStep

LEMMA WorldReports ==
  ASSUME ReportInv, CarriedOutInv', NEW p \in Packages, Publish(p) \/ UpdateByHand(p)
  PROVE  ReportInv'
BY ReportKept DEF Publish, UpdateByHand, job, history

(* What the agent does touches nothing of a report that is being handled.   *)
LEMMA AgentReports == ReportInv /\ CarriedOutInv' /\ AgentStep => ReportInv'
<1>1. SUFFICES ASSUME ReportInv, CarriedOutInv', AgentStep PROVE ReportInv'
  OBVIOUS
<1>2. /\ UNCHANGED <<selected, results, counts, clashed, handler>>
      /\ assignment' \in CompletedHost => assignment' = assignment
  <2>1. ASSUME NEW c \in Collectors, Announce(c)
        PROVE  /\ UNCHANGED <<selected, results, counts, clashed, handler>>
               /\ assignment' \in CompletedHost => assignment' = assignment
    BY <2>1 DEF Announce
  <2>2. CASE ~\E c \in Collectors : Announce(c)
    BY <1>1, <2>2
    DEF AgentStep, Fetch, OfferLost, UpdatePackage, SkipPackage, ContextEnds, SendReport,
        AgentCrash, job, history
  <2>3. QED
    BY <2>1, <2>2
<1>3. QED
  BY <1>1, <1>2, ReportKept

-----------------------------------------------------------------------------
(* A report that contradicts none joins those that are being handled.       *)
LEMMA BeginReports ==
  ASSUME ReportInv, CarriedOutInv', NEW r \in Slots, NEW m \in calls, ReportBegin(r, m)
  PROVE  ReportInv'
<1>1. \A s \in Slots : handler'[s] =
        IF s = r THEN [at |-> "rows", report |-> m, left |-> DOMAIN m.done] ELSE handler[s]
  BY BeginCopies DEF ReportInv, CarriedOutInv, SelectionInv
<1>2. UNCHANGED <<selected, results, counts, assignment>> /\ clashed' = (clashed \/ Contradicts(m))
  BY DEF ReportBegin, job
<1>3. ASSUME ~clashed' PROVE Agreement'
  <2>1. Agreement /\ ~Contradicts(m)
    BY <1>2, <1>3 DEF ReportInv, Agreement, CarriedOutInv, SelectionInv, TypeOK
  <2>2. \A s \in Slots : handler[s] # Idle => handler[s].report.done = m.done
    BY <2>1 DEF Contradicts
  <2>3. OneReport'
    BY <1>1, <2>1, <2>2 DEF Agreement, OneReport
  <2>4. Tally' = Tally
    BY <1>2 DEF Tally
  <2>5. RowsWritten'
    BY <1>1, <1>2, <2>1 DEF Agreement, RowsWritten
  <2>6. CountIsCurrent'
    BY <1>1, <2>1, <2>4 DEF Agreement, CountIsCurrent
  <2>7. assignment \in CompletedHost => \A p \in DOMAIN m.done : results[p] = m.done[p]
    BY <2>1 DEF Contradicts
  <2>8. CopiesRepeat'
    BY <1>1, <1>2, <2>1, <2>7 DEF Agreement, CopiesRepeat
  <2>9. QED
    BY <2>3, <2>5, <2>6, <2>8 DEF Agreement
<1>4. Settled'
  BY <1>2, SettledKept DEF ReportInv, Settled
<1>5. QED
  BY <1>3, <1>4 DEF ReportInv, Agreement, Settled

(* The row a handler writes says what any other copy of the report says:    *)
(* once one handler has counted, or the assignment is settled, it is what   *)
(* the row says already.                                                    *)
LEMMA RowReports ==
  ASSUME ReportInv, CarriedOutInv', NEW r \in Slots, ReportRow(r)
  PROVE  ReportInv'
<1>1. PICK p \in handler[r].left :
        /\ results' = [results EXCEPT ![p] = handler[r].report.done[p]]
        /\ Becomes(r, [handler[r] EXCEPT !.left = @ \ {p}])
  BY DEF ReportRow
<1> DEFINE m == handler[r].report
<1>2. TypeOK /\ results \in [Packages -> Result]
  BY DEF ReportInv, CarriedOutInv, SelectionInv, TypeOK
<1>3. /\ handler[r].at = "rows" /\ handler[r] # Idle
      /\ handler[r] = [at |-> "rows", report |-> m, left |-> handler[r].left]
      /\ p \in Packages /\ p \in DOMAIN m.done
  BY <1>1, <1>2, HandlerShape DEF ReportRow, TypeOK, Idle
<1>4. \A s \in Slots : handler'[s] =
        IF s = r THEN [at |-> "rows", report |-> m, left |-> handler[r].left \ {p}]
                 ELSE handler[s]
  <2>1. [handler[r] EXCEPT !.left = @ \ {p}] =
          [at |-> "rows", report |-> m, left |-> handler[r].left \ {p}]
    BY <1>3
  <2>2. handler \in [Slots -> HandlerState]
    BY <1>2 DEF TypeOK
  <2>3. QED
    BY <1>1, <2>1, <2>2 DEF Becomes
<1>5. UNCHANGED <<assignment, selected, counts, clashed>>
  BY DEF ReportRow, history
<1>6. results[p] = m.done[p] => results' = results
  BY <1>1, <1>2
<1>7. ASSUME ~clashed PROVE Agreement' /\ (assignment \in CompletedHost => results' = results)
  <2>1. Agreement
    BY <1>7 DEF ReportInv, Agreement
  <2>2. \A s \in Slots : handler[s] # Idle => handler[s].report.done = m.done
    BY <1>3, <2>1 DEF Agreement, OneReport
  <2>3. assignment \in CompletedHost => results' = results
    BY <1>3, <1>6, <2>1 DEF Agreement, CopiesRepeat
  <2>4. \A s \in Slots : handler'[s] # Idle =>
          handler[s] # Idle /\ handler'[s].report = handler[s].report
    BY <1>3, <1>4
  <2>5. OneReport'
    BY <2>1, <2>4 DEF Agreement, OneReport
  <2>6. CopiesRepeat'
    BY <1>5, <2>1, <2>3, <2>4 DEF Agreement, CopiesRepeat
  <2>7. RowsWritten'
    <3>1. SUFFICES ASSUME NEW s \in Slots, NEW q \in Packages,
                          \/ /\ handler'[s].at = "rows"
                             /\ q \in DOMAIN handler'[s].report.done \ handler'[s].left
                          \/ handler'[s].at = "host" /\ q \in DOMAIN handler'[s].report.done
                   PROVE  results'[q] = handler'[s].report.done[q]
      BY DEF RowsWritten
    <3>2. handler[s] # Idle /\ handler'[s].report = handler[s].report
      BY <2>4, <3>1 DEF Idle
    <3>3. CASE q = p
      BY <1>1, <1>2, <1>3, <2>2, <3>2, <3>3
    <3>4. CASE q # p
      <4>1. results'[q] = results[q]
        BY <1>1, <1>2, <3>4
      <4>2. results[q] = handler[s].report.done[q]
        BY <1>3, <1>4, <2>1, <3>1, <3>4 DEF Agreement, RowsWritten
      <4>3. QED
        BY <3>2, <4>1, <4>2
    <3>5. QED
      BY <3>3, <3>4
  <2>8. CountIsCurrent'
    <3>1. SUFFICES ASSUME NEW s \in Slots, handler'[s].at = "host"
                   PROVE  handler'[s].counts = Tally'
      BY DEF CountIsCurrent
    <3>2. handler'[s] = handler[s] /\ handler[s].at = "host" /\ handler[s] # Idle
      BY <1>4, <3>1 DEF Idle
    <3>3. results[p] = m.done[p]
      BY <1>3, <2>1, <2>2, <3>2 DEF Agreement, RowsWritten
    <3>4. Tally' = Tally
      BY <1>5, <1>6, <3>3 DEF Tally
    <3>5. QED
      BY <2>1, <3>2, <3>4 DEF Agreement, CountIsCurrent
  <2>9. QED
    BY <2>3, <2>5, <2>6, <2>7, <2>8 DEF Agreement
<1>8. Settled'
  BY <1>5, <1>7, SettledKept DEF ReportInv, Settled
<1>9. QED
  BY <1>5, <1>7, <1>8 DEF ReportInv, Agreement, Settled

LEMMA CountReports ==
  ASSUME ReportInv, CarriedOutInv', NEW r \in Slots, ReportCount(r)
  PROVE  ReportInv'
<1> DEFINE m == handler[r].report
<1>1. handler[r].at = "rows" /\ handler[r] # Idle /\ handler[r].left = {}
  BY DEF ReportCount, Idle
<1>2. \A s \in Slots : handler'[s] =
        IF s = r THEN [at |-> "host", report |-> m, counts |-> Tally] ELSE handler[s]
  BY DEF ReportCount, Becomes, ReportInv, CarriedOutInv, SelectionInv, TypeOK
<1>3. UNCHANGED <<assignment, selected, results, counts, clashed>>
  BY DEF ReportCount, job, history
<1>4. Tally' = Tally
  BY <1>3 DEF Tally
<1>5. ASSUME ~clashed PROVE Agreement'
  <2>1. Agreement
    BY <1>5 DEF ReportInv, Agreement
  <2>2. \A s \in Slots : handler'[s] # Idle =>
          handler[s] # Idle /\ handler'[s].report = handler[s].report
    BY <1>1, <1>2
  <2>3. OneReport' /\ CopiesRepeat'
    BY <1>3, <2>1, <2>2 DEF Agreement, OneReport, CopiesRepeat
  <2>4. CountIsCurrent'
    BY <1>2, <1>4, <2>1 DEF Agreement, CountIsCurrent
  <2>5. \A p \in Packages : p \in DOMAIN m.done => results[p] = m.done[p]
    BY <1>1, <2>1 DEF Agreement, RowsWritten
  <2>6. RowsWritten'
    BY <1>2, <1>3, <2>1, <2>5 DEF Agreement, RowsWritten
  <2>7. QED
    BY <2>3, <2>4, <2>6 DEF Agreement
<1>6. Settled'
  BY <1>3, SettledKept DEF ReportInv, Settled
<1>7. QED
  BY <1>3, <1>5, <1>6 DEF ReportInv, Agreement, Settled

(* The assignment takes the status of the report and the count of its rows; *)
(* the rows are those of the report.                                        *)
LEMMA HostReports ==
  ASSUME ReportInv, CarriedOutInv', NEW r \in Slots, ReportHost(r)
  PROVE  ReportInv'
<1> DEFINE m == handler[r].report
<1>1. /\ handler[r].at = "host" /\ handler[r] # Idle /\ m \in Reports
      /\ \A s \in Slots : handler'[s] = IF s = r THEN Idle ELSE handler[s]
  BY HandlerShape DEF ReportHost, Becomes, ReportInv, CarriedOutInv, SelectionInv, TypeOK, Idle
<1>2. assignment' = m.status /\ counts' = handler[r].counts
      /\ UNCHANGED <<selected, results, calls, clashed>>
  BY DEF ReportHost, history
<1>3. ASSUME ~clashed PROVE Agreement' /\ Settled'
  <2>1. Agreement
    BY <1>3 DEF ReportInv, Agreement
  <2>2. \A s \in Slots : handler'[s] # Idle =>
          handler[s] # Idle /\ handler'[s] = handler[s] /\ handler[s].report.done = m.done
    BY <1>1, <2>1 DEF Agreement, OneReport
  <2>3. \A p \in Packages : p \in DOMAIN m.done => results[p] = m.done[p]
    BY <1>1, <2>1 DEF Agreement, RowsWritten
  <2>4. DOMAIN m.done \subseteq Packages
    BY <1>1, ResultsAre DEF Reports
  <2>5. CopiesRepeat'
    BY <1>2, <2>2, <2>3, <2>4 DEF CopiesRepeat
  <2>6. OneReport'
    BY <2>2 DEF OneReport
  <2>7. \A s \in Slots : handler'[s].at \in {"rows", "host"} => handler'[s] = handler[s]
    BY <1>1 DEF Idle
  <2>8. Tally' = Tally
    BY <1>2 DEF Tally
  <2>9. RowsWritten' /\ CountIsCurrent'
    BY <1>2, <2>1, <2>7, <2>8 DEF Agreement, RowsWritten, CountIsCurrent
  <2>10. CompletedIsWhole'
    <3>1. SUFFICES ASSUME m.status = "completed", NEW p \in selected
                   PROVE  results[p] \in {"updated", "held"}
      BY <1>2 DEF CompletedIsWhole
    <3>2. m \in InFlight
      BY <1>1 DEF InFlight
    <3>3. p \in DOMAIN m.done /\ Well(m.done[p])
      BY <3>1, <3>2 DEF ReportInv, CarriedOutInv, ReportIsWhole
    <3>4. QED
      BY <2>3, <2>4, <3>3 DEF Well
  <2>11. CountsAgree'
    <3>1. counts' = Tally
      BY <1>1, <1>2, <2>1 DEF Agreement, CountIsCurrent
    <3>2. QED
      BY <1>2, <3>1 DEF CountsAgree, Tally, RowsAre
  <2>12. QED
    BY <2>5, <2>6, <2>9, <2>10, <2>11 DEF Agreement, Settled
<1>4. clashed => Settled'
  BY <1>2 DEF Settled, CompletedIsWhole, CountsAgree
<1>5. QED
  BY <1>2, <1>3, <1>4 DEF ReportInv, Agreement, Settled

LEMMA HandlersReport == ReportInv /\ CarriedOutInv' /\ ReportStep => ReportInv'
<1>1. SUFFICES ASSUME ReportInv, CarriedOutInv', ReportStep PROVE ReportInv'
  OBVIOUS
<1>2. ASSUME NEW r \in Slots, ReportFails(r) PROVE ReportInv'
  <2>1. \A s \in Slots : handler'[s] \in {handler[s], Idle}
    BY <1>1, <1>2 DEF ReportFails, Becomes, ReportInv, CarriedOutInv, SelectionInv, TypeOK
  <2>2. QED
    BY <1>1, <1>2, <2>1, ReportKept DEF ReportFails, job, history
<1>3. ASSUME NEW m \in calls, CallLost(m) PROVE ReportInv'
  BY <1>1, <1>3, ReportKept DEF CallLost, job, history
<1>4. QED
  BY <1>1, <1>2, <1>3, BeginReports, RowReports, CountReports, HostReports DEF ReportStep

LEMMA InitReports == Init => ReportInv
<1>1. SUFFICES ASSUME Init PROVE ReportInv
  OBVIOUS
<1>2. (\A r \in Slots : handler[r] = Idle) /\ assignment \notin CompletedHost
  BY <1>1 DEF Init
<1>3. Agreement
  BY <1>2 DEF Agreement, OneReport, RowsWritten, CountIsCurrent, CopiesRepeat, Idle
<1>4. CompletedIsWhole /\ CountsAgree
  BY <1>2 DEF CompletedIsWhole, CountsAgree
<1>5. QED
  BY <1>1, <1>3, <1>4, InitCarries DEF ReportInv, Agreement

LEMMA ReportNext == ReportInv /\ [Next]_vars => ReportInv'
<1>1. SUFFICES ASSUME ReportInv, [Next]_vars PROVE ReportInv'
  OBVIOUS
<1>2. CarriedOutInv'
  BY <1>1, CarriedOutNext DEF ReportInv
<1>3. CASE UNCHANGED vars
  BY <1>1, <1>2, <1>3, ReportKept DEF vars, job, history
<1>4. CASE Next
  BY <1>1, <1>2, <1>4, ServerReports, AgentReports, HandlersReport, WorldReports DEF Next
<1>5. QED
  BY <1>1, <1>3, <1>4

(* However often an assignment is executed, cut short and reported, and     *)
(* whichever copies of a report overlap or break off: once it says          *)
(* completed, every row of it says updated or held, unless reports with     *)
(* other results were handled beside that one or after it.                  *)
THEOREM CompletedMeansWhole == Spec => []CompletedIsWhole
<1>1. ReportInv => CompletedIsWhole
  BY DEF ReportInv
<1>2. QED
  BY InitReports, ReportNext, <1>1, PTL DEF Spec

(* The counters of a reported assignment are the numbers of its rows, with  *)
(* the same exception.                                                      *)
THEOREM CountersMatchRows == Spec => []CountsAgree
<1>1. ReportInv => CountsAgree
  BY DEF ReportInv
<1>2. QED
  BY InitReports, ReportNext, <1>1, PTL DEF Spec

-----------------------------------------------------------------------------
(***************************************************************************)
(* computeSnapshotDiff looks for the fields of one snapshot in the other.   *)
(***************************************************************************)
(* Whatever was updated and whatever the agent sends, the diff of a report  *)
(* names no updated package, and every package as removed.                  *)
THEOREM DiffComparesNothing == "undefined" \notin Packages => (Spec => []DiffIsBlind)
<1>1. SUFFICES ASSUME "undefined" \notin Packages PROVE Spec => []DiffIsBlind
  OBVIOUS
<1>2. TypeOK => DiffIsBlind
  <2>1. SUFFICES ASSUME TypeOK PROVE DiffIsBlind
    OBVIOUS
  <2>2. \A e \in post : KeyOf(e) = "undefined"
    BY <2>1 DEF TypeOK, Snapshots, KeyOf, Undefined
  <2>3. \A p \in Packages : KeyOf([package_name |-> p, current_version |-> basis[p].current]) = p
    BY DEF KeyOf
  <2>4. \A d \in PreSnapshot(basis) : KeyOf(d) \in Packages
    BY <2>3 DEF PreSnapshot
  <2>5. {KeyOf(d) : d \in PreSnapshot(basis)} = Packages
    BY <2>3, <2>4 DEF PreSnapshot
  <2>6. DiffUpdated(PreSnapshot(basis), post) = {}
    BY <1>1, <2>2, <2>4 DEF DiffUpdated
  <2>7. DiffRemoved(PreSnapshot(basis), post) = Packages
    BY <1>1, <2>2, <2>5 DEF DiffRemoved
  <2>8. QED
    BY <2>6, <2>7 DEF DiffIsBlind
<1>3. QED
  BY <1>2, TypeCorrect, PTL
=============================================================================
