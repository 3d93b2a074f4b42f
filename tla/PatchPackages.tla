--------------------------- MODULE PatchPackages ---------------------------
(***************************************************************************)
(* What one assignment of a patch job holds: which packages the policy      *)
(* selects from the host's last inventory, what the agent asks the package  *)
(* manager to do, and what the rows of patch_job_packages say afterwards.   *)
(* PatchJobs leaves these data out; here one host and one assignment are    *)
(* enough, because assignments share none of them.                          *)
(*                                                                         *)
(* The handlers are cut at their queries, as in PatchJobs.  A status call   *)
(* is either handled at once or lost; what late ones do is in PatchJobs.    *)
(***************************************************************************)
EXTENDS Naturals, Sequences, FiniteSets

CONSTANTS
  Packages,          \* names of packages
  SecurityPackages,  \* those whose updates are security updates
  PolicyChoices,     \* rows of patch_policies with their filters
  Managers,          \* what detectPackageManager may find
  Captures,          \* whether captureSnapshot may list the packages, or nothing
  Collectors,        \* the agent's goroutines that may run sendReport
  Slots,             \* slots for report handlers running at the same time
  MaxVersion,        \* bound on the versions a repository publishes
  MaxSends,          \* times one HTTP call may be sent (1 + retries)
  MaxCollections     \* bound on the times the agent fetches the assignment

(***************************************************************************)
(* A filter matches a set of names.  The pattern of a "glob" or a "regex"   *)
(* may not be a regular expression: "libstdc++*" is none once its "*" has   *)
(* become ".*".                                                             *)
(***************************************************************************)
Filter ==
  [kind : {"include", "exclude"}, match : {"exact", "glob", "regex"},
   names : SUBSET Packages, wellformed : BOOLEAN]

Policy == [type : {"all", "security_only", "selected"}, filters : Seq(Filter)]

ASSUME PackagesAssumption == IsFiniteSet(Packages) /\ SecurityPackages \subseteq Packages
ASSUME PolicyAssumption   == PolicyChoices \subseteq Policy
ASSUME ManagersAssumption == Managers \subseteq {"unix", "windows", "none"}
ASSUME CapturesAssumption == Captures \subseteq BOOLEAN
ASSUME LimitsAssumption   ==
  /\ {MaxVersion, MaxSends} \subseteq Nat \ {0}
  /\ MaxCollections \in Nat

(***************************************************************************)
(* Version 0 is the absence of one: null in a column, "" in the agent,      *)
(* undefined in JavaScript.                                                 *)
(***************************************************************************)
NoVersion == 0
Versions  == 1 .. MaxVersion

Inventory == [Packages -> [current : Versions, available : Versions]]

ActiveHost    == {"pending", "working"}
CompletedHost == {"completed", "completed_with_errors"}
HostStatus    == {"none", "skipped", "failed"} \cup ActiveHost \cup CompletedHost

Result  == {"pending", "updated", "held", "failed", "skipped"}
Results == UNION {[S -> Result] : S \in SUBSET Packages}

Snapshots == SUBSET [name : Packages, version : Versions]
Counts    == [updated : 0 .. Cardinality(Packages), failed : 0 .. Cardinality(Packages)]
Reports   == [done : Results, status : {"failed"} \cup CompletedHost, post : Snapshots,
              sends : 1 .. MaxSends]

CollectorState ==
  [at : {"idle"}]
    \cup [at : {"offered", "snapshot", "execute"}, packages : SUBSET Packages,
          done : Results, expired : BOOLEAN]

HandlerState ==
  [at : {"idle"}]
    \cup [at : {"rows"}, report : Reports, left : SUBSET Packages]
    \cup [at : {"host"}, report : Reports, counts : Counts]

VARIABLES
  manager,     \* the host's package manager
  installed,   \* versions installed on the host
  latest,      \* versions its repositories offer
  listed,      \* host_packages: the inventory the server got last
  creation,    \* the handler of createPatchJob, or of createPatchJobsForHost
  assignment,  \* patch_job_hosts.status
  selected,    \* patch_job_packages.package_name
  basis,       \* pre_snapshot, and previous_version and target_version
  results,     \* patch_job_packages.status; installed_version, which only the
               \*   user interface reads, is left out
  counts,      \* packages_updated and packages_failed
  post,        \* post_snapshot, {} when there is none
  collector,   \* the agent's Collect, in each of its goroutines
  calls,       \* reports the server has yet to receive
  handler,     \* the server's handlers of reports
  collections, \* times the assignment was fetched
  agreed,      \* history: the policy the assignment was made of
  asked,       \* history: packages the package manager was told to update
  achieved,    \* history: packages an execution updated, or found held
  clashed      \* history: a report began to be handled beside, or after, one
               \*   with other results

host == <<manager, installed, latest>>
job  == <<assignment, selected, basis, results, counts, post, agreed>>
history == <<asked, achieved, clashed>>
vars == <<host, listed, creation, job, collector, calls, handler, collections, history>>

-----------------------------------------------------------------------------
(***************************************************************************)
(* filterPackagesForPolicy.  A filter that is not a regular expression      *)
(* matches nothing as a "regex", and throws as a "glob" when some() gets to *)
(* it.                                                                      *)
(***************************************************************************)
Hits(f, p) == f.wellformed /\ p \in f.names

OfKind(filters, kind) == {i \in DOMAIN filters : filters[i].kind = kind}

SomeMatches(filters, kind, p) == \E i \in OfKind(filters, kind) : Hits(filters[i], p)

SomeThrows(filters, kind, p) ==
  \E i \in OfKind(filters, kind) :
    /\ filters[i].match = "glob" /\ ~filters[i].wellformed
    /\ \A k \in OfKind(filters, kind) : k < i => ~Hits(filters[k], p)

NeedsUpdate(list) == {p \in Packages : list[p].current < list[p].available}

\* Mutant: every policy that is no selection is held to security updates.
CandidatesUnlessSelected(pol, list) ==
  IF pol.type # "selected" THEN NeedsUpdate(list) \cap SecurityPackages
                           ELSE NeedsUpdate(list)

Candidates(pol, list) ==
  IF pol.type = "security_only" THEN NeedsUpdate(list) \cap SecurityPackages
                                ELSE NeedsUpdate(list)

AfterIncludes(pol, list) ==
  {p \in Candidates(pol, list) :
     OfKind(pol.filters, "include") # {} => SomeMatches(pol.filters, "include", p)}

\* Mutant: with include filters, exclude filters are not looked at.
FilterIncludesFirst(pol, list) ==
  {p \in AfterIncludes(pol, list) :
     OfKind(pol.filters, "include") = {} => ~SomeMatches(pol.filters, "exclude", p)}

FilterPackages(pol, list) ==
  {p \in AfterIncludes(pol, list) : ~SomeMatches(pol.filters, "exclude", p)}

FilterThrows(pol, list) ==
  \/ \E p \in Candidates(pol, list) : SomeThrows(pol.filters, "include", p)
  \/ \E p \in AfterIncludes(pol, list) : SomeThrows(pol.filters, "exclude", p)

(***************************************************************************)
(* computeSnapshotDiff: the names it calls updated.  It reads package_name  *)
(* and current_version in both snapshots.  The server's own entries have    *)
(* these fields; the agent's have name and version, so what it reads there  *)
(* is undefined, and so is the key of the one entry its map gets.           *)
(***************************************************************************)
Undefined == "undefined"

KeyOf(entry) == IF "package_name" \in DOMAIN entry THEN entry.package_name ELSE Undefined

VersionOf(entry) ==
  IF "current_version" \in DOMAIN entry THEN entry.current_version ELSE NoVersion

PreSnapshot(list) == {[package_name |-> p, current_version |-> list[p].current] : p \in Packages}

CaptureSnapshot == {[name |-> p, version |-> installed[p]] : p \in Packages}

DiffUpdated(before, after) ==
  {KeyOf(e) : e \in {e \in after : \E d \in before :
                       KeyOf(d) = KeyOf(e) /\ VersionOf(d) # VersionOf(e)}}

DiffRemoved(before, after) == {KeyOf(d) : d \in before} \ {KeyOf(e) : e \in after}

-----------------------------------------------------------------------------
Idle    == [at |-> "idle"]

AllListed == [p \in Packages |-> [current |-> installed[p], available |-> latest[p]]]

Init ==
  /\ manager \in Managers
  /\ installed \in [Packages -> {1}]
  /\ latest \in [Packages -> Versions]
  /\ listed = AllListed
  /\ creation = Idle
  /\ assignment = "none"
  /\ selected = {}
  /\ basis = AllListed
  /\ results = [p \in Packages |-> "pending"]
  /\ counts = [updated |-> 0, failed |-> 0]
  /\ post = {}
  /\ collector = [c \in Collectors |-> Idle]
  /\ calls = {}
  /\ handler = [r \in Slots |-> Idle]
  /\ collections = 0
  /\ agreed \in PolicyChoices
  /\ asked = {}
  /\ achieved = {}
  /\ clashed = FALSE

(***************************************************************************)
(* The world around an assignment: repositories publish versions, packages  *)
(* are updated by hand, and the periodic report replaces the inventory in   *)
(* one transaction.  Once the assignment exists nothing here reads the      *)
(* inventory, so it is left as it is from then on.                          *)
(***************************************************************************)
Publish(p) ==
  /\ latest[p] < MaxVersion
  /\ latest' = [latest EXCEPT ![p] = @ + 1]
  /\ UNCHANGED <<manager, installed, listed, creation, job, collector, calls, handler,
                 collections, history>>

UpdateByHand(p) ==
  /\ installed[p] < latest[p]
  /\ installed' = [installed EXCEPT ![p] = latest[p]]
  /\ UNCHANGED <<manager, latest, listed, creation, job, collector, calls, handler,
                 collections, history>>

ReportInventory ==
  /\ assignment = "none"
  /\ listed' = AllListed
  /\ UNCHANGED <<host, creation, job, collector, calls, handler, collections, history>>

(***************************************************************************)
(* createPatchJob, and each policy's turn in createPatchJobsForHost: the    *)
(* policy is read, later the host's inventory, and what the filters leave   *)
(* of it becomes the rows of the assignment.  A host with nothing to update *)
(* gets none.  Nothing else here reads a policy's filters, so edits need no *)
(* action: the one that is read is any of PolicyChoices.                    *)
(***************************************************************************)
CreateBegin ==
  /\ assignment = "none"
  /\ creation = Idle
  /\ \E policy \in PolicyChoices : creation' = [at |-> "read", policy |-> policy]
  /\ UNCHANGED <<host, listed, job, collector, calls, handler, collections, history>>

\* Mutant: hosts with nothing to update are not skipped.
AlwaysWorth(packages) == TRUE

WorthAJob(packages) == packages # {}

CreateCommit ==
  /\ creation.at = "read"
  /\ ~FilterThrows(creation.policy, listed)
  /\ WorthAJob(FilterPackages(creation.policy, listed))
  /\ assignment' = "pending"
  /\ selected' = FilterPackages(creation.policy, listed)
  /\ basis' = listed
  /\ agreed' = creation.policy
  /\ creation' = Idle
  /\ UNCHANGED <<host, listed, results, counts, post, collector, calls, handler,
                 collections, history>>

CreateFails ==
  /\ creation.at = "read"
  /\ \/ FilterThrows(creation.policy, listed)
     \/ ~WorthAJob(FilterPackages(creation.policy, listed))
  /\ creation' = Idle
  /\ UNCHANGED <<host, listed, job, collector, calls, handler, collections, history>>

(***************************************************************************)
(* What PatchJobs says of the assignment's status, in short: cancelling     *)
(* takes back an offer, expiry fails what is active.                        *)
(***************************************************************************)
Cancel ==
  /\ assignment = "pending"
  /\ assignment' = "skipped"
  /\ UNCHANGED <<host, listed, creation, selected, basis, results, counts, post, agreed,
                 collector, calls, handler, collections, history>>

Expire ==
  /\ assignment \in ActiveHost
  /\ assignment' = "failed"
  /\ UNCHANGED <<host, listed, creation, selected, basis, results, counts, post, agreed,
                 collector, calls, handler, collections, history>>

-----------------------------------------------------------------------------
(***************************************************************************)
(* The agent.  Collect fetches the assignment with its packages, announces  *)
(* "downloading" and "installing", updates one package after the other,     *)
(* and reports.  Its context ends after 25 minutes, whatever it is doing.   *)
(* The goroutine of the first report and the main loop may both be in       *)
(* Collect: nothing keeps them from fetching the same assignment as long as *)
(* it is pending, whatever the server still does with reports of it.        *)
(*                                                                         *)
(* "offered" is the answer on its way; it may be lost.                      *)
(***************************************************************************)
Fetch(c) ==
  /\ collector[c] = Idle
  /\ assignment = "pending"
  /\ collections < MaxCollections
  /\ collector' = [collector EXCEPT ![c] =
                     [at |-> "offered", packages |-> selected, done |-> <<>>, expired |-> FALSE]]
  /\ collections' = collections + 1
  /\ UNCHANGED <<host, listed, creation, job, calls, handler, history>>

OfferLost(c) ==
  /\ collector[c].at = "offered"
  /\ collector' = [collector EXCEPT ![c] = Idle]
  /\ UNCHANGED <<host, listed, creation, job, calls, handler, collections, history>>

(* With no packages to go by, executeUpdates has the package manager        *)
(* update all there is; the results of that are left out.                   *)
Commanded(packages) ==
  IF packages = {} THEN {p \in Packages : installed[p] < latest[p]} ELSE {}

Announce(c) ==
  /\ collector[c].at \in {"offered", "snapshot"}
  /\ \/ /\ ~collector[c].expired
        /\ assignment' = "working"
     \/ UNCHANGED assignment
  /\ collector' = [collector EXCEPT ![c].at = IF @ = "offered" THEN "snapshot" ELSE "execute"]
  /\ asked' = IF collector[c].at = "snapshot" /\ manager # "none"
                THEN asked \cup Commanded(collector[c].packages) ELSE asked
  /\ UNCHANGED <<host, listed, creation, selected, basis, results, counts, post, agreed,
                 calls, handler, collections, achieved, clashed>>

Left(c) == collector[c].packages \ DOMAIN collector[c].done

Finish(c, p, result) ==
  collector' = [collector EXCEPT ![c].done =
                  [q \in DOMAIN @ \cup {p} |-> IF q = p THEN result ELSE @[q]]]

(***************************************************************************)
(* updateSinglePackage, and the loop of updateWindows.  The command may     *)
(* fail, with or without having updated the package; it may succeed and     *)
(* leave a held package as it is.  On Unix the installed version is read    *)
(* afterwards, which may not work either.  On Windows the command itself    *)
(* fails when the context has ended.                                        *)
(***************************************************************************)
\* Mutant: a package's result is named like an assignment's.
ResultLikeHost(p, ok, version) ==
  IF ~ok THEN "failed" ELSE IF version = basis[p].current THEN "held" ELSE "completed"

ResultStatus(p, ok, version) ==
  IF ~ok THEN "failed" ELSE IF version = basis[p].current THEN "held" ELSE "updated"

UpdatePackage(c, p) ==
  /\ collector[c].at = "execute"
  /\ manager # "none"
  /\ p \in Left(c)
  /\ manager = "unix" => ~collector[c].expired
  /\ \E ok \in (IF collector[c].expired THEN {FALSE} ELSE BOOLEAN),
        to \in {installed[p], latest[p]} :
       /\ installed' = [installed EXCEPT ![p] = to]
       /\ \E version \in (IF ok /\ manager = "unix" THEN {to, NoVersion} ELSE {NoVersion}) :
            Finish(c, p, ResultStatus(p, ok, version))
       /\ achieved' = IF ok THEN achieved \cup {p} ELSE achieved
  /\ asked' = asked \cup {p}
  /\ UNCHANGED <<manager, latest, listed, creation, job, calls, handler, collections, clashed>>

SkipPackage(c, p) ==
  /\ collector[c].at = "execute"
  /\ manager = "unix"
  /\ p \in Left(c)
  /\ collector[c].expired
  /\ Finish(c, p, "skipped")
  /\ UNCHANGED <<host, listed, creation, job, calls, handler, collections, history>>

ContextEnds(c) ==
  /\ collector[c].at # "idle"
  /\ ~collector[c].expired
  /\ collector' = [collector EXCEPT ![c].expired = TRUE]
  /\ UNCHANGED <<host, listed, creation, job, calls, handler, collections, history>>

With(done, status) == {p \in DOMAIN done : done[p] = status}

OverallStatus(done) ==
  IF manager = "none" THEN "failed"
  ELSE IF With(done, "failed") # {} THEN "completed_with_errors"
  ELSE "completed"

\* Mutant: the report is sent with a context of its own.
ReportAnyway(c) == TRUE

ContextAllowsReport(c) == ~collector[c].expired

SendReport(c) ==
  /\ collector[c].at = "execute"
  /\ manager = "none" \/ Left(c) = {}
  /\ \E captured \in Captures :
       calls' = IF ContextAllowsReport(c)
                  THEN calls \cup {[done |-> collector[c].done,
                                    status |-> OverallStatus(collector[c].done),
                                    post |-> IF manager = "unix" /\ captured THEN CaptureSnapshot
                                                                               ELSE {},
                                    sends |-> MaxSends]}
                  ELSE calls
  /\ collector' = [collector EXCEPT ![c] = Idle]
  /\ UNCHANGED <<host, listed, creation, job, handler, collections, history>>

(* A restart of the agent ends all its goroutines.                          *)
AgentCrash ==
  /\ \E c \in Collectors : collector[c] # Idle
  /\ collector' = [c \in Collectors |-> Idle]
  /\ UNCHANGED <<host, listed, creation, job, calls, handler, collections, history>>

-----------------------------------------------------------------------------
(***************************************************************************)
(* processAgentPatchReport as far as it is about packages: a query for each *)
(* result, one that reads all rows to count them, one that writes the       *)
(* assignment.  When its answer is lost the client sends the report again,  *)
(* so handlers may work on copies of a report beside those of another one.  *)
(***************************************************************************)
Becomes(r, state) == handler' = [handler EXCEPT ![r] = state]

Resent(m) == IF m.sends > 1 THEN {[m EXCEPT !.sends = @ - 1]} ELSE {}

(* Another report, with other results, is being handled or already was.     *)
Contradicts(m) ==
  \/ \E q \in Slots : handler[q] # Idle /\ handler[q].report.done # m.done
  \/ assignment \in CompletedHost /\ \E p \in DOMAIN m.done : results[p] # m.done[p]

ReportBegin(r, m) ==
  /\ handler[r] = Idle
  /\ calls' \in {calls \ {m}, (calls \ {m}) \cup Resent(m)}
  /\ Becomes(r, [at |-> "rows", report |-> m, left |-> DOMAIN m.done])
  /\ clashed' = (clashed \/ Contradicts(m))
  /\ UNCHANGED <<host, listed, creation, job, collector, collections, asked, achieved>>

ReportRow(r) ==
  /\ handler[r].at = "rows"
  /\ \E p \in handler[r].left :
       /\ results' = [results EXCEPT ![p] = handler[r].report.done[p]]
       /\ Becomes(r, [handler[r] EXCEPT !.left = @ \ {p}])
  /\ UNCHANGED <<host, listed, creation, assignment, selected, basis, counts, post,
                 agreed, collector, calls, collections, history>>

\* Mutant: whatever was not updated counts as failed.
TallyOthers == [updated |-> Cardinality({p \in selected : results[p] = "updated"}),
                failed  |-> Cardinality({p \in selected : results[p] # "updated"})]

Tally == [updated |-> Cardinality({p \in selected : results[p] = "updated"}),
          failed  |-> Cardinality({p \in selected : results[p] = "failed"})]

ReportCount(r) ==
  /\ handler[r].at = "rows"
  /\ handler[r].left = {}
  /\ Becomes(r, [at |-> "host", report |-> handler[r].report, counts |-> Tally])
  /\ UNCHANGED <<host, listed, creation, job, collector, calls, collections, history>>

ReportHost(r) ==
  /\ handler[r].at = "host"
  /\ LET m == handler[r].report IN
       /\ assignment' = m.status
       /\ counts' = handler[r].counts
       /\ post' = IF m.post = {} THEN post ELSE m.post
  /\ Becomes(r, Idle)
  /\ UNCHANGED <<host, listed, creation, selected, basis, results, agreed, collector,
                 calls, collections, history>>

(* A query fails, or the server is restarted: the rest of the report is     *)
(* lost, unless a copy of it is still to come.                              *)
ReportFails(r) ==
  /\ handler[r] # Idle
  /\ Becomes(r, Idle)
  /\ UNCHANGED <<host, listed, creation, job, collector, calls, collections, history>>

CallLost(m) ==
  /\ calls' = calls \ {m}
  /\ UNCHANGED <<host, listed, creation, job, collector, handler, collections, history>>

-----------------------------------------------------------------------------
ServerStep ==
  \/ ReportInventory
  \/ CreateBegin \/ CreateCommit \/ CreateFails
  \/ Cancel \/ Expire

AgentStep ==
  \/ \E c \in Collectors :
       \/ Fetch(c) \/ OfferLost(c)
       \/ Announce(c)
       \/ \E p \in Packages : UpdatePackage(c, p) \/ SkipPackage(c, p)
       \/ ContextEnds(c)
       \/ SendReport(c)
  \/ AgentCrash

ReportStep ==
  \/ \E r \in Slots, m \in calls : ReportBegin(r, m)
  \/ \E r \in Slots : ReportRow(r) \/ ReportCount(r) \/ ReportHost(r) \/ ReportFails(r)
  \/ \E m \in calls : CallLost(m)

Next ==
  \/ \E p \in Packages : Publish(p) \/ UpdateByHand(p)
  \/ ServerStep
  \/ AgentStep
  \/ ReportStep

Spec == Init /\ [][Next]_vars

-----------------------------------------------------------------------------
(***************************************************************************)
(* Properties.                                                              *)
(***************************************************************************)
TypeOK ==
  /\ manager \in Managers
  /\ installed \in [Packages -> Versions]
  /\ latest \in [Packages -> Versions]
  /\ listed \in Inventory
  /\ creation \in [at : {"idle"}] \cup [at : {"read"}, policy : PolicyChoices]
  /\ assignment \in HostStatus
  /\ selected \subseteq Packages
  /\ basis \in Inventory
  /\ results \in [Packages -> Result]
  /\ counts \in Counts
  /\ post \in Snapshots
  /\ collector \in [Collectors -> CollectorState]
  /\ calls \subseteq Reports
  /\ handler \in [Slots -> HandlerState]
  /\ \A r \in Slots : handler[r].at = "rows" => handler[r].left \subseteq DOMAIN handler[r].report.done
  /\ collections \in Nat
  /\ agreed \in PolicyChoices
  /\ asked \subseteq Packages
  /\ achieved \subseteq Packages
  /\ clashed \in BOOLEAN

(* The agent never has the package manager update a package that the policy *)
(* the job was made of, given the inventory it was made of, leaves alone:   *)
(* one that is up to date, is no security update when only those are        *)
(* wanted, is named by an exclude filter, or by none of the include         *)
(* filters.  It holds through creation, hand-out and execution, whatever is *)
(* edited or reported meanwhile, and rests on no agent ever being handed an *)
(* empty list, which it would take for "everything".                        *)
NamedBy(pol, kind, p) ==
  \E i \in DOMAIN pol.filters : pol.filters[i].kind = kind /\ Hits(pol.filters[i], p)

Permits(pol, list, p) ==
  /\ list[p].current < list[p].available
  /\ pol.type = "security_only" => p \in SecurityPackages
  /\ ~NamedBy(pol, "exclude", p)
  /\ NamedBy(pol, "include", p) \/ \A i \in DOMAIN pol.filters : pol.filters[i].kind = "exclude"

OnlySelected == \A p \in asked : Permits(agreed, basis, p)

(* An assignment the agent reported as completed has no package that failed *)
(* or was never attempted, although it may have been executed twice, cut    *)
(* short, and reported in part: its rows say "updated" or "held", unless a  *)
(* report with other results was handled beside the one that says so, or    *)
(* after it.                                                                *)
CompletedIsWhole ==
  assignment = "completed" /\ ~clashed =>
    \A p \in selected : results[p] \in {"updated", "held"}

(* The counters of an assignment that was reported are those of its rows,   *)
(* whichever copies of the report were interrupted or come late, unless     *)
(* reports with other results were handled beside it or after it.           *)
RowsAre(status) == {p \in selected : results[p] = status}

CountsAgree ==
  assignment \in CompletedHost /\ ~clashed =>
    /\ counts.updated = Cardinality(RowsAre("updated"))
    /\ counts.failed = Cardinality(RowsAre("failed"))

(* "Compute a diff between pre and post snapshots": the packages the diff   *)
(* calls updated are those whose version differs in the two, and those it   *)
(* calls removed are those the later one does not have.                     *)
DiffIsComparison ==
  post # {} =>
    /\ DiffUpdated(PreSnapshot(basis), post) =
         {e.name : e \in {e \in post : e.version # basis[e.name].current}}
    /\ DiffRemoved(PreSnapshot(basis), post) = Packages \ {e.name : e \in post}

(* What computeSnapshotDiff makes of the two snapshots instead, as long as   *)
(* no package is called "undefined": nothing was updated, all was removed.  *)
DiffIsBlind ==
  post # {} =>
    /\ DiffUpdated(PreSnapshot(basis), post) = {}
    /\ DiffRemoved(PreSnapshot(basis), post) = Packages

(* From the policy to the host: when an assignment is called completed, the *)
(* agent has updated, or found held, every package that the policy it was   *)
(* made of permits, given the inventory it was made of.  However goroutines *)
(* and reports overlap, no mixture of partial executions is called so, and  *)
(* filterPackagesForPolicy dropped no package.                              *)
PolicyCarriedOut ==
  assignment = "completed" =>
    \A p \in Packages : Permits(agreed, basis, p) => p \in achieved

-----------------------------------------------------------------------------
(***************************************************************************)
(* The inductive invariant behind OnlySelected: an assignment's packages    *)
(* are chosen once, are not none, and are what the agent has in hand.       *)
(***************************************************************************)
NothingBefore ==
  assignment = "none" =>
    /\ asked = {} /\ calls = {}
    /\ \A c \in Collectors : collector[c] = Idle
    /\ \A r \in Slots : handler[r] = Idle

CreatedOnce == creation.at = "read" => assignment = "none"

ChosenWell ==
  assignment # "none" => selected # {} /\ \A p \in selected : Permits(agreed, basis, p)

HandedOut == \A c \in Collectors : collector[c] # Idle => collector[c].packages = selected

SelectionInv ==
  /\ TypeOK
  /\ NothingBefore
  /\ CreatedOnce
  /\ ChosenWell
  /\ HandedOut
  /\ asked \subseteq selected

-----------------------------------------------------------------------------
(***************************************************************************)
(* The inductive invariant behind PolicyCarriedOut: a result that went well *)
(* is one that happened, and a report of nothing else is about all that was *)
(* selected.                                                                *)
(***************************************************************************)
Well(result) == result \in {"updated", "held"}

InFlight == calls \cup {handler[r].report : r \in {q \in Slots : handler[q] # Idle}}

SkippedOnlyLate ==
  \A c \in Collectors : collector[c] # Idle =>
    \A p \in DOMAIN collector[c].done :
      \/ Well(collector[c].done[p]) \/ collector[c].done[p] = "failed"
      \/ collector[c].done[p] = "skipped" /\ collector[c].expired

ResultsHappened ==
  \A c \in Collectors : collector[c] # Idle =>
    \A p \in DOMAIN collector[c].done : Well(collector[c].done[p]) => p \in achieved

ReportIsWhole ==
  \A m \in InFlight : m.status = "completed" =>
    \A p \in selected : p \in DOMAIN m.done /\ Well(m.done[p]) /\ p \in achieved

CompletedHappened == assignment = "completed" => selected \subseteq achieved

CarriedOutInv ==
  /\ SelectionInv
  /\ SkippedOnlyLate /\ ResultsHappened /\ ReportIsWhole /\ CompletedHappened

-----------------------------------------------------------------------------
(***************************************************************************)
(* The inductive invariant behind CompletedIsWhole and CountsAgree.  Until  *)
(* a report contradicts another, those being handled have the same results, *)
(* so whichever handlers are interrupted, late or overlap, they write the   *)
(* same rows; and those of a settled assignment are there already.          *)
(***************************************************************************)
OneReport ==
  \A r, q \in Slots : handler[r] # Idle /\ handler[q] # Idle =>
    handler[r].report.done = handler[q].report.done

RowsWritten ==
  \A r \in Slots : \A p \in Packages :
    \/ handler[r].at = "rows" /\ p \in DOMAIN handler[r].report.done \ handler[r].left
    \/ handler[r].at = "host" /\ p \in DOMAIN handler[r].report.done
    => results[p] = handler[r].report.done[p]

CountIsCurrent == \A r \in Slots : handler[r].at = "host" => handler[r].counts = Tally

CopiesRepeat ==
  assignment \in CompletedHost =>
    \A r \in Slots : handler[r] # Idle =>
      \A p \in DOMAIN handler[r].report.done : results[p] = handler[r].report.done[p]

ReportInv ==
  /\ CarriedOutInv
  /\ ~clashed => OneReport /\ RowsWritten /\ CountIsCurrent /\ CopiesRepeat
  /\ CompletedIsWhole /\ CountsAgree

=============================================================================
