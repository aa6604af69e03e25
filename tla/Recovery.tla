------------------------------ MODULE Recovery ------------------------------
(***************************************************************************)
(* One recovery run (src/internal/workflows/recovery.go: Recovery,         *)
(* enumerate, reconcile, settleLaunch, confirmStop, recordLaunch; the page *)
(* Activity of src/internal/activities/recovery.go), which reconciles the  *)
(* obligations Control may have lost with its database: it enumerates the  *)
(* inventory, walks the findings page by page, settles the launch whose    *)
(* cleanup Control cannot prove with the launcher's evidence, and asks     *)
(* Control to reopen the scope; a round ends by continuing as new.         *)
(*                                                                         *)
(* The findings are 1 .. Findings in Control's fixed order; the last one is*)
(* the job-launch finding, the others Control decides by itself.  Under its*)
(* launch key objects of the original run's create requests may still      *)
(* appear.  Control (its findings and its evidence) and the cluster are    *)
(* external.                                                               *)
(*                                                                         *)
(* Simplifications: an object is named by the marker of its create request;*)
(* the inventory yields one obligation per page; the backoff is the number *)
(* of rounds the bound leaves; the launch Secret is LaunchCleanup's.       *)
(***************************************************************************)
EXTENDS Naturals, Sequences

CONSTANTS
  Findings,   \* obligations of the rollback window
  PageSize,   \* findingsPage
  Requests,   \* create requests of the original run
  MaxRounds   \* rounds ReconcileMaxDuration has room for

ASSUME RecoveryAssumption ==
  /\ Findings \in Nat \ {0} /\ PageSize \in Nat \ {0}
  /\ Requests \in Nat /\ MaxRounds \in Nat \ {0}

Ids == 1 .. Findings
Launch == Findings
Markers == 1 .. Requests
NoJob == 0

VARIABLES
  pc,          \* where the run is
  round,       \* RecoveryCarry.Round
  cursor,      \* where the next page starts
  page,        \* unsettled findings of the page being worked on
  last,        \* the page is complete
  incomplete,  \* reconcile: something of the pass failed
  asked,       \* history: findings the pass had Control advance
  due,         \* history: findings unsettled when the pass began
  recorded,    \* launchLedger.recorded
  stopPending, \* launchLedger.stopPending
  stoppedJob,  \* launchLedger.stoppedJob
  jobUID,      \* settleLaunch: the Job the confirmation will name
  seen,        \* the observation being recorded: its markers
  seenJob,     \* and the Job it names
  deleting,    \* the observation came from DeleteJob
  step,        \* the API call the running launcher Activity makes next
  sawJob,      \* its last Get
  enumerated,  \* Control: obligations enumerated so far
  settled,     \* Control: findings settled
  evidence,    \* Control: markers recorded for the launch finding
  told,        \* Control: a stop confirmation arrived
  emptied,     \* history: a DeleteJob observed the key empty
  pending,     \* create requests that may still commit
  job,         \* the Job under the key
  terminating, \* it has a deletion timestamp
  pods,        \* markers of the Pods under the key
  deletes      \* deletes not applied yet, by UID

passVars == <<cursor, page, last, incomplete, asked, due>>
ledgerVars == <<recorded, stopPending, stoppedJob>>
launchVars == <<jobUID, seen, seenJob, deleting, step, sawJob>>
controlVars == <<enumerated, settled, evidence, told>>
clusterVars == <<pending, job, terminating, pods, deletes>>
vars == <<pc, round, passVars, ledgerVars, launchVars, controlVars, emptied,
          clusterVars>>

TypeOK ==
  /\ pc \in {"enumerate", "list", "batch", "observe", "record", "delete",
             "confirm", "next", "evaluate", "sleep", "done", "failed"}
  /\ round \in 1 .. MaxRounds
  /\ cursor \in 0 .. Findings /\ page \in SUBSET Ids /\ last \in BOOLEAN
  /\ incomplete \in BOOLEAN /\ asked \in SUBSET Ids /\ due \in SUBSET Ids
  /\ recorded \in SUBSET Markers
  /\ stopPending \in BOOLEAN /\ stoppedJob \in 0 .. Requests
  /\ jobUID \in 0 .. Requests /\ seen \in SUBSET Markers
  /\ seenJob \in 0 .. Requests /\ deleting \in BOOLEAN
  /\ step \in {"get", "list"} /\ sawJob \in 0 .. Requests
  /\ enumerated \in 0 .. Findings /\ settled \in SUBSET Ids
  /\ evidence \in SUBSET Markers /\ told \in BOOLEAN
  /\ emptied \in BOOLEAN
  /\ pending \in SUBSET Markers /\ job \in 0 .. Requests
  /\ terminating \in BOOLEAN
  /\ pods \in SUBSET Markers /\ deletes \in SUBSET Markers

\* The scope is restricted and fenced; the original run left one Job, or
\* requests that may still commit.
Init ==
  /\ pc = "enumerate" /\ round = 1
  /\ cursor = 0 /\ page = {} /\ last = FALSE /\ incomplete = FALSE
  /\ asked = {} /\ due = {}
  /\ recorded = {} /\ stopPending = FALSE /\ stoppedJob = NoJob
  /\ jobUID = NoJob /\ seen = {} /\ seenJob = NoJob /\ deleting = FALSE
  /\ step = "get" /\ sawJob = NoJob
  /\ enumerated = 0 /\ settled = {} /\ evidence = {} /\ told = FALSE
  /\ emptied = FALSE
  /\ pending = Markers /\ job = NoJob /\ terminating = FALSE
  /\ pods = {} /\ deletes = {}

-----------------------------------------------------------------------------
(***************************************************************************)
(* A round: enumerate, walk the findings, evaluate.                        *)
(***************************************************************************)
\* Control keeps its cursor: a class enumerated in an earlier round answers
\* complete at once.
EnumeratePage ==
  /\ pc = "enumerate" /\ enumerated < Findings
  /\ enumerated' = enumerated + 1
  /\ UNCHANGED <<pc, round, passVars, ledgerVars, launchVars, settled, evidence>>
  /\ UNCHANGED <<told, emptied, clusterVars>>

BeginPass ==
  /\ pc = "enumerate" /\ enumerated = Findings
  /\ cursor' = 0 /\ page' = {} /\ last' = FALSE /\ incomplete' = FALSE
  /\ asked' = {} /\ due' = Ids \ settled
  /\ pc' = "list"
  /\ UNCHANGED <<round, ledgerVars, launchVars, controlVars, emptied, clusterVars>>

\* A page of the inventory or of the findings that cannot be read ends the
\* pass; the scope is evaluated all the same.
PassFails ==
  /\ pc \in {"enumerate", "list"}
  /\ incomplete' = TRUE
  /\ pc' = "evaluate"
  /\ UNCHANGED <<round, cursor, page, last, asked, due, ledgerVars, launchVars>>
  /\ UNCHANGED <<controlVars, emptied, clusterVars>>

InOrder == [i \in Ids |-> i]

\* Mutated form of Listing: only the findings that are not settled.
ListingUnsettled == SelectSeq(InOrder, LAMBDA f : f \notin settled)

\* ListFindings asks for every status.
Listing == InOrder

ListPage ==
  /\ pc = "list"
  /\ LET end == IF cursor + PageSize < Len(Listing) THEN cursor + PageSize ELSE Len(Listing)
         next == SubSeq(Listing, cursor + 1, end) IN
       /\ page' = {next[i] : i \in DOMAIN next} \ settled
       /\ last' = (cursor + PageSize >= Len(Listing))
       /\ cursor' = IF cursor + PageSize < Findings THEN cursor + PageSize ELSE Findings
  /\ pc' = "batch"
  /\ UNCHANGED <<round, incomplete, asked, due, ledgerVars, launchVars>>
  /\ UNCHANGED <<controlVars, emptied, clusterVars>>

\* ReconcileFindings: Control advances the findings of the page one by one;
\* some settle, some are not known settled, some fail.  An unsettled launch
\* goes on with the launcher's evidence: a pending confirmation first.
AdvancePage ==
  /\ pc = "batch"
  /\ \E ok \in SUBSET page : \E done \in SUBSET (ok \ {Launch}) :
       /\ settled' = settled \cup done
       /\ asked' = asked \cup page
       /\ incomplete' = (incomplete \/ ok # page)
       /\ pc' = IF Launch \in ok \ settled
                  THEN IF stopPending THEN "confirm" ELSE "observe"
                  ELSE "next"
  /\ step' = "get" /\ sawJob' = NoJob
  /\ UNCHANGED <<round, cursor, page, last, due, ledgerVars, jobUID, seen, seenJob>>
  /\ UNCHANGED <<deleting, enumerated, evidence, told, emptied, clusterVars>>

\* The Activity fails as a whole: nothing advanced, Control unreachable.
AdvanceFails ==
  /\ pc = "batch" /\ page # {}
  /\ asked' = asked \cup page
  /\ incomplete' = TRUE
  /\ pc' = "next"
  /\ UNCHANGED <<round, cursor, page, last, due, ledgerVars, launchVars>>
  /\ UNCHANGED <<controlVars, emptied, clusterVars>>

NextPage ==
  /\ pc = "next"
  /\ pc' = IF last THEN "evaluate" ELSE "list"
  /\ UNCHANGED <<round, passVars, ledgerVars, launchVars, controlVars, emptied>>
  /\ UNCHANGED clusterVars

\* EvaluateRecovery: reopened only if everything is enumerated and settled;
\* an answer that is lost leaves the decision to the next round.
Evaluate ==
  /\ pc = "evaluate"
  /\ \/ pc' = "done" /\ enumerated = Findings /\ settled = Ids
     \/ pc' = "sleep"
  /\ UNCHANGED <<round, passVars, ledgerVars, launchVars, controlVars, emptied>>
  /\ UNCHANGED clusterVars

EvaluateRefused ==
  /\ pc = "evaluate"
  /\ pc' = "failed"
  /\ UNCHANGED <<round, passVars, ledgerVars, launchVars, controlVars, emptied>>
  /\ UNCHANGED clusterVars

\* RECOVERY_RESTRICTED.
RoundsExhausted ==
  /\ pc = "sleep" /\ round = MaxRounds
  /\ pc' = "failed"
  /\ UNCHANGED <<round, passVars, ledgerVars, launchVars, controlVars, emptied>>
  /\ UNCHANGED clusterVars

RunAfresh ==
  /\ round' = round + 1
  /\ pc' = "enumerate"
  /\ cursor' = 0 /\ page' = {} /\ last' = FALSE /\ incomplete' = FALSE
  /\ asked' = {} /\ due' = {}
  /\ jobUID' = NoJob /\ seen' = {} /\ seenJob' = NoJob /\ deleting' = FALSE
  /\ step' = "get" /\ sawJob' = NoJob
  /\ UNCHANGED <<controlVars, emptied, clusterVars>>

NewRound ==
  /\ pc = "sleep" /\ round < MaxRounds
  /\ RunAfresh

\* Mutated form of ContinueAsNew: the carry has the markers only.
ContinueWithMarkers ==
  /\ NewRound
  /\ recorded' = recorded /\ stopPending' = FALSE /\ stoppedJob' = NoJob

\* The next round is a new run that holds the carried ledger and nothing else.
ContinueAsNew ==
  /\ NewRound
  /\ UNCHANGED ledgerVars

-----------------------------------------------------------------------------
(***************************************************************************)
(* settleLaunch and the launcher's Activities.                             *)
(***************************************************************************)
\* jobs.Get and pods.List are two reads.
GetJob ==
  /\ pc \in {"observe", "delete"} /\ step = "get"
  /\ sawJob' = job
  /\ step' = "list"
  /\ UNCHANGED <<pc, round, passVars, ledgerVars, jobUID, seen, seenJob, deleting>>
  /\ UNCHANGED <<controlVars, emptied, clusterVars>>

Present == (pods \cup {sawJob}) \ {NoJob}

\* The Job an observation names: the one that was read or, once it is gone,
\* the owner of the Pods that linger (the earliest one's, which may be any).
JobNamed == IF sawJob # NoJob \/ pods = {} THEN {sawJob} ELSE pods

Look(markers, found) ==
  /\ seen' = markers /\ seenJob' = found
  /\ step' = "get" /\ sawJob' = NoJob

\* ObserveLaunch returns what it sees as soon as there is anything.
Observed ==
  /\ pc = "observe" /\ step = "list" /\ Present # {}
  /\ \E named \in JobNamed : Look(Present, named) /\ jobUID' = named
  /\ deleting' = FALSE
  /\ pc' = "record"
  /\ UNCHANGED <<round, passVars, ledgerVars, controlVars, emptied, clusterVars>>

ObserveAgain ==
  /\ pc = "observe" /\ step = "list" /\ Present = {}
  /\ Look({}, NoJob)
  /\ UNCHANGED <<pc, round, passVars, ledgerVars, jobUID, deleting, controlVars>>
  /\ UNCHANGED <<emptied, clusterVars>>

\* The settle window passed, or the Activity failed: the outcome is recorded
\* with Control as nothing observed (or that fails), and the round goes on.
NothingObserved ==
  /\ pc = "observe"
  /\ incomplete' \in {incomplete, TRUE}
  /\ pc' = "next"
  /\ Look({}, NoJob)
  /\ UNCHANGED <<round, cursor, page, last, asked, due, ledgerVars, jobUID>>
  /\ UNCHANGED <<deleting, controlVars, emptied, clusterVars>>

\* Control recorded the observation; the ledger has its markers.
RecordAnswered ==
  /\ pc = "record"
  /\ evidence' = evidence \cup seen
  /\ recorded' = recorded \cup seen
  /\ jobUID' = IF deleting /\ seenJob # NoJob THEN seenJob ELSE jobUID
  /\ Look({}, NoJob)
  /\ pc' = "delete"
  /\ UNCHANGED <<round, passVars, stopPending, stoppedJob, deleting, enumerated>>
  /\ UNCHANGED <<settled, told, emptied, clusterVars>>

\* Not recorded, or recorded and the answer lost: the launch is left to the
\* next round, which observes it again.
RecordFails ==
  /\ pc = "record"
  /\ evidence' \in {evidence, evidence \cup seen}
  /\ incomplete' = TRUE
  /\ Look({}, NoJob)
  /\ pc' = "next"
  /\ UNCHANGED <<round, cursor, page, last, asked, due, ledgerVars, jobUID>>
  /\ UNCHANGED <<deleting, enumerated, settled, told, emptied, clusterVars>>

\* Mutated form of Unrecorded: not in EvidenceFirst mode.
UnrecordedIgnored == FALSE

\* DeleteJob with EvidenceFirst: an object with a marker the ledger lacks.
Unrecorded == Present \ recorded # {}

DeleteReports ==
  /\ pc = "delete" /\ step = "list" /\ Unrecorded
  /\ \E named \in JobNamed : Look(Present, named)
  /\ deleting' = TRUE
  /\ pc' = "record"
  /\ UNCHANGED <<round, passVars, ledgerVars, jobUID, controlVars, emptied>>
  /\ UNCHANGED clusterVars

\* Every object is recorded: the Job is deleted under its UID, Pods that
\* linger are waited for.
DeleteStops ==
  /\ pc = "delete" /\ step = "list" /\ ~Unrecorded /\ Present # {}
  /\ deletes' = deletes \cup ({sawJob} \ {NoJob})
  /\ Look({}, NoJob)
  /\ UNCHANGED <<pc, round, passVars, ledgerVars, jobUID, deleting, controlVars>>
  /\ UNCHANGED <<emptied, pending, job, terminating, pods>>

\* The key is empty: the confirmation is owed from now on.
DeleteEmpties ==
  /\ pc = "delete" /\ step = "list" /\ Present = {}
  /\ stopPending' = TRUE /\ stoppedJob' = jobUID
  /\ emptied' = TRUE
  /\ Look({}, NoJob)
  /\ pc' = "confirm"
  /\ UNCHANGED <<round, passVars, recorded, jobUID, deleting, controlVars>>
  /\ UNCHANGED clusterVars

DeleteFails ==
  /\ pc = "delete"
  /\ incomplete' = TRUE
  /\ Look({}, NoJob)
  /\ pc' = "next"
  /\ UNCHANGED <<round, cursor, page, last, asked, due, ledgerVars, jobUID>>
  /\ UNCHANGED <<deleting, controlVars, emptied, clusterVars>>

\* Control takes the confirmation against the recorded observation; it
\* settles the finding, or answers without settling it.
ConfirmAnswered ==
  /\ pc = "confirm"
  /\ told' = TRUE
  /\ \/ settled' = settled \cup {Launch} /\ stopPending' = FALSE
     \/ UNCHANGED <<settled, stopPending>>
  /\ pc' = "next"
  /\ UNCHANGED <<round, passVars, recorded, stoppedJob, launchVars, enumerated>>
  /\ UNCHANGED <<evidence, emptied, clusterVars>>

\* The retries are exhausted, with or without an effect at Control.
ConfirmFails ==
  /\ pc = "confirm"
  /\ \/ UNCHANGED <<told, settled>>
     \/ told' = TRUE /\ settled' \in {settled, settled \cup {Launch}}
  /\ incomplete' = TRUE
  /\ pc' = "next"
  /\ UNCHANGED <<round, cursor, page, last, asked, due, ledgerVars, launchVars>>
  /\ UNCHANGED <<enumerated, evidence, emptied, clusterVars>>

-----------------------------------------------------------------------------
(***************************************************************************)
(* The environment: late outcomes and dispositions at Control, create      *)
(* requests of the original run, the Job controller.                       *)
(***************************************************************************)
LateOutcome(f) ==
  /\ f \in 1 .. enumerated \ settled
  /\ settled' = settled \cup {f}
  /\ UNCHANGED <<pc, round, passVars, ledgerVars, launchVars, enumerated>>
  /\ UNCHANGED <<evidence, told, emptied, clusterVars>>

RequestCommits(r) ==
  /\ r \in pending /\ job = NoJob
  /\ pending' = pending \ {r}
  /\ job' = r
  /\ UNCHANGED <<pc, round, passVars, ledgerVars, launchVars, controlVars>>
  /\ UNCHANGED <<emptied, terminating, pods, deletes>>

RequestDies(r) ==
  /\ r \in pending
  /\ pending' = pending \ {r}
  /\ UNCHANGED <<pc, round, passVars, ledgerVars, launchVars, controlVars>>
  /\ UNCHANGED <<emptied, job, terminating, pods, deletes>>

PodStarts ==
  /\ job # NoJob /\ ~terminating
  /\ pods' = pods \cup {job}
  /\ UNCHANGED <<pc, round, passVars, ledgerVars, launchVars, controlVars>>
  /\ UNCHANGED <<emptied, pending, job, terminating, deletes>>

PodGone(r) ==
  /\ r \in pods
  /\ pods' = pods \ {r}
  /\ UNCHANGED <<pc, round, passVars, ledgerVars, launchVars, controlVars>>
  /\ UNCHANGED <<emptied, pending, job, terminating, deletes>>

ApplyDelete(r) ==
  /\ r \in deletes
  /\ deletes' = deletes \ {r}
  /\ terminating' = (terminating \/ job = r)
  /\ UNCHANGED <<pc, round, passVars, ledgerVars, launchVars, controlVars>>
  /\ UNCHANGED <<emptied, pending, job, pods>>

\* A deleted Job goes when its Pods are gone.
JobRemoved ==
  /\ terminating /\ job \notin pods
  /\ job' = NoJob /\ terminating' = FALSE
  /\ UNCHANGED <<pc, round, passVars, ledgerVars, launchVars, controlVars>>
  /\ UNCHANGED <<emptied, pending, pods, deletes>>

-----------------------------------------------------------------------------
RoundStep ==
  \/ EnumeratePage \/ BeginPass \/ PassFails \/ ListPage \/ AdvancePage
  \/ AdvanceFails \/ NextPage \/ Evaluate \/ EvaluateRefused
  \/ RoundsExhausted \/ ContinueAsNew

LaunchStep ==
  \/ GetJob \/ Observed \/ ObserveAgain \/ NothingObserved \/ RecordAnswered
  \/ RecordFails \/ DeleteReports \/ DeleteStops \/ DeleteEmpties
  \/ DeleteFails \/ ConfirmAnswered \/ ConfirmFails

Environment ==
  \/ \E f \in Ids : LateOutcome(f)
  \/ \E r \in Markers : \/ RequestCommits(r) \/ RequestDies(r) \/ PodGone(r)
                        \/ ApplyDelete(r)
  \/ PodStarts \/ JobRemoved

Ended == pc \in {"done", "failed"} /\ UNCHANGED vars

Next == RoundStep \/ LaunchStep \/ Environment \/ Ended

Spec == Init /\ [][Next]_vars

-----------------------------------------------------------------------------
(***************************************************************************)
(* Properties                                                              *)
(***************************************************************************)

\* A pass that reports nothing incomplete has had Control advance every
\* finding that was unsettled when it began, wherever it is in the order and
\* whatever settled while the pages were walked.
WalkComplete ==
  pc = "evaluate" /\ ~incomplete => due \subseteq asked \cup settled

\* Evidence before deletion: whatever a recovery run stops under the original
\* launch key is recorded with Control, over failed records, later rounds and
\* objects that took the name meanwhile.
RecordedBeforeDelete ==
  deletes \cup (IF terminating THEN {job} ELSE {}) \subseteq evidence

\* The one observation that cannot be repeated is not lost: after the key was
\* observed empty, the confirmation is owed or the finding is settled, and a
\* confirmation given to Control is true of every object it has recorded.
StopEvidence ==
  /\ emptied => stopPending \/ Launch \in settled
  /\ told => evidence \cap (pods \cup {job}) = {}
=============================================================================
