--------------------------- MODULE LaunchCleanup ---------------------------
(***************************************************************************)
(* One prepared launch of a LocalCheck run, from the first create request  *)
(* to the close that reports its cleanup (src/internal/workflows/          *)
(* localcheck.go: createJob, createLedger, cleanupRound, reconcileCleanup),*)
(* with the launcher Activities it calls (src/internal/adapters/kubernetes/*)
(* launcher.go: CreateJob, ObserveLaunch, DeleteJob) interleaved with the  *)
(* Kubernetes API server and the Job controller.                           *)
(*                                                                         *)
(* The Workflow issues create requests under one launch key.  A request    *)
(* that was written and never answered may commit at any moment the API    *)
(* server still handles it, also while the Job of another request is being *)
(* deleted.  The run therefore keeps a ledger of such requests and reports *)
(* cleanup complete only on evidence about each of them.                   *)
(*                                                                         *)
(* Simplifications:                                                        *)
(*  - an object is named by the request that made it: the marker annotation*)
(*    and the UID of a Job determine each other, since one request commits *)
(*    at most one Job; 0 stands for "no Job";                              *)
(*  - the Pods of one Job are one element of pods: the ledger only reads   *)
(*    their markers;                                                       *)
(*  - the clock is abstracted to which lifetimes are over (over) and to how*)
(*    many reconciliation rounds the bound leaves (MaxRounds);             *)
(*  - ctx.Err() and the deadline only ever end the requests, so they are   *)
(*    choices of the actions that test them and no state;                  *)
(*  - what the run does between the created Job and its end (observe,      *)
(*    register, verify, accept) touches neither the backend nor the ledger *)
(*    and is one action here.                                              *)
(***************************************************************************)
EXTENDS Naturals

CONSTANTS
  MaxRequests,   \* Bounds.ControlRetryMaxAttempts: create requests per launch
  MaxRounds,     \* rounds ReconcileMaxDuration has room for
  Harness,       \* the profile has a per-launch Secret (profile.SidecarImage # nil)
  LifetimeRule,  \* Bounds.CreateRequestLifetime > 0 (and the run is not older than it)
  LongBound,     \* ReconcileMaxDuration leaves a round after the last lifetime
  Outages        \* API server reads and deletes, Activities and closes may fail

ASSUME MaxRequestsAssumption == MaxRequests \in Nat \ {0}
ASSUME MaxRoundsAssumption == MaxRounds \in Nat
ASSUME SwitchesAssumption ==
  /\ Harness \in BOOLEAN /\ LifetimeRule \in BOOLEAN
  /\ LongBound \in BOOLEAN /\ Outages \in BOOLEAN

Requests == 1 .. MaxRequests
NoJob == 0

VARIABLES
  pc,          \* where the run is
  issued,      \* createLedger.issued
  unaccounted, \* createLedger.unaccounted
  over,        \* requests whose CreateRequestLifetime has passed on the Workflow clock
  before,      \* cleanupRound: the unaccounted requests when the pass began
  expired,     \* cleanupRound: lifetimeEnded() when the pass began
  observed,    \* cleanupRound: the loop variable, TRUE from the second pass on
  rounds,      \* reconcileCleanup: rounds begun
  cleanup,     \* the cleanup the pending close carries
  reported,    \* the cleanup of the last close Control accepted
  step,        \* the API call the running cleanup Activity makes next
  sawJob,      \* the Activity's last Get
  sawPods,     \* the Activity's last List
  request,     \* request[r]: what became of the create request r
  secret,      \* the per-launch Secret exists
  job,         \* the Job under the launch key, NoJob when there is none
  terminating, \* the Job has a deletion timestamp
  pods,        \* markers of the Pods under the launch key
  deletes,     \* Job deletes the API server has not applied yet, by UID
  witnessed    \* history: markers of the objects recorded in the run's history

runVars == <<pc, issued, unaccounted, rounds, cleanup, reported, witnessed>>
roundVars == <<before, expired, observed>>
callVars == <<step, sawJob, sawPods>>
backendVars == <<request, secret, job, terminating, pods, deletes>>
vars == <<runVars, over, roundVars, callVars, backendVars>>

(***************************************************************************)
(* The states of a create request.  "unsent": nothing written; "secret" and*)
(* "job": the API server handles the create of the Secret, of the Job;     *)
(* "held": the Secret is in place and the Job not yet written; "made": the *)
(* Job was committed; "exists": answered AlreadyExists; "void": nothing of *)
(* it is on the backend and nothing can come.                              *)
(***************************************************************************)
Pending == {"unsent", "secret", "held", "job"}
RequestStates == Pending \cup {"made", "exists", "void"}

PCs == {"issue", "creating", "running", "round", "observing", "deleting",
        "closing", "reconcile", "done", "failed"}

TypeOK ==
  /\ pc \in PCs
  /\ issued \in 0 .. MaxRequests
  /\ unaccounted \in SUBSET Requests
  /\ over \in SUBSET Requests
  /\ before \in SUBSET Requests
  /\ expired \in SUBSET Requests
  /\ observed \in BOOLEAN
  /\ rounds \in 0 .. MaxRounds
  /\ cleanup \in {"none", "unknown", "complete"}
  /\ reported \in {"none", "unknown", "complete"}
  /\ step \in {"get", "list", "answer", "confirm"}
  /\ sawJob \in Requests \cup {NoJob}
  /\ sawPods \in SUBSET Requests
  /\ request \in [Requests -> RequestStates]
  /\ secret \in BOOLEAN
  /\ job \in Requests \cup {NoJob}
  /\ terminating \in BOOLEAN
  /\ pods \in SUBSET Requests
  /\ deletes \in SUBSET Requests
  /\ witnessed \in SUBSET Requests

\* The run just after PrepareLaunch: launched is set, nothing was issued.
Init ==
  /\ pc = "issue"
  /\ issued = 0 /\ unaccounted = {} /\ over = {}
  /\ before = {} /\ expired = {} /\ observed = FALSE
  /\ rounds = 0 /\ cleanup = "none" /\ reported = "none"
  /\ step = "get" /\ sawJob = NoJob /\ sawPods = {}
  /\ request = [r \in Requests |-> "unsent"]
  /\ secret = FALSE /\ job = NoJob /\ terminating = FALSE
  /\ pods = {} /\ deletes = {}
  /\ witnessed = {}

-----------------------------------------------------------------------------
(***************************************************************************)
(* createJob: one Activity execution per request.                          *)
(***************************************************************************)
IssueCreate ==
  /\ pc = "issue"
  /\ issued' = issued + 1
  /\ pc' = "creating"
  /\ UNCHANGED <<unaccounted, rounds, cleanup, reported, witnessed, over>>
  /\ UNCHANGED <<roundVars, callVars, backendVars>>

\* The next request follows unless the requests are exhausted; a canceled
\* run goes to its cleanup in any case.
RetryOrEnd ==
  /\ pc' \in IF issued < MaxRequests THEN {"issue", "round"} ELSE {"round"}
  /\ observed' = FALSE

\* The Job an answer can carry: the one the request made, the existing one
\* read after AlreadyExists, or, when the deadline had passed and nothing
\* was written, the existing one.
AnsweredJobs(r) ==
  {m \in Requests : \/ request[r] = "made" /\ m = r
                    \/ request[r] \in {"exists", "unsent"} /\ m = job}

CreateSucceeds ==
  /\ pc = "creating"
  /\ \E m \in AnsweredJobs(issued) :
       /\ unaccounted' = unaccounted \ {m}
       /\ witnessed' = witnessed \cup {m}
  /\ request' = [request EXCEPT ![issued] = IF @ = "unsent" THEN "void" ELSE @]
  /\ pc' = "running"
  /\ UNCHANGED <<issued, rounds, cleanup, reported, over, roundVars, callVars>>
  /\ UNCHANGED <<secret, job, terminating, pods, deletes>>

\* NotCreated: a definitive rejection, a request that never reached the
\* wire, or an existing Job that could not be read.
CreateNotCreated ==
  /\ pc = "creating"
  /\ request[issued] \in {"unsent", "held", "void", "exists"}
  /\ request' = [request EXCEPT ![issued] = "void"]
  /\ RetryOrEnd
  /\ UNCHANGED <<issued, unaccounted, rounds, cleanup, reported, witnessed>>
  /\ UNCHANGED <<over, before, expired, callVars>>
  /\ UNCHANGED <<secret, job, terminating, pods, deletes>>

\* A refusal before anything is written: profile, image digest, deadline.
CreateRefused ==
  /\ pc = "creating"
  /\ request[issued] = "unsent"
  /\ request' = [request EXCEPT ![issued] = "void"]
  /\ pc' = "round"
  /\ observed' = FALSE
  /\ UNCHANGED <<issued, unaccounted, rounds, cleanup, reported, witnessed>>
  /\ UNCHANGED <<over, before, expired, callVars>>
  /\ UNCHANGED <<secret, job, terminating, pods, deletes>>

\* Any other failure: no answer, a server or gateway error, an Activity that
\* timed out or was canceled in flight, whatever became of the request.
CreateUnresolved ==
  /\ pc = "creating"
  /\ unaccounted' = unaccounted \cup {issued}
  /\ RetryOrEnd
  /\ UNCHANGED <<issued, rounds, cleanup, reported, witnessed>>
  /\ UNCHANGED <<over, before, expired, callVars, backendVars>>

\* ObserveJob to AcceptResult, or any of their failures, and a cancellation.
RunPathEnds ==
  /\ pc = "running"
  /\ pc' = "round"
  /\ observed' = FALSE
  /\ UNCHANGED <<issued, unaccounted, rounds, cleanup, reported, witnessed>>
  /\ UNCHANGED <<over, before, expired, callVars, backendVars>>

\* CreateRequestLifetime after the create Activity ended: the API server has
\* long finished handling the request (the premise of the lifetime rule).
LifetimeEnds(r) ==
  /\ r \in unaccounted \ over
  /\ request[r] \notin Pending
  /\ over' = over \cup {r}
  /\ UNCHANGED <<runVars, roundVars, callVars, backendVars>>

-----------------------------------------------------------------------------
(***************************************************************************)
(* The API server and the Job controller (external).  A client whose       *)
(* Activity the Workflow has given up on may still write until the         *)
(* request's lifetime is over.                                             *)
(***************************************************************************)
\* The Activity of the request runs, or ended without an answer.
Writable(r) == (pc = "creating" /\ r = issued) \/ r \in unaccounted

ChangeRequest(r, from, to) ==
  /\ request[r] = from
  /\ request' = [request EXCEPT ![r] = to]

WriteSecret(r) ==
  /\ Harness /\ Writable(r)
  /\ ChangeRequest(r, "unsent", "secret")
  /\ UNCHANGED <<runVars, over, roundVars, callVars>>
  /\ UNCHANGED <<secret, job, terminating, pods, deletes>>

\* Created, or AlreadyExists, which the launcher takes as success.
SecretLands(r) ==
  /\ ChangeRequest(r, "secret", "held")
  /\ secret' = TRUE
  /\ UNCHANGED <<runVars, over, roundVars, callVars>>
  /\ UNCHANGED <<job, terminating, pods, deletes>>

WriteJob(r) ==
  /\ Writable(r)
  /\ ChangeRequest(r, IF Harness THEN "held" ELSE "unsent", "job")
  /\ UNCHANGED <<runVars, over, roundVars, callVars>>
  /\ UNCHANGED <<secret, job, terminating, pods, deletes>>

\* Mutated form of MayLand: the HTTP client sends the create again on a
\* redirect or a Retry-After answer, and the copy lands after the original.
MayLandTwice(r) == request[r] \in {"job", "made"}

\* A create request is one write: its copies are never sent.
MayLand(r) == request[r] = "job"

JobLands(r) ==
  /\ job = NoJob /\ MayLand(r)
  /\ request' = [request EXCEPT ![r] = "made"]
  /\ job' = r
  /\ UNCHANGED <<runVars, over, roundVars, callVars>>
  /\ UNCHANGED <<secret, terminating, pods, deletes>>

JobExists(r) ==
  /\ job # NoJob
  /\ ChangeRequest(r, "job", "exists")
  /\ UNCHANGED <<runVars, over, roundVars, callVars>>
  /\ UNCHANGED <<secret, job, terminating, pods, deletes>>

\* Rejected, dropped on the way, or the client is over before it wrote.
RequestDies(r) ==
  /\ \/ request[r] \in {"secret", "job"}
     \/ request[r] \in {"unsent", "held"} /\ r \in unaccounted
  /\ request' = [request EXCEPT ![r] = "void"]
  /\ UNCHANGED <<runVars, over, roundVars, callVars>>
  /\ UNCHANGED <<secret, job, terminating, pods, deletes>>

PodStarts ==
  /\ job # NoJob /\ ~terminating
  /\ pods' = pods \cup {job}
  /\ UNCHANGED <<runVars, over, roundVars, callVars>>
  /\ UNCHANGED <<request, secret, job, terminating, deletes>>

PodGone(r) ==
  /\ r \in pods
  /\ pods' = pods \ {r}
  /\ UNCHANGED <<runVars, over, roundVars, callVars>>
  /\ UNCHANGED <<request, secret, job, terminating, deletes>>

\* Mutated form of ApplyDelete: no UID precondition.
ApplyDeleteByName(r) ==
  /\ r \in deletes
  /\ deletes' = deletes \ {r}
  /\ terminating' = (terminating \/ job # NoJob)
  /\ UNCHANGED <<runVars, over, roundVars, callVars>>
  /\ UNCHANGED <<request, secret, job, pods>>

\* A delete reaches the API server: bound to the UID it observed, it marks
\* that Job only; for another Job (Conflict) or none (NotFound) it does nothing.
ApplyDelete(r) ==
  /\ r \in deletes
  /\ deletes' = deletes \ {r}
  /\ terminating' = (terminating \/ job = r)
  /\ UNCHANGED <<runVars, over, roundVars, callVars>>
  /\ UNCHANGED <<request, secret, job, pods>>

\* Foreground deletion: the Job goes when its Pods are gone.
JobRemoved ==
  /\ terminating /\ job \notin pods
  /\ job' = NoJob
  /\ terminating' = FALSE
  /\ UNCHANGED <<runVars, over, roundVars, callVars>>
  /\ UNCHANGED <<request, secret, pods, deletes>>

\* Another actor removes the Job in the background: its Pods linger.
JobTakenAway ==
  /\ job # NoJob
  /\ job' = NoJob
  /\ terminating' = FALSE
  /\ UNCHANGED <<runVars, over, roundVars, callVars>>
  /\ UNCHANGED <<request, secret, pods, deletes>>

-----------------------------------------------------------------------------
(***************************************************************************)
(* cleanupRound and the Activities it runs.                                *)
(***************************************************************************)
\* Mutated form of lifetimeEnded: the rule is lost.
lifetimeIgnored == {}

lifetimeEnded == IF LifetimeRule THEN unaccounted \cap over ELSE {}

BeginPass ==
  /\ pc = "round"
  /\ before' = unaccounted
  /\ expired' = lifetimeEnded
  /\ pc' = IF unaccounted # {} /\ lifetimeEnded # unaccounted
             THEN "observing" ELSE "deleting"
  /\ step' = "get" /\ sawJob' = NoJob /\ sawPods' = {}
  /\ UNCHANGED <<issued, unaccounted, rounds, cleanup, reported, witnessed>>
  /\ UNCHANGED <<over, observed, backendVars>>

CallRunning == pc \in {"observing", "deleting"}

\* jobs.Get and pods.List are two reads with the backend moving in between.
GetJob ==
  /\ CallRunning /\ step = "get"
  /\ sawJob' = job
  /\ step' = "list"
  /\ UNCHANGED <<runVars, over, roundVars, sawPods, backendVars>>

ListPods ==
  /\ CallRunning /\ step = "list"
  /\ sawPods' = pods
  /\ step' = "answer"
  /\ UNCHANGED <<runVars, over, roundVars, sawJob, backendVars>>

\* LaunchObservation.Requests and Empty().
Markers == (sawPods \cup {sawJob}) \ {NoJob}
NothingSeen == Markers = {}

\* The Activity's poll (also its SDK retry after a lost worker or receipt):
\* the same input, fresh reads.
Repoll ==
  /\ step' = "get" /\ sawJob' = NoJob /\ sawPods' = {}

RoundConfirmed ==
  /\ cleanup' = "complete"
  /\ pc' = "closing"

\* The first round is followed by the close that reports unknown; a later
\* one by the next reconciliation step.
RoundUnconfirmed ==
  /\ cleanup' = "unknown"
  /\ pc' = IF reported = "none" THEN "closing" ELSE "reconcile"

ObserveReturns ==
  /\ pc = "observing" /\ step = "answer" /\ ~NothingSeen
  /\ unaccounted' = unaccounted \ Markers
  /\ witnessed' = witnessed \cup Markers
  /\ pc' = "deleting"
  /\ Repoll
  /\ UNCHANGED <<issued, rounds, cleanup, reported, over, roundVars, backendVars>>

\* Nothing seen: look again within the settle window.
ObserveAgain ==
  /\ pc = "observing" /\ step = "answer" /\ NothingSeen
  /\ Repoll
  /\ UNCHANGED <<runVars, over, roundVars, backendVars>>

\* The settle window ended without an observation, or the Activity failed.
ObserveFails ==
  /\ pc = "observing"
  /\ Outages \/ (step = "answer" /\ NothingSeen)
  /\ RoundUnconfirmed
  /\ UNCHANGED <<issued, unaccounted, rounds, reported, witnessed>>
  /\ UNCHANGED <<over, roundVars, callVars, backendVars>>

CallRestarts ==
  /\ CallRunning /\ Outages /\ step # "get"
  /\ Repoll
  /\ UNCHANGED <<runVars, over, roundVars, backendVars>>

\* What cleanupRound does with the ledger and the answer of the delete.
AfterDelete(seen, ledger) ==
  /\ unaccounted' = ledger
  /\ \/ /\ ledger = {} /\ seen = {}
        /\ RoundConfirmed
        /\ UNCHANGED observed
     \/ /\ ~(ledger = {} /\ seen = {})
        /\ observed /\ ledger = before
        /\ RoundUnconfirmed
        /\ UNCHANGED observed
     \/ /\ ~(ledger = {} /\ seen = {})
        /\ ~(observed /\ ledger = before)
        /\ pc' = "round"
        /\ observed' = TRUE
        /\ UNCHANGED cleanup

\* An object of an unaccounted request: returned unstopped and recorded.
DeleteReports ==
  /\ pc = "deleting" /\ step = "answer"
  /\ Markers \cap unaccounted # {}
  /\ AfterDelete(Markers, unaccounted \ Markers)
  /\ witnessed' = witnessed \cup Markers
  /\ Repoll
  /\ UNCHANGED <<issued, rounds, reported, over, before, expired, backendVars>>

\* Only accounted objects: the observed Job is deleted by its UID and the
\* key is read again; lingering Pods are only waited for.
DeleteStops ==
  /\ pc = "deleting" /\ step = "answer"
  /\ ~NothingSeen /\ Markers \cap unaccounted = {}
  /\ deletes' = deletes \cup ({sawJob} \ {NoJob})
  /\ Repoll
  /\ UNCHANGED <<runVars, over, roundVars>>
  /\ UNCHANGED <<request, secret, job, terminating, pods>>

\* Nothing left: the per-launch Secret goes last.
DeleteSecret ==
  /\ pc = "deleting" /\ step = "answer" /\ NothingSeen
  /\ secret' = FALSE
  /\ step' = "confirm"
  /\ UNCHANGED <<runVars, over, roundVars, sawJob, sawPods>>
  /\ UNCHANGED <<request, job, terminating, pods, deletes>>

\* The empty observation: every request whose lifetime had ended when the
\* pass began is struck.
DeleteConfirms ==
  /\ pc = "deleting" /\ step = "confirm"
  /\ AfterDelete({}, unaccounted \ expired)
  /\ Repoll
  /\ UNCHANGED <<issued, rounds, reported, witnessed, over, before, expired>>
  /\ UNCHANGED backendVars

DeleteFails ==
  /\ pc = "deleting" /\ Outages
  /\ RoundUnconfirmed
  /\ UNCHANGED <<issued, unaccounted, rounds, reported, witnessed>>
  /\ UNCHANGED <<over, roundVars, callVars, backendVars>>

-----------------------------------------------------------------------------
(***************************************************************************)
(* The closes and the durable recovery owner.                              *)
(***************************************************************************)
\* Mutated form of CloseAccepted: a close after an unconfirmed round still
\* says complete.
CloseAcceptedComplete ==
  /\ pc = "closing"
  /\ reported' = "complete"
  /\ pc' = IF cleanup = "complete" THEN "done" ELSE "reconcile"
  /\ UNCHANGED <<issued, unaccounted, rounds, cleanup, witnessed>>
  /\ UNCHANGED <<over, roundVars, callVars, backendVars>>

CloseAccepted ==
  /\ pc = "closing"
  /\ reported' = cleanup
  /\ pc' = IF cleanup = "complete" THEN "done" ELSE "reconcile"
  /\ UNCHANGED <<issued, unaccounted, rounds, cleanup, witnessed>>
  /\ UNCHANGED <<over, roundVars, callVars, backendVars>>

CloseRefused ==
  /\ pc = "closing" /\ Outages
  /\ pc' = "failed"
  /\ UNCHANGED <<issued, unaccounted, rounds, cleanup, reported, witnessed>>
  /\ UNCHANGED <<over, roundVars, callVars, backendVars>>

\* Mutated form of ReconcileRound: the duration is measured from the start
\* of the round instead of the start of the reconciliation.
ReconcileRoundFromItsStart ==
  /\ pc = "reconcile" /\ rounds < MaxRounds
  /\ rounds' = rounds
  /\ pc' = "round"
  /\ observed' = FALSE
  /\ UNCHANGED <<issued, unaccounted, cleanup, reported, witnessed>>
  /\ UNCHANGED <<over, before, expired, callVars, backendVars>>

ReconcileRound ==
  /\ pc = "reconcile" /\ rounds < MaxRounds
  /\ LongBound /\ rounds + 1 = MaxRounds => unaccounted \subseteq over
  /\ rounds' = rounds + 1
  /\ pc' = "round"
  /\ observed' = FALSE
  /\ UNCHANGED <<issued, unaccounted, cleanup, reported, witnessed>>
  /\ UNCHANGED <<over, before, expired, callVars, backendVars>>

ReconcileGivesUp ==
  /\ pc = "reconcile" /\ rounds = MaxRounds
  /\ pc' = "failed"
  /\ UNCHANGED <<issued, unaccounted, rounds, cleanup, reported, witnessed>>
  /\ UNCHANGED <<over, roundVars, callVars, backendVars>>

-----------------------------------------------------------------------------
CreateStep ==
  IssueCreate \/ CreateSucceeds \/ CreateNotCreated \/ CreateRefused
  \/ CreateUnresolved \/ RunPathEnds

CallStep ==
  \/ GetJob \/ ListPods \/ ObserveReturns \/ ObserveAgain \/ ObserveFails
  \/ CallRestarts \/ DeleteReports \/ DeleteStops \/ DeleteSecret
  \/ DeleteConfirms \/ DeleteFails

CloseStep ==
  CloseAccepted \/ CloseRefused \/ ReconcileRound \/ ReconcileGivesUp

RequestStep(r) ==
  \/ WriteSecret(r) \/ SecretLands(r) \/ WriteJob(r) \/ JobLands(r)
  \/ JobExists(r) \/ RequestDies(r) \/ LifetimeEnds(r)

BackendStep ==
  \/ PodStarts \/ JobRemoved \/ JobTakenAway
  \/ \E r \in Requests : PodGone(r) \/ ApplyDelete(r)

\* The run is over; what is left on the backend may still move.
Ended == pc \in {"done", "failed"} /\ UNCHANGED vars

Next ==
  \/ CreateStep \/ BeginPass \/ CallStep \/ CloseStep \/ BackendStep
  \/ \E r \in Requests : RequestStep(r)
  \/ Ended

Spec == Init /\ [][Next]_vars

CreateAnswer ==
  CreateSucceeds \/ CreateNotCreated \/ CreateRefused \/ CreateUnresolved

CallProgress ==
  \/ GetJob \/ ListPods \/ ObserveReturns \/ ObserveAgain
  \/ DeleteReports \/ DeleteStops \/ DeleteSecret \/ DeleteConfirms

(***************************************************************************)
(* Fairness.  The Workflow takes its next step (Temporal replays it on any *)
(* worker); an Activity polls until it returns or its StartToCloseTimeout  *)
(* and the retry cap end it; the settle window passes; timers fire.  The   *)
(* API server finishes every request it handles and applies every delete,  *)
(* and the Job controller stops the Pods of a Job that is gone or going.   *)
(* Nothing makes the API server commit a create, start a Pod or take a Job *)
(* away.                                                                   *)
(***************************************************************************)
Fairness ==
  /\ WF_vars(IssueCreate) /\ WF_vars(CreateAnswer) /\ WF_vars(RunPathEnds)
  /\ WF_vars(BeginPass) /\ WF_vars(CallProgress) /\ WF_vars(CloseStep)
  /\ SF_vars(ObserveFails) /\ WF_vars(DeleteFails)
  /\ \A r \in Requests :
       /\ WF_vars(RequestDies(r)) /\ WF_vars(LifetimeEnds(r))
       /\ WF_vars(ApplyDelete(r))
       /\ WF_vars(PodGone(r) /\ (r # job \/ terminating))
  /\ WF_vars(JobRemoved)

FairSpec == Spec /\ Fairness

-----------------------------------------------------------------------------
(***************************************************************************)
(* Properties                                                              *)
(***************************************************************************)

\* The requests the API server may still turn into an object.
Outstanding == {r \in 1 .. issued : request[r] \in Pending}

\* The markers of what exists under the launch key.
Live == (pods \cup {job}) \ {NoJob}

\* The request whose create Activity is running.
InFlight == IF pc = "creating" THEN {issued} ELSE {}

\* A cleanup the run found complete (cleanupRound returned true) is
\* complete: no Job, no Pod, no Secret, and no create request that could
\* still bring one back.
CompleteMeansStopped ==
  cleanup = "complete" => Live = {} /\ ~secret /\ Outstanding = {}

\* The ledger covers the backend: whatever may still land or exists under
\* the key belongs to the request in flight, to an unaccounted request or,
\* once it exists, to one whose object the run has recorded.
LedgerCovers ==
  /\ Outstanding \subseteq unaccounted \cup InFlight
  /\ Live \subseteq unaccounted \cup InFlight \cup witnessed

\* Evidence comes before deletion: every Job the run has asked to delete was
\* recorded in its history first, also when the delete is applied late.
EvidenceFirst ==
  deletes \cup (IF terminating THEN {job} ELSE {}) \subseteq witnessed \ unaccounted

\* A request leaves the ledger only when its object was recorded, or when
\* it has no object and can never get one.
StruckOnEvidence ==
  [][\A r \in unaccounted \ unaccounted' :
        r \in witnessed' \/ r \notin Outstanding \cup Live]_vars

\* The run ends: every round terminates, whatever the backend shows.
RunEnds == <>(pc \in {"done", "failed"})

\* The run keeps the promise of LaunchObligation.
Obligation ==
  INSTANCE LaunchObligation
    WITH Request <- Requests, outstanding <- Outstanding, live <- Live,
         told <- reported
KeepsObligation == Obligation!Spec

\* Without outages and with a reconciliation bound longer than the lifetimes
\* every launch settles: the run reports cleanup complete.
CleanupSettles == <>(reported = "complete")
-----------------------------------------------------------------------------
(***************************************************************************)
(* The inductive invariant behind the safety properties.                   *)
(***************************************************************************)
\* The ordinals the run has given out, and their place in the ledger.
OrdinalsInv ==
  /\ unaccounted \cup witnessed \cup over \subseteq 1 .. issued
  /\ \A r \in Requests : r > issued => request[r] = "unsent"
  /\ unaccounted \cap witnessed = {}
  /\ pc = "issue" => issued < MaxRequests
  /\ pc = "creating" => issued \in Requests /\ issued \notin witnessed

\* Objects exist only of requests that committed; a lifetime ends only after
\* the API server is done with the request.
ObjectsInv ==
  /\ \A r \in Live \cup deletes \cup sawPods \cup ({sawJob} \ {NoJob}) :
       request[r] = "made"
  /\ \A r \in over : request[r] \notin Pending
  /\ terminating => job # NoJob

\* What the running pass knows: the requests it may strike are over; what
\* its delete saw is accounted for or recorded; and once it read the key
\* empty, only requests it will not strike can have brought something back.
PassInv ==
  /\ expired \subseteq over
  /\ pc = "deleting" /\ sawJob # NoJob => sawJob \in unaccounted \cup witnessed
  /\ pc = "deleting" /\ step # "get" /\ sawJob = NoJob /\ job # NoJob
       => job \in unaccounted \ expired
  /\ pc = "deleting" /\ step \in {"answer", "confirm"} /\ NothingSeen
       => pods \subseteq unaccounted \ expired
  /\ pc = "deleting" /\ step = "confirm"
       => NothingSeen /\ (secret => unaccounted \ expired # {})

\* A confirmed round left nothing behind and the run only closes.
ConfirmedInv ==
  cleanup = "complete" =>
    /\ Live = {} /\ ~secret /\ Outstanding = {}
    /\ pc \in {"closing", "done", "failed"}

\* The unconfirmed verdict of the first round precedes every report.
ReportInv ==
  /\ reported = "complete" => cleanup = "complete" /\ pc = "done"
  /\ pc \in {"issue", "creating", "running"} => reported = "none" /\ cleanup = "none"
  /\ pc = "closing" => cleanup # "none" /\ (cleanup = "unknown" => reported = "none")

IInv ==
  /\ TypeOK /\ OrdinalsInv /\ ObjectsInv /\ LedgerCovers /\ EvidenceFirst
  /\ PassInv /\ ConfirmedInv /\ ReportInv
=============================================================================
