# Verification of the Anvilkit agent workflow worker

This directory holds TLA+ models of the Temporal worker in `src/`, the TLC
configurations that check them and TLAPS proofs about them. All paths are
relative to the repository (Go files to `src/internal/`); line numbers are those
of the commit beside which this project is kept.

    tlc -config AttemptClose.cfg AttemptClose    # one run
    tlapm AttemptCloseProofs.tla                 # the proofs of a module

`PROJECT.json` lists the runs with their configurations, the source lines each
definition stands for, a mutation of the code that breaks each property, the
hazards, the finding and the theorems.

## 1. The system

The worker executes deterministic **Workflows** (`workflows`) that call
**Activities** (`activities`) on two task queues, `business` and `control`.
Temporal keeps the history, replays a Workflow on any worker after a crash,
retries Activities, fires timers and delivers Updates and cancellations.
Everything with a lasting effect happens in four other systems:

* **Control** (gRPC) keeps operations, attempts, launches, effects, leases and
  projections. Its commands carry command identities and are idempotent: the
  same command answers the same record. Its database may be restored to an
  earlier point; an independent inventory survives that.
* the **Kubernetes API server**, on which a *launch* becomes one Job with Pods
  and, for harness profiles, one Secret, all under one launch key;
* the **Pagix** ports (`adapters/pagix`): leases, source saves, candidate and
  release registration, publication, activation;
* the **Model Proxy** and the artifact store.

The correctness problem shared by all Workflows is *uncertainty*: a create
request, a save, a publication or a close whose answer is lost may have happened,
may still happen or may never happen. The code answers it with four mechanisms:

1. a **ledger** of create requests and evidence-first cleanup, so that a run
   never reports a launch gone while something of it may still appear;
2. **permits**: the first prepare of an effect lets exactly one caller send it,
   all later ones only ask about the original identity;
3. a **projection** in Control that is written before and after the mutations it
   describes;
4. **closes and settlements** that are repeated under one command until Control
   answered, and continue as new with what they state.

## 2. Inventory

Each entry names the state a component keeps, what changes it, what is hard about
it and what makes it correct.

### Launch cleanup: `workflows/localcheck.go`, `adapters/kubernetes/launcher.go`
* *State*: `createLedger` (issued requests, unaccounted ones, when each was
  issued), the cleanup verdict; on the API server the requests in flight, the
  Job, its Pods, the Secret.
* *Operations*: `createJob` (issue a marked request, retry or leave it
  unaccounted), `cleanupRound` (observe, delete, strike), `reconcileCleanup`;
  the Activities `CreateJob`, `ObserveLaunch`, `DeleteJob`, each made of several
  API calls.
* *Hard*: a request nobody waits for any more can commit while the Job of
  another request is being deleted; an Activity may die between two API calls; a
  Job must not be stopped before what it proves is in history; rounds must end.
* *Correct when*: `complete` is reported only if nothing is left and nothing can
  come; nothing is deleted before it is recorded; the run ends, and if the
  services are reachable it settles.

### Observation and registration: `launcher.go` (`ObserveJob`, `AwaitOwner`), `localcheck.go`, `generation.go` (`runJobStep`)
* *State*: the Job and Pods as they were read, Control's instances of the launch
  and which of them is current.
* *Operations*: read the Job, list its Pods, order them by owner, register each,
  verify the result of the first.
* *Hard*: the two reads see different moments; Pods of another owner live under
  the same key; the run registers what may be gone.
* *Correct when*: one Pod decides an attempt, the one Control has as current, and
  it is the Job's own as long as the Job has one to see.

### Attempt close and settlement: `localcheck.go`, `lifecycle.go`, `generation.go`
* *State*: command, statement, backoff and polls, part of it carried over
  continue-as-new.
* *Operations*: `closeAttemptFrom`, `closeLaunchAttemptFrom` (NOT_FOUND after a
  restore), `closeOrContinue`, `closeForSettlement`, `settleWith`, `poller`.
* *Hard*: waits that outlive a run's history; a refusal that would drop the only
  cleanup evidence; a multi-step run that waits before it leaves its outcome.
* *Correct when*: Control is told one true thing per command, definite evidence
  reaches it, the outcome is left behind before a wait, every wait ends.

### Guarded effects: `activities/release.go`, `lifecycle.go`, `preview.go`
* *State*: Control's effect (permitted, unknown, settled, denied) and its
  observations by source; the upstream's record of the identity.
* *Operations*: `guarded` (review, publication, activation),
  `RegisterCandidate`, `SaveSource`: prepare, send or query, observe, answer;
  verification of the receipts.
* *Hard*: executions that Temporal gave up overlap with their successors; a query
  overtakes the send; the worker dies between consuming the permit and sending;
  the upstream dies between two of its own writes; another release publishes the
  same version or activates in between.
* *Correct when*: sent at most once; what was recorded is what the upstream did;
  a delivered answer is of something the upstream serves.

### Release workflow: `workflows/release.go`
* *State*: where the run is, the two target records, the poll counter carried
  over continue-as-new, Control's projection.
* *Operations*: certify, register the review, poll the decision until the
  deadline, publish npm then browser with query rounds, activate, record each
  state, settle.
* *Hard*: the approval can be revoked between mutations, a cancellation can
  arrive in the middle of one, Control can refuse a record, calls fail after
  having sent, unknown targets need rounds that end.
* *Correct when*: mutations happen in their order, the projection never claims
  what did not happen, final states stay, the run ends.

### Generation workflow: `workflows/generation.go`, `activities/generation.go`
* *State*: hold flag, in-flight count, definition, fence, repairs used.
* *Operations*: Updates `hold`, `resume`, `change_definition`; job steps with
  bounded repair; candidate registration.
* *Hard*: a hold against a sender that opens its attempt; the end of the run
  against waiting handlers; a fence or a cancellation in mid-step.
* *Correct when*: nothing is opened while held or sent after a fence, success is
  a registration, every Update is answered.

### Source lease: `workflows/generation.go`, `adapters/pagix/double.go`
* *State*: token, fence and known expiry of the run; the port's lease; Control's
  record. *Operations*: acquire, renew and query under a supervisor, release.
* *Hard*: a renewal against the expiry, calls handled long after they were given
  up, answers that are old, a release against a renewal.
* *Correct when*: what the run and Control believe of the lease is true, another
  owner's lease is never touched.

### Preparation workflow: `workflows/preparation.go`, `activities/preparation.go`, `adapters/modelproxy/client.go`
* *State*: rounds, open question set and its expiry, answers, repair allowance.
* *Operations*: the controlled call with repairs and reentry, ask, the answer
  Update, the expiry timer, the read of a late answer, freeze, settle.
* *Hard*: an answer Control accepted just before the expiry races the timer, the
  record of the set and the cancellation; a call that ends unknown.
* *Correct when*: an accepted answer counts, no call follows one that is unknown
  or under way, the shared allowance holds, the run ends.

### Preview workflow: `workflows/preview.go`, `activities/preview.go`, `adapters/control/preview.go`
* *State*: base and saved revision, the projection and its expected revision.
* *Operations*: read, conditional save, build, stale check, record.
* *Hard*: a save whose answer is lost or late; other authors save at any moment.
* *Correct when*: ready means it was current when the build was over; the
  projection names what was saved and nothing else.

### Recovery workflow: `workflows/recovery.go`, `activities/recovery.go`
* *State*: cursor and page of the findings, one ledger per launch, both carried
  over continue-as-new. *Operations*: enumerate, reconcile, settle a launch by
  evidence, confirm, evaluate the scope.
* *Hard*: pages over a list that shrinks while it is walked; evidence of objects
  that no longer exist must survive a rollover and a failed confirmation.
* *Correct when*: no finding is skipped, evidence precedes deletion, what is
  confirmed is true and owed until it is delivered.

### Worker lifecycle: `bootstrap/module.go`, `health.go`, `identity.go`
* *State*: pollers, fatal error, readiness, drains, clients. *Operations*: start
  in order, fatal callbacks, drain within a bound, stop.
* *Hard*: a poller that dies while Fx starts the other one or while the process
  stops; abandoned Activities that still use their clients.
* *Correct when*: ready only if everything runs, every stop ends, clients outlive
  the Activities that were not abandoned.

### Identity reloading: `transport/identity`
* *State*: current material and its digest. *Operations*: a pass digests the
  files, a second one loads them. *Hard*: the mount is swapped between two reads.
* *Correct when*: a file set that stays is in force in the end.

### Others
The Pagix double is modelled with what uses it: its lease port in `Lease`, its
lineage in `Preview`, its registrations, registry, origin and catalog in
`Publication`. The Pagix HTTP adapter, the Control client, the Job template, the
artifact client and the configuration are in `PROJECT.json` with the reason they
stay out or how far they are covered.

## 3. Modules

| module | models | theorems |
|---|---|---|
| `LaunchObligation` | what a launch promises: reported complete only when nothing of it is left or can come | |
| `LaunchCleanup` | create ledger, API server, cleanup rounds, reconciliation; implements `LaunchObligation` | `LaunchCleanupProofs` |
| `Instances` | the Pods of a launch, their observation and registration | with `AttemptClose` |
| `AttemptClose` | one attempt from its open to its last statement; extends `Instances` | `AttemptCloseProofs` |
| `Effect` | what a guarded effect promises: asked once, sent once, one outcome | |
| `EffectPermit` | the permit protocol with Control, the upstream, overlapping executions; implements `Effect` | `PagixDoubleProofs` |
| `Publication` | `EffectPermit` with the double as its upstream and the verification of answers; implements `EffectPermit`, and by it `Effect` | `PagixDoubleProofs` |
| `Release` | `ReleaseWorkflow`, using four `Effect`s | `ReleaseProofs` |
| `Generation`, `MCGeneration` | the Generation's main coroutine and Update handlers | `GenerationProofs` |
| `Lease` | acquire, supervise, release against the port | `PagixDoubleProofs` |
| `Preparation` | rounds, calls, answers, expiry | `PreparationProofs` |
| `Preview` | save, build, stale check, projection | `PreviewProofs` |
| `Recovery` | enumeration, findings page by page, evidence over rounds | `RecoveryWorkerProofs` |
| `Reloader` | the two passes over the mounted files | with `Worker` |
| `Worker` | start, pollers, fatal callbacks, drain, stop; extends `Reloader` | `RecoveryWorkerProofs` |

Composition: `Publication` runs the permit protocol against the double instead of
an arbitrary upstream, and both implement `Effect`; `Release` is checked and
proved to use each of its four mutations as `Effect` allows. `Generation` sees
the registration by the same contract, the Job by what it reports, and the lease
by the moment it fences the run (`Lease` shows what precedes that). `AttemptClose`
runs the observer of `Instances` and takes from `LaunchCleanup` whether a round
was confirmed. `Worker` runs `Reloader` under its start and stop.

## 4. How the models correspond to the code

**LaunchCleanup.** The Workflow side (`issued`, `unaccounted`) is `createLedger`;
the clock is reduced to which requests are past their lifetime (`over`). A
cleanup pass is an Activity made of single API calls, so `DeleteJob`'s read of the
Job, list of the Pods and delete are separate actions and an Activity may die
between any two. The API server keeps create requests in flight that nobody waits
for; they may commit until their lifetime is over, whichever Activity sent them (a
superset of what an expired client context allows). One request lands once
(`MayLand`): the wrappers around the HTTP client follow no redirect and let no answer
write the create again. Deletes take effect later and carry the UID precondition. The
close of the attempt is one action.

**Instances and AttemptClose.** A look is two actions, `ReadJob` and the one that
lists the Pods (`LookAgain` or `Look`), and the cluster moves in between. Creation
times have a resolution of one second, so within a group any order may be listed.
`kind` says whose attempt it is: a LocalCheck run follows `LocalCheck`, a multi-step
one `runJobStep`, which awaits and registers the owner before its end and asks
Control for the accepted stage. `command`, `cleanup`, `outcome` and
`settlement` are the statement that is being delivered; `polls`, `interval` and
`resume` the poller; `rolled` says that the run continued as new with what
`CloseCarry` keeps. A refused close of a step, or a cleanup that was given up, is the
code of the step; a refused second close is only logged, so its run settles by the
outcome it had (`StepRefused`). Control holds the statements it accepted; `Lose` restores its
database to before the attempt, `Restore` is the recovery. `stated` is history.

**Effect, EffectPermit, Publication.** One effect identity; `activity` says who
asks. `Effect` counts the sends and allows one, so that a second one is no step of it.
Executions of the Activity are processes; Temporal may give one up and start
the next, the old one keeps running. Control keeps or replaces a settled state by a
late `unknown`, which the worker cannot see: both are allowed. In `EffectPermit`
the upstream answers anything consistent; in `Publication` it is the double: one
call is one action under its mutex, and the `...Torn` actions are the writes after
which the process died or a write failed, with what they leave behind. Receipts
are told apart as far as `verifyPublication` does.

**Release.** Each action ends where the Workflow waits for an Activity or a timer.
Sends and their effects happen at any later moment. A record of the projection is
followed by Control's acceptance or refusal. The maintainer's decision changes
arbitrarily.

**Generation.** A Temporal coroutine runs until it blocks. `workflow.Await` does
not yield when its condition already holds, so a step that was closed and the
`OpenAttempt` of the next one are one action, and a handler that waited for the
flight to empty gets its turn only when the main coroutine blocks in that next
`OpenAttempt`: the window `generation_hold` shows. Control may refuse any call
under its own hold fence, therefore any call may fail at any time. The fence may
fall whenever a lease is held, also after a cancellation and while the run ends. The
bootstrap and the inside of a Job are one step each.

**Lease.** `run` and `sup` are the program counters of the main coroutine and of
the supervisor. A call, once made, may be handled by the port any number of times
until it is over, and an answer may be old. A record Control made may be lost with its
answer, or still be made while the work ends. The end of the work cancels the
supervisor, except where it reports a loss, or waits for a query under an expiry that
has passed: then it still fences (`QuerySevered`). One clock serves both sides, which
leaves clock skew out.

**Preparation.** A call is named by its round and its place in the round;
`proxy` is what the Proxy did of it, `stream` the frames of the stream under way,
whose interruption is answered by entering the same call again. The answer of a set
is named by its round: `accepted` is Control's, `update` the relayed Update and its
handler, `answers` what the run took over. `expired` is what the run's timer told
it, `sets` whether the instant passed for Control.

**Preview.** One execution of the save is followed while an earlier send may still
be served; `lineage` is the newest revision of any author; `superseded` is history.
`recorded` counts what Control applied, `written` what the run knows of.

**Recovery.** Findings are their place in Control's order; the last one is the
launch. `seen` and `recorded` are the ledger that continues as new, `evidence`
what Control holds, `emptied` history: that the key was observed empty. An observation
names the Job that was read or, once it is gone, an owner of the Pods that linger.

**Reloader and Worker.** The content of a file is the version of the mount it was
read from; each file of a pass is of a version that was mounted during the pass. In
`Worker` the start, the stop hook, its drains and the fatal callbacks are
processes; `holder` is the mutex of `queueWorker`; the SDK's `Worker.Stop` returns
when no Activity runs or its own wait is over (`overrun`).

## 5. Runs

| run | shows | states |
|---|---|---|
| `cleanup` | a reported completion is backed by the API server, evidence precedes deletion, refinement of `LaunchObligation`; every run ends, even if the services stay down | 224,505 |
| `cleanup_settles` | when the services come back, cleanup is confirmed before the bound | 52,250 |
| `effect` | for each of the six mutations against the double: sent once, one outcome per source, answers are recorded, what is delivered is served; refinement of `Effect` | 3,845,180 |
| `release` | no mutation goes upstream before the one it builds on happened there, effects are used as promised, the approval is reread before every mutation; the run ends | 14,860 |
| `generation` | success is a registration, a hold stops opens, commands are answered; the run ends unless it is left on hold | 230,468 |
| `generation_hold` | the finding of section 8: violated | |
| `lease` | belief about the lease is true for run and Control, other owners are untouched; the run ends, or works on under an expiry that has not passed | 2,511,539 |
| `close` | cleanup evidence reaches Control or a bound, nothing untrue is stated, one Pod decides, outcomes are left behind, the backoff holds; the run ends | 266,514 |
| `recovery` | no finding is skipped, recorded before deleted, the confirmation is true and stays owed | 766,012 |
| `preparation` | accepted answers count, calls follow one another; the run ends | 28,069 |
| `preview` | ready was current, the projection is true; the run ends | 1,704 |
| `worker` | readiness, clients outlive Activities; a stop ends, the material follows the files | 325,548 |

Bounds and why they are enough:
* LaunchCleanup: `MaxRequests` 2 (an earlier request against a later one is every
  hazard between requests; 3 were checked once, 8.9 million states),
  `MaxRounds` 1 or 2 (a failed round and one after it). `Harness` is the profile
  with a Secret, `LifetimeRule` and `LongBound` are the two settings about time,
  `Outages` lets any call fail.
* Publication: `MaxAttempts` 4: the first execution, one that overlaps with it, one
  that queries and one that repeats the observation. `MaxRevision` 2: the catalog
  another release left and one it writes in between.
* Release: two query rounds and two polls per run, so that a bound is not hit,
  hit, and carried over (the code asks for at least one round and ten polls).
* Generation: definitions with one and no repair round, so that a change lowers the
  bound in mid-round; two holds of which one is resumed, one change.
* Lease: TTL 3, lead 2, clock up to 4, two renewals and a release, two fences: a
  lease that expires, one that follows it, calls from before that arrive after.
* AttemptClose: two polls, two doublings and two resubmissions, one reconciliation
  round after the first, two restores of the database (before the first close
  and during the second); one own Pod and one duplicate.
* Recovery: three findings on pages of one, so that one settles before, at and
  after the cursor; two create requests; three rounds.
* Preparation: two rounds (one that may ask, one that must conclude), one repair,
  two frames. Preview: four revisions, so that others save before and after ours.
* Worker: two queues, one Activity each, two versions of the files.

`CHECK_DEADLOCK FALSE` is set where the model stops by design: ended runs and
used-up executions.

Fairness, and why the code justifies it:
* Workflow and Activity steps are weakly fair: Temporal redelivers tasks and
  retries Activities, and each has a start-to-close timeout.
* deadlines a run waits for pass: `QueueDeadlinePasses`, `DeadlinePasses`, the
  expiry instants of Preparation. The clock of Lease needs no fairness.
* both coroutines of Lease are weakly fair, and so is the end of work a fence has
  canceled; work that nothing cancels need not end, and the port need not answer.
* a waiting Update handler is weakly fair, the wait for all handlers strongly:
  Temporal evaluates an `Await` condition whenever a coroutine blocks.
* strong fairness stands where an attempt repeats and a bound of the code ends the
  repetition: `ObserveFails` of LaunchCleanup (start-to-close timeout and retry
  cap), the end of an observation in AttemptClose (it does not look on past its
  deadline), a call of Preparation that is over (its retries end), the query of a
  save in Preview, the passes of Reloader (not every one is torn).
* the API server finishes every request it handles, one way or the other, and
  applies every delete, and the Job controller stops the Pods of a Job that is
  gone. Nothing makes it commit a create, start a Pod or remove a Job.
* Control resolves its own obligations and its recovery restores the attempt of a
  prepared launch (AttemptClose). Otherwise nothing is assumed of what Control, the
  upstream, the user or a maintainer answer. Calls may fail for ever, except in
  `cleanup_settles` (`Outages` FALSE), which assumes that the reconciliation bound
  exceeds the request lifetime (24 h against 3 min by default,
  `config/config.go:195-210`, `796-803`).
* in Worker an Activity need not end and no file need change.

Every invariant of a type (`TypeOK`) was checked by TLC; where a module has a proof
module it is proved and not repeated in the run.

## 6. Proofs

All theorems hold for every value of the constants that satisfies the named
assumptions: the bounds are numbers, the lead of a renewal is shorter than the
lease, the worker has two queues, and what else a module's `ASSUME` says. Each
component has one inductive invariant, which TLC checked on the instance of its
run before it was proved, and one lemma per action.

* `LaunchCleanupProofs` (`IInv`): adds where the ordinals stand (`OrdinalsInv`),
  what may exist on the API server (`ObjectsInv`), and what a running pass already
  knows (`PassInv`, `ConfirmedInv`, `ReportInv`): that nothing is left when
  `complete` is reported depends on the order in which the pass read what it
  reports. Refinement of `LaunchObligation` follows.
* `PagixDoubleProofs` is about what the double serves, in three parts.
  *EffectPermit* (`EInv`): relates Control's record, the permit and the upstream
  (`PermitInv`, `UpstreamInv`) and what an execution may have seen
  (`EvidenceInv`). Refinement of `Effect` follows.
  *Publication* (`PubInv`): every step is one of `EffectPermit` or none
  (`PermitImplemented`), so that `EInv` and the refinement carry over.
  What is left is that a mutation that was answered, or left something behind, is
  no longer on its way (`ArrivalInv`: without it a late call of the double could
  still change what was verified), what the double recorded is what it did
  (`OutcomeInv`), and what the Workflow heard was there (`HeardInv`) and is still
  there next to the other release (`OthersInv`).
  *Lease* (`LInv`): a belief is true when the port grants it (`Granted`: held, by
  this run, under this fence, at least that long) and the fence is the run's
  (`Mine`). Shown once of the port is that no step takes back what is granted
  except a release or a revocation (`PortKeeps`; it needs that a renewal never
  shortens the lease, `PortInv`) and that it answers nothing it does not grant
  (`Answer`). Then what the run, an unread answer and Control's record believe
  stays true however late it is acted on (`BeliefInv`), because calls on their way
  name only the run's own leases, and a release only one the run has given up
  (`CallsInv`).
* `ReleaseProofs` (`RInv`): ties the place of the run to the mutation it waits for
  (`TurnInv`, `PlaceInv`) and the projection to both (`RecordInv`). `ApprovalReread`
  needs one more (`Unapproved`): only a read of the approval leads to a mutation.
  `GoesFurther` is the part of `RunEnds` that is no liveness: every step but a
  decision poll goes further in the order of mutation, answer, query round and
  place, all of them bounded. What stays with TLC is that the run can always step
  and that the deadline ends the polls.
* `GenerationProofs` (`GInv`): the in-flight counter is one exactly while an attempt
  or the registration works (`FlightInv`: without it a handler's `inflight = 0` says
  nothing about the place of the main coroutine), and what was certified at each
  place (`CertifiedInv`).
* `AttemptCloseProofs` (`CloseInv`): before the first delivery nothing is stated
  (`PathInv`); the Job's own Pods come first, and a current owner is Control's first
  instance (`OwnerInv`); what the pending command can be (`DeliveryInv`); and that
  the commands follow each other and the pending one says what it said before
  (`StatementInv`), without which a resubmission could contradict itself. The five
  ways on from an answer are lemmas of their own (`AnsweredWays`).
* `PreparationProofs` (`PrepInv`): a round that asked ended its call with questions
  (`PlaceInv`), earlier rounds have their answers and an expired wait has its
  instant behind it (`AnswerInv`); the calls that were sent are those before the
  present one (`SentInv`), one per round and repair (`CountInv`, by cardinality).
* `PreviewProofs` (`PInv`): what the run knows of a save is the authority's answer
  (`SaveInv`), the number of records at each place (`RecordInv`), what is about to
  be recorded is true (`TodoInv`), what superseded a build stays newer (`BuildInv`).
* `RecoveryWorkerProofs` has two parts. *Recovery* (`RInv`): what was seen is of
  requests that are over (`SeenInv`), an empty key stays empty (`EmptyInv`), and
  what lies before the cursor was advanced or has settled (`WalkInv`), for any page
  size. *Worker* (`WInv`): whatever takes a poller away has withdrawn readiness
  first, for good, so a start that is over later finds it withdrawn (`ReadyInv`);
  who finds a queue stopped finds its poller stopped by whoever holds the mutex
  (`QueueInv`), and the clients close after both drains or after the Activities were
  abandoned (`StopInv`); the files and the listener are looked after in between
  (`ServiceInv`), and one fatal error asks for the shutdown, once (`AskedInv`).

Components that meet share a proof module (the parts of the double, and the worker
with the Recovery it runs); the names of the later parts carry a prefix (`Pub`,
`Lease`, `Worker`).

`PROJECT.json` lists the theorems with the properties they prove. Every invariant
and every action property of the runs is proved. Only model-checked: the liveness
properties (fairness and `ENABLED` are out of the prover's reach): `RunEnds` of
each workflow, `ExpiredWorkEnds`, `CleanupSettles`, `CommandsAnswered`, `StopEnds` and
`MaterialFollows`.

## 7. Not modelled

* HTTP and gRPC mapping, the Job template, artifact reads, configuration, redaction
  and telemetry: no state of their own, covered by unit tests; certificates
  (cryptography).
* Queries and cancellations of model calls by the sidecars of a Job, and the strict
  decoding of streams (`adapters/modelproxy/client.go`).
* The bootstrap of a Generation, the building and digesting of what is published,
  the certification Job of a Release (one step each).
* The promotion of a build at the start, the wiring of the ports and the
  development-only fault interceptors (`bootstrap`).
* Replays of histories from before a `GetVersion` marker: the models follow the
  current branch.

## 8. Findings

Places where the code and a comment beside it disagree. One is kept as a run:

* `generation_hold`: a hold that arrives while `OpenAttempt` is on its way is
  applied, and the step it opens runs under the hold.

Seen in the models or read in the code, not kept as runs:

* `workflows/release.go:78-79`: after a mutation whose Activity failed, or an
  approval lost between the targets, the release is recorded failed, where the
  comment promises reconciling (an unknown target) and partially published (npm
  only).
* `workflows/generation.go:61-62`: the known expiry passes unfenced while the
  supervisor waits for a renewal, its query or its record (533-565); `KnownIsHeld`
  says nothing of that window, `ExpiredWorkEnds` that it ends, however late the
  supervisor notices.
* `workflows/generation.go:573`: a lease the port granted but the run did not get on
  record is left to its expiry (489-493).
* `workflows/localcheck.go:244-245`, "any duplicate is recorded but can never own
  the result", and `launcher.go:410-413`, which says the same: if the Job has its
  terminal condition and no Pod of its own is left in the list, the first Pod of the
  observation is a duplicate; it is registered first, becomes current, and
  `VerifyResult` certifies it. `OwnerDecides` states what does hold; TLC refutes
  `seen.pods[1] \in Own` of a completed check in 14 states.
* `workflows/generation.go:416-418`: a validation that ends under a hold drops the
  certified codegen stage accepted before it (280-282); 501-502: the record of
  a lost lease may never be made if the run settles first (505-514).
* Preview: a save between the read of the current revision and the ready record
  (`workflows/preview.go:178-193`) makes the preview stale at once; `ReadyWasCurrent` is
  about the end of the build. A refused final record leaves the phase at
  `preview_ready` with a failed outcome, and a failure record under a canceled context
  settles the run as failed.
* Publication: a write of the double torn between its files leaves the effect
  unknown for ever, since no query finds an answer; a registration file that was
  written in part makes the query itself fail.
