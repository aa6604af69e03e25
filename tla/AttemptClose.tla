---------------------------- MODULE AttemptClose ----------------------------
(***************************************************************************)
(* One attempt from its open to the statements that end it with Control:   *)
(* the path of a LocalCheck run (src/internal/workflows/localcheck.go:     *)
(* LocalCheck, closeAttemptFrom, closeLaunchAttemptFrom, closeOrContinue,  *)
(* closeOnly) and of one step of a multi-step run (generation.go: runJob-  *)
(* Step) with the settlement that follows it (lifecycle.go: settleWith,    *)
(* settleOnly, poller).                                                    *)
(*                                                                         *)
(* Control answers a close "reconciling" while obligations of its own are  *)
(* outstanding; the run polls the same command with capped backoff and, at *)
(* the poll bound, continues as new with the command it carries.  Control's*)
(* database may be restored to a point before the attempt: a close is then *)
(* NOT_FOUND until the recovery has restored the attempt of a prepared     *)
(* launch from the inventory.                                              *)
(*                                                                         *)
(* Simplifications:                                                        *)
(*  - cleanupRound and createJob are LaunchCleanup's; here a round answers *)
(*    confirmed or not;                                                    *)
(*  - the interval is its number of doublings; the reconciliation bound is *)
(*    the number of sleeps it leaves room for;                             *)
(*  - VerifyResult is a function of the observation and part of the step   *)
(*    that acts on it;                                                     *)
(*  - a statement is what Control reads of a close or a settlement: the    *)
(*    command, the outcome and the cleanup;                                *)
(*  - histories recorded before the version gates are left out.            *)
(***************************************************************************)
EXTENDS Instances

CONSTANTS
  PollBound,      \* Bounds.SettlePollBound: polls of one run
  MaxInterval,    \* doublings until Bounds.SettleMaxInterval
  RestoreRounds,  \* resubmissions ReconcileMaxDuration leaves room for
  MaxRounds,      \* cleanup reconciliation rounds it leaves room for
  MaxLosses       \* point-in-time restores of Control's database (bound)

ASSUME BoundsAssumption ==
  /\ PollBound \in Nat \ {0} /\ MaxInterval \in Nat /\ RestoreRounds \in Nat
  /\ MaxRounds \in Nat /\ MaxLosses \in Nat

VARIABLES
  kind,       \* "local_check", or "multi_step": whose attempt it is
  pc,         \* where the run is
  launched,   \* PrepareLaunch was answered: the launch obligation exists
  outcome,    \* the outcome the closes state
  cleanup,    \* the cleanup the pending close states
  command,    \* the command being delivered: close, close:settled, settle
  polls,      \* poller.polls of this run
  interval,   \* poller.interval, in doublings
  resume,     \* the backoff the close call began with (CloseCarry.Interval)
  waited,     \* sleeps of closeLaunchAttemptFrom's NOT_FOUND loop
  rounds,     \* reconcileCleanup: rounds
  rolled,     \* this run is one that continued as new
  settlement, \* the outcome the settlement states
  known,      \* Control's database holds the attempt
  prepared,   \* the independent inventory holds the launch obligation
  accepted,   \* Control accepted a certified result of the attempt
  owed,       \* obligations of Control's own keep the operation reconciling
  held,       \* the statements Control's database holds
  stated,     \* history: every statement Control ever accepted
  losses      \* restores so far

stepVars == <<kind, launched, outcome, settlement>>
pollVars == <<polls, interval, resume>>
controlVars == <<known, prepared, accepted, owed, held, stated, losses>>
closeVars == <<cleanup, command, pollVars, waited, rounds, rolled>>
vars == <<stepVars, pc, closeVars, controlVars, instanceVars>>

PathSteps ==
  {"prepare", "create", "owner", "enlist", "observe", "register", "accept"}

PCs == PathSteps \cup
  {"open", "cleanup", "deliver", "pause", "await", "reconcile", "done", "failed"}

Commands == {"close", "close:settled", "settle"}
Outcomes == {"completed", "failed", "infrastructure_failed", "canceled", "succeeded"}
Cleanups == {"not_required", "unknown", "complete"}
Statements == [command : Commands, outcome : Outcomes, cleanup : Cleanups]

TypeOK ==
  /\ InstancesTypeOK
  /\ kind \in {"local_check", "multi_step"}
  /\ pc \in PCs
  /\ launched \in BOOLEAN /\ rolled \in BOOLEAN
  /\ outcome \in Outcomes /\ settlement \in Outcomes
  /\ cleanup \in Cleanups
  /\ command \in Commands
  /\ polls \in 0 .. PollBound
  /\ interval \in 0 .. MaxInterval /\ resume \in 0 .. MaxInterval
  /\ waited \in 0 .. RestoreRounds
  /\ rounds \in 0 .. MaxRounds
  /\ known \in BOOLEAN /\ prepared \in BOOLEAN /\ accepted \in BOOLEAN
  /\ owed \in BOOLEAN
  /\ held \in SUBSET Statements /\ stated \in SUBSET Statements
  /\ losses \in 0 .. MaxLosses

Init ==
  /\ kind \in {"local_check", "multi_step"}
  /\ pc = "open" /\ launched = FALSE /\ rolled = FALSE
  /\ outcome = "failed" /\ settlement = "failed"
  /\ cleanup = "not_required" /\ command = "close"
  /\ polls = 0 /\ interval = 0 /\ resume = 0 /\ waited = 0 /\ rounds = 0
  /\ known = FALSE /\ prepared = FALSE /\ accepted = FALSE
  /\ owed \in BOOLEAN
  /\ held = {} /\ stated = {} /\ losses = 0
  /\ InstancesInit

-----------------------------------------------------------------------------
(***************************************************************************)
(* The path: open, prepare, create, observe, register, verify, accept.     *)
(***************************************************************************)
\* A fenced or unknown operation: nothing was launched; a multi-step run
\* goes to its settlement.
OpenRefused ==
  /\ pc = "open"
  /\ pc' = IF kind = "local_check" THEN "failed" ELSE "deliver"
  /\ command' = IF kind = "local_check" THEN command ELSE "settle"
  /\ UNCHANGED <<stepVars, cleanup, pollVars, waited, rounds, rolled, controlVars>>

\* Opened; past its absolute deadline nothing launches.
OpenAnswered ==
  /\ pc = "open"
  /\ known' = TRUE
  /\ \/ pc' = "prepare" /\ UNCHANGED outcome
     \/ pc' = "cleanup" /\ outcome' = "infrastructure_failed"
  /\ UNCHANGED <<kind, launched, settlement, cleanup, command, pollVars, waited,
                 rounds, rolled, prepared, accepted, owed, held, stated, losses>>

\* PrepareLaunch answers only after the inventory confirmed the obligation.
PrepareLaunch ==
  /\ pc = "prepare" /\ known
  /\ prepared' = TRUE
  /\ launched' = TRUE
  /\ pc' = "create"
  /\ UNCHANGED <<kind, outcome, settlement, cleanup, command, pollVars, waited,
                 rounds, rolled, known, accepted, owed, held, stated, losses>>

\* createJob was answered with the Job.
CreateAnswered ==
  /\ pc = "create"
  /\ job' = "active"
  /\ pc' = IF kind = "multi_step" THEN "owner" ELSE "observe"
  /\ UNCHANGED <<stepVars, closeVars, controlVars, phase, observationVars, registered>>

PathGoes(to) ==
  /\ pc' = to
  /\ UNCHANGED <<stepVars, closeVars, controlVars>>

LookBegins == pc \in {"owner", "observe"} /\ ReadJob /\ PathGoes(pc)

LookMissed ==
  \/ pc = "owner" /\ LookAgain(UntilOwned) /\ PathGoes(pc)
  \/ pc = "observe" /\ LookAgain(UntilEnded) /\ PathGoes(pc)

\* AwaitOwner: only an owner reported as such is registered here.
OwnerAwaited ==
  /\ pc = "owner" /\ Look(UntilOwned)
  /\ PathGoes(IF seen'.reason = "active" THEN "enlist" ELSE "observe")

OwnerRegistered ==
  /\ pc = "enlist" /\ known /\ RegisterOwner
  /\ PathGoes("observe")

JobObserved == pc = "observe" /\ Look(UntilEnded) /\ PathGoes("register")

InstanceRegistered == pc = "register" /\ known /\ RegisterNext /\ PathGoes(pc)

\* Mutated form of OwnerChecked: whether the owner is current is not looked at.
OwnerUnchecked ==
  /\ pc = "register" /\ place = Len(seen.pods) /\ place > 0
  /\ PathGoes("accept")
  /\ UNCHANGED instanceVars

\* Without a Pod, or with an owner that is not the current instance, there is
\* no result to read.
OwnerChecked ==
  /\ pc = "register" /\ place = Len(seen.pods)
  /\ IF place > 0 /\ current
       THEN pc' = "accept" /\ UNCHANGED outcome
       ELSE pc' = "cleanup" /\ outcome' = "infrastructure_failed"
  /\ UNCHANGED <<kind, launched, settlement, closeVars, controlVars, instanceVars>>

\* Mutated form of StepFails: a certified verdict Control did not accept
\* completes the attempt.
StepFailsByVerdict ==
  /\ pc \in PathSteps
  /\ outcome' \in IF pc = "accept" THEN {"completed"} ELSE {"canceled"}
  /\ pc' = "cleanup"
  /\ UNCHANGED <<kind, launched, settlement, cleanup, command, pollVars, waited>>
  /\ UNCHANGED <<rounds, rolled, controlVars>>

\* settle: a cancellation, a refusal or any other failure of a step, also
\* one Control or the backend had performed; no current owner.
StepFails ==
  /\ pc \in PathSteps
  /\ outcome' \in {"canceled", "infrastructure_failed"}
  /\ prepared' \in IF pc = "prepare" /\ known THEN {FALSE, TRUE} ELSE {prepared}
  /\ accepted' \in IF pc = "accept" /\ kind = "local_check" /\ known /\ MayCertify
                     THEN {FALSE, TRUE} ELSE {accepted}
  /\ pc' = "cleanup"
  /\ UNCHANGED <<kind, launched, settlement, cleanup, command, pollVars, waited>>
  /\ UNCHANGED <<rounds, rolled, known, owed, held, stated, losses>>

\* verdictOutcome: a certified result Control accepted completes the
\* attempt; any other verdict settles it, recorded by Control or not.
ResultAnswered ==
  /\ pc = "accept" /\ kind = "local_check"
  /\ \/ /\ known /\ registered # <<>> /\ registered[1] = seen.pods[1]
        /\ MayCertify
        /\ outcome' = "completed" /\ accepted' = TRUE
     \/ outcome' \in {"failed", "infrastructure_failed"} /\ UNCHANGED accepted
  /\ pc' = "cleanup"
  /\ UNCHANGED <<kind, launched, settlement, closeVars, instanceVars>>
  /\ UNCHANGED <<known, prepared, owed, held, stated, losses>>

\* GetAcceptedStage: the stage Control accepted from the Job, or another
\* verdict, or none.
StageAnswered ==
  /\ pc = "accept" /\ kind = "multi_step"
  /\ outcome' \in IF known /\ accepted THEN {"completed"}
                  ELSE {"failed", "infrastructure_failed", "canceled"}
  /\ pc' = "cleanup"
  /\ UNCHANGED <<kind, launched, settlement, closeVars, controlVars, instanceVars>>

\* The deferred cleanup: a launch is cleaned up before its close; without
\* one there is nothing to clean.  What the run observed is not used again,
\* and what becomes of the objects is LaunchCleanup's.
Cleanup ==
  /\ pc = "cleanup"
  /\ cleanup' \in IF launched THEN {"unknown", "complete"} ELSE {"not_required"}
  /\ pc' = "deliver"
  /\ job' = "none" /\ phase' = [p \in Pods |-> "absent"]
  /\ reading' = "none" /\ seen' = Nothing /\ place' = 0 /\ current' = FALSE
  /\ registered' = <<>>
  /\ UNCHANGED <<stepVars, command, pollVars, waited, rounds, rolled, controlVars>>

-----------------------------------------------------------------------------
(***************************************************************************)
(* One delivery of the pending command: closeAttemptFrom and settleWith.   *)
(***************************************************************************)
Statement ==
  IF command = "settle"
    THEN [command |-> command, outcome |-> settlement, cleanup |-> "not_required"]
    ELSE [command |-> command, outcome |-> outcome, cleanup |-> cleanup]

\* Control records the statement, also when its answer is lost; it answers
\* by its own obligations and by the cleanup it was told.
Accept ==
  /\ held' = held \cup {Statement}
  /\ stated' = stated \cup {Statement}

\* The database holds a close with unknown cleanup and no definite one.
Unclean ==
  LET closes == {s \in held : s.command # "settle"} IN
  closes # {} /\ \A s \in closes : s.cleanup = "unknown"

\* Mutated forms of Waits: the order before close-intent-first; a wait that
\* only this run's own reconciliation could end.
WaitsAlways == command = "settle" \/ cleanup # "unknown"
WaitsOnUnknown ==
  command = "settle" \/ kind = "local_check" \/ outcome = "completed"

\* Whether the delivery waits on Control's obligations: a close with unknown
\* cleanup has its reconciliation loop, and a multi-step run waits at the
\* close of a completed step only.
Waits ==
  \/ command = "settle"
  \/ cleanup # "unknown" /\ (kind = "local_check" \/ outcome = "completed")

\* The settlement of a multi-step run after its step; only a completed step
\* that Control knows of may succeed.
SettleNext(outcomes) ==
  /\ command' = "settle"
  /\ settlement' \in outcomes
  /\ pc' = "deliver"
  /\ polls' = 0 /\ interval' = 0 /\ resume' = 0 /\ waited' = 0

ByOutcome ==
  IF outcome = "completed" THEN {"succeeded", "failed", "canceled"}
  ELSE {"failed", "canceled"}

\* Mutated form of Delivered: a close with unknown cleanup ends the run.
DeliveredIsDone ==
  IF kind = "local_check" \/ command = "settle"
    THEN pc' = "done" /\ UNCHANGED <<command, settlement, pollVars, waited>>
    ELSE SettleNext(ByOutcome)

\* The close or settlement was delivered: with unknown cleanup this run
\* stays the recovery owner of the launch, unless it only closes.
Delivered ==
  IF command = "close" /\ cleanup = "unknown" /\ ~rolled
    THEN pc' = "reconcile" /\ UNCHANGED <<command, settlement, pollVars, waited>>
    ELSE DeliveredIsDone

\* Mutated form of RollOver: the backoff is not carried.
RollOverAfresh ==
  /\ polls' = 0 /\ interval' = 0 /\ resume' = 0 /\ waited' = 0
  /\ rolled' = TRUE
  /\ pc' = "deliver"
  /\ UNCHANGED <<command, settlement>>

\* closeOrContinue and settleWith at the poll bound: the next run carries
\* the command, what it states and the backoff, and only delivers it.
RollOver ==
  /\ polls' = 0 /\ resume' = interval /\ waited' = 0
  /\ rolled' = TRUE
  /\ pc' = "deliver"
  /\ UNCHANGED <<interval, command, settlement>>

\* closeSettled: a multi-step run that rolls over at a close goes to its
\* settlement, which waits on Control instead.
Exhausted ==
  IF kind = "multi_step" /\ command # "settle"
    THEN SettleNext(ByOutcome) /\ UNCHANGED rolled
    ELSE RollOver

Answered ==
  /\ pc = "deliver"
  /\ known \/ command = "settle"
  /\ Accept
  /\ IF Waits /\ (owed \/ Unclean')
       THEN \/ Exhausted        \* the poll bound, or the server suggests it
            \/ /\ polls < PollBound
               /\ pc' = "pause"
               /\ UNCHANGED <<command, settlement, pollVars, waited, rolled>>
       ELSE Delivered /\ UNCHANGED rolled
  /\ UNCHANGED <<kind, launched, outcome, cleanup, rounds>>
  /\ UNCHANGED <<known, prepared, accepted, owed, losses>>

\* Recorded, and the answer is lost: the Activity is retried without a cap.
AnswerLost ==
  /\ pc = "deliver"
  /\ known \/ command = "settle"
  /\ Accept
  /\ UNCHANGED <<stepVars, pc, cleanup, command, pollVars, waited, rounds, rolled>>
  /\ UNCHANGED <<known, prepared, accepted, owed, losses, instanceVars>>

\* poller.wait; the time polls take within a NOT_FOUND loop counts there.
PauseEnds ==
  /\ pc = "pause"
  /\ polls' = polls + 1
  /\ interval' = IF interval < MaxInterval THEN interval + 1 ELSE interval
  /\ waited' \in IF waited = 0 THEN {0} ELSE waited .. RestoreRounds
  /\ pc' = "deliver"
  /\ UNCHANGED <<stepVars, cleanup, command, resume, rounds, rolled, controlVars>>

\* In a multi-step run a refused close, or a cleanup given up, is the code of
\* the step; a refused second close is only logged.
StepRefused ==
  SettleNext(IF command = "close:settled" THEN ByOutcome ELSE {"failed", "canceled"})

\* A refusal ends a LocalCheck run visibly and sends a multi-step run to its
\* settlement; a refused settlement fails the run.
Refused ==
  IF kind = "local_check" \/ command = "settle"
    THEN pc' = "failed" /\ UNCHANGED <<command, settlement, pollVars, waited>>
    ELSE StepRefused

DeliveryRefused ==
  /\ pc = "deliver"
  /\ known \/ command = "settle"
  /\ Refused
  /\ UNCHANGED <<kind, launched, outcome, cleanup, rounds, rolled, controlVars>>

\* Control does not know the attempt: the close of a prepared launch is kept
\* for the recovery until the bound.
NotFound ==
  /\ pc = "deliver" /\ ~known /\ command # "settle"
  /\ IF launched /\ waited < RestoreRounds
       THEN /\ pc' = "await"
            /\ UNCHANGED <<command, settlement, pollVars, waited>>
       ELSE Refused
  /\ UNCHANGED <<kind, launched, outcome, cleanup, rounds, rolled, controlVars>>

\* The resubmission is a close call of its own: it resumes with the backoff
\* the first one began with.
Resubmit ==
  /\ pc = "await"
  /\ waited' = waited + 1
  /\ polls' = 0 /\ interval' = resume
  /\ pc' = "deliver"
  /\ UNCHANGED <<stepVars, cleanup, command, resume, rounds, rolled, controlVars>>

\* reconcileCleanup confirmed the launch gone: the second close states it.
ReconcileConfirms ==
  /\ pc = "reconcile" /\ rounds < MaxRounds
  /\ command' = "close:settled"
  /\ cleanup' = "complete"
  /\ pc' = "deliver"
  /\ polls' = 0 /\ interval' = 0 /\ resume' = 0 /\ waited' = 0
  /\ UNCHANGED <<stepVars, rounds, rolled, controlVars>>

ReconcileAgain ==
  /\ pc = "reconcile" /\ rounds < MaxRounds
  /\ rounds' = rounds + 1
  /\ UNCHANGED <<stepVars, pc, cleanup, command, pollVars, waited, rolled, controlVars>>

\* CLEANUP_UNCONFIRMED: visible for a LocalCheck run, the code of the step
\* for a multi-step run.
ReconcileGivesUp ==
  /\ pc = "reconcile" /\ rounds = MaxRounds
  /\ Refused
  /\ UNCHANGED <<kind, launched, outcome, cleanup, rounds, rolled, controlVars>>

-----------------------------------------------------------------------------
(***************************************************************************)
(* Control (external).                                                     *)
(***************************************************************************)
ObligationsResolve ==
  /\ owed
  /\ owed' = FALSE
  /\ UNCHANGED <<stepVars, pc, cleanup, command, pollVars, waited, rounds, rolled>>
  /\ UNCHANGED <<known, prepared, accepted, held, stated, losses, instanceVars>>

\* The database is restored to a point before the attempt (while the run is
\* there to see it).
Lose ==
  /\ known /\ losses < MaxLosses /\ pc \notin {"done", "failed"}
  /\ losses' = losses + 1
  /\ known' = FALSE /\ accepted' = FALSE /\ held' = {} /\ registered' = <<>>
  /\ UNCHANGED <<stepVars, pc, cleanup, command, pollVars, waited, rounds, rolled>>
  /\ UNCHANGED <<prepared, owed, stated, job, phase, observationVars>>

\* The harness of the current instance's Pod has Control accept its
\* certified stage.
StageAccepted ==
  /\ kind = "multi_step" /\ known /\ ~accepted
  /\ registered # <<>> /\ phase[registered[1]] = "running"
  /\ accepted' = TRUE
  /\ UNCHANGED <<stepVars, pc, closeVars, instanceVars>>
  /\ UNCHANGED <<known, prepared, owed, held, stated, losses>>

\* The recovery restores the attempt of a launch the inventory holds.
Restore ==
  /\ ~known /\ prepared
  /\ known' = TRUE
  /\ UNCHANGED <<stepVars, pc, cleanup, command, pollVars, waited, rounds, rolled>>
  /\ UNCHANGED <<prepared, accepted, owed, held, stated, losses, instanceVars>>

-----------------------------------------------------------------------------
PathStep ==
  \/ CreateAnswered \/ LookBegins \/ LookMissed \/ OwnerAwaited
  \/ OwnerRegistered \/ JobObserved \/ InstanceRegistered \/ OwnerChecked
  \/ ResultAnswered \/ StageAnswered \/ Cleanup

CloseStep ==
  \/ OpenRefused \/ OpenAnswered \/ PrepareLaunch \/ StepFails \/ Answered
  \/ PauseEnds \/ DeliveryRefused \/ NotFound \/ Resubmit
  \/ ReconcileConfirms \/ ReconcileAgain \/ ReconcileGivesUp

RunStep == PathStep \/ (CloseStep /\ UNCHANGED instanceVars)

ControlStep == AnswerLost \/ ObligationsResolve \/ StageAccepted \/ Restore

\* The cluster matters to this module while the run observes it.
Cluster ==
  /\ pc \in PathSteps /\ job # "none" /\ ClusterStep
  /\ UNCHANGED <<stepVars, pc, closeVars, controlVars>>

Ended == pc \in {"done", "failed"} /\ UNCHANGED vars

Next ==
  \/ RunStep \/ ControlStep \/ Lose
  \/ Cluster \/ Ended

Spec == Init /\ [][Next]_vars

(***************************************************************************)
(* Fairness.  Temporal runs the Workflow's next step and fires its timers; *)
(* an observation does not look on past its deadline; Control resolves its *)
(* obligations and its recovery restores the attempt.                      *)
(***************************************************************************)
FairSpec ==
  /\ Spec
  /\ WF_vars(RunStep) /\ SF_vars(OwnerAwaited \/ JobObserved)
  /\ WF_vars(ObligationsResolve) /\ WF_vars(Restore)

-----------------------------------------------------------------------------
(***************************************************************************)
(* Properties                                                              *)
(***************************************************************************)

\* A LocalCheck run that ends without an error left definite cleanup evidence
\* with Control, and of a prepared launch that it is gone: over an unknown
\* first close, a continuation and a restored database.  It drops the close
\* of a launch Control has lost only at a bound.
EvidenceDelivered ==
  kind = "local_check" =>
    /\ pc = "done" =>
         \E s \in stated : /\ s.command # "settle"
                           /\ s.cleanup = IF launched THEN "complete" ELSE "not_required"
    /\ pc = "failed" /\ launched /\ ~known =>
         waited = RestoreRounds \/ rounds = MaxRounds

\* Under one command Control is told one thing, the two closes of an attempt
\* agree on its outcome, and it is completed only if Control had accepted its
\* certified result (or lost it): over retries, resubmissions and runs.
StatementsTrue ==
  /\ \A s, t \in stated :
       /\ s.command = t.command => s = t
       /\ "settle" \notin {s.command, t.command} => s.outcome = t.outcome
  /\ \A s \in stated :
       s.command # "settle" /\ s.outcome = "completed" => accepted \/ losses > 0

\* An attempt is completed by one Pod: the owner the run observed to the end
\* is the instance Control has had as current since its first registration,
\* and it is a duplicate only if the Job had no Pod of its own left to see.
OwnerDecides ==
  pc = "cleanup" /\ outcome = "completed" =>
    /\ losses = 0 => registered[1] = seen.pods[1]
    /\ seen.pods[1] \in Own \/ \A i \in DOMAIN seen.pods : seen.pods[i] \in Others

\* While a multi-step run waits on Control's obligations after a step that
\* did not complete, its settlement is already with Control, which applies
\* it when the last obligation resolves, with or without the run.
OutcomeLeftBehind ==
  pc = "pause" /\ kind = "multi_step" /\ outcome # "completed" =>
    \E s \in stated : s.command = "settle"

\* While one command is delivered the backoff never shrinks, over the polls
\* and the continuations, except in the resubmission of an unknown attempt.
BackoffHolds ==
  [][command' = command /\ pc # "await" => interval' >= interval]_vars

\* The run ends once Control's own obligations resolve; only an operation
\* whose cleanup was given up unknown keeps its settlement polling.
RunEnds == <>(pc \in {"done", "failed"} \/ (command = "settle" /\ Unclean))
=============================================================================
