------------------------------ MODULE Release ------------------------------
(***************************************************************************)
(* The ReleaseWorkflow (src/internal/workflows/release.go): certification, *)
(* review registration, the wait for the maintainer's decision, the        *)
(* publication of the npm and the browser target, the activation, and the  *)
(* projection of all of it that Control keeps.                             *)
(*                                                                         *)
(* The four guarded mutations are effects as Effect states them, which is  *)
(* what EffectPermit shows the Activities to provide: a call that was made *)
(* may send its mutation at any later moment, also after the run went on,  *)
(* and the upstream may take it later still.                               *)
(*                                                                         *)
(* Simplifications:                                                        *)
(*  - failure codes and phases are left out, outcomes and recorded states  *)
(*    are kept; a conflict or a denial is a failed target (targetOf);      *)
(*  - the certification Job (runJobStep) is one step;                      *)
(*  - a call includes the close of its attempt, which decides nothing;     *)
(*  - the settlement that follows the end (settleOperation) is left out.   *)
(* A cancellation the run learns of together with an answer counts as      *)
(* coming after it.                                                        *)
(***************************************************************************)
EXTENDS Naturals

CONSTANTS
  Rounds,       \* LifecycleBounds.ReleaseReconcileRounds
  PollsPerRun   \* LifecycleBounds.ReleasePollsPerRun

ASSUME RoundsAssumption == Rounds \in Nat \ {0}
ASSUME PollsAssumption == PollsPerRun \in Nat \ {0}

Targets == {"npm", "browser"}
Mutations == {"review", "activation"} \cup Targets
Decisions == {"pending", "approved", "other", "rejected", "invalidated"}

VARIABLES
  pc,         \* where the run is
  turn,       \* the mutation it is about
  rounds,     \* query rounds made about it
  polls,      \* decision polls of this run
  outcome,    \* the outcome the run will settle with
  recorded,   \* Control: the state of the release projection
  asked,      \* mutations an Activity was asked for
  told,       \* told[k]: the last answer about mutation k
  canceled,   \* the run is canceled
  decision,   \* the review port's decision, "other": approved another subject
  late,       \* the approval deadline has passed
  sent,       \* mutations sent upstream
  upstream    \* upstream[k]: what became of mutation k

runVars == <<pc, turn, rounds, polls, outcome>>
askVars == <<asked, told>>
worldVars == <<canceled, decision, late>>
effectVars == <<sent, upstream>>
vars == <<runVars, recorded, askVars, worldVars, effectVars>>

PCs == {"start", "source", "certify", "subject", "open", "call", "await",
        "check", "approve", "evaluate", "pause", "catalog", "ended"}
States == {"none", "certifying", "awaiting_approval", "publishing", "published",
           "partially_published", "reconciling", "rejected", "failed", "activated"}
Verdicts == {"none", "unknown", "denied", "succeeded", "failed", "error"}

TypeOK ==
  /\ pc \in PCs /\ turn \in Mutations
  /\ rounds \in 0 .. Rounds /\ polls \in 0 .. PollsPerRun - 1
  /\ outcome \in {"none", "succeeded", "failed", "canceled"}
  /\ recorded \in States
  /\ asked \in SUBSET Mutations
  /\ told \in [Mutations -> Verdicts]
  /\ canceled \in BOOLEAN /\ decision \in Decisions /\ late \in BOOLEAN
  /\ sent \in SUBSET Mutations
  /\ upstream \in [Mutations -> {"none", "succeeded", "failed"}]

Init ==
  /\ pc = "start" /\ turn = "review" /\ rounds = 0 /\ polls = 0
  /\ outcome = "none" /\ recorded = "none"
  /\ asked = {} /\ told = [k \in Mutations |-> "none"]
  /\ canceled = FALSE /\ decision = "pending" /\ late = FALSE
  /\ sent = {} /\ upstream = [k \in Mutations |-> "none"]

-----------------------------------------------------------------------------
(***************************************************************************)
(* Recording and ending.  A record is the same command however often it is *)
(* retried: it is accepted, or Control refuses it.                         *)
(***************************************************************************)
\* settleOutcome: a canceled run's failures are cancellations.
ErrorOutcome == IF canceled THEN "canceled" ELSE "failed"

End(result) == pc' = "ended" /\ outcome' = result

\* record(state) and the end of the run when Control refuses it.
RecordThen(state, next) ==
  \/ recorded' = state /\ pc' = next /\ UNCHANGED outcome
  \/ UNCHANGED recorded /\ End(ErrorOutcome)

\* record(state) and the end of the run either way.
RecordAndEnd(state, result) ==
  \/ recorded' = state /\ End(result)
  \/ UNCHANGED recorded /\ End(ErrorOutcome)

Fail == RecordAndEnd("failed", "failed")

\* record(state), its refusal ignored.
RecordIfAccepted(state) == recorded' \in {state, recorded}

Continue(next) == pc' = next /\ UNCHANGED outcome

\* targetOf: the target record an answer makes.
StateOf(answer) ==
  CASE answer \in {"none", "error"} -> "pending"
    [] answer = "denied" -> "failed"
    [] OTHER -> answer

\* publicationState: the release state the two target records support.
PublicationState(answers) ==
  LET states == {StateOf(answers[t]) : t \in Targets} IN
    CASE "unknown" \in states -> "reconciling"
      [] states = {"succeeded"} -> "published"
      [] states = {"succeeded", "failed"} -> "partially_published"
      [] states = {"failed"} -> "failed"
      [] OTHER -> "publishing"

-----------------------------------------------------------------------------
(***************************************************************************)
(* Certification and the exact subject.                                    *)
(***************************************************************************)
Start ==
  /\ pc = "start"
  /\ RecordThen("certifying", "source")
  /\ UNCHANGED <<turn, rounds, polls, askVars, worldVars, effectVars>>

\* A preparation step: it passes, or the release fails.  An Activity of a
\* canceled run passes nothing; the certification Job, which meets the
\* cancellation in its own cleanup, may.
Prepare(from, next) ==
  /\ pc = from
  /\ \/ /\ from = "certify" \/ ~canceled
        /\ Continue(next) /\ UNCHANGED recorded
     \/ Fail
  /\ UNCHANGED <<turn, rounds, polls, askVars, worldVars, effectVars>>

ReadSource == Prepare("source", "certify")
Certify == Prepare("certify", "subject")
BuildSubject == Prepare("subject", "open")

-----------------------------------------------------------------------------
(***************************************************************************)
(* releaseEffect: the attempt, then the guarded call, which runs on under  *)
(* a cancellation.                                                         *)
(***************************************************************************)
Open ==
  /\ pc = "open" /\ ~canceled
  /\ asked' = asked \cup {turn}
  /\ Continue("call")
  /\ UNCHANGED <<turn, rounds, polls, recorded, told, worldVars, effectVars>>

\* What a code of releaseEffect does: it fails the review and the first call
\* of a target, a query round of a target goes by, the activation ends.
Coded ==
  \/ turn = "review" /\ Fail /\ UNCHANGED rounds
  \/ turn \in Targets /\ told[turn] = "none" /\ Fail /\ UNCHANGED rounds
  \/ /\ turn \in Targets /\ told[turn] = "unknown"
     /\ rounds' = rounds + 1
     /\ Continue("pause") /\ UNCHANGED recorded
  \/ turn = "activation" /\ End("failed") /\ UNCHANGED <<rounds, recorded>>

\* The attempt is not opened: Control refused or stayed away, or the run is
\* canceled.
OpenFails ==
  /\ pc = "open"
  /\ Coded
  /\ UNCHANGED <<turn, polls, askVars, worldVars, effectVars>>

\* Mutated form of CallFails: an error of the call is a failed mutation.
CallFailsFailed ==
  /\ pc = "call"
  /\ Coded
  /\ told' = [told EXCEPT ![turn] = IF @ = "none" THEN "failed" ELSE @]
  /\ UNCHANGED <<turn, polls, asked, worldVars, effectVars>>

\* The guarded call is refused or out of retries; what became of the
\* mutation is not known.
CallFails ==
  /\ pc = "call"
  /\ Coded
  /\ told' = [told EXCEPT ![turn] = IF @ = "none" THEN "error" ELSE @]
  /\ UNCHANGED <<turn, polls, asked, worldVars, effectVars>>

\* The answers Effect allows for a mutation.
Answers(k) ==
  {"unknown"}
  \cup (IF k \in sent THEN {} ELSE {"denied"})
  \cup (IF upstream[k] = "none" THEN {} ELSE {upstream[k], "failed"})

Answered(answer) ==
  /\ pc = "call" /\ answer \in Answers(turn)
  /\ told' = [told EXCEPT ![turn] = answer]
  /\ UNCHANGED <<turn, polls, asked, worldVars, effectVars>>

\* Another query round about an answer that is still unknown.
AskAgain == rounds' = rounds + 1 /\ Continue("pause") /\ UNCHANGED recorded

ReviewAnswered(answer) ==
  /\ turn = "review" /\ Answered(answer)
  /\ IF answer = "succeeded" THEN RecordThen("awaiting_approval", "await") ELSE Fail
  /\ UNCHANGED rounds

\* The first answer of a target.
TargetAnswered(answer) ==
  /\ turn \in Targets /\ told[turn] = "none" /\ Answered(answer)
  /\ RecordThen(PublicationState(told'), "evaluate")
  /\ UNCHANGED rounds

\* Mutated form of TargetQueried: an answer still unknown does not count.
TargetQueriedForever(answer) ==
  /\ turn \in Targets /\ told[turn] = "unknown" /\ Answered(answer)
  /\ \/ answer = "unknown" /\ Continue("pause") /\ UNCHANGED <<rounds, recorded>>
     \/ /\ answer # "unknown"
        /\ RecordIfAccepted(PublicationState(told'))
        /\ Continue("evaluate") /\ UNCHANGED rounds

\* The answer of a query round; a refused record is only logged.
TargetQueried(answer) ==
  /\ turn \in Targets /\ told[turn] = "unknown" /\ Answered(answer)
  /\ \/ answer = "unknown" /\ AskAgain
     \/ /\ answer # "unknown"
        /\ RecordIfAccepted(PublicationState(told'))
        /\ Continue("evaluate") /\ UNCHANGED rounds

ActivationAnswered(answer) ==
  /\ turn = "activation" /\ Answered(answer)
  /\ \/ /\ answer = "unknown" /\ told[turn] = "unknown"
        /\ AskAgain
     \/ /\ answer = "unknown" /\ told[turn] = "none"
        /\ RecordIfAccepted("reconciling")
        /\ Continue("pause") /\ UNCHANGED rounds
     \/ /\ answer = "succeeded"
        /\ RecordAndEnd("activated", "succeeded") /\ UNCHANGED rounds
     \/ /\ answer \in {"failed", "denied"}
        /\ Fail /\ UNCHANGED rounds

Pause ==
  /\ pc = "pause" /\ rounds < Rounds /\ ~canceled
  /\ Continue("open")
  /\ UNCHANGED <<turn, rounds, polls, recorded, askVars, worldVars, effectVars>>

\* The rounds are over or the pause is canceled: the mutation stays unknown.
LeaveQueries ==
  /\ pc = "pause" /\ (rounds = Rounds \/ canceled)
  /\ End("failed")
  /\ UNCHANGED <<turn, rounds, polls, recorded, askVars, worldVars, effectVars>>

\* Mutated form of Evaluate: the next mutation does not wait for the answer of
\* a target that is still unknown.
EvaluateGoesOn ==
  /\ pc = "evaluate"
  /\ \/ /\ told[turn] \in {"unknown", "succeeded"}
        /\ turn' = (IF turn = "npm" THEN "browser" ELSE "activation") /\ rounds' = 0
        /\ Continue("check") /\ UNCHANGED recorded
     \/ told[turn] \in {"failed", "denied"} /\ Fail /\ UNCHANGED <<turn, rounds>>
  /\ UNCHANGED <<polls, askVars, worldVars, effectVars>>

\* What a target's answer leads to.
Evaluate ==
  /\ pc = "evaluate"
  /\ \/ /\ told[turn] = "unknown"
        /\ Continue("pause") /\ UNCHANGED <<turn, rounds, recorded>>
     \/ /\ turn = "npm" /\ told[turn] = "succeeded"
        /\ turn' = "browser" /\ rounds' = 0
        /\ Continue("check") /\ UNCHANGED recorded
     \/ /\ turn = "npm" /\ told[turn] \in {"failed", "denied"}
        /\ Fail /\ UNCHANGED <<turn, rounds>>
     \/ /\ turn = "browser" /\ told[turn] \in {"failed", "denied"}
        /\ End("failed") /\ UNCHANGED <<turn, rounds, recorded>>
     \/ /\ turn = "browser" /\ told[turn] = "succeeded"
        /\ turn' = "activation" /\ rounds' = 0
        /\ IF recorded = "published"
           THEN Continue("check") /\ UNCHANGED recorded
           ELSE RecordThen("published", "check")
  /\ UNCHANGED <<polls, askVars, worldVars, effectVars>>

-----------------------------------------------------------------------------
(***************************************************************************)
(* The maintainer's decision.                                              *)
(***************************************************************************)
\* One poll.  A run that made its polls continues as new, which carries
\* everything but the poll count.
Poll ==
  /\ pc = "await" /\ decision = "pending" /\ ~canceled /\ ~late
  /\ polls' = IF polls + 1 < PollsPerRun THEN polls + 1 ELSE 0
  /\ UNCHANGED <<pc, turn, rounds, outcome, recorded, askVars, worldVars, effectVars>>

Approved ==
  /\ pc = "await" /\ decision = "approved" /\ ~canceled
  /\ RecordThen("publishing", "check")
  /\ turn' = "npm"
  /\ UNCHANGED <<rounds, polls, askVars, worldVars, effectVars>>

\* Rejected, invalidated, or approved for another subject.
Disapproved ==
  /\ pc = "await" /\ decision \in {"other", "rejected", "invalidated"} /\ ~canceled
  /\ RecordAndEnd("rejected", "failed")
  /\ UNCHANGED <<turn, rounds, polls, askVars, worldVars, effectVars>>

\* The deadline passed without a decision, or the review port is away.
Undecided ==
  /\ pc = "await" /\ ~canceled
  /\ Fail
  /\ UNCHANGED <<turn, rounds, polls, askVars, worldVars, effectVars>>

AwaitCanceled ==
  /\ pc = "await" /\ canceled
  /\ RecordIfAccepted("failed") /\ End("canceled")
  /\ UNCHANGED <<turn, rounds, polls, askVars, worldVars, effectVars>>

\* Before each target and the activation: the cancellation, then the
\* approval is read again, then (activation) the catalog revision.
NotCanceled ==
  /\ pc = "check" /\ ~canceled
  /\ Continue("approve")
  /\ UNCHANGED <<turn, rounds, polls, recorded, askVars, worldVars, effectVars>>

Canceled ==
  /\ pc = "check" /\ canceled
  /\ End("canceled")
  /\ IF turn \in Targets THEN RecordIfAccepted(PublicationState(told)) ELSE UNCHANGED recorded
  /\ UNCHANGED <<turn, rounds, polls, askVars, worldVars, effectVars>>

\* Mutated form of StillApproved: the decision awaited is trusted.
StillApprovedTrusting ==
  /\ pc = "approve" /\ ~canceled
  /\ Continue(IF turn = "activation" THEN "catalog" ELSE "open")
  /\ UNCHANGED <<turn, rounds, polls, recorded, askVars, worldVars, effectVars>>

StillApproved ==
  /\ pc = "approve" /\ ~canceled /\ decision = "approved"
  /\ Continue(IF turn = "activation" THEN "catalog" ELSE "open")
  /\ UNCHANGED <<turn, rounds, polls, recorded, askVars, worldVars, effectVars>>

\* The decision changed or could not be read.
NotApproved ==
  /\ pc = "approve"
  /\ \/ turn \in Targets /\ Fail
     \/ turn = "activation" /\ End("failed") /\ UNCHANGED recorded
  /\ UNCHANGED <<turn, rounds, polls, askVars, worldVars, effectVars>>

ReadCatalog ==
  /\ pc = "catalog"
  /\ \/ ~canceled /\ Continue("open")
     \/ End(ErrorOutcome)
  /\ UNCHANGED <<turn, rounds, polls, recorded, askVars, worldVars, effectVars>>

-----------------------------------------------------------------------------
(***************************************************************************)
(* The world: the cancellation request, the maintainer, the clock, and the *)
(* mutations that were asked for, whoever still carries them.              *)
(***************************************************************************)
CancelRequested ==
  /\ ~canceled /\ canceled' = TRUE
  /\ UNCHANGED <<runVars, recorded, askVars, decision, late, effectVars>>

Decide ==
  /\ decision' \in Decisions \ {decision}
  /\ UNCHANGED <<runVars, recorded, askVars, canceled, late, effectVars>>

DeadlinePasses ==
  /\ pc = "await" /\ ~late /\ late' = TRUE
  /\ UNCHANGED <<runVars, recorded, askVars, canceled, decision, effectVars>>

SendEffect(k) ==
  /\ k \in asked \ sent /\ told[k] # "denied"
  /\ sent' = sent \cup {k}
  /\ UNCHANGED <<runVars, recorded, askVars, worldVars, upstream>>

TakeEffect(k) ==
  /\ k \in sent /\ upstream[k] = "none"
  /\ \E o \in {"succeeded", "failed"} : upstream' = [upstream EXCEPT ![k] = o]
  /\ UNCHANGED <<runVars, recorded, askVars, worldVars, sent>>

-----------------------------------------------------------------------------
RunStep ==
  \/ Start \/ ReadSource \/ Certify \/ BuildSubject
  \/ Open \/ OpenFails \/ CallFails
  \/ \E a \in Verdicts : ReviewAnswered(a) \/ TargetAnswered(a)
                       \/ TargetQueried(a) \/ ActivationAnswered(a)
  \/ Pause \/ LeaveQueries \/ Evaluate
  \/ Poll \/ Approved \/ Disapproved \/ Undecided \/ AwaitCanceled
  \/ NotCanceled \/ Canceled \/ StillApproved \/ NotApproved \/ ReadCatalog

World ==
  \/ CancelRequested \/ Decide \/ DeadlinePasses
  \/ \E k \in Mutations : SendEffect(k) \/ TakeEffect(k)

Next == RunStep \/ World

Spec == Init /\ [][Next]_vars

\* Temporal runs the Workflow on and fires its timers; nobody has to decide,
\* to send or to answer.
FairSpec == Spec /\ WF_vars(RunStep) /\ WF_vars(DeadlinePasses)

-----------------------------------------------------------------------------
(***************************************************************************)
(* Properties                                                              *)
(***************************************************************************)
\* The mutation each one waits for.
Before == [npm |-> "review", browser |-> "npm", activation |-> "browser"]

\* No mutation goes upstream before the one it builds on happened there:
\* publications follow the registered review, the browser target follows
\* the npm target, the activation follows both, and none is sent on the
\* strength of an unknown or failed answer.
PublicationOrder ==
  \A k \in DOMAIN Before : k \in sent => upstream[Before[k]] = "succeeded"

\* What the projection claims happened upstream: both targets for a published
\* release, one of them for a partially published one, the activation too for
\* an activated one.
ProjectionTrue ==
  /\ recorded \in {"published", "activated"}
       => \A t \in Targets : upstream[t] = "succeeded"
  /\ recorded = "activated" => upstream["activation"] = "succeeded"
  /\ recorded = "partially_published"
       => \E t \in Targets : upstream[t] = "succeeded"

\* Nothing is published behind the projection: once a publication or the
\* activation is sent, the record has left the states before publishing.
ProjectionCoversSends ==
  sent \ {"review"} # {}
    => recorded \notin {"none", "certifying", "awaiting_approval", "rejected"}

\* The run ends as a success exactly when its projection says activated.
SettledAgrees ==
  pc = "ended" => (outcome = "succeeded" <=> recorded = "activated")

\* A final state of the projection is never replaced, by whatever follows a
\* partial publication, a rejection or a failure in the same run.
FinalStays ==
  [][(recorded \in {"activated", "partially_published", "rejected", "failed"})
       => recorded' = recorded]_vars

\* Once the run knows of its cancellation no further mutation is asked for.
CancelStops == [][canceled => asked' = asked]_vars

\* The approval is read again between mutations: k is never asked for if the
\* release was not approved at some moment after the answer k builds on.
ApprovalReread ==
  \A k \in DOMAIN Before :
    [](told[Before[k]] = "succeeded" /\ k \notin asked => decision # "approved")
      => [](k \notin asked)

\* The run asks for each mutation as the effect contract allows: it takes one
\* settled answer, and an error of a call settles nothing.
Mutation(k) ==
  INSTANCE Effect WITH sends <- IF k \in sent THEN 1 ELSE 0,
                       outcome <- upstream[k], told <- told[k]
UsesEffects ==
  /\ \A k \in Mutations : Mutation(k)!Init
  /\ [][\A k \in Mutations : Mutation(k)!Next \/ UNCHANGED Mutation(k)!vars]_vars

\* Every release ends: no lost answer, outage, unknown target or missing
\* decision keeps the run waiting for ever.
RunEnds == <>(pc = "ended")

\* How far the run is: the mutation it is about, what it heard of it, the
\* query rounds it made, and its place in the code of that round.
Turns == [review |-> 1, npm |-> 2, browser |-> 3, activation |-> 4]
Heard == CASE told[turn] = "none" -> 0 [] told[turn] = "unknown" -> 1 [] OTHER -> 2
Place ==
  [start |-> 1, source |-> 2, certify |-> 3, subject |-> 4, check |-> 5, approve |-> 6,
   catalog |-> 7, evaluate |-> 8, pause |-> 9, open |-> 10, call |-> 11, await |-> 12,
   ended |-> 13]

Further ==
  \/ Turns[turn'] > Turns[turn]
  \/ turn' = turn /\ Heard' > Heard
  \/ turn' = turn /\ Heard' = Heard /\ rounds' > rounds
  \/ turn' = turn /\ Heard' = Heard /\ rounds' = rounds /\ Place[pc'] > Place[pc]

\* No retry, query round or answer takes the run back to where it was: only a
\* decision poll leaves it in its place, every other step of it goes further on
\* a scale that ends, so all it can wait for without a bound is the decision.
GoesFurther ==
  [][Further \/ (UNCHANGED <<pc, turn, rounds, told>> /\ (Poll \/ World))]_vars

-----------------------------------------------------------------------------
(***************************************************************************)
(* The inductive invariant behind the safety properties.                   *)
(***************************************************************************)
\* The mutations that come before a turn.
Prior(t) ==
  CASE t = "review" -> {}
    [] t = "npm" -> {"review"}
    [] t = "browser" -> {"review", "npm"}
    [] t = "activation" -> {"review", "npm", "browser"}

\* What the answers say happened: nothing upstream that was not asked for.
EffectInv ==
  /\ sent \subseteq asked
  /\ \A k \in Mutations :
       /\ upstream[k] # "none" => k \in sent
       /\ told[k] = "succeeded" => upstream[k] = "succeeded"

\* The earlier mutations succeeded, the later ones were not touched.
TurnInv ==
  \A k \in Mutations :
    /\ k \in Prior(turn) => told[k] = "succeeded"
    /\ k \notin Prior(turn) \cup {turn} => told[k] = "none" /\ k \notin asked

\* What the run knows about its turn where it is.
PlaceInv ==
  /\ pc \in {"start", "source", "certify", "subject"}
       => turn = "review" /\ told[turn] = "none"
  /\ pc = "await" => turn = "review" /\ told[turn] = "succeeded"
  /\ pc \in {"check", "approve", "catalog"}
       => turn # "review" /\ told[turn] = "none" /\ turn \notin asked
  /\ pc = "catalog" => turn = "activation"
  /\ pc \in {"open", "call"}
       => told[turn] = "none" \/ (told[turn] = "unknown" /\ rounds < Rounds)
  /\ pc = "pause" => turn # "review" /\ told[turn] = "unknown"
  /\ pc = "evaluate" => turn \in Targets /\ told[turn] \notin {"none", "error"}

\* What the projection says is what the run was told, and it is final only
\* where the run is over or about to be.
RecordInv ==
  /\ asked \subseteq {"review"}
       \/ recorded \notin {"none", "certifying", "awaiting_approval", "rejected"}
  /\ recorded \in {"published", "activated"}
       => told["npm"] = "succeeded" /\ told["browser"] = "succeeded"
  /\ recorded = "activated" => told["activation"] = "succeeded"
  /\ recorded = "partially_published" => told["npm"] = "succeeded"
  /\ pc # "ended" =>
       /\ outcome = "none"
       /\ recorded \notin {"activated", "rejected", "failed"}
       /\ turn # "review" => recorded \notin {"none", "certifying", "awaiting_approval"}
       /\ recorded = "partially_published"
            => pc = "evaluate" /\ turn = "browser" /\ told[turn] \in {"failed", "denied"}

RInv ==
  TypeOK /\ EffectInv /\ TurnInv /\ PlaceInv /\ RecordInv /\ SettledAgrees
=============================================================================
