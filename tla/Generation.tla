----------------------------- MODULE Generation -----------------------------
(***************************************************************************)
(* The Generation Workflow (src/internal/workflows/generation.go): the main*)
(* coroutine with its Job steps, bounded repair and the candidate          *)
(* registration; the handlers of the hold, resume and change_definition    *)
(* Updates; the lease supervisor, seen only where it fences the run.       *)
(*                                                                         *)
(* A Temporal coroutine runs until it blocks, so everything the main       *)
(* coroutine does between two answers is one action: a step that was closed*)
(* and the OpenAttempt of the next one belong together.  A handler runs    *)
(* between two such actions.                                               *)
(*                                                                         *)
(* Simplifications:                                                        *)
(*  - failure codes, phases and artifacts are left out; a stage is its     *)
(*    verdict;                                                             *)
(*  - scope, funding, identity and the acquisition of the lease are one    *)
(*    step; so are create, observation and registration of a Job, and the  *)
(*    cleanup and close of an attempt (LaunchCleanup models these);        *)
(*  - the registration is the effect of Effect (EffectPermit).             *)
(***************************************************************************)
EXTENDS Naturals

CONSTANTS
  Definitions,        \* LifecycleBounds.Definitions the worker registered
  InitialDefinition,  \* view.DefinitionActivation
  RepairBound,        \* RepairBound[d]: the repair rounds definition d allows
  Commands            \* the Updates Control may relay: <<kind, number>>

ASSUME DefinitionsAssumption ==
  InitialDefinition \in Definitions /\ RepairBound \in [Definitions -> Nat]
RepairBounds == {RepairBound[d] : d \in Definitions}

ASSUME CommandsAssumption ==
  Commands \subseteq {"hold", "resume", "change_definition"} \X Nat

VARIABLES
  pc,          \* what the main coroutine waits for
  step,        \* the step it is about
  stage,       \* the verdict of the step's accepted stage, "none" without one
  repairs,     \* repair rounds granted
  bound,       \* maxRepairs as read at the start of the round
  certified,   \* this round's codegen stage is certified and not yet judged
  outcome,     \* the outcome the run will settle with
  held,        \* generationState.held
  inflight,    \* generationState.inflight
  fenced,      \* generationState.fenced
  leased,      \* the lease is held and supervised
  late,        \* the original queue deadline has passed
  done,        \* generationState.done
  definition,  \* generationState.definition
  command,     \* command[c]: what became of an Update
  canceled,    \* the run is canceled
  asked,       \* the RegisterCandidate Activity was asked for
  sent,        \* the candidate registration was sent upstream
  upstream     \* what the upstream did with it

mainVars == <<pc, step, stage, repairs, bound, certified, outcome, inflight, done>>
handlerVars == <<held, definition, command>>
leaseVars == <<fenced, leased>>
worldVars == <<late, canceled>>
effectVars == <<asked, sent, upstream>>
vars == <<mainVars, handlerVars, leaseVars, worldVars, effectVars>>

Steps == {"permit", "codegen", "validate", "candidate"}
PCs == {"read", "held", "permit", "bootstrap", "open", "prepare", "running",
        "closing", "register", "regclose", "settle", "handlers", "ended"}

FlagsOK ==
  /\ certified \in BOOLEAN /\ held \in BOOLEAN /\ fenced \in BOOLEAN
  /\ leased \in BOOLEAN /\ done \in BOOLEAN /\ late \in BOOLEAN
  /\ canceled \in BOOLEAN /\ asked \in BOOLEAN /\ sent \in BOOLEAN

TypeOK ==
  /\ FlagsOK
  /\ pc \in PCs /\ step \in Steps
  /\ stage \in {"none", "certified", "repairable", "invalid"}
  /\ repairs \in Nat /\ \E b \in RepairBounds : repairs <= b
  /\ bound \in RepairBounds
  /\ outcome \in {"none", "succeeded", "failed", "canceled"}
  /\ inflight \in 0 .. 1
  /\ definition \in Definitions
  /\ command \in [Commands -> {"unsent", "waiting", "answered"}]
  /\ upstream \in {"none", "succeeded", "failed"}

Init ==
  /\ pc = "read" /\ step = "permit" /\ stage = "none"
  /\ repairs = 0 /\ bound = RepairBound[InitialDefinition] /\ certified = FALSE
  /\ outcome = "none" /\ held = FALSE /\ inflight = 0 /\ done = FALSE
  /\ fenced = FALSE /\ leased = FALSE /\ definition = InitialDefinition
  /\ command = [c \in Commands |-> "unsent"]
  /\ late = FALSE /\ canceled = FALSE
  /\ asked = FALSE /\ sent = FALSE /\ upstream = "none"

-----------------------------------------------------------------------------
(***************************************************************************)
(* Going on and ending.                                                    *)
(***************************************************************************)
\* settleOutcome: a canceled run's failures are cancellations.
ErrorOutcome == IF canceled THEN "canceled" ELSE "failed"

\* A return: the deferred settlement sets done first.
End(result) ==
  /\ pc' = "settle" /\ outcome' = result /\ done' = TRUE
  /\ UNCHANGED <<step, bound>>

\* The profiles and the repair bound are those of the definition in force
\* when the round starts.
Enter(next) ==
  /\ pc' = IF next = "permit" THEN "permit" ELSE "open"
  /\ step' = next
  /\ bound' = IF next = "codegen" THEN RepairBound[definition] ELSE bound
  /\ UNCHANGED <<outcome, done>>

\* Mutated form of Proceed: the step starts without waiting out a hold.
ProceedHeld(next) == IF fenced THEN End(ErrorOutcome) ELSE Enter(next)

\* awaitRunnable before a step: a fence ends the run, a hold is waited out;
\* a run that may go on does not yield here.
Proceed(next) ==
  \/ fenced /\ End(ErrorOutcome)
  \/ /\ ~fenced /\ held
     /\ pc' = "held" /\ step' = next
     /\ UNCHANGED <<bound, outcome, done>>
  \/ ~fenced /\ ~held /\ Enter(next)

ReadFails ==
  /\ pc = "read"
  /\ End(ErrorOutcome)
  /\ UNCHANGED <<stage, repairs, certified, inflight, handlerVars, leaseVars>>
  /\ UNCHANGED <<worldVars, effectVars>>

\* A lease Control recorded lost in an earlier run fences this one.
Read(lost) ==
  /\ pc = "read" /\ fenced' = lost
  /\ IF lost THEN End(ErrorOutcome) ELSE Proceed("permit")
  /\ UNCHANGED <<stage, repairs, certified, inflight, handlerVars, leased>>
  /\ UNCHANGED <<worldVars, effectVars>>

\* The blocked awaitRunnable returns: resumed, fenced or canceled.
HoldEnds ==
  /\ pc = "held"
  /\ \/ (~held \/ fenced) /\ Proceed(step)
     \/ held /\ ~fenced /\ canceled /\ End("canceled")
  /\ UNCHANGED <<stage, repairs, certified, inflight, handlerVars, leaseVars>>
  /\ UNCHANGED <<worldVars, effectVars>>

\* RequestExecutionPermit: granted, refused (or the queue deadline passed),
\* or asked again after the poll interval.
PermitAnswered ==
  /\ pc = "permit"
  /\ \/ ~canceled /\ pc' = "bootstrap" /\ UNCHANGED <<step, bound, outcome, done>>
     \/ ~late /\ Proceed("permit")
     \/ End(ErrorOutcome)
  /\ UNCHANGED <<stage, repairs, certified, inflight, handlerVars, leaseVars>>
  /\ UNCHANGED <<worldVars, effectVars>>

\* Scope, funding, identity and lease; then the supervisor starts.  A
\* rejected scope or an unavailable lease is a failure also when canceled.
BootstrapEnds ==
  /\ pc = "bootstrap"
  /\ \/ ~canceled /\ leased' = TRUE /\ Proceed("codegen")
     \/ UNCHANGED leased /\ (End(ErrorOutcome) \/ End("failed"))
  /\ UNCHANGED <<stage, repairs, certified, inflight, handlerVars, fenced>>
  /\ UNCHANGED <<worldVars, effectVars>>

-----------------------------------------------------------------------------
(***************************************************************************)
(* runJobStep: open, prepare, run, close.  workCtx ends with the run's own *)
(* context or when the lease fence falls; it then refuses every Activity.  *)
(***************************************************************************)
WorkCanceled == canceled \/ fenced

\* The attempt is open; it is in flight from now on.
StepOpened ==
  /\ pc = "open" /\ step \in {"codegen", "validate"} /\ ~WorkCanceled
  /\ inflight' = inflight + 1
  /\ stage' = "none" /\ pc' = "prepare"
  /\ UNCHANGED <<step, repairs, bound, certified, outcome, done>>
  /\ UNCHANGED <<handlerVars, leaseVars, worldVars, effectVars>>

LaunchPrepared ==
  /\ pc = "prepare" /\ ~WorkCanceled
  /\ pc' = "running"
  /\ UNCHANGED <<step, stage, repairs, bound, certified, outcome, inflight, done>>
  /\ UNCHANGED <<handlerVars, leaseVars, worldVars, effectVars>>

\* The Job ran and Control accepted a stage of its trusted process.
StageAccepted(verdict) ==
  /\ pc = "running" /\ ~WorkCanceled
  /\ stage' = verdict /\ pc' = "closing"
  /\ UNCHANGED <<step, repairs, bound, certified, outcome, inflight, done>>
  /\ UNCHANGED <<handlerVars, leaseVars, worldVars, effectVars>>

\* The step ends without a stage: refused, failed, expired or canceled.
StepFails ==
  /\ pc \in {"prepare", "running"}
  /\ stage' = "none" /\ pc' = "closing"
  /\ UNCHANGED <<step, repairs, bound, certified, outcome, inflight, done>>
  /\ UNCHANGED <<handlerVars, leaseVars, worldVars, effectVars>>

\* What the run does with a step that ended with a code or without a stage.
WithoutStage ==
  /\ UNCHANGED <<repairs, certified>>
  /\ IF held /\ ~canceled THEN Proceed("codegen") ELSE End(ErrorOutcome)

CodegenJudged ==
  /\ UNCHANGED repairs
  /\ certified' = (stage = "certified")
  /\ IF stage = "certified" THEN Proceed("validate") ELSE End("failed")

\* Mutated form of ValidationJudged: a repair round starts a new count.
ValidationJudgedUncounted ==
  \/ /\ stage = "certified"
     /\ Proceed("candidate") /\ UNCHANGED <<repairs, certified>>
  \/ /\ stage = "repairable" /\ repairs < bound
     /\ repairs' = 0 /\ certified' = FALSE
     /\ Proceed("codegen")
  \/ /\ stage = "invalid" \/ (stage = "repairable" /\ repairs >= bound)
     /\ End("failed") /\ UNCHANGED <<repairs, certified>>

\* Only an accepted repairable finding of the independent validator starts
\* another round, and only within the bound.
ValidationJudged ==
  \/ /\ stage = "certified"
     /\ Proceed("candidate") /\ UNCHANGED <<repairs, certified>>
  \/ /\ stage = "repairable" /\ repairs < bound
     /\ repairs' = repairs + 1 /\ certified' = FALSE
     /\ Proceed("codegen")
  \/ /\ stage = "invalid" \/ (stage = "repairable" /\ repairs >= bound)
     /\ End("failed") /\ UNCHANGED <<repairs, certified>>

\* The cleanup and the close of the attempt are answered (a refusal, or a
\* reconciliation that gave up, is a code), the step leaves the flight and
\* the run goes on in the same breath.
StepClosed ==
  /\ pc = "closing"
  /\ inflight' = inflight - 1
  /\ stage' \in {stage, "none"}
  /\ \/ fenced /\ End("failed") /\ UNCHANGED <<repairs, certified>>
     \/ ~fenced /\ stage' = "none" /\ WithoutStage
     \/ ~fenced /\ stage' # "none" /\ step = "codegen" /\ CodegenJudged
     \/ ~fenced /\ stage' # "none" /\ step = "validate" /\ ValidationJudged
  /\ UNCHANGED <<handlerVars, leaseVars, worldVars, effectVars>>

\* Mutated form of OpenFails: the flight is counted before the answer.
OpenFailsCounted ==
  /\ pc = "open"
  /\ stage' = "none" /\ inflight' = 1
  /\ \/ fenced /\ End("failed") /\ UNCHANGED <<repairs, certified>>
     \/ ~fenced /\ step # "candidate" /\ WithoutStage
     \/ step = "candidate" /\ End(ErrorOutcome) /\ UNCHANGED <<repairs, certified>>
  /\ UNCHANGED <<handlerVars, leaseVars, worldVars, effectVars>>

\* OpenAttempt is refused or canceled: nothing of the step was in flight.
\* The registration also fails when its artifacts are missing.
OpenFails ==
  /\ pc = "open"
  /\ stage' = "none"
  /\ \/ fenced /\ End("failed") /\ UNCHANGED <<repairs, certified>>
     \/ ~fenced /\ step # "candidate" /\ WithoutStage
     \/ /\ step = "candidate"
        /\ End(ErrorOutcome) \/ End("failed")
        /\ UNCHANGED <<repairs, certified>>
  /\ UNCHANGED <<inflight, handlerVars, leaseVars, worldVars, effectVars>>

-----------------------------------------------------------------------------
(***************************************************************************)
(* The candidate registration.  Its attempt is opened under the run's      *)
(* context, the Activity runs under workCtx; the attempt is closed before  *)
(* the settlement.                                                         *)
(***************************************************************************)
CandidateOpened ==
  /\ pc = "open" /\ step = "candidate" /\ ~canceled
  /\ \/ /\ fenced
        /\ pc' = "regclose" /\ outcome' = "failed"
        /\ UNCHANGED <<inflight, asked>>
     \/ /\ ~fenced
        /\ pc' = "register" /\ inflight' = inflight + 1 /\ asked' = TRUE
        /\ UNCHANGED outcome
  /\ UNCHANGED <<step, stage, repairs, bound, certified, done>>
  /\ UNCHANGED <<handlerVars, leaseVars, worldVars, sent, upstream>>

\* What RegisterCandidate may answer, by the contract of Effect.
Answers ==
  {"unknown", "error"}
  \cup (IF sent THEN {} ELSE {"denied"})
  \cup (IF upstream = "none" THEN {} ELSE {upstream})

\* Mutated form of OutcomeOf: an unknown registration counts as done.
OutcomeOfOptimistic(answer) ==
  CASE answer \in {"succeeded", "unknown"} -> "succeeded"
    [] answer = "error" -> ErrorOutcome
    [] OTHER -> "failed"

OutcomeOf(answer) ==
  CASE answer = "succeeded" -> "succeeded"
    [] answer = "error" -> ErrorOutcome
    [] OTHER -> "failed"

RegistrationAnswered(answer) ==
  /\ pc = "register"
  /\ answer \in Answers /\ (WorkCanceled => answer = "error")
  /\ inflight' = inflight - 1
  /\ pc' = "regclose"
  /\ outcome' = IF fenced THEN "failed" ELSE OutcomeOf(answer)
  /\ UNCHANGED <<step, stage, repairs, bound, certified, done>>
  /\ UNCHANGED <<handlerVars, leaseVars, worldVars, effectVars>>

RegistrationClosed ==
  /\ pc = "regclose"
  /\ pc' = "settle" /\ done' = TRUE
  /\ UNCHANGED <<step, stage, repairs, bound, certified, outcome, inflight>>
  /\ UNCHANGED <<handlerVars, leaseVars, worldVars, effectVars>>

\* The lease is released and the outcome settled, or the run continues as
\* new to settle it; either way the handlers are awaited.
Settled ==
  /\ pc = "settle"
  /\ pc' = "handlers" /\ leased' = FALSE
  /\ UNCHANGED <<step, stage, repairs, bound, certified, outcome, inflight, done>>
  /\ UNCHANGED <<handlerVars, fenced, worldVars, effectVars>>

HandlersFinished ==
  /\ pc = "handlers" /\ \A c \in Commands : command[c] # "waiting"
  /\ pc' = "ended"
  /\ UNCHANGED <<step, stage, repairs, bound, certified, outcome, inflight, done>>
  /\ UNCHANGED <<handlerVars, leaseVars, worldVars, effectVars>>

-----------------------------------------------------------------------------
(***************************************************************************)
(* The Update handlers.                                                    *)
(***************************************************************************)
Become(c, status) == command' = [command EXCEPT ![c] = status]

\* Control relays a command; the handler starts.  Which answer it gives
\* (applied, rejected, blocked) is left out.
Deliver(c) ==
  /\ pc # "ended" /\ command[c] = "unsent"
  /\ Become(c, "waiting")
  /\ UNCHANGED <<mainVars, held, definition, leaseVars, worldVars, effectVars>>

\* A hold or a change waits for the senders; it applies when none is in
\* flight, and is turned down when the run is over or canceled.
Apply(c, target) ==
  /\ command[c] = "waiting" /\ inflight = 0 /\ ~done
  /\ \/ c[1] = "hold" /\ held' = TRUE /\ UNCHANGED definition
     \/ c[1] = "change_definition" /\ definition' = target /\ UNCHANGED held
  /\ Become(c, "answered")
  /\ UNCHANGED <<mainVars, leaseVars, worldVars, effectVars>>

\* Rejected: the run is over; blocked: it was canceled.
TurnDown(c) ==
  /\ command[c] = "waiting" /\ c[1] # "resume"
  /\ done \/ (canceled /\ inflight # 0)
  /\ Become(c, "answered")
  /\ UNCHANGED <<mainVars, held, definition, leaseVars, worldVars, effectVars>>

\* A resume is answered at once; it ends a hold unless the run is fenced.
Resume(c) ==
  /\ command[c] = "waiting" /\ c[1] = "resume"
  /\ held' = (held /\ fenced)
  /\ Become(c, "answered")
  /\ UNCHANGED <<mainVars, definition, leaseVars, worldVars, effectVars>>

Handle(c) ==
  (\E target \in Definitions : Apply(c, target)) \/ TurnDown(c) \/ Resume(c)

-----------------------------------------------------------------------------
(***************************************************************************)
(* The lease supervisor, the user and the upstream.                        *)
(***************************************************************************)
\* superviseLease fences the run and cancels its work.  It stops with the run's
\* own context and with the end of the run, but a query either of them
\* interrupts fences all the same if the known expiry has passed.
FenceFalls ==
  /\ leased /\ ~fenced
  /\ fenced' = TRUE
  /\ UNCHANGED <<mainVars, handlerVars, leased, worldVars, effectVars>>

Cancel ==
  /\ ~canceled /\ pc # "ended"
  /\ canceled' = TRUE
  /\ UNCHANGED <<mainVars, handlerVars, leaseVars, late, effectVars>>

QueueDeadlinePasses ==
  /\ ~late
  /\ late' = TRUE
  /\ UNCHANGED <<mainVars, handlerVars, leaseVars, canceled, effectVars>>

\* The Activity sends the registration, perhaps after the run gave it up.
Send ==
  /\ asked /\ ~sent
  /\ sent' = TRUE
  /\ UNCHANGED <<mainVars, handlerVars, leaseVars, worldVars, asked, upstream>>

TakeEffect ==
  /\ sent /\ upstream = "none"
  /\ upstream' \in {"succeeded", "failed"}
  /\ UNCHANGED <<mainVars, handlerVars, leaseVars, worldVars, asked, sent>>

StepAction ==
  \/ StepOpened \/ LaunchPrepared \/ StepFails \/ StepClosed \/ OpenFails
  \/ \E verdict \in {"certified", "repairable", "invalid"} : StageAccepted(verdict)

MainStep ==
  \/ ReadFails \/ (\E lost \in BOOLEAN : Read(lost))
  \/ HoldEnds \/ PermitAnswered \/ BootstrapEnds
  \/ StepAction
  \/ CandidateOpened
  \/ (\E a \in {"unknown", "error", "denied", "succeeded", "failed"} :
        RegistrationAnswered(a))
  \/ RegistrationClosed \/ Settled \/ HandlersFinished

Next ==
  \/ MainStep
  \/ \E c \in Commands : Deliver(c) \/ Handle(c)
  \/ FenceFalls \/ Cancel \/ QueueDeadlinePasses
  \/ Send \/ TakeEffect

Spec == Init /\ [][Next]_vars

\* Temporal runs the main coroutine on, and a waiting handler once its
\* condition stays true.  (It is evaluated whenever a coroutine blocks, so
\* also when it is only true in passing; that is not needed here.)
FairSpec ==
  /\ Spec /\ WF_vars(MainStep) /\ WF_vars(QueueDeadlinePasses)
  /\ \A c \in Commands : WF_vars(Handle(c))

-----------------------------------------------------------------------------
(***************************************************************************)
(* Properties                                                              *)
(***************************************************************************)
Working == {"prepare", "running", "closing", "register"}

\* A hold or a change of the definition is applied at no moment at which an
\* attempt works, is being cleaned up or closed, or a registration runs
\* ("the hold applies once no sender of this run is in flight").
CommandsWait ==
  [][(held' /\ ~held) \/ definition' # definition => pc \notin Working]_vars

\* While a hold is in force no attempt is opened, whichever way the run
\* reaches the next step: after a failed step, a stage or a repair.
HoldStopsOpens ==
  [][held /\ held' /\ pc' = "open" => pc = "open" /\ step' = step]_vars

\* After the lease fence fell or the run was canceled no launch is prepared,
\* no Job is started and no registration is asked for.
FenceStopsSends ==
  [][WorkCanceled /\ pc' \in {"prepare", "running", "register"} => pc' = pc]_vars

\* The run succeeds only on a registration that happened upstream, asked for
\* after a certified codegen stage and its independent certification.
SuccessIsRegistered ==
  /\ outcome = "succeeded" => upstream = "succeeded"
  /\ asked => certified /\ stage = "certified"

\* Every accepted Update is answered, whatever the run is doing.
CommandsAnswered ==
  \A c \in Commands : command[c] = "waiting" ~> command[c] # "waiting"

\* The run ends unless a hold that nobody resumes keeps it.
RunEnds == <>(pc = "ended") \/ <>[](pc = "held")

\* generation.go:670-671, "a hold or a definition change applies only when
\* nothing of the step can still act": no step works under a hold.
HoldIsQuiescent == held => pc \notin Working

-----------------------------------------------------------------------------
(***************************************************************************)
(* The inductive invariant behind the safety properties.                   *)
(***************************************************************************)
\* The flight counts exactly the sender that works.
FlightInv == inflight = IF pc \in Working THEN 1 ELSE 0

Over == {"settle", "handlers", "ended"}

\* A validation follows a certified codegen stage; a registration follows
\* the certification of both and is asked for once, at the end.
CertifiedInv ==
  /\ step = "validate" => certified
  /\ step = "candidate" /\ pc \in {"held", "open", "register", "regclose"}
       => certified /\ stage = "certified"
  /\ pc \in {"register", "regclose"} => step = "candidate"
  /\ asked => /\ certified /\ stage = "certified"
              /\ pc \in {"register", "regclose"} \cup Over

GInv == TypeOK /\ FlightInv /\ CertifiedInv /\ SuccessIsRegistered
=============================================================================
