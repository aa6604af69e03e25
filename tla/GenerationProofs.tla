--------------------------- MODULE GenerationProofs ---------------------------
(***************************************************************************)
(* What holds of a Generation for all definitions, repair bounds and       *)
(* Updates: GInv is inductive (one lemma per action), so success is a      *)
(* registration and commands wait for the senders; what a hold and a fence *)
(* stop follows from the actions themselves.                               *)
(***************************************************************************)
EXTENDS Generation, TLAPS

\* The bounds are numbers, and every definition has one.
LEMMA BoundsOfDefinitions ==
  /\ RepairBounds \subseteq Nat
  /\ \A d \in Definitions : RepairBound[d] \in RepairBounds
  BY DefinitionsAssumption DEF RepairBounds

USE BoundsOfDefinitions, DefinitionsAssumption

\* A read that fails ends the run.
LEMMA ReadFailsKeeps ==
  ASSUME GInv, ReadFails
  PROVE  GInv'
  <1> USE DEF GInv, ReadFails, End, ErrorOutcome, mainVars, handlerVars,
     leaseVars, worldVars, effectVars
  <1>1. TypeOK'
    <2>1. FlagsOK'
      BY DEF TypeOK, FlagsOK
    <2> QED
      BY <2>1 DEF TypeOK, PCs, Steps, FlightInv, Working
  <1>2. FlightInv'
    BY DEF TypeOK, FlightInv, Working
  <1>3. CertifiedInv'
    BY DEF TypeOK, FlagsOK, CertifiedInv, SuccessIsRegistered, Over
  <1>4. SuccessIsRegistered'
    BY DEF TypeOK, FlagsOK, CertifiedInv, SuccessIsRegistered, Over
  <1> QED
    BY <1>1, <1>2, <1>3, <1>4

\* What was read starts the run or ends it.
LEMMA ReadKeeps ==
  ASSUME GInv, NEW lost \in BOOLEAN, Read(lost)
  PROVE  GInv'
  <1> USE DEF GInv, Read, Proceed, Enter, End, ErrorOutcome, mainVars,
     handlerVars, leaseVars, worldVars, effectVars
  <1>1. TypeOK'
    <2>1. FlagsOK'
      BY DEF TypeOK, FlagsOK
    <2> QED
      BY <2>1 DEF TypeOK, PCs, Steps, FlightInv, Working
  <1>2. FlightInv'
    BY DEF TypeOK, FlightInv, Working
  <1>3. CertifiedInv'
    BY DEF TypeOK, FlagsOK, CertifiedInv, SuccessIsRegistered, Over
  <1>4. SuccessIsRegistered'
    BY DEF TypeOK, FlagsOK, CertifiedInv, SuccessIsRegistered, Over
  <1> QED
    BY <1>1, <1>2, <1>3, <1>4

\* A hold that ends lets the step it stopped start.
LEMMA HoldEndsKeeps ==
  ASSUME GInv, HoldEnds
  PROVE  GInv'
  <1> USE DEF GInv, HoldEnds, Proceed, Enter, End, ErrorOutcome, mainVars,
     handlerVars, leaseVars, worldVars, effectVars
  <1>1. TypeOK'
    <2>1. FlagsOK'
      BY DEF TypeOK, FlagsOK
    <2> QED
      BY <2>1 DEF TypeOK, PCs, Steps, FlightInv, Working
  <1>2. FlightInv'
    BY DEF TypeOK, FlightInv, Working
  <1>3. CertifiedInv'
    BY DEF TypeOK, FlagsOK, CertifiedInv, SuccessIsRegistered, Over
  <1>4. SuccessIsRegistered'
    BY DEF TypeOK, FlagsOK, CertifiedInv, SuccessIsRegistered, Over
  <1> QED
    BY <1>1, <1>2, <1>3, <1>4

\* An answered permit.
LEMMA PermitAnsweredKeeps ==
  ASSUME GInv, PermitAnswered
  PROVE  GInv'
  <1> USE DEF GInv, PermitAnswered, Proceed, Enter, End, ErrorOutcome,
     mainVars, handlerVars, leaseVars, worldVars, effectVars
  <1>1. TypeOK'
    <2>1. FlagsOK'
      BY DEF TypeOK, FlagsOK
    <2> QED
      BY <2>1 DEF TypeOK, PCs, Steps, FlightInv, Working
  <1>2. FlightInv'
    BY DEF TypeOK, FlightInv, Working
  <1>3. CertifiedInv'
    BY DEF TypeOK, FlagsOK, CertifiedInv, SuccessIsRegistered, Over
  <1>4. SuccessIsRegistered'
    BY DEF TypeOK, FlagsOK, CertifiedInv, SuccessIsRegistered, Over
  <1> QED
    BY <1>1, <1>2, <1>3, <1>4

\* The bootstrap leads to codegen or to the end.
LEMMA BootstrapEndsKeeps ==
  ASSUME GInv, BootstrapEnds
  PROVE  GInv'
  <1> USE DEF GInv, BootstrapEnds, Proceed, Enter, End, ErrorOutcome, mainVars,
     handlerVars, leaseVars, worldVars, effectVars
  <1>1. TypeOK'
    <2>1. FlagsOK'
      BY DEF TypeOK, FlagsOK
    <2> QED
      BY <2>1 DEF TypeOK, PCs, Steps, FlightInv, Working
  <1>2. FlightInv'
    BY DEF TypeOK, FlightInv, Working
  <1>3. CertifiedInv'
    BY DEF TypeOK, FlagsOK, CertifiedInv, SuccessIsRegistered, Over
  <1>4. SuccessIsRegistered'
    BY DEF TypeOK, FlagsOK, CertifiedInv, SuccessIsRegistered, Over
  <1> QED
    BY <1>1, <1>2, <1>3, <1>4

\* The opened step enters the flight.
LEMMA StepOpenedKeeps ==
  ASSUME GInv, StepOpened
  PROVE  GInv'
  <1> USE DEF GInv, StepOpened, mainVars, handlerVars, leaseVars, worldVars,
     effectVars
  <1>1. TypeOK'
    <2>1. FlagsOK'
      BY DEF TypeOK, FlagsOK
    <2> QED
      BY <2>1 DEF TypeOK, PCs, Steps, FlightInv, Working
  <1>2. FlightInv'
    BY DEF TypeOK, FlightInv, Working
  <1>3. CertifiedInv'
    BY DEF TypeOK, FlagsOK, CertifiedInv, SuccessIsRegistered, Over
  <1>4. SuccessIsRegistered'
    BY DEF TypeOK, FlagsOK, CertifiedInv, SuccessIsRegistered, Over
  <1> QED
    BY <1>1, <1>2, <1>3, <1>4

\* A prepared launch stays in the flight.
LEMMA LaunchPreparedKeeps ==
  ASSUME GInv, LaunchPrepared
  PROVE  GInv'
  <1> USE DEF GInv, LaunchPrepared, mainVars, handlerVars, leaseVars,
     worldVars, effectVars
  <1>1. TypeOK'
    <2>1. FlagsOK'
      BY DEF TypeOK, FlagsOK
    <2> QED
      BY <2>1 DEF TypeOK, PCs, Steps, FlightInv, Working
  <1>2. FlightInv'
    BY DEF TypeOK, FlightInv, Working
  <1>3. CertifiedInv'
    BY DEF TypeOK, FlagsOK, CertifiedInv, SuccessIsRegistered, Over
  <1>4. SuccessIsRegistered'
    BY DEF TypeOK, FlagsOK, CertifiedInv, SuccessIsRegistered, Over
  <1> QED
    BY <1>1, <1>2, <1>3, <1>4

\* An accepted stage stays in the flight until it is closed.
LEMMA StageAcceptedKeeps ==
  ASSUME GInv, NEW verdict \in {"certified", "repairable", "invalid"}, StageAccepted(verdict)
  PROVE  GInv'
  <1> USE DEF GInv, StageAccepted, mainVars, handlerVars, leaseVars, worldVars,
     effectVars
  <1>1. TypeOK'
    <2>1. FlagsOK'
      BY DEF TypeOK, FlagsOK
    <2> QED
      BY <2>1 DEF TypeOK, PCs, Steps, FlightInv, Working
  <1>2. FlightInv'
    BY DEF TypeOK, FlightInv, Working
  <1>3. CertifiedInv'
    BY DEF TypeOK, FlagsOK, CertifiedInv, SuccessIsRegistered, Over
  <1>4. SuccessIsRegistered'
    BY DEF TypeOK, FlagsOK, CertifiedInv, SuccessIsRegistered, Over
  <1> QED
    BY <1>1, <1>2, <1>3, <1>4

\* A step that fails stays in the flight until it is closed.
LEMMA StepFailsKeeps ==
  ASSUME GInv, StepFails
  PROVE  GInv'
  <1> USE DEF GInv, StepFails, mainVars, handlerVars, leaseVars, worldVars,
     effectVars
  <1>1. TypeOK'
    <2>1. FlagsOK'
      BY DEF TypeOK, FlagsOK
    <2> QED
      BY <2>1 DEF TypeOK, PCs, Steps, FlightInv, Working
  <1>2. FlightInv'
    BY DEF TypeOK, FlightInv, Working
  <1>3. CertifiedInv'
    BY DEF TypeOK, FlagsOK, CertifiedInv, SuccessIsRegistered, Over
  <1>4. SuccessIsRegistered'
    BY DEF TypeOK, FlagsOK, CertifiedInv, SuccessIsRegistered, Over
  <1> QED
    BY <1>1, <1>2, <1>3, <1>4

\* The closed step leaves the flight and decides what follows.
LEMMA StepClosedKeeps ==
  ASSUME GInv, StepClosed
  PROVE  GInv'
  <1> USE DEF GInv, StepClosed, Proceed, Enter, End, ErrorOutcome,
     WithoutStage, CodegenJudged, ValidationJudged, mainVars, handlerVars,
     leaseVars, worldVars, effectVars
  <1>1. TypeOK'
    <2>1. FlagsOK'
      BY DEF TypeOK, FlagsOK
    <2> QED
      BY <2>1 DEF TypeOK, PCs, Steps, FlightInv, Working
  <1>2. FlightInv'
    BY DEF TypeOK, FlightInv, Working
  <1>3. CertifiedInv'
    <2>1. CASE fenced
      BY <2>1 DEF CertifiedInv, Over
    <2>2. CASE ~fenced /\ stage' = "none" /\ WithoutStage
      BY <2>2 DEF CertifiedInv, Over
    <2>3. CASE ~fenced /\ step = "codegen" /\ CodegenJudged
      BY <2>3 DEF CertifiedInv, Over
    <2>4. CASE ~fenced /\ stage' # "none" /\ step = "validate" /\ ValidationJudged
      <3>1. stage' = stage /\ certified /\ ~asked'
        BY <2>4 DEF CertifiedInv, Over
      <3>2. CASE stage = "certified" /\ Proceed("candidate") /\ certified' = certified
        BY <2>4, <3>1, <3>2 DEF CertifiedInv
      <3>3. CASE Proceed("codegen")
        BY <2>4, <3>1, <3>3 DEF CertifiedInv
      <3>4. CASE End("failed") /\ certified' = certified
        BY <2>4, <3>1, <3>4 DEF CertifiedInv
      <3> QED
        BY <2>4, <3>2, <3>3, <3>4
    <2> QED
      BY <2>1, <2>2, <2>3, <2>4
  <1>4. SuccessIsRegistered'
    BY DEF TypeOK, FlagsOK, CertifiedInv, SuccessIsRegistered, Over
  <1> QED
    BY <1>1, <1>2, <1>3, <1>4

\* A step that was not opened was never in the flight.
LEMMA OpenFailsKeeps ==
  ASSUME GInv, OpenFails
  PROVE  GInv'
  <1> USE DEF GInv, OpenFails, Proceed, Enter, End, ErrorOutcome, WithoutStage,
     mainVars, handlerVars, leaseVars, worldVars, effectVars
  <1>1. TypeOK'
    <2>1. FlagsOK'
      BY DEF TypeOK, FlagsOK
    <2> QED
      BY <2>1 DEF TypeOK, PCs, Steps, FlightInv, Working
  <1>2. FlightInv'
    BY DEF TypeOK, FlightInv, Working
  <1>3. CertifiedInv'
    BY DEF TypeOK, FlagsOK, CertifiedInv, SuccessIsRegistered, Over
  <1>4. SuccessIsRegistered'
    BY DEF TypeOK, FlagsOK, CertifiedInv, SuccessIsRegistered, Over
  <1> QED
    BY <1>1, <1>2, <1>3, <1>4

\* A registration is asked for with what was certified.
LEMMA CandidateOpenedKeeps ==
  ASSUME GInv, CandidateOpened
  PROVE  GInv'
  <1> USE DEF GInv, CandidateOpened, mainVars, handlerVars, leaseVars,
     worldVars, effectVars
  <1>1. TypeOK'
    <2>1. FlagsOK'
      BY DEF TypeOK, FlagsOK
    <2> QED
      BY <2>1 DEF TypeOK, PCs, Steps, FlightInv, Working
  <1>2. FlightInv'
    BY DEF TypeOK, FlightInv, Working
  <1>3. CertifiedInv'
    BY DEF TypeOK, FlagsOK, CertifiedInv, SuccessIsRegistered, Over
  <1>4. SuccessIsRegistered'
    BY DEF TypeOK, FlagsOK, CertifiedInv, SuccessIsRegistered, Over
  <1> QED
    BY <1>1, <1>2, <1>3, <1>4

\* An answered registration leaves the flight.
LEMMA RegistrationAnsweredKeeps ==
  ASSUME GInv, NEW answer \in {"unknown", "error", "denied", "succeeded", "failed"}, RegistrationAnswered(answer)
  PROVE  GInv'
  <1> USE DEF GInv, RegistrationAnswered, Answers, OutcomeOf, ErrorOutcome,
     mainVars, handlerVars, leaseVars, worldVars, effectVars
  <1>1. TypeOK'
    <2>1. FlagsOK'
      BY DEF TypeOK, FlagsOK
    <2> QED
      BY <2>1 DEF TypeOK, PCs, Steps, FlightInv, Working
  <1>2. FlightInv'
    BY DEF TypeOK, FlightInv, Working
  <1>3. CertifiedInv'
    BY DEF TypeOK, FlagsOK, CertifiedInv, SuccessIsRegistered, Over
  <1>4. SuccessIsRegistered'
    BY DEF TypeOK, FlagsOK, CertifiedInv, SuccessIsRegistered, Over
  <1> QED
    BY <1>1, <1>2, <1>3, <1>4

\* The closed registration ends the run.
LEMMA RegistrationClosedKeeps ==
  ASSUME GInv, RegistrationClosed
  PROVE  GInv'
  <1> USE DEF GInv, RegistrationClosed, mainVars, handlerVars, leaseVars,
     worldVars, effectVars
  <1>1. TypeOK'
    <2>1. FlagsOK'
      BY DEF TypeOK, FlagsOK
    <2> QED
      BY <2>1 DEF TypeOK, PCs, Steps, FlightInv, Working
  <1>2. FlightInv'
    BY DEF TypeOK, FlightInv, Working
  <1>3. CertifiedInv'
    BY DEF TypeOK, FlagsOK, CertifiedInv, SuccessIsRegistered, Over
  <1>4. SuccessIsRegistered'
    BY DEF TypeOK, FlagsOK, CertifiedInv, SuccessIsRegistered, Over
  <1> QED
    BY <1>1, <1>2, <1>3, <1>4

\* The settlement moves nothing but the run.
LEMMA SettledKeeps ==
  ASSUME GInv, Settled
  PROVE  GInv'
  <1> USE DEF GInv, Settled, mainVars, handlerVars, leaseVars, worldVars,
     effectVars
  <1>1. TypeOK'
    <2>1. FlagsOK'
      BY DEF TypeOK, FlagsOK
    <2> QED
      BY <2>1 DEF TypeOK, PCs, Steps, FlightInv, Working
  <1>2. FlightInv'
    BY DEF TypeOK, FlightInv, Working
  <1>3. CertifiedInv'
    BY DEF TypeOK, FlagsOK, CertifiedInv, SuccessIsRegistered, Over
  <1>4. SuccessIsRegistered'
    BY DEF TypeOK, FlagsOK, CertifiedInv, SuccessIsRegistered, Over
  <1> QED
    BY <1>1, <1>2, <1>3, <1>4

\* The end of the handlers moves nothing but the run.
LEMMA HandlersFinishedKeeps ==
  ASSUME GInv, HandlersFinished
  PROVE  GInv'
  <1> USE DEF GInv, HandlersFinished, mainVars, handlerVars, leaseVars,
     worldVars, effectVars
  <1>1. TypeOK'
    <2>1. FlagsOK'
      BY DEF TypeOK, FlagsOK
    <2> QED
      BY <2>1 DEF TypeOK, PCs, Steps, FlightInv, Working
  <1>2. FlightInv'
    BY DEF TypeOK, FlightInv, Working
  <1>3. CertifiedInv'
    BY DEF TypeOK, FlagsOK, CertifiedInv, SuccessIsRegistered, Over
  <1>4. SuccessIsRegistered'
    BY DEF TypeOK, FlagsOK, CertifiedInv, SuccessIsRegistered, Over
  <1> QED
    BY <1>1, <1>2, <1>3, <1>4

\* The handlers read the flight and do not touch the run.
LEMMA HandlerKeeps ==
  ASSUME GInv, NEW c \in Commands, Deliver(c) \/ Handle(c)
  PROVE  GInv'
  <1> USE DEF GInv, Deliver, Handle, Apply, TurnDown, Resume, Become, mainVars,
     leaseVars, worldVars, effectVars
  <1>1. TypeOK'
    <2>1. FlagsOK'
      <3>1. CASE Deliver(c)
        BY <3>1 DEF TypeOK, FlagsOK
      <3>2. ASSUME NEW target \in Definitions, Apply(c, target)
            PROVE  FlagsOK'
        BY <3>2 DEF TypeOK, FlagsOK
      <3>3. CASE TurnDown(c)
        BY <3>3 DEF TypeOK, FlagsOK
      <3>4. CASE Resume(c)
        BY <3>4 DEF TypeOK, FlagsOK
      <3> QED
        BY <3>1, <3>2, <3>3, <3>4 DEF Handle
    <2> QED
      BY <2>1 DEF TypeOK, PCs, Steps, FlightInv, Working
  <1>2. FlightInv'
    BY DEF TypeOK, FlightInv, Working
  <1>3. CertifiedInv'
    BY DEF TypeOK, FlagsOK, CertifiedInv, SuccessIsRegistered, Over
  <1>4. SuccessIsRegistered'
    BY DEF TypeOK, FlagsOK, CertifiedInv, SuccessIsRegistered, Over
  <1> QED
    BY <1>1, <1>2, <1>3, <1>4

\* The supervisor, the user, the clock and the upstream do not, either.
LEMMA WorldKeeps ==
  ASSUME GInv,
         FenceFalls \/ Cancel \/ QueueDeadlinePasses \/ Send \/ TakeEffect
  PROVE  GInv'
  <1> USE DEF GInv, FenceFalls, Cancel, QueueDeadlinePasses, Send, TakeEffect,
     mainVars, handlerVars, leaseVars, worldVars, effectVars
  <1>1. TypeOK'
    <2>1. FlagsOK'
      BY DEF TypeOK, FlagsOK
    <2> QED
      BY <2>1 DEF TypeOK, PCs, Steps, FlightInv, Working
  <1>2. FlightInv'
    BY DEF TypeOK, FlightInv, Working
  <1>3. CertifiedInv'
    BY DEF TypeOK, FlagsOK, CertifiedInv, SuccessIsRegistered, Over
  <1>4. SuccessIsRegistered'
    BY DEF TypeOK, FlagsOK, CertifiedInv, SuccessIsRegistered, Over
  <1> QED
    BY <1>1, <1>2, <1>3, <1>4

LEMMA StutterKeeps ==
  ASSUME GInv, UNCHANGED vars
  PROVE  GInv'
  <1> USE DEF GInv, vars, mainVars, handlerVars, leaseVars, worldVars,
     effectVars
  <1>1. TypeOK'
    <2>1. FlagsOK'
      BY DEF TypeOK, FlagsOK
    <2> QED
      BY <2>1 DEF TypeOK, PCs, Steps, FlightInv, Working
  <1>2. FlightInv'
    BY DEF TypeOK, FlightInv, Working
  <1>3. CertifiedInv'
    BY DEF TypeOK, FlagsOK, CertifiedInv, SuccessIsRegistered, Over
  <1>4. SuccessIsRegistered'
    BY DEF TypeOK, FlagsOK, CertifiedInv, SuccessIsRegistered, Over
  <1> QED
    BY <1>1, <1>2, <1>3, <1>4

\* Every step keeps the invariant.
LEMMA NextKeeps ==
  ASSUME GInv, [Next]_vars
  PROVE  GInv'
  <1>1. CASE MainStep
    <2>1. CASE StepAction
      BY <2>1, StepOpenedKeeps, LaunchPreparedKeeps, StepFailsKeeps,
         StepClosedKeeps, OpenFailsKeeps, StageAcceptedKeeps DEF StepAction
    <2> QED
      BY <1>1, <2>1, ReadFailsKeeps, ReadKeeps, HoldEndsKeeps,
         PermitAnsweredKeeps, BootstrapEndsKeeps, CandidateOpenedKeeps,
         RegistrationAnsweredKeeps, RegistrationClosedKeeps, SettledKeeps,
         HandlersFinishedKeeps DEF MainStep
  <1>2. ASSUME NEW c \in Commands, Deliver(c) \/ Handle(c) PROVE GInv'
    BY <1>2, HandlerKeeps
  <1>3. CASE FenceFalls \/ Cancel \/ QueueDeadlinePasses \/ Send \/ TakeEffect
    BY <1>3, WorldKeeps
  <1>4. CASE UNCHANGED vars
    BY <1>4, StutterKeeps
  <1> QED
    BY <1>1, <1>2, <1>3, <1>4 DEF Next

\* Nothing works and nothing is asked for at the start.
LEMMA InitGInv == Init => GInv
  <1> USE DEF Init
  <1>1. Init => FlagsOK
    BY DEF FlagsOK
  <1>2. Init => repairs \in Nat /\ \E b \in RepairBounds : repairs <= b
    OBVIOUS
  <1>3. Init => TypeOK
    BY <1>1, <1>2 DEF TypeOK, PCs, Steps
  <1>4. Init => FlightInv /\ CertifiedInv /\ SuccessIsRegistered
    BY DEF FlightInv, CertifiedInv, SuccessIsRegistered, Working, Over
  <1> QED
    BY <1>3, <1>4 DEF GInv

-----------------------------------------------------------------------------
\* The inductive invariant holds in every state of a Generation, for any
\* definitions and any number of Updates.
THEOREM Invariance == Spec => []GInv
  <1>1. Init => GInv
    BY InitGInv
  <1>2. GInv /\ [Next]_vars => GInv'
    BY NextKeeps
  <1> QED
    BY <1>1, <1>2, PTL DEF Spec

\* Every variable keeps its type; the repair rounds stay within a bound and
\* the flight is never more than one.
THEOREM TypeCorrect == Spec => []TypeOK
  <1>1. GInv => TypeOK
    BY DEF GInv
  <1> QED
    BY <1>1, Invariance, PTL

\* A succeeded run registered its candidate upstream, after a codegen stage
\* and an independent validation that were both certified.
THEOREM SuccessRegistered == Spec => []SuccessIsRegistered
  <1>1. GInv => SuccessIsRegistered
    BY DEF GInv
  <1> QED
    BY <1>1, Invariance, PTL

\* A hold or a change of the definition is applied only while no attempt
\* works and no registration runs.
THEOREM Waits == Spec => CommandsWait
  <1>1. ASSUME GInv, [Next]_vars,
               (held' /\ ~held) \/ definition' # definition
        PROVE  pc \notin Working
    <2>1. ASSUME NEW c \in Commands, NEW target \in Definitions, Apply(c, target)
          PROVE  pc \notin Working
      BY <1>1, <2>1 DEF Apply, GInv, FlightInv
    <2>2. ASSUME NEW c \in Commands, Deliver(c) \/ TurnDown(c) \/ Resume(c)
          PROVE  FALSE
      BY <1>1, <2>2 DEF Deliver, TurnDown, Resume, GInv, TypeOK, FlagsOK
    <2>3. CASE MainStep
      BY <1>1, <2>3 DEF MainStep, StepAction, ReadFails, Read, HoldEnds,
         PermitAnswered, BootstrapEnds, StepOpened, LaunchPrepared, StepFails,
         StepClosed, OpenFails, StageAccepted, CandidateOpened,
         RegistrationAnswered, RegistrationClosed, Settled, HandlersFinished,
         handlerVars
    <2>4. CASE \/ FenceFalls \/ Cancel \/ QueueDeadlinePasses \/ Send
               \/ TakeEffect \/ UNCHANGED vars
      BY <1>1, <2>4 DEF FenceFalls, Cancel, QueueDeadlinePasses, Send,
         TakeEffect, vars, handlerVars
    <2> QED
      BY <1>1, <2>1, <2>2, <2>3, <2>4 DEF Next, Handle
  <1> QED
    BY <1>1, Invariance, PTL DEF Spec, CommandsWait

\* The handlers, the supervisor, the user, the clock and the upstream leave
\* the place of the run alone.
LEMMA OthersStay ==
  ASSUME \/ \E c \in Commands : Deliver(c) \/ Handle(c)
         \/ FenceFalls \/ Cancel \/ QueueDeadlinePasses \/ Send \/ TakeEffect
         \/ UNCHANGED vars
  PROVE  UNCHANGED <<pc, step>>
  BY DEF Deliver, Handle, Apply, TurnDown, Resume, FenceFalls, Cancel,
         QueueDeadlinePasses, Send, TakeEffect, vars, mainVars

\* While a hold is in force no step is opened, however it is reached.
THEOREM HoldStops == Spec => HoldStopsOpens
  <1>1. ASSUME [Next]_vars, held, held', pc' = "open"
        PROVE  pc = "open" /\ step' = step
    <2>1. ASSUME NEW next, Proceed(next) PROVE FALSE
      BY <1>1, <2>1 DEF Proceed, End
    <2>2. ASSUME NEW result, End(result) PROVE FALSE
      BY <1>1, <2>2 DEF End
    <2>3. ASSUME ReadFails \/ (\E lost \in BOOLEAN : Read(lost)) PROVE FALSE
      BY <2>1, <2>2, <2>3 DEF ReadFails, Read
    <2>4. ASSUME HoldEnds \/ PermitAnswered \/ BootstrapEnds PROVE FALSE
      BY <1>1, <2>1, <2>2, <2>4 DEF HoldEnds, PermitAnswered, BootstrapEnds
    <2>5. ASSUME StepAction PROVE FALSE
      BY <1>1, <2>1, <2>2, <2>5 DEF StepAction, StepOpened, LaunchPrepared,
         StepFails, StepClosed, OpenFails, StageAccepted, WithoutStage,
         CodegenJudged, ValidationJudged
    <2>6. ASSUME \/ CandidateOpened \/ RegistrationClosed \/ Settled
                 \/ HandlersFinished
                 \/ \E a \in {"unknown", "error", "denied", "succeeded", "failed"} :
                      RegistrationAnswered(a)
          PROVE  FALSE
      BY <1>1, <2>6 DEF CandidateOpened, RegistrationClosed, Settled,
         HandlersFinished, RegistrationAnswered
    <2>7. ~MainStep
      BY <2>3, <2>4, <2>5, <2>6 DEF MainStep
    <2> QED
      BY <1>1, <2>7, OthersStay DEF Next
  <1> QED
    BY <1>1, PTL DEF Spec, HoldStopsOpens

\* After the fence fell or the run was canceled nothing more is sent: no
\* launch is prepared, no Job is started, no registration is asked for.
THEOREM FenceStops == Spec => FenceStopsSends
  <1>1. ASSUME [Next]_vars, WorkCanceled, pc' \in {"prepare", "running", "register"}
        PROVE  pc' = pc
    <2>1. ASSUME NEW next, Proceed(next) PROVE FALSE
      BY <1>1, <2>1 DEF Proceed, Enter, End
    <2>2. ASSUME NEW result, End(result) PROVE FALSE
      BY <1>1, <2>2 DEF End
    <2>3. ASSUME ReadFails \/ (\E lost \in BOOLEAN : Read(lost)) PROVE FALSE
      <3>1. CASE ReadFails
        BY <2>2, <3>1 DEF ReadFails
      <3>2. ASSUME NEW lost \in BOOLEAN, Read(lost) PROVE FALSE
        BY <2>1, <2>2, <3>2 DEF Read
      <3> QED
        BY <2>3, <3>1, <3>2
    <2>4. ASSUME HoldEnds \/ PermitAnswered \/ BootstrapEnds PROVE FALSE
      BY <1>1, <2>1, <2>2, <2>4 DEF HoldEnds, PermitAnswered, BootstrapEnds
    <2>5. ASSUME StepAction PROVE FALSE
      BY <1>1, <2>1, <2>2, <2>5 DEF StepAction, StepOpened, LaunchPrepared,
         StepFails, StepClosed, OpenFails, StageAccepted, WithoutStage,
         CodegenJudged, ValidationJudged
    <2>6. ASSUME \/ CandidateOpened \/ RegistrationClosed \/ Settled
                 \/ HandlersFinished
                 \/ \E a \in {"unknown", "error", "denied", "succeeded", "failed"} :
                      RegistrationAnswered(a)
          PROVE  FALSE
      BY <1>1, <2>6 DEF CandidateOpened, RegistrationClosed, Settled,
         HandlersFinished, RegistrationAnswered, WorkCanceled
    <2>7. ~MainStep
      BY <2>3, <2>4, <2>5, <2>6 DEF MainStep
    <2> QED
      BY <1>1, <2>7, OthersStay DEF Next
  <1> QED
    BY <1>1, PTL DEF Spec, FenceStopsSends

=============================================================================
