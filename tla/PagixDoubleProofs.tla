-------------------------- MODULE PagixDoubleProofs --------------------------
(***************************************************************************)
(* What holds against the Pagix double, for all values of the constants.   *)
(*                                                                         *)
(* 1. A guarded mutation (EffectPermit): EInv is inductive (one lemma per  *)
(*    action), so the mutation is sent once and what Control and the       *)
(*    Workflow learn of it is true, and it implements Effect.              *)
(* 2. What a release leaves at its destinations (Publication, names with   *)
(*    Pub): every step of it is a step of EffectPermit, so EInv holds of   *)
(*    it, and PubInv is inductive beside it.                               *)
(* 3. The source lease (Lease, names with Lease): LInv is inductive.  The  *)
(*    port is first shown to keep what was ever granted and never to       *)
(*    answer what it does not grant; what the run believes is kept from    *)
(*    that, however late it acts on it.                                    *)
(***************************************************************************)
EXTENDS Publication, Lease, TLAPS

-----------------------------------------------------------------------------
(***************************************************************************)
(* 1. Guarded mutations.                                                   *)
(***************************************************************************)
USE MaxAttemptsAssumption DEF Activities, Attempts, Settled

\* A new execution has asked for nothing yet.
LEMMA StartAttemptKeeps ==
  ASSUME EInv, StartAttempt, UNCHANGED activity
  PROVE  EInv'
  BY DEF EInv, TypeOK, SentOnce, RecordedIsTrue, OneOutcomePerSource,
         AnswerIsRecorded, PermitInv, UpstreamInv, EvidenceInv, Sender,
         StartAttempt, Become, controlVars, upstreamVars, callVars

\* Giving up says nothing about the mutation.
LEMMA GiveUpKeeps ==
  ASSUME EInv, GiveUp, UNCHANGED activity
  PROVE  EInv'
  BY DEF EInv, TypeOK, SentOnce, RecordedIsTrue, OneOutcomePerSource,
         AnswerIsRecorded, PermitInv, UpstreamInv, EvidenceInv, Sender,
         GiveUp, controlVars, upstreamVars, callVars

\* The upstream decides once what it did with the mutation.
LEMMA HandleKeeps ==
  ASSUME EInv, Handle, UNCHANGED activity
  PROVE  EInv'
  BY DEF EInv, TypeOK, SentOnce, RecordedIsTrue, OneOutcomePerSource,
         AnswerIsRecorded, PermitInv, UpstreamInv, EvidenceInv, Sender,
         Handle, callVars, controlVars, upstreamVars

\* A lost send did nothing.
LEMMA SendLostKeeps ==
  ASSUME EInv, SendLost, UNCHANGED activity
  PROVE  EInv'
  BY DEF EInv, TypeOK, SentOnce, RecordedIsTrue, OneOutcomePerSource,
         AnswerIsRecorded, PermitInv, UpstreamInv, EvidenceInv, Sender,
         SendLost, callVars, controlVars, upstreamVars

\* The first prepare makes its caller the one sender.
LEMMA PermitKeeps ==
  ASSUME EInv, NEW a \in Attempts, Permit(a), UNCHANGED activity
  PROVE  EInv'
  <1> USE DEF EInv, TypeOK, Permit, Become, upstreamVars, callVars,
      controlVars
  <1>1. TypeOK' /\ SentOnce' /\ UpstreamInv'
    BY DEF SentOnce, UpstreamInv
  <1>2. RecordedIsTrue'
    BY DEF RecordedIsTrue, EvidenceInv
  <1>3. OneOutcomePerSource'
    BY DEF OneOutcomePerSource, PermitInv, EvidenceInv, Sender
  <1>4. AnswerIsRecorded'
    BY DEF AnswerIsRecorded, RecordedIsTrue, EvidenceInv
  <1>5. PermitInv'
    <2>1. \A b \in Attempts : ~Sender(b)
      BY DEF PermitInv, Sender
    <2>2. \A b \in Attempts : Sender(b)' => b = a
      BY <2>1 DEF Sender
    <2>3. observed = {}
      BY DEF PermitInv
    <2> QED
      BY <2>2, <2>3 DEF PermitInv, Sender
  <1>6. EvidenceInv'
    BY DEF EvidenceInv, PermitInv, Sender, RecordedIsTrue
  <1>7. result' = "denied" => effect' = "denied"
    BY DEF PermitInv, Sender
  <1> QED
    BY <1>1, <1>2, <1>3, <1>4, <1>5, <1>6, <1>7 DEF EInv

\* A denied effect has no sender and gets none.
LEMMA DenyKeeps ==
  ASSUME EInv, NEW a \in Attempts, Deny(a), UNCHANGED activity
  PROVE  EInv'
  BY DEF EInv, TypeOK, SentOnce, RecordedIsTrue, OneOutcomePerSource,
         AnswerIsRecorded, PermitInv, UpstreamInv, EvidenceInv, Sender, Deny,
         Return, upstreamVars, callVars, controlVars, Become

\* A permit whose answer was lost is nobody's.
LEMMA PermitLostKeeps ==
  ASSUME EInv, NEW a \in Attempts, PermitLost(a), UNCHANGED activity
  PROVE  EInv'
  BY DEF EInv, TypeOK, SentOnce, RecordedIsTrue, OneOutcomePerSource,
         AnswerIsRecorded, PermitInv, UpstreamInv, EvidenceInv, Sender,
         PermitLost, Fail, upstreamVars, callVars, controlVars, Become

\* A later prepare only learns the recorded state.
LEMMA ConsumedKeeps ==
  ASSUME EInv, NEW a \in Attempts, Consumed(a), UNCHANGED activity
  PROVE  EInv'
  <1> USE DEF EInv, TypeOK, Consumed, Become, Return, controlVars,
      upstreamVars, callVars
  <1>1. TypeOK' /\ SentOnce' /\ UpstreamInv'
    BY DEF SentOnce, UpstreamInv
  <1>2. RecordedIsTrue'
    BY DEF RecordedIsTrue, EvidenceInv
  <1>3. OneOutcomePerSource'
    BY DEF OneOutcomePerSource, PermitInv, EvidenceInv, Sender
  <1>4. AnswerIsRecorded'
    BY DEF AnswerIsRecorded, RecordedIsTrue, EvidenceInv
  <1>5. PermitInv'
    BY DEF PermitInv, Sender
  <1>6. EvidenceInv'
    BY DEF EvidenceInv, PermitInv, Sender, RecordedIsTrue
  <1>7. result' = "denied" => effect' = "denied"
    BY DEF PermitInv, Sender
  <1> QED
    BY <1>1, <1>2, <1>3, <1>4, <1>5, <1>6, <1>7 DEF EInv

\* The sender sends once.
LEMMA SendKeeps ==
  ASSUME EInv, NEW a \in Attempts, Send(a), UNCHANGED activity
  PROVE  EInv'
  BY DEF EInv, TypeOK, SentOnce, RecordedIsTrue, OneOutcomePerSource,
         AnswerIsRecorded, PermitInv, UpstreamInv, EvidenceInv, Sender, Send,
         Become, controlVars, callVars, upstreamVars

\* The sender holds the upstream's outcome.
LEMMA AnsweredKeeps ==
  ASSUME EInv, NEW a \in Attempts, Answered(a), UNCHANGED activity
  PROVE  EInv'
  BY DEF EInv, TypeOK, SentOnce, RecordedIsTrue, OneOutcomePerSource,
         AnswerIsRecorded, PermitInv, UpstreamInv, EvidenceInv, Sender,
         Answered, Become, controlVars, upstreamVars, callVars

\* Without an answer the sender holds no outcome.
LEMMA UnansweredKeeps ==
  ASSUME EInv, NEW a \in Attempts, Unanswered(a), UNCHANGED activity
  PROVE  EInv'
  <1> USE DEF EInv, TypeOK, Unanswered, Become, Fail, controlVars,
      upstreamVars, callVars
  <1>1. TypeOK' /\ SentOnce' /\ UpstreamInv'
    BY DEF SentOnce, UpstreamInv
  <1>2. RecordedIsTrue'
    BY DEF RecordedIsTrue, EvidenceInv
  <1>3. OneOutcomePerSource'
    BY DEF OneOutcomePerSource, PermitInv, EvidenceInv, Sender
  <1>4. AnswerIsRecorded'
    BY DEF AnswerIsRecorded, RecordedIsTrue, EvidenceInv
  <1>5. PermitInv'
    BY DEF PermitInv, Sender
  <1>6. EvidenceInv'
    BY DEF EvidenceInv, PermitInv, Sender, RecordedIsTrue
  <1>7. result' = "denied" => effect' = "denied"
    BY DEF PermitInv, Sender
  <1> QED
    BY <1>1, <1>2, <1>3, <1>4, <1>5, <1>6, <1>7 DEF EInv

\* A query answers the upstream's outcome.
LEMMA QueryKnownKeeps ==
  ASSUME EInv, NEW a \in Attempts, QueryKnown(a), UNCHANGED activity
  PROVE  EInv'
  <1> USE DEF EInv, TypeOK, QueryKnown, Become, Return, Verdicts, controlVars,
      upstreamVars, callVars
  <1>1. TypeOK' /\ SentOnce' /\ UpstreamInv'
    BY DEF SentOnce, UpstreamInv
  <1>2. RecordedIsTrue'
    BY DEF RecordedIsTrue, EvidenceInv
  <1>3. OneOutcomePerSource'
    BY DEF OneOutcomePerSource, PermitInv, EvidenceInv, Sender
  <1>4. AnswerIsRecorded'
    BY DEF AnswerIsRecorded, RecordedIsTrue, EvidenceInv
  <1>5. PermitInv'
    BY DEF PermitInv, Sender
  <1>6. EvidenceInv'
    BY DEF EvidenceInv, PermitInv, Sender, RecordedIsTrue
  <1>7. result' = "denied" => effect' = "denied"
    BY DEF PermitInv, Sender
  <1> QED
    BY <1>1, <1>2, <1>3, <1>4, <1>5, <1>6, <1>7 DEF EInv

\* An unknown identity settles nothing.
LEMMA QueryUnknownKeeps ==
  ASSUME EInv, NEW a \in Attempts, QueryUnknown(a), UNCHANGED activity
  PROVE  EInv'
  BY DEF EInv, TypeOK, SentOnce, RecordedIsTrue, OneOutcomePerSource,
         AnswerIsRecorded, PermitInv, UpstreamInv, EvidenceInv, Sender,
         QueryUnknown, Return, controlVars, upstreamVars, callVars, Become

\* What Control records is what the execution holds, and that is the upstream's.
LEMMA ObserveKeeps ==
  ASSUME EInv, NEW a \in Attempts, Observe(a), UNCHANGED activity
  PROVE  EInv'
  <1> USE DEF EInv, TypeOK, Observe, Return, Accept, Verdicts, upstreamVars,
      callVars, controlVars, Become, Source
  <1>1. TypeOK' /\ SentOnce' /\ UpstreamInv'
    BY DEF SentOnce, UpstreamInv, EvidenceInv, PermitInv
  <1>2. RecordedIsTrue'
    BY DEF RecordedIsTrue, EvidenceInv
  <1>3. OneOutcomePerSource'
    BY DEF OneOutcomePerSource, PermitInv, EvidenceInv, Sender
  <1>4. AnswerIsRecorded'
    <2>1. CASE result' = result
      BY <2>1 DEF AnswerIsRecorded
    <2>2. CASE result' # result /\ answer[a] \in Settled
      <3>1. <<Source(a), answer[a]>> \in observed' /\ answer[a] = outcome
        BY <2>2 DEF EvidenceInv
      <3>2. \E o \in observed' : o[2] \in Settled /\ o[2] = outcome'
        BY <2>2, <3>1
      <3> QED
        BY <3>2 DEF AnswerIsRecorded
    <2>3. CASE result' # result /\ answer[a] \notin Settled
      BY <2>3 DEF EvidenceInv, AnswerIsRecorded
    <2> QED
      BY <2>1, <2>2, <2>3
  <1>5. PermitInv'
    BY DEF PermitInv, Sender
  <1>6. EvidenceInv'
    <2>1. observed \subseteq observed' /\ <<Source(a), answer[a]>> \in observed'
      OBVIOUS
    <2>2. \A b \in Attempts :
            /\ answer'[b] \in Settled => answer'[b] = outcome'
            /\ at'[b] = "observe" => answer'[b] # "none"
            /\ at'[b] = "observe" /\ ~Sender(b)' => answer'[b] = outcome'
      BY DEF EvidenceInv, Sender
    <2>3. \A b \in Attempts :
            seen'[b] \in Settled => \E o \in observed' : o[2] = seen'[b]
      BY <2>1 DEF EvidenceInv
    <2>4. effect' \in Settled => \E o \in observed' : o[2] = effect'
      <3>1. CASE effect' = effect
        BY <2>1, <3>1 DEF EvidenceInv
      <3>2. CASE effect' = answer[a]
        BY <2>1, <3>2
      <3> QED
        BY <3>1, <3>2
    <2>5. \A o \in observed' : o[1] = "workflow-query" => o[2] = outcome'
      BY DEF EvidenceInv, Sender
    <2> QED
      BY <2>2, <2>3, <2>4, <2>5 DEF EvidenceInv
  <1>7. result' = "denied" => effect' = "denied"
    BY DEF PermitInv, Sender
  <1> QED
    BY <1>1, <1>2, <1>3, <1>4, <1>5, <1>6, <1>7 DEF EInv

\* An observation whose answer was lost is recorded like another.
LEMMA ObserveLostKeeps ==
  ASSUME EInv, NEW a \in Attempts, ObserveLost(a), UNCHANGED activity
  PROVE  EInv'
  <1> USE DEF EInv, TypeOK, ObserveLost, Fail, Accept, upstreamVars, callVars,
      controlVars, Become, Source
  <1>1. TypeOK' /\ SentOnce' /\ UpstreamInv'
    BY DEF SentOnce, UpstreamInv, EvidenceInv, PermitInv
  <1>2. RecordedIsTrue'
    BY DEF RecordedIsTrue, EvidenceInv
  <1>3. OneOutcomePerSource'
    BY DEF OneOutcomePerSource, PermitInv, EvidenceInv, Sender
  <1>4. AnswerIsRecorded'
    BY DEF AnswerIsRecorded, RecordedIsTrue, EvidenceInv
  <1>5. PermitInv'
    BY DEF PermitInv, Sender
  <1>6. EvidenceInv'
    <2>1. observed \subseteq observed' /\ <<Source(a), answer[a]>> \in observed'
      OBVIOUS
    <2>2. \A b \in Attempts :
            /\ answer'[b] \in Settled => answer'[b] = outcome'
            /\ at'[b] = "observe" => answer'[b] # "none"
            /\ at'[b] = "observe" /\ ~Sender(b)' => answer'[b] = outcome'
      BY DEF EvidenceInv, Sender
    <2>3. \A b \in Attempts :
            seen'[b] \in Settled => \E o \in observed' : o[2] = seen'[b]
      BY <2>1 DEF EvidenceInv
    <2>4. effect' \in Settled => \E o \in observed' : o[2] = effect'
      <3>1. CASE effect' = effect
        BY <2>1, <3>1 DEF EvidenceInv
      <3>2. CASE effect' = answer[a]
        BY <2>1, <3>2
      <3> QED
        BY <3>1, <3>2
    <2>5. \A o \in observed' : o[1] = "workflow-query" => o[2] = outcome'
      BY DEF EvidenceInv, Sender
    <2> QED
      BY <2>2, <2>3, <2>4, <2>5 DEF EvidenceInv
  <1>7. result' = "denied" => effect' = "denied"
    BY DEF PermitInv, Sender
  <1> QED
    BY <1>1, <1>2, <1>3, <1>4, <1>5, <1>6, <1>7 DEF EInv

\* A failed call records nothing.
LEMMA CallFailsKeeps ==
  ASSUME EInv, NEW a \in Attempts, CallFails(a), UNCHANGED activity
  PROVE  EInv'
  BY DEF EInv, TypeOK, SentOnce, RecordedIsTrue, OneOutcomePerSource,
         AnswerIsRecorded, PermitInv, UpstreamInv, EvidenceInv, Sender,
         CallFails, Fail, controlVars, upstreamVars, callVars, Become

-----------------------------------------------------------------------------
\* Every step of an execution, of Control and of the upstream preserves the
\* invariant.
LEMMA NextKeeps ==
  ASSUME EInv, [Next]_vars
  PROVE  EInv'
  <1>1. CASE (StartAttempt \/ GiveUp \/ Handle \/ SendLost) /\ UNCHANGED activity
    BY <1>1, StartAttemptKeeps, GiveUpKeeps, HandleKeeps, SendLostKeeps
  <1>2. ASSUME NEW a \in Attempts, AttemptStep(a), UNCHANGED activity
        PROVE  EInv'
    BY <1>2, PermitKeeps, DenyKeeps, PermitLostKeeps, ConsumedKeeps, SendKeeps,
       AnsweredKeeps, UnansweredKeeps, QueryKnownKeeps, QueryUnknownKeeps,
       ObserveKeeps, ObserveLostKeeps, CallFailsKeeps
       DEF AttemptStep
  <1>3. CASE UNCHANGED vars
    BY <1>3 DEF vars, callVars, controlVars, upstreamVars, EInv, TypeOK,
       SentOnce, RecordedIsTrue, OneOutcomePerSource, AnswerIsRecorded,
       PermitInv, UpstreamInv, EvidenceInv, Sender
  <1> QED
    BY <1>1, <1>2, <1>3 DEF Next

\* Nothing is asked, sent or recorded at the start.
LEMMA InitEInv == Init => EInv
  BY DEF Init, EInv, TypeOK, SentOnce, RecordedIsTrue, OneOutcomePerSource,
     AnswerIsRecorded, PermitInv, UpstreamInv, EvidenceInv, Sender

\* The inductive invariant holds in every state.
THEOREM Invariance == Spec => []EInv
  <1>1. Init => EInv
    BY InitEInv
  <1>2. EInv /\ [Next]_vars => EInv'
    BY NextKeeps
  <1> QED
    BY <1>1, <1>2, PTL DEF Spec

\* A mutation is sent at most once under its identity, however often the
\* Activity is retried, replaced or asked again.
THEOREM SendsOnce == Spec => []SentOnce
  <1>1. EInv => SentOnce
    BY DEF EInv
  <1> QED
    BY <1>1, Invariance, PTL

\* No execution ever reports to Control an outcome the upstream did not have,
\* nor two outcomes from one source.
THEOREM RecordsTrue == Spec => [](RecordedIsTrue /\ OneOutcomePerSource)
  <1>1. EInv => RecordedIsTrue /\ OneOutcomePerSource
    BY DEF EInv
  <1> QED
    BY <1>1, Invariance, PTL

\* Every variable of the protocol keeps its type.
THEOREM TypeCorrect == Spec => []TypeOK
  <1>1. EInv => TypeOK
    BY DEF EInv
  <1> QED
    BY <1>1, Invariance, PTL

\* Overlapping executions of one Activity observe an effect under one source:
\* no source ever tells Control two outcomes of it.
THEOREM OneOutcome == Spec => []OneOutcomePerSource
  <1>1. EInv => OneOutcomePerSource
    BY DEF EInv
  <1> QED
    BY <1>1, Invariance, PTL

\* A settled answer of the Activity is backed by Control's record.
THEOREM AnswersRecorded == Spec => []AnswerIsRecorded
  <1>1. EInv => AnswerIsRecorded
    BY DEF EInv
  <1> QED
    BY <1>1, Invariance, PTL

-----------------------------------------------------------------------------
\* An answer the Workflow hears is one Effect allows.
LEMMA ReturnMaps ==
  ASSUME EInv, NEW a \in Attempts, NEW res, Return(a, res),
         res \in Guarded!Answers, UNCHANGED <<sends, outcome>>
  PROVE  [Guarded!Next]_(Guarded!vars)
  <1>1. CASE result' = result
    BY <1>1 DEF Guarded!vars
  <1>2. CASE result' # result
    BY <1>2 DEF Return, Guarded!Next, Guarded!Tell, Guarded!Unsettled,
       Guarded!Answers
  <1> QED
    BY <1>1, <1>2

\* The steps of one execution, seen as steps of the guarded effect.
LEMMA AttemptMaps ==
  ASSUME EInv, NEW a \in Attempts, AttemptStep(a)
  PROVE  [Guarded!Next]_(Guarded!vars)
  <1> USE DEF EInv, TypeOK, upstreamVars, Guarded!Answers
  <1>1. CASE Permit(a) \/ PermitLost(a) \/ Answered(a) \/ Unanswered(a)
             \/ ObserveLost(a) \/ CallFails(a)
    <2>1. UNCHANGED <<sends, outcome, result>>
      BY <1>1 DEF Permit, PermitLost, Answered, Unanswered, ObserveLost,
         CallFails, Fail
    <2> QED
      BY <2>1 DEF Guarded!vars
  <1>2. CASE Deny(a)
    <2>1. Return(a, "denied") /\ UNCHANGED <<sends, outcome>>
      BY <1>2 DEF Deny
    <2>2. sends = 0
      BY <1>2 DEF Deny, PermitInv
    <2> QED
      BY <2>1, <2>2, ReturnMaps
  <1>3. CASE Consumed(a)
    <2>1. UNCHANGED <<sends, outcome>>
      BY <1>3 DEF Consumed
    <2>2. CASE result' = result
      BY <2>1, <2>2 DEF Guarded!vars
    <2>3. CASE effect \in Settled /\ Return(a, effect)
      <3>1. effect = outcome
        BY <2>3 DEF EvidenceInv, RecordedIsTrue
      <3> QED
        BY <2>1, <2>3, <3>1, ReturnMaps
    <2> QED
      BY <1>3, <2>2, <2>3 DEF Consumed
  <1>4. CASE Send(a)
    <2>1. sends = 0 /\ sends' = 1 /\ UNCHANGED <<outcome, result>>
      BY <1>4 DEF Send, PermitInv
    <2>2. result # "denied"
      BY <1>4 DEF Send, PermitInv
    <2> QED
      BY <2>1, <2>2 DEF Guarded!Next, Guarded!Send
  <1>5. CASE QueryKnown(a)
    <2>1. UNCHANGED <<sends, outcome>> /\ outcome # "none"
      BY <1>5 DEF QueryKnown
    <2>2. CASE result' = result
      BY <2>1, <2>2 DEF Guarded!vars
    <2>3. ASSUME NEW v \in Verdicts(outcome), Return(a, v)
          PROVE  [Guarded!Next]_(Guarded!vars)
      BY <2>1, <2>3, ReturnMaps DEF Verdicts
    <2> QED
      BY <1>5, <2>2, <2>3 DEF QueryKnown
  <1>6. CASE QueryUnknown(a)
    <2>1. Return(a, "unknown") /\ UNCHANGED <<sends, outcome>>
      BY <1>6 DEF QueryUnknown
    <2> QED
      BY <2>1, ReturnMaps
  <1>7. CASE Observe(a)
    <2>1. PICK v \in Verdicts(answer[a]) : Return(a, v)
      BY <1>7 DEF Observe
    <2>2. UNCHANGED <<sends, outcome>>
      BY <1>7 DEF Observe
    <2>3. v \in Guarded!Answers
      BY <1>7, <2>1 DEF Observe, Verdicts, EvidenceInv
    <2> QED
      BY <2>1, <2>2, <2>3, ReturnMaps
  <1> QED
    BY <1>1, <1>2, <1>3, <1>4, <1>5, <1>6, <1>7 DEF AttemptStep

\* guarded, RegisterCandidate and SaveSource implement the guarded effect:
\* whatever the Workflow hears of the mutation is what Effect allows it to.
THEOREM Refinement == Spec => IsGuardedEffect
  <1>1. Init => Guarded!Init
    BY DEF Init, Guarded!Init
  <1>2. ASSUME EInv, [Next]_vars PROVE [Guarded!Next]_(Guarded!vars)
    <2>1. CASE StartAttempt \/ SendLost \/ UNCHANGED vars
      BY <2>1 DEF StartAttempt, SendLost, vars, callVars, upstreamVars,
         Guarded!vars
    <2>2. CASE GiveUp
      BY <2>2 DEF GiveUp, upstreamVars, Guarded!Next, Guarded!Tell,
         Guarded!Unsettled, Guarded!Answers
    <2>3. CASE Handle
      <3>1. sends = 1 /\ UNCHANGED <<sends, result>>
        BY <1>2, <2>3 DEF Handle, callVars, EInv, TypeOK, UpstreamInv, SentOnce
      <3>2. CASE outcome = "none"
        BY <2>3, <3>1, <3>2 DEF Handle, Guarded!Next, Guarded!TakeEffect
      <3>3. CASE outcome # "none"
        BY <2>3, <3>1, <3>3 DEF Handle, Guarded!vars
      <3> QED
        BY <3>2, <3>3
    <2>4. ASSUME NEW a \in Attempts, AttemptStep(a)
          PROVE  [Guarded!Next]_(Guarded!vars)
      BY <1>2, <2>4, AttemptMaps
    <2> QED
      BY <1>2, <2>1, <2>2, <2>3, <2>4 DEF Next
  <1> QED
    BY <1>1, <1>2, Invariance, PTL DEF Spec, IsGuardedEffect, Guarded!Spec

-----------------------------------------------------------------------------
(***************************************************************************)
(* 2. Publication.                                                         *)
(***************************************************************************)
USE DEF Mutations, ActivityOf

\* To the permit protocol a call of the double is the upstream that handles
\* the send or loses it, and everything else of the double is no step.
LEMMA PubStepMaps ==
  ASSUME [PubNext]_allVars
  PROVE  [Next]_vars
  <1> USE DEF Next, vars
  <1>1. CASE UNCHANGED allVars
    BY <1>1 DEF allVars
  <1>2. CASE ReadCatalog \/ OtherPublishes \/ OtherActivates
    BY <1>2 DEF ReadCatalog, OtherPublishes, OtherActivates
  <1>3. CASE UNCHANGED activity /\ Call
    BY <1>3 DEF Call, SaveOrRepeat, RegisterReview, RegisterCandidate,
       PublishNpm,
       PublishBrowser, RejectPublication, Activate
  <1>4. CASE UNCHANGED activity /\ Torn
    BY <1>4 DEF Torn, PublishNpmTorn, PublishBrowserTorn, ActivateTorn,
       RegisterCandidateTorn
  <1>5. ASSUME UNCHANGED activity, NEW a \in Attempts, Execute(a)
        PROVE  [Next]_vars
    BY <1>5 DEF Execute
  <1>6. CASE UNCHANGED activity /\ (StartAttempt \/ GiveUp \/ SendLost)
    BY <1>6
  <1> QED
    BY <1>1, <1>2, <1>3, <1>4, <1>5, <1>6 DEF PubNext

\* The mutations against the double are effects under a permit: everything
\* that holds of EffectPermit for any upstream holds of them.
THEOREM PermitImplemented == PubSpec => Spec
  <1>1. PubInit => Init
    BY DEF PubInit
  <1> QED
    BY <1>1, PubStepMaps, PTL DEF PubSpec, Spec

-----------------------------------------------------------------------------
\* An origin may serve the manifest without the files.
LEMMA OriginTypes ==
  /\ Whole \in [files : BOOLEAN, manifest : BOOLEAN] /\ Whole.manifest
  /\ Absent \in [files : BOOLEAN, manifest : BOOLEAN]
  /\ \A b \in BOOLEAN :
       /\ [Whole EXCEPT !.files = b] \in [files : BOOLEAN, manifest : BOOLEAN]
       /\ [Whole EXCEPT !.manifest = b] \in [files : BOOLEAN, manifest : BOOLEAN]
  BY DEF Whole, Absent

\* Where something was placed or answered nothing is on its way any more.
LEMMA OnTheWay ==
  ASSUME EInv, PubInv, flying > 0
  PROVE  /\ outcome = "none" /\ ~Placed
         /\ sends = 1 /\ flying = 1
  BY DEF EInv, TypeOK, SentOnce, UpstreamInv, PubInv, ArrivalInv

\* A catalog grows at its end.
LEMMA OursAppended ==
  ASSUME PubTypeOK, NEW who \in {"ours", "theirs"}, catalog' = Append(catalog, who)
  PROVE  /\ catalog' \in Seq({"ours", "theirs"})
         /\ Ours' = IF who = "ours" THEN Ours \cup {Len(catalog) + 1} ELSE Ours
  <1>1. catalog \in Seq({"ours", "theirs"})
    BY DEF PubTypeOK
  <1>2. /\ catalog' \in Seq({"ours", "theirs"}) /\ Len(catalog') = Len(catalog) + 1
        /\ catalog'[Len(catalog) + 1] = who
        /\ \A n \in 1 .. Len(catalog) : catalog'[n] = catalog[n]
    BY <1>1
  <1> QED
    BY <1>1, <1>2 DEF Ours

\* What Effect says of an answer: a success the Workflow hears happened.
LEMMA HeardSuccess ==
  ASSUME EInv, NEW a \in Attempts, AttemptStep(a), result' # result
  PROVE  /\ UNCHANGED <<sends, outcome>>
         /\ result' = "succeeded" => outcome = "succeeded"
  <1>1. Guarded!Next
    BY AttemptMaps DEF Guarded!vars
  <1>2. ~Guarded!Send /\ ~Guarded!TakeEffect
    BY DEF Guarded!Send, Guarded!TakeEffect
  <1>3. Guarded!Tell
    BY <1>1, <1>2 DEF Guarded!Next
  <1>4. (result' = "succeeded" => outcome = "succeeded")
    BY <1>3 DEF Guarded!Tell, Guarded!Answers
  <1>5. UNCHANGED <<sends, outcome>>
    BY DEF AttemptStep, Permit, Deny, PermitLost, Consumed, Send, Answered,
       Unanswered,
       QueryKnown, QueryUnknown, Observe, ObserveLost, CallFails, Fail, upstreamVars
  <1> QED
    BY <1>4, <1>5

\* An execution moves nothing at a destination.
LEMMA AttemptKeepsPlaces ==
  ASSUME EInv, NEW a \in Attempts, AttemptStep(a)
  PROVE  /\ outcome' = outcome /\ current' = current
         /\ \/ UNCHANGED <<sends, flying>>
            \/ sends = 0 /\ sends' = 1 /\ current # 0
  <1> USE DEF upstreamVars
  <1>1. CASE Send(a)
    BY <1>1 DEF Send, EInv, TypeOK, PermitInv
  <1>2. CASE ~Send(a)
    BY <1>2 DEF AttemptStep, Permit, Deny, PermitLost, Consumed, Answered,
       Unanswered,
       QueryKnown, QueryUnknown, Observe, ObserveLost, CallFails, Fail, Return
  <1> QED
    BY <1>1, <1>2

\* A call of the double: what it answers is what it left at the destination.
LEMMA CallKeeps ==
  ASSUME EInv, PubInv, Call, UNCHANGED activity
  PROVE  PubInv'
  <1>1. /\ flying > 0 /\ flying' = flying - 1
        /\ UNCHANGED <<callVars, controlVars, sends>>
    BY DEF Call, SaveOrRepeat, RegisterReview, RegisterCandidate, PublishNpm,
       PublishBrowser, RejectPublication, Activate, Handle
  <1>2. outcome = "none" /\ ~Placed /\ sends = 1 /\ flying' = 0
    BY <1>1, OnTheWay
  <1>3. Ours = {} /\ registration = "none" /\ result # "succeeded"
    BY <1>2 DEF Placed, PubInv, HeardInv
  <1>4. result \notin {"succeeded", "failed"} \/ mutation # "activation"
    BY <1>2 DEF PubInv, HeardInv
  <1> USE <1>1, <1>2, <1>3, <1>4 DEF PubInv, callVars, contextVars,
     placeVars, pubVars, EInv, TypeOK
  <1>5. CASE SaveOrRepeat
    BY <1>5 DEF SaveOrRepeat, PubTypeOK, ArrivalInv, OutcomeInv, HeardInv,
       OthersInv, Placed, Ours, Handle, EInv, TypeOK
  <1>6. CASE RegisterReview \/ RegisterCandidate
    BY <1>6 DEF RegisterReview, RegisterCandidate, Fresh, PubTypeOK, ArrivalInv,
       OutcomeInv, HeardInv, OthersInv, Placed, Ours
  <1>7. CASE PublishNpm \/ PublishBrowser \/ RejectPublication
    BY <1>7, OriginTypes DEF PublishNpm, PublishBrowser, RejectPublication,
       Fresh, Failed,
       PubTypeOK, ArrivalInv, OutcomeInv, HeardInv, OthersInv, Placed, Ours
  <1>8. CASE Activate
    <2>1. CASE outcome' = "failed" /\ UNCHANGED pubVars
      BY <2>1 DEF PubTypeOK, ArrivalInv, OutcomeInv, HeardInv, OthersInv,
         Placed, Ours
    <2>2. CASE Len(catalog) = read /\ catalog' = Append(catalog, "ours")
      <3>1. /\ catalog' \in Seq({"ours", "theirs"})
            /\ Ours' = {read + 1}
        BY <2>2, OursAppended
      <3>2. /\ mutation = "activation"
            /\ outcome' = "succeeded" /\ receipt' = "right"
            /\ UNCHANGED <<contextVars, registry, origin, registration>>
        BY <1>8, <2>2 DEF Activate, Fresh, Failed
      <3> QED
        BY <3>1, <3>2 DEF PubTypeOK, ArrivalInv, OutcomeInv, HeardInv,
           OthersInv, Placed
    <2> QED
      BY <1>8, <2>1, <2>2 DEF Activate, Failed
  <1> QED
    BY <1>5, <1>6, <1>7, <1>8 DEF Call

\* A call that was cut off left something behind and no answer, and the one
\* send is over.
LEMMA TornKeeps ==
  ASSUME EInv, PubInv, Torn, UNCHANGED activity
  PROVE  PubInv'
  <1>1. /\ flying > 0 /\ flying' = flying - 1
        /\ UNCHANGED <<callVars, controlVars, sends, outcome>>
    BY DEF Torn, PublishNpmTorn, PublishBrowserTorn, ActivateTorn,
       RegisterCandidateTorn,
       SendLost
  <1>2. outcome = "none" /\ ~Placed /\ sends = 1 /\ flying' = 0
    BY <1>1, OnTheWay
  <1>3. Ours = {} /\ registration = "none" /\ result # "succeeded"
    BY <1>2 DEF Placed, PubInv, HeardInv
  <1>4. result \notin {"succeeded", "failed"} \/ mutation # "activation"
    BY <1>2 DEF PubInv, HeardInv
  <1> USE <1>1, <1>2, <1>3, <1>4 DEF PubInv, callVars, contextVars,
     placeVars, pubVars, EInv, TypeOK
  <1>5. CASE PublishNpmTorn \/ RegisterCandidateTorn
    BY <1>5 DEF PublishNpmTorn, RegisterCandidateTorn, Fresh, PubTypeOK,
       ArrivalInv,
       OutcomeInv, HeardInv, OthersInv, Placed, Ours
  <1>6. CASE PublishBrowserTorn
    <2>1. origin' \in [files : BOOLEAN, manifest : BOOLEAN]
      BY <1>6, OriginTypes DEF PublishBrowserTorn
    <2>2. UNCHANGED <<contextVars, registry, catalog, registration, receipt>>
      BY <1>6 DEF PublishBrowserTorn
    <2> QED
      BY <2>1, <2>2 DEF PubTypeOK, ArrivalInv, OutcomeInv, HeardInv,
         OthersInv, Placed, Ours
  <1>7. CASE ActivateTorn
    <2>1. /\ catalog' \in Seq({"ours", "theirs"})
          /\ Ours' = {read + 1}
      BY <1>7, OursAppended DEF ActivateTorn
    <2> QED
      BY <1>7, <2>1 DEF ActivateTorn, Fresh, PubTypeOK, ArrivalInv,
         OutcomeInv, HeardInv,
         OthersInv, Placed
  <1> QED
    BY <1>5, <1>6, <1>7 DEF Torn

\* An execution tells the Workflow what was verified, and places nothing.
LEMMA ExecuteKeeps ==
  ASSUME EInv, EInv', PubInv, NEW a \in Attempts, Execute(a), UNCHANGED activity
  PROVE  PubInv'
  <1> USE DEF PubInv, Execute, contextVars, placeVars, pubVars
  <1>1. /\ outcome' = outcome /\ current' = current
        /\ \/ UNCHANGED <<sends, flying>>
           \/ sends = 0 /\ sends' = 1 /\ current # 0
    BY AttemptKeepsPlaces
  <1>2. PubTypeOK' /\ OutcomeInv' /\ OthersInv'
    BY <1>1 DEF PubTypeOK, OutcomeInv, OthersInv, Ours
  <1>3. ArrivalInv'
    BY <1>1 DEF ArrivalInv, Placed, Ours
  <1>4. HeardInv'
    <2>1. CASE result' = result
      BY <1>1, <2>1 DEF HeardInv
    <2>2. CASE result' # result
      <3>1. result' = "succeeded" => outcome = "succeeded"
        BY <2>2, HeardSuccess
      <3>2. activity = ActivityOf(mutation)
        BY DEF PubTypeOK
      <3> QED
        BY <1>1, <2>2, <3>1, <3>2 DEF HeardInv, Judged, Verified, ActivityOf
    <2> QED
      BY <2>1, <2>2
  <1> QED
    BY <1>2, <1>3, <1>4

\* The run reads the catalog before it asks, the other release goes its way.
LEMMA OthersKeep ==
  ASSUME EInv, PubInv, ReadCatalog \/ OtherPublishes \/ OtherActivates
  PROVE  PubInv'
  <1> USE DEF PubInv, vars, callVars, upstreamVars, contextVars, placeVars
  <1>1. CASE ReadCatalog
    <2>1. Ours = {}
      BY <1>1 DEF ReadCatalog, ArrivalInv, Placed
    <2>2. read' \in Nat
      BY <1>1 DEF ReadCatalog, PubTypeOK
    <2> QED
      BY <1>1, <2>1, <2>2 DEF ReadCatalog, PubTypeOK, ArrivalInv, OutcomeInv,
         HeardInv,
         OthersInv, Placed, Ours
  <1>2. CASE OtherPublishes
    BY <1>2 DEF OtherPublishes, PubTypeOK, ArrivalInv, OutcomeInv, HeardInv,
       OthersInv,
       Placed, Ours
  <1>3. CASE OtherActivates
    <2>1. catalog' \in Seq({"ours", "theirs"}) /\ Ours' = Ours
      BY <1>3, OursAppended DEF OtherActivates
    <2> QED
      BY <1>3, <2>1 DEF OtherActivates, PubTypeOK, ArrivalInv, OutcomeInv,
         HeardInv,
         OthersInv, Placed
  <1> QED
    BY <1>1, <1>2, <1>3

\* Every step keeps what is true of the destinations.
LEMMA PubStepKeeps ==
  ASSUME EInv, EInv', PubInv, [PubNext]_allVars
  PROVE  PubInv'
  <1>1. CASE UNCHANGED allVars
    BY <1>1 DEF allVars, vars, callVars, upstreamVars, pubVars, contextVars,
       placeVars,
       PubInv, PubTypeOK, ArrivalInv, OutcomeInv, HeardInv, OthersInv, Placed, Ours,
       EInv, TypeOK
  <1>2. CASE /\ StartAttempt \/ GiveUp \/ SendLost
             /\ UNCHANGED activity /\ UNCHANGED pubVars
    BY <1>2 DEF StartAttempt, GiveUp, SendLost, callVars, upstreamVars, pubVars,
       contextVars, placeVars, PubInv, PubTypeOK, ArrivalInv, OutcomeInv, HeardInv,
       OthersInv, Placed, Ours, EInv, TypeOK, UpstreamInv, SentOnce
  <1>3. ASSUME UNCHANGED activity, NEW a \in Attempts, Execute(a)
        PROVE  PubInv'
    BY <1>3, ExecuteKeeps
  <1> QED
    BY <1>1, <1>2, <1>3, CallKeeps, TornKeeps, OthersKeep DEF PubNext

\* What is true of the destinations stays true, whatever dies between two
\* writes and whatever another release does.
THEOREM PubInvariance == PubSpec => [](EInv /\ PubInv)
  <1>1. ASSUME PubInit PROVE PubInv
    <2>1. catalog = <<>> /\ catalog \in Seq({"ours", "theirs"}) /\ Ours = {}
      BY <1>1 DEF PubInit, Ours
    <2>2. PubTypeOK
      BY <1>1, <2>1, OriginTypes DEF PubInit, PubTypeOK
    <2> QED
      BY <1>1, <2>1, <2>2 DEF PubInit, Init, PubInv, ArrivalInv, OutcomeInv,
         HeardInv,
         OthersInv, Placed
  <1>2. EInv /\ EInv' /\ PubInv /\ [PubNext]_allVars => PubInv'
    BY PubStepKeeps
  <1> QED
    BY <1>1, <1>2, PermitImplemented, Invariance, PTL DEF PubSpec

\* What the Workflow was told of a mutation is what its destination serves.
THEOREM DeliveredServed == PubSpec => []DeliveredIsServed
  <1>1. EInv /\ PubInv => DeliveredIsServed
    BY DEF EInv, PermitInv, PubInv, PubTypeOK, ArrivalInv, OutcomeInv, HeardInv,
       OthersInv, Placed, DeliveredIsServed
  <1> QED
    BY <1>1, PubInvariance, PTL

\* Against the double too a mutation is, to the Workflow, one guarded effect.
THEOREM PublicationIsGuarded == PubSpec => IsGuardedEffect
  BY PermitImplemented, Refinement

-----------------------------------------------------------------------------
(***************************************************************************)
(* 3. The source lease.                                                    *)
(***************************************************************************)
USE TimesAssumption, BoundsAssumption
USE DEF Times, Occurrences, Fences, runVars, portCallVars, portVars

\* What the types of the port, of the calls and of the answers say of their
\* fields.
FieldsOK ==
  /\ now \in 0 .. MaxTime
  /\ port.fence \in Fences /\ port.expiry \in Times /\ port.released \in BOOLEAN
  /\ port.owner \in {"none", "run", "other"}
  /\ reply.fence \in Fences /\ reply.expiry \in Times
  /\ record.fence \in Fences /\ record.expiry \in Times
  /\ fence \in Fences /\ known \in Times
  /\ \A o \in Occurrences : renewals[o] \in Times
  /\ \A call \in calls :
       /\ call.kind \in {"acquire", "renew", "release"}
       /\ call.occurrence \in Occurrences /\ call.fence \in Fences

\* The types of the port and the clock.
PortTypeOK ==
  /\ port \in [fence : Fences, owner : {"none", "run", "other"},
               expiry : Times, released : BOOLEAN]
  /\ renewals \in [Occurrences -> Times]
  /\ now \in 0 .. MaxTime

\* The types of the state, field by field.
LEMMA FieldsTyped == LInv => FieldsOK /\ PortTypeOK /\ reply \in Result
  BY DEF LInv, LeaseTypeOK, Result, Calls, FieldsOK, PortTypeOK

\* What a query answers is true of the port.
LEMMA QueriedIsTrue ==
  ASSUME LInv
  PROVE  /\ Queried \in Result /\ Queried.state \in {"held", "lost"}
         /\ Queried.state = "held"
              => Mine(Queried.fence) /\ Granted(Queried.fence, Queried.expiry)
  <1> FieldsOK
    BY FieldsTyped
  <1>1. CASE Held /\ port.fence = fence
    <2>1. /\ Queried.state = "held" /\ Queried.fence = port.fence
          /\ Queried.expiry = port.expiry /\ Queried \in Result
      BY <1>1 DEF Queried, Holding, FieldsOK, Result
    <2>2. port.owner = "run"
      BY <1>1 DEF LInv, BeliefInv, Mine, Held, FieldsOK
    <2> QED
      BY <1>1, <2>1, <2>2 DEF Mine, Granted, FieldsOK
  <1>2. CASE ~(Held /\ port.fence = fence)
    BY <1>2 DEF Queried, Lost, Result
  <1> QED
    BY <1>1, <1>2

\* Whatever the port does, it keeps its own invariant, the lease stays the
\* run's, what is granted stays granted and what is given back stays so.
PortKeeps ==
  /\ PortTypeOK' /\ PortInv'
  /\ \A f \in Fences : Mine(f) => Mine(f)'
  /\ \A f \in Fences, e \in Times : Granted(f, e) => Granted(f, e)'
  /\ \A f \in Fences : Mine(f) /\ GivenBack(f) => GivenBack(f)'

\* A step that leaves the port alone.
LEMMA PortUntouched ==
  ASSUME LInv, UNCHANGED <<now, portVars, revoked>>
  PROVE  PortKeeps
  <1> FieldsOK /\ PortTypeOK /\ PortInv
    BY FieldsTyped DEF LInv
  <1>1. PortTypeOK' /\ PortInv'
    BY DEF PortTypeOK, PortInv, portVars
  <1>2. /\ \A f \in Fences : Mine(f) => Mine(f)'
        /\ \A f \in Fences, e \in Times : Granted(f, e) => Granted(f, e)'
        /\ \A f \in Fences : Mine(f) /\ GivenBack(f) => GivenBack(f)'
    BY DEF Mine, Granted, GivenBack, Held, portVars
  <1> QED
    BY <1>1, <1>2 DEF PortKeeps

\* A free subject is leased anew: nothing of this run was granted.
LEMMA PortLeasedAnew ==
  ASSUME LInv, ~Held, port.fence < MaxFence, NEW o \in {"run", "other"},
         port' = [fence |-> port.fence + 1, owner |-> o, expiry |-> now + TTL,
                  released |-> FALSE],
         renewals' = NoRenewals, UNCHANGED <<now, revoked>>
  PROVE  PortKeeps
  <1> FieldsOK /\ PortTypeOK
    BY FieldsTyped
  <1>1. now \in Nat /\ now + TTL \in Times /\ port.fence + 1 \in Fences
    BY DEF FieldsOK
  <1>2. PortTypeOK'
    BY <1>1 DEF NoRenewals, FieldsOK, PortTypeOK
  <1>3. PortInv'
    BY <1>1 DEF PortInv, NoRenewals, FieldsOK
  <1>4. \A f \in Fences : Mine(f) => Mine(f)'
    BY DEF Mine, FieldsOK
  <1>5. \A f \in Fences, e \in Times : Granted(f, e) => Granted(f, e)'
    BY DEF Granted, Held, FieldsOK
  <1>6. \A f \in Fences : Mine(f) /\ GivenBack(f) => GivenBack(f)'
    BY DEF GivenBack, Mine, FieldsOK
  <1> QED
    BY <1>2, <1>3, <1>4, <1>5, <1>6 DEF PortKeeps

\* The lease ends early: nothing the run is granted depends on it.
LEMMA PortGivesUp ==
  ASSUME LInv, port' = [port EXCEPT !.released = TRUE], UNCHANGED <<now, renewals>>,
         \A f \in Fences, e \in Times : Granted(f, e) => Granted(f, e)'
  PROVE  PortKeeps
  <1> FieldsOK /\ PortTypeOK
    BY FieldsTyped
  <1>1. PortTypeOK'
    BY DEF PortTypeOK
  <1>2. /\ port'.fence = port.fence /\ port'.owner = port.owner
        /\ port'.expiry = port.expiry /\ port'.released = TRUE
    BY DEF PortTypeOK
  <1>3. PortInv'
    BY <1>2 DEF PortInv, LInv
  <1>4. \A f \in Fences : /\ Mine(f) => Mine(f)'
                          /\ Mine(f) /\ GivenBack(f) => GivenBack(f)'
    BY <1>2 DEF Mine, GivenBack
  <1> QED
    BY <1>1, <1>3, <1>4 DEF PortKeeps

\* The steps of the port without a call.
LEMMA PortMoves ==
  ASSUME LInv, OtherAcquires \/ Revoke \/ Tick
  PROVE  PortKeeps
  <1> FieldsOK /\ PortTypeOK
    BY FieldsTyped
  <1>1. CASE OtherAcquires
    BY <1>1, PortLeasedAnew DEF OtherAcquires
  <1>2. CASE Revoke
    BY <1>2, PortGivesUp DEF Revoke, Granted
  <1>3. CASE Tick
    <2>1. PortTypeOK' /\ PortInv'
      BY <1>3 DEF Tick, portVars, PortInv, FieldsOK, PortTypeOK, LInv
    <2>2. \A f \in Fences : /\ Mine(f) => Mine(f)'
                            /\ Mine(f) /\ GivenBack(f) => GivenBack(f)'
      BY <1>3 DEF Tick, portVars, Mine, GivenBack
    <2>3. \A f \in Fences, e \in Times : Granted(f, e) => Granted(f, e)'
      BY <1>3 DEF Tick, portVars, Granted, Held, FieldsOK
    <2> QED
      BY <2>1, <2>2, <2>3 DEF PortKeeps
  <1> QED
    BY <1>1, <1>2, <1>3

\* An answer of the port to a call, and what makes it true.
Answer(call, r) ==
  /\ r \in Result /\ r.state \in {"held", "lost", "released"}
  /\ r.state = "held" => Mine(r.fence)' /\ Granted(r.fence, r.expiry)'
  /\ r.state = "released" => call.kind = "release" /\ GivenBack(call.fence)'

\* A handled call: the coroutine that awaits it may hear of a true answer.
Heard(call) ==
  \/ reply' = reply
  \/ Awaited(call) /\ \E r \in Result : Answer(call, r) /\ reply' = r

\* The loss of a lease is an answer to every call.
LEMMA LostAnswers ==
  ASSUME NEW call
  PROVE  Answer(call, Lost)
  BY DEF Answer, Lost, Result

\* A granted lease is a result.
LEMMA HeldResult ==
  ASSUME NEW f \in Fences, NEW e \in Times
  PROVE  \E r \in Result : /\ r = [state |-> "held", fence |-> f, expiry |-> e]
                           /\ r.state = "held" /\ r.fence = f /\ r.expiry = e
  <1> DEFINE h == [state |-> "held", fence |-> f, expiry |-> e]
  <1>1. h \in Result /\ h.state = "held" /\ h.fence = f /\ h.expiry = e
    BY DEF Result
  <1> QED
    BY <1>1

\* Acquire: the holder is told of its lease, a free subject is leased anew.
LEMMA AcquireHandled ==
  ASSUME LInv, NEW call \in calls, Acquire(call), UNCHANGED <<now, revoked>>
  PROVE  PortKeeps /\ Heard(call)
  <1> FieldsOK /\ PortTypeOK
    BY FieldsTyped
  <1>1. CASE /\ Held /\ port.owner = "other"
             /\ Reply(call, Lost, Awaited(call)) /\ UNCHANGED portVars
    BY <1>1, PortUntouched, LostAnswers DEF Reply, Heard, Answer
  <1>2. CASE /\ Held /\ port.owner = "run"
             /\ Reply(call, Holding, Awaited(call)) /\ UNCHANGED portVars
    <2>1. /\ Holding \in Result /\ Holding.state = "held"
          /\ Holding.fence = port.fence /\ Holding.expiry = port.expiry
      BY DEF Holding, Result, FieldsOK
    <2>2. Mine(port.fence) /\ Granted(port.fence, port.expiry)
      BY <1>2 DEF Mine, Granted, FieldsOK
    <2>3. PortKeeps
      BY <1>2, PortUntouched
    <2>4. Mine(port.fence)' /\ Granted(port.fence, port.expiry)'
      BY <1>2, <2>2 DEF Mine, Granted, Held, portVars
    <2>5. PICK r \in Result : /\ r = Holding /\ r.state = "held"
                              /\ r.fence = port.fence /\ r.expiry = port.expiry
      BY <2>1
    <2>6. port'.fence = port.fence /\ port'.expiry = port.expiry
      BY <1>2 DEF portVars
    <2>7. Mine(r.fence)' /\ Granted(r.fence, r.expiry)'
      BY <2>4, <2>5, <2>6 DEF Mine, Granted
    <2> QED
      BY <1>2, <2>3, <2>5, <2>7 DEF Reply, Heard, Answer
  <1>3. CASE /\ ~Held /\ port.fence < MaxFence
             /\ port' = [fence |-> port.fence + 1, owner |-> "run",
                         expiry |-> now + TTL, released |-> FALSE]
             /\ renewals' = NoRenewals
             /\ Reply(call, [state |-> "held", fence |-> port.fence + 1,
                             expiry |-> now + TTL], Awaited(call))
    <2>1. PortKeeps
      BY <1>3, PortLeasedAnew
    <2>2. now \in Nat /\ now + TTL \in Times /\ port.fence + 1 \in Fences
      BY <1>3 DEF FieldsOK
    <2>3. PICK r \in Result :
            /\ r = [state |-> "held", fence |-> port.fence + 1, expiry |-> now + TTL]
            /\ r.state = "held" /\ r.fence = port.fence + 1 /\ r.expiry = now + TTL
      BY <2>2, HeldResult
    <2>4. Mine(r.fence)' /\ Granted(r.fence, r.expiry)'
      BY <1>3, <2>2, <2>3 DEF Mine, Granted, Held, FieldsOK
    <2> QED
      BY <1>3, <2>1, <2>3, <2>4 DEF Reply, Heard, Answer
  <1> QED
    BY <1>1, <1>2, <1>3 DEF Acquire

\* Renew: the expiry grows, and a repeated occurrence is answered an expiry
\* the port still grants.
LEMMA RenewHandled ==
  ASSUME LInv, NEW call \in calls, Renew(call), UNCHANGED <<now, revoked>>
  PROVE  PortKeeps /\ Heard(call)
  <1> FieldsOK /\ PortTypeOK
    BY FieldsTyped
  <1> DEFINE o == call.occurrence
  <1>1. /\ call.kind = "renew" /\ Mine(call.fence)
        /\ o \in Occurrences /\ call.fence \in Fences
    BY DEF Renew, LInv, CallsInv, FieldsOK
  <1> HIDE DEF o
  <1>2. CASE Reply(call, Lost, Awaited(call)) /\ UNCHANGED portVars
    BY <1>2, PortUntouched, LostAnswers DEF Reply, Heard, Answer
  <1>3. CASE /\ ~port.released /\ port.fence = call.fence /\ renewals[o] # 0
             /\ Reply(call, [state |-> "held", fence |-> call.fence,
                             expiry |-> renewals[o]], Awaited(call))
             /\ UNCHANGED portVars
    <2>1. PICK r \in Result :
            /\ r = [state |-> "held", fence |-> call.fence, expiry |-> renewals[o]]
            /\ r.state = "held" /\ r.fence = call.fence /\ r.expiry = renewals[o]
      BY <1>1, HeldResult DEF FieldsOK
    <2>2. renewals[o] \in Times /\ renewals[o] <= port.expiry
      BY <1>1 DEF LInv, PortInv, FieldsOK
    <2>3. port.owner = "run"
      BY <1>1, <1>3, <2>2 DEF LInv, PortInv, Mine, FieldsOK
    <2>4. Mine(r.fence) /\ Granted(r.fence, r.expiry)
      BY <1>1, <1>3, <2>1, <2>2, <2>3 DEF Granted, Held, FieldsOK
    <2>5. PortKeeps
      BY <1>3, PortUntouched
    <2>6. Mine(r.fence)' /\ Granted(r.fence, r.expiry)'
      BY <2>4, <2>5, <2>1, <1>1, <2>2 DEF PortKeeps
    <2> QED
      BY <1>3, <2>1, <2>5, <2>6 DEF Reply, Heard, Answer
  <1>4. CASE /\ ~port.released /\ port.fence = call.fence /\ port.expiry > now
             /\ port' = [port EXCEPT !.expiry = now + TTL]
             /\ renewals' = [renewals EXCEPT ![o] = now + TTL]
             /\ Reply(call, [state |-> "held", fence |-> call.fence,
                             expiry |-> now + TTL], Awaited(call))
    <2>1. now \in Nat /\ now + TTL \in Times
      BY DEF FieldsOK
    <2>2. PICK r \in Result :
            /\ r = [state |-> "held", fence |-> call.fence, expiry |-> now + TTL]
            /\ r.state = "held" /\ r.fence = call.fence /\ r.expiry = now + TTL
      BY <1>1, <2>1, HeldResult
    <2>3. PortTypeOK'
      BY <1>4, <2>1 DEF PortTypeOK
    <2>4. /\ port'.fence = port.fence /\ port'.owner = port.owner
          /\ port'.expiry = now + TTL /\ port'.released = port.released
      BY <1>4 DEF PortTypeOK
    <2>5. port.owner = "run" /\ port.expiry <= now + TTL
      BY <1>1, <1>4 DEF LInv, PortInv, Mine, FieldsOK
    <2>6. \A q \in Occurrences : renewals'[q] \in Times /\ renewals'[q] <= now + TTL
      <3> TAKE q \in Occurrences
      <3>1. renewals[q] \in Times /\ renewals[q] <= port.expiry
        BY DEF LInv, PortInv, FieldsOK
      <3>2. renewals'[q] = IF q = o THEN now + TTL ELSE renewals[q]
        BY <1>4 DEF PortTypeOK
      <3> QED
        BY <3>1, <3>2, <2>1, <2>5 DEF FieldsOK
    <2>7. PortInv'
      BY <2>1, <2>4, <2>5, <2>6 DEF PortInv
    <2>8. \A f \in Fences : /\ Mine(f) => Mine(f)'
                            /\ Mine(f) /\ GivenBack(f) => GivenBack(f)'
      BY <2>4 DEF Mine, GivenBack
    <2>9. \A f \in Fences, e \in Times : Granted(f, e) => Granted(f, e)'
      BY <2>1, <2>4, <2>5 DEF Granted, Held, FieldsOK
    <2>10. PortKeeps
      BY <2>3, <2>7, <2>8, <2>9 DEF PortKeeps
    <2>11. Mine(r.fence)' /\ Granted(r.fence, r.expiry)'
      BY <1>1, <1>4, <2>1, <2>2, <2>4, <2>5 DEF Mine, Granted, Held, FieldsOK
    <2> QED
      BY <1>4, <2>2, <2>10, <2>11 DEF Reply, Heard, Answer
  <1> QED
    BY <1>2, <1>3, <1>4 DEF Renew, o

\* Release: only a run that asked for it, and is no longer granted
\* anything, gives the lease back.
LEMMA ReleaseHandled ==
  ASSUME LInv, NEW call \in calls, Release(call), UNCHANGED <<now, revoked>>
  PROVE  /\ PortTypeOK' /\ PortInv' /\ Heard(call)
         /\ \A f \in Fences : Mine(f) => Mine(f)'
         /\ \A f \in Fences : Mine(f) /\ GivenBack(f) => GivenBack(f)'
         /\ ~Unreleased
  <1> FieldsOK /\ PortTypeOK
    BY FieldsTyped
  <1>1. call.kind = "release" /\ ~Unreleased
    BY DEF Release, LInv, CallsInv
  <1>2. CASE Reply(call, Lost, Awaited(call)) /\ UNCHANGED portVars
    BY <1>1, <1>2, PortUntouched, LostAnswers DEF Reply, Heard, Answer,
       PortKeeps
  <1>3. CASE /\ port.fence = call.fence /\ port' = [port EXCEPT !.released = TRUE]
             /\ Reply(call, Released, Awaited(call)) /\ UNCHANGED renewals
    <2>1. PortTypeOK'
      BY <1>3 DEF PortTypeOK
    <2>2. /\ port'.fence = port.fence /\ port'.owner = port.owner
          /\ port'.expiry = port.expiry /\ port'.released = TRUE
      BY <1>3 DEF PortTypeOK
    <2>3. PortInv'
      BY <1>3, <2>2 DEF PortInv, LInv
    <2>4. \A f \in Fences : /\ Mine(f) => Mine(f)'
                            /\ Mine(f) /\ GivenBack(f) => GivenBack(f)'
      BY <2>2 DEF Mine, GivenBack
    <2>5. Released \in Result /\ Released.state = "released"
      BY DEF Released, Result
    <2>6. GivenBack(call.fence)'
      BY <2>2 DEF GivenBack
    <2>7. Answer(call, Released)
      BY <1>1, <2>5, <2>6 DEF Answer, Released
    <2> QED
      BY <1>1, <1>3, <2>1, <2>3, <2>4, <2>5, <2>7 DEF Reply, Heard
  <1> QED
    BY <1>2, <1>3 DEF Release

-----------------------------------------------------------------------------
\* No answer yet.
LEMMA UnknownIs == Unknown \in Result /\ Unknown.state = "unknown"
  BY DEF Unknown, Result

\* What the run keeps is of its type when the port and the calls are.
LEMMA RunTypesStand ==
  ASSUME LInv, PortTypeOK', revoked' \in BOOLEAN, calls' \in SUBSET Calls,
         reply' \in Result, UNCHANGED <<runVars, record>>
  PROVE  LeaseTypeOK'
  <1>1. /\ UNCHANGED <<run, sup, occurrence, fence, known, fenced, wake, polls>>
        /\ UNCHANGED record
    OBVIOUS
  <1>2. LeaseTypeOK
    BY DEF LInv
  <1> QED
    BY <1>1, <1>2, Zenon DEF LeaseTypeOK, PortTypeOK

\* What may still reach the port: no call is added.
LEMMA CallsStand ==
  ASSUME LInv, PortKeeps, calls' \subseteq calls, Unreleased' => Unreleased,
         fence' = fence \/ Unreleased
  PROVE  CallsInv'
  <1> FieldsOK
    BY FieldsTyped
  <1> SUFFICES ASSUME NEW call \in calls'
               PROVE  /\ call.kind # "acquire" => Mine(call.fence)'
                      /\ call.kind = "release" => call.fence = fence' /\ ~Unreleased'
    BY DEF CallsInv, Mine
  <1>1. /\ call \in calls /\ call.fence \in Fences
        /\ call.kind # "acquire" => Mine(call.fence)
        /\ call.kind = "release" => call.fence = fence /\ ~Unreleased
    BY DEF FieldsOK, LInv, CallsInv
  <1> QED
    BY <1>1 DEF PortKeeps

\* A call is made: it names the run's own lease.
LEMMA CallsGrow ==
  ASSUME LInv, PortKeeps, NEW kind \in {"acquire", "renew", "release"},
         NEW o \in Occurrences, CallPort(kind, o), Unreleased' => Unreleased,
         fence' = fence, kind = "release" => ~Unreleased'
  PROVE  CallsInv' /\ calls' \in SUBSET Calls /\ reply' = Unknown
  <1> FieldsOK
    BY FieldsTyped
  <1> DEFINE new == [kind |-> kind, occurrence |-> o, fence |-> fence]
  <1>1. /\ calls' = calls \cup {new} /\ new \in Calls
        /\ new.kind = kind /\ new.fence = fence
    BY DEF CallPort, Calls, FieldsOK
  <1>2. Mine(fence)'
    BY DEF LInv, BeliefInv, PortKeeps, FieldsOK, Mine
  <1>3. calls' \in SUBSET Calls
    BY <1>1 DEF LInv, LeaseTypeOK
  <1> HIDE DEF new
  <1>4. ASSUME NEW call \in calls'
        PROVE  /\ call.kind # "acquire" => Mine(call.fence)'
               /\ call.kind = "release" => call.fence = fence' /\ ~Unreleased'
    <2>1. CASE call = new
      BY <1>1, <1>2, <2>1 DEF Mine
    <2>2. CASE call \in calls
      <3>1. /\ call.fence \in Fences
            /\ call.kind # "acquire" => Mine(call.fence)
            /\ call.kind = "release" => call.fence = fence /\ ~Unreleased
        BY <2>2 DEF FieldsOK, LInv, CallsInv
      <3> QED
        BY <3>1 DEF PortKeeps
    <2> QED
      BY <1>1, <2>1, <2>2
  <1>5. CallsInv'
    BY <1>4 DEF CallsInv, Mine
  <1> QED
    BY <1>3, <1>5 DEF CallPort

\* The recorded lease is the run's: it was granted and has not expired.
LEMMA AdoptLeaseKeeps ==
  ASSUME LInv, AdoptLease
  PROVE  LInv'
  <1> FieldsOK /\ PortKeeps
    BY FieldsTyped, PortUntouched DEF AdoptLease, RunGoes
  <1>1. CallsInv' /\ LeaseTypeOK'
    <2>1. CallsInv'
      BY CallsStand DEF AdoptLease, RunGoes, Unreleased, LInv, PlacesInv
    <2>2. LeaseTypeOK'
      BY DEF AdoptLease, RunGoes, LInv, LeaseTypeOK
    <2> QED
      BY <2>1, <2>2
  <1>2. BeliefInv'
    BY DEF AdoptLease, RunGoes, LInv, BeliefInv, PlacesInv, PortKeeps,
       FieldsOK, Unreleased, Mine, Granted, GivenBack, Held
  <1>3. PlacesInv'
    BY DEF AdoptLease, RunGoes, LInv, PlacesInv, Unreleased, FieldsOK
  <1> QED
    BY <1>1, <1>2, <1>3 DEF LInv, PortKeeps

\* An answer that is not acted on says nothing.
LEMMA AcquireAnsweredKeeps ==
  ASSUME LInv, AcquireAnswered
  PROVE  LInv'
  <1> FieldsOK /\ PortKeeps
    BY FieldsTyped, PortUntouched DEF AcquireAnswered, RunGoes
  <1>1. CallsInv' /\ LeaseTypeOK'
    <2>1. CallsInv'
      BY CallsStand DEF AcquireAnswered, RunGoes, Unreleased, LInv, PlacesInv
    <2>2. LeaseTypeOK'
      BY UnknownIs DEF AcquireAnswered, RunGoes, LInv, LeaseTypeOK
    <2> QED
      BY <2>1, <2>2
  <1>2. BeliefInv'
    BY UnknownIs DEF AcquireAnswered, RunGoes, LInv, BeliefInv, PlacesInv,
       PortKeeps, FieldsOK, Unreleased, Mine, Granted, GivenBack, Held
  <1>3. PlacesInv'
    BY UnknownIs DEF AcquireAnswered, RunGoes, LInv, PlacesInv, Unreleased,
       FieldsOK
  <1> QED
    BY <1>1, <1>2, <1>3 DEF LInv, PortKeeps

\* A refused record, or one whose answer is lost, ends the run.
LEMMA AcquireRefusedKeeps ==
  ASSUME LInv, AcquireRefused
  PROVE  LInv'
  <1> FieldsOK /\ PortKeeps
    BY FieldsTyped, PortUntouched DEF AcquireRefused, Recorded
  <1>0. record' \in [state : {"none", "held", "lost", "released"},
                  fence : Fences, expiry : Times]
    <2>1. record \in [state : {"none", "held", "lost", "released"},
                     fence : Fences, expiry : Times]
      BY DEF LInv, LeaseTypeOK
    <2> QED
      BY <2>1 DEF AcquireRefused, Recorded, FieldsOK
  <1>1. CallsInv' /\ LeaseTypeOK'
    <2>1. CallsInv'
      BY CallsStand DEF AcquireRefused, Recorded, Unreleased, LInv, PlacesInv
    <2>2. LeaseTypeOK'
      BY <1>0 DEF AcquireRefused, LInv, LeaseTypeOK
    <2> QED
      BY <2>1, <2>2
  <1>2. BeliefInv'
    BY DEF AcquireRefused, Recorded, LInv, BeliefInv, PlacesInv,
       PortKeeps, FieldsOK, Unreleased, Mine, Granted, GivenBack, Held
  <1>3. PlacesInv'
    BY DEF AcquireRefused, Recorded, LInv, PlacesInv, Unreleased, FieldsOK
  <1> QED
    BY <1>1, <1>2, <1>3 DEF LInv, PortKeeps

\* What was answered is recorded, and the run works under it.
LEMMA AcquireRecordedKeeps ==
  ASSUME LInv, AcquireRecorded
  PROVE  LInv'
  <1> FieldsOK /\ PortKeeps
    BY FieldsTyped, PortUntouched DEF AcquireRecorded, RunGoes, RecordHeld, Recorded
  <1>1. CallsInv' /\ LeaseTypeOK'
    <2>1. CallsInv'
      BY CallsStand DEF AcquireRecorded, RunGoes, RecordHeld, Recorded, Unreleased,
         LInv, PlacesInv
    <2>2. LeaseTypeOK'
      BY DEF AcquireRecorded, RunGoes, RecordHeld, Recorded, LInv, LeaseTypeOK, FieldsOK
    <2> QED
      BY <2>1, <2>2
  <1>2. BeliefInv'
    BY DEF AcquireRecorded, RunGoes, RecordHeld, Recorded, LInv, BeliefInv, PlacesInv,
       PortKeeps, FieldsOK, Unreleased, Mine, Granted, GivenBack, Held
  <1>3. PlacesInv'
    BY DEF AcquireRecorded, RunGoes, RecordHeld, Recorded, LInv, PlacesInv, Unreleased,
       FieldsOK
  <1> QED
    BY <1>1, <1>2, <1>3 DEF LInv, PortKeeps

\* The run keeps its lease when the work is over; a record on its way may
\* still be made.
LEMMA WorkEndsKeeps ==
  ASSUME LInv, WorkEnds
  PROVE  LInv'
  <1> FieldsOK /\ PortKeeps
    BY FieldsTyped, PortUntouched DEF WorkEnds, Recorded
  <1>1. CallsInv' /\ LeaseTypeOK'
    <2>1. CallsInv'
      BY CallsStand DEF WorkEnds, Recorded, Unreleased, LInv, PlacesInv
    <2>2. LeaseTypeOK'
      BY UnknownIs DEF WorkEnds, Recorded, LInv, LeaseTypeOK, FieldsOK
    <2> QED
      BY <2>1, <2>2
  <1>2. BeliefInv'
    BY UnknownIs DEF WorkEnds, Recorded, LInv, BeliefInv, PlacesInv,
       PortKeeps, FieldsOK, Unreleased, Mine, Granted, GivenBack, Held
  <1>3. PlacesInv'
    BY UnknownIs DEF WorkEnds, Recorded, LInv, PlacesInv, Unreleased, FieldsOK
  <1> QED
    BY <1>1, <1>2, <1>3 DEF LInv, PortKeeps

\* The answer to the release, or none.
LEMMA ReleaseAnsweredKeeps ==
  ASSUME LInv, ReleaseAnswered
  PROVE  LInv'
  <1> FieldsOK /\ PortKeeps
    BY FieldsTyped, PortUntouched DEF ReleaseAnswered, RunGoes
  <1>1. CallsInv' /\ LeaseTypeOK'
    <2>1. CallsInv'
      BY CallsStand DEF ReleaseAnswered, RunGoes, Unreleased, LInv, PlacesInv
    <2>2. LeaseTypeOK'
      BY DEF ReleaseAnswered, RunGoes, LInv, LeaseTypeOK
    <2> QED
      BY <2>1, <2>2
  <1>2. BeliefInv'
    BY DEF ReleaseAnswered, RunGoes, LInv, BeliefInv, PlacesInv, PortKeeps,
       FieldsOK, Unreleased, Mine, Granted, GivenBack, Held
  <1>3. PlacesInv'
    BY DEF ReleaseAnswered, RunGoes, LInv, PlacesInv, Unreleased, FieldsOK
  <1> QED
    BY <1>1, <1>2, <1>3 DEF LInv, PortKeeps

\* A poll asks again.
LEMMA ReleasePolledKeeps ==
  ASSUME LInv, ReleasePolled
  PROVE  LInv'
  <1> FieldsOK /\ PortKeeps
    BY FieldsTyped, PortUntouched DEF ReleasePolled, RunGoes
  <1>0. polls \in 0 .. PollBound /\ polls' \in 0 .. PollBound
    <2>1. polls \in 0 .. PollBound
      BY DEF LInv, LeaseTypeOK
    <2>2. polls < PollBound /\ polls' = polls + 1 /\ PollBound \in Nat
      BY DEF ReleasePolled
    <2> QED
      BY <2>1, <2>2
  <1>1. CallsInv' /\ LeaseTypeOK'
    <2>1. CallsInv'
      BY CallsStand DEF ReleasePolled, RunGoes, Unreleased, LInv, PlacesInv
    <2>2. LeaseTypeOK'
      BY UnknownIs, <1>0 DEF ReleasePolled, RunGoes, LInv, LeaseTypeOK
    <2> QED
      BY <2>1, <2>2
  <1>2. BeliefInv'
    BY UnknownIs DEF ReleasePolled, RunGoes, LInv, BeliefInv, PlacesInv,
       PortKeeps, FieldsOK, Unreleased, Mine, Granted, GivenBack, Held
  <1>3. PlacesInv'
    BY UnknownIs DEF ReleasePolled, RunGoes, LInv, PlacesInv, Unreleased,
       FieldsOK
  <1> QED
    BY <1>1, <1>2, <1>3 DEF LInv, PortKeeps

\* The poll bound leaves the lease to its expiry.
LEMMA ReleaseLeftKeeps ==
  ASSUME LInv, ReleaseLeft
  PROVE  LInv'
  <1> FieldsOK /\ PortKeeps
    BY FieldsTyped, PortUntouched DEF ReleaseLeft, RunGoes
  <1>1. CallsInv' /\ LeaseTypeOK'
    <2>1. CallsInv'
      BY CallsStand DEF ReleaseLeft, RunGoes, Unreleased, LInv, PlacesInv
    <2>2. LeaseTypeOK'
      BY DEF ReleaseLeft, RunGoes, LInv, LeaseTypeOK
    <2> QED
      BY <2>1, <2>2
  <1>2. BeliefInv'
    BY DEF ReleaseLeft, RunGoes, LInv, BeliefInv, PlacesInv, PortKeeps,
       FieldsOK, Unreleased, Mine, Granted, GivenBack, Held
  <1>3. PlacesInv'
    BY DEF ReleaseLeft, RunGoes, LInv, PlacesInv, Unreleased, FieldsOK
  <1> QED
    BY <1>1, <1>2, <1>3 DEF LInv, PortKeeps

\* What is recorded of the release was answered, and is of this lease.
LEMMA ReleaseRecordedKeeps ==
  ASSUME LInv, ReleaseRecorded
  PROVE  LInv'
  <1> FieldsOK /\ PortKeeps
    BY FieldsTyped, PortUntouched DEF ReleaseRecorded, RunGoes
  <1>0. /\ record' \in [state : {"none", "held", "lost", "released"},
                   fence : Fences, expiry : Times]
        /\ \/ record' = record
           \/ record'.fence = fence /\ record'.state = reply.state
    BY DEF ReleaseRecorded, LInv, LeaseTypeOK, PlacesInv, FieldsOK
  <1>1. CallsInv' /\ LeaseTypeOK'
    <2>1. CallsInv'
      BY CallsStand DEF ReleaseRecorded, RunGoes, Unreleased, LInv, PlacesInv
    <2>2. LeaseTypeOK'
      BY <1>0 DEF ReleaseRecorded, RunGoes, LInv, LeaseTypeOK
    <2> QED
      BY <2>1, <2>2
  <1>2. BeliefInv'
    BY <1>0 DEF ReleaseRecorded, RunGoes, LInv, BeliefInv, PlacesInv,
       PortKeeps, FieldsOK, Unreleased, Mine, Granted, GivenBack, Held
  <1>3. PlacesInv'
    BY <1>0 DEF ReleaseRecorded, RunGoes, LInv, PlacesInv, Unreleased, FieldsOK
  <1> QED
    BY <1>1, <1>2, <1>3 DEF LInv, PortKeeps

\* Settling moves no lease.
LEMMA RunSettledKeeps ==
  ASSUME LInv, RunSettled
  PROVE  LInv'
  <1> FieldsOK /\ PortKeeps
    BY FieldsTyped, PortUntouched DEF RunSettled, RunGoes
  <1>1. CallsInv' /\ LeaseTypeOK'
    <2>1. CallsInv'
      BY CallsStand DEF RunSettled, RunGoes, Unreleased, LInv, PlacesInv
    <2>2. LeaseTypeOK'
      BY DEF RunSettled, RunGoes, LInv, LeaseTypeOK
    <2> QED
      BY <2>1, <2>2
  <1>2. BeliefInv'
    BY DEF RunSettled, RunGoes, LInv, BeliefInv, PlacesInv, PortKeeps,
       FieldsOK, Unreleased, Mine, Granted, GivenBack, Held
  <1>3. PlacesInv'
    BY DEF RunSettled, RunGoes, LInv, PlacesInv, Unreleased, FieldsOK
  <1> QED
    BY <1>1, <1>2, <1>3 DEF LInv, PortKeeps

\* A renewal's answer, a loss, or none.
LEMMA RenewAnsweredKeeps ==
  ASSUME LInv, RenewAnswered
  PROVE  LInv'
  <1> FieldsOK /\ PortKeeps
    BY FieldsTyped, PortUntouched DEF RenewAnswered, SupervisorGoes, Fence
  <1>1. CallsInv' /\ LeaseTypeOK'
    <2>1. CallsInv'
      BY CallsStand DEF RenewAnswered, SupervisorGoes, Fence, Unreleased,
         LInv, PlacesInv
    <2>2. LeaseTypeOK'
      BY UnknownIs DEF RenewAnswered, SupervisorGoes, Fence, LInv, LeaseTypeOK
    <2> QED
      BY <2>1, <2>2
  <1>2. BeliefInv'
    BY UnknownIs DEF RenewAnswered, SupervisorGoes, Fence, LInv, BeliefInv,
       PlacesInv, PortKeeps, FieldsOK, Unreleased, Mine, Granted, GivenBack,
       Held
  <1>3. PlacesInv'
    BY UnknownIs DEF RenewAnswered, SupervisorGoes, Fence, LInv, PlacesInv,
       Unreleased, FieldsOK
  <1> QED
    BY <1>1, <1>2, <1>3 DEF LInv, PortKeeps

\* The renewed lease is the one the run works under.
LEMMA RenewRecordedKeeps ==
  ASSUME LInv, RenewRecorded
  PROVE  LInv'
  <1> FieldsOK /\ PortKeeps
    BY FieldsTyped, PortUntouched DEF RenewRecorded, SupervisorGoes, Fence,
       RecordHeld, Recorded
  <1>1. CallsInv' /\ LeaseTypeOK'
    <2>1. CallsInv'
      BY CallsStand DEF RenewRecorded, SupervisorGoes, Fence, RecordHeld, Recorded,
         Unreleased, LInv, PlacesInv
    <2>2. LeaseTypeOK'
      BY DEF RenewRecorded, SupervisorGoes, Fence, RecordHeld, Recorded, LInv,
         LeaseTypeOK, FieldsOK
    <2> QED
      BY <2>1, <2>2
  <1>2. BeliefInv'
    BY DEF RenewRecorded, SupervisorGoes, Fence, RecordHeld, Recorded, LInv, BeliefInv,
       PlacesInv, PortKeeps, FieldsOK, Unreleased, Mine, Granted, GivenBack,
       Held
  <1>3. PlacesInv'
    BY DEF RenewRecorded, SupervisorGoes, Fence, RecordHeld, Recorded, LInv, PlacesInv,
       Unreleased, FieldsOK
  <1> QED
    BY <1>1, <1>2, <1>3 DEF LInv, PortKeeps

\* A refused record fences the run, also when it was made.
LEMMA RenewRefusedKeeps ==
  ASSUME LInv, RenewRefused
  PROVE  LInv'
  <1> FieldsOK /\ PortKeeps
    BY FieldsTyped, PortUntouched DEF RenewRefused, Fence, Recorded
  <1>0. record' \in [state : {"none", "held", "lost", "released"},
                  fence : Fences, expiry : Times]
    <2>1. record \in [state : {"none", "held", "lost", "released"},
                     fence : Fences, expiry : Times]
      BY DEF LInv, LeaseTypeOK
    <2> QED
      BY <2>1 DEF RenewRefused, Fence, Recorded, FieldsOK
  <1>1. CallsInv' /\ LeaseTypeOK'
    <2>1. CallsInv'
      BY CallsStand DEF RenewRefused, Fence, Recorded, Unreleased,
         LInv, PlacesInv
    <2>2. LeaseTypeOK'
      BY <1>0 DEF RenewRefused, Fence, LInv, LeaseTypeOK
    <2> QED
      BY <2>1, <2>2
  <1>2. BeliefInv'
    BY DEF RenewRefused, Fence, Recorded, LInv, BeliefInv, PlacesInv,
       PortKeeps, FieldsOK, Unreleased, Mine, Granted, GivenBack, Held
  <1>3. PlacesInv'
    BY DEF RenewRefused, Fence, Recorded, LInv, PlacesInv, Unreleased,
       FieldsOK
  <1> QED
    BY <1>1, <1>2, <1>3 DEF LInv, PortKeeps

\* A reported loss is no record of a held lease.
LEMMA LossReportedKeeps ==
  ASSUME LInv, LossReported
  PROVE  LInv'
  <1> FieldsOK /\ PortKeeps
    BY FieldsTyped, PortUntouched DEF LossReported, SupervisorGoes, Fence
  <1>0. /\ record' \in [state : {"none", "held", "lost", "released"},
                   fence : Fences, expiry : Times]
        /\ record'.fence = record.fence /\ record'.expiry = record.expiry
        /\ record'.state \in {record.state, "lost"}
    <2>1. record \in [state : {"none", "held", "lost", "released"},
                     fence : Fences, expiry : Times]
      BY DEF LInv, LeaseTypeOK
    <2> QED
      BY <2>1 DEF LossReported
  <1>1. CallsInv' /\ LeaseTypeOK'
    <2>1. CallsInv'
      BY CallsStand DEF LossReported, SupervisorGoes, Fence, Unreleased,
         LInv, PlacesInv
    <2>2. LeaseTypeOK'
      BY <1>0 DEF LossReported, SupervisorGoes, Fence, LInv, LeaseTypeOK
    <2> QED
      BY <2>1, <2>2
  <1>2. BeliefInv'
    BY <1>0 DEF LossReported, SupervisorGoes, Fence, LInv, BeliefInv,
       PlacesInv, PortKeeps, FieldsOK, Unreleased, Mine, Granted, GivenBack,
       Held
  <1>3. PlacesInv'
    BY <1>0 DEF LossReported, SupervisorGoes, Fence, LInv, PlacesInv,
       Unreleased, FieldsOK
  <1> QED
    BY <1>1, <1>2, <1>3 DEF LInv, PortKeeps

\* An unknown renewal leaves the known expiry as it is.
LEMMA QueryAnsweredKeeps ==
  ASSUME LInv, QueryAnswered
  PROVE  LInv'
  <1> FieldsOK /\ PortKeeps
    BY FieldsTyped, PortUntouched DEF QueryAnswered, SupervisorGoes, Fence,
       RenewUnanswered
  <1>0. /\ Lead \div 2 \in Nat
        /\ (IF known - now < Lead \div 2 THEN known ELSE now + Lead \div 2)
             \in Times
    BY DEF FieldsOK
  <1>1. CallsInv' /\ LeaseTypeOK'
    <2>1. CallsInv'
      BY CallsStand DEF QueryAnswered, SupervisorGoes, Fence,
         RenewUnanswered, Unreleased, LInv, PlacesInv
    <2>2. LeaseTypeOK'
      BY <1>0 DEF QueryAnswered, SupervisorGoes, Fence, RenewUnanswered,
         LInv, LeaseTypeOK
    <2> QED
      BY <2>1, <2>2
  <1>2. BeliefInv'
    BY DEF QueryAnswered, SupervisorGoes, Fence, RenewUnanswered, LInv,
       BeliefInv, PlacesInv, PortKeeps, FieldsOK, Unreleased, Mine, Granted,
       GivenBack, Held
  <1>3. PlacesInv'
    BY DEF QueryAnswered, SupervisorGoes, Fence, RenewUnanswered, LInv,
       PlacesInv, Unreleased, FieldsOK
  <1> QED
    BY <1>1, <1>2, <1>3 DEF LInv, PortKeeps

\* A renewal beyond the bound is one whose answer stays unknown.
LEMMA RenewBeyondBoundKeeps ==
  ASSUME LInv, RenewBeyondBound
  PROVE  LInv'
  <1> FieldsOK /\ PortKeeps
    BY FieldsTyped, PortUntouched DEF RenewBeyondBound, SupervisorGoes, Fence,
       RenewUnanswered
  <1>0. /\ Lead \div 2 \in Nat
        /\ (IF known - now < Lead \div 2 THEN known ELSE now + Lead \div 2)
             \in Times
    BY DEF FieldsOK
  <1>1. CallsInv' /\ LeaseTypeOK'
    <2>1. CallsInv'
      BY CallsStand DEF RenewBeyondBound, TimerDue, SupervisorGoes, Fence,
         RenewUnanswered, Unreleased
    <2>2. LeaseTypeOK'
      BY <1>0 DEF RenewBeyondBound, SupervisorGoes, Fence, RenewUnanswered,
         LInv, LeaseTypeOK
    <2> QED
      BY <2>1, <2>2
  <1>2. BeliefInv'
    BY DEF RenewBeyondBound, TimerDue, SupervisorGoes, Fence, RenewUnanswered,
       LInv, BeliefInv, PlacesInv, PortKeeps, FieldsOK, Unreleased, Mine,
       Granted, GivenBack, Held
  <1>3. PlacesInv'
    BY DEF RenewBeyondBound, TimerDue, SupervisorGoes, Fence, RenewUnanswered,
       LInv, PlacesInv, Unreleased, FieldsOK
  <1> QED
    BY <1>1, <1>2, <1>3 DEF LInv, PortKeeps

\* An interrupted query fences the run and changes nothing it believes.
LEMMA QuerySeveredKeeps ==
  ASSUME LInv, QuerySevered
  PROVE  LInv'
  <1> FieldsOK /\ PortKeeps
    BY FieldsTyped, PortUntouched DEF QuerySevered, Fence
  <1>1. CallsInv' /\ LeaseTypeOK'
    <2>1. CallsInv'
      BY CallsStand DEF QuerySevered, Fence, Unreleased
    <2>2. LeaseTypeOK'
      BY DEF QuerySevered, Fence, LInv, LeaseTypeOK
    <2> QED
      BY <2>1, <2>2
  <1>2. BeliefInv'
    BY DEF QuerySevered, Fence, LInv, BeliefInv, PortKeeps, FieldsOK,
       Unreleased, Mine, Granted, GivenBack, Held
  <1>3. PlacesInv'
    BY DEF QuerySevered, Fence, LInv, PlacesInv, Unreleased
  <1> QED
    BY <1>1, <1>2, <1>3 DEF LInv, PortKeeps

\* The acquisition is sent.
LEMMA CallAcquireKeeps ==
  ASSUME LInv, CallAcquire
  PROVE  LInv'
  <1> FieldsOK /\ PortKeeps
    BY FieldsTyped, PortUntouched DEF CallAcquire, CallPort
  <1>1. CallsInv' /\ LeaseTypeOK'
    <2>1. CallPort("acquire", 1) /\ 1 \in Occurrences
      BY DEF CallAcquire, LInv, LeaseTypeOK, PlacesInv, Unreleased
    <2>2. CallsInv' /\ calls' \in SUBSET Calls /\ reply' = Unknown
      BY <2>1, CallsGrow DEF CallAcquire, Unreleased
    <2>3. LeaseTypeOK'
      BY <2>1, <2>2, UnknownIs DEF CallAcquire, LInv, LeaseTypeOK
    <2> QED
      BY <2>2, <2>3
  <1>2. BeliefInv'
    BY UnknownIs DEF CallAcquire, CallPort, LInv, BeliefInv, PlacesInv,
       PortKeeps, FieldsOK, Unreleased, Mine, Granted, GivenBack, Held
  <1>3. PlacesInv'
    BY UnknownIs DEF CallAcquire, CallPort, LInv, PlacesInv, Unreleased,
       FieldsOK
  <1> QED
    BY <1>1, <1>2, <1>3 DEF LInv, PortKeeps

\* A renewal is sent: it names the run's lease.
LEMMA SupervisorWakesKeeps ==
  ASSUME LInv, SupervisorWakes
  PROVE  LInv'
  <1> FieldsOK /\ PortKeeps
    BY FieldsTyped, PortUntouched DEF SupervisorWakes, TimerDue, CallPort
  <1>0. occurrence' \in 0 .. MaxOccurrence /\ wake' \in Times
    <2>1. occurrence \in 0 .. MaxOccurrence
      BY DEF LInv, LeaseTypeOK
    <2>2. occurrence + 1 < MaxOccurrence /\ occurrence' = occurrence + 1
          /\ wake' = 0
      BY DEF SupervisorWakes
    <2> QED
      BY <2>1, <2>2
  <1>1. CallsInv' /\ LeaseTypeOK'
    <2>1. CallPort("renew", occurrence + 1) /\ occurrence + 1 \in Occurrences
      BY DEF SupervisorWakes, TimerDue, LInv, LeaseTypeOK, PlacesInv, Unreleased
    <2>2. CallsInv' /\ calls' \in SUBSET Calls /\ reply' = Unknown
      BY <2>1, CallsGrow DEF SupervisorWakes, TimerDue, Unreleased
    <2>3. LeaseTypeOK'
      BY <1>0, <2>1, <2>2, UnknownIs DEF SupervisorWakes, LInv, LeaseTypeOK
    <2> QED
      BY <2>2, <2>3
  <1>2. BeliefInv'
    BY UnknownIs DEF SupervisorWakes, TimerDue, CallPort, LInv, BeliefInv,
       PlacesInv, PortKeeps, FieldsOK, Unreleased, Mine, Granted, GivenBack,
       Held
  <1>3. PlacesInv'
    BY UnknownIs DEF SupervisorWakes, TimerDue, CallPort, LInv, PlacesInv,
       Unreleased, FieldsOK
  <1> QED
    BY <1>1, <1>2, <1>3 DEF LInv, PortKeeps

\* The release is sent, and from here on nothing is granted to the run.
LEMMA CallReleaseKeeps ==
  ASSUME LInv, CallRelease
  PROVE  LInv'
  <1> FieldsOK /\ PortKeeps
    BY FieldsTyped, PortUntouched DEF CallRelease, RunGoes
  <1>1. CASE fenced /\ RunGoes("settling") /\ UNCHANGED portCallVars
    <2>1. CallsInv'
      BY <1>1, CallsStand DEF RunGoes, Unreleased
    <2>2. LeaseTypeOK'
      BY <1>1 DEF RunGoes, LInv, LeaseTypeOK
    <2>3. BeliefInv'
      BY <1>1 DEF RunGoes, CallRelease, LInv, BeliefInv, PlacesInv,
         PortKeeps, FieldsOK,
         Unreleased, Mine, Granted, GivenBack, Held
    <2>4. PlacesInv'
      BY <1>1 DEF RunGoes, CallRelease, LInv, PlacesInv, Unreleased
    <2> QED
      BY <2>1, <2>2, <2>3, <2>4 DEF LInv, PortKeeps
  <1>2. CASE ~(fenced /\ RunGoes("settling") /\ UNCHANGED portCallVars)
    <2>1. /\ run = "ending" /\ run' = "releasing" /\ occurrence' = occurrence + 1
          /\ CallPort("release", occurrence + 1) /\ occurrence + 1 \in Occurrences
          /\ UNCHANGED <<now, sup, fence, known, fenced, wake, polls>>
          /\ UNCHANGED <<portVars, record, revoked>>
      BY <1>2 DEF CallRelease, LInv, LeaseTypeOK, PlacesInv, Unreleased
    <2>2. CallsInv' /\ calls' \in SUBSET Calls /\ reply' = Unknown
      BY <2>1, CallsGrow DEF Unreleased
    <2>3. LeaseTypeOK'
      BY <2>1, <2>2, UnknownIs DEF LInv, LeaseTypeOK
    <2>4. BeliefInv'
      BY <2>1, <2>2, UnknownIs DEF LInv, BeliefInv, PlacesInv, PortKeeps,
         FieldsOK,
         Unreleased, Mine, Granted, GivenBack, Held
    <2>5. PlacesInv'
      BY <2>1, <2>2 DEF LInv, PlacesInv, Unreleased
    <2> QED
      BY <2>2, <2>3, <2>4, <2>5 DEF LInv, PortKeeps
  <1> QED
    BY <1>1, <1>2

\* What the query answers is recorded next.
LEMMA AcquireQueriedKeeps ==
  ASSUME LInv, AcquireQueried
  PROVE  LInv'
  <1> FieldsOK /\ PortKeeps
    BY FieldsTyped, PortUntouched DEF AcquireQueried, RunGoes
  <1>1. CallsInv' /\ LeaseTypeOK'
    <2>1. CallsInv'
      BY CallsStand DEF AcquireQueried, RunGoes, Unreleased, LInv, PlacesInv
    <2>2. LeaseTypeOK'
      <3>1. reply' \in Result /\ UNCHANGED <<calls, now, port, renewals, record>>
        BY QueriedIsTrue DEF AcquireQueried, RunGoes
      <3>2. /\ run' \in {"recording", "settling"}
            /\ UNCHANGED <<sup, occurrence, fence, known, fenced, wake, polls>>
            /\ UNCHANGED revoked
        BY DEF AcquireQueried, RunGoes
      <3>3. LeaseTypeOK
        BY DEF LInv
      <3> QED
        BY <3>1, <3>2, <3>3, Zenon DEF LeaseTypeOK
    <2> QED
      BY <2>1, <2>2
  <1>2. BeliefInv'
    BY QueriedIsTrue DEF AcquireQueried, RunGoes, LInv, BeliefInv, PlacesInv,
       PortKeeps, FieldsOK, Unreleased, Mine, Granted, GivenBack, Held
  <1>3. PlacesInv'
    BY QueriedIsTrue DEF AcquireQueried, RunGoes, LInv, PlacesInv,
       Unreleased, FieldsOK
  <1> QED
    BY <1>1, <1>2, <1>3 DEF LInv, PortKeeps

\* A query answers what the port has now.
LEMMA QueryReachesKeeps ==
  ASSUME LInv, QueryReaches
  PROVE  LInv'
  <1> FieldsOK /\ PortKeeps
    BY FieldsTyped, PortUntouched DEF QueryReaches
  <1>0. /\ UNCHANGED <<now, run, sup, occurrence>>
        /\ UNCHANGED <<fence, known, fenced, wake, polls>>
        /\ UNCHANGED <<calls, port, renewals, record, revoked>>
        /\ reply' \in Result /\ reply'.state \in {"held", "lost"}
        /\ reply'.state = "held"
             => Mine(reply'.fence) /\ Granted(reply'.fence, reply'.expiry)
        /\ sup # "recording" /\ run \notin {"recording", "release recording"}
    BY QueriedIsTrue DEF QueryReaches, PlacesInv, LInv
  <1>1. CallsInv' /\ LeaseTypeOK'
    <2>1. CallsInv'
      BY CallsStand DEF QueryReaches, Unreleased, LInv, PlacesInv
    <2>2. revoked' \in BOOLEAN /\ calls' \in SUBSET Calls /\ reply' \in Result
      BY <1>0 DEF LInv, LeaseTypeOK
    <2>3. LeaseTypeOK'
      BY <1>0, <2>2, RunTypesStand DEF PortKeeps
    <2> QED
      BY <2>1, <2>3
  <1>2. BeliefInv'
    BY <1>0 DEF LInv, BeliefInv, PlacesInv, PortKeeps, FieldsOK, Unreleased,
       Mine, Granted, GivenBack, Held
  <1>3. PlacesInv'
    BY <1>0 DEF LInv, PlacesInv, Unreleased, FieldsOK
  <1> QED
    BY <1>1, <1>2, <1>3 DEF LInv, PortKeeps

\* A call that is over can no longer arrive.
LEMMA CallEndsKeeps ==
  ASSUME LInv, NEW call, CallEnds(call)
  PROVE  LInv'
  <1> FieldsOK /\ PortKeeps
    BY FieldsTyped, PortUntouched DEF CallEnds
  <1>0. /\ UNCHANGED <<now, run, sup, occurrence>>
        /\ UNCHANGED <<fence, known, fenced, wake, polls>>
        /\ UNCHANGED <<reply, port, renewals, record, revoked>>
        /\ calls' \in SUBSET Calls
    BY DEF CallEnds, LeaseTypeOK, LInv
  <1>1. CallsInv' /\ LeaseTypeOK'
    <2>1. CallsInv'
      BY CallsStand DEF CallEnds, Unreleased, LInv, PlacesInv
    <2>2. revoked' \in BOOLEAN /\ calls' \in SUBSET Calls /\ reply' \in Result
      BY <1>0 DEF LInv, LeaseTypeOK
    <2>3. LeaseTypeOK'
      BY <1>0, <2>2, RunTypesStand DEF PortKeeps
    <2> QED
      BY <2>1, <2>3
  <1>2. BeliefInv'
    BY DEF CallEnds, LInv, BeliefInv, PlacesInv, PortKeeps, FieldsOK,
       Unreleased, Mine, Granted, GivenBack, Held
  <1>3. PlacesInv'
    BY DEF CallEnds, LInv, PlacesInv, Unreleased, FieldsOK
  <1> QED
    BY <1>1, <1>2, <1>3 DEF LInv, PortKeeps

\* So do the steps of the port without a call.
LEMMA PortMovesKeep ==
  ASSUME LInv, OtherAcquires \/ Revoke \/ Tick
  PROVE  LInv'
  <1> FieldsOK /\ PortKeeps
    BY FieldsTyped, PortMoves
  <1>1. UNCHANGED <<runVars, portCallVars, record>> /\ revoked' \in BOOLEAN
    BY DEF OtherAcquires, Revoke, Tick, LInv, LeaseTypeOK
  <1>2. CallsInv'
    BY <1>1, CallsStand DEF Unreleased
  <1>3. LeaseTypeOK'
    BY <1>1 DEF LInv, LeaseTypeOK, PortKeeps, PortTypeOK
  <1>4. BeliefInv'
    BY <1>1 DEF LInv, BeliefInv, PortKeeps, FieldsOK, Unreleased, Mine, Granted,
       GivenBack, Held
  <1>5. PlacesInv'
    BY <1>1 DEF LInv, PlacesInv, Unreleased
  <1> QED
    BY <1>2, <1>3, <1>4, <1>5 DEF LInv, PortKeeps

\* A call is handled at the port.
LEMMA PortHandlesKeeps ==
  ASSUME LInv, NEW call \in calls, PortHandles(call)
  PROVE  LInv'
  <1> FieldsOK
    BY FieldsTyped
  <1>1. /\ UNCHANGED <<now, run, sup, occurrence>>
        /\ UNCHANGED <<fence, known, fenced, wake, polls>>
        /\ UNCHANGED <<calls, record, revoked>>
    BY DEF PortHandles
  <1>2. /\ PortTypeOK' /\ PortInv' /\ Heard(call)
        /\ \A f \in Fences : Mine(f) => Mine(f)'
        /\ Unreleased
             => \A f \in Fences, e \in Times : Granted(f, e) => Granted(f, e)'
        /\ \A f \in Fences : Mine(f) /\ GivenBack(f) => GivenBack(f)'
    BY <1>1, AcquireHandled, RenewHandled, ReleaseHandled DEF PortHandles,
       PortKeeps
  <1>3. /\ reply' \in Result
        /\ reply' # reply
             => /\ Awaited(call) /\ reply'.state \in {"held", "lost", "released"}
                /\ reply'.state = "held"
                     => Mine(reply.fence)' /\ Granted(reply.fence, reply.expiry)'
                /\ reply'.state = "released"
                     => call.kind = "release" /\ GivenBack(call.fence)'
    <2>1. CASE reply' = reply
      BY <2>1 DEF LInv, LeaseTypeOK
    <2>2. PICK r \in Result :
            reply' # reply => Answer(call, r) /\ reply' = r /\ Awaited(call)
      BY <1>2, FieldsTyped DEF Heard
    <2>3. CASE reply' # reply
      BY <2>2, <2>3 DEF Answer, Mine, Granted, Held, GivenBack
    <2> QED
      BY <2>1, <2>3
  <1>4. reply' # reply
          => /\ run \notin {"recording", "release recording"} /\ sup # "recording"
             /\ reply'.state = "released" => ~Unreleased /\ call.fence = fence
    BY <1>3 DEF Awaited, LInv, CallsInv, PlacesInv, Unreleased, FieldsOK
  <1>5. CallsInv'
    <2> SUFFICES ASSUME NEW c \in calls'
                 PROVE  /\ c.kind # "acquire" => Mine(c.fence)'
                        /\ c.kind = "release" => c.fence = fence' /\ ~Unreleased'
      BY DEF CallsInv, Mine
    <2>1. c \in calls /\ c.fence \in Fences
      BY <1>1 DEF FieldsOK
    <2> QED
      BY <1>1, <1>2, <2>1 DEF LInv, CallsInv, Unreleased
  <1>6. LeaseTypeOK'
    <2>1. revoked' \in BOOLEAN /\ calls' \in SUBSET Calls
      BY <1>1 DEF LInv, LeaseTypeOK
    <2> QED
      BY <1>1, <1>2, <1>3, <2>1, RunTypesStand
  <1>7. BeliefInv'
    <2>1. Mine(fence)' /\ Mine(record.fence)'
      BY <1>1, <1>2 DEF LInv, BeliefInv, FieldsOK, Mine
    <2>2. reply'.state = "held"
            => /\ Mine(reply.fence)'
               /\ Unreleased' => Granted(reply.fence, reply.expiry)'
      <3>1. CASE reply' = reply
        BY <1>1, <1>2, <3>1 DEF LInv, BeliefInv, FieldsOK, Mine, Granted,
           Held, Unreleased
      <3>2. CASE reply' # reply
        BY <1>3, <3>2 DEF Mine, Granted, Held
      <3> QED
        BY <3>1, <3>2
    <2>3. reply'.state = "released" => ~Unreleased' /\ GivenBack(fence)'
      BY <1>1, <1>2, <1>3, <1>4 DEF LInv, BeliefInv, FieldsOK, GivenBack,
         Unreleased
    <2>4. run' \in {"work", "ending"} => Granted(fence, known)'
      BY <1>1, <1>2 DEF LInv, BeliefInv, FieldsOK, Granted, Held, Unreleased
    <2>5. /\ record'.state = "held" /\ Unreleased'
               => Granted(record.fence, record.expiry)'
          /\ record'.state = "released" => GivenBack(record.fence)'
      BY <1>1, <1>2 DEF LInv, BeliefInv, FieldsOK, Granted, Held, Unreleased,
         GivenBack
    <2> QED
      BY <2>1, <2>2, <2>3, <2>4, <2>5 DEF BeliefInv
  <1>8. PlacesInv'
    BY <1>1, <1>4 DEF LInv, PlacesInv, Unreleased
  <1> QED
    BY <1>2, <1>5, <1>6, <1>7, <1>8 DEF LInv

\* Every step keeps the invariant.
LEMMA LeaseStepKeeps == LInv /\ [LeaseNext]_leaseVars => LInv'
  <1> SUFFICES ASSUME LInv, [LeaseNext]_leaseVars
               PROVE  LInv'
    OBVIOUS
  <1>1. CASE RunStep
    BY <1>1, AdoptLeaseKeeps, CallAcquireKeeps, AcquireAnsweredKeeps,
       AcquireQueriedKeeps, AcquireRecordedKeeps, AcquireRefusedKeeps,
       CallReleaseKeeps, ReleaseAnsweredKeeps, ReleasePolledKeeps, ReleaseLeftKeeps,
       ReleaseRecordedKeeps, RunSettledKeeps DEF RunStep
  <1>2. CASE Supervise
    BY <1>2, SupervisorWakesKeeps, RenewBeyondBoundKeeps, RenewAnsweredKeeps,
       QueryAnsweredKeeps, QuerySeveredKeeps, RenewRecordedKeeps,
       RenewRefusedKeeps, LossReportedKeeps DEF Supervise
  <1>3. CASE QueryReaches \/ WorkEnds
    BY <1>3, QueryReachesKeeps, WorkEndsKeeps
  <1>4. CASE \E call \in calls : PortHandles(call) \/ CallEnds(call)
    BY <1>4, PortHandlesKeeps, CallEndsKeeps
  <1>5. CASE OtherAcquires \/ Revoke \/ Tick
    BY <1>5, PortMovesKeep
  <1>6. CASE UNCHANGED leaseVars
    <2>1. /\ UNCHANGED <<now, run, sup, occurrence>>
          /\ UNCHANGED <<fence, known, fenced, wake, polls>>
          /\ UNCHANGED <<calls, reply, port, renewals, record, revoked>>
      BY <1>6 DEF leaseVars
    <2>2. PortKeeps
      BY <2>1, PortUntouched
    <2>3. CallsInv'
      BY <2>1, <2>2, CallsStand DEF Unreleased
    <2>4. LeaseTypeOK'
      <3>1. revoked' \in BOOLEAN /\ calls' \in SUBSET Calls /\ reply' \in Result
        BY <2>1 DEF LInv, LeaseTypeOK
      <3> QED
        BY <2>1, <2>2, <3>1, RunTypesStand DEF PortKeeps
    <2>5. BeliefInv' /\ PlacesInv'
      BY <2>1 DEF LInv, BeliefInv, PlacesInv, Unreleased, Mine, Granted,
         GivenBack, Held
    <2> QED
      BY <2>2, <2>3, <2>4, <2>5 DEF LInv, PortKeeps
  <1> QED
    BY <1>1, <1>2, <1>3, <1>4, <1>5, <1>6 DEF LeaseNext

\* A first run, and a run that finds its lease on record.
LEMMA LeaseStarts == LeaseInit => LInv
  <1> SUFFICES ASSUME LeaseInit
               PROVE  LInv
    OBVIOUS
  <1>1. /\ now = 0 /\ run = "start" /\ sup = "off" /\ occurrence = 0
        /\ fence = 0 /\ known = 0 /\ fenced = FALSE /\ wake = 0 /\ polls = 0
        /\ calls = {} /\ reply \in Result /\ reply.state = "unknown"
        /\ revoked = FALSE
    BY UnknownIs DEF LeaseInit
  <1>0. /\ now \in 0 .. MaxTime /\ occurrence \in 0 .. MaxOccurrence
        /\ fence \in Fences /\ known \in Times /\ wake \in Times
        /\ polls \in 0 .. PollBound /\ calls \in SUBSET Calls
        /\ fenced \in BOOLEAN /\ revoked \in BOOLEAN
    <2>1. /\ 0 \in 0 .. MaxTime /\ 0 \in 0 .. MaxOccurrence /\ 0 \in Fences
          /\ 0 \in Times /\ 0 \in 0 .. PollBound
      OBVIOUS
    <2> QED
      BY <1>1, <2>1, Zenon
  <1>2. CASE /\ port = [fence |-> 0, owner |-> "none", expiry |-> 0,
                        released |-> FALSE]
             /\ renewals = NoRenewals
             /\ record = [state |-> "none", fence |-> 0, expiry |-> 0]
    <2>1. /\ port \in [fence : Fences, owner : {"none", "run", "other"},
                     expiry : Times, released : BOOLEAN]
          /\ record \in [state : {"none", "held", "lost", "released"},
                       fence : Fences, expiry : Times]
          /\ renewals \in [Occurrences -> Times]
      BY <1>2 DEF NoRenewals
    <2>2. LeaseTypeOK
      BY <1>0, <1>1, <2>1, Zenon DEF LeaseTypeOK
    <2> QED
      BY <1>1, <1>2, <2>2 DEF LInv, PortInv, CallsInv, BeliefInv, PlacesInv,
         NoRenewals, Mine, Granted, GivenBack, Unreleased
  <1>3. ASSUME NEW e \in 1 .. TTL, NEW r \in 0 .. TTL, r > 0 => r >= e,
               port = [fence |-> 1, owner |-> "run",
                       expiry |-> IF r > e THEN r ELSE e, released |-> FALSE],
               renewals = [o \in Occurrences |-> IF o = 2 THEN r ELSE 0],
               record = [state |-> "held", fence |-> 1, expiry |-> e]
        PROVE  LInv
    <2>1. /\ (IF r > e THEN r ELSE e) \in Times
          /\ e \in Times /\ r \in Times /\ 1 \in Fences
      BY <1>3
    <2>2. LeaseTypeOK
      <3>1. /\ port \in [fence : Fences, owner : {"none", "run", "other"},
                       expiry : Times, released : BOOLEAN]
            /\ record \in [state : {"none", "held", "lost", "released"},
                         fence : Fences, expiry : Times]
        BY <1>3, <2>1
      <3>2. renewals \in [Occurrences -> Times]
        BY <1>3, <2>1
      <3> QED
        BY <1>0, <1>1, <3>1, <3>2, Zenon DEF LeaseTypeOK
    <2>3. PortInv
      BY <1>1, <1>3 DEF PortInv
    <2>4. BeliefInv /\ CallsInv /\ PlacesInv
      BY <1>1, <1>3 DEF CallsInv, BeliefInv, PlacesInv, Mine, Granted, Held,
         GivenBack,
         Unreleased
    <2> QED
      BY <2>2, <2>3, <2>4 DEF LInv
  <1> QED
    BY <1>2, <1>3 DEF LeaseInit

\* The inductive invariant of the lease holds in every state.
THEOREM LeaseInvariance == LeaseSpec => []LInv
  <1>1. LInv /\ [LeaseNext]_leaseVars => LInv'
    BY LeaseStepKeeps
  <1> QED
    BY <1>1, LeaseStarts, PTL DEF LeaseSpec

\* Every variable of the lease keeps its type.
THEOREM LeaseTypeCorrect == LeaseSpec => []LeaseTypeOK
  <1>1. LInv => LeaseTypeOK
    BY DEF LInv
  <1> QED
    BY <1>1, LeaseInvariance, PTL

\* superviseLease: while the run works under a known expiry that has not
\* passed, the port grants it that lease and nobody else has it, for any
\* lease time, renewal lead and number of renewals.
THEOREM KnownLeaseHeld == LeaseSpec => []KnownIsHeld
  <1>1. LInv => KnownIsHeld
    BY DEF LInv, BeliefInv, Granted, KnownIsHeld
  <1> QED
    BY <1>1, LeaseInvariance, PTL

\* Control's lease record: a lease it has as held is held until the run
\* releases it, and one it has as released is over.
THEOREM LeaseRecordTrue == LeaseSpec => []RecordIsTrue
  <1>1. LInv => RecordIsTrue
    BY DEF LInv, LeaseTypeOK, BeliefInv, Granted, GivenBack, Unreleased,
       RecordIsTrue
  <1> QED
    BY <1>1, LeaseInvariance, PTL

\* Nothing the run sent, however late it arrives, touches the lease of
\* another owner.
THEOREM OthersLeaseUntouched == LeaseSpec => OthersLeaseStays
  <1>1. ASSUME LInv, [LeaseNext]_leaseVars, Held, port.owner = "other"
        PROVE  port' = port /\ renewals' = renewals
    <2> FieldsOK
      BY <1>1, FieldsTyped
    <2>1. CASE RunStep
      BY <2>1 DEF RunStep, AdoptLease, CallAcquire, AcquireAnswered,
         AcquireQueried,
         AcquireRecorded, AcquireRefused, CallRelease, ReleaseAnswered,
         ReleasePolled, ReleaseLeft, ReleaseRecorded, RunSettled, RunGoes
    <2>2. CASE Supervise
      BY <2>2 DEF Supervise, SupervisorWakes, RenewBeyondBound, RenewAnswered,
         QueryAnswered, QuerySevered, RenewRecorded, RenewRefused,
         LossReported, SupervisorGoes, Fence, RenewUnanswered
    <2>3. CASE QueryReaches \/ WorkEnds
      BY <2>3 DEF QueryReaches, WorkEnds
    <2>4. ASSUME NEW call \in calls, PortHandles(call)
          PROVE  UNCHANGED portVars
      <3>1. /\ call.kind # "acquire" => Mine(call.fence)
            /\ call.fence \in Fences
        BY <1>1 DEF LInv, CallsInv, FieldsOK
      <3>2. call.kind # "acquire" => port.fence # call.fence
        BY <1>1, <3>1 DEF Mine
      <3> QED
        BY <1>1, <2>4, <3>2 DEF PortHandles, Acquire, Renew, Release
    <2>5. ASSUME NEW call \in calls, CallEnds(call)
          PROVE  UNCHANGED portVars
      BY <2>5 DEF CallEnds
    <2>6. CASE OtherAcquires \/ Revoke \/ Tick
      BY <1>1, <2>6 DEF OtherAcquires, Revoke, Tick
    <2>7. CASE UNCHANGED leaseVars
      BY <2>7 DEF leaseVars
    <2> QED
      BY <1>1, <2>1, <2>2, <2>3, <2>4, <2>5, <2>6, <2>7 DEF LeaseNext
  <1> QED
    BY <1>1, LeaseInvariance, PTL DEF LeaseSpec, OthersLeaseStays
=============================================================================
