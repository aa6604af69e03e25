--------------------------- MODULE ReleaseProofs ---------------------------
(***************************************************************************)
(* What holds of a release for every bound on its query rounds and polls:  *)
(* RInv is inductive (one lemma per action), so mutations go upstream in   *)
(* order, the projection says what happened, a final state stays and a     *)
(* cancellation stops the run; and the run uses each mutation as Effect    *)
(* allows.                                                                 *)
(***************************************************************************)
EXTENDS Release, TLAPS

USE RoundsAssumption, PollsAssumption DEF Targets, Mutations, Decisions, PCs,
    States, Verdicts

\* What the release state says of the two answers.
LEMMA PublicationStates ==
  ASSUME NEW f \in [Mutations -> Verdicts]
  PROVE  /\ PublicationState(f) \in {"reconciling", "published",
                "partially_published", "failed", "publishing"}
         /\ PublicationState(f) = "published"
              => f["npm"] = "succeeded" /\ f["browser"] = "succeeded"
         /\ PublicationState(f) = "partially_published" /\ f["npm"] = "succeeded"
              => f["browser"] \in {"failed", "denied"}
         /\ f["browser"] = "none"
              => PublicationState(f) \in {"reconciling", "publishing"}
         /\ f["npm"] = "succeeded" => PublicationState(f) # "failed"
  <1> DEFINE n == StateOf(f["npm"])  b == StateOf(f["browser"])
  <1>1. {StateOf(f[t]) : t \in Targets} = {n, b}
    OBVIOUS
  <1>2. /\ n \in {"pending", "unknown", "failed", "succeeded"}
        /\ b \in {"pending", "unknown", "failed", "succeeded"}
        /\ n = "succeeded" => f["npm"] = "succeeded"
        /\ b = "succeeded" => f["browser"] = "succeeded"
        /\ b = "failed" => f["browser"] \in {"failed", "denied"}
        /\ f["browser"] = "none" => b = "pending"
        /\ f["npm"] = "succeeded" => n = "succeeded"
    BY DEF StateOf
  <1> HIDE DEF n, b
  <1> QED
    BY <1>1, <1>2 DEF PublicationState

\* The first record precedes everything.
LEMMA StartKeeps ==
  ASSUME RInv, Start
  PROVE  RInv'
  <1> USE DEF RInv, runVars, askVars, worldVars, effectVars, Start,
       RecordThen, End, ErrorOutcome
  <1>1. TypeOK'
    BY DEF TypeOK
  <1>2. EffectInv'
    BY DEF TypeOK, EffectInv
  <1>3. TurnInv'
    BY DEF TypeOK, TurnInv, PlaceInv, Prior
  <1>4. PlaceInv'
    BY DEF TypeOK, TurnInv, PlaceInv, Prior
  <1>5. RecordInv' /\ SettledAgrees'
    BY DEF TypeOK, TurnInv, PlaceInv, RecordInv, SettledAgrees, Prior
  <1> QED
    BY <1>1, <1>2, <1>3, <1>4, <1>5

\* The source decides nothing upstream.
LEMMA ReadSourceKeeps ==
  ASSUME RInv, ReadSource
  PROVE  RInv'
  <1> USE DEF RInv, runVars, askVars, worldVars, effectVars, ReadSource,
       Prepare, Continue, Fail, RecordAndEnd, End, ErrorOutcome
  <1>1. TypeOK'
    BY DEF TypeOK
  <1>2. EffectInv'
    BY DEF TypeOK, EffectInv
  <1>3. TurnInv'
    BY DEF TypeOK, TurnInv, PlaceInv, Prior
  <1>4. PlaceInv'
    BY DEF TypeOK, TurnInv, PlaceInv, Prior
  <1>5. RecordInv' /\ SettledAgrees'
    BY DEF TypeOK, TurnInv, PlaceInv, RecordInv, SettledAgrees, Prior
  <1> QED
    BY <1>1, <1>2, <1>3, <1>4, <1>5

\* Nor does the certification.
LEMMA CertifyKeeps ==
  ASSUME RInv, Certify
  PROVE  RInv'
  <1> USE DEF RInv, runVars, askVars, worldVars, effectVars, Certify,
       Prepare, Continue, Fail, RecordAndEnd, End, ErrorOutcome
  <1>1. TypeOK'
    BY DEF TypeOK
  <1>2. EffectInv'
    BY DEF TypeOK, EffectInv
  <1>3. TurnInv'
    BY DEF TypeOK, TurnInv, PlaceInv, Prior
  <1>4. PlaceInv'
    BY DEF TypeOK, TurnInv, PlaceInv, Prior
  <1>5. RecordInv' /\ SettledAgrees'
    BY DEF TypeOK, TurnInv, PlaceInv, RecordInv, SettledAgrees, Prior
  <1> QED
    BY <1>1, <1>2, <1>3, <1>4, <1>5

\* Nor does the subject.
LEMMA BuildSubjectKeeps ==
  ASSUME RInv, BuildSubject
  PROVE  RInv'
  <1> USE DEF RInv, runVars, askVars, worldVars, effectVars, BuildSubject,
       Prepare, Continue, Fail, RecordAndEnd, End, ErrorOutcome
  <1>1. TypeOK'
    BY DEF TypeOK
  <1>2. EffectInv'
    BY DEF TypeOK, EffectInv
  <1>3. TurnInv'
    BY DEF TypeOK, TurnInv, PlaceInv, Prior
  <1>4. PlaceInv'
    BY DEF TypeOK, TurnInv, PlaceInv, Prior
  <1>5. RecordInv' /\ SettledAgrees'
    BY DEF TypeOK, TurnInv, PlaceInv, RecordInv, SettledAgrees, Prior
  <1> QED
    BY <1>1, <1>2, <1>3, <1>4, <1>5

\* The turn's mutation is the only one asked for.
LEMMA OpenKeeps ==
  ASSUME RInv, Open
  PROVE  RInv'
  <1> USE DEF RInv, runVars, askVars, worldVars, effectVars, Open, Continue
  <1>1. TypeOK'
    BY DEF TypeOK
  <1>2. EffectInv'
    BY DEF TypeOK, EffectInv
  <1>3. TurnInv'
    BY DEF TypeOK, TurnInv, PlaceInv, Prior
  <1>4. PlaceInv'
    BY DEF TypeOK, TurnInv, PlaceInv, Prior
  <1>5. RecordInv' /\ SettledAgrees'
    BY DEF TypeOK, TurnInv, PlaceInv, RecordInv, SettledAgrees, Prior
  <1> QED
    BY <1>1, <1>2, <1>3, <1>4, <1>5

\* An attempt that is not opened asks for nothing.
LEMMA OpenFailsKeeps ==
  ASSUME RInv, OpenFails
  PROVE  RInv'
  <1> USE DEF RInv, runVars, askVars, worldVars, effectVars, OpenFails,
       Coded, Continue, Fail, RecordAndEnd, End, ErrorOutcome
  <1>1. TypeOK'
    BY DEF TypeOK, PlaceInv
  <1>2. EffectInv'
    BY DEF TypeOK, EffectInv
  <1>3. TurnInv'
    BY DEF TypeOK, TurnInv, PlaceInv, Prior
  <1>4. PlaceInv'
    BY DEF TypeOK, TurnInv, PlaceInv, Prior
  <1>5. RecordInv' /\ SettledAgrees'
    BY DEF TypeOK, TurnInv, PlaceInv, RecordInv, SettledAgrees, Prior
  <1> QED
    BY <1>1, <1>2, <1>3, <1>4, <1>5

\* An error settles nothing.
LEMMA CallFailsKeeps ==
  ASSUME RInv, CallFails
  PROVE  RInv'
  <1> USE DEF RInv, runVars, askVars, worldVars, effectVars, CallFails,
       Coded, Continue, Fail, RecordAndEnd, End, ErrorOutcome
  <1>1. TypeOK'
    BY DEF TypeOK, PlaceInv
  <1>2. EffectInv'
    BY DEF TypeOK, EffectInv
  <1>3. TurnInv'
    BY DEF TypeOK, TurnInv, PlaceInv, Prior
  <1>4. PlaceInv'
    BY DEF TypeOK, TurnInv, PlaceInv, Prior
  <1>5. RecordInv' /\ SettledAgrees'
    BY DEF TypeOK, TurnInv, PlaceInv, RecordInv, SettledAgrees, Prior
  <1> QED
    BY <1>1, <1>2, <1>3, <1>4, <1>5

\* A registered review is the first success.
LEMMA ReviewAnsweredKeeps ==
  ASSUME RInv, NEW a \in Verdicts, ReviewAnswered(a)
  PROVE  RInv'
  <1> USE DEF RInv, runVars, askVars, worldVars, effectVars, ReviewAnswered,
       Answered, Answers, RecordThen, Fail, RecordAndEnd, End, ErrorOutcome
  <1>1. TypeOK'
    BY DEF TypeOK, PlaceInv
  <1>2. EffectInv'
    BY DEF TypeOK, EffectInv
  <1>3. TurnInv'
    BY DEF TypeOK, TurnInv, PlaceInv, Prior
  <1>4. PlaceInv'
    BY DEF TypeOK, TurnInv, PlaceInv, Prior
  <1>5. RecordInv' /\ SettledAgrees'
    BY DEF TypeOK, TurnInv, PlaceInv, RecordInv, SettledAgrees, Prior
  <1> QED
    BY <1>1, <1>2, <1>3, <1>4, <1>5

\* A target's first answer is recorded as it is.
LEMMA TargetAnsweredKeeps ==
  ASSUME RInv, NEW a \in Verdicts, TargetAnswered(a)
  PROVE  RInv'
  <1> DEFINE p == PublicationState(told')
  <1> USE DEF RInv, runVars, askVars, worldVars, effectVars, TargetAnswered,
       Answered
  <1>1. told' \in [Mutations -> Verdicts] /\ told' = [told EXCEPT ![turn] = a]
    BY DEF TypeOK
  <1>2. /\ p \in {"reconciling", "published", "partially_published", "failed", "publishing"}
        /\ p = "published" => told'["npm"] = "succeeded" /\ told'["browser"] = "succeeded"
        /\ p = "partially_published" /\ told'["npm"] = "succeeded"
             => told'["browser"] \in {"failed", "denied"}
        /\ told'["browser"] = "none" => p \in {"reconciling", "publishing"}
        /\ told'["npm"] = "succeeded" => p # "failed"
    BY <1>1, PublicationStates
  <1>3. /\ turn \in Targets /\ told[turn] = "none" /\ a \in Answers(turn) /\ pc = "call"
        /\ UNCHANGED <<turn, rounds, polls, asked, worldVars, effectVars>>
        /\ \/ recorded' = p /\ pc' = "evaluate" /\ UNCHANGED outcome
           \/ UNCHANGED recorded /\ pc' = "ended" /\ outcome' \in {"canceled", "failed"}
    BY DEF RecordThen, End, ErrorOutcome
  <1> HIDE DEF p, TargetAnswered, Answered
  <1>4. a \notin {"none", "error"} /\ (a = "succeeded" => upstream[turn] = "succeeded")
    BY <1>3 DEF Answers, TypeOK
  <1>5. TypeOK'
    BY <1>1, <1>2, <1>3 DEF TypeOK, PlaceInv
  <1>6. EffectInv'
    BY <1>1, <1>3, <1>4 DEF TypeOK, EffectInv
  <1>7. TurnInv'
    BY <1>1, <1>3 DEF TypeOK, TurnInv, Prior
  <1>8. PlaceInv'
    BY <1>1, <1>3, <1>4 DEF TypeOK, PlaceInv
  <1>9. RecordInv' /\ SettledAgrees'
    BY <1>1, <1>2, <1>3, <1>4 DEF TypeOK, TurnInv, PlaceInv, RecordInv,
       SettledAgrees, Prior
  <1> QED
    BY <1>5, <1>6, <1>7, <1>8, <1>9

\* So is the answer of a query round.
LEMMA TargetQueriedKeeps ==
  ASSUME RInv, NEW a \in Verdicts, TargetQueried(a)
  PROVE  RInv'
  <1> DEFINE p == PublicationState(told')
  <1> USE DEF RInv, runVars, askVars, worldVars, effectVars, TargetQueried,
       Answered
  <1>1. told' \in [Mutations -> Verdicts] /\ told' = [told EXCEPT ![turn] = a]
    BY DEF TypeOK
  <1>2. /\ p \in {"reconciling", "published", "partially_published", "failed", "publishing"}
        /\ p = "published" => told'["npm"] = "succeeded" /\ told'["browser"] = "succeeded"
        /\ p = "partially_published" /\ told'["npm"] = "succeeded"
             => told'["browser"] \in {"failed", "denied"}
        /\ told'["browser"] = "none" => p \in {"reconciling", "publishing"}
        /\ told'["npm"] = "succeeded" => p # "failed"
    BY <1>1, PublicationStates
  <1>3. /\ turn \in Targets /\ told[turn] = "unknown" /\ a \in Answers(turn) /\ pc = "call"
        /\ UNCHANGED <<turn, outcome, polls, asked, worldVars, effectVars>>
        /\ \/ a = "unknown" /\ rounds' = rounds + 1 /\ pc' = "pause" /\ UNCHANGED recorded
           \/ a # "unknown" /\ recorded' \in {p, recorded} /\ pc' = "evaluate" /\ UNCHANGED rounds
    BY DEF AskAgain, RecordIfAccepted, Continue
  <1> HIDE DEF p, TargetQueried, Answered
  <1>4. a \notin {"none", "error"} /\ (a = "succeeded" => upstream[turn] = "succeeded")
    BY <1>3 DEF Answers, TypeOK
  <1>5. TypeOK'
    BY <1>1, <1>2, <1>3 DEF TypeOK, PlaceInv
  <1>6. EffectInv'
    BY <1>1, <1>3, <1>4 DEF TypeOK, EffectInv
  <1>7. TurnInv'
    BY <1>1, <1>3 DEF TypeOK, TurnInv, Prior
  <1>8. PlaceInv'
    BY <1>1, <1>3, <1>4 DEF TypeOK, PlaceInv
  <1>9. RecordInv' /\ SettledAgrees'
    BY <1>1, <1>2, <1>3, <1>4 DEF TypeOK, TurnInv, PlaceInv, RecordInv,
       SettledAgrees, Prior
  <1> QED
    BY <1>5, <1>6, <1>7, <1>8, <1>9

\* An activated release has all three answers.
LEMMA ActivationAnsweredKeeps ==
  ASSUME RInv, NEW a \in Verdicts, ActivationAnswered(a)
  PROVE  RInv'
  <1> USE DEF RInv, runVars, askVars, worldVars, effectVars,
       ActivationAnswered, Answered, Answers, AskAgain, RecordIfAccepted,
       Continue, Fail, RecordAndEnd, End, ErrorOutcome
  <1>1. TypeOK'
    BY DEF TypeOK, PlaceInv
  <1>2. EffectInv'
    BY DEF TypeOK, EffectInv
  <1>3. TurnInv'
    BY DEF TypeOK, TurnInv, PlaceInv, Prior
  <1>4. PlaceInv'
    BY DEF TypeOK, TurnInv, PlaceInv, Prior
  <1>5. RecordInv' /\ SettledAgrees'
    BY DEF TypeOK, TurnInv, PlaceInv, RecordInv, SettledAgrees, Prior
  <1> QED
    BY <1>1, <1>2, <1>3, <1>4, <1>5

\* A pause changes nothing.
LEMMA PauseKeeps ==
  ASSUME RInv, Pause
  PROVE  RInv'
  <1> USE DEF RInv, runVars, askVars, worldVars, effectVars, Pause, Continue
  <1>1. TypeOK'
    BY DEF TypeOK, PlaceInv
  <1>2. EffectInv'
    BY DEF TypeOK, EffectInv
  <1>3. TurnInv'
    BY DEF TypeOK, TurnInv, PlaceInv, Prior
  <1>4. PlaceInv'
    BY DEF TypeOK, TurnInv, PlaceInv, Prior
  <1>5. RecordInv' /\ SettledAgrees'
    BY DEF TypeOK, TurnInv, PlaceInv, RecordInv, SettledAgrees, Prior
  <1> QED
    BY <1>1, <1>2, <1>3, <1>4, <1>5

\* An unknown mutation stays unknown.
LEMMA LeaveQueriesKeeps ==
  ASSUME RInv, LeaveQueries
  PROVE  RInv'
  <1> USE DEF RInv, runVars, askVars, worldVars, effectVars, LeaveQueries, End
  <1>1. TypeOK'
    BY DEF TypeOK
  <1>2. EffectInv'
    BY DEF TypeOK, EffectInv
  <1>3. TurnInv'
    BY DEF TypeOK, TurnInv, PlaceInv, Prior
  <1>4. PlaceInv'
    BY DEF TypeOK, TurnInv, PlaceInv, Prior
  <1>5. RecordInv' /\ SettledAgrees'
    BY DEF TypeOK, TurnInv, PlaceInv, RecordInv, SettledAgrees, Prior
  <1> QED
    BY <1>1, <1>2, <1>3, <1>4, <1>5

\* Only a success passes the turn on.
LEMMA EvaluateKeeps ==
  ASSUME RInv, Evaluate
  PROVE  RInv'
  <1> USE DEF RInv, runVars, askVars, worldVars, effectVars, Evaluate,
       Continue, Fail, RecordAndEnd, RecordThen, End, ErrorOutcome
  <1>1. TypeOK'
    BY DEF TypeOK
  <1>2. EffectInv'
    BY DEF TypeOK, EffectInv
  <1>3. TurnInv'
    BY DEF TypeOK, TurnInv, PlaceInv, Prior
  <1>4. PlaceInv'
    BY DEF TypeOK, TurnInv, PlaceInv, Prior
  <1>5. RecordInv' /\ SettledAgrees'
    BY DEF TypeOK, TurnInv, PlaceInv, RecordInv, SettledAgrees, Prior
  <1> QED
    BY <1>1, <1>2, <1>3, <1>4, <1>5

\* Polling changes nothing.
LEMMA PollKeeps ==
  ASSUME RInv, Poll
  PROVE  RInv'
  <1> USE DEF RInv, runVars, askVars, worldVars, effectVars, Poll
  <1>1. TypeOK'
    BY DEF TypeOK
  <1>2. EffectInv'
    BY DEF TypeOK, EffectInv
  <1>3. TurnInv'
    BY DEF TypeOK, TurnInv, PlaceInv, Prior
  <1>4. PlaceInv'
    BY DEF TypeOK, TurnInv, PlaceInv, Prior
  <1>5. RecordInv' /\ SettledAgrees'
    BY DEF TypeOK, TurnInv, PlaceInv, RecordInv, SettledAgrees, Prior
  <1> QED
    BY <1>1, <1>2, <1>3, <1>4, <1>5

\* Publishing is recorded before the first target.
LEMMA ApprovedKeeps ==
  ASSUME RInv, Approved
  PROVE  RInv'
  <1> USE DEF RInv, runVars, askVars, worldVars, effectVars, Approved,
       RecordThen, End, ErrorOutcome
  <1>1. TypeOK'
    BY DEF TypeOK
  <1>2. EffectInv'
    BY DEF TypeOK, EffectInv
  <1>3. TurnInv'
    BY DEF TypeOK, TurnInv, PlaceInv, Prior
  <1>4. PlaceInv'
    BY DEF TypeOK, TurnInv, PlaceInv, Prior
  <1>5. RecordInv' /\ SettledAgrees'
    BY DEF TypeOK, TurnInv, PlaceInv, RecordInv, SettledAgrees, Prior
  <1> QED
    BY <1>1, <1>2, <1>3, <1>4, <1>5

\* A rejected release was never published.
LEMMA DisapprovedKeeps ==
  ASSUME RInv, Disapproved
  PROVE  RInv'
  <1> USE DEF RInv, runVars, askVars, worldVars, effectVars, Disapproved,
       Fail, RecordAndEnd, End, ErrorOutcome
  <1>1. TypeOK'
    BY DEF TypeOK
  <1>2. EffectInv'
    BY DEF TypeOK, EffectInv
  <1>3. TurnInv'
    BY DEF TypeOK, TurnInv, PlaceInv, Prior
  <1>4. PlaceInv'
    BY DEF TypeOK, TurnInv, PlaceInv, Prior
  <1>5. RecordInv' /\ SettledAgrees'
    BY DEF TypeOK, TurnInv, PlaceInv, RecordInv, SettledAgrees, Prior
  <1> QED
    BY <1>1, <1>2, <1>3, <1>4, <1>5

\* Nor was one without a decision.
LEMMA UndecidedKeeps ==
  ASSUME RInv, Undecided
  PROVE  RInv'
  <1> USE DEF RInv, runVars, askVars, worldVars, effectVars, Undecided, Fail,
       RecordAndEnd, End, ErrorOutcome
  <1>1. TypeOK'
    BY DEF TypeOK
  <1>2. EffectInv'
    BY DEF TypeOK, EffectInv
  <1>3. TurnInv'
    BY DEF TypeOK, TurnInv, PlaceInv, Prior
  <1>4. PlaceInv'
    BY DEF TypeOK, TurnInv, PlaceInv, Prior
  <1>5. RecordInv' /\ SettledAgrees'
    BY DEF TypeOK, TurnInv, PlaceInv, RecordInv, SettledAgrees, Prior
  <1> QED
    BY <1>1, <1>2, <1>3, <1>4, <1>5

\* Nor was one canceled in the wait.
LEMMA AwaitCanceledKeeps ==
  ASSUME RInv, AwaitCanceled
  PROVE  RInv'
  <1> USE DEF RInv, runVars, askVars, worldVars, effectVars, AwaitCanceled,
       RecordIfAccepted, End
  <1>1. TypeOK'
    BY DEF TypeOK
  <1>2. EffectInv'
    BY DEF TypeOK, EffectInv
  <1>3. TurnInv'
    BY DEF TypeOK, TurnInv, PlaceInv, Prior
  <1>4. PlaceInv'
    BY DEF TypeOK, TurnInv, PlaceInv, Prior
  <1>5. RecordInv' /\ SettledAgrees'
    BY DEF TypeOK, TurnInv, PlaceInv, RecordInv, SettledAgrees, Prior
  <1> QED
    BY <1>1, <1>2, <1>3, <1>4, <1>5

\* A passed check changes nothing.
LEMMA NotCanceledKeeps ==
  ASSUME RInv, NotCanceled
  PROVE  RInv'
  <1> USE DEF RInv, runVars, askVars, worldVars, effectVars, NotCanceled,
       Continue
  <1>1. TypeOK'
    BY DEF TypeOK
  <1>2. EffectInv'
    BY DEF TypeOK, EffectInv
  <1>3. TurnInv'
    BY DEF TypeOK, TurnInv, PlaceInv, Prior
  <1>4. PlaceInv'
    BY DEF TypeOK, TurnInv, PlaceInv, Prior
  <1>5. RecordInv' /\ SettledAgrees'
    BY DEF TypeOK, TurnInv, PlaceInv, RecordInv, SettledAgrees, Prior
  <1> QED
    BY <1>1, <1>2, <1>3, <1>4, <1>5

\* A canceled release records what the answers support.
LEMMA CanceledKeeps ==
  ASSUME RInv, Canceled
  PROVE  RInv'
  <1> USE DEF RInv, runVars, askVars, worldVars, effectVars, Canceled,
       RecordIfAccepted, End
  <1>0. told \in [Mutations -> Verdicts]
    BY DEF TypeOK
  <1>1. TypeOK'
    BY <1>0, PublicationStates DEF TypeOK
  <1>2. EffectInv'
    BY DEF TypeOK, EffectInv
  <1>3. TurnInv'
    BY DEF TypeOK, TurnInv, PlaceInv, Prior
  <1>4. PlaceInv'
    BY DEF TypeOK, TurnInv, PlaceInv, Prior
  <1>5. RecordInv' /\ SettledAgrees'
    BY <1>0, PublicationStates DEF TypeOK, TurnInv, PlaceInv, RecordInv,
       SettledAgrees, Prior
  <1> QED
    BY <1>1, <1>2, <1>3, <1>4, <1>5

\* A passed approval changes nothing.
LEMMA StillApprovedKeeps ==
  ASSUME RInv, StillApproved
  PROVE  RInv'
  <1> USE DEF RInv, runVars, askVars, worldVars, effectVars, StillApproved,
       Continue
  <1>1. TypeOK'
    BY DEF TypeOK
  <1>2. EffectInv'
    BY DEF TypeOK, EffectInv
  <1>3. TurnInv'
    BY DEF TypeOK, TurnInv, PlaceInv, Prior
  <1>4. PlaceInv'
    BY DEF TypeOK, TurnInv, PlaceInv, Prior
  <1>5. RecordInv' /\ SettledAgrees'
    BY DEF TypeOK, TurnInv, PlaceInv, RecordInv, SettledAgrees, Prior
  <1> QED
    BY <1>1, <1>2, <1>3, <1>4, <1>5

\* A revoked approval ends the run.
LEMMA NotApprovedKeeps ==
  ASSUME RInv, NotApproved
  PROVE  RInv'
  <1> USE DEF RInv, runVars, askVars, worldVars, effectVars, NotApproved,
       Fail, RecordAndEnd, End, ErrorOutcome
  <1>1. TypeOK'
    BY DEF TypeOK
  <1>2. EffectInv'
    BY DEF TypeOK, EffectInv
  <1>3. TurnInv'
    BY DEF TypeOK, TurnInv, PlaceInv, Prior
  <1>4. PlaceInv'
    BY DEF TypeOK, TurnInv, PlaceInv, Prior
  <1>5. RecordInv' /\ SettledAgrees'
    BY DEF TypeOK, TurnInv, PlaceInv, RecordInv, SettledAgrees, Prior
  <1> QED
    BY <1>1, <1>2, <1>3, <1>4, <1>5

\* The catalog revision decides nothing upstream.
LEMMA ReadCatalogKeeps ==
  ASSUME RInv, ReadCatalog
  PROVE  RInv'
  <1> USE DEF RInv, runVars, askVars, worldVars, effectVars, ReadCatalog,
       Continue, End, ErrorOutcome
  <1>1. TypeOK'
    BY DEF TypeOK
  <1>2. EffectInv'
    BY DEF TypeOK, EffectInv
  <1>3. TurnInv'
    BY DEF TypeOK, TurnInv, PlaceInv, Prior
  <1>4. PlaceInv'
    BY DEF TypeOK, TurnInv, PlaceInv, Prior
  <1>5. RecordInv' /\ SettledAgrees'
    BY DEF TypeOK, TurnInv, PlaceInv, RecordInv, SettledAgrees, Prior
  <1> QED
    BY <1>1, <1>2, <1>3, <1>4, <1>5

\* The request itself changes nothing.
LEMMA CancelRequestedKeeps ==
  ASSUME RInv, CancelRequested
  PROVE  RInv'
  <1> USE DEF RInv, runVars, askVars, worldVars, effectVars, CancelRequested
  <1>1. TypeOK'
    BY DEF TypeOK
  <1>2. EffectInv'
    BY DEF TypeOK, EffectInv
  <1>3. TurnInv'
    BY DEF TypeOK, TurnInv, PlaceInv, Prior
  <1>4. PlaceInv'
    BY DEF TypeOK, TurnInv, PlaceInv, Prior
  <1>5. RecordInv' /\ SettledAgrees'
    BY DEF TypeOK, TurnInv, PlaceInv, RecordInv, SettledAgrees, Prior
  <1> QED
    BY <1>1, <1>2, <1>3, <1>4, <1>5

\* Nor does a decision.
LEMMA DecideKeeps ==
  ASSUME RInv, Decide
  PROVE  RInv'
  <1> USE DEF RInv, runVars, askVars, worldVars, effectVars, Decide
  <1>1. TypeOK'
    BY DEF TypeOK
  <1>2. EffectInv'
    BY DEF TypeOK, EffectInv
  <1>3. TurnInv'
    BY DEF TypeOK, TurnInv, PlaceInv, Prior
  <1>4. PlaceInv'
    BY DEF TypeOK, TurnInv, PlaceInv, Prior
  <1>5. RecordInv' /\ SettledAgrees'
    BY DEF TypeOK, TurnInv, PlaceInv, RecordInv, SettledAgrees, Prior
  <1> QED
    BY <1>1, <1>2, <1>3, <1>4, <1>5

\* Nor does the clock.
LEMMA DeadlinePassesKeeps ==
  ASSUME RInv, DeadlinePasses
  PROVE  RInv'
  <1> USE DEF RInv, runVars, askVars, worldVars, effectVars, DeadlinePasses
  <1>1. TypeOK'
    BY DEF TypeOK
  <1>2. EffectInv'
    BY DEF TypeOK, EffectInv
  <1>3. TurnInv'
    BY DEF TypeOK, TurnInv, PlaceInv, Prior
  <1>4. PlaceInv'
    BY DEF TypeOK, TurnInv, PlaceInv, Prior
  <1>5. RecordInv' /\ SettledAgrees'
    BY DEF TypeOK, TurnInv, PlaceInv, RecordInv, SettledAgrees, Prior
  <1> QED
    BY <1>1, <1>2, <1>3, <1>4, <1>5

\* What is sent was asked for.
LEMMA SendEffectKeeps ==
  ASSUME RInv, NEW k \in Mutations, SendEffect(k)
  PROVE  RInv'
  <1> USE DEF RInv, runVars, askVars, worldVars, effectVars, SendEffect
  <1>1. TypeOK'
    BY DEF TypeOK
  <1>2. EffectInv'
    BY DEF TypeOK, EffectInv
  <1>3. TurnInv'
    BY DEF TypeOK, TurnInv, PlaceInv, Prior
  <1>4. PlaceInv'
    BY DEF TypeOK, TurnInv, PlaceInv, Prior
  <1>5. RecordInv' /\ SettledAgrees'
    BY DEF TypeOK, TurnInv, PlaceInv, RecordInv, SettledAgrees, Prior
  <1> QED
    BY <1>1, <1>2, <1>3, <1>4, <1>5

\* The upstream decides once.
LEMMA TakeEffectKeeps ==
  ASSUME RInv, NEW k \in Mutations, TakeEffect(k)
  PROVE  RInv'
  <1> USE DEF RInv, runVars, askVars, worldVars, effectVars, TakeEffect
  <1>1. TypeOK'
    BY DEF TypeOK
  <1>2. EffectInv'
    BY DEF TypeOK, EffectInv
  <1>3. TurnInv'
    BY DEF TypeOK, TurnInv, PlaceInv, Prior
  <1>4. PlaceInv'
    BY DEF TypeOK, TurnInv, PlaceInv, Prior
  <1>5. RecordInv' /\ SettledAgrees'
    BY DEF TypeOK, TurnInv, PlaceInv, RecordInv, SettledAgrees, Prior
  <1> QED
    BY <1>1, <1>2, <1>3, <1>4, <1>5

\* Every step keeps the invariant.
LEMMA NextKeeps ==
  ASSUME RInv, [Next]_vars
  PROVE  RInv'
  <1>1. CASE RunStep
    <2>1. CASE Start \/ ReadSource \/ Certify \/ BuildSubject
      BY <2>1, StartKeeps, ReadSourceKeeps, CertifyKeeps, BuildSubjectKeeps
    <2>2. CASE Open \/ OpenFails \/ CallFails
      BY <2>2, OpenKeeps, OpenFailsKeeps, CallFailsKeeps
    <2>3. ASSUME NEW a \in Verdicts, ReviewAnswered(a) \/ TargetAnswered(a)
                                    \/ TargetQueried(a) \/ ActivationAnswered(a)
          PROVE  RInv'
      BY <2>3, ReviewAnsweredKeeps, TargetAnsweredKeeps, TargetQueriedKeeps,
         ActivationAnsweredKeeps
    <2>4. CASE Pause \/ LeaveQueries \/ Evaluate
      BY <2>4, PauseKeeps, LeaveQueriesKeeps, EvaluateKeeps
    <2>5. CASE Poll \/ Approved \/ Disapproved \/ Undecided \/ AwaitCanceled
      BY <2>5, PollKeeps, ApprovedKeeps, DisapprovedKeeps, UndecidedKeeps,
         AwaitCanceledKeeps
    <2>6. CASE NotCanceled \/ Canceled \/ StillApproved \/ NotApproved \/ ReadCatalog
      BY <2>6, NotCanceledKeeps, CanceledKeeps, StillApprovedKeeps,
         NotApprovedKeeps, ReadCatalogKeeps
    <2> QED
      BY <1>1, <2>1, <2>2, <2>3, <2>4, <2>5, <2>6 DEF RunStep
  <1>2. CASE World
    <2>1. CASE CancelRequested \/ Decide \/ DeadlinePasses
      BY <2>1, CancelRequestedKeeps, DecideKeeps, DeadlinePassesKeeps
    <2>2. ASSUME NEW k \in Mutations, SendEffect(k) \/ TakeEffect(k)
          PROVE  RInv'
      BY <2>2, SendEffectKeeps, TakeEffectKeeps
    <2> QED
      BY <1>2, <2>1, <2>2 DEF World
  <1>3. CASE UNCHANGED vars
    BY <1>3 DEF vars, runVars, askVars, worldVars, effectVars, RInv, TypeOK,
       EffectInv, TurnInv, PlaceInv, RecordInv, SettledAgrees
  <1> QED
    BY <1>1, <1>2, <1>3 DEF Next

\* The inductive invariant holds in every reachable state of a release.
THEOREM Invariance == Spec => []RInv
  <1>1. ASSUME Init PROVE RInv
    <2> USE <1>1 DEF Init
    <2>1. TypeOK
      <3>1. rounds \in 0 .. Rounds /\ polls \in 0 .. PollsPerRun - 1
        OBVIOUS
      <3>2. /\ told \in [Mutations -> Verdicts]
            /\ upstream \in [Mutations -> {"none", "succeeded", "failed"}]
        OBVIOUS
      <3> QED
        BY <3>1, <3>2, Zenon DEF TypeOK
    <2>2. EffectInv /\ PlaceInv /\ RecordInv /\ SettledAgrees
      BY DEF EffectInv, PlaceInv, RecordInv, SettledAgrees
    <2>3. Prior(turn) = {}
      BY DEF Prior
    <2> QED
      BY <2>1, <2>2, <2>3 DEF RInv, TurnInv
  <1> QED
    BY <1>1, NextKeeps, PTL DEF Spec

\* Every variable keeps its type; the query rounds and the polls of a run
\* keep their bounds.
THEOREM TypeCorrect == Spec => []TypeOK
  <1>1. RInv => TypeOK
    BY DEF RInv
  <1> QED
    BY <1>1, Invariance, PTL

\* No mutation goes upstream before the one it builds on happened there.
THEOREM Ordered == Spec => []PublicationOrder
  <1>1. RInv => PublicationOrder
    BY DEF RInv, TypeOK, EffectInv, TurnInv, Prior, PublicationOrder, Before
  <1> QED
    BY <1>1, Invariance, PTL

\* What the projection claims happened upstream, and nothing was published
\* behind it.
THEOREM ProjectionFaithful == Spec => [](ProjectionTrue /\ ProjectionCoversSends)
  <1>1. RInv => ProjectionTrue
    BY DEF RInv, TypeOK, EffectInv, RecordInv, ProjectionTrue
  <1>2. RInv => ProjectionCoversSends
    BY DEF RInv, TypeOK, EffectInv, RecordInv, ProjectionCoversSends
  <1> QED
    BY <1>1, <1>2, Invariance, PTL

\* A run that ends succeeds exactly if its projection says activated.
THEOREM SettlementAgrees == Spec => []SettledAgrees
  <1>1. RInv => SettledAgrees
    BY DEF RInv
  <1> QED
    BY <1>1, Invariance, PTL

-----------------------------------------------------------------------------
\* A step from a final state of the projection leaves the projection alone.
LEMMA FinalKept ==
  ASSUME RInv, [Next]_vars,
         recorded \in {"activated", "partially_published", "rejected", "failed"}
  PROVE  recorded' = recorded
  <1>1. pc = "ended" \/ (pc = "evaluate" /\ turn = "browser"
                          /\ told[turn] \in {"failed", "denied"})
    BY DEF RInv, RecordInv
  <1>2. CASE Evaluate
    BY <1>1, <1>2 DEF Evaluate
  <1>3. CASE RunStep /\ ~Evaluate
    <2>1. \A a \in Verdicts : ~(ReviewAnswered(a) \/ TargetAnswered(a)
                               \/ TargetQueried(a) \/ ActivationAnswered(a))
      BY <1>1 DEF ReviewAnswered, TargetAnswered, TargetQueried,
         ActivationAnswered, Answered
    <2> QED
      BY <1>1, <1>3, <2>1 DEF RunStep, Start, ReadSource, Certify,
         BuildSubject,
         Prepare, Open, OpenFails, CallFails, Pause, LeaveQueries, Poll, Approved,
         Disapproved, Undecided, AwaitCanceled, NotCanceled, Canceled,
         StillApproved, NotApproved, ReadCatalog
  <1>4. CASE World \/ UNCHANGED vars
    BY <1>4 DEF World, CancelRequested, Decide, DeadlinePasses, SendEffect,
       TakeEffect, vars
  <1> QED
    BY <1>2, <1>3, <1>4 DEF Next

\* A final state of the projection is never replaced.
THEOREM FinalIsFinal == Spec => FinalStays
  <1>1. ASSUME RInv, [Next]_vars
        PROVE  [(recorded \in {"activated", "partially_published", "rejected", "failed"})
                  => recorded' = recorded]_vars
    BY <1>1, FinalKept
  <1> QED
    BY <1>1, Invariance, PTL DEF Spec, FinalStays

\* A run that knows of its cancellation asks for no further mutation.
THEOREM CancellationStops == Spec => CancelStops
  <1>1. ASSUME [Next]_vars, canceled PROVE asked' = asked
    <2>1. CASE RunStep
      <3>1. ~Open
        BY <1>1 DEF Open
      <3>2. \A a \in Verdicts : Answered(a) => asked' = asked
        BY DEF Answered
      <3> QED
        BY <2>1, <3>1, <3>2 DEF RunStep, Start, ReadSource, Certify,
           BuildSubject,
           Prepare, OpenFails, CallFails, ReviewAnswered, TargetAnswered,
           TargetQueried, ActivationAnswered, Pause, LeaveQueries, Evaluate, Poll,
           Approved, Disapproved, Undecided, AwaitCanceled, NotCanceled, Canceled,
           StillApproved, NotApproved, ReadCatalog, askVars
    <2>2. CASE World \/ UNCHANGED vars
      BY <2>2 DEF World, CancelRequested, Decide, DeadlinePasses, SendEffect,
         TakeEffect, vars, askVars
    <2> QED
      BY <1>1, <2>1, <2>2 DEF Next
  <1>2. ASSUME [Next]_vars PROVE [canceled => asked' = asked]_vars
    BY <1>1, <1>2
  <1> QED
    BY <1>2, PTL DEF Spec, CancelStops

\* Until mutation k is asked for, the run is not past the reread before it.
Unapproved(k) == k \notin asked /\ (turn = k => pc \in {"check", "approve", "ended"})

\* Only an approval read in its own turn takes the run to mutation k.
LEMMA UnapprovedKept ==
  ASSUME RInv, [Next]_vars, NEW k \in DOMAIN Before, Unapproved(k),
         told[Before[k]] = "succeeded" /\ k \notin asked => decision # "approved"
  PROVE  Unapproved(k)'
  <1> USE DEF Unapproved, runVars, askVars, worldVars, effectVars, Before
  <1>1. k \in {"npm", "browser", "activation"} /\ k # "review"
    OBVIOUS
  <1>2. CASE Open
    BY <1>1, <1>2 DEF Open, Continue
  <1>3. CASE StillApproved
    <2>1. turn = k => told[Before[k]] = "succeeded"
      BY <1>1 DEF RInv, TurnInv, Prior
    <2> QED
      BY <1>3, <2>1 DEF StillApproved, Continue
  <1>4. CASE Approved \/ Evaluate
    BY <1>1, <1>4 DEF Approved, Evaluate, RecordThen, Continue, Fail, RecordAndEnd,
       End, ErrorOutcome
  <1>5. CASE Start \/ ReadSource \/ Certify \/ BuildSubject
    BY <1>1, <1>5 DEF Start, ReadSource, Certify, BuildSubject, Prepare, RInv, PlaceInv,
       RecordThen, Continue, Fail, RecordAndEnd, End, ErrorOutcome
  <1>6. CASE OpenFails \/ CallFails
    BY <1>1, <1>6 DEF OpenFails, CallFails
  <1>7. ASSUME NEW a \in Verdicts,
               ReviewAnswered(a) \/ TargetAnswered(a) \/ TargetQueried(a)
                 \/ ActivationAnswered(a)
        PROVE  Unapproved(k)'
    BY <1>1, <1>7 DEF ReviewAnswered, TargetAnswered, TargetQueried, ActivationAnswered,
       Answered
  <1>8. CASE Pause \/ LeaveQueries \/ Poll \/ Disapproved \/ Undecided \/ AwaitCanceled
    BY <1>1, <1>8 DEF Pause, LeaveQueries, Poll, Disapproved, Undecided, AwaitCanceled
  <1>9. CASE NotCanceled \/ Canceled \/ NotApproved \/ ReadCatalog
    BY <1>1, <1>9 DEF NotCanceled, Canceled, NotApproved, ReadCatalog, Continue, Fail,
       RecordAndEnd, End, ErrorOutcome
  <1>10. CASE World \/ UNCHANGED vars
    BY <1>10 DEF World, CancelRequested, Decide, DeadlinePasses, SendEffect,
       TakeEffect, vars
  <1> QED
    BY <1>2, <1>3, <1>4, <1>5, <1>6, <1>7, <1>8, <1>9, <1>10 DEF Next, RunStep

\* The approval is read again between mutations: none is asked for if the
\* release was not approved at some moment after the answer it builds on.
THEOREM ApprovalIsReread == Spec => ApprovalReread
  <1>1. ASSUME NEW k \in DOMAIN Before
        PROVE  Spec => ([](told[Before[k]] = "succeeded" /\ k \notin asked => decision # "approved")
                          => [](k \notin asked))
    <2>1. Init => Unapproved(k)
      BY DEF Init, Unapproved, Before
    <2>2. RInv /\ [Next]_vars /\ Unapproved(k)
            /\ (told[Before[k]] = "succeeded" /\ k \notin asked => decision # "approved")
            => Unapproved(k)'
      BY UnapprovedKept
    <2>3. Unapproved(k) => k \notin asked
      BY DEF Unapproved
    <2> QED
      BY <2>1, <2>2, <2>3, Invariance, PTL DEF Spec
  <1> QED
    BY <1>1 DEF ApprovalReread

-----------------------------------------------------------------------------
\* A step is, for each mutation, a step of its effect or nothing.
LEMMA StepMaps ==
  ASSUME RInv, [Next]_vars, NEW k \in Mutations
  PROVE  Mutation(k)!Next \/ UNCHANGED Mutation(k)!vars
  <1> USE DEF Mutation!vars
  <1>1. CASE told' = told /\ sent' = sent /\ upstream' = upstream
    BY <1>1
  <1>2. ASSUME NEW a \in Verdicts, Answered(a)
        PROVE  Mutation(k)!Next \/ UNCHANGED Mutation(k)!vars
    <2>1. UNCHANGED <<sent, upstream>> /\ told[turn] \in {"none", "unknown"}
      BY <1>2 DEF Answered, effectVars, RInv, PlaceInv
    <2>2. CASE k = turn
      BY <1>2, <2>1, <2>2 DEF Answered, Answers, RInv, TypeOK, Mutation!Next,
         Mutation!Tell, Mutation!Unsettled, Mutation!Answers
    <2>3. CASE k # turn
      BY <1>2, <2>1, <2>3 DEF Answered, RInv, TypeOK
    <2> QED
      BY <2>2, <2>3
  <1>3. CASE CallFails
    <2>1. UNCHANGED <<sent, upstream>> /\ told[turn] \in {"none", "unknown"}
      BY <1>3 DEF CallFails, effectVars, RInv, PlaceInv
    <2>2. told' = [told EXCEPT ![turn] = IF @ = "none" THEN "error" ELSE @]
      BY <1>3 DEF CallFails
    <2>3. CASE k = turn
      BY <2>1, <2>2, <2>3 DEF RInv, TypeOK, Mutation!Next,
         Mutation!Tell, Mutation!Unsettled, Mutation!Answers
    <2>4. CASE k # turn
      BY <2>1, <2>2, <2>4 DEF RInv, TypeOK
    <2> QED
      BY <2>3, <2>4
  <1>4. ASSUME NEW j \in Mutations, SendEffect(j)
        PROVE  Mutation(k)!Next \/ UNCHANGED Mutation(k)!vars
    BY <1>4 DEF SendEffect, askVars, RInv, TypeOK, Mutation!Next, Mutation!Send
  <1>5. ASSUME NEW j \in Mutations, TakeEffect(j)
        PROVE  Mutation(k)!Next \/ UNCHANGED Mutation(k)!vars
    BY <1>5 DEF TakeEffect, askVars, RInv, TypeOK, Mutation!Next,
       Mutation!TakeEffect
  <1>6. CASE RunStep
    <2>1. CASE \E a \in Verdicts : Answered(a)
      BY <1>2, <2>1
    <2>2. CASE CallFails
      BY <1>3, <2>2
    <2>3. CASE ~CallFails /\ \A a \in Verdicts : ~Answered(a)
      <3>1. told' = told /\ sent' = sent /\ upstream' = upstream
        BY <1>6, <2>3 DEF RunStep, Start, ReadSource, Certify, BuildSubject,
           Prepare, Open, OpenFails, ReviewAnswered, TargetAnswered,
           TargetQueried, ActivationAnswered, Pause, LeaveQueries, Evaluate, Poll,
           Approved, Disapproved, Undecided, AwaitCanceled, NotCanceled, Canceled,
           StillApproved, NotApproved, ReadCatalog, askVars, effectVars
      <3> QED
        BY <1>1, <3>1
    <2> QED
      BY <2>1, <2>2, <2>3
  <1>7. CASE World \/ UNCHANGED vars
    <2>1. CASE CancelRequested \/ Decide \/ DeadlinePasses \/ UNCHANGED vars
      BY <1>1, <2>1 DEF CancelRequested, Decide, DeadlinePasses, vars, askVars,
         effectVars
    <2> QED
      BY <1>4, <1>5, <1>7, <2>1 DEF World
  <1> QED
    BY <1>6, <1>7 DEF Next

\* The run asks for each of its four mutations as the effect contract allows.
THEOREM EffectsUsed == Spec => UsesEffects
  <1>1. Init => \A k \in Mutations : Mutation(k)!Init
    BY DEF Init, Mutation!Init
  <1>2. ASSUME RInv, [Next]_vars
        PROVE  [\A k \in Mutations : Mutation(k)!Next \/ UNCHANGED Mutation(k)!vars]_vars
    BY <1>2, StepMaps
  <1> QED
    BY <1>1, <1>2, Invariance, PTL DEF Spec, UsesEffects

-----------------------------------------------------------------------------
\* A step that changes only the place in the round goes on to a later one.
LEMMA LaterPlace ==
  ASSUME UNCHANGED <<turn, told, rounds>>, Place[pc'] > Place[pc]
  PROVE  Further
  BY DEF Further, Heard

\* So does any end of the run.
LEMMA EndIsFurther ==
  ASSUME RInv, pc # "ended", pc' = "ended", UNCHANGED <<turn, told, rounds>>
  PROVE  Further
  <1>1. Place["ended"] > Place[pc]
    BY DEF RInv, TypeOK, PCs, Place
  <1> QED
    BY <1>1, LaterPlace

\* Up to the first call: the steps before the mutations.
LEMMA PreparationsGoFurther ==
  ASSUME RInv, Start \/ ReadSource \/ Certify \/ BuildSubject
  PROVE  Further
  <1>1. UNCHANGED <<turn, told, rounds>>
    BY DEF Start, ReadSource, Certify, BuildSubject, Prepare, askVars
  <1>2. CASE pc' = "ended"
    BY <1>1, <1>2, EndIsFurther DEF Start, ReadSource, Certify, BuildSubject, Prepare
  <1>3. CASE pc' # "ended"
    <2>1. Place[pc'] > Place[pc]
      BY <1>3 DEF Start, ReadSource, Certify, BuildSubject, Prepare, RecordThen, Continue,
         Fail, RecordAndEnd, End, Place
    <2> QED
      BY <1>1, <2>1, LaterPlace
  <1> QED
    BY <1>2, <1>3

\* A call that is not made or not answered ends the run or costs a round.
LEMMA CodedGoesFurther ==
  ASSUME RInv, pc \in {"open", "call"}, Coded, turn' = turn,
         told' = told \/ told' = [told EXCEPT ![turn] = IF @ = "none" THEN "error" ELSE @]
  PROVE  Further
  <1>1. rounds \in Nat /\ turn \in Mutations /\ told \in [Mutations -> Verdicts]
    BY RoundsAssumption DEF RInv, TypeOK
  <1>2. CASE told' = told
    <2>1. CASE rounds' = rounds + 1
      BY <1>1, <1>2, <2>1 DEF Further, Heard
    <2>2. CASE rounds' # rounds + 1
      <3>1. rounds' = rounds /\ pc' = "ended"
        BY <2>2 DEF Coded, Fail, RecordAndEnd, End
      <3> QED
        BY <1>2, <3>1, EndIsFurther
    <2> QED
      BY <2>1, <2>2
  <1>3. CASE told' # told
    <2>1. told[turn] = "none" /\ told'[turn] = "error"
      BY <1>1, <1>3
    <2> QED
      BY <2>1 DEF Further, Heard
  <1> QED
    BY <1>2, <1>3

\* An answer is the first, the last, or costs a round.
LEMMA AnswersGoFurther ==
  ASSUME RInv, NEW a \in Verdicts,
         ReviewAnswered(a) \/ TargetAnswered(a) \/ TargetQueried(a)
           \/ ActivationAnswered(a)
  PROVE  Further
  <1>1. rounds \in Nat /\ turn \in Mutations /\ told \in [Mutations -> Verdicts]
    BY RoundsAssumption DEF RInv, TypeOK
  <1>2. Answered(a)
    BY DEF ReviewAnswered, TargetAnswered, TargetQueried, ActivationAnswered
  <1>3. turn' = turn /\ told'[turn] = a /\ a # "none"
    BY <1>1, <1>2 DEF Answered, Answers, RInv, TypeOK
  <1>4. told[turn] \in {"none", "unknown"}
    BY <1>2 DEF Answered, RInv, PlaceInv
  <1>5. CASE told[turn] = "none" \/ a # "unknown"
    BY <1>3, <1>4, <1>5 DEF Further, Heard
  <1>6. CASE told[turn] = "unknown" /\ a = "unknown"
    <2>1. told' = told /\ pc # "ended"
      BY <1>1, <1>2, <1>6 DEF Answered
    <2>2. CASE rounds' = rounds + 1
      BY <1>1, <1>3, <2>1, <2>2 DEF Further, Heard
    <2>3. CASE rounds' # rounds + 1
      <3>1. turn = "review" /\ pc' = "ended" /\ rounds' = rounds
        BY <1>6, <2>3 DEF ReviewAnswered, TargetAnswered, TargetQueried,
           ActivationAnswered, AskAgain, Fail, RecordAndEnd, End
      <3> QED
        BY <1>3, <2>1, <3>1, EndIsFurther
    <2> QED
      BY <2>2, <2>3
  <1> QED
    BY <1>4, <1>5, <1>6

\* From one mutation to the next.
LEMMA TurnsGoFurther ==
  ASSUME RInv, Evaluate \/ Approved
  PROVE  Further
  <1>1. CASE turn' # turn
    <2>1. Turns[turn'] > Turns[turn]
      BY <1>1 DEF Evaluate, Approved, RInv, PlaceInv, Turns
    <2> QED
      BY <2>1 DEF Further
  <1>2. CASE turn' = turn
    <2>1. UNCHANGED <<told, rounds>> /\ pc \in {"evaluate", "await"}
      BY <1>2 DEF Evaluate, Approved, askVars
    <2>2. CASE pc' = "ended"
      BY <1>2, <2>1, <2>2, EndIsFurther
    <2>3. CASE pc' # "ended"
      <3>1. pc = "evaluate" /\ pc' = "pause"
        BY <1>2, <2>3 DEF Evaluate, Approved, Continue, Fail, RecordAndEnd, End,
           RInv, PlaceInv
      <3> QED
        BY <1>2, <2>1, <3>1, LaterPlace DEF Place
    <2> QED
      BY <2>2, <2>3
  <1> QED
    BY <1>1, <1>2

\* The steps between two calls, and the ends of the wait for the decision.
LEMMA OthersGoFurther ==
  ASSUME RInv,
         Open \/ Pause \/ LeaveQueries \/ Disapproved \/ Undecided \/ AwaitCanceled
           \/ NotCanceled \/ Canceled \/ StillApproved \/ NotApproved \/ ReadCatalog
  PROVE  Further
  <1>1. UNCHANGED <<turn, told, rounds>>
    BY DEF Open, Pause, LeaveQueries, Disapproved, Undecided, AwaitCanceled, NotCanceled,
       Canceled, StillApproved, NotApproved, ReadCatalog, askVars
  <1>2. CASE pc' = "ended"
    <2>1. pc # "ended"
      BY DEF Open, Pause, LeaveQueries, Disapproved, Undecided, AwaitCanceled,
         NotCanceled, Canceled, StillApproved, NotApproved, ReadCatalog
    <2> QED
      BY <1>1, <1>2, <2>1, EndIsFurther
  <1>3. CASE pc' # "ended"
    <2>1. Place[pc'] > Place[pc]
      BY <1>3 DEF Open, Pause, LeaveQueries, Disapproved, Undecided, AwaitCanceled,
         NotCanceled, Canceled, StillApproved, NotApproved, ReadCatalog, Continue, Fail,
         RecordAndEnd, End, Place
    <2> QED
      BY <1>1, <2>1, LaterPlace
  <1> QED
    BY <1>2, <1>3

\* No step but a decision poll leaves the run where it is, and none takes it
\* back: every other one goes further, the rounds being bounded.
THEOREM RunGoesFurther == Spec => GoesFurther
  <1>1. ASSUME RInv, Next
        PROVE  Further \/ (UNCHANGED <<pc, turn, rounds, told>> /\ (Poll \/ World))
    <2>1. CASE OpenFails \/ CallFails
      BY <1>1, <2>1, CodedGoesFurther DEF OpenFails, CallFails, askVars
    <2>2. CASE Poll \/ World
      BY <2>2 DEF Poll, World, CancelRequested, Decide, DeadlinePasses, SendEffect,
         TakeEffect, runVars, askVars
    <2> QED
      BY <1>1, <2>1, <2>2, PreparationsGoFurther, AnswersGoFurther, TurnsGoFurther,
         OthersGoFurther DEF Next, RunStep
  <1> QED
    BY <1>1, Invariance, PTL DEF Spec, GoesFurther

=============================================================================
