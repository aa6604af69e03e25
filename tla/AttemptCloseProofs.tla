-------------------------- MODULE AttemptCloseProofs --------------------------
(***************************************************************************)
(* What holds of an attempt and its statements whatever the bounds and the *)
(* Pods: CloseInv is inductive (one lemma per action), so one Pod decides  *)
(* the result, Control is told nothing untrue, a LocalCheck run ends with  *)
(* its cleanup evidence delivered or a bound reached, a multi-step run     *)
(* leaves its outcome behind before it waits, and the backoff holds.       *)
(***************************************************************************)
EXTENDS AttemptClose, FiniteSetTheorems, TLAPS

\* Before the first delivery nothing is stated and nothing is cleaned.
Early == PathSteps \cup {"open", "cleanup"}

PathInv ==
  /\ pc \in Early => command = "close" /\ stated = {} /\ ~rolled /\ cleanup = "not_required"
  /\ pc \in {"open", "prepare"} => ~launched
  /\ outcome = "completed" => pc \notin PathSteps \cup {"open"}
  /\ outcome = "completed" => accepted \/ losses > 0

\* The Job's own Pods come first; a current owner is Control's first instance.
OwnerInv ==
  /\ \A i, j \in DOMAIN seen.pods : i < j /\ seen.pods[j] \in Own => seen.pods[i] \in Own
  /\ pc = "accept" \/ (pc = "cleanup" /\ outcome = "completed") => place > 0 /\ current
  /\ place > 0 /\ current /\ losses = 0 => registered # <<>> /\ registered[1] = seen.pods[1]
  /\ pc = "enlist" => seen.pods # <<>>

\* What is being delivered: a launch has a cleanup to state, a LocalCheck run
\* rolls over only with a definite one.
DeliveryInv ==
  pc \notin Early =>
    /\ kind = "local_check" => command # "settle"
    /\ launched <=> cleanup # "not_required"
    /\ kind = "local_check" /\ rolled => cleanup # "unknown"
    /\ command = "close:settled" => cleanup = "complete"
    /\ pc = "reconcile" => command = "close" /\ cleanup = "unknown"
    /\ pc = "pause" => polls < PollBound
    /\ pc = "await" => waited < RestoreRounds

\* The commands follow each other, and the pending one says what it said.
StatementInv ==
  /\ \A s \in stated : s.command # "settle" => s.outcome = outcome
  /\ \A s \in stated : s.command = command => s = Statement
  /\ \A s \in stated : command = "close" => s.command = "close"
  /\ \A s \in stated : command = "close:settled" => s.command # "settle"
  /\ \A s, t \in stated : s.command = t.command => s = t

\* The parts of TypeOK.
Enumerated ==
  /\ kind \in {"local_check", "multi_step"} /\ pc \in PCs
  /\ outcome \in Outcomes /\ settlement \in Outcomes
  /\ cleanup \in Cleanups /\ command \in Commands
Counted ==
  /\ polls \in 0 .. PollBound
  /\ interval \in 0 .. MaxInterval /\ resume \in 0 .. MaxInterval
  /\ waited \in 0 .. RestoreRounds /\ rounds \in 0 .. MaxRounds
  /\ losses \in 0 .. MaxLosses
Recorded ==
  /\ launched \in BOOLEAN /\ rolled \in BOOLEAN
  /\ known \in BOOLEAN /\ prepared \in BOOLEAN /\ accepted \in BOOLEAN
  /\ owed \in BOOLEAN
  /\ held \in SUBSET Statements /\ stated \in SUBSET Statements

CloseInv ==
  /\ TypeOK /\ PathInv /\ OwnerInv /\ DeliveryInv /\ StatementInv
  /\ EvidenceDelivered /\ OutcomeLeftBehind

USE BoundsAssumption, PodsAssumption

\* What one look may list.
LEMMA OrderOK ==
  ASSUME NEW s \in OwnerOrders
  PROVE  /\ s \in Seq(Pods)
         /\ \A i, j \in DOMAIN s : i < j /\ s[j] \in Own => s[i] \in Own
  <1>1. IsFiniteSet(Listed)
    <2>1. IsFiniteSet(Pods)
      BY FS_Union DEF Pods
    <2> QED
      BY <2>1, FS_Subset DEF Listed
  <1>2. Cardinality(Listed) \in Nat
    BY <1>1, FS_CardinalityType
  <1>3. s \in [1 .. Cardinality(Listed) -> Listed] /\ Listed \subseteq Pods
    BY DEF OwnerOrders, Orders, Listed
  <1> QED
    BY <1>2, <1>3 DEF OwnerOrders

\* The statement that is delivered is one.
LEMMA StatementOK ==
  ASSUME TypeOK
  PROVE  Statement \in Statements
  BY DEF TypeOK, Statement, Statements, Cleanups

\* What it says.
LEMMA StatementSays ==
  /\ Statement.command = command
  /\ command = "settle" => Statement.outcome = settlement
  /\ command # "settle" => Statement.outcome = outcome /\ Statement.cleanup = cleanup
  BY DEF Statement

\* A registration keeps the first instance.
LEMMA InstancesOK ==
  ASSUME registered \in Seq(Pods), NEW p \in Pods
  PROVE  /\ Instances(p) \in Seq(Pods) /\ Instances(p) # <<>>
         /\ registered # <<>> => Instances(p)[1] = registered[1]
  <1>1. CASE \E i \in DOMAIN registered : registered[i] = p
    BY <1>1 DEF Instances
  <1>2. CASE ~\E i \in DOMAIN registered : registered[i] = p
    <2>1. Instances(p) = Append(registered, p)
      BY <1>2 DEF Instances
    <2>2. Append(registered, p) \in Seq(Pods) /\ Len(Append(registered, p)) = Len(registered) + 1
      OBVIOUS
    <2>3. registered # <<>> => Append(registered, p)[1] = registered[1]
      OBVIOUS
    <2> QED
      BY <2>1, <2>2, <2>3
  <1> QED
    BY <1>1, <1>2

\* Before the first observation.
LEMMA NothingOK ==
  /\ Nothing \in Observation
  /\ Nothing.pods = <<>> /\ DOMAIN Nothing.pods = {} /\ Len(Nothing.pods) = 0
  <1>1. <<>> \in Seq(Pods) /\ Len(<<>>) = 0 /\ DOMAIN <<>> = {}
    OBVIOUS
  <1>2. "active" \in Reasons /\ "absent" \in Phases
    BY DEF Reasons, Phases
  <1> QED
    BY <1>1, <1>2 DEF Nothing, Observation

\* A refused open leaves nothing to clean.
LEMMA OpenRefusedKeeps ==
  ASSUME CloseInv, OpenRefused, UNCHANGED instanceVars
  PROVE  CloseInv'
  <1> USE DEF CloseInv, TypeOK, OpenRefused, stepVars, pollVars, controlVars,
          closeVars, PCs, PathSteps, Outcomes, Cleanups, Commands
  <1>1. InstancesTypeOK' /\ OwnerInv'
    BY DEF InstancesTypeOK, OwnerInv, instanceVars, observationVars
  <1>2. TypeOK'
    <2>1. Enumerated'
      BY DEF Enumerated
    <2>2. Counted'
      BY DEF Counted
    <2>3. Recorded'
      BY DEF Recorded
    <2> QED
      BY <1>1, <2>1, <2>2, <2>3 DEF Enumerated, Counted, Recorded
  <1>3. PathInv'
    BY DEF PathInv, Early
  <1>4. DeliveryInv'
    BY DEF DeliveryInv, PathInv, Early
  <1>5. StatementInv'
    BY DEF StatementInv, Statement, PathInv, Early
  <1>6. EvidenceDelivered'
    BY DEF EvidenceDelivered, DeliveryInv, PathInv, Early
  <1>7. OutcomeLeftBehind'
    BY DEF OutcomeLeftBehind
  <1> QED
    BY <1>1, <1>2, <1>3, <1>4, <1>5, <1>6, <1>7

\* An opened attempt goes on, or to its close past its deadline.
LEMMA OpenAnsweredKeeps ==
  ASSUME CloseInv, OpenAnswered, UNCHANGED instanceVars
  PROVE  CloseInv'
  <1> USE DEF CloseInv, TypeOK, OpenAnswered, stepVars, pollVars, controlVars,
          closeVars, PCs, PathSteps, Outcomes, Cleanups, Commands
  <1>1. InstancesTypeOK' /\ OwnerInv'
    BY DEF InstancesTypeOK, OwnerInv, instanceVars, observationVars
  <1>2. TypeOK'
    <2>1. Enumerated'
      BY DEF Enumerated
    <2>2. Counted'
      BY DEF Counted
    <2>3. Recorded'
      BY DEF Recorded
    <2> QED
      BY <1>1, <2>1, <2>2, <2>3 DEF Enumerated, Counted, Recorded
  <1>3. PathInv'
    BY DEF PathInv, Early
  <1>4. DeliveryInv'
    BY DEF DeliveryInv, PathInv, Early
  <1>5. StatementInv'
    BY DEF StatementInv, Statement, PathInv, Early
  <1>6. EvidenceDelivered'
    BY DEF EvidenceDelivered, DeliveryInv, PathInv, Early
  <1>7. OutcomeLeftBehind'
    BY DEF OutcomeLeftBehind
  <1> QED
    BY <1>1, <1>2, <1>3, <1>4, <1>5, <1>6, <1>7

\* The launch obligation exists before the launch.
LEMMA PrepareLaunchKeeps ==
  ASSUME CloseInv, PrepareLaunch, UNCHANGED instanceVars
  PROVE  CloseInv'
  <1> USE DEF CloseInv, TypeOK, PrepareLaunch, stepVars, pollVars, controlVars,
          closeVars, PCs, PathSteps, Outcomes, Cleanups, Commands
  <1>1. InstancesTypeOK' /\ OwnerInv'
    BY DEF InstancesTypeOK, OwnerInv, instanceVars, observationVars
  <1>2. TypeOK'
    <2>1. Enumerated'
      BY DEF Enumerated
    <2>2. Counted'
      BY DEF Counted
    <2>3. Recorded'
      BY DEF Recorded
    <2> QED
      BY <1>1, <2>1, <2>2, <2>3 DEF Enumerated, Counted, Recorded
  <1>3. PathInv'
    BY DEF PathInv, Early
  <1>4. DeliveryInv'
    BY DEF DeliveryInv, PathInv, Early
  <1>5. StatementInv'
    BY DEF StatementInv, Statement, PathInv, Early
  <1>6. EvidenceDelivered'
    BY DEF EvidenceDelivered, DeliveryInv, PathInv, Early
  <1>7. OutcomeLeftBehind'
    BY DEF OutcomeLeftBehind
  <1> QED
    BY <1>1, <1>2, <1>3, <1>4, <1>5, <1>6, <1>7

\* The Job exists.
LEMMA CreateAnsweredKeeps ==
  ASSUME CloseInv, CreateAnswered
  PROVE  CloseInv'
  <1> USE DEF CloseInv, TypeOK, CreateAnswered, stepVars, pollVars, controlVars,
          closeVars, PCs, PathSteps, Outcomes, Cleanups, Commands
  <1>1. InstancesTypeOK' /\ OwnerInv'
    BY DEF InstancesTypeOK, OwnerInv, instanceVars, observationVars, Jobs, Reasons
  <1>2. TypeOK'
    <2>1. Enumerated'
      BY DEF Enumerated
    <2>2. Counted'
      BY DEF Counted
    <2>3. Recorded'
      BY DEF Recorded
    <2> QED
      BY <1>1, <2>1, <2>2, <2>3 DEF Enumerated, Counted, Recorded
  <1>3. PathInv'
    BY DEF PathInv, Early
  <1>4. DeliveryInv'
    BY DEF DeliveryInv, PathInv, Early
  <1>5. StatementInv'
    BY DEF StatementInv, Statement, PathInv, Early
  <1>6. EvidenceDelivered'
    BY DEF EvidenceDelivered, DeliveryInv, PathInv, Early
  <1>7. OutcomeLeftBehind'
    BY DEF OutcomeLeftBehind
  <1> QED
    BY <1>1, <1>2, <1>3, <1>4, <1>5, <1>6, <1>7

\* The Job is read.
LEMMA LookBeginsKeeps ==
  ASSUME CloseInv, LookBegins
  PROVE  CloseInv'
  <1> USE DEF CloseInv, TypeOK, LookBegins, PathGoes, ReadJob, stepVars, pollVars, controlVars,
          closeVars, PCs, PathSteps, Outcomes, Cleanups, Commands
  <1>1. InstancesTypeOK' /\ OwnerInv'
    BY DEF InstancesTypeOK, OwnerInv, instanceVars, observationVars
  <1>2. TypeOK'
    <2>1. Enumerated'
      BY DEF Enumerated
    <2>2. Counted'
      BY DEF Counted
    <2>3. Recorded'
      BY DEF Recorded
    <2> QED
      BY <1>1, <2>1, <2>2, <2>3 DEF Enumerated, Counted, Recorded
  <1>3. PathInv'
    BY DEF PathInv, Early
  <1>4. DeliveryInv'
    BY DEF DeliveryInv, PathInv, Early
  <1>5. StatementInv'
    BY DEF StatementInv, Statement, PathInv, Early
  <1>6. EvidenceDelivered'
    BY DEF EvidenceDelivered, DeliveryInv, PathInv, Early
  <1>7. OutcomeLeftBehind'
    BY DEF OutcomeLeftBehind
  <1> QED
    BY <1>1, <1>2, <1>3, <1>4, <1>5, <1>6, <1>7

\* The observation goes on.
LEMMA LookMissedKeeps ==
  ASSUME CloseInv, LookMissed
  PROVE  CloseInv'
  <1> USE DEF CloseInv, TypeOK, LookMissed, PathGoes, LookAgain, stepVars, pollVars, controlVars,
          closeVars, PCs, PathSteps, Outcomes, Cleanups, Commands
  <1>1. InstancesTypeOK' /\ OwnerInv'
    BY DEF InstancesTypeOK, OwnerInv, instanceVars, observationVars, Jobs, Reasons
  <1>2. TypeOK'
    <2>1. Enumerated'
      BY DEF Enumerated
    <2>2. Counted'
      BY DEF Counted
    <2>3. Recorded'
      BY DEF Recorded
    <2> QED
      BY <1>1, <2>1, <2>2, <2>3 DEF Enumerated, Counted, Recorded
  <1>3. PathInv'
    BY DEF PathInv, Early
  <1>4. DeliveryInv'
    BY DEF DeliveryInv, PathInv, Early
  <1>5. StatementInv'
    BY DEF StatementInv, Statement, PathInv, Early
  <1>6. EvidenceDelivered'
    BY DEF EvidenceDelivered, DeliveryInv, PathInv, Early
  <1>7. OutcomeLeftBehind'
    BY DEF OutcomeLeftBehind
  <1> QED
    BY <1>1, <1>2, <1>3, <1>4, <1>5, <1>6, <1>7

\* The wait for the owner is over.
LEMMA OwnerAwaitedKeeps ==
  ASSUME CloseInv, OwnerAwaited
  PROVE  CloseInv'
  <1> USE DEF CloseInv, TypeOK, OwnerAwaited, PathGoes, stepVars, pollVars, controlVars,
          closeVars, PCs, PathSteps, Outcomes, Cleanups, Commands
  <1>1. InstancesTypeOK' /\ OwnerInv'
    <2>1. PICK s \in OwnerOrders :
            seen' = [reason |-> IF reading = "active" /\ ~UntilOwned[s]
                                  THEN "DeadlineExceeded" ELSE reading,
                     pods |-> s,
                     owner |-> IF s = <<>> THEN "absent" ELSE phase[s[1]]]
      BY DEF Look
    <2>2. s \in Seq(Pods) /\ (s # <<>> => s[1] \in Pods)
      BY OrderOK
    <2>3. seen' \in Observation
      BY <2>1, <2>2 DEF Observation, Look, InstancesTypeOK, Jobs, Reasons, Phases
    <2>4. seen'.pods = s
      BY <2>1
    <2>5. /\ place' = 0 /\ current' = FALSE /\ reading' = "none"
          /\ UNCHANGED <<job, phase, registered>>
      BY DEF Look
    <2>6. 0 \in 0 .. Len(s) /\ "none" \in Jobs
      BY <2>2 DEF Jobs
    <2>7. InstancesTypeOK'
      BY <2>3, <2>4, <2>5, <2>6 DEF InstancesTypeOK
    <2>8. pc' = "enlist" => s # <<>>
      <3>1. UntilOwned[s] = Owned(s)
        BY DEF UntilOwned
      <3>2. pc' = "enlist" => seen'.reason = "active"
        OBVIOUS
      <3>3. seen'.reason = "active" => UntilOwned[s]
        BY <2>1
      <3> QED
        BY <3>1, <3>2, <3>3 DEF Owned
    <2>9. pc' # "accept" /\ pc' # "cleanup"
      OBVIOUS
    <2> QED
      BY <2>4, <2>5, <2>7, <2>8, <2>9, OrderOK DEF OwnerInv
  <1>2. TypeOK'
    <2>1. Enumerated'
      BY DEF Enumerated
    <2>2. Counted'
      BY DEF Counted
    <2>3. Recorded'
      BY DEF Recorded
    <2> QED
      BY <1>1, <2>1, <2>2, <2>3 DEF Enumerated, Counted, Recorded
  <1>3. PathInv'
    BY DEF PathInv, Early
  <1>4. DeliveryInv'
    BY DEF DeliveryInv, PathInv, Early
  <1>5. StatementInv'
    BY DEF StatementInv, Statement, PathInv, Early
  <1>6. EvidenceDelivered'
    BY DEF EvidenceDelivered, DeliveryInv, PathInv, Early
  <1>7. OutcomeLeftBehind'
    BY DEF OutcomeLeftBehind
  <1> QED
    BY <1>1, <1>2, <1>3, <1>4, <1>5, <1>6, <1>7

\* The owner is registered while it runs.
LEMMA OwnerRegisteredKeeps ==
  ASSUME CloseInv, OwnerRegistered
  PROVE  CloseInv'
  <1> USE DEF CloseInv, TypeOK, OwnerRegistered, PathGoes, RegisterOwner, stepVars, pollVars, controlVars,
          closeVars, PCs, PathSteps, Outcomes, Cleanups, Commands
  <1>1. InstancesTypeOK' /\ OwnerInv'
    <2>1. seen.pods \in Seq(Pods) /\ seen.pods # <<>> /\ registered \in Seq(Pods)
      BY DEF InstancesTypeOK, OwnerInv, Observation
    <2>2. seen.pods[1] \in Pods
      BY <2>1
    <2>3. /\ registered' \in Seq(Pods)
          /\ registered # <<>> => registered' # <<>> /\ registered'[1] = registered[1]
      BY <2>1, <2>2, InstancesOK
    <2>4. InstancesTypeOK'
      BY <2>3 DEF InstancesTypeOK, observationVars
    <2> QED
      BY <2>3, <2>4 DEF OwnerInv, observationVars
  <1>2. TypeOK'
    <2>1. Enumerated'
      BY DEF Enumerated
    <2>2. Counted'
      BY DEF Counted
    <2>3. Recorded'
      BY DEF Recorded
    <2> QED
      BY <1>1, <2>1, <2>2, <2>3 DEF Enumerated, Counted, Recorded
  <1>3. PathInv'
    BY DEF PathInv, Early
  <1>4. DeliveryInv'
    BY DEF DeliveryInv, PathInv, Early
  <1>5. StatementInv'
    BY DEF StatementInv, Statement, PathInv, Early
  <1>6. EvidenceDelivered'
    BY DEF EvidenceDelivered, DeliveryInv, PathInv, Early
  <1>7. OutcomeLeftBehind'
    BY DEF OutcomeLeftBehind
  <1> QED
    BY <1>1, <1>2, <1>3, <1>4, <1>5, <1>6, <1>7

\* The observation is over.
LEMMA JobObservedKeeps ==
  ASSUME CloseInv, JobObserved
  PROVE  CloseInv'
  <1> USE DEF CloseInv, TypeOK, JobObserved, PathGoes, stepVars, pollVars, controlVars,
          closeVars, PCs, PathSteps, Outcomes, Cleanups, Commands
  <1>1. InstancesTypeOK' /\ OwnerInv'
    <2>1. PICK s \in OwnerOrders :
            seen' = [reason |-> IF reading = "active" /\ ~UntilEnded[s]
                                  THEN "DeadlineExceeded" ELSE reading,
                     pods |-> s,
                     owner |-> IF s = <<>> THEN "absent" ELSE phase[s[1]]]
      BY DEF Look
    <2>2. s \in Seq(Pods) /\ (s # <<>> => s[1] \in Pods)
      BY OrderOK
    <2>3. seen' \in Observation
      BY <2>1, <2>2 DEF Observation, Look, InstancesTypeOK, Jobs, Reasons, Phases
    <2>4. seen'.pods = s
      BY <2>1
    <2>5. /\ place' = 0 /\ current' = FALSE /\ reading' = "none"
          /\ UNCHANGED <<job, phase, registered>>
      BY DEF Look
    <2>6. 0 \in 0 .. Len(s) /\ "none" \in Jobs
      BY <2>2 DEF Jobs
    <2>7. InstancesTypeOK'
      BY <2>3, <2>4, <2>5, <2>6 DEF InstancesTypeOK
    <2>8. pc' = "enlist" => s # <<>>
      OBVIOUS
    <2>9. pc' # "accept" /\ pc' # "cleanup"
      OBVIOUS
    <2> QED
      BY <2>4, <2>5, <2>7, <2>8, <2>9, OrderOK DEF OwnerInv
  <1>2. TypeOK'
    <2>1. Enumerated'
      BY DEF Enumerated
    <2>2. Counted'
      BY DEF Counted
    <2>3. Recorded'
      BY DEF Recorded
    <2> QED
      BY <1>1, <2>1, <2>2, <2>3 DEF Enumerated, Counted, Recorded
  <1>3. PathInv'
    BY DEF PathInv, Early
  <1>4. DeliveryInv'
    BY DEF DeliveryInv, PathInv, Early
  <1>5. StatementInv'
    BY DEF StatementInv, Statement, PathInv, Early
  <1>6. EvidenceDelivered'
    BY DEF EvidenceDelivered, DeliveryInv, PathInv, Early
  <1>7. OutcomeLeftBehind'
    BY DEF OutcomeLeftBehind
  <1> QED
    BY <1>1, <1>2, <1>3, <1>4, <1>5, <1>6, <1>7

\* The next Pod is registered.
LEMMA InstanceRegisteredKeeps ==
  ASSUME CloseInv, InstanceRegistered
  PROVE  CloseInv'
  <1> USE DEF CloseInv, TypeOK, InstanceRegistered, PathGoes, RegisterNext, stepVars, pollVars, controlVars,
          closeVars, PCs, PathSteps, Outcomes, Cleanups, Commands
  <1>1. InstancesTypeOK' /\ OwnerInv'
    <2>1. seen.pods \in Seq(Pods) /\ registered \in Seq(Pods) /\ place \in Nat
      BY DEF InstancesTypeOK, Observation
    <2>2. seen.pods[place + 1] \in Pods /\ place + 1 \in 0 .. Len(seen.pods)
      BY <2>1
    <2>3. /\ registered' \in Seq(Pods) /\ registered' # <<>>
          /\ registered # <<>> => registered'[1] = registered[1]
      BY <2>1, <2>2, InstancesOK
    <2>4. current' \in BOOLEAN
      BY DEF InstancesTypeOK
    <2>5. InstancesTypeOK'
      BY <2>2, <2>3, <2>4 DEF InstancesTypeOK
    <2>6. place = 0 /\ current' => registered'[1] = seen.pods[1]
      OBVIOUS
    <2>7. place > 0 => current' = current
      OBVIOUS
    <2> QED
      BY <2>1, <2>3, <2>5, <2>6, <2>7 DEF OwnerInv
  <1>2. TypeOK'
    <2>1. Enumerated'
      BY DEF Enumerated
    <2>2. Counted'
      BY DEF Counted
    <2>3. Recorded'
      BY DEF Recorded
    <2> QED
      BY <1>1, <2>1, <2>2, <2>3 DEF Enumerated, Counted, Recorded
  <1>3. PathInv'
    BY DEF PathInv, Early
  <1>4. DeliveryInv'
    BY DEF DeliveryInv, PathInv, Early
  <1>5. StatementInv'
    BY DEF StatementInv, Statement, PathInv, Early
  <1>6. EvidenceDelivered'
    BY DEF EvidenceDelivered, DeliveryInv, PathInv, Early
  <1>7. OutcomeLeftBehind'
    BY DEF OutcomeLeftBehind
  <1> QED
    BY <1>1, <1>2, <1>3, <1>4, <1>5, <1>6, <1>7

\* Only a current owner's result is read.
LEMMA OwnerCheckedKeeps ==
  ASSUME CloseInv, OwnerChecked
  PROVE  CloseInv'
  <1> USE DEF CloseInv, TypeOK, OwnerChecked, stepVars, pollVars, controlVars,
          closeVars, PCs, PathSteps, Outcomes, Cleanups, Commands
  <1>1. InstancesTypeOK' /\ OwnerInv'
    BY DEF InstancesTypeOK, OwnerInv, instanceVars, observationVars
  <1>2. TypeOK'
    <2>1. Enumerated'
      BY DEF Enumerated
    <2>2. Counted'
      BY DEF Counted
    <2>3. Recorded'
      BY DEF Recorded
    <2> QED
      BY <1>1, <2>1, <2>2, <2>3 DEF Enumerated, Counted, Recorded
  <1>3. PathInv'
    BY DEF PathInv, Early
  <1>4. DeliveryInv'
    BY DEF DeliveryInv, PathInv, Early
  <1>5. StatementInv'
    BY DEF StatementInv, Statement, PathInv, Early
  <1>6. EvidenceDelivered'
    BY DEF EvidenceDelivered, DeliveryInv, PathInv, Early
  <1>7. OutcomeLeftBehind'
    BY DEF OutcomeLeftBehind
  <1> QED
    BY <1>1, <1>2, <1>3, <1>4, <1>5, <1>6, <1>7

\* A failed step does not complete the attempt.
LEMMA StepFailsKeeps ==
  ASSUME CloseInv, StepFails, UNCHANGED instanceVars
  PROVE  CloseInv'
  <1> USE DEF CloseInv, TypeOK, StepFails, stepVars, pollVars, controlVars,
          closeVars, PCs, PathSteps, Outcomes, Cleanups, Commands
  <1>1. InstancesTypeOK' /\ OwnerInv'
    BY DEF InstancesTypeOK, OwnerInv, instanceVars, observationVars
  <1>2. TypeOK'
    <2>1. Enumerated'
      BY DEF Enumerated
    <2>2. Counted'
      BY DEF Counted
    <2>3. Recorded'
      BY DEF Recorded
    <2> QED
      BY <1>1, <2>1, <2>2, <2>3 DEF Enumerated, Counted, Recorded
  <1>3. PathInv'
    BY DEF PathInv, Early
  <1>4. DeliveryInv'
    BY DEF DeliveryInv, PathInv, Early
  <1>5. StatementInv'
    BY DEF StatementInv, Statement, PathInv, Early
  <1>6. EvidenceDelivered'
    BY DEF EvidenceDelivered, DeliveryInv, PathInv, Early
  <1>7. OutcomeLeftBehind'
    BY DEF OutcomeLeftBehind
  <1> QED
    BY <1>1, <1>2, <1>3, <1>4, <1>5, <1>6, <1>7

\* Control accepts the certified result of its current instance.
LEMMA ResultAnsweredKeeps ==
  ASSUME CloseInv, ResultAnswered
  PROVE  CloseInv'
  <1> USE DEF CloseInv, TypeOK, ResultAnswered, stepVars, pollVars, controlVars,
          closeVars, PCs, PathSteps, Outcomes, Cleanups, Commands
  <1>1. InstancesTypeOK' /\ OwnerInv'
    BY DEF InstancesTypeOK, OwnerInv, instanceVars, observationVars
  <1>2. TypeOK'
    <2>1. Enumerated'
      BY DEF Enumerated
    <2>2. Counted'
      BY DEF Counted
    <2>3. Recorded'
      BY DEF Recorded
    <2> QED
      BY <1>1, <2>1, <2>2, <2>3 DEF Enumerated, Counted, Recorded
  <1>3. PathInv'
    BY DEF PathInv, Early
  <1>4. DeliveryInv'
    BY DEF DeliveryInv, PathInv, Early
  <1>5. StatementInv'
    BY DEF StatementInv, Statement, PathInv, Early
  <1>6. EvidenceDelivered'
    BY DEF EvidenceDelivered, DeliveryInv, PathInv, Early
  <1>7. OutcomeLeftBehind'
    BY DEF OutcomeLeftBehind
  <1> QED
    BY <1>1, <1>2, <1>3, <1>4, <1>5, <1>6, <1>7

\* The accepted stage completes the attempt.
LEMMA StageAnsweredKeeps ==
  ASSUME CloseInv, StageAnswered
  PROVE  CloseInv'
  <1> USE DEF CloseInv, TypeOK, StageAnswered, stepVars, pollVars, controlVars,
          closeVars, PCs, PathSteps, Outcomes, Cleanups, Commands
  <1>1. InstancesTypeOK' /\ OwnerInv'
    BY DEF InstancesTypeOK, OwnerInv, instanceVars, observationVars
  <1>2. TypeOK'
    <2>1. Enumerated'
      BY DEF Enumerated
    <2>2. Counted'
      BY DEF Counted
    <2>3. Recorded'
      BY DEF Recorded
    <2> QED
      BY <1>1, <2>1, <2>2, <2>3 DEF Enumerated, Counted, Recorded
  <1>3. PathInv'
    BY DEF PathInv, Early
  <1>4. DeliveryInv'
    BY DEF DeliveryInv, PathInv, Early
  <1>5. StatementInv'
    BY DEF StatementInv, Statement, PathInv, Early
  <1>6. EvidenceDelivered'
    BY DEF EvidenceDelivered, DeliveryInv, PathInv, Early
  <1>7. OutcomeLeftBehind'
    BY DEF OutcomeLeftBehind
  <1> QED
    BY <1>1, <1>2, <1>3, <1>4, <1>5, <1>6, <1>7

\* The cleanup states what it found.
LEMMA CleanupKeeps ==
  ASSUME CloseInv, Cleanup
  PROVE  CloseInv'
  <1> USE DEF CloseInv, TypeOK, Cleanup, Statement, stepVars, pollVars, controlVars,
          closeVars, PCs, PathSteps, Outcomes, Cleanups, Commands
  <1>1. InstancesTypeOK' /\ OwnerInv'
    <2>1. "none" \in Jobs /\ "absent" \in Phases /\ <<>> \in Seq(Pods)
      BY DEF Jobs, Phases
    <2>2. phase' \in [Pods -> Phases]
      BY <2>1
    <2>3. seen' = Nothing /\ place' = 0 /\ place' \in 0 .. Len(seen'.pods)
      BY NothingOK
    <2>4. InstancesTypeOK'
      BY <2>1, <2>2, <2>3, NothingOK DEF InstancesTypeOK
    <2> QED
      BY <2>3, <2>4, NothingOK DEF OwnerInv
  <1>2. TypeOK'
    <2>1. Enumerated'
      BY DEF Enumerated
    <2>2. Counted'
      BY DEF Counted
    <2>3. Recorded'
      BY DEF Recorded
    <2> QED
      BY <1>1, <2>1, <2>2, <2>3 DEF Enumerated, Counted, Recorded
  <1>3. PathInv'
    BY DEF PathInv, Early
  <1>4. DeliveryInv'
    BY DEF DeliveryInv, PathInv, Early
  <1>5. StatementInv'
    BY DEF StatementInv, Statement, PathInv, Early
  <1>6. EvidenceDelivered'
    BY DEF EvidenceDelivered, DeliveryInv, PathInv, Early
  <1>7. OutcomeLeftBehind'
    BY DEF OutcomeLeftBehind
  <1> QED
    BY <1>1, <1>2, <1>3, <1>4, <1>5, <1>6, <1>7

\* The five ways on from an answer.
Pauses ==
  /\ Waits /\ polls < PollBound /\ pc' = "pause"
  /\ UNCHANGED <<command, settlement, pollVars, waited, rolled>>
RollsOver == Waits /\ ~(kind = "multi_step" /\ command # "settle") /\ RollOver
Settles == kind = "multi_step" /\ command # "settle" /\ SettleNext(ByOutcome) /\ UNCHANGED rolled
IsDone ==
  /\ kind = "local_check" \/ command = "settle"
  /\ ~(command = "close" /\ cleanup = "unknown" /\ ~rolled)
  /\ pc' = "done" /\ UNCHANGED <<command, settlement, pollVars, waited, rolled>>
Reconciles ==
  /\ command = "close" /\ cleanup = "unknown" /\ ~rolled
  /\ pc' = "reconcile" /\ UNCHANGED <<command, settlement, pollVars, waited, rolled>>

AnswerActs ==
  /\ pc = "deliver" /\ Accept
  /\ UNCHANGED <<kind, launched, outcome, cleanup, rounds>>
  /\ UNCHANGED <<known, prepared, accepted, owed, losses, instanceVars>>

LEMMA AnsweredWays ==
  ASSUME CloseInv, Answered, UNCHANGED instanceVars
  PROVE  AnswerActs /\ (Pauses \/ RollsOver \/ Settles \/ IsDone \/ Reconciles)
  <1> DEFINE W == Waits /\ (owed \/ Unclean')
  <1>1. AnswerActs
    BY DEF Answered, AnswerActs
  <1>2. /\ W => \/ Exhausted
                \/ /\ polls < PollBound /\ pc' = "pause"
                   /\ UNCHANGED <<command, settlement, pollVars, waited, rolled>>
        /\ ~W => Delivered /\ UNCHANGED rolled
    BY DEF Answered
  <1>3. CASE W
    <2>1. Waits
      BY <1>3
    <2>2. Exhausted => Settles \/ RollsOver
      BY <2>1 DEF Exhausted, Settles, RollsOver
    <2> HIDE DEF W
    <2> QED
      BY <1>1, <1>2, <1>3, <2>1, <2>2 DEF Pauses
  <1>4. CASE ~W
    <2>1. kind \in {"local_check", "multi_step"}
      BY DEF CloseInv, TypeOK
    <2>2. Delivered /\ UNCHANGED rolled => Reconciles \/ IsDone \/ Settles
      BY <2>1 DEF Delivered, DeliveredIsDone, IsDone, Settles, Reconciles
    <2> HIDE DEF W
    <2> QED
      BY <1>1, <1>2, <1>4, <2>2
  <1> QED
    BY <1>3, <1>4

\* It waits on Control's obligations.
LEMMA PausesKeeps ==
  ASSUME CloseInv, AnswerActs, Pauses
  PROVE  CloseInv'
  <1> USE DEF CloseInv, TypeOK, Pauses, AnswerActs, Accept, Waits, stepVars, pollVars, controlVars,
          closeVars, PCs, PathSteps, Outcomes, Cleanups, Commands
  <1>1. InstancesTypeOK' /\ OwnerInv'
    BY DEF InstancesTypeOK, OwnerInv, instanceVars, observationVars
  <1>2. TypeOK'
    <2>1. Enumerated'
      BY DEF Enumerated
    <2>2. Counted'
      BY DEF Counted
    <2>3. Recorded'
      BY StatementOK DEF Recorded
    <2> QED
      BY <1>1, <2>1, <2>2, <2>3 DEF Enumerated, Counted, Recorded
  <1>3. PathInv'
    BY DEF PathInv, Early
  <1>4. DeliveryInv'
    BY DEF DeliveryInv, PathInv, Early
  <1>5. StatementInv'
    BY DEF StatementInv, Statement, PathInv, Early
  <1>6. EvidenceDelivered'
    BY DEF EvidenceDelivered, DeliveryInv, PathInv, Early
  <1>7. OutcomeLeftBehind'
    BY StatementSays DEF OutcomeLeftBehind
  <1> QED
    BY <1>1, <1>2, <1>3, <1>4, <1>5, <1>6, <1>7

\* It continues as new.
LEMMA RollsOverKeeps ==
  ASSUME CloseInv, AnswerActs, RollsOver
  PROVE  CloseInv'
  <1> USE DEF CloseInv, TypeOK, RollsOver, AnswerActs, Accept, RollOver, Waits, stepVars, pollVars, controlVars,
          closeVars, PCs, PathSteps, Outcomes, Cleanups, Commands
  <1>1. InstancesTypeOK' /\ OwnerInv'
    BY DEF InstancesTypeOK, OwnerInv, instanceVars, observationVars
  <1>2. TypeOK'
    <2>1. Enumerated'
      BY DEF Enumerated
    <2>2. Counted'
      BY DEF Counted
    <2>3. Recorded'
      BY StatementOK DEF Recorded
    <2> QED
      BY <1>1, <2>1, <2>2, <2>3 DEF Enumerated, Counted, Recorded
  <1>3. PathInv'
    BY DEF PathInv, Early
  <1>4. DeliveryInv'
    BY DEF DeliveryInv, PathInv, Early
  <1>5. StatementInv'
    BY DEF StatementInv, Statement, PathInv, Early
  <1>6. EvidenceDelivered'
    BY DEF EvidenceDelivered, DeliveryInv, PathInv, Early
  <1>7. OutcomeLeftBehind'
    BY DEF OutcomeLeftBehind
  <1> QED
    BY <1>1, <1>2, <1>3, <1>4, <1>5, <1>6, <1>7

\* A multi-step run goes to its settlement.
LEMMA SettlesKeeps ==
  ASSUME CloseInv, AnswerActs, Settles
  PROVE  CloseInv'
  <1> USE DEF CloseInv, TypeOK, Settles, AnswerActs, Accept, SettleNext, ByOutcome, stepVars, pollVars, controlVars,
          closeVars, PCs, PathSteps, Outcomes, Cleanups, Commands
  <1>1. InstancesTypeOK' /\ OwnerInv'
    BY DEF InstancesTypeOK, OwnerInv, instanceVars, observationVars
  <1>2. TypeOK'
    <2>1. Enumerated'
      BY DEF Enumerated
    <2>2. Counted'
      BY DEF Counted
    <2>3. Recorded'
      BY StatementOK DEF Recorded
    <2> QED
      BY <1>1, <2>1, <2>2, <2>3 DEF Enumerated, Counted, Recorded
  <1>3. PathInv'
    BY DEF PathInv, Early
  <1>4. DeliveryInv'
    BY DEF DeliveryInv, PathInv, Early
  <1>5. StatementInv'
    BY DEF StatementInv, Statement, PathInv, Early
  <1>6. EvidenceDelivered'
    BY DEF EvidenceDelivered, DeliveryInv, PathInv, Early
  <1>7. OutcomeLeftBehind'
    BY DEF OutcomeLeftBehind
  <1> QED
    BY <1>1, <1>2, <1>3, <1>4, <1>5, <1>6, <1>7

\* The last statement was delivered.
LEMMA IsDoneKeeps ==
  ASSUME CloseInv, AnswerActs, IsDone
  PROVE  CloseInv'
  <1> USE DEF CloseInv, TypeOK, IsDone, AnswerActs, Accept, stepVars, pollVars, controlVars,
          closeVars, PCs, PathSteps, Outcomes, Cleanups, Commands
  <1>1. InstancesTypeOK' /\ OwnerInv'
    BY DEF InstancesTypeOK, OwnerInv, instanceVars, observationVars
  <1>2. TypeOK'
    <2>1. Enumerated'
      BY DEF Enumerated
    <2>2. Counted'
      BY DEF Counted
    <2>3. Recorded'
      BY StatementOK DEF Recorded
    <2> QED
      BY <1>1, <2>1, <2>2, <2>3 DEF Enumerated, Counted, Recorded
  <1>3. PathInv'
    BY DEF PathInv, Early
  <1>4. DeliveryInv'
    BY DEF DeliveryInv, PathInv, Early
  <1>5. StatementInv'
    BY DEF StatementInv, Statement, PathInv, Early
  <1>6. EvidenceDelivered'
    BY StatementSays DEF EvidenceDelivered, DeliveryInv, PathInv, Early
  <1>7. OutcomeLeftBehind'
    BY DEF OutcomeLeftBehind
  <1> QED
    BY <1>1, <1>2, <1>3, <1>4, <1>5, <1>6, <1>7

\* The unknown cleanup is reconciled.
LEMMA ReconcilesKeeps ==
  ASSUME CloseInv, AnswerActs, Reconciles
  PROVE  CloseInv'
  <1> USE DEF CloseInv, TypeOK, Reconciles, AnswerActs, Accept, stepVars, pollVars, controlVars,
          closeVars, PCs, PathSteps, Outcomes, Cleanups, Commands
  <1>1. InstancesTypeOK' /\ OwnerInv'
    BY DEF InstancesTypeOK, OwnerInv, instanceVars, observationVars
  <1>2. TypeOK'
    <2>1. Enumerated'
      BY DEF Enumerated
    <2>2. Counted'
      BY DEF Counted
    <2>3. Recorded'
      BY StatementOK DEF Recorded
    <2> QED
      BY <1>1, <2>1, <2>2, <2>3 DEF Enumerated, Counted, Recorded
  <1>3. PathInv'
    BY DEF PathInv, Early
  <1>4. DeliveryInv'
    BY DEF DeliveryInv, PathInv, Early
  <1>5. StatementInv'
    BY DEF StatementInv, Statement, PathInv, Early
  <1>6. EvidenceDelivered'
    BY DEF EvidenceDelivered, DeliveryInv, PathInv, Early
  <1>7. OutcomeLeftBehind'
    BY DEF OutcomeLeftBehind
  <1> QED
    BY <1>1, <1>2, <1>3, <1>4, <1>5, <1>6, <1>7

\* The answer is lost, the statement is not.
LEMMA AnswerLostKeeps ==
  ASSUME CloseInv, AnswerLost
  PROVE  CloseInv'
  <1> USE DEF CloseInv, TypeOK, AnswerLost, Accept, stepVars, pollVars, controlVars,
          closeVars, PCs, PathSteps, Outcomes, Cleanups, Commands
  <1>1. InstancesTypeOK' /\ OwnerInv'
    BY DEF InstancesTypeOK, OwnerInv, instanceVars, observationVars
  <1>2. TypeOK'
    <2>1. Enumerated'
      BY DEF Enumerated
    <2>2. Counted'
      BY DEF Counted
    <2>3. Recorded'
      BY StatementOK DEF Recorded
    <2> QED
      BY <1>1, <2>1, <2>2, <2>3 DEF Enumerated, Counted, Recorded
  <1>3. PathInv'
    BY DEF PathInv, Early
  <1>4. DeliveryInv'
    BY DEF DeliveryInv, PathInv, Early
  <1>5. StatementInv'
    BY DEF StatementInv, Statement, PathInv, Early
  <1>6. EvidenceDelivered'
    BY DEF EvidenceDelivered, DeliveryInv, PathInv, Early
  <1>7. OutcomeLeftBehind'
    BY DEF OutcomeLeftBehind
  <1> QED
    BY <1>1, <1>2, <1>3, <1>4, <1>5, <1>6, <1>7

\* The pause is over.
LEMMA PauseEndsKeeps ==
  ASSUME CloseInv, PauseEnds, UNCHANGED instanceVars
  PROVE  CloseInv'
  <1> USE DEF CloseInv, TypeOK, PauseEnds, stepVars, pollVars, controlVars,
          closeVars, PCs, PathSteps, Outcomes, Cleanups, Commands
  <1>1. InstancesTypeOK' /\ OwnerInv'
    BY DEF InstancesTypeOK, OwnerInv, instanceVars, observationVars
  <1>2. TypeOK'
    <2>1. Enumerated'
      BY DEF Enumerated
    <2>2. Counted'
      BY DEF Counted, DeliveryInv, Early
    <2>3. Recorded'
      BY DEF Recorded
    <2> QED
      BY <1>1, <2>1, <2>2, <2>3 DEF Enumerated, Counted, Recorded
  <1>3. PathInv'
    BY DEF PathInv, Early
  <1>4. DeliveryInv'
    BY DEF DeliveryInv, PathInv, Early
  <1>5. StatementInv'
    BY DEF StatementInv, Statement, PathInv, Early
  <1>6. EvidenceDelivered'
    BY DEF EvidenceDelivered, DeliveryInv, PathInv, Early
  <1>7. OutcomeLeftBehind'
    BY DEF OutcomeLeftBehind
  <1> QED
    BY <1>1, <1>2, <1>3, <1>4, <1>5, <1>6, <1>7

\* A refusal ends the run, or sends it to its settlement.
LEMMA DeliveryRefusedKeeps ==
  ASSUME CloseInv, DeliveryRefused, UNCHANGED instanceVars
  PROVE  CloseInv'
  <1> USE DEF CloseInv, TypeOK, DeliveryRefused, Refused, StepRefused, ByOutcome, SettleNext, stepVars, pollVars, controlVars,
          closeVars, PCs, PathSteps, Outcomes, Cleanups, Commands
  <1>1. InstancesTypeOK' /\ OwnerInv'
    BY DEF InstancesTypeOK, OwnerInv, instanceVars, observationVars
  <1>2. TypeOK'
    <2>1. Enumerated'
      BY DEF Enumerated
    <2>2. Counted'
      BY DEF Counted
    <2>3. Recorded'
      BY DEF Recorded
    <2> QED
      BY <1>1, <2>1, <2>2, <2>3 DEF Enumerated, Counted, Recorded
  <1>3. PathInv'
    BY DEF PathInv, Early
  <1>4. DeliveryInv'
    BY DEF DeliveryInv, PathInv, Early
  <1>5. StatementInv'
    BY DEF StatementInv, Statement, PathInv, Early
  <1>6. EvidenceDelivered'
    BY DEF EvidenceDelivered, DeliveryInv, PathInv, Early
  <1>7. OutcomeLeftBehind'
    BY DEF OutcomeLeftBehind
  <1> QED
    BY <1>1, <1>2, <1>3, <1>4, <1>5, <1>6, <1>7

\* The close of an unknown attempt is kept until the bound.
LEMMA NotFoundKeeps ==
  ASSUME CloseInv, NotFound, UNCHANGED instanceVars
  PROVE  CloseInv'
  <1> USE DEF CloseInv, TypeOK, NotFound, Refused, StepRefused, ByOutcome, SettleNext, stepVars, pollVars, controlVars,
          closeVars, PCs, PathSteps, Outcomes, Cleanups, Commands
  <1>1. InstancesTypeOK' /\ OwnerInv'
    BY DEF InstancesTypeOK, OwnerInv, instanceVars, observationVars
  <1>2. TypeOK'
    <2>1. Enumerated'
      BY DEF Enumerated
    <2>2. Counted'
      BY DEF Counted
    <2>3. Recorded'
      BY DEF Recorded
    <2> QED
      BY <1>1, <2>1, <2>2, <2>3 DEF Enumerated, Counted, Recorded
  <1>3. PathInv'
    BY DEF PathInv, Early
  <1>4. DeliveryInv'
    BY DEF DeliveryInv, PathInv, Early
  <1>5. StatementInv'
    BY DEF StatementInv, Statement, PathInv, Early
  <1>6. EvidenceDelivered'
    BY DEF EvidenceDelivered, DeliveryInv, PathInv, Early
  <1>7. OutcomeLeftBehind'
    BY DEF OutcomeLeftBehind
  <1> QED
    BY <1>1, <1>2, <1>3, <1>4, <1>5, <1>6, <1>7

\* The close is submitted again.
LEMMA ResubmitKeeps ==
  ASSUME CloseInv, Resubmit, UNCHANGED instanceVars
  PROVE  CloseInv'
  <1> USE DEF CloseInv, TypeOK, Resubmit, stepVars, pollVars, controlVars,
          closeVars, PCs, PathSteps, Outcomes, Cleanups, Commands
  <1>1. InstancesTypeOK' /\ OwnerInv'
    BY DEF InstancesTypeOK, OwnerInv, instanceVars, observationVars
  <1>2. TypeOK'
    <2>1. Enumerated'
      BY DEF Enumerated
    <2>2. Counted'
      BY DEF Counted, DeliveryInv, Early
    <2>3. Recorded'
      BY DEF Recorded
    <2> QED
      BY <1>1, <2>1, <2>2, <2>3 DEF Enumerated, Counted, Recorded
  <1>3. PathInv'
    BY DEF PathInv, Early
  <1>4. DeliveryInv'
    BY DEF DeliveryInv, PathInv, Early
  <1>5. StatementInv'
    BY DEF StatementInv, Statement, PathInv, Early
  <1>6. EvidenceDelivered'
    BY DEF EvidenceDelivered, DeliveryInv, PathInv, Early
  <1>7. OutcomeLeftBehind'
    BY DEF OutcomeLeftBehind
  <1> QED
    BY <1>1, <1>2, <1>3, <1>4, <1>5, <1>6, <1>7

\* The second close states the confirmed cleanup.
LEMMA ReconcileConfirmsKeeps ==
  ASSUME CloseInv, ReconcileConfirms, UNCHANGED instanceVars
  PROVE  CloseInv'
  <1> USE DEF CloseInv, TypeOK, ReconcileConfirms, stepVars, pollVars, controlVars,
          closeVars, PCs, PathSteps, Outcomes, Cleanups, Commands
  <1>1. InstancesTypeOK' /\ OwnerInv'
    BY DEF InstancesTypeOK, OwnerInv, instanceVars, observationVars
  <1>2. TypeOK'
    <2>1. Enumerated'
      BY DEF Enumerated
    <2>2. Counted'
      BY DEF Counted
    <2>3. Recorded'
      BY DEF Recorded
    <2> QED
      BY <1>1, <2>1, <2>2, <2>3 DEF Enumerated, Counted, Recorded
  <1>3. PathInv'
    BY DEF PathInv, Early
  <1>4. DeliveryInv'
    BY DEF DeliveryInv, PathInv, Early
  <1>5. StatementInv'
    BY DEF StatementInv, Statement, PathInv, Early, DeliveryInv
  <1>6. EvidenceDelivered'
    BY DEF EvidenceDelivered, DeliveryInv, PathInv, Early
  <1>7. OutcomeLeftBehind'
    BY DEF OutcomeLeftBehind
  <1> QED
    BY <1>1, <1>2, <1>3, <1>4, <1>5, <1>6, <1>7

\* Another round.
LEMMA ReconcileAgainKeeps ==
  ASSUME CloseInv, ReconcileAgain, UNCHANGED instanceVars
  PROVE  CloseInv'
  <1> USE DEF CloseInv, TypeOK, ReconcileAgain, stepVars, pollVars, controlVars,
          closeVars, PCs, PathSteps, Outcomes, Cleanups, Commands
  <1>1. InstancesTypeOK' /\ OwnerInv'
    BY DEF InstancesTypeOK, OwnerInv, instanceVars, observationVars
  <1>2. TypeOK'
    <2>1. Enumerated'
      BY DEF Enumerated
    <2>2. Counted'
      BY DEF Counted
    <2>3. Recorded'
      BY DEF Recorded
    <2> QED
      BY <1>1, <2>1, <2>2, <2>3 DEF Enumerated, Counted, Recorded
  <1>3. PathInv'
    BY DEF PathInv, Early
  <1>4. DeliveryInv'
    BY DEF DeliveryInv, PathInv, Early
  <1>5. StatementInv'
    BY DEF StatementInv, Statement, PathInv, Early
  <1>6. EvidenceDelivered'
    BY DEF EvidenceDelivered, DeliveryInv, PathInv, Early
  <1>7. OutcomeLeftBehind'
    BY DEF OutcomeLeftBehind
  <1> QED
    BY <1>1, <1>2, <1>3, <1>4, <1>5, <1>6, <1>7

\* The reconciliation is given up.
LEMMA ReconcileGivesUpKeeps ==
  ASSUME CloseInv, ReconcileGivesUp, UNCHANGED instanceVars
  PROVE  CloseInv'
  <1> USE DEF CloseInv, TypeOK, ReconcileGivesUp, Refused, StepRefused, ByOutcome, SettleNext, stepVars, pollVars, controlVars,
          closeVars, PCs, PathSteps, Outcomes, Cleanups, Commands
  <1>1. InstancesTypeOK' /\ OwnerInv'
    BY DEF InstancesTypeOK, OwnerInv, instanceVars, observationVars
  <1>2. TypeOK'
    <2>1. Enumerated'
      BY DEF Enumerated
    <2>2. Counted'
      BY DEF Counted
    <2>3. Recorded'
      BY DEF Recorded
    <2> QED
      BY <1>1, <2>1, <2>2, <2>3 DEF Enumerated, Counted, Recorded
  <1>3. PathInv'
    BY DEF PathInv, Early
  <1>4. DeliveryInv'
    BY DEF DeliveryInv, PathInv, Early
  <1>5. StatementInv'
    BY DEF StatementInv, Statement, PathInv, Early
  <1>6. EvidenceDelivered'
    BY DEF EvidenceDelivered, DeliveryInv, PathInv, Early
  <1>7. OutcomeLeftBehind'
    BY DEF OutcomeLeftBehind
  <1> QED
    BY <1>1, <1>2, <1>3, <1>4, <1>5, <1>6, <1>7

\* Control's obligations resolve.
LEMMA ObligationsResolveKeeps ==
  ASSUME CloseInv, ObligationsResolve
  PROVE  CloseInv'
  <1> USE DEF CloseInv, TypeOK, ObligationsResolve, stepVars, pollVars, controlVars,
          closeVars, PCs, PathSteps, Outcomes, Cleanups, Commands
  <1>1. InstancesTypeOK' /\ OwnerInv'
    BY DEF InstancesTypeOK, OwnerInv, instanceVars, observationVars
  <1>2. TypeOK'
    <2>1. Enumerated'
      BY DEF Enumerated
    <2>2. Counted'
      BY DEF Counted
    <2>3. Recorded'
      BY DEF Recorded
    <2> QED
      BY <1>1, <2>1, <2>2, <2>3 DEF Enumerated, Counted, Recorded
  <1>3. PathInv'
    BY DEF PathInv, Early
  <1>4. DeliveryInv'
    BY DEF DeliveryInv, PathInv, Early
  <1>5. StatementInv'
    BY DEF StatementInv, Statement, PathInv, Early
  <1>6. EvidenceDelivered'
    BY DEF EvidenceDelivered, DeliveryInv, PathInv, Early
  <1>7. OutcomeLeftBehind'
    BY DEF OutcomeLeftBehind
  <1> QED
    BY <1>1, <1>2, <1>3, <1>4, <1>5, <1>6, <1>7

\* The harness has its stage accepted.
LEMMA StageAcceptedKeeps ==
  ASSUME CloseInv, StageAccepted
  PROVE  CloseInv'
  <1> USE DEF CloseInv, TypeOK, StageAccepted, stepVars, pollVars, controlVars,
          closeVars, PCs, PathSteps, Outcomes, Cleanups, Commands
  <1>1. InstancesTypeOK' /\ OwnerInv'
    BY DEF InstancesTypeOK, OwnerInv, instanceVars, observationVars
  <1>2. TypeOK'
    <2>1. Enumerated'
      BY DEF Enumerated
    <2>2. Counted'
      BY DEF Counted
    <2>3. Recorded'
      BY DEF Recorded
    <2> QED
      BY <1>1, <2>1, <2>2, <2>3 DEF Enumerated, Counted, Recorded
  <1>3. PathInv'
    BY DEF PathInv, Early
  <1>4. DeliveryInv'
    BY DEF DeliveryInv, PathInv, Early
  <1>5. StatementInv'
    BY DEF StatementInv, Statement, PathInv, Early
  <1>6. EvidenceDelivered'
    BY DEF EvidenceDelivered, DeliveryInv, PathInv, Early
  <1>7. OutcomeLeftBehind'
    BY DEF OutcomeLeftBehind
  <1> QED
    BY <1>1, <1>2, <1>3, <1>4, <1>5, <1>6, <1>7

\* The attempt is restored.
LEMMA RestoreKeeps ==
  ASSUME CloseInv, Restore
  PROVE  CloseInv'
  <1> USE DEF CloseInv, TypeOK, Restore, stepVars, pollVars, controlVars,
          closeVars, PCs, PathSteps, Outcomes, Cleanups, Commands
  <1>1. InstancesTypeOK' /\ OwnerInv'
    BY DEF InstancesTypeOK, OwnerInv, instanceVars, observationVars
  <1>2. TypeOK'
    <2>1. Enumerated'
      BY DEF Enumerated
    <2>2. Counted'
      BY DEF Counted
    <2>3. Recorded'
      BY DEF Recorded
    <2> QED
      BY <1>1, <2>1, <2>2, <2>3 DEF Enumerated, Counted, Recorded
  <1>3. PathInv'
    BY DEF PathInv, Early
  <1>4. DeliveryInv'
    BY DEF DeliveryInv, PathInv, Early
  <1>5. StatementInv'
    BY DEF StatementInv, Statement, PathInv, Early
  <1>6. EvidenceDelivered'
    BY DEF EvidenceDelivered, DeliveryInv, PathInv, Early
  <1>7. OutcomeLeftBehind'
    BY DEF OutcomeLeftBehind
  <1> QED
    BY <1>1, <1>2, <1>3, <1>4, <1>5, <1>6, <1>7

\* Control's database is restored.
LEMMA LoseKeeps ==
  ASSUME CloseInv, Lose
  PROVE  CloseInv'
  <1> USE DEF CloseInv, TypeOK, Lose, stepVars, pollVars, controlVars,
          closeVars, PCs, PathSteps, Outcomes, Cleanups, Commands
  <1>1. InstancesTypeOK' /\ OwnerInv'
    BY DEF InstancesTypeOK, OwnerInv, instanceVars, observationVars
  <1>2. TypeOK'
    <2>1. Enumerated'
      BY DEF Enumerated
    <2>2. Counted'
      BY DEF Counted
    <2>3. Recorded'
      BY DEF Recorded
    <2> QED
      BY <1>1, <2>1, <2>2, <2>3 DEF Enumerated, Counted, Recorded
  <1>3. PathInv'
    BY DEF PathInv, Early
  <1>4. DeliveryInv'
    BY DEF DeliveryInv, PathInv, Early
  <1>5. StatementInv'
    BY DEF StatementInv, Statement, PathInv, Early
  <1>6. EvidenceDelivered'
    BY DEF EvidenceDelivered, DeliveryInv, PathInv, Early
  <1>7. OutcomeLeftBehind'
    BY DEF OutcomeLeftBehind
  <1> QED
    BY <1>1, <1>2, <1>3, <1>4, <1>5, <1>6, <1>7

\* The cluster moves on.
LEMMA ClusterKeeps ==
  ASSUME CloseInv, Cluster
  PROVE  CloseInv'
  <1> USE DEF CloseInv, TypeOK, Cluster, ClusterStep, PodAppears, PodEnds, PodVanishes, PodGoes, JobEnds, stepVars, pollVars, controlVars,
          closeVars, PCs, PathSteps, Outcomes, Cleanups, Commands
  <1>1. InstancesTypeOK' /\ OwnerInv'
    BY DEF InstancesTypeOK, OwnerInv, instanceVars, observationVars, Jobs, Reasons, Phases
  <1>2. TypeOK'
    <2>1. Enumerated'
      BY DEF Enumerated
    <2>2. Counted'
      BY DEF Counted
    <2>3. Recorded'
      BY DEF Recorded
    <2> QED
      BY <1>1, <2>1, <2>2, <2>3 DEF Enumerated, Counted, Recorded
  <1>3. PathInv'
    BY DEF PathInv, Early
  <1>4. DeliveryInv'
    BY DEF DeliveryInv, PathInv, Early
  <1>5. StatementInv'
    BY DEF StatementInv, Statement, PathInv, Early
  <1>6. EvidenceDelivered'
    BY DEF EvidenceDelivered, DeliveryInv, PathInv, Early
  <1>7. OutcomeLeftBehind'
    BY DEF OutcomeLeftBehind
  <1> QED
    BY <1>1, <1>2, <1>3, <1>4, <1>5, <1>6, <1>7

LEMMA InitHolds == Init => CloseInv
  <1> SUFFICES ASSUME Init
               PROVE  CloseInv
    OBVIOUS
  <1> USE DEF Init, InstancesInit
  <1>1. InstancesTypeOK
    <2>1. "none" \in Jobs /\ "absent" \in Phases /\ <<>> \in Seq(Pods)
      BY DEF Jobs, Phases
    <2>2. phase \in [Pods -> Phases]
      BY <2>1
    <2>3. seen = Nothing /\ place = 0 /\ place \in 0 .. Len(seen.pods)
      BY NothingOK
    <2> QED
      BY <2>1, <2>2, <2>3, NothingOK DEF InstancesTypeOK
  <1>2. TypeOK
    <2>1. Enumerated
      BY DEF Enumerated, PCs, PathSteps, Outcomes, Cleanups, Commands
    <2>2. Counted
      BY DEF Counted
    <2>3. Recorded
      BY DEF Recorded
    <2> QED
      BY <1>1, <2>1, <2>2, <2>3 DEF TypeOK, Enumerated, Counted, Recorded
  <1>3. PathInv /\ OwnerInv /\ DeliveryInv /\ StatementInv
    BY NothingOK DEF PathInv, OwnerInv, DeliveryInv, StatementInv, Early, PathSteps
  <1>4. EvidenceDelivered /\ OutcomeLeftBehind
    BY DEF EvidenceDelivered, OutcomeLeftBehind
  <1> QED
    BY <1>2, <1>3, <1>4 DEF CloseInv

LEMMA StutterKeeps ==
  ASSUME CloseInv, UNCHANGED vars
  PROVE  CloseInv'
  BY DEF CloseInv, TypeOK, InstancesTypeOK, PathInv, OwnerInv, DeliveryInv,
         StatementInv, Statement, EvidenceDelivered, OutcomeLeftBehind, vars,
         stepVars, pollVars, closeVars, controlVars, instanceVars, observationVars

LEMMA AnsweredKeeps ==
  ASSUME CloseInv, Answered, UNCHANGED instanceVars
  PROVE  CloseInv'
  BY AnsweredWays, PausesKeeps, RollsOverKeeps, SettlesKeeps, IsDoneKeeps, ReconcilesKeeps

LEMMA StepKeeps ==
  ASSUME CloseInv, [Next]_vars
  PROVE  CloseInv'
  <1>1. CASE PathStep
    BY <1>1, CreateAnsweredKeeps, LookBeginsKeeps, LookMissedKeeps, OwnerAwaitedKeeps,
       OwnerRegisteredKeeps, JobObservedKeeps, InstanceRegisteredKeeps,
       OwnerCheckedKeeps, ResultAnsweredKeeps, StageAnsweredKeeps, CleanupKeeps
    DEF PathStep
  <1>2. CASE CloseStep /\ UNCHANGED instanceVars
    BY <1>2, OpenRefusedKeeps, OpenAnsweredKeeps, PrepareLaunchKeeps, StepFailsKeeps,
       AnsweredKeeps, PauseEndsKeeps, DeliveryRefusedKeeps, NotFoundKeeps,
       ResubmitKeeps, ReconcileConfirmsKeeps, ReconcileAgainKeeps,
       ReconcileGivesUpKeeps
    DEF CloseStep
  <1>3. CASE ControlStep \/ Lose \/ Cluster
    BY <1>3, AnswerLostKeeps, ObligationsResolveKeeps, StageAcceptedKeeps,
       RestoreKeeps, LoseKeeps, ClusterKeeps DEF ControlStep
  <1>4. CASE Ended \/ UNCHANGED vars
    BY <1>4, StutterKeeps DEF Ended
  <1> QED
    BY <1>1, <1>2, <1>3, <1>4 DEF Next, RunStep

\* The inductive invariant of an attempt, for any bounds and any Pods.
THEOREM Invariance == Spec => []CloseInv
  <1>1. Init => CloseInv
    BY InitHolds
  <1>2. CloseInv /\ [Next]_vars => CloseInv'
    BY StepKeeps
  <1> QED
    BY <1>1, <1>2, PTL DEF Spec

\* Every variable keeps its type: the polls, the rounds and the resubmissions
\* stay within their bounds.
THEOREM TypeCorrect == Spec => []TypeOK
  <1>1. CloseInv => TypeOK
    BY DEF CloseInv
  <1> QED
    BY <1>1, Invariance, PTL

\* A LocalCheck run that ends without an error left definite cleanup evidence
\* with Control; one that drops the close of a launch reached a bound.
THEOREM EvidenceReaches == Spec => []EvidenceDelivered
  <1>1. CloseInv => EvidenceDelivered
    BY DEF CloseInv
  <1> QED
    BY <1>1, Invariance, PTL

\* Control is told one thing under one command, one outcome of an attempt, and
\* a completion only after it accepted the certified result.
THEOREM NothingUntrue == Spec => []StatementsTrue
  <1>1. CloseInv => StatementsTrue
    BY DEF CloseInv, TypeOK, Statements, Commands, PathInv, StatementInv, StatementsTrue
  <1> QED
    BY <1>1, Invariance, PTL

\* The Pod whose result completes an attempt is Control's current instance,
\* and a duplicate only if the Job had no Pod of its own left to see.
THEOREM OnePodDecides == Spec => []OwnerDecides
  <1>1. CloseInv => OwnerDecides
    <2> SUFFICES ASSUME CloseInv, pc = "cleanup", outcome = "completed"
                 PROVE  /\ losses = 0 => registered[1] = seen.pods[1]
                        /\ \/ seen.pods[1] \in Own
                           \/ \A i \in DOMAIN seen.pods : seen.pods[i] \in Others
      BY DEF OwnerDecides
    <2>1. seen.pods \in Seq(Pods)
      BY DEF CloseInv, TypeOK, InstancesTypeOK, Observation
    <2>2. ASSUME NEW i \in DOMAIN seen.pods, seen.pods[1] \notin Own
          PROVE  seen.pods[i] \in Others
      <3>1. i \in 1 .. Len(seen.pods) /\ 1 \in DOMAIN seen.pods /\ seen.pods[i] \in Pods
        BY <2>1
      <3> QED
        BY <2>2, <3>1 DEF CloseInv, OwnerInv, Pods
    <2> QED
      BY <2>2 DEF CloseInv, OwnerInv
  <1> QED
    BY <1>1, Invariance, PTL

\* A multi-step run that waits after a step that did not complete has left
\* its settlement with Control.
THEOREM LeftBehind == Spec => []OutcomeLeftBehind
  <1>1. CloseInv => OutcomeLeftBehind
    BY DEF CloseInv
  <1> QED
    BY <1>1, Invariance, PTL

\* While one command is delivered its backoff never shrinks.
THEOREM Backoff == Spec => BackoffHolds
  <1>1. CloseInv /\ [Next]_vars => [command' = command /\ pc # "await" => interval' >= interval]_vars
    <2> SUFFICES ASSUME CloseInv, Next, command' = command, pc # "await"
                 PROVE  interval' >= interval
      OBVIOUS
    <2> USE DEF CloseInv, TypeOK
    <2>1. interval \in Nat
      OBVIOUS
    <2>2. CASE Answered /\ UNCHANGED instanceVars
      <3>1. Pauses \/ RollsOver \/ Settles \/ IsDone \/ Reconciles
        BY <2>2, AnsweredWays
      <3>2. CASE Settles
        BY <3>2 DEF Settles, SettleNext
      <3>3. CASE Pauses \/ RollsOver \/ IsDone \/ Reconciles
        BY <2>1, <3>3 DEF Pauses, RollsOver, RollOver, IsDone, Reconciles, pollVars
      <3> QED
        BY <3>1, <3>2, <3>3
    <2>3. CASE ReconcileConfirms
      BY <2>1, <2>3 DEF ReconcileConfirms, DeliveryInv, Early, PathSteps
    <2>4. CASE DeliveryRefused \/ NotFound \/ ReconcileGivesUp
      BY <2>1, <2>4 DEF DeliveryRefused, NotFound, ReconcileGivesUp, Refused, StepRefused, SettleNext, pollVars
    <2>5. CASE PauseEnds \/ Resubmit \/ ReconcileAgain
      BY <2>1, <2>5 DEF PauseEnds, Resubmit, ReconcileAgain, pollVars
    <2>6. CASE OpenRefused \/ OpenAnswered \/ PrepareLaunch \/ StepFails
      <3>1. interval' = interval
        BY <2>6 DEF OpenRefused, OpenAnswered, PrepareLaunch, StepFails, pollVars
      <3> QED
        BY <2>1, <3>1
    <2>7. CASE PathStep
      BY <2>1, <2>7 DEF PathStep, CreateAnswered, LookBegins, LookMissed, OwnerAwaited,
         OwnerRegistered, JobObserved, InstanceRegistered, OwnerChecked,
         ResultAnswered, StageAnswered, Cleanup, PathGoes, closeVars, pollVars
    <2>8. CASE ControlStep \/ Lose \/ Cluster \/ Ended
      BY <2>1, <2>8 DEF ControlStep, AnswerLost, ObligationsResolve, StageAccepted,
         Restore, Lose, Cluster, Ended, vars, closeVars, pollVars
    <2> QED
      BY <2>2, <2>3, <2>4, <2>5, <2>6, <2>7, <2>8 DEF Next, RunStep, CloseStep
  <1> QED
    BY <1>1, Invariance, PTL DEF Spec, BackoffHolds
=============================================================================
