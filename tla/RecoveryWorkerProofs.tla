------------------------ MODULE RecoveryWorkerProofs ------------------------
(***************************************************************************)
(* What holds of the two long-lived parts of the worker, for all values of *)
(* the constants.                                                          *)
(*                                                                         *)
(* 1. A Recovery run, for any number of findings, create requests and      *)
(*    rounds and any page size: RInv is inductive (one lemma per action),  *)
(*    so nothing is stopped whose observation Control does not have, and   *)
(*    the observation that the key is empty is not lost.                   *)
(* 2. The worker process (names with Worker), for any number of Activities *)
(*    per queue and of file sets: WInv is inductive, so a ready process    *)
(*    serves and its clients outlive what uses them, whichever of the      *)
(*    start, the fatal callbacks and the stop comes first.                 *)
(***************************************************************************)
EXTENDS Recovery, Worker, TLAPS

-----------------------------------------------------------------------------
(***************************************************************************)
(* 1. Recovery.                                                            *)
(***************************************************************************)
\* What was seen, recorded or stopped is of requests that are over; a
\* deletion timestamp is a Job's.
SeenInv ==
  /\ pending \cap (seen \cup recorded \cup evidence \cup pods) = {}
  /\ job \notin pending /\ sawJob \notin pending
  /\ terminating => job # NoJob
  /\ recorded \subseteq evidence

\* An empty key was observed in a launch that is not observed again, and
\* nothing that is recorded comes back.
EmptyInv ==
  /\ pc = "delete" /\ step = "list" /\ sawJob = NoJob => job \notin evidence
  /\ stopPending \/ told \/ pc = "confirm" => emptied
  /\ emptied => /\ pc \notin {"observe", "record", "delete"}
                /\ evidence \cap (pods \cup {job}) = {}

\* What lies before the cursor was advanced or has settled.
WalkInv ==
  /\ last => cursor = Findings
  /\ pc \in {"list", "batch", "observe", "record", "delete", "confirm", "next"} =>
       \A f \in due : f <= cursor =>
          \/ f \in asked \cup settled
          \/ pc = "batch" /\ f \in page
  /\ WalkComplete

RInv ==
  /\ TypeOK /\ SeenInv /\ EmptyInv /\ WalkInv
  /\ RecordedBeforeDelete /\ StopEvidence

USE RecoveryAssumption DEF Ids, Launch, Markers, NoJob

\* Control enumerates one obligation more.
LEMMA EnumeratePageKeeps ==
  ASSUME RInv, EnumeratePage
  PROVE  RInv'
  <1> USE DEF RInv, EnumeratePage, passVars, ledgerVars, launchVars,
          controlVars, clusterVars
  <1>1. TypeOK'
    BY DEF TypeOK
  <1>2. SeenInv'
    BY DEF TypeOK, SeenInv
  <1>3. EmptyInv'
    BY DEF TypeOK, SeenInv, EmptyInv
  <1>4. RecordedBeforeDelete'
    BY DEF TypeOK, SeenInv, RecordedBeforeDelete
  <1>5. StopEvidence'
    BY DEF TypeOK, SeenInv, EmptyInv, StopEvidence
  <1>6. WalkInv'
    BY DEF TypeOK, WalkInv, WalkComplete
  <1> QED
    BY <1>1, <1>2, <1>3, <1>4, <1>5, <1>6

\* A pass begins without evidence of its own.
LEMMA BeginPassKeeps ==
  ASSUME RInv, BeginPass
  PROVE  RInv'
  <1> USE DEF RInv, BeginPass, passVars, ledgerVars, launchVars,
          controlVars, clusterVars
  <1>1. TypeOK'
    <2>1. pc' \in {"enumerate", "list", "batch", "observe", "record", "delete",
               "confirm", "next", "evaluate", "sleep", "done", "failed"}
      BY DEF TypeOK
    <2>2. round' \in 1 .. MaxRounds /\ cursor' \in 0 .. Findings /\ enumerated' \in 0 .. Findings
      BY DEF TypeOK
    <2>3. page' \in SUBSET Ids /\ asked' \in SUBSET Ids /\ due' \in SUBSET Ids
      BY DEF TypeOK
    <2>4. settled' \in SUBSET Ids
      BY DEF TypeOK
    <2>5. last' \in BOOLEAN
      BY DEF TypeOK
    <2>6. incomplete' \in BOOLEAN
      BY DEF TypeOK
    <2>7. stopPending' \in BOOLEAN
      BY DEF TypeOK
    <2>8. deleting' \in BOOLEAN
      BY DEF TypeOK
    <2>9. told' \in BOOLEAN
      BY DEF TypeOK
    <2>10. emptied' \in BOOLEAN
      BY DEF TypeOK
    <2>11. terminating' \in BOOLEAN
      BY DEF TypeOK
    <2>12. recorded' \in SUBSET Markers /\ seen' \in SUBSET Markers /\ evidence' \in SUBSET Markers
      BY DEF TypeOK
    <2>13. pending' \in SUBSET Markers /\ pods' \in SUBSET Markers /\ deletes' \in SUBSET Markers
      BY DEF TypeOK
    <2>14. stoppedJob' \in 0 .. Requests /\ jobUID' \in 0 .. Requests /\ seenJob' \in 0 .. Requests
      BY DEF TypeOK
    <2>15. sawJob' \in 0 .. Requests /\ job' \in 0 .. Requests
      BY DEF TypeOK
    <2>16. step' \in {"get", "list"}
      BY DEF TypeOK
    <2> QED
      BY <2>1, <2>2, <2>3, <2>4, <2>5, <2>6, <2>7, <2>8, <2>9, <2>10, <2>11, <2>12, <2>13, <2>14, <2>15, <2>16 DEF TypeOK
  <1>2. SeenInv'
    BY DEF TypeOK, SeenInv
  <1>3. EmptyInv'
    BY DEF TypeOK, SeenInv, EmptyInv
  <1>4. RecordedBeforeDelete'
    BY DEF TypeOK, SeenInv, RecordedBeforeDelete
  <1>5. StopEvidence'
    BY DEF TypeOK, SeenInv, EmptyInv, StopEvidence
  <1>6. WalkInv'
    BY DEF TypeOK, WalkInv, WalkComplete
  <1> QED
    BY <1>1, <1>2, <1>3, <1>4, <1>5, <1>6

\* A failed read keeps every ledger.
LEMMA PassFailsKeeps ==
  ASSUME RInv, PassFails
  PROVE  RInv'
  <1> USE DEF RInv, PassFails, passVars, ledgerVars, launchVars,
          controlVars, clusterVars
  <1>1. TypeOK'
    BY DEF TypeOK
  <1>2. SeenInv'
    BY DEF TypeOK, SeenInv
  <1>3. EmptyInv'
    BY DEF TypeOK, SeenInv, EmptyInv
  <1>4. RecordedBeforeDelete'
    BY DEF TypeOK, SeenInv, RecordedBeforeDelete
  <1>5. StopEvidence'
    BY DEF TypeOK, SeenInv, EmptyInv, StopEvidence
  <1>6. WalkInv'
    BY DEF TypeOK, WalkInv, WalkComplete
  <1> QED
    BY <1>1, <1>2, <1>3, <1>4, <1>5, <1>6

\* A page names findings of the window.
LEMMA ListPageKeeps ==
  ASSUME RInv, ListPage
  PROVE  RInv'
  <1> USE DEF RInv, ListPage, passVars, ledgerVars, launchVars,
          controlVars, clusterVars
  <1>1. TypeOK'
    <2> DEFINE end == IF cursor + PageSize < Len(Listing)
                      THEN cursor + PageSize ELSE Len(Listing)
               read == SubSeq(Listing, cursor + 1, end)
    <2>1. Listing \in Seq(Ids) /\ Len(Listing) = Findings
      BY DEF Listing, InOrder
    <2>2. read \in Seq(Ids)
      BY <2>1 DEF TypeOK
    <2>3. page' = {read[i] : i \in DOMAIN read} \ settled
      OBVIOUS
    <2> HIDE DEF read
    <2>4. page' \in SUBSET Ids
      <3>1. \A i \in DOMAIN read : read[i] \in Ids
        BY <2>2
      <3> HIDE DEF Ids, ListPage
      <3> QED
        BY <2>3, <3>1
    <2>5. cursor' \in 0 .. Findings /\ last' \in BOOLEAN
      BY <2>1 DEF TypeOK
    <2> QED
      BY <2>4, <2>5 DEF TypeOK
  <1>2. SeenInv'
    BY DEF TypeOK, SeenInv
  <1>3. EmptyInv'
    BY DEF TypeOK, SeenInv, EmptyInv
  <1>4. RecordedBeforeDelete'
    BY DEF TypeOK, SeenInv, RecordedBeforeDelete
  <1>5. StopEvidence'
    BY DEF TypeOK, SeenInv, EmptyInv, StopEvidence
  <1>6. WalkInv'
    <2> DEFINE end == IF cursor + PageSize < Len(Listing)
                      THEN cursor + PageSize ELSE Len(Listing)
               read == SubSeq(Listing, cursor + 1, end)
    <2>1. Listing = [i \in 1 .. Findings |-> i] /\ Len(Listing) = Findings
      BY DEF Listing, InOrder
    <2>2. cursor' = end
      BY <2>1 DEF TypeOK
    <2>7. last' => cursor' = Findings
      <3>1. last' => cursor + PageSize >= Len(Listing)
        BY Zenon
      <3>2. cursor + PageSize >= Findings => cursor' = Findings
        BY DEF TypeOK
      <3> QED
        BY <2>1, <3>1, <3>2
    <2>3. ASSUME NEW f \in Ids, cursor < f, f <= end
          PROVE  f \in {read[i] : i \in DOMAIN read}
      <3>1. f - cursor \in DOMAIN read /\ read[f - cursor] = f
        BY <2>1, <2>3 DEF TypeOK
      <3> QED
        BY <3>1
    <2>4. page' = {read[i] : i \in DOMAIN read} \ settled
      OBVIOUS
    <2>5. ASSUME NEW f \in due, f <= end
          PROVE  f \in asked \cup settled \/ f \in page'
      <3>1. f \in Ids /\ cursor \in Nat /\ end \in Nat
        BY <2>1 DEF TypeOK
      <3>2. CASE f <= cursor
        BY <3>2 DEF WalkInv
      <3>3. CASE cursor < f
        <4>1. f \in {read[i] : i \in DOMAIN read}
          BY <2>3, <2>5, <3>1, <3>3
        <4> HIDE DEF read, end
        <4> QED
          BY <2>4, <4>1
      <3> QED
        BY <3>1, <3>2, <3>3
    <2>6. /\ pc' = "batch" /\ due' = due /\ asked' = asked
          /\ settled' = settled
      OBVIOUS
    <2> HIDE DEF read, end, ListPage
    <2> QED
      <3>1. \A f \in due' : f <= cursor' =>
              \/ f \in asked' \cup settled'
              \/ pc' = "batch" /\ f \in page'
        <4>1. \A f \in due : f <= end => f \in asked \cup settled \/ f \in page'
          BY <2>5
        <4> QED
          BY <2>2, <2>6, <4>1
      <3>2. WalkComplete'
        BY <2>6 DEF WalkComplete
      <3> QED
        BY <2>7, <3>1, <3>2, Zenon DEF WalkInv
  <1> QED
    BY <1>1, <1>2, <1>3, <1>4, <1>5, <1>6

\* An owed confirmation is made before the launch is observed again.
LEMMA AdvancePageKeeps ==
  ASSUME RInv, AdvancePage
  PROVE  RInv'
  <1> USE DEF RInv, AdvancePage, passVars, ledgerVars, launchVars,
          controlVars, clusterVars
  <1>1. TypeOK'
    BY DEF TypeOK
  <1>2. SeenInv'
    BY DEF TypeOK, SeenInv
  <1>3. EmptyInv'
    BY DEF TypeOK, SeenInv, EmptyInv, StopEvidence
  <1>4. RecordedBeforeDelete'
    BY DEF TypeOK, SeenInv, RecordedBeforeDelete
  <1>5. StopEvidence'
    BY DEF TypeOK, SeenInv, EmptyInv, StopEvidence
  <1>6. WalkInv'
    BY DEF TypeOK, WalkInv, WalkComplete
  <1> QED
    BY <1>1, <1>2, <1>3, <1>4, <1>5, <1>6

\* Nothing advanced, nothing is lost.
LEMMA AdvanceFailsKeeps ==
  ASSUME RInv, AdvanceFails
  PROVE  RInv'
  <1> USE DEF RInv, AdvanceFails, passVars, ledgerVars, launchVars,
          controlVars, clusterVars
  <1>1. TypeOK'
    BY DEF TypeOK
  <1>2. SeenInv'
    BY DEF TypeOK, SeenInv
  <1>3. EmptyInv'
    BY DEF TypeOK, SeenInv, EmptyInv
  <1>4. RecordedBeforeDelete'
    BY DEF TypeOK, SeenInv, RecordedBeforeDelete
  <1>5. StopEvidence'
    BY DEF TypeOK, SeenInv, EmptyInv, StopEvidence
  <1>6. WalkInv'
    BY DEF TypeOK, WalkInv, WalkComplete
  <1> QED
    BY <1>1, <1>2, <1>3, <1>4, <1>5, <1>6

\* The walk goes on.
LEMMA NextPageKeeps ==
  ASSUME RInv, NextPage
  PROVE  RInv'
  <1> USE DEF RInv, NextPage, passVars, ledgerVars, launchVars,
          controlVars, clusterVars
  <1>1. TypeOK'
    BY DEF TypeOK
  <1>2. SeenInv'
    BY DEF TypeOK, SeenInv
  <1>3. EmptyInv'
    BY DEF TypeOK, SeenInv, EmptyInv
  <1>4. RecordedBeforeDelete'
    BY DEF TypeOK, SeenInv, RecordedBeforeDelete
  <1>5. StopEvidence'
    BY DEF TypeOK, SeenInv, EmptyInv, StopEvidence
  <1>6. WalkInv'
    BY DEF TypeOK, WalkInv, WalkComplete
  <1> QED
    BY <1>1, <1>2, <1>3, <1>4, <1>5, <1>6

\* The evaluation changes no evidence.
LEMMA EvaluateKeeps ==
  ASSUME RInv, Evaluate
  PROVE  RInv'
  <1> USE DEF RInv, Evaluate, passVars, ledgerVars, launchVars,
          controlVars, clusterVars
  <1>1. TypeOK'
    BY DEF TypeOK
  <1>2. SeenInv'
    BY DEF TypeOK, SeenInv
  <1>3. EmptyInv'
    BY DEF TypeOK, SeenInv, EmptyInv
  <1>4. RecordedBeforeDelete'
    BY DEF TypeOK, SeenInv, RecordedBeforeDelete
  <1>5. StopEvidence'
    BY DEF TypeOK, SeenInv, EmptyInv, StopEvidence
  <1>6. WalkInv'
    BY DEF TypeOK, WalkInv, WalkComplete
  <1> QED
    BY <1>1, <1>2, <1>3, <1>4, <1>5, <1>6

\* A refused evaluation changes no evidence.
LEMMA EvaluateRefusedKeeps ==
  ASSUME RInv, EvaluateRefused
  PROVE  RInv'
  <1> USE DEF RInv, EvaluateRefused, passVars, ledgerVars, launchVars,
          controlVars, clusterVars
  <1>1. TypeOK'
    BY DEF TypeOK
  <1>2. SeenInv'
    BY DEF TypeOK, SeenInv
  <1>3. EmptyInv'
    BY DEF TypeOK, SeenInv, EmptyInv
  <1>4. RecordedBeforeDelete'
    BY DEF TypeOK, SeenInv, RecordedBeforeDelete
  <1>5. StopEvidence'
    BY DEF TypeOK, SeenInv, EmptyInv, StopEvidence
  <1>6. WalkInv'
    BY DEF TypeOK, WalkInv, WalkComplete
  <1> QED
    BY <1>1, <1>2, <1>3, <1>4, <1>5, <1>6

\* The last round changes no evidence.
LEMMA RoundsExhaustedKeeps ==
  ASSUME RInv, RoundsExhausted
  PROVE  RInv'
  <1> USE DEF RInv, RoundsExhausted, passVars, ledgerVars, launchVars,
          controlVars, clusterVars
  <1>1. TypeOK'
    BY DEF TypeOK
  <1>2. SeenInv'
    BY DEF TypeOK, SeenInv
  <1>3. EmptyInv'
    BY DEF TypeOK, SeenInv, EmptyInv
  <1>4. RecordedBeforeDelete'
    BY DEF TypeOK, SeenInv, RecordedBeforeDelete
  <1>5. StopEvidence'
    BY DEF TypeOK, SeenInv, EmptyInv, StopEvidence
  <1>6. WalkInv'
    BY DEF TypeOK, WalkInv, WalkComplete
  <1> QED
    BY <1>1, <1>2, <1>3, <1>4, <1>5, <1>6

\* The next round holds the ledger the last one carried.
LEMMA ContinueAsNewKeeps ==
  ASSUME RInv, ContinueAsNew
  PROVE  RInv'
  <1> USE DEF RInv, ContinueAsNew, NewRound, RunAfresh, passVars,
          ledgerVars, launchVars, controlVars, clusterVars
  <1>1. TypeOK'
    <2>1. pc' \in {"enumerate", "list", "batch", "observe", "record", "delete",
               "confirm", "next", "evaluate", "sleep", "done", "failed"}
      BY DEF TypeOK
    <2>2. round' \in 1 .. MaxRounds /\ cursor' \in 0 .. Findings /\ enumerated' \in 0 .. Findings
      BY DEF TypeOK
    <2>3. page' \in SUBSET Ids /\ asked' \in SUBSET Ids /\ due' \in SUBSET Ids
      BY DEF TypeOK
    <2>4. settled' \in SUBSET Ids
      BY DEF TypeOK
    <2>5. last' \in BOOLEAN
      BY DEF TypeOK
    <2>6. incomplete' \in BOOLEAN
      BY DEF TypeOK
    <2>7. stopPending' \in BOOLEAN
      BY DEF TypeOK
    <2>8. deleting' \in BOOLEAN
      BY DEF TypeOK
    <2>9. told' \in BOOLEAN
      BY DEF TypeOK
    <2>10. emptied' \in BOOLEAN
      BY DEF TypeOK
    <2>11. terminating' \in BOOLEAN
      BY DEF TypeOK
    <2>12. recorded' \in SUBSET Markers /\ seen' \in SUBSET Markers /\ evidence' \in SUBSET Markers
      BY DEF TypeOK
    <2>13. pending' \in SUBSET Markers /\ pods' \in SUBSET Markers /\ deletes' \in SUBSET Markers
      BY DEF TypeOK
    <2>14. stoppedJob' \in 0 .. Requests /\ jobUID' \in 0 .. Requests /\ seenJob' \in 0 .. Requests
      BY DEF TypeOK
    <2>15. sawJob' \in 0 .. Requests /\ job' \in 0 .. Requests
      BY DEF TypeOK
    <2>16. step' \in {"get", "list"}
      BY DEF TypeOK
    <2> QED
      BY <2>1, <2>2, <2>3, <2>4, <2>5, <2>6, <2>7, <2>8, <2>9, <2>10, <2>11, <2>12, <2>13, <2>14, <2>15, <2>16 DEF TypeOK
  <1>2. SeenInv'
    BY DEF TypeOK, SeenInv
  <1>3. EmptyInv'
    BY DEF TypeOK, SeenInv, EmptyInv
  <1>4. RecordedBeforeDelete'
    BY DEF TypeOK, SeenInv, RecordedBeforeDelete
  <1>5. StopEvidence'
    BY DEF TypeOK, SeenInv, EmptyInv, StopEvidence
  <1>6. WalkInv'
    BY DEF TypeOK, WalkInv, WalkComplete
  <1> QED
    BY <1>1, <1>2, <1>3, <1>4, <1>5, <1>6

\* What is read of the Job cannot be pending any more.
LEMMA GetJobKeeps ==
  ASSUME RInv, GetJob
  PROVE  RInv'
  <1> USE DEF RInv, GetJob, passVars, ledgerVars, launchVars, controlVars,
          clusterVars
  <1>1. TypeOK'
    BY DEF TypeOK
  <1>2. SeenInv'
    BY DEF TypeOK, SeenInv
  <1>3. EmptyInv'
    BY DEF TypeOK, SeenInv, EmptyInv
  <1>4. RecordedBeforeDelete'
    BY DEF TypeOK, SeenInv, RecordedBeforeDelete
  <1>5. StopEvidence'
    BY DEF TypeOK, SeenInv, EmptyInv, StopEvidence
  <1>6. WalkInv'
    BY DEF TypeOK, WalkInv, WalkComplete
  <1> QED
    BY <1>1, <1>2, <1>3, <1>4, <1>5, <1>6

\* What was observed is no pending request.
LEMMA ObservedKeeps ==
  ASSUME RInv, Observed
  PROVE  RInv'
  <1> USE DEF RInv, Observed, Look, Present, JobNamed, passVars, ledgerVars,
          launchVars, controlVars, clusterVars
  <1>1. TypeOK'
    <2>1. pc' \in {"enumerate", "list", "batch", "observe", "record", "delete",
               "confirm", "next", "evaluate", "sleep", "done", "failed"}
      BY DEF TypeOK
    <2>2. round' \in 1 .. MaxRounds /\ cursor' \in 0 .. Findings /\ enumerated' \in 0 .. Findings
      BY DEF TypeOK
    <2>3. page' \in SUBSET Ids /\ asked' \in SUBSET Ids /\ due' \in SUBSET Ids
      BY DEF TypeOK
    <2>4. settled' \in SUBSET Ids
      BY DEF TypeOK
    <2>5. last' \in BOOLEAN
      BY DEF TypeOK
    <2>6. incomplete' \in BOOLEAN
      BY DEF TypeOK
    <2>7. stopPending' \in BOOLEAN
      BY DEF TypeOK
    <2>8. deleting' \in BOOLEAN
      BY DEF TypeOK
    <2>9. told' \in BOOLEAN
      BY DEF TypeOK
    <2>10. emptied' \in BOOLEAN
      BY DEF TypeOK
    <2>11. terminating' \in BOOLEAN
      BY DEF TypeOK
    <2>12. recorded' \in SUBSET Markers /\ seen' \in SUBSET Markers /\ evidence' \in SUBSET Markers
      BY DEF TypeOK
    <2>13. pending' \in SUBSET Markers /\ pods' \in SUBSET Markers /\ deletes' \in SUBSET Markers
      BY DEF TypeOK
    <2>14. stoppedJob' \in 0 .. Requests /\ jobUID' \in 0 .. Requests /\ seenJob' \in 0 .. Requests
      BY DEF TypeOK
    <2>15. sawJob' \in 0 .. Requests /\ job' \in 0 .. Requests
      BY DEF TypeOK
    <2>16. step' \in {"get", "list"}
      BY DEF TypeOK
    <2> QED
      BY <2>1, <2>2, <2>3, <2>4, <2>5, <2>6, <2>7, <2>8, <2>9, <2>10, <2>11, <2>12, <2>13, <2>14, <2>15, <2>16 DEF TypeOK
  <1>2. SeenInv'
    BY DEF TypeOK, SeenInv
  <1>3. EmptyInv'
    BY DEF TypeOK, SeenInv, EmptyInv
  <1>4. RecordedBeforeDelete'
    BY DEF TypeOK, SeenInv, RecordedBeforeDelete
  <1>5. StopEvidence'
    BY DEF TypeOK, SeenInv, EmptyInv, StopEvidence
  <1>6. WalkInv'
    BY DEF TypeOK, WalkInv, WalkComplete
  <1> QED
    BY <1>1, <1>2, <1>3, <1>4, <1>5, <1>6

\* Nothing was observed.
LEMMA ObserveAgainKeeps ==
  ASSUME RInv, ObserveAgain
  PROVE  RInv'
  <1> USE DEF RInv, ObserveAgain, Look, passVars, ledgerVars, launchVars,
          controlVars, clusterVars
  <1>1. TypeOK'
    BY DEF TypeOK
  <1>2. SeenInv'
    BY DEF TypeOK, SeenInv
  <1>3. EmptyInv'
    BY DEF TypeOK, SeenInv, EmptyInv
  <1>4. RecordedBeforeDelete'
    BY DEF TypeOK, SeenInv, RecordedBeforeDelete
  <1>5. StopEvidence'
    BY DEF TypeOK, SeenInv, EmptyInv, StopEvidence
  <1>6. WalkInv'
    BY DEF TypeOK, WalkInv, WalkComplete
  <1> QED
    BY <1>1, <1>2, <1>3, <1>4, <1>5, <1>6

\* A launch observed in vain keeps its ledger.
LEMMA NothingObservedKeeps ==
  ASSUME RInv, NothingObserved
  PROVE  RInv'
  <1> USE DEF RInv, NothingObserved, Look, passVars, ledgerVars,
          launchVars, controlVars, clusterVars
  <1>1. TypeOK'
    <2>1. pc' \in {"enumerate", "list", "batch", "observe", "record", "delete",
               "confirm", "next", "evaluate", "sleep", "done", "failed"}
      BY DEF TypeOK
    <2>2. round' \in 1 .. MaxRounds /\ cursor' \in 0 .. Findings /\ enumerated' \in 0 .. Findings
      BY DEF TypeOK
    <2>3. page' \in SUBSET Ids /\ asked' \in SUBSET Ids /\ due' \in SUBSET Ids
      BY DEF TypeOK
    <2>4. settled' \in SUBSET Ids
      BY DEF TypeOK
    <2>5. last' \in BOOLEAN
      BY DEF TypeOK
    <2>6. incomplete' \in BOOLEAN
      BY DEF TypeOK
    <2>7. stopPending' \in BOOLEAN
      BY DEF TypeOK
    <2>8. deleting' \in BOOLEAN
      BY DEF TypeOK
    <2>9. told' \in BOOLEAN
      BY DEF TypeOK
    <2>10. emptied' \in BOOLEAN
      BY DEF TypeOK
    <2>11. terminating' \in BOOLEAN
      BY DEF TypeOK
    <2>12. recorded' \in SUBSET Markers /\ seen' \in SUBSET Markers /\ evidence' \in SUBSET Markers
      BY DEF TypeOK
    <2>13. pending' \in SUBSET Markers /\ pods' \in SUBSET Markers /\ deletes' \in SUBSET Markers
      BY DEF TypeOK
    <2>14. stoppedJob' \in 0 .. Requests /\ jobUID' \in 0 .. Requests /\ seenJob' \in 0 .. Requests
      BY DEF TypeOK
    <2>15. sawJob' \in 0 .. Requests /\ job' \in 0 .. Requests
      BY DEF TypeOK
    <2>16. step' \in {"get", "list"}
      BY DEF TypeOK
    <2> QED
      BY <2>1, <2>2, <2>3, <2>4, <2>5, <2>6, <2>7, <2>8, <2>9, <2>10, <2>11, <2>12, <2>13, <2>14, <2>15, <2>16 DEF TypeOK
  <1>2. SeenInv'
    BY DEF TypeOK, SeenInv
  <1>3. EmptyInv'
    BY DEF TypeOK, SeenInv, EmptyInv
  <1>4. RecordedBeforeDelete'
    BY DEF TypeOK, SeenInv, RecordedBeforeDelete
  <1>5. StopEvidence'
    BY DEF TypeOK, SeenInv, EmptyInv, StopEvidence
  <1>6. WalkInv'
    BY DEF TypeOK, WalkInv, WalkComplete
  <1> QED
    BY <1>1, <1>2, <1>3, <1>4, <1>5, <1>6

\* Control and the ledger have the observation.
LEMMA RecordAnsweredKeeps ==
  ASSUME RInv, RecordAnswered
  PROVE  RInv'
  <1> USE DEF RInv, RecordAnswered, Look, passVars, ledgerVars,
          launchVars, controlVars, clusterVars
  <1>1. TypeOK'
    BY DEF TypeOK
  <1>2. SeenInv'
    BY DEF TypeOK, SeenInv
  <1>3. EmptyInv'
    BY DEF TypeOK, SeenInv, EmptyInv
  <1>4. RecordedBeforeDelete'
    BY DEF TypeOK, SeenInv, RecordedBeforeDelete
  <1>5. StopEvidence'
    BY DEF TypeOK, SeenInv, EmptyInv, StopEvidence
  <1>6. WalkInv'
    BY DEF TypeOK, WalkInv, WalkComplete
  <1> QED
    BY <1>1, <1>2, <1>3, <1>4, <1>5, <1>6

\* Control may have the observation, the ledger has not.
LEMMA RecordFailsKeeps ==
  ASSUME RInv, RecordFails
  PROVE  RInv'
  <1> USE DEF RInv, RecordFails, Look, passVars, ledgerVars, launchVars,
          controlVars, clusterVars
  <1>1. TypeOK'
    BY DEF TypeOK
  <1>2. SeenInv'
    BY DEF TypeOK, SeenInv
  <1>3. EmptyInv'
    BY DEF TypeOK, SeenInv, EmptyInv
  <1>4. RecordedBeforeDelete'
    BY DEF TypeOK, SeenInv, RecordedBeforeDelete
  <1>5. StopEvidence'
    BY DEF TypeOK, SeenInv, EmptyInv, StopEvidence
  <1>6. WalkInv'
    BY DEF TypeOK, WalkInv, WalkComplete
  <1> QED
    BY <1>1, <1>2, <1>3, <1>4, <1>5, <1>6

\* An unrecorded object is reported, not stopped.
LEMMA DeleteReportsKeeps ==
  ASSUME RInv, DeleteReports
  PROVE  RInv'
  <1> USE DEF RInv, DeleteReports, Look, Present, JobNamed, Unrecorded, passVars,
          ledgerVars, launchVars, controlVars, clusterVars
  <1>1. TypeOK'
    BY DEF TypeOK
  <1>2. SeenInv'
    BY DEF TypeOK, SeenInv
  <1>3. EmptyInv'
    BY DEF TypeOK, SeenInv, EmptyInv
  <1>4. RecordedBeforeDelete'
    BY DEF TypeOK, SeenInv, RecordedBeforeDelete
  <1>5. StopEvidence'
    BY DEF TypeOK, SeenInv, EmptyInv, StopEvidence
  <1>6. WalkInv'
    BY DEF TypeOK, WalkInv, WalkComplete
  <1> QED
    BY <1>1, <1>2, <1>3, <1>4, <1>5, <1>6

\* Only a recorded Job is deleted.
LEMMA DeleteStopsKeeps ==
  ASSUME RInv, DeleteStops
  PROVE  RInv'
  <1> USE DEF RInv, DeleteStops, Look, Present, Unrecorded, passVars,
          ledgerVars, launchVars, controlVars, clusterVars
  <1>1. TypeOK'
    BY DEF TypeOK
  <1>2. SeenInv'
    BY DEF TypeOK, SeenInv
  <1>3. EmptyInv'
    BY DEF TypeOK, SeenInv, EmptyInv
  <1>4. RecordedBeforeDelete'
    BY DEF TypeOK, SeenInv, RecordedBeforeDelete
  <1>5. StopEvidence'
    BY DEF TypeOK, SeenInv, EmptyInv, StopEvidence
  <1>6. WalkInv'
    BY DEF TypeOK, WalkInv, WalkComplete
  <1> QED
    BY <1>1, <1>2, <1>3, <1>4, <1>5, <1>6

\* An empty key holds nothing that is recorded.
LEMMA DeleteEmptiesKeeps ==
  ASSUME RInv, DeleteEmpties
  PROVE  RInv'
  <1> USE DEF RInv, DeleteEmpties, Look, Present, passVars, ledgerVars,
          launchVars, controlVars, clusterVars
  <1>1. TypeOK'
    BY DEF TypeOK
  <1>2. SeenInv'
    BY DEF TypeOK, SeenInv
  <1>3. EmptyInv'
    BY DEF TypeOK, SeenInv, EmptyInv
  <1>4. RecordedBeforeDelete'
    BY DEF TypeOK, SeenInv, RecordedBeforeDelete
  <1>5. StopEvidence'
    BY DEF TypeOK, SeenInv, EmptyInv, StopEvidence
  <1>6. WalkInv'
    BY DEF TypeOK, WalkInv, WalkComplete
  <1> QED
    BY <1>1, <1>2, <1>3, <1>4, <1>5, <1>6

\* A failed delete owes nothing.
LEMMA DeleteFailsKeeps ==
  ASSUME RInv, DeleteFails
  PROVE  RInv'
  <1> USE DEF RInv, DeleteFails, Look, passVars, ledgerVars, launchVars,
          controlVars, clusterVars
  <1>1. TypeOK'
    BY DEF TypeOK
  <1>2. SeenInv'
    BY DEF TypeOK, SeenInv
  <1>3. EmptyInv'
    BY DEF TypeOK, SeenInv, EmptyInv
  <1>4. RecordedBeforeDelete'
    BY DEF TypeOK, SeenInv, RecordedBeforeDelete
  <1>5. StopEvidence'
    BY DEF TypeOK, SeenInv, EmptyInv, StopEvidence
  <1>6. WalkInv'
    BY DEF TypeOK, WalkInv, WalkComplete
  <1> QED
    BY <1>1, <1>2, <1>3, <1>4, <1>5, <1>6

\* A confirmation stays true of what is recorded.
LEMMA ConfirmAnsweredKeeps ==
  ASSUME RInv, ConfirmAnswered
  PROVE  RInv'
  <1> USE DEF RInv, ConfirmAnswered, passVars, ledgerVars, launchVars,
          controlVars, clusterVars
  <1>1. TypeOK'
    <2>1. pc' \in {"enumerate", "list", "batch", "observe", "record", "delete",
               "confirm", "next", "evaluate", "sleep", "done", "failed"}
      BY DEF TypeOK
    <2>2. round' \in 1 .. MaxRounds /\ cursor' \in 0 .. Findings /\ enumerated' \in 0 .. Findings
      BY DEF TypeOK
    <2>3. page' \in SUBSET Ids /\ asked' \in SUBSET Ids /\ due' \in SUBSET Ids
      BY DEF TypeOK
    <2>4. settled' \in SUBSET Ids
      <3>1. settled' \in {settled, settled \cup {Launch}}
        BY Zenon
      <3>2. Launch \in Ids
        OBVIOUS
      <3>3. settled \in SUBSET Ids
        BY DEF TypeOK
      <3> HIDE DEF Ids, Launch, ConfirmAnswered
      <3> QED
        BY <3>1, <3>2, <3>3
    <2>5. last' \in BOOLEAN
      BY DEF TypeOK
    <2>6. incomplete' \in BOOLEAN
      BY DEF TypeOK
    <2>7. stopPending' \in BOOLEAN
      BY DEF TypeOK
    <2>8. deleting' \in BOOLEAN
      BY DEF TypeOK
    <2>9. told' \in BOOLEAN
      BY DEF TypeOK
    <2>10. emptied' \in BOOLEAN
      BY DEF TypeOK
    <2>11. terminating' \in BOOLEAN
      BY DEF TypeOK
    <2>12. recorded' \in SUBSET Markers /\ seen' \in SUBSET Markers /\ evidence' \in SUBSET Markers
      BY DEF TypeOK
    <2>13. pending' \in SUBSET Markers /\ pods' \in SUBSET Markers /\ deletes' \in SUBSET Markers
      BY DEF TypeOK
    <2>14. stoppedJob' \in 0 .. Requests /\ jobUID' \in 0 .. Requests /\ seenJob' \in 0 .. Requests
      BY DEF TypeOK
    <2>15. sawJob' \in 0 .. Requests /\ job' \in 0 .. Requests
      BY DEF TypeOK
    <2>16. step' \in {"get", "list"}
      BY DEF TypeOK
    <2> QED
      BY <2>1, <2>2, <2>3, <2>4, <2>5, <2>6, <2>7, <2>8, <2>9, <2>10, <2>11, <2>12, <2>13, <2>14, <2>15, <2>16 DEF TypeOK
  <1>2. SeenInv'
    BY DEF TypeOK, SeenInv
  <1>3. EmptyInv'
    BY DEF TypeOK, SeenInv, EmptyInv
  <1>4. RecordedBeforeDelete'
    BY DEF TypeOK, SeenInv, RecordedBeforeDelete
  <1>5. StopEvidence'
    BY DEF TypeOK, SeenInv, EmptyInv, StopEvidence
  <1>6. WalkInv'
    BY DEF TypeOK, WalkInv, WalkComplete
  <1> QED
    BY <1>1, <1>2, <1>3, <1>4, <1>5, <1>6

\* A confirmation that failed is still owed.
LEMMA ConfirmFailsKeeps ==
  ASSUME RInv, ConfirmFails
  PROVE  RInv'
  <1> USE DEF RInv, ConfirmFails, passVars, ledgerVars, launchVars,
          controlVars, clusterVars
  <1>1. TypeOK'
    <2>1. pc' \in {"enumerate", "list", "batch", "observe", "record", "delete",
               "confirm", "next", "evaluate", "sleep", "done", "failed"}
      BY DEF TypeOK
    <2>2. round' \in 1 .. MaxRounds /\ cursor' \in 0 .. Findings /\ enumerated' \in 0 .. Findings
      BY DEF TypeOK
    <2>3. page' \in SUBSET Ids /\ asked' \in SUBSET Ids /\ due' \in SUBSET Ids
      BY DEF TypeOK
    <2>4. settled' \in SUBSET Ids
      <3>1. settled' \in {settled, settled \cup {Launch}}
        BY Zenon
      <3>2. Launch \in Ids
        OBVIOUS
      <3>3. settled \in SUBSET Ids
        BY DEF TypeOK
      <3> HIDE DEF Ids, Launch, ConfirmFails
      <3> QED
        BY <3>1, <3>2, <3>3
    <2>5. last' \in BOOLEAN
      BY DEF TypeOK
    <2>6. incomplete' \in BOOLEAN
      BY DEF TypeOK
    <2>7. stopPending' \in BOOLEAN
      BY DEF TypeOK
    <2>8. deleting' \in BOOLEAN
      BY DEF TypeOK
    <2>9. told' \in BOOLEAN
      BY DEF TypeOK
    <2>10. emptied' \in BOOLEAN
      BY DEF TypeOK
    <2>11. terminating' \in BOOLEAN
      BY DEF TypeOK
    <2>12. recorded' \in SUBSET Markers /\ seen' \in SUBSET Markers /\ evidence' \in SUBSET Markers
      BY DEF TypeOK
    <2>13. pending' \in SUBSET Markers /\ pods' \in SUBSET Markers /\ deletes' \in SUBSET Markers
      BY DEF TypeOK
    <2>14. stoppedJob' \in 0 .. Requests /\ jobUID' \in 0 .. Requests /\ seenJob' \in 0 .. Requests
      BY DEF TypeOK
    <2>15. sawJob' \in 0 .. Requests /\ job' \in 0 .. Requests
      BY DEF TypeOK
    <2>16. step' \in {"get", "list"}
      BY DEF TypeOK
    <2> QED
      BY <2>1, <2>2, <2>3, <2>4, <2>5, <2>6, <2>7, <2>8, <2>9, <2>10, <2>11, <2>12, <2>13, <2>14, <2>15, <2>16 DEF TypeOK
  <1>2. SeenInv'
    BY DEF TypeOK, SeenInv
  <1>3. EmptyInv'
    BY DEF TypeOK, SeenInv, EmptyInv
  <1>4. RecordedBeforeDelete'
    BY DEF TypeOK, SeenInv, RecordedBeforeDelete
  <1>5. StopEvidence'
    BY DEF TypeOK, SeenInv, EmptyInv, StopEvidence
  <1>6. WalkInv'
    BY DEF TypeOK, WalkInv, WalkComplete
  <1> QED
    BY <1>1, <1>2, <1>3, <1>4, <1>5, <1>6

\* A Pod is of the Job under the key.
LEMMA PodStartsKeeps ==
  ASSUME RInv, PodStarts
  PROVE  RInv'
  <1> USE DEF RInv, PodStarts, passVars, ledgerVars, launchVars,
          controlVars, clusterVars
  <1>1. TypeOK'
    BY DEF TypeOK
  <1>2. SeenInv'
    BY DEF TypeOK, SeenInv
  <1>3. EmptyInv'
    BY DEF TypeOK, SeenInv, EmptyInv
  <1>4. RecordedBeforeDelete'
    BY DEF TypeOK, SeenInv, RecordedBeforeDelete
  <1>5. StopEvidence'
    BY DEF TypeOK, SeenInv, EmptyInv, StopEvidence
  <1>6. WalkInv'
    BY DEF TypeOK, WalkInv, WalkComplete
  <1> QED
    BY <1>1, <1>2, <1>3, <1>4, <1>5, <1>6

\* A Job that went was recorded.
LEMMA JobRemovedKeeps ==
  ASSUME RInv, JobRemoved
  PROVE  RInv'
  <1> USE DEF RInv, JobRemoved, passVars, ledgerVars, launchVars,
          controlVars, clusterVars
  <1>1. TypeOK'
    <2>1. pc' \in {"enumerate", "list", "batch", "observe", "record", "delete",
               "confirm", "next", "evaluate", "sleep", "done", "failed"}
      BY DEF TypeOK
    <2>2. round' \in 1 .. MaxRounds /\ cursor' \in 0 .. Findings /\ enumerated' \in 0 .. Findings
      BY DEF TypeOK
    <2>3. page' \in SUBSET Ids /\ asked' \in SUBSET Ids /\ due' \in SUBSET Ids
      BY DEF TypeOK
    <2>4. settled' \in SUBSET Ids
      BY DEF TypeOK
    <2>5. last' \in BOOLEAN
      BY DEF TypeOK
    <2>6. incomplete' \in BOOLEAN
      BY DEF TypeOK
    <2>7. stopPending' \in BOOLEAN
      BY DEF TypeOK
    <2>8. deleting' \in BOOLEAN
      BY DEF TypeOK
    <2>9. told' \in BOOLEAN
      BY DEF TypeOK
    <2>10. emptied' \in BOOLEAN
      BY DEF TypeOK
    <2>11. terminating' \in BOOLEAN
      BY DEF TypeOK
    <2>12. recorded' \in SUBSET Markers /\ seen' \in SUBSET Markers /\ evidence' \in SUBSET Markers
      BY DEF TypeOK
    <2>13. pending' \in SUBSET Markers /\ pods' \in SUBSET Markers /\ deletes' \in SUBSET Markers
      BY DEF TypeOK
    <2>14. stoppedJob' \in 0 .. Requests /\ jobUID' \in 0 .. Requests /\ seenJob' \in 0 .. Requests
      BY DEF TypeOK
    <2>15. sawJob' \in 0 .. Requests /\ job' \in 0 .. Requests
      BY DEF TypeOK
    <2>16. step' \in {"get", "list"}
      BY DEF TypeOK
    <2> QED
      BY <2>1, <2>2, <2>3, <2>4, <2>5, <2>6, <2>7, <2>8, <2>9, <2>10, <2>11, <2>12, <2>13, <2>14, <2>15, <2>16 DEF TypeOK
  <1>2. SeenInv'
    BY DEF TypeOK, SeenInv
  <1>3. EmptyInv'
    BY DEF TypeOK, SeenInv, EmptyInv
  <1>4. RecordedBeforeDelete'
    BY DEF TypeOK, SeenInv, RecordedBeforeDelete
  <1>5. StopEvidence'
    BY DEF TypeOK, SeenInv, EmptyInv, StopEvidence
  <1>6. WalkInv'
    BY DEF TypeOK, WalkInv, WalkComplete
  <1> QED
    BY <1>1, <1>2, <1>3, <1>4, <1>5, <1>6

\* A disposition of Control takes no evidence away.
LEMMA LateOutcomeKeeps ==
  ASSUME RInv, NEW f \in Ids, LateOutcome(f)
  PROVE  RInv'
  <1> USE DEF RInv, LateOutcome, passVars, ledgerVars, launchVars,
          controlVars, clusterVars
  <1>1. TypeOK'
    BY DEF TypeOK
  <1>2. SeenInv'
    BY DEF TypeOK, SeenInv
  <1>3. EmptyInv'
    BY DEF TypeOK, SeenInv, EmptyInv
  <1>4. RecordedBeforeDelete'
    BY DEF TypeOK, SeenInv, RecordedBeforeDelete
  <1>5. StopEvidence'
    BY DEF TypeOK, SeenInv, EmptyInv, StopEvidence
  <1>6. WalkInv'
    BY DEF TypeOK, WalkInv, WalkComplete
  <1> QED
    BY <1>1, <1>2, <1>3, <1>4, <1>5, <1>6

\* A request that commits was never observed.
LEMMA RequestCommitsKeeps ==
  ASSUME RInv, NEW r \in Markers, RequestCommits(r)
  PROVE  RInv'
  <1> USE DEF RInv, RequestCommits, passVars, ledgerVars, launchVars,
          controlVars, clusterVars
  <1>1. TypeOK'
    BY DEF TypeOK
  <1>2. SeenInv'
    BY DEF TypeOK, SeenInv
  <1>3. EmptyInv'
    BY DEF TypeOK, SeenInv, EmptyInv
  <1>4. RecordedBeforeDelete'
    BY DEF TypeOK, SeenInv, RecordedBeforeDelete
  <1>5. StopEvidence'
    BY DEF TypeOK, SeenInv, EmptyInv, StopEvidence
  <1>6. WalkInv'
    BY DEF TypeOK, WalkInv, WalkComplete
  <1> QED
    BY <1>1, <1>2, <1>3, <1>4, <1>5, <1>6

\* A request that dies was never observed.
LEMMA RequestDiesKeeps ==
  ASSUME RInv, NEW r \in Markers, RequestDies(r)
  PROVE  RInv'
  <1> USE DEF RInv, RequestDies, passVars, ledgerVars, launchVars,
          controlVars, clusterVars
  <1>1. TypeOK'
    BY DEF TypeOK
  <1>2. SeenInv'
    BY DEF TypeOK, SeenInv
  <1>3. EmptyInv'
    BY DEF TypeOK, SeenInv, EmptyInv
  <1>4. RecordedBeforeDelete'
    BY DEF TypeOK, SeenInv, RecordedBeforeDelete
  <1>5. StopEvidence'
    BY DEF TypeOK, SeenInv, EmptyInv, StopEvidence
  <1>6. WalkInv'
    BY DEF TypeOK, WalkInv, WalkComplete
  <1> QED
    BY <1>1, <1>2, <1>3, <1>4, <1>5, <1>6

\* A Pod that ends takes no evidence away.
LEMMA PodGoneKeeps ==
  ASSUME RInv, NEW r \in Markers, PodGone(r)
  PROVE  RInv'
  <1> USE DEF RInv, PodGone, passVars, ledgerVars, launchVars,
          controlVars, clusterVars
  <1>1. TypeOK'
    BY DEF TypeOK
  <1>2. SeenInv'
    BY DEF TypeOK, SeenInv
  <1>3. EmptyInv'
    BY DEF TypeOK, SeenInv, EmptyInv
  <1>4. RecordedBeforeDelete'
    BY DEF TypeOK, SeenInv, RecordedBeforeDelete
  <1>5. StopEvidence'
    BY DEF TypeOK, SeenInv, EmptyInv, StopEvidence
  <1>6. WalkInv'
    BY DEF TypeOK, WalkInv, WalkComplete
  <1> QED
    BY <1>1, <1>2, <1>3, <1>4, <1>5, <1>6

\* A delete stops the Job it names only.
LEMMA ApplyDeleteKeeps ==
  ASSUME RInv, NEW r \in Markers, ApplyDelete(r)
  PROVE  RInv'
  <1> USE DEF RInv, ApplyDelete, passVars, ledgerVars, launchVars,
          controlVars, clusterVars
  <1>1. TypeOK'
    BY DEF TypeOK
  <1>2. SeenInv'
    BY DEF TypeOK, SeenInv
  <1>3. EmptyInv'
    BY DEF TypeOK, SeenInv, EmptyInv
  <1>4. RecordedBeforeDelete'
    BY DEF TypeOK, SeenInv, RecordedBeforeDelete
  <1>5. StopEvidence'
    BY DEF TypeOK, SeenInv, EmptyInv, StopEvidence
  <1>6. WalkInv'
    BY DEF TypeOK, WalkInv, WalkComplete
  <1> QED
    BY <1>1, <1>2, <1>3, <1>4, <1>5, <1>6

LEMMA InitHolds ==
  ASSUME Init
  PROVE  RInv
  <1>1. TypeOK
    <2>1. round \in 1 .. MaxRounds
      BY DEF Init
    <2>2. Markers \in SUBSET Markers /\ 0 \in 0 .. Requests /\ 0 \in 0 .. Findings
      OBVIOUS
    <2> QED
      BY <2>1, <2>2 DEF Init, TypeOK
  <1>2. SeenInv /\ EmptyInv
    BY DEF Init, SeenInv, EmptyInv
  <1>3. RecordedBeforeDelete
    BY DEF Init, RecordedBeforeDelete
  <1>4. StopEvidence
    BY DEF Init, StopEvidence
  <1>5. WalkInv
    BY DEF Init, WalkInv, WalkComplete
  <1> QED
    BY <1>1, <1>2, <1>3, <1>4, <1>5 DEF RInv

LEMMA StutterKeeps ==
  ASSUME RInv, UNCHANGED vars
  PROVE  RInv'
  BY DEF RInv, TypeOK, SeenInv, EmptyInv, WalkInv, WalkComplete,
         RecordedBeforeDelete, StopEvidence, vars, passVars, ledgerVars, launchVars, controlVars, clusterVars

LEMMA StepKeeps ==
  ASSUME RInv, [Next]_vars
  PROVE  RInv'
  <1>1. CASE RoundStep
    BY <1>1,
       EnumeratePageKeeps, BeginPassKeeps, PassFailsKeeps, ListPageKeeps,
       AdvancePageKeeps, AdvanceFailsKeeps, NextPageKeeps, EvaluateKeeps,
       EvaluateRefusedKeeps, RoundsExhaustedKeeps, ContinueAsNewKeeps
    DEF RoundStep
  <1>2. CASE LaunchStep
    BY <1>2,
       GetJobKeeps, ObservedKeeps, ObserveAgainKeeps,
       NothingObservedKeeps, RecordAnsweredKeeps, RecordFailsKeeps,
       DeleteReportsKeeps, DeleteStopsKeeps, DeleteEmptiesKeeps,
       DeleteFailsKeeps, ConfirmAnsweredKeeps, ConfirmFailsKeeps
    DEF LaunchStep
  <1>3. CASE Environment
    BY <1>3,
       PodStartsKeeps, JobRemovedKeeps, LateOutcomeKeeps,
       RequestCommitsKeeps, RequestDiesKeeps, PodGoneKeeps,
       ApplyDeleteKeeps
    DEF Environment
  <1>4. CASE UNCHANGED vars
    BY <1>4, StutterKeeps
  <1> QED
    BY <1>1, <1>2, <1>3, <1>4 DEF Next, Ended

\* The inductive invariant of a recovery, for any window, page size, number of
\* requests and bound on the rounds.
THEOREM Invariance == Spec => []RInv
  <1>1. Init => RInv
    BY InitHolds
  <1>2. RInv /\ [Next]_vars => RInv'
    BY StepKeeps
  <1> QED
    BY <1>1, <1>2, PTL DEF Spec

\* Every variable keeps its type: the cursor stays in the window, the round in
\* its bound.
THEOREM TypeCorrect == Spec => []TypeOK
  <1>1. RInv => TypeOK
    BY DEF RInv
  <1> QED
    BY <1>1, Invariance, PTL

\* Whatever a recovery stops is recorded with Control, whatever record failed
\* and whichever round stops it.
THEOREM EvidencePrecedesDelete == Spec => []RecordedBeforeDelete
  <1>1. RInv => RecordedBeforeDelete
    BY DEF RInv
  <1> QED
    BY <1>1, Invariance, PTL

\* A pass without a failure has had every finding that was due advanced,
\* whatever settled between two pages and whatever the page size.
THEOREM WholeWindowWalked == Spec => []WalkComplete
  <1>1. RInv => WalkComplete
    BY DEF RInv, WalkInv
  <1> QED
    BY <1>1, Invariance, PTL

\* Once the key was observed empty its confirmation is owed until the finding
\* is settled, and a confirmation is true of everything recorded.
THEOREM EmptyKeyConfirmed == Spec => []StopEvidence
  <1>1. RInv => StopEvidence
    BY DEF RInv
  <1> QED
    BY <1>1, Invariance, PTL

-----------------------------------------------------------------------------
(***************************************************************************)
(* 2. The worker process.                                                  *)
(***************************************************************************)
USE DEF healthVars, queueVars, threadVars, reloaderVars, workerVars

\* Business is one of the queues.
LEMMA BusinessIsQueue == Business \in Queues
  BY WorkerAssumption

\* queueWorker.stop moves a queue's poller, flag and mutex within their types.
LEMMA StopTyped ==
  ASSUME WorkerTypeOK, NEW q \in Queues, NEW who \in Threads,
         StopBegins(q, who) \/ StopReturns(q, who)
  PROVE  /\ poller' \in [Queues -> {"new", "polling", "stopping", "stopped"}]
         /\ stopped' \in [Queues -> BOOLEAN] /\ holder' \in [Queues -> Threads]
  <1>1. CASE UNCHANGED queueVars
    BY <1>1 DEF WorkerTypeOK
  <1>2. CASE /\ holder' = [holder EXCEPT ![q] = who]
             /\ stopped' = [stopped EXCEPT ![q] = TRUE]
             /\ poller' = [poller EXCEPT ![q] = "stopping"]
    BY <1>2 DEF WorkerTypeOK
  <1>3. CASE LeaveStop(q, who)
    BY <1>3 DEF LeaveStop, WorkerTypeOK, Threads
  <1> QED
    BY <1>1, <1>2, <1>3 DEF StopBegins, StopReturns, EnterStop

\* The files are polled from here on.
LEMMA StartIdentityKeeps ==
  ASSUME WInv, StartIdentity
  PROVE  WInv'
  <1> USE DEF WInv
  <1>1. WorkerTypeOK'
    BY DEF StartIdentity, StartPolling, WorkerTypeOK, ReloaderTypeOK
  <1>2. ServiceInv'
    BY DEF StartIdentity, StartPolling, ServiceInv, WorkerTypeOK, ReloaderTypeOK
  <1>3. StopInv'
    BY DEF StartIdentity, StartPolling, StopInv, Drained, WorkerTypeOK,
       ServiceInv
  <1>4. ReadyInv'
    BY DEF StartIdentity, StartPolling, ReadyInv, StopInv, WorkerTypeOK
  <1>5. QueueInv'
    BY DEF StartIdentity, StartPolling, QueueInv, ReadyInv, WorkerTypeOK
  <1>6. AskedInv'
    BY DEF StartIdentity, StartPolling, AskedInv, ReadyInv, WorkerTypeOK
  <1> QED
    BY <1>1, <1>2, <1>3, <1>4, <1>5, <1>6

\* The listener is bound, or the start failed.
LEMMA BindKeeps ==
  ASSUME WInv, Bind
  PROVE  WInv'
  <1> USE DEF WInv
  <1>1. WorkerTypeOK'
    <2>1. ReloaderTypeOK' /\ listener' \in BOOLEAN /\ boot' \in {"start", "failed"}
      BY DEF Bind, WorkerTypeOK, ReloaderTypeOK
    <2>2. /\ UNCHANGED <<ready, withdrawn, fatal, requests, signal>>
          /\ UNCHANGED <<poller, stopped, holder, halt, callback, drain>>
          /\ UNCHANGED <<tasks, overrun, abandoned, clients>>
      BY DEF Bind
    <2> QED
      BY <2>1, <2>2, Zenon DEF WorkerTypeOK
  <1>2. ServiceInv'
    BY DEF Bind, ServiceInv, WorkerTypeOK, ReloaderTypeOK
  <1>3. StopInv'
    BY DEF Bind, StopInv, Drained, WorkerTypeOK, ServiceInv
  <1>4. ReadyInv'
    BY DEF Bind, ReadyInv, StopInv, WorkerTypeOK
  <1>5. QueueInv'
    BY DEF Bind, QueueInv, ReadyInv, WorkerTypeOK
  <1>6. AskedInv'
    BY DEF Bind, AskedInv, ReadyInv, WorkerTypeOK
  <1> QED
    BY <1>1, <1>2, <1>3, <1>4, <1>5, <1>6

\* A poller starts.
LEMMA StartQueueKeeps ==
  ASSUME WInv, NEW q \in Queues, StartQueue(q)
  PROVE  WInv'
  <1> USE DEF WInv
  <1>1. WorkerTypeOK'
    BY DEF StartQueue, WorkerTypeOK, ReloaderTypeOK
  <1>2. ServiceInv'
    BY DEF StartQueue, ServiceInv, WorkerTypeOK, ReloaderTypeOK
  <1>3. StopInv'
    BY DEF StartQueue, StopInv, Drained, WorkerTypeOK, ServiceInv
  <1>4. ReadyInv'
    <2>1. \A r \in Queues : r = q \/ poller'[r] = poller[r]
      BY DEF StartQueue, WorkerTypeOK
    <2>2. poller'[q] = "polling"
      BY DEF StartQueue, WorkerTypeOK
    <2>3. boot' = "ready"
            => \A r \in Queues : r = q \/ (r = Business /\ poller[r] # "new")
      <3>1. PICK control \in Queues : control # Business /\ Queues = {Business, control}
        BY WorkerAssumption
      <3>2. boot' = "ready" => q = control /\ poller[Business] # "new"
        BY <3>1 DEF StartQueue
      <3> QED
        BY <3>1, <3>2
    <2>4. boot' \in {"start", "ready"} /\ boot = "start"
      BY DEF StartQueue
    <2> QED
      BY <2>1, <2>2, <2>3, <2>4 DEF StartQueue, ReadyInv, StopInv
  <1>5. QueueInv'
    BY DEF StartQueue, QueueInv, ReadyInv, WorkerTypeOK
  <1>6. AskedInv'
    BY DEF StartQueue, AskedInv, ReadyInv, WorkerTypeOK
  <1> QED
    BY <1>1, <1>2, <1>3, <1>4, <1>5, <1>6

\* A failed start takes the business poller and the listener away.
LEMMA StartQueueFailsKeeps ==
  ASSUME WInv, StartQueueFails
  PROVE  WInv'
  <1> USE DEF WInv
  <1>1. WorkerTypeOK'
    BY DEF StartQueueFails, WorkerTypeOK, ReloaderTypeOK
  <1>2. ServiceInv'
    BY DEF StartQueueFails, ServiceInv, WorkerTypeOK, ReloaderTypeOK
  <1>3. StopInv'
    BY DEF StartQueueFails, StopInv, Drained, WorkerTypeOK, ServiceInv
  <1>4. ReadyInv'
    BY DEF StartQueueFails, ReadyInv, StopInv, WorkerTypeOK
  <1>5. QueueInv'
    BY DEF StartQueueFails, QueueInv, ReadyInv, WorkerTypeOK
  <1>6. AskedInv'
    BY DEF StartQueueFails, AskedInv, ReadyInv, WorkerTypeOK
  <1> QED
    BY <1>1, <1>2, <1>3, <1>4, <1>5, <1>6

\* The failed start stops the business poller.
LEMMA UndoEntersKeeps ==
  ASSUME WInv, UndoEnters
  PROVE  WInv'
  <1> USE DEF WInv
  <1>1. WorkerTypeOK'
    <2>1. /\ poller' \in [Queues -> {"new", "polling", "stopping", "stopped"}]
          /\ stopped' \in [Queues -> BOOLEAN] /\ holder' \in [Queues -> Threads]
      BY StopTyped, BusinessIsQueue DEF UndoEnters, Threads
    <2> QED
      BY <2>1 DEF UndoEnters, WorkerTypeOK, ReloaderTypeOK
  <1>2. ServiceInv'
    BY DEF UndoEnters, StopBegins, EnterStop, ServiceInv, WorkerTypeOK,
       ReloaderTypeOK
  <1>3. StopInv'
    BY DEF UndoEnters, StopBegins, EnterStop, StopInv, Drained, WorkerTypeOK,
       ServiceInv
  <1>4. ReadyInv'
    BY DEF UndoEnters, StopBegins, EnterStop, ReadyInv, StopInv, WorkerTypeOK
  <1>5. QueueInv'
    BY DEF UndoEnters, StopBegins, EnterStop, QueueInv, ReadyInv, WorkerTypeOK
  <1>6. AskedInv'
    BY DEF UndoEnters, StopBegins, EnterStop, AskedInv, ReadyInv, WorkerTypeOK
  <1> QED
    BY <1>1, <1>2, <1>3, <1>4, <1>5, <1>6

\* The failed start is over.
LEMMA UndoneKeeps ==
  ASSUME WInv, Undone
  PROVE  WInv'
  <1> USE DEF WInv
  <1>1. WorkerTypeOK'
    <2>1. /\ poller' \in [Queues -> {"new", "polling", "stopping", "stopped"}]
          /\ stopped' \in [Queues -> BOOLEAN] /\ holder' \in [Queues -> Threads]
      <3>1. CASE UNCHANGED queueVars
        BY <3>1 DEF WorkerTypeOK
      <3>2. CASE StopReturns(Business, "undo")
        BY <3>2, StopTyped, BusinessIsQueue DEF Threads
      <3> QED
        BY <3>1, <3>2 DEF Undone
    <2> QED
      BY <2>1 DEF Undone, WorkerTypeOK, ReloaderTypeOK
  <1>2. ServiceInv'
    BY DEF Undone, StopReturns, EnterStop, LeaveStop, ServiceInv,
       WorkerTypeOK, ReloaderTypeOK
  <1>3. StopInv'
    BY DEF Undone, StopReturns, EnterStop, LeaveStop, StopInv, Drained,
       WorkerTypeOK, ServiceInv
  <1>4. ReadyInv'
    BY DEF Undone, StopReturns, EnterStop, LeaveStop, ReadyInv, StopInv,
       WorkerTypeOK
  <1>5. QueueInv'
    BY DEF Undone, StopReturns, EnterStop, LeaveStop, QueueInv, ReadyInv,
       WorkerTypeOK
  <1>6. AskedInv'
    BY DEF Undone, StopReturns, EnterStop, LeaveStop, AskedInv, ReadyInv,
       WorkerTypeOK
  <1> QED
    BY <1>1, <1>2, <1>3, <1>4, <1>5, <1>6

\* Ready is reported only if nothing took it back before.
LEMMA BecomeReadyKeeps ==
  ASSUME WInv, BecomeReady
  PROVE  WInv'
  <1> USE DEF WInv
  <1>1. WorkerTypeOK'
    BY DEF BecomeReady, WorkerTypeOK, ReloaderTypeOK
  <1>2. ServiceInv'
    BY DEF BecomeReady, ServiceInv, WorkerTypeOK, ReloaderTypeOK
  <1>3. StopInv'
    BY DEF BecomeReady, StopInv, Drained, WorkerTypeOK, ServiceInv
  <1>4. ReadyInv'
    BY DEF BecomeReady, ReadyInv, StopInv, WorkerTypeOK
  <1>5. QueueInv'
    BY DEF BecomeReady, QueueInv, ReadyInv, WorkerTypeOK
  <1>6. AskedInv'
    BY DEF BecomeReady, AskedInv, ReadyInv, WorkerTypeOK
  <1> QED
    BY <1>1, <1>2, <1>3, <1>4, <1>5, <1>6

\* A fatal error takes readiness back.
LEMMA FailKeeps ==
  ASSUME WInv, NEW q \in Queues, Fail(q)
  PROVE  WInv'
  <1> USE DEF WInv
  <1>1. WorkerTypeOK'
    <2>1. callback' \in [Queues -> {"none", "ask", "stop", "done"}]
      BY DEF Fail, WorkerTypeOK
    <2>2. ReloaderTypeOK'
      BY DEF Fail, WorkerTypeOK, ReloaderTypeOK
    <2>3. /\ ready' \in BOOLEAN /\ withdrawn' \in BOOLEAN /\ fatal' \in BOOLEAN
          /\ UNCHANGED <<listener, requests, signal, poller, stopped, holder>>
          /\ UNCHANGED <<boot, halt, drain, tasks, overrun, abandoned, clients>>
      BY DEF Fail
    <2> QED
      BY <2>1, <2>2, <2>3, Zenon DEF WorkerTypeOK
  <1>2. ServiceInv'
    BY DEF Fail, FirstError, ServiceInv, WorkerTypeOK, ReloaderTypeOK
  <1>3. StopInv'
    BY DEF Fail, FirstError, StopInv, Drained, WorkerTypeOK, ServiceInv
  <1>4. ReadyInv'
    BY DEF Fail, FirstError, ReadyInv, StopInv, WorkerTypeOK
  <1>5. QueueInv'
    BY DEF Fail, FirstError, QueueInv, ReadyInv, WorkerTypeOK
  <1>6. AskedInv'
    BY DEF Fail, FirstError, AskedInv, ReadyInv, WorkerTypeOK
  <1> QED
    BY <1>1, <1>2, <1>3, <1>4, <1>5, <1>6

\* The first fatal error asks for the shutdown.
LEMMA AskShutdownKeeps ==
  ASSUME WInv, NEW q \in Queues, AskShutdown(q)
  PROVE  WInv'
  <1> USE DEF WInv
  <1>1. WorkerTypeOK'
    <2>1. callback' \in [Queues -> {"none", "ask", "stop", "done"}] /\ requests' \in 0 .. 1
      BY DEF AskShutdown, WorkerTypeOK, AskedInv
    <2> QED
      BY <2>1 DEF AskShutdown, WorkerTypeOK, ReloaderTypeOK
  <1>2. ServiceInv'
    BY DEF AskShutdown, ServiceInv, WorkerTypeOK, ReloaderTypeOK
  <1>3. StopInv'
    BY DEF AskShutdown, StopInv, Drained, WorkerTypeOK, ServiceInv
  <1>4. ReadyInv'
    BY DEF AskShutdown, ReadyInv, StopInv, WorkerTypeOK
  <1>5. QueueInv'
    BY DEF AskShutdown, QueueInv, ReadyInv, WorkerTypeOK
  <1>6. AskedInv'
    BY DEF AskShutdown, AskedInv, ReadyInv, WorkerTypeOK
  <1> QED
    BY <1>1, <1>2, <1>3, <1>4, <1>5, <1>6

\* The fatal callback stops its queue.
LEMMA FatalEntersKeeps ==
  ASSUME WInv, NEW q \in Queues, FatalEnters(q)
  PROVE  WInv'
  <1> USE DEF WInv
  <1>1. WorkerTypeOK'
    <2>1. /\ poller' \in [Queues -> {"new", "polling", "stopping", "stopped"}]
          /\ stopped' \in [Queues -> BOOLEAN] /\ holder' \in [Queues -> Threads]
      BY StopTyped, BusinessIsQueue DEF FatalEnters, Threads
    <2> QED
      BY <2>1 DEF FatalEnters, WorkerTypeOK, ReloaderTypeOK
  <1>2. ServiceInv'
    BY DEF FatalEnters, StopBegins, EnterStop, ServiceInv, WorkerTypeOK,
       ReloaderTypeOK
  <1>3. StopInv'
    BY DEF FatalEnters, StopBegins, EnterStop, StopInv, Drained,
       WorkerTypeOK, ServiceInv
  <1>4. ReadyInv'
    BY DEF FatalEnters, StopBegins, EnterStop, ReadyInv, StopInv, WorkerTypeOK
  <1>5. QueueInv'
    BY DEF FatalEnters, StopBegins, EnterStop, QueueInv, ReadyInv, WorkerTypeOK
  <1>6. AskedInv'
    BY DEF FatalEnters, StopBegins, EnterStop, AskedInv, ReadyInv, WorkerTypeOK
  <1> QED
    BY <1>1, <1>2, <1>3, <1>4, <1>5, <1>6

\* The fatal callback is over.
LEMMA FatalReturnsKeeps ==
  ASSUME WInv, NEW q \in Queues, FatalReturns(q)
  PROVE  WInv'
  <1> USE DEF WInv
  <1>1. WorkerTypeOK'
    <2>1. /\ poller' \in [Queues -> {"new", "polling", "stopping", "stopped"}]
          /\ stopped' \in [Queues -> BOOLEAN] /\ holder' \in [Queues -> Threads]
      BY StopTyped, BusinessIsQueue DEF FatalReturns, Threads
    <2>2. callback' \in [Queues -> {"none", "ask", "stop", "done"}]
      BY DEF FatalReturns, WorkerTypeOK
    <2> QED
      BY <2>1, <2>2 DEF FatalReturns, WorkerTypeOK, ReloaderTypeOK
  <1>2. ServiceInv'
    BY DEF FatalReturns, StopReturns, EnterStop, LeaveStop, ServiceInv,
       WorkerTypeOK, ReloaderTypeOK
  <1>3. StopInv'
    BY DEF FatalReturns, StopReturns, EnterStop, LeaveStop, StopInv, Drained,
       WorkerTypeOK, ServiceInv
  <1>4. ReadyInv'
    BY DEF FatalReturns, StopReturns, EnterStop, LeaveStop, ReadyInv,
       StopInv, WorkerTypeOK
  <1>5. QueueInv'
    BY DEF FatalReturns, StopReturns, EnterStop, LeaveStop, QueueInv,
       ReadyInv, WorkerTypeOK
  <1>6. AskedInv'
    BY DEF FatalReturns, StopReturns, EnterStop, LeaveStop, AskedInv,
       ReadyInv, WorkerTypeOK
  <1> QED
    BY <1>1, <1>2, <1>3, <1>4, <1>5, <1>6

\* The process is told to stop.
LEMMA TerminateKeeps ==
  ASSUME WInv, Terminate
  PROVE  WInv'
  <1> USE DEF WInv
  <1>1. WorkerTypeOK'
    BY DEF Terminate, WorkerTypeOK, ReloaderTypeOK
  <1>2. ServiceInv'
    BY DEF Terminate, ServiceInv, WorkerTypeOK, ReloaderTypeOK
  <1>3. StopInv'
    BY DEF Terminate, StopInv, Drained, WorkerTypeOK, ServiceInv
  <1>4. ReadyInv'
    BY DEF Terminate, ReadyInv, StopInv, WorkerTypeOK
  <1>5. QueueInv'
    BY DEF Terminate, QueueInv, ReadyInv, WorkerTypeOK
  <1>6. AskedInv'
    BY DEF Terminate, AskedInv, ReadyInv, WorkerTypeOK
  <1> QED
    BY <1>1, <1>2, <1>3, <1>4, <1>5, <1>6

\* The stop withdraws readiness before it drains.
LEMMA BeginStopKeeps ==
  ASSUME WInv, BeginStop
  PROVE  WInv'
  <1> USE DEF WInv
  <1>1. WorkerTypeOK'
    BY DEF BeginStop, WorkerTypeOK, ReloaderTypeOK
  <1>2. ServiceInv'
    BY DEF BeginStop, ServiceInv, WorkerTypeOK, ReloaderTypeOK
  <1>3. StopInv'
    BY DEF BeginStop, StopInv, Drained, WorkerTypeOK, ServiceInv
  <1>4. ReadyInv'
    BY DEF BeginStop, ReadyInv, StopInv, WorkerTypeOK
  <1>5. QueueInv'
    BY DEF BeginStop, QueueInv, ReadyInv, WorkerTypeOK
  <1>6. AskedInv'
    BY DEF BeginStop, AskedInv, ReadyInv, WorkerTypeOK
  <1> QED
    BY <1>1, <1>2, <1>3, <1>4, <1>5, <1>6

\* A drain stops its queue.
LEMMA DrainEntersKeeps ==
  ASSUME WInv, NEW q \in Queues, DrainEnters(q)
  PROVE  WInv'
  <1> USE DEF WInv
  <1>1. WorkerTypeOK'
    <2>1. /\ poller' \in [Queues -> {"new", "polling", "stopping", "stopped"}]
          /\ stopped' \in [Queues -> BOOLEAN] /\ holder' \in [Queues -> Threads]
      BY StopTyped, BusinessIsQueue DEF DrainEnters, Threads
    <2> QED
      BY <2>1 DEF DrainEnters, WorkerTypeOK, ReloaderTypeOK
  <1>2. ServiceInv'
    BY DEF DrainEnters, StopBegins, EnterStop, ServiceInv, WorkerTypeOK,
       ReloaderTypeOK
  <1>3. StopInv'
    BY DEF DrainEnters, StopBegins, EnterStop, StopInv, Drained,
       WorkerTypeOK, ServiceInv
  <1>4. ReadyInv'
    BY DEF DrainEnters, StopBegins, EnterStop, ReadyInv, StopInv, WorkerTypeOK
  <1>5. QueueInv'
    BY DEF DrainEnters, StopBegins, EnterStop, QueueInv, ReadyInv, WorkerTypeOK
  <1>6. AskedInv'
    BY DEF DrainEnters, StopBegins, EnterStop, AskedInv, ReadyInv, WorkerTypeOK
  <1> QED
    BY <1>1, <1>2, <1>3, <1>4, <1>5, <1>6

\* A drain is over: its queue is stopped, by whomever.
LEMMA DrainReturnsKeeps ==
  ASSUME WInv, NEW q \in Queues, DrainReturns(q)
  PROVE  WInv'
  <1> USE DEF WInv
  <1>1. WorkerTypeOK'
    <2>1. /\ poller' \in [Queues -> {"new", "polling", "stopping", "stopped"}]
          /\ stopped' \in [Queues -> BOOLEAN] /\ holder' \in [Queues -> Threads]
      BY StopTyped, BusinessIsQueue DEF DrainReturns, Threads
    <2>2. drain' \in [Queues -> {"none", "stop", "done"}]
      BY DEF DrainReturns, WorkerTypeOK
    <2> QED
      BY <2>1, <2>2 DEF DrainReturns, WorkerTypeOK, ReloaderTypeOK
  <1>2. ServiceInv'
    BY DEF DrainReturns, StopReturns, EnterStop, LeaveStop, ServiceInv,
       WorkerTypeOK, ReloaderTypeOK
  <1>3. StopInv'
    BY DEF DrainReturns, StopReturns, EnterStop, LeaveStop, StopInv, Drained,
       WorkerTypeOK, ServiceInv
  <1>4. ReadyInv'
    BY DEF DrainReturns, StopReturns, EnterStop, LeaveStop, ReadyInv,
       StopInv, WorkerTypeOK
  <1>5. QueueInv'
    BY DEF DrainReturns, StopReturns, EnterStop, LeaveStop, QueueInv,
       ReadyInv, WorkerTypeOK
  <1>6. AskedInv'
    BY DEF DrainReturns, StopReturns, EnterStop, LeaveStop, AskedInv,
       ReadyInv, WorkerTypeOK
  <1> QED
    BY <1>1, <1>2, <1>3, <1>4, <1>5, <1>6

\* Both drains are over.
LEMMA StopDrainedKeeps ==
  ASSUME WInv, StopDrained
  PROVE  WInv'
  <1> USE DEF WInv
  <1>1. WorkerTypeOK'
    BY DEF StopDrained, WorkerTypeOK, ReloaderTypeOK
  <1>2. ServiceInv'
    BY DEF StopDrained, ServiceInv, WorkerTypeOK, ReloaderTypeOK
  <1>3. StopInv'
    BY DEF StopDrained, StopInv, Drained, WorkerTypeOK, ServiceInv
  <1>4. ReadyInv'
    BY DEF StopDrained, ReadyInv, StopInv, WorkerTypeOK
  <1>5. QueueInv'
    BY DEF StopDrained, QueueInv, ReadyInv, WorkerTypeOK
  <1>6. AskedInv'
    BY DEF StopDrained, AskedInv, ReadyInv, WorkerTypeOK
  <1> QED
    BY <1>1, <1>2, <1>3, <1>4, <1>5, <1>6

\* The bound abandons the Activities.
LEMMA BoundElapsesKeeps ==
  ASSUME WInv, BoundElapses
  PROVE  WInv'
  <1> USE DEF WInv
  <1>1. WorkerTypeOK'
    BY DEF BoundElapses, WorkerTypeOK, ReloaderTypeOK
  <1>2. ServiceInv'
    BY DEF BoundElapses, ServiceInv, WorkerTypeOK, ReloaderTypeOK
  <1>3. StopInv'
    BY DEF BoundElapses, StopInv, Drained, WorkerTypeOK, ServiceInv
  <1>4. ReadyInv'
    BY DEF BoundElapses, ReadyInv, StopInv, WorkerTypeOK
  <1>5. QueueInv'
    BY DEF BoundElapses, QueueInv, ReadyInv, WorkerTypeOK
  <1>6. AskedInv'
    BY DEF BoundElapses, AskedInv, ReadyInv, WorkerTypeOK
  <1> QED
    BY <1>1, <1>2, <1>3, <1>4, <1>5, <1>6

\* The grace is over after the bound.
LEMMA GraceElapsesKeeps ==
  ASSUME WInv, GraceElapses
  PROVE  WInv'
  <1> USE DEF WInv
  <1>1. WorkerTypeOK'
    BY DEF GraceElapses, WorkerTypeOK, ReloaderTypeOK
  <1>2. ServiceInv'
    BY DEF GraceElapses, ServiceInv, WorkerTypeOK, ReloaderTypeOK
  <1>3. StopInv'
    BY DEF GraceElapses, StopInv, Drained, WorkerTypeOK, ServiceInv
  <1>4. ReadyInv'
    BY DEF GraceElapses, ReadyInv, StopInv, WorkerTypeOK
  <1>5. QueueInv'
    BY DEF GraceElapses, QueueInv, ReadyInv, WorkerTypeOK
  <1>6. AskedInv'
    BY DEF GraceElapses, AskedInv, ReadyInv, WorkerTypeOK
  <1> QED
    BY <1>1, <1>2, <1>3, <1>4, <1>5, <1>6

\* The clients close.
LEMMA CloseClientsKeeps ==
  ASSUME WInv, CloseClients
  PROVE  WInv'
  <1> USE DEF WInv
  <1>1. WorkerTypeOK'
    BY DEF CloseClients, WorkerTypeOK, ReloaderTypeOK
  <1>2. ServiceInv'
    BY DEF CloseClients, ServiceInv, WorkerTypeOK, ReloaderTypeOK
  <1>3. StopInv'
    BY DEF CloseClients, StopInv, Drained, WorkerTypeOK, ServiceInv
  <1>4. ReadyInv'
    BY DEF CloseClients, ReadyInv, StopInv, WorkerTypeOK
  <1>5. QueueInv'
    BY DEF CloseClients, QueueInv, ReadyInv, WorkerTypeOK
  <1>6. AskedInv'
    BY DEF CloseClients, AskedInv, ReadyInv, WorkerTypeOK
  <1> QED
    BY <1>1, <1>2, <1>3, <1>4, <1>5, <1>6

\* The listener closes after the clients.
LEMMA StopListenerKeeps ==
  ASSUME WInv, StopListener
  PROVE  WInv'
  <1> USE DEF WInv
  <1>1. WorkerTypeOK'
    BY DEF StopListener, WorkerTypeOK, ReloaderTypeOK
  <1>2. ServiceInv'
    BY DEF StopListener, ServiceInv, WorkerTypeOK, ReloaderTypeOK
  <1>3. StopInv'
    BY DEF StopListener, StopInv, Drained, WorkerTypeOK, ServiceInv
  <1>4. ReadyInv'
    BY DEF StopListener, ReadyInv, StopInv, WorkerTypeOK
  <1>5. QueueInv'
    BY DEF StopListener, QueueInv, ReadyInv, WorkerTypeOK
  <1>6. AskedInv'
    BY DEF StopListener, AskedInv, ReadyInv, WorkerTypeOK
  <1> QED
    BY <1>1, <1>2, <1>3, <1>4, <1>5, <1>6

\* The files are polled until the clients are closed.
LEMMA StopIdentityKeeps ==
  ASSUME WInv, StopIdentity
  PROVE  WInv'
  <1> USE DEF WInv
  <1>1. WorkerTypeOK'
    BY DEF StopIdentity, StopPolling, WorkerTypeOK, ReloaderTypeOK
  <1>2. ServiceInv'
    BY DEF StopIdentity, StopPolling, ServiceInv, WorkerTypeOK, ReloaderTypeOK
  <1>3. StopInv'
    BY DEF StopIdentity, StopPolling, StopInv, Drained, WorkerTypeOK, ServiceInv
  <1>4. ReadyInv'
    BY DEF StopIdentity, StopPolling, ReadyInv, StopInv, WorkerTypeOK
  <1>5. QueueInv'
    BY DEF StopIdentity, StopPolling, QueueInv, ReadyInv, WorkerTypeOK
  <1>6. AskedInv'
    BY DEF StopIdentity, StopPolling, AskedInv, ReadyInv, WorkerTypeOK
  <1> QED
    BY <1>1, <1>2, <1>3, <1>4, <1>5, <1>6

\* The SDK's worker stops when its Activities are over.
LEMMA SdkStopsKeeps ==
  ASSUME WInv, NEW q \in Queues, SdkStops(q)
  PROVE  WInv'
  <1> USE DEF WInv
  <1>1. WorkerTypeOK'
    BY DEF SdkStops, WorkerTypeOK, ReloaderTypeOK
  <1>2. ServiceInv'
    BY DEF SdkStops, ServiceInv, WorkerTypeOK, ReloaderTypeOK
  <1>3. StopInv'
    BY DEF SdkStops, StopInv, Drained, WorkerTypeOK, ServiceInv
  <1>4. ReadyInv'
    BY DEF SdkStops, ReadyInv, StopInv, WorkerTypeOK
  <1>5. QueueInv'
    BY DEF SdkStops, QueueInv, ReadyInv, WorkerTypeOK
  <1>6. AskedInv'
    BY DEF SdkStops, AskedInv, ReadyInv, WorkerTypeOK
  <1> QED
    BY <1>1, <1>2, <1>3, <1>4, <1>5, <1>6

\* The SDK's worker stops, its Activities go on.
LEMMA SdkGivesUpKeeps ==
  ASSUME WInv, NEW q \in Queues, SdkGivesUp(q)
  PROVE  WInv'
  <1> USE DEF WInv
  <1>1. WorkerTypeOK'
    BY DEF SdkGivesUp, WorkerTypeOK, ReloaderTypeOK
  <1>2. ServiceInv'
    BY DEF SdkGivesUp, ServiceInv, WorkerTypeOK, ReloaderTypeOK
  <1>3. StopInv'
    BY DEF SdkGivesUp, StopInv, Drained, WorkerTypeOK, ServiceInv
  <1>4. ReadyInv'
    BY DEF SdkGivesUp, ReadyInv, StopInv, WorkerTypeOK
  <1>5. QueueInv'
    BY DEF SdkGivesUp, QueueInv, ReadyInv, WorkerTypeOK
  <1>6. AskedInv'
    BY DEF SdkGivesUp, AskedInv, ReadyInv, WorkerTypeOK
  <1> QED
    BY <1>1, <1>2, <1>3, <1>4, <1>5, <1>6

\* An Activity starts on a queue that polls.
LEMMA TaskStartsKeeps ==
  ASSUME WInv, NEW q \in Queues, TaskStarts(q)
  PROVE  WInv'
  <1> USE DEF WInv
  <1>1. WorkerTypeOK'
    <2>1. tasks' \in [Queues -> 0 .. MaxTasks]
      BY WorkerAssumption DEF TaskStarts, WorkerTypeOK
    <2> QED
      BY <2>1 DEF TaskStarts, WorkerTypeOK, ReloaderTypeOK
  <1>2. ServiceInv'
    BY DEF TaskStarts, ServiceInv, WorkerTypeOK, ReloaderTypeOK
  <1>3. StopInv'
    BY DEF TaskStarts, StopInv, Drained, WorkerTypeOK, ServiceInv
  <1>4. ReadyInv'
    BY DEF TaskStarts, ReadyInv, StopInv, WorkerTypeOK
  <1>5. QueueInv'
    BY DEF TaskStarts, QueueInv, ReadyInv, WorkerTypeOK
  <1>6. AskedInv'
    BY DEF TaskStarts, AskedInv, ReadyInv, WorkerTypeOK
  <1> QED
    BY <1>1, <1>2, <1>3, <1>4, <1>5, <1>6

\* An Activity ends.
LEMMA TaskEndsKeeps ==
  ASSUME WInv, NEW q \in Queues, TaskEnds(q)
  PROVE  WInv'
  <1> USE DEF WInv
  <1>1. WorkerTypeOK'
    <2>1. tasks' \in [Queues -> 0 .. MaxTasks]
      BY WorkerAssumption DEF TaskEnds, WorkerTypeOK
    <2> QED
      BY <2>1 DEF TaskEnds, WorkerTypeOK, ReloaderTypeOK
  <1>2. ServiceInv'
    BY DEF TaskEnds, ServiceInv, WorkerTypeOK, ReloaderTypeOK
  <1>3. StopInv'
    BY DEF TaskEnds, StopInv, Drained, WorkerTypeOK, ServiceInv
  <1>4. ReadyInv'
    BY DEF TaskEnds, ReadyInv, StopInv, WorkerTypeOK
  <1>5. QueueInv'
    BY DEF TaskEnds, QueueInv, ReadyInv, WorkerTypeOK
  <1>6. AskedInv'
    BY DEF TaskEnds, AskedInv, ReadyInv, WorkerTypeOK
  <1> QED
    BY <1>1, <1>2, <1>3, <1>4, <1>5, <1>6

\* A pass over the files, or a swap of the mount.
LEMMA FilesKeeps ==
  ASSUME WInv, Files
  PROVE  WInv'
  <1> USE DEF WInv
  <1>1. WorkerTypeOK'
    <2>1. ReloaderTypeOK'
      <3>1. CASE Tick \/ ReadFails \/ \E v \in Versions : Swap(v)
        BY <3>1 DEF Tick, ReadFails, Swap, WorkerTypeOK, ReloaderTypeOK
      <3>2. CASE Digested
        BY <3>2 DEF Digested, WorkerTypeOK, ReloaderTypeOK
      <3>3. CASE Loaded
        <4>1. PICK read \in Read : Publish(read)
          BY <3>3 DEF Loaded
        <4>2. read \in Contents
          BY DEF Read
        <4>3. material' \in [contents : {c \in Contents : Parses(c)}, digest : Contents]
          BY <4>1, <4>2 DEF Publish, WorkerTypeOK, ReloaderTypeOK
        <4> QED
          BY <3>3, <4>3 DEF Loaded, WorkerTypeOK, ReloaderTypeOK
      <3> QED
        BY <3>1, <3>2, <3>3 DEF Files, Poll
    <2> QED
      BY <2>1 DEF Files, WorkerTypeOK
  <1>2. ServiceInv'
    BY DEF Files, Poll, Tick, Digested, Loaded, ReadFails, Swap, Publish,
       ServiceInv, WorkerTypeOK, ReloaderTypeOK
  <1>3. StopInv'
    BY DEF Files, Poll, Tick, Digested, Loaded, ReadFails, Swap, Publish,
       StopInv, Drained, WorkerTypeOK, ServiceInv
  <1>4. ReadyInv'
    BY DEF Files, Poll, Tick, Digested, Loaded, ReadFails, Swap, Publish,
       ReadyInv, StopInv, WorkerTypeOK
  <1>5. QueueInv'
    BY DEF Files, Poll, Tick, Digested, Loaded, ReadFails, Swap, Publish,
       QueueInv, ReadyInv, WorkerTypeOK
  <1>6. AskedInv'
    BY DEF Files, Poll, Tick, Digested, Loaded, ReadFails, Swap, Publish,
       AskedInv, ReadyInv, WorkerTypeOK
  <1> QED
    BY <1>1, <1>2, <1>3, <1>4, <1>5, <1>6

\* Every step keeps the invariant.
LEMMA WorkerStepKeeps == WInv /\ [WorkerNext]_processVars => WInv'
  <1> SUFFICES ASSUME WInv, [WorkerNext]_processVars
               PROVE  WInv'
    OBVIOUS
  <1>1. CASE Step
    BY <1>1, StartIdentityKeeps, BindKeeps, StartQueueKeeps, UndoEntersKeeps,
       UndoneKeeps, BecomeReadyKeeps, BeginStopKeeps, StopDrainedKeeps,
       BoundElapsesKeeps, GraceElapsesKeeps, CloseClientsKeeps, StopListenerKeeps
       DEF Step
  <1>2. ASSUME NEW q \in Queues, QueueStep(q)
        PROVE  WInv'
    BY <1>2, AskShutdownKeeps, FatalEntersKeeps, FatalReturnsKeeps,
       DrainEntersKeeps, DrainReturnsKeeps, SdkStopsKeeps, SdkGivesUpKeeps
       DEF QueueStep
  <1>3. ASSUME NEW q \in Queues, Events(q)
        PROVE  WInv'
    BY <1>3, TaskStartsKeeps, TaskEndsKeeps, FailKeeps DEF Events
  <1>4. CASE UNCHANGED processVars
    <2>1. /\ UNCHANGED <<mounted, window, polling, material>>
          /\ UNCHANGED <<listener, ready, withdrawn, fatal, requests, signal>>
          /\ UNCHANGED <<poller, stopped, holder, boot, halt, callback, drain>>
          /\ UNCHANGED <<tasks, overrun, abandoned, clients>>
      BY <1>4 DEF processVars
    <2>2. WorkerTypeOK'
      <3>1. WorkerTypeOK /\ ReloaderTypeOK
        BY DEF WInv, WorkerTypeOK
      <3>2. ReloaderTypeOK'
        BY <2>1, <3>1 DEF ReloaderTypeOK
      <3>3. UNCHANGED <<boot, halt, listener, ready, withdrawn, fatal, signal, requests>>
        BY <2>1
      <3>4. UNCHANGED <<poller, stopped, holder, callback, drain, tasks, overrun>>
        BY <2>1
      <3>5. UNCHANGED abandoned /\ UNCHANGED clients
        BY <2>1
      <3> QED
        BY <3>1, <3>2, <3>3, <3>4, <3>5, ZenonT(30) DEF WorkerTypeOK
    <2>3. ServiceInv' /\ StopInv' /\ ReadyInv' /\ QueueInv' /\ AskedInv'
      BY <2>1 DEF WInv, ServiceInv, StopInv, ReadyInv, QueueInv, AskedInv,
         Drained
    <2> QED
      BY <2>2, <2>3 DEF WInv
  <1> QED
    BY <1>1, <1>2, <1>3, <1>4, StopIdentityKeeps, StartQueueFailsKeeps,
       TerminateKeeps, FilesKeeps DEF WorkerNext, ProcessEnded

\* Before the start.
LEMMA WorkerStarts == WorkerInit => WInv
  <1> SUFFICES ASSUME WorkerInit
               PROVE  WInv
    OBVIOUS
  <1>1. ReloaderTypeOK /\ material.digest = material.contents
    <2>1. Whole(First) \in {c \in Contents : Parses(c)}
      BY VersionsAssumption DEF Whole, Contents, Parses
    <2> QED
      BY <2>1, VersionsAssumption DEF WorkerInit, ReloaderInit, ReloaderTypeOK
  <1>2. WorkerTypeOK
    <2>1. /\ poller \in [Queues -> {"new", "polling", "stopping", "stopped"}]
          /\ stopped \in [Queues -> BOOLEAN] /\ holder \in [Queues -> Threads]
          /\ callback \in [Queues -> {"none", "ask", "stop", "done"}]
          /\ drain \in [Queues -> {"none", "stop", "done"}]
      BY DEF WorkerInit, Threads
    <2>2. tasks \in [Queues -> 0 .. MaxTasks] /\ overrun \in [Queues -> BOOLEAN]
      BY WorkerAssumption DEF WorkerInit
    <2>3. requests \in 0 .. 1
      BY DEF WorkerInit
    <2> QED
      BY <1>1, <2>1, <2>2, <2>3, Zenon DEF WorkerInit, WorkerTypeOK
  <1>3. ServiceInv /\ StopInv /\ AskedInv
    BY <1>1 DEF WorkerInit, ReloaderInit, ServiceInv, StopInv, AskedInv
  <1>4. ReadyInv /\ QueueInv
    BY DEF WorkerInit, ReadyInv, QueueInv
  <1> QED
    BY <1>2, <1>3, <1>4 DEF WInv

\* The inductive invariant of the worker process holds in every state.
THEOREM WorkerInvariance == WorkerSpec => []WInv
  BY WorkerStarts, WorkerStepKeeps, PTL DEF WorkerSpec

\* Every variable of the process keeps its type: the shutdown is asked of Fx
\* at most once, whatever fails, and the identity in force always parsed.
THEOREM WorkerTypeCorrect == WorkerSpec => []WorkerTypeOK
  <1>1. WInv => WorkerTypeOK
    BY DEF WInv
  <1> QED
    BY <1>1, WorkerInvariance, PTL

\* becomeReady, health.fail and withdraw: /readyz answers 200 only while both
\* pollers poll, nothing failed and no stop began.
THEOREM ReadyServes == WorkerSpec => []ReadyMeansServing
  <1>1. WInv => ReadyMeansServing
    BY DEF WInv, WorkerTypeOK, ReadyInv, ServiceInv, StopInv, ReadyMeansServing
  <1> QED
    BY <1>1, WorkerInvariance, PTL

\* The stop hook: the clients close under an Activity only if it was abandoned
\* or the SDK gave it up, and the identity is looked after until then.
THEOREM ClientsOutlive == WorkerSpec => []ClientsOutliveActivities
  <1>1. WInv => ClientsOutliveActivities
    BY DEF WInv, WorkerTypeOK, StopInv, QueueInv, ServiceInv, Drained,
       ClientsOutliveActivities
  <1> QED
    BY <1>1, WorkerInvariance, PTL
=============================================================================
