------------------------- MODULE LaunchCleanupProofs -------------------------
(***************************************************************************)
(* What holds of the launch cleanup for every number of create requests    *)
(* and reconciliation rounds, and for every setting of the switches: IInv  *)
(* is inductive (one lemma per action), so the safety properties follow,   *)
(* and a run implements LaunchObligation.                                  *)
(*                                                                         *)
(* In the lemmas a step that names several parts of IInv proves those the  *)
(* action leaves alone or disturbs only through the run's place; each of   *)
(* the others has a step that cites the parts it needs.                    *)
(***************************************************************************)
EXTENDS LaunchCleanup, TLAPS

USE MaxRequestsAssumption, MaxRoundsAssumption, SwitchesAssumption
    DEF Requests, NoJob, PCs, RequestStates, Pending

\* The next ordinal is new: nothing is known of it yet.
LEMMA IssueCreateKeeps ==
  ASSUME IInv, IssueCreate
  PROVE  IInv'
  <1> USE DEF IInv, TypeOK, IssueCreate, roundVars, callVars, backendVars
  <1>1. OrdinalsInv' /\ ObjectsInv' /\ LedgerCovers' /\ EvidenceFirst' /\
       PassInv' /\ ConfirmedInv' /\ ReportInv'
    BY DEF OrdinalsInv, ObjectsInv, Live, LedgerCovers, Outstanding, InFlight,
      EvidenceFirst, PassInv, NothingSeen, Markers, ConfirmedInv, ReportInv
  <1>2. TypeOK'
    BY DEF OrdinalsInv
  <1> QED
    BY <1>1, <1>2

\* The Job a create answer carries was made, so its marker moves from the
\* ledger to the recorded ones.
LEMMA CreateSucceedsKeeps ==
  ASSUME IInv, CreateSucceeds
  PROVE  IInv'
  <1> USE DEF IInv, TypeOK, CreateSucceeds, AnsweredJobs, roundVars, callVars
  <1>1. ObjectsInv' /\ EvidenceFirst' /\ PassInv' /\ ConfirmedInv' /\
       ReportInv'
    BY DEF ObjectsInv, Live, EvidenceFirst, PassInv, NothingSeen, Markers,
      ConfirmedInv, Outstanding, ReportInv
  <1>2. TypeOK'
    BY DEF OrdinalsInv
  <1>3. OrdinalsInv'
    BY DEF OrdinalsInv, LedgerCovers, Outstanding, Live, InFlight
  <1>4. LedgerCovers'
    BY DEF LedgerCovers, Outstanding, Live, InFlight, ObjectsInv
  <1> QED
    BY <1>1, <1>2, <1>3, <1>4

\* A request answered NotCreated has no object, so the ledger need not cover
\* it.
LEMMA CreateNotCreatedKeeps ==
  ASSUME IInv, CreateNotCreated
  PROVE  IInv'
  <1> USE DEF IInv, TypeOK, CreateNotCreated, RetryOrEnd, callVars
  <1>1. OrdinalsInv' /\ ObjectsInv' /\ EvidenceFirst' /\ PassInv' /\
       ConfirmedInv' /\ ReportInv'
    BY DEF OrdinalsInv, ObjectsInv, Live, EvidenceFirst, PassInv, NothingSeen,
      Markers, ConfirmedInv, Outstanding, ReportInv
  <1>2. TypeOK'
    <2>1. pc' \in PCs /\ observed' \in BOOLEAN
      BY DEF RetryOrEnd
    <2>2. request' \in [Requests -> RequestStates]
      OBVIOUS
    <2>3. unaccounted' \in SUBSET Requests
      BY DEF OrdinalsInv
    <2> QED
      BY <2>1, <2>2, <2>3
  <1>3. LedgerCovers'
    BY DEF LedgerCovers, Outstanding, Live, InFlight, ObjectsInv
  <1> QED
    BY <1>1, <1>2, <1>3

\* A refused create wrote nothing.
LEMMA CreateRefusedKeeps ==
  ASSUME IInv, CreateRefused
  PROVE  IInv'
  <1> USE DEF IInv, TypeOK, CreateRefused, callVars
  <1>1. OrdinalsInv' /\ ObjectsInv' /\ EvidenceFirst' /\ PassInv' /\
       ConfirmedInv' /\ ReportInv'
    BY DEF OrdinalsInv, ObjectsInv, Live, EvidenceFirst, PassInv, NothingSeen,
      Markers, ConfirmedInv, Outstanding, ReportInv
  <1>2. TypeOK'
    BY DEF OrdinalsInv
  <1>3. LedgerCovers'
    BY DEF LedgerCovers, Outstanding, Live, InFlight, ObjectsInv
  <1> QED
    BY <1>1, <1>2, <1>3

\* The request in flight enters the ledger when its outcome is unknown.
LEMMA CreateUnresolvedKeeps ==
  ASSUME IInv, CreateUnresolved
  PROVE  IInv'
  <1> USE DEF IInv, TypeOK, CreateUnresolved, RetryOrEnd, callVars,
      backendVars
  <1>1. OrdinalsInv' /\ ObjectsInv' /\ LedgerCovers' /\ PassInv' /\
       ConfirmedInv' /\ ReportInv'
    BY DEF OrdinalsInv, ObjectsInv, Live, LedgerCovers, Outstanding, InFlight,
      PassInv, NothingSeen, Markers, ConfirmedInv, ReportInv
  <1>2. TypeOK'
    <2>1. pc' \in PCs /\ observed' \in BOOLEAN
      BY DEF RetryOrEnd
    <2>2. request' \in [Requests -> RequestStates]
      OBVIOUS
    <2>3. unaccounted' \in SUBSET Requests
      BY DEF OrdinalsInv
    <2> QED
      BY <2>1, <2>2, <2>3
  <1>3. EvidenceFirst'
    BY DEF EvidenceFirst, OrdinalsInv
  <1> QED
    BY <1>1, <1>2, <1>3

\* The end of the run path only starts the cleanup.
LEMMA RunPathEndsKeeps ==
  ASSUME IInv, RunPathEnds
  PROVE  IInv'
  <1> USE DEF IInv, TypeOK, RunPathEnds, callVars, backendVars
  <1>1. OrdinalsInv' /\ ObjectsInv' /\ LedgerCovers' /\ EvidenceFirst' /\
       PassInv' /\ ConfirmedInv' /\ ReportInv'
    BY DEF OrdinalsInv, ObjectsInv, Live, LedgerCovers, Outstanding, InFlight,
      EvidenceFirst, PassInv, NothingSeen, Markers, ConfirmedInv, ReportInv
  <1>2. TypeOK'
    BY DEF OrdinalsInv
  <1> QED
    BY <1>1, <1>2

\* What the pass may strike are requests whose lifetime is over.
LEMMA BeginPassKeeps ==
  ASSUME IInv, BeginPass
  PROVE  IInv'
  BY DEF IInv, TypeOK, BeginPass, lifetimeEnded, backendVars, OrdinalsInv,
         ObjectsInv, Live, LedgerCovers, Outstanding, InFlight, EvidenceFirst,
         PassInv, NothingSeen, Markers, ConfirmedInv, ReportInv

\* The Job the Activity read is in the ledger or recorded.
LEMMA GetJobKeeps ==
  ASSUME IInv, GetJob
  PROVE  IInv'
  <1> USE DEF IInv, TypeOK, GetJob, CallRunning, runVars, roundVars,
      backendVars
  <1>1. TypeOK' /\ OrdinalsInv' /\ ObjectsInv' /\ LedgerCovers' /\
       EvidenceFirst' /\ ConfirmedInv' /\ ReportInv'
    BY DEF OrdinalsInv, ObjectsInv, Live, LedgerCovers, Outstanding, InFlight,
      EvidenceFirst, ConfirmedInv, ReportInv
  <1>2. PassInv'
    BY DEF PassInv, NothingSeen, Markers, LedgerCovers, Outstanding, Live,
      InFlight
  <1> QED
    BY <1>1, <1>2

\* The Pods the Activity read were made by requests.
LEMMA ListPodsKeeps ==
  ASSUME IInv, ListPods
  PROVE  IInv'
  BY DEF IInv, TypeOK, ListPods, CallRunning, runVars, roundVars, backendVars,
         OrdinalsInv, ObjectsInv, Live, LedgerCovers, Outstanding, InFlight,
         EvidenceFirst, PassInv, NothingSeen, Markers, ConfirmedInv, ReportInv

\* What the observation named leaves the ledger as it is recorded.
LEMMA ObserveReturnsKeeps ==
  ASSUME IInv, ObserveReturns
  PROVE  IInv'
  <1> USE DEF IInv, TypeOK, ObserveReturns, Markers, NothingSeen, Repoll,
      roundVars, backendVars
  <1>1. TypeOK' /\ ObjectsInv' /\ EvidenceFirst' /\ PassInv' /\ ConfirmedInv'
       /\ ReportInv'
    BY DEF ObjectsInv, Live, EvidenceFirst, PassInv, ConfirmedInv,
      Outstanding, ReportInv
  <1>2. OrdinalsInv'
    BY DEF OrdinalsInv, ObjectsInv, Live
  <1>3. LedgerCovers'
    BY DEF LedgerCovers, Outstanding, Live, InFlight, ObjectsInv
  <1> QED
    BY <1>1, <1>2, <1>3

\* Another look forgets the last one.
LEMMA ObserveAgainKeeps ==
  ASSUME IInv, ObserveAgain
  PROVE  IInv'
  BY DEF IInv, TypeOK, ObserveAgain, NothingSeen, Repoll, Markers, runVars,
         roundVars, backendVars, OrdinalsInv, ObjectsInv, Live, LedgerCovers,
         Outstanding, InFlight, EvidenceFirst, PassInv, ConfirmedInv,
         ReportInv

\* A failed observation confirms nothing.
LEMMA ObserveFailsKeeps ==
  ASSUME IInv, ObserveFails
  PROVE  IInv'
  BY DEF IInv, TypeOK, ObserveFails, NothingSeen, RoundUnconfirmed, Markers,
         roundVars, callVars, backendVars, OrdinalsInv, ObjectsInv, Live,
         LedgerCovers, Outstanding, InFlight, EvidenceFirst, PassInv,
         ConfirmedInv, ReportInv

\* A restarted Activity forgets what it read.
LEMMA CallRestartsKeeps ==
  ASSUME IInv, CallRestarts
  PROVE  IInv'
  BY DEF IInv, TypeOK, CallRestarts, Repoll, CallRunning, runVars, roundVars,
         backendVars, OrdinalsInv, ObjectsInv, Live, LedgerCovers,
         Outstanding, InFlight, EvidenceFirst, PassInv, NothingSeen, Markers,
         ConfirmedInv, ReportInv

\* Objects of unaccounted requests are recorded before they are deleted.
LEMMA DeleteReportsKeeps ==
  ASSUME IInv, DeleteReports
  PROVE  IInv'
  <1> USE DEF IInv, TypeOK, DeleteReports, Markers, Repoll, AfterDelete,
      RoundUnconfirmed, RoundConfirmed, NothingSeen, backendVars
  <1>1. ObjectsInv' /\ EvidenceFirst' /\ PassInv' /\ ReportInv'
    BY DEF ObjectsInv, Live, EvidenceFirst, PassInv, ReportInv
  <1>2. TypeOK'
    BY DEF OrdinalsInv
  <1>3. OrdinalsInv'
    BY DEF OrdinalsInv, ObjectsInv, Live
  <1>4. LedgerCovers'
    BY DEF LedgerCovers, Outstanding, Live, InFlight, ObjectsInv
  <1>5. ConfirmedInv'
    BY DEF ConfirmedInv, Outstanding, Live, OrdinalsInv, ObjectsInv,
      LedgerCovers, InFlight, EvidenceFirst, PassInv, ReportInv
  <1> QED
    BY <1>1, <1>2, <1>3, <1>4, <1>5

\* Only a recorded Job is asked to go.
LEMMA DeleteStopsKeeps ==
  ASSUME IInv, DeleteStops
  PROVE  IInv'
  <1> USE DEF IInv, TypeOK, DeleteStops, Markers, NothingSeen, Repoll,
      runVars, roundVars
  <1>1. TypeOK' /\ OrdinalsInv' /\ ObjectsInv' /\ LedgerCovers' /\ PassInv' /\
       ConfirmedInv' /\ ReportInv'
    BY DEF OrdinalsInv, ObjectsInv, Live, LedgerCovers, Outstanding, InFlight,
      PassInv, ConfirmedInv, ReportInv
  <1>2. EvidenceFirst'
    BY DEF EvidenceFirst, PassInv
  <1> QED
    BY <1>1, <1>2

\* The Secret goes once nothing of the launch was seen.
LEMMA DeleteSecretKeeps ==
  ASSUME IInv, DeleteSecret
  PROVE  IInv'
  <1> USE DEF IInv, TypeOK, DeleteSecret, NothingSeen, Markers, runVars,
      roundVars
  <1>1. OrdinalsInv' /\ ObjectsInv' /\ LedgerCovers' /\ EvidenceFirst' /\
       PassInv' /\ ConfirmedInv' /\ ReportInv'
    BY DEF OrdinalsInv, ObjectsInv, Live, LedgerCovers, Outstanding, InFlight,
      EvidenceFirst, PassInv, ConfirmedInv, ReportInv
  <1>2. TypeOK'
    BY DEF OrdinalsInv
  <1> QED
    BY <1>1, <1>2

\* An empty key confirms the round only if every request left in the ledger
\* is struck, and those are over.
LEMMA DeleteConfirmsKeeps ==
  ASSUME IInv, DeleteConfirms
  PROVE  IInv'
  <1> USE DEF IInv, TypeOK, DeleteConfirms, Repoll, AfterDelete,
      RoundUnconfirmed, RoundConfirmed, backendVars
  <1>1. OrdinalsInv' /\ ObjectsInv' /\ EvidenceFirst' /\ PassInv' /\
       ReportInv'
    BY DEF OrdinalsInv, ObjectsInv, Live, EvidenceFirst, PassInv, NothingSeen,
      Markers, ReportInv
  <1>2. TypeOK'
    BY DEF OrdinalsInv
  <1>3. LedgerCovers'
    BY DEF LedgerCovers, Outstanding, Live, InFlight, ObjectsInv, PassInv,
      NothingSeen, Markers
  <1>4. ConfirmedInv'
    BY DEF ConfirmedInv, Outstanding, Live, OrdinalsInv, ObjectsInv,
      LedgerCovers, InFlight, EvidenceFirst, PassInv, NothingSeen, Markers,
      ReportInv
  <1> QED
    BY <1>1, <1>2, <1>3, <1>4

\* A failed delete confirms nothing.
LEMMA DeleteFailsKeeps ==
  ASSUME IInv, DeleteFails
  PROVE  IInv'
  BY DEF IInv, TypeOK, DeleteFails, RoundUnconfirmed, roundVars, callVars,
         backendVars, OrdinalsInv, ObjectsInv, Live, LedgerCovers,
         Outstanding, InFlight, EvidenceFirst, PassInv, NothingSeen, Markers,
         ConfirmedInv, ReportInv

\* Complete is reported only by the close of a confirmed round.
LEMMA CloseAcceptedKeeps ==
  ASSUME IInv, CloseAccepted
  PROVE  IInv'
  BY DEF IInv, TypeOK, CloseAccepted, roundVars, callVars, backendVars,
         OrdinalsInv, ObjectsInv, Live, LedgerCovers, Outstanding, InFlight,
         EvidenceFirst, PassInv, NothingSeen, Markers, ConfirmedInv, ReportInv

\* A refused close reports nothing.
LEMMA CloseRefusedKeeps ==
  ASSUME IInv, CloseRefused
  PROVE  IInv'
  BY DEF IInv, TypeOK, CloseRefused, roundVars, callVars, backendVars,
         OrdinalsInv, ObjectsInv, Live, LedgerCovers, Outstanding, InFlight,
         EvidenceFirst, PassInv, NothingSeen, Markers, ConfirmedInv, ReportInv

\* A further round begins with nothing confirmed.
LEMMA ReconcileRoundKeeps ==
  ASSUME IInv, ReconcileRound
  PROVE  IInv'
  <1> USE DEF IInv, TypeOK, ReconcileRound, callVars, backendVars
  <1>1. OrdinalsInv' /\ ObjectsInv' /\ LedgerCovers' /\ EvidenceFirst' /\
       PassInv' /\ ConfirmedInv' /\ ReportInv'
    BY DEF OrdinalsInv, ObjectsInv, Live, LedgerCovers, Outstanding, InFlight,
      EvidenceFirst, PassInv, NothingSeen, Markers, ConfirmedInv, ReportInv
  <1>2. rounds' \in 0 .. MaxRounds
    OBVIOUS
  <1>3. TypeOK'
    BY <1>2
  <1> QED
    BY <1>1, <1>3

\* Giving up confirms nothing.
LEMMA ReconcileGivesUpKeeps ==
  ASSUME IInv, ReconcileGivesUp
  PROVE  IInv'
  BY DEF IInv, TypeOK, ReconcileGivesUp, roundVars, callVars, backendVars,
         OrdinalsInv, ObjectsInv, Live, LedgerCovers, Outstanding, InFlight,
         EvidenceFirst, PassInv, NothingSeen, Markers, ConfirmedInv, ReportInv

\* A Pod carries the marker of its Job.
LEMMA PodStartsKeeps ==
  ASSUME IInv, PodStarts
  PROVE  IInv'
  BY DEF IInv, TypeOK, PodStarts, runVars, roundVars, callVars, OrdinalsInv,
         ObjectsInv, Live, LedgerCovers, Outstanding, InFlight, EvidenceFirst,
         PassInv, NothingSeen, Markers, ConfirmedInv, ReportInv

\* A removed Job leaves nothing to attribute.
LEMMA JobRemovedKeeps ==
  ASSUME IInv, JobRemoved
  PROVE  IInv'
  <1>1. OrdinalsInv' /\ ObjectsInv' /\ LedgerCovers' /\ EvidenceFirst' /\
       PassInv' /\ ConfirmedInv' /\ ReportInv'
    BY DEF IInv, TypeOK, JobRemoved, runVars, roundVars, callVars, OrdinalsInv,
      ObjectsInv, Live, LedgerCovers, Outstanding, InFlight, EvidenceFirst,
      PassInv, NothingSeen, Markers, ConfirmedInv, ReportInv
  <1>2. TypeOK
    BY DEF IInv
  <1>3. TypeOK'
    <2>1. job' \in Requests \cup {NoJob} /\ terminating' \in BOOLEAN
      BY DEF JobRemoved
    <2> QED
      BY <1>2, <2>1 DEF TypeOK, JobRemoved, runVars, roundVars, callVars
  <1> QED
    BY <1>1, <1>3 DEF IInv

\* A Job taken away leaves Pods the ledger already covers.
LEMMA JobTakenAwayKeeps ==
  ASSUME IInv, JobTakenAway
  PROVE  IInv'
  <1>1. OrdinalsInv' /\ ObjectsInv' /\ LedgerCovers' /\ EvidenceFirst' /\
       PassInv' /\ ConfirmedInv' /\ ReportInv'
    BY DEF IInv, TypeOK, JobTakenAway, runVars, roundVars, callVars, OrdinalsInv,
      ObjectsInv, Live, LedgerCovers, Outstanding, InFlight, EvidenceFirst,
      PassInv, NothingSeen, Markers, ConfirmedInv, ReportInv
  <1>2. TypeOK
    BY DEF IInv
  <1>3. TypeOK'
    <2>1. job' \in Requests \cup {NoJob} /\ terminating' \in BOOLEAN
      BY DEF JobTakenAway
    <2> QED
      BY <1>2, <2>1 DEF TypeOK, JobTakenAway, runVars, roundVars, callVars
  <1> QED
    BY <1>1, <1>3 DEF IInv

\* A Pod that is gone leaves nothing to attribute.
LEMMA PodGoneKeeps ==
  ASSUME IInv, NEW r \in Requests, PodGone(r)
  PROVE  IInv'
  BY DEF IInv, TypeOK, PodGone, runVars, roundVars, callVars, OrdinalsInv,
         ObjectsInv, Live, LedgerCovers, Outstanding, InFlight, EvidenceFirst,
         PassInv, NothingSeen, Markers, ConfirmedInv, ReportInv

\* The delete of an observed UID marks that Job only, and it was recorded.
LEMMA ApplyDeleteKeeps ==
  ASSUME IInv, NEW r \in Requests, ApplyDelete(r)
  PROVE  IInv'
  BY DEF IInv, TypeOK, ApplyDelete, runVars, roundVars, callVars, OrdinalsInv,
         ObjectsInv, Live, LedgerCovers, Outstanding, InFlight, EvidenceFirst,
         PassInv, NothingSeen, Markers, ConfirmedInv, ReportInv

\* Writing the Secret's create leaves the request pending.
LEMMA WriteSecretKeeps ==
  ASSUME IInv, NEW r \in Requests, WriteSecret(r)
  PROVE  IInv'
  <1>1. TypeOK /\ OrdinalsInv /\ ObjectsInv
    BY DEF IInv
  <1>2. TypeOK'
    BY <1>1 DEF TypeOK, WriteSecret, ChangeRequest, runVars, roundVars, callVars
  <1>3. OrdinalsInv' /\ ObjectsInv'
    BY <1>1 DEF TypeOK, OrdinalsInv, ObjectsInv, Live, WriteSecret,
      ChangeRequest, Writable, runVars, roundVars, callVars
  <1>4. LedgerCovers' /\ EvidenceFirst' /\ ReportInv'
    BY DEF IInv, TypeOK, WriteSecret, ChangeRequest, Writable, runVars,
      roundVars, callVars, LedgerCovers, Outstanding, Live, InFlight,
      EvidenceFirst, ReportInv
  <1>5. PassInv' /\ ConfirmedInv'
    BY DEF IInv, TypeOK, WriteSecret, ChangeRequest, Writable, runVars,
      roundVars, callVars, OrdinalsInv, ObjectsInv, Live, LedgerCovers,
      Outstanding, InFlight, PassInv, NothingSeen, Markers, ConfirmedInv
  <1> QED
    BY <1>2, <1>3, <1>4, <1>5 DEF IInv

\* A Secret that lands belongs to a pending request, which no pass strikes.
LEMMA SecretLandsKeeps ==
  ASSUME IInv, NEW r \in Requests, SecretLands(r)
  PROVE  IInv'
  <1> USE DEF IInv, TypeOK, SecretLands, ChangeRequest, runVars, roundVars,
      callVars
  <1>1. TypeOK' /\ OrdinalsInv' /\ ObjectsInv' /\ LedgerCovers' /\
       EvidenceFirst' /\ ReportInv'
    BY DEF OrdinalsInv, ObjectsInv, Live, LedgerCovers, Outstanding, InFlight,
      EvidenceFirst, ReportInv
  <1>2. PassInv'
    BY DEF PassInv, NothingSeen, Markers, OrdinalsInv, ObjectsInv, Live,
      LedgerCovers, Outstanding, InFlight
  <1>3. ConfirmedInv'
    BY DEF ConfirmedInv, Outstanding, Live, OrdinalsInv
  <1> QED
    BY <1>1, <1>2, <1>3

\* Writing the Job's create leaves the request pending.
LEMMA WriteJobKeeps ==
  ASSUME IInv, NEW r \in Requests, WriteJob(r)
  PROVE  IInv'
  <1>1. TypeOK /\ OrdinalsInv /\ ObjectsInv
    BY DEF IInv
  <1>2. TypeOK'
    BY <1>1 DEF TypeOK, WriteJob, ChangeRequest, runVars, roundVars, callVars
  <1>3. OrdinalsInv' /\ ObjectsInv'
    BY <1>1 DEF TypeOK, OrdinalsInv, ObjectsInv, Live, WriteJob,
      ChangeRequest, Writable, runVars, roundVars, callVars
  <1>4. LedgerCovers' /\ EvidenceFirst' /\ ReportInv'
    BY DEF IInv, TypeOK, WriteJob, ChangeRequest, Writable, runVars,
      roundVars, callVars, LedgerCovers, Outstanding, Live, InFlight,
      EvidenceFirst, ReportInv
  <1>5. PassInv' /\ ConfirmedInv'
    BY DEF IInv, TypeOK, WriteJob, ChangeRequest, Writable, runVars,
      roundVars, callVars, OrdinalsInv, ObjectsInv, Live, LedgerCovers,
      Outstanding, InFlight, PassInv, NothingSeen, Markers, ConfirmedInv
  <1> QED
    BY <1>2, <1>3, <1>4, <1>5 DEF IInv

\* A Job that lands belongs to a pending request, which no pass strikes.
LEMMA JobLandsKeeps ==
  ASSUME IInv, NEW r \in Requests, JobLands(r)
  PROVE  IInv'
  <1> USE DEF IInv, TypeOK, JobLands, MayLand, runVars, roundVars,
      callVars
  <1>1. TypeOK' /\ OrdinalsInv' /\ ObjectsInv' /\ EvidenceFirst' /\ ReportInv'
    BY DEF OrdinalsInv, ObjectsInv, Live, EvidenceFirst, ReportInv
  <1>2. LedgerCovers'
    BY DEF LedgerCovers, Outstanding, Live, InFlight, OrdinalsInv
  <1>3. PassInv'
    BY DEF PassInv, NothingSeen, Markers, OrdinalsInv, ObjectsInv, Live,
      LedgerCovers, Outstanding, InFlight
  <1>4. ConfirmedInv'
    BY DEF ConfirmedInv, Outstanding, Live, OrdinalsInv
  <1> QED
    BY <1>1, <1>2, <1>3, <1>4

\* A request answered AlreadyExists makes nothing.
LEMMA JobExistsKeeps ==
  ASSUME IInv, NEW r \in Requests, JobExists(r)
  PROVE  IInv'
  BY DEF IInv, TypeOK, JobExists, ChangeRequest, runVars, roundVars, callVars,
         OrdinalsInv, ObjectsInv, Live, LedgerCovers, Outstanding, InFlight,
         EvidenceFirst, PassInv, NothingSeen, Markers, ConfirmedInv, ReportInv

\* A request that dies makes nothing.
LEMMA RequestDiesKeeps ==
  ASSUME IInv, NEW r \in Requests, RequestDies(r)
  PROVE  IInv'
  BY DEF IInv, TypeOK, RequestDies, runVars, roundVars, callVars, OrdinalsInv,
         ObjectsInv, Live, LedgerCovers, Outstanding, InFlight, EvidenceFirst,
         PassInv, NothingSeen, Markers, ConfirmedInv, ReportInv

\* A lifetime ends only after the API server is done with the request.
LEMMA LifetimeEndsKeeps ==
  ASSUME IInv, NEW r \in Requests, LifetimeEnds(r)
  PROVE  IInv'
  BY DEF IInv, TypeOK, LifetimeEnds, runVars, roundVars, callVars,
         backendVars, OrdinalsInv, ObjectsInv, Live, LedgerCovers,
         Outstanding, InFlight, EvidenceFirst, PassInv, NothingSeen, Markers,
         ConfirmedInv, ReportInv
-----------------------------------------------------------------------------
\* The run starts with nothing issued and nothing on the backend.
LEMMA InitIInv == Init => IInv
  <1> SUFFICES ASSUME Init PROVE IInv
    OBVIOUS
  <1> USE DEF Init
  <1>a. issued \in 0 .. MaxRequests /\ rounds \in 0 .. MaxRounds
    OBVIOUS
  <1>b. request \in [Requests -> RequestStates]
    OBVIOUS
  <1>1. TypeOK
    BY <1>a, <1>b DEF TypeOK
  <1>2. OrdinalsInv
    BY DEF OrdinalsInv
  <1>3. ObjectsInv /\ LedgerCovers /\ EvidenceFirst
    BY DEF ObjectsInv, LedgerCovers, EvidenceFirst, Live, Outstanding, InFlight
  <1>4. PassInv /\ ConfirmedInv /\ ReportInv
    BY DEF PassInv, ConfirmedInv, ReportInv, NothingSeen, Markers
  <1> QED
    BY <1>1, <1>2, <1>3, <1>4 DEF IInv

\* A step that changes nothing keeps the invariant.
LEMMA StutterKeeps ==
  ASSUME IInv, UNCHANGED vars
  PROVE  IInv'
  <1> USE DEF vars, runVars, roundVars, callVars, backendVars
  <1>1. TypeOK' /\ OrdinalsInv' /\ ObjectsInv' /\ LedgerCovers'
    BY DEF IInv, TypeOK, OrdinalsInv, ObjectsInv, LedgerCovers, Outstanding,
           Live, InFlight
  <1>2. EvidenceFirst' /\ PassInv' /\ ConfirmedInv' /\ ReportInv'
    BY DEF IInv, EvidenceFirst, PassInv, NothingSeen, Markers, ConfirmedInv,
           ReportInv, Outstanding, Live
  <1> QED
    BY <1>1, <1>2 DEF IInv

\* Every step of the run, of a cleanup Activity, of the API server and of
\* the Job controller preserves the invariant.
LEMMA NextKeeps ==
  ASSUME IInv, [Next]_vars
  PROVE  IInv'
  <1>1. CASE CreateStep
    BY <1>1, IssueCreateKeeps, CreateSucceedsKeeps, CreateNotCreatedKeeps,
       CreateRefusedKeeps, CreateUnresolvedKeeps, RunPathEndsKeeps
       DEF CreateStep
  <1>2. CASE BeginPass
    BY <1>2, BeginPassKeeps
  <1>3. CASE CallStep
    BY <1>3, GetJobKeeps, ListPodsKeeps, ObserveReturnsKeeps, ObserveAgainKeeps,
       ObserveFailsKeeps, CallRestartsKeeps, DeleteReportsKeeps, DeleteStopsKeeps,
       DeleteSecretKeeps, DeleteConfirmsKeeps, DeleteFailsKeeps
       DEF CallStep
  <1>4. CASE CloseStep
    BY <1>4, CloseAcceptedKeeps, CloseRefusedKeeps, ReconcileRoundKeeps,
       ReconcileGivesUpKeeps
       DEF CloseStep
  <1>5. CASE BackendStep
    BY <1>5, PodStartsKeeps, JobRemovedKeeps, JobTakenAwayKeeps, PodGoneKeeps,
       ApplyDeleteKeeps
       DEF BackendStep
  <1>6. ASSUME NEW r \in Requests, RequestStep(r) PROVE IInv'
    BY <1>6, WriteSecretKeeps, SecretLandsKeeps, WriteJobKeeps, JobLandsKeeps,
       JobExistsKeeps, RequestDiesKeeps, LifetimeEndsKeeps
       DEF RequestStep
  <1>7. CASE Ended \/ UNCHANGED vars
    BY <1>7, StutterKeeps DEF Ended
  <1> QED
    BY <1>1, <1>2, <1>3, <1>4, <1>5, <1>6, <1>7 DEF Next

\* The inductive invariant holds in every state of a run.
THEOREM Invariance == Spec => []IInv
  <1>1. Init => IInv
    BY InitIInv
  <1>2. IInv /\ [Next]_vars => IInv'
    BY NextKeeps
  <1> QED
    BY <1>1, <1>2, PTL DEF Spec

\* Every variable keeps its type: no ordinal is issued beyond the retry bound
\* of createJob.
THEOREM TypeCorrect == Spec => []TypeOK
  <1>1. IInv => TypeOK
    BY DEF IInv
  <1> QED
    BY <1>1, Invariance, PTL

\* A round of cleanupRound that returns true leaves no Job, no Pod, no Secret
\* and no create request that could still bring one back.
THEOREM CompleteStops == Spec => []CompleteMeansStopped
  <1>1. IInv => CompleteMeansStopped
    BY DEF IInv, ConfirmedInv, CompleteMeansStopped
  <1> QED
    BY <1>1, Invariance, PTL

\* createLedger covers everything on the backend that was not recorded.
THEOREM LedgerComplete == Spec => []LedgerCovers
  <1>1. IInv => LedgerCovers
    BY DEF IInv
  <1> QED
    BY <1>1, Invariance, PTL

\* DeleteJob never asks to delete, and the API server never marks, a Job the
\* run's history does not name.
THEOREM EvidencePrecedesDelete == Spec => []EvidenceFirst
  <1>1. IInv => EvidenceFirst
    BY DEF IInv
  <1> QED
    BY <1>1, Invariance, PTL

-----------------------------------------------------------------------------
\* The actions that strike a request from the ledger.
Strikes == CreateSucceeds \/ ObserveReturns \/ DeleteReports \/ DeleteConfirms

\* Every other step leaves the ledger alone or adds to it.
LEMMA OthersKeepLedger ==
  ASSUME [Next]_vars, ~Strikes
  PROVE  unaccounted \subseteq unaccounted'
  <1> USE DEF vars, runVars
  <1>1. CASE CreateStep
    BY <1>1 DEF Strikes, CreateStep, IssueCreate, CreateNotCreated,
       CreateRefused, CreateUnresolved, RunPathEnds
  <1>2. CASE BeginPass
    BY <1>2 DEF BeginPass
  <1>3. CASE CallStep
    BY <1>3 DEF Strikes, CallStep, GetJob, ListPods, ObserveAgain, ObserveFails,
       CallRestarts, DeleteStops, DeleteSecret, DeleteFails
  <1>4. CASE CloseStep
    BY <1>4 DEF CloseStep, CloseAccepted, CloseRefused, ReconcileRound,
       ReconcileGivesUp
  <1>5. CASE BackendStep
    BY <1>5 DEF BackendStep, PodStarts, JobRemoved, JobTakenAway, PodGone,
       ApplyDelete
  <1>6. ASSUME NEW r \in Requests, RequestStep(r)
        PROVE  unaccounted \subseteq unaccounted'
    BY <1>6 DEF RequestStep, WriteSecret, SecretLands, WriteJob, JobLands,
       JobExists, RequestDies, LifetimeEnds
  <1>7. CASE Ended \/ UNCHANGED vars
    BY <1>7 DEF Ended
  <1> QED
    BY <1>1, <1>2, <1>3, <1>4, <1>5, <1>6, <1>7 DEF Next

\* A request cleanupRound or createJob strikes from the ledger was recorded,
\* or has no object and can get none.
THEOREM StrikesRest == Spec => StruckOnEvidence
  <1> DEFINE Rests ==
        \A r \in unaccounted \ unaccounted' :
           r \in witnessed' \/ r \notin Outstanding \cup Live
  <1>1. ASSUME IInv, [Next]_vars PROVE [Rests]_vars
    <2>1. CASE CreateSucceeds
      BY <2>1 DEF CreateSucceeds
    <2>2. CASE ObserveReturns
      BY <2>2 DEF ObserveReturns
    <2>3. CASE DeleteReports
      BY <2>3 DEF DeleteReports, AfterDelete
    <2>4. CASE DeleteConfirms
      <3>1. ASSUME NEW r \in unaccounted \ unaccounted'
            PROVE  r \in over /\ r \in expired
        BY <1>1, <2>4, <3>1 DEF DeleteConfirms, AfterDelete, IInv, PassInv
      <3>2. ASSUME NEW r \in unaccounted \ unaccounted'
            PROVE  r \notin Outstanding
        BY <1>1, <3>1 DEF IInv, ObjectsInv, Outstanding
      <3>3. ASSUME NEW r \in unaccounted \ unaccounted'
            PROVE  r \notin Live
        BY <1>1, <2>4, <3>1 DEF DeleteConfirms, IInv, PassInv, TypeOK,
           NothingSeen, Markers, Live
      <3> QED
        BY <3>2, <3>3
    <2>5. CASE ~Strikes
      BY <1>1, <2>5, OthersKeepLedger
    <2> QED
      BY <2>1, <2>2, <2>3, <2>4, <2>5 DEF Strikes
  <1> QED
    BY <1>1, Invariance, PTL DEF Spec, StruckOnEvidence

-----------------------------------------------------------------------------
\* A step that touches neither the requests nor the objects nor the report is
\* a stutter of the obligation.
LEMMA OthersStutter ==
  ASSUME UNCHANGED <<issued, request, job, pods, reported>>
  PROVE  UNCHANGED Obligation!vars
  BY DEF Obligation!vars, Outstanding, Live

\* A request that stops being pending without an object is resolved.
LEMMA ResolveMaps ==
  ASSUME IInv, NEW r \in Requests, r <= issued,
         request' = [request EXCEPT ![r] = "void"],
         UNCHANGED <<issued, job, pods, reported>>
  PROVE  [Obligation!Next]_(Obligation!vars)
  <1> USE DEF IInv, TypeOK, Outstanding, Live
  <1>1. UNCHANGED <<Live, reported>>
    OBVIOUS
  <1>2. CASE request[r] \in Pending
    <2>1. r \in Outstanding /\ Outstanding' = Outstanding \ {r}
      BY <1>2
    <2> QED
      BY <1>1, <2>1 DEF Obligation!Next, Obligation!Resolve
  <1>3. CASE request[r] \notin Pending
    <2>1. Outstanding' = Outstanding
      BY <1>3
    <2> QED
      BY <1>1, <2>1 DEF Obligation!vars
  <1> QED
    BY <1>2, <1>3

\* The steps of the run between PrepareLaunch and its first cleanup round.
LEMMA CreateMaps ==
  ASSUME IInv, CreateStep
  PROVE  [Obligation!Next]_(Obligation!vars)
  <1>1. CASE IssueCreate
    <2>1. reported = "none" /\ issued + 1 \in Requests
      BY <1>1 DEF IssueCreate, IInv, ReportInv, OrdinalsInv, TypeOK
    <2>2. Outstanding' = Outstanding \cup {issued + 1}
      BY <1>1 DEF IssueCreate, IInv, OrdinalsInv, TypeOK, Outstanding,
         backendVars
    <2>3. UNCHANGED <<Live, reported>>
      BY <1>1 DEF IssueCreate, Live, backendVars
    <2> QED
      BY <2>1, <2>2, <2>3 DEF Obligation!Next, Obligation!Issue
  <1>2. CASE CreateSucceeds
    <2>1. issued \in Requests
      BY <1>2 DEF CreateSucceeds, IInv, OrdinalsInv
    <2>2. CASE request[issued] = "unsent"
      <3>1. request' = [request EXCEPT ![issued] = "void"]
        BY <1>2, <2>2 DEF CreateSucceeds
      <3>2. UNCHANGED <<issued, job, pods, reported>>
        BY <1>2 DEF CreateSucceeds
      <3>3. issued <= issued
        BY <2>1
      <3> QED
        BY <2>1, <3>1, <3>2, <3>3, ResolveMaps
    <2>3. CASE request[issued] # "unsent"
      <3>1. request' = request
        BY <1>2, <2>1, <2>3 DEF CreateSucceeds, IInv, TypeOK
      <3> QED
        BY <1>2, <3>1, OthersStutter DEF CreateSucceeds
    <2> QED
      BY <2>2, <2>3
  <1>3. CASE CreateNotCreated \/ CreateRefused
    BY <1>3, ResolveMaps DEF CreateNotCreated, CreateRefused, IInv, OrdinalsInv
  <1>4. CASE CreateUnresolved \/ RunPathEnds
    BY <1>4, OthersStutter DEF CreateUnresolved, RunPathEnds, backendVars
  <1> QED
    BY <1>1, <1>2, <1>3, <1>4 DEF CreateStep

\* The steps of the closes: only an accepted one tells Control anything.
LEMMA CloseMaps ==
  ASSUME IInv, CloseStep
  PROVE  [Obligation!Next]_(Obligation!vars)
  <1>1. CASE CloseAccepted
    <2>1. UNCHANGED <<Outstanding, Live>> /\ reported' = cleanup
      BY <1>1 DEF CloseAccepted, Outstanding, Live, backendVars
    <2>2. CASE cleanup = "complete"
      <3>1. Outstanding = {} /\ Live = {}
        BY <2>2 DEF IInv, ConfirmedInv
      <3> QED
        BY <2>1, <2>2, <3>1 DEF Obligation!Next, Obligation!TellComplete
    <2>3. CASE cleanup = "unknown"
      <3>1. reported = "none"
        BY <1>1, <2>3 DEF CloseAccepted, IInv, ReportInv
      <3> QED
        BY <2>1, <2>3, <3>1 DEF Obligation!Next, Obligation!TellUnknown
    <2> QED
      BY <1>1, <2>2, <2>3 DEF CloseAccepted, IInv, TypeOK, ReportInv
  <1>2. CASE CloseRefused \/ ReconcileRound \/ ReconcileGivesUp
    BY <1>2, OthersStutter DEF CloseRefused, ReconcileRound, ReconcileGivesUp,
       backendVars
  <1> QED
    BY <1>1, <1>2 DEF CloseStep

\* The Job controller: objects only go.
LEMMA BackendMaps ==
  ASSUME IInv, BackendStep
  PROVE  [Obligation!Next]_(Obligation!vars)
  <1> USE DEF IInv, TypeOK, Live
  <1>1. CASE PodStarts
    <2>1. Live' = Live /\ UNCHANGED <<Outstanding, reported>>
      BY <1>1 DEF PodStarts, Outstanding, runVars
    <2> QED
      BY <2>1 DEF Obligation!vars
  <1>2. CASE JobRemoved
    <2>1. job \in Requests /\ Live' = Live \ {job}
      BY <1>2 DEF JobRemoved, ObjectsInv
    <2>2. UNCHANGED <<Outstanding, reported>>
      BY <1>2 DEF JobRemoved, Outstanding, runVars
    <2> QED
      BY <2>1, <2>2 DEF Obligation!Next, Obligation!Stop
  <1>3. CASE JobTakenAway
    <2>1. job \in Requests /\ (Live' = Live \ {job} \/ Live' = Live)
      BY <1>3 DEF JobTakenAway
    <2>2. UNCHANGED <<Outstanding, reported>>
      BY <1>3 DEF JobTakenAway, Outstanding, runVars
    <2> QED
      BY <2>1, <2>2 DEF Obligation!Next, Obligation!Stop, Obligation!vars
  <1>4. ASSUME NEW r \in Requests, PodGone(r)
        PROVE  [Obligation!Next]_(Obligation!vars)
    <2>1. Live' = Live \ {r} \/ Live' = Live
      BY <1>4 DEF PodGone
    <2>2. UNCHANGED <<Outstanding, reported>>
      BY <1>4 DEF PodGone, Outstanding, runVars
    <2> QED
      BY <2>1, <2>2 DEF Obligation!Next, Obligation!Stop, Obligation!vars
  <1>5. ASSUME NEW r \in Requests, ApplyDelete(r)
        PROVE  [Obligation!Next]_(Obligation!vars)
    BY <1>5, OthersStutter DEF ApplyDelete, runVars
  <1> QED
    BY <1>1, <1>2, <1>3, <1>4, <1>5 DEF BackendStep

\* The life of a create request at the API server.
LEMMA RequestMaps ==
  ASSUME IInv, NEW r \in Requests, RequestStep(r)
  PROVE  [Obligation!Next]_(Obligation!vars)
  <1> USE DEF IInv, TypeOK, ChangeRequest, runVars
  <1>1. CASE WriteSecret(r) \/ SecretLands(r) \/ WriteJob(r)
    <2>1. UNCHANGED <<Outstanding, Live, reported>>
      BY <1>1 DEF WriteSecret, SecretLands, WriteJob, Outstanding, Live
    <2> QED
      BY <2>1 DEF Obligation!vars
  <1>2. CASE JobLands(r)
    <2>1. r \in Outstanding /\ Outstanding' = Outstanding \ {r}
      BY <1>2 DEF JobLands, MayLand, OrdinalsInv, Outstanding
    <2>2. Live' = Live \cup {r} /\ reported' = reported
      BY <1>2 DEF JobLands, MayLand, Live
    <2> QED
      BY <2>1, <2>2 DEF Obligation!Next, Obligation!Land
  <1>3. CASE JobExists(r)
    <2>1. r \in Outstanding /\ Outstanding' = Outstanding \ {r}
      BY <1>3 DEF JobExists, OrdinalsInv, Outstanding
    <2>2. UNCHANGED <<Live, reported>>
      BY <1>3 DEF JobExists, Live
    <2> QED
      BY <2>1, <2>2 DEF Obligation!Next, Obligation!Resolve
  <1>4. CASE RequestDies(r)
    <2>1. r <= issued
      BY <1>4 DEF RequestDies, OrdinalsInv
    <2> QED
      BY <1>4, <2>1, ResolveMaps DEF RequestDies
  <1>5. CASE LifetimeEnds(r)
    BY <1>5, OthersStutter DEF LifetimeEnds, backendVars
  <1> QED
    BY <1>1, <1>2, <1>3, <1>4, <1>5 DEF RequestStep

\* A run of LocalCheck keeps the promise of LaunchObligation: what it tells
\* Control about the launch is true whenever it says complete.
THEOREM Refinement == Spec => KeepsObligation
  <1>1. Init => Obligation!Init
    <2> SUFFICES ASSUME Init PROVE Obligation!Init
      OBVIOUS
    <2>1. Outstanding = {} /\ Live = {} /\ reported = "none"
      BY DEF Init, Outstanding, Live
    <2> QED
      BY <2>1 DEF Obligation!Init
  <1>2. ASSUME IInv, [Next]_vars PROVE [Obligation!Next]_(Obligation!vars)
    <2>1. CASE BeginPass \/ CallStep
      BY <2>1, OthersStutter DEF BeginPass, CallStep, GetJob, ListPods,
         ObserveReturns, ObserveAgain, ObserveFails, CallRestarts,
         DeleteReports, DeleteStops, DeleteSecret, DeleteConfirms, DeleteFails,
         runVars, backendVars
    <2>2. CASE Ended \/ UNCHANGED vars
      BY <2>2, OthersStutter DEF Ended, vars, runVars, backendVars
    <2>3. CASE CreateStep
      BY <1>2, <2>3, CreateMaps
    <2>4. CASE CloseStep
      BY <1>2, <2>4, CloseMaps
    <2>5. CASE BackendStep
      BY <1>2, <2>5, BackendMaps
    <2>6. ASSUME NEW r \in Requests, RequestStep(r)
          PROVE  [Obligation!Next]_(Obligation!vars)
      BY <1>2, <2>6, RequestMaps
    <2> QED
      BY <1>2, <2>1, <2>2, <2>3, <2>4, <2>5, <2>6 DEF Next
  <1> QED
    BY <1>1, <1>2, Invariance, PTL DEF Spec, KeepsObligation, Obligation!Spec

=============================================================================
