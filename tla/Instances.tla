------------------------------ MODULE Instances ------------------------------
(***************************************************************************)
(* The Pods of one launch and which of them owns its result: the           *)
(* observation of the Job (src/internal/adapters/kubernetes/launcher.go:   *)
(* ObserveJob, AwaitOwner, podsInOwnerOrder) and the registration of what  *)
(* it reports with Control (src/internal/workflows/localcheck.go:          *)
(* LocalCheck; generation.go: runJobStep).  AttemptClose runs it.          *)
(*                                                                         *)
(* One look is two reads, the Job and then the Pods under the launch key;  *)
(* Pods appear, end and vanish in between.  Under the key there may be     *)
(* Pods of another owner (duplicates).                                     *)
(*                                                                         *)
(* Simplifications: a Pod whose image cannot be pulled is "failed"; a read *)
(* that is repeated on the next tick does not move; the phase Control      *)
(* records of an instance is left out.                                     *)
(***************************************************************************)
EXTENDS Naturals, Sequences, FiniteSets

CONSTANTS
  Own,    \* the Pods the launch's Job may have
  Others  \* the Pods another owner may have under the launch key

ASSUME PodsAssumption == IsFiniteSet(Own) /\ IsFiniteSet(Others) /\ Own \cap Others = {}

Pods == Own \cup Others

VARIABLES
  job,         \* the Job: none, active, or the reason of its terminal condition
  phase,       \* the Pods
  reading,     \* the Job as the look under way read it; none between looks
  seen,        \* the JobObservation the run was answered
  place,       \* its Pods registered so far
  current,     \* the answer to the first registration: InstanceRef.Current
  registered   \* Control: the instances, in the order of registration

observationVars == <<reading, seen, place, current>>
instanceVars == <<job, phase, observationVars, registered>>

Phases == {"absent", "running", "succeeded", "failed", "gone"}
Reasons == {"active", "ended", "DeadlineExceeded"}
Jobs == Reasons \cup {"none"}
Observation == [reason : Reasons, pods : Seq(Pods), owner : Phases]
Nothing == [reason |-> "active", pods |-> <<>>, owner |-> "absent"]

InstancesTypeOK ==
  /\ job \in Jobs /\ reading \in Jobs
  /\ phase \in [Pods -> Phases]
  /\ seen \in Observation
  /\ place \in 0 .. Len(seen.pods)
  /\ current \in BOOLEAN
  /\ registered \in Seq(Pods)

InstancesInit ==
  /\ job = "none" /\ phase = [p \in Pods |-> "absent"]
  /\ reading = "none" /\ seen = Nothing /\ place = 0 /\ current = FALSE
  /\ registered = <<>>

-----------------------------------------------------------------------------
(***************************************************************************)
(* The cluster (external).                                                 *)
(***************************************************************************)
PodGoes(p, to) ==
  /\ phase' = [phase EXCEPT ![p] = to]
  /\ UNCHANGED <<job, observationVars, registered>>

\* The Job creates its Pod, another owner one of its own.
PodAppears(p) ==
  /\ phase[p] = "absent" /\ (p \in Own => job = "active")
  /\ PodGoes(p, "running")

PodEnds(p) ==
  /\ phase[p] = "running"
  /\ \E to \in {"succeeded", "failed"} : PodGoes(p, to)

\* Evicted, lost with its node, or deleted by somebody.
PodVanishes(p) ==
  /\ phase[p] \in {"running", "succeeded", "failed"}
  /\ PodGoes(p, "gone")

\* Complete or failed after what became of its Pods (no retries), or failed
\* at its own deadline.
JobEnds ==
  /\ job = "active"
  /\ \/ \E p \in Own : phase[p] \in {"succeeded", "failed", "gone"} /\ job' = "ended"
     \/ job' = "DeadlineExceeded"
  /\ UNCHANGED <<phase, observationVars, registered>>

ClusterStep ==
  \/ \E p \in Pods : PodAppears(p) \/ PodEnds(p) \/ PodVanishes(p)
  \/ JobEnds

-----------------------------------------------------------------------------
(***************************************************************************)
(* The look of the observer.                                               *)
(***************************************************************************)
Listed == {p \in Pods : phase[p] \notin {"absent", "gone"}}

Orders == {s \in [1 .. Cardinality(Listed) -> Listed] :
             \A i, j \in DOMAIN s : i < j => s[i] # s[j]}

\* The Job's own Pods first, each group in creation order; timestamps have a
\* resolution of one second, so any order of a group may be the one listed.
OwnerOrders ==
  {s \in Orders : \A i, j \in DOMAIN s : i < j /\ s[j] \in Own => s[i] \in Own}

Owned(s) == s # <<>> /\ s[1] \in Own
OwnerEnded(s) == Owned(s) /\ phase[s[1]] \in {"succeeded", "failed"}

ReadJob ==
  /\ reading = "none"
  /\ reading' = job
  /\ UNCHANGED <<job, phase, seen, place, current, registered>>

\* Nothing that ends this observation: look again on the next tick.
LookAgain(enough) ==
  /\ reading = "active"
  /\ \E s \in OwnerOrders : ~enough[s]
  /\ reading' = "none"
  /\ UNCHANGED <<job, phase, seen, place, current, registered>>

\* The observation is over: by the Job's condition, by the owner, or by the
\* deadline, which is reported only if neither has ended it.
Look(enough) ==
  /\ reading # "none"
  /\ \E s \in OwnerOrders :
       seen' = [reason |-> IF reading = "active" /\ ~enough[s]
                             THEN "DeadlineExceeded" ELSE reading,
                pods |-> s,
                owner |-> IF s = <<>> THEN "absent" ELSE phase[s[1]]]
  /\ reading' = "none" /\ place' = 0 /\ current' = FALSE
  /\ UNCHANGED <<job, phase, registered>>

\* AwaitOwner ends on the owner, whatever its phase; ObserveJob on its end.
UntilOwned == [s \in OwnerOrders |-> Owned(s)]
UntilEnded == [s \in OwnerOrders |-> OwnerEnded(s)]

-----------------------------------------------------------------------------
(***************************************************************************)
(* Registration.  Control answers a known Pod with its instance; the first *)
(* instance of a launch is the current one.                                *)
(***************************************************************************)
Instances(p) ==
  IF \E i \in DOMAIN registered : registered[i] = p
    THEN registered ELSE Append(registered, p)

\* The owner of a running Job, before its end is observed.
RegisterOwner ==
  /\ registered' = Instances(seen.pods[1])
  /\ UNCHANGED <<job, phase, observationVars>>

\* Every Pod of the observation, in its order.
RegisterNext ==
  /\ place < Len(seen.pods)
  /\ registered' = Instances(seen.pods[place + 1])
  /\ place' = place + 1
  /\ current' = IF place = 0 THEN registered'[1] = seen.pods[1] ELSE current
  /\ UNCHANGED <<job, phase, reading, seen>>

\* VerifyResult: only an owner that exited well may be certified, and never
\* past the deadline.
MayCertify == seen.reason # "DeadlineExceeded" /\ seen.owner = "succeeded"
=============================================================================
