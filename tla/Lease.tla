------------------------------- MODULE Lease -------------------------------
(***************************************************************************)
(* The source lease of a Generation (src/internal/workflows/generation.go: *)
(* acquireLease, superviseLease, releaseLease) with the lease port as the  *)
(* file-backed double implements it (src/internal/adapters/pagix/double.go)*)
(* another owner of the same subject, and Control's lease record.          *)
(*                                                                         *)
(* A lease call is an Activity that Temporal retries; an execution it gave *)
(* up may still reach the port, so a call that was made may be handled any *)
(* number of times until it is over, and an answer may be old when the     *)
(* Workflow acts on it.                                                    *)
(*                                                                         *)
(* Simplifications: one clock for the worker and the port; a lease identity*)
(* is its fence, 0 when the run has none; faults the double injects are    *)
(* lost answers or Revoke; what the run does with the lease (Generation)   *)
(* is the place "work", its cleanup after that is "ending".                *)
(***************************************************************************)
EXTENDS Integers

CONSTANTS
  TTL,            \* LifecycleBounds.LeaseTTL
  Lead,           \* LifecycleBounds.LeaseRenewLead
  PollBound,      \* Bounds.SettlePollBound
  MaxTime,        \* model bound: the clock
  MaxOccurrence,  \* model bound: occurrences of this run, the release included
  MaxFence        \* model bound: leases of the subject

ASSUME TimesAssumption == TTL \in Nat /\ Lead \in Nat /\ 0 < Lead /\ Lead < TTL
ASSUME BoundsAssumption ==
  /\ PollBound \in Nat /\ MaxTime \in Nat
  /\ MaxOccurrence \in Nat \ {0, 1} /\ MaxFence \in Nat \ {0}

Times == 0 .. MaxTime + TTL
Occurrences == 1 .. MaxOccurrence
Fences == 0 .. MaxFence
Result ==
  [state : {"held", "lost", "released", "unknown"}, fence : Fences, expiry : Times]
Unknown == [state |-> "unknown", fence |-> 0, expiry |-> 0]
Lost == [state |-> "lost", fence |-> 0, expiry |-> 0]
Released == [state |-> "released", fence |-> 0, expiry |-> 0]

VARIABLES
  now,         \* the clock
  run,         \* what the main coroutine waits for
  sup,         \* what the supervisor waits for
  occurrence,  \* generationState.occurrence
  fence,       \* generationState.lease: its fence, 0 for none
  known,       \* generationState.lease.ExpiresAt
  fenced,      \* generationState.fenced
  wake,        \* the pause after an unknown renewal ends, 0 without one
  polls,       \* releaseLease: polls made
  calls,       \* lease calls that may still reach the port
  reply,       \* the last answer of the port to the call that is awaited
  port,        \* the port's record of the subject
  renewals,    \* the port: the expiry each occurrence of the lease produced
  record,      \* Control: the lease record
  revoked      \* history: the port took back a lease of this run

runVars == <<run, sup, occurrence, fence, known, fenced, wake, polls>>
portCallVars == <<calls, reply>>
portVars == <<port, renewals>>
leaseVars == <<now, runVars, portCallVars, portVars, record, revoked>>

Calls ==
  [kind : {"acquire", "renew", "release"}, occurrence : Occurrences, fence : Fences]

LeaseTypeOK ==
  /\ now \in 0 .. MaxTime
  /\ run \in {"start", "acquiring", "acquire query", "recording", "work",
              "ending", "releasing", "polling", "release query",
              "release recording", "settling", "ended"}
  /\ sup \in {"off", "sleep", "renewing", "querying", "recording", "pausing",
              "reporting"}
  /\ occurrence \in 0 .. MaxOccurrence
  /\ fence \in Fences /\ known \in Times /\ wake \in Times
  /\ fenced \in BOOLEAN /\ polls \in 0 .. PollBound
  /\ calls \in SUBSET Calls
  /\ reply \in Result
  /\ port \in [fence : Fences, owner : {"none", "run", "other"},
               expiry : Times, released : BOOLEAN]
  /\ renewals \in [Occurrences -> Times]
  /\ record \in [state : {"none", "held", "lost", "released"},
                 fence : Fences, expiry : Times]
  /\ revoked \in BOOLEAN

NoRenewals == [o \in Occurrences |-> 0]

\* A first run finds no lease.  A restarted run finds its lease in Control's
\* record; the renewal after it may have reached the port unrecorded.
LeaseInit ==
  /\ now = 0 /\ run = "start" /\ sup = "off" /\ occurrence = 0
  /\ fence = 0 /\ known = 0 /\ fenced = FALSE /\ wake = 0 /\ polls = 0
  /\ calls = {} /\ reply = Unknown /\ revoked = FALSE
  /\ \/ /\ port = [fence |-> 0, owner |-> "none", expiry |-> 0, released |-> FALSE]
        /\ renewals = NoRenewals
        /\ record = [state |-> "none", fence |-> 0, expiry |-> 0]
     \/ \E e \in 1 .. TTL, r \in 0 .. TTL :
          /\ port = [fence |-> 1, owner |-> "run",
                     expiry |-> IF r > e THEN r ELSE e, released |-> FALSE]
          /\ r > 0 => r >= e
          /\ renewals = [o \in Occurrences |-> IF o = 2 THEN r ELSE 0]
          /\ record = [state |-> "held", fence |-> 1, expiry |-> e]

-----------------------------------------------------------------------------
(***************************************************************************)
(* The port (double.go: Acquire, Renew, Query, Release).                   *)
(***************************************************************************)
Held == ~port.released /\ port.expiry > now /\ port.owner # "none"

Holding == [state |-> "held", fence |-> port.fence, expiry |-> port.expiry]

\* A call was handled; the coroutine that awaits this call may hear of it.
Reply(call, result, awaited) ==
  reply' \in IF awaited THEN {result, reply} ELSE {reply}

\* The call the run or its supervisor waits for.
Awaited(call) ==
  \/ call.kind = "acquire" /\ run = "acquiring"
  \/ call.kind = "renew" /\ sup = "renewing" /\ call.occurrence = occurrence
  \/ call.kind = "release" /\ run = "releasing"

Acquire(call) ==
  /\ call.kind = "acquire"
  /\ \/ /\ Held /\ port.owner = "other"
        /\ Reply(call, Lost, Awaited(call))
        /\ UNCHANGED portVars
     \/ /\ Held /\ port.owner = "run"
        /\ Reply(call, Holding, Awaited(call))
        /\ UNCHANGED portVars
     \/ /\ ~Held /\ port.fence < MaxFence
        /\ port' = [fence |-> port.fence + 1, owner |-> "run",
                    expiry |-> now + TTL, released |-> FALSE]
        /\ renewals' = NoRenewals
        /\ Reply(call, [state |-> "held", fence |-> port.fence + 1,
                        expiry |-> now + TTL], Awaited(call))

\* Mutated form of Renew: the fence of the call is not compared.
RenewAnyFence(call) ==
  /\ call.kind = "renew"
  /\ \/ /\ port.released \/ port.expiry <= now
        /\ Reply(call, Lost, Awaited(call))
        /\ UNCHANGED portVars
     \/ /\ ~port.released /\ port.expiry > now
        /\ port' = [port EXCEPT !.expiry = now + TTL]
        /\ renewals' = [renewals EXCEPT ![call.occurrence] = now + TTL]
        /\ Reply(call, [state |-> "held", fence |-> call.fence,
                        expiry |-> now + TTL], Awaited(call))

\* A repeated occurrence answers the expiry it produced, also an old one.
Renew(call) ==
  /\ call.kind = "renew"
  /\ \/ /\ port.released \/ port.fence # call.fence
           \/ (renewals[call.occurrence] = 0 /\ port.expiry <= now)
        /\ Reply(call, Lost, Awaited(call))
        /\ UNCHANGED portVars
     \/ /\ ~port.released /\ port.fence = call.fence
        /\ renewals[call.occurrence] # 0
        /\ Reply(call, [state |-> "held", fence |-> call.fence,
                        expiry |-> renewals[call.occurrence]], Awaited(call))
        /\ UNCHANGED portVars
     \/ /\ ~port.released /\ port.fence = call.fence
        /\ renewals[call.occurrence] = 0 /\ port.expiry > now
        /\ port' = [port EXCEPT !.expiry = now + TTL]
        /\ renewals' = [renewals EXCEPT ![call.occurrence] = now + TTL]
        /\ Reply(call, [state |-> "held", fence |-> call.fence,
                        expiry |-> now + TTL], Awaited(call))

Release(call) ==
  /\ call.kind = "release"
  /\ \/ /\ port.fence # call.fence
        /\ Reply(call, Lost, Awaited(call))
        /\ UNCHANGED portVars
     \/ /\ port.fence = call.fence
        /\ port' = [port EXCEPT !.released = TRUE]
        /\ Reply(call, Released, Awaited(call))
        /\ UNCHANGED renewals

PortHandles(call) ==
  /\ call \in calls
  /\ Acquire(call) \/ Renew(call) \/ Release(call)
  /\ UNCHANGED <<now, runVars, calls, record, revoked>>

\* What a query of the run's lease answers now.
Queried == IF Held /\ port.fence = fence THEN Holding ELSE Lost

\* The last execution of a call is over.
CallEnds(call) ==
  /\ call \in calls
  /\ calls' = calls \ {call}
  /\ UNCHANGED <<now, runVars, reply, portVars, record, revoked>>

\* Another owner acquires the free subject.
OtherAcquires ==
  /\ ~Held /\ port.fence < MaxFence
  /\ port' = [fence |-> port.fence + 1, owner |-> "other",
              expiry |-> now + TTL, released |-> FALSE]
  /\ renewals' = NoRenewals
  /\ UNCHANGED <<now, runVars, portCallVars, record, revoked>>

\* The port ends the run's lease before its expiry.
Revoke ==
  /\ Held /\ port.owner = "run" /\ ~revoked
  /\ port' = [port EXCEPT !.released = TRUE]
  /\ revoked' = TRUE
  /\ UNCHANGED <<now, runVars, portCallVars, renewals, record>>

-----------------------------------------------------------------------------
(***************************************************************************)
(* acquireLease.                                                           *)
(***************************************************************************)
\* A lease Control has on record and that has not expired is taken over.
AdoptLease ==
  /\ run = "start" /\ record.state = "held" /\ record.expiry > now
  /\ fence' = record.fence /\ known' = record.expiry /\ occurrence' = 1
  /\ run' = "work" /\ sup' = "sleep"
  /\ UNCHANGED <<now, fenced, wake, polls, portCallVars, portVars, record, revoked>>

CallPort(kind, o) ==
  /\ calls' = calls \cup {[kind |-> kind, occurrence |-> o, fence |-> fence]}
  /\ reply' = Unknown

CallAcquire ==
  /\ run = "start" /\ ~(record.state = "held" /\ record.expiry > now)
  /\ occurrence' = 1 /\ CallPort("acquire", 1)
  /\ run' = "acquiring"
  /\ UNCHANGED <<now, sup, fence, known, fenced, wake, polls, portVars, record, revoked>>

RunGoes(place) ==
  /\ run' = place
  /\ UNCHANGED <<now, sup, occurrence, fence, known, fenced, wake, polls>>
  /\ UNCHANGED <<portVars, record, revoked>>

\* The answer, or none: an unknown answer is queried, an error ends the run.
AcquireAnswered ==
  /\ run = "acquiring"
  /\ \/ reply.state = "held" /\ RunGoes("recording") /\ UNCHANGED portCallVars
     \/ reply.state = "lost" /\ RunGoes("settling") /\ UNCHANGED portCallVars
     \/ RunGoes("acquire query") /\ reply' = Unknown /\ UNCHANGED calls
     \/ RunGoes("settling") /\ UNCHANGED portCallVars

\* The query names the lease by its identity, which the run does not have.
AcquireQueried ==
  /\ run = "acquire query"
  /\ reply' = Queried /\ UNCHANGED calls
  /\ RunGoes(IF Queried.state = "held" THEN "recording" ELSE "settling")

\* What recordLease has Control record of a lease that is held.
Recorded == [state |-> "held", fence |-> reply.fence, expiry |-> reply.expiry]

RecordHeld ==
  /\ record' = Recorded
  /\ fence' = reply.fence /\ known' = reply.expiry

AcquireRecorded ==
  /\ run = "recording"
  /\ RecordHeld
  /\ run' = "work" /\ sup' = "sleep"
  /\ UNCHANGED <<now, occurrence, fenced, wake, polls, portCallVars, portVars, revoked>>

\* Control refuses the record, or has it and its answer is lost.
AcquireRefused ==
  /\ run = "recording"
  /\ record' \in {record, Recorded}
  /\ run' = "settling"
  /\ UNCHANGED <<now, sup, occurrence, fence, known, fenced, wake, polls>>
  /\ UNCHANGED <<portCallVars, portVars, revoked>>

-----------------------------------------------------------------------------
(***************************************************************************)
(* superviseLease.                                                         *)
(***************************************************************************)
TimerDue ==
  run = "work" /\ \/ sup = "sleep" /\ now + Lead >= known
                  \/ sup = "pausing" /\ now >= wake

\* The renewal lead begins, or the pause is over: renew under the next
\* occurrence.  (The bound leaves one for the release.)
SupervisorWakes ==
  /\ TimerDue /\ occurrence + 1 < MaxOccurrence
  /\ occurrence' = occurrence + 1 /\ CallPort("renew", occurrence + 1)
  /\ sup' = "renewing" /\ wake' = 0
  /\ UNCHANGED <<now, run, fence, known, fenced, polls, portVars, record, revoked>>

SupervisorGoes(place) ==
  /\ sup' = place
  /\ UNCHANGED <<now, run, occurrence, fence, known, fenced, polls>>
  /\ UNCHANGED <<calls, portVars, record, revoked>>

\* fence(): new sends are over for good; then the loss is reported.
Fence ==
  /\ fenced' = TRUE /\ sup' = "reporting"
  /\ UNCHANGED <<now, run, occurrence, fence, known, wake, polls>>
  /\ UNCHANGED <<portCallVars, portVars, revoked>>

RenewAnswered ==
  /\ sup = "renewing"
  /\ \/ reply.state = "held" /\ SupervisorGoes("recording") /\ UNCHANGED <<reply, wake>>
     \/ reply.state = "lost" /\ Fence /\ UNCHANGED record
     \/ SupervisorGoes("querying") /\ reply' = Unknown /\ UNCHANGED wake

\* A query that is still awaited reaches the port.
QueryReaches ==
  /\ (sup = "querying" /\ run = "work") \/ run = "release query"
  /\ reply.state = "unknown"
  /\ reply' = Queried
  /\ UNCHANGED <<now, runVars, calls, portVars, record, revoked>>

\* Mutated form of RenewUnanswered: an unknown renewal counts as a renewal.
RenewUnansweredExtends ==
  /\ sup' = "sleep" /\ known' = now + TTL
  /\ UNCHANGED <<now, run, occurrence, fence, fenced, wake, polls>>
  /\ UNCHANGED <<portCallVars, portVars, record, revoked>>

\* Mutated form of RenewUnanswered: a renewal that stays unknown is tried
\* again, also after the expiry.
RenewUnansweredAgain ==
  /\ SupervisorGoes("pausing") /\ UNCHANGED reply
  /\ wake' = IF known - now < Lead \div 2 THEN known ELSE now + Lead \div 2

\* Unknown: the known expiry stands; once it has passed the run is fenced.
RenewUnanswered ==
  \/ now >= known /\ Fence /\ UNCHANGED record
  \/ /\ now < known
     /\ SupervisorGoes("pausing") /\ UNCHANGED reply
     /\ wake' = IF known - now < Lead \div 2 THEN known ELSE now + Lead \div 2

\* A renewal beyond the bound and its query are never answered.
RenewBeyondBound ==
  TimerDue /\ occurrence + 1 >= MaxOccurrence /\ RenewUnanswered

QueryAnswered ==
  /\ sup = "querying" /\ run = "work"
  /\ \/ reply.state = "held" /\ SupervisorGoes("recording") /\ UNCHANGED <<reply, wake>>
     \/ reply.state = "lost" /\ Fence /\ UNCHANGED record
     \/ RenewUnanswered

\* A query the end of the work interrupted, its expiry past: the answer stays
\* unknown and the run is fenced, before or after it asked for the release.
QuerySevered ==
  /\ sup = "querying" /\ run # "work"
  /\ Fence /\ UNCHANGED record

RenewRecorded ==
  /\ sup = "recording"
  /\ RecordHeld
  /\ sup' = "sleep"
  /\ UNCHANGED <<now, run, occurrence, fenced, wake, polls, portCallVars, portVars, revoked>>

\* Control refuses the record, or has it and its answer is lost.
RenewRefused == sup = "recording" /\ Fence /\ record' \in {record, Recorded}

\* The loss is recorded, or Control refuses the record.
LossReported ==
  /\ sup = "reporting"
  /\ \/ record' = [record EXCEPT !.state = "lost"]
     \/ UNCHANGED record
  /\ sup' = "off"
  /\ UNCHANGED <<now, run, occurrence, fence, known, fenced, wake, polls>>
  /\ UNCHANGED <<portCallVars, portVars, revoked>>

-----------------------------------------------------------------------------
(***************************************************************************)
(* The end of the run and releaseLease.                                    *)
(***************************************************************************)
\* The work is over or canceled and the supervisor with it; a report goes on, a
\* record on its way may still be made, a query is interrupted.
WorkEnds ==
  /\ run = "work" /\ run' = "ending"
  /\ sup' = IF sup = "reporting" \/ (sup = "querying" /\ now >= known)
            THEN sup ELSE "off"
  /\ record' \in {record} \cup (IF sup = "recording" THEN {Recorded} ELSE {})
  /\ reply' = Unknown /\ wake' = 0
  /\ UNCHANGED <<now, occurrence, fence, known, fenced, polls>>
  /\ UNCHANGED <<calls, portVars, revoked>>

\* A run that holds no lease, or lost it, has nothing to release.
CallRelease ==
  /\ run = "ending"
  /\ \/ fenced /\ RunGoes("settling") /\ UNCHANGED portCallVars
     \/ /\ ~fenced
        /\ occurrence' = occurrence + 1 /\ CallPort("release", occurrence + 1)
        /\ run' = "releasing"
        /\ UNCHANGED <<now, sup, fence, known, fenced, wake, polls>>
        /\ UNCHANGED <<portVars, record, revoked>>

\* An answer that is no evidence of the release is polled for.
ReleaseAnswered ==
  /\ run \in {"releasing", "release query"}
  /\ UNCHANGED portCallVars
  /\ \/ reply.state \in {"lost", "released"} /\ RunGoes("release recording")
     \/ RunGoes("polling")

ReleasePolled ==
  /\ run = "polling" /\ polls < PollBound
  /\ polls' = polls + 1 /\ run' = "release query" /\ reply' = Unknown
  /\ UNCHANGED <<now, sup, occurrence, fence, known, fenced, wake>>
  /\ UNCHANGED <<calls, portVars, record, revoked>>

\* The poll bound, or a history that is full (counted as the bound): the
\* lease is left to its expiry, nothing is recorded.
ReleaseLeft ==
  /\ run = "polling"
  /\ run' = "settling" /\ polls' = PollBound
  /\ UNCHANGED <<now, sup, occurrence, fence, known, fenced, wake>>
  /\ UNCHANGED <<portCallVars, portVars, record, revoked>>

\* Mutated form of ReleaseRecorded: no answer is recorded as a release.
ReleaseRecordedBlindly ==
  /\ run \in {"release recording", "polling"}
  /\ record' = [record EXCEPT !.state = "released", !.fence = fence]
  /\ run' = "settling"
  /\ UNCHANGED <<now, sup, occurrence, fence, known, fenced, wake, polls>>
  /\ UNCHANGED <<portCallVars, portVars, revoked>>

ReleaseRecorded ==
  /\ run = "release recording"
  /\ \/ record' = [record EXCEPT !.state = reply.state, !.fence = fence]
     \/ UNCHANGED record
  /\ run' = "settling"
  /\ UNCHANGED <<now, sup, occurrence, fence, known, fenced, wake, polls>>
  /\ UNCHANGED <<portCallVars, portVars, revoked>>

\* The operation is settled and the run closes; a report that was not
\* answered may or may not still be made.
RunSettled ==
  /\ run = "settling"
  /\ run' = "ended" /\ sup' \in {sup, "off"}
  /\ UNCHANGED <<now, occurrence, fence, known, fenced, wake, polls>>
  /\ UNCHANGED <<portCallVars, portVars, record, revoked>>

Tick ==
  /\ now < MaxTime
  /\ now' = now + 1
  /\ UNCHANGED <<runVars, portCallVars, portVars, record, revoked>>

Supervise ==
  \/ SupervisorWakes \/ RenewBeyondBound \/ RenewAnswered \/ QueryAnswered
  \/ QuerySevered \/ RenewRecorded \/ RenewRefused \/ LossReported

RunStep ==
  \/ AdoptLease \/ CallAcquire \/ AcquireAnswered \/ AcquireQueried
  \/ AcquireRecorded \/ AcquireRefused
  \/ CallRelease \/ ReleaseAnswered \/ ReleasePolled \/ ReleaseLeft
  \/ ReleaseRecorded \/ RunSettled

LeaseNext ==
  \/ RunStep \/ WorkEnds \/ Supervise \/ QueryReaches
  \/ \E call \in calls : PortHandles(call) \/ CallEnds(call)
  \/ OtherAcquires \/ Revoke \/ Tick

LeaseSpec == LeaseInit /\ [][LeaseNext]_leaseVars

\* Temporal runs both coroutines on, and a fence cancels the work; work that
\* nothing cancels need not end.
LeaseFairSpec ==
  /\ LeaseSpec
  /\ WF_leaseVars(RunStep) /\ WF_leaseVars(Supervise)
  /\ WF_leaseVars(fenced /\ WorkEnds)

-----------------------------------------------------------------------------
(***************************************************************************)
(* Properties                                                              *)
(***************************************************************************)
\* As long as the run works under a known expiry that has not passed, the
\* port grants it the lease at least that long and no other owner has it;
\* only a revocation upstream can end it earlier.
KnownIsHeld ==
  run \in {"work", "ending"} /\ now < known /\ ~revoked
    => /\ Held /\ port.owner = "run" /\ port.fence = fence
       /\ port.expiry >= known

\* Control's record is true: a lease it has as held is held until the run
\* releases it, a lease it has as released is.
RecordIsTrue ==
  /\ record.state = "held" /\ now < record.expiry /\ ~revoked
       /\ run \notin {"releasing", "polling", "release query",
                      "release recording", "settling", "ended"}
       => Held /\ port.fence = record.fence
  /\ record.state = "released" => port.fence # record.fence \/ port.released

\* Nothing the run has sent, however late it arrives, touches the lease of
\* another owner.
OthersLeaseStays ==
  [][Held /\ port.owner = "other" => port' = port /\ renewals' = renewals]_leaseVars

\* The run ends, whether or not the port ever answers: work that nothing else
\* ends goes on for good only under an expiry that has not passed, since the
\* supervisor notices every other one, however late, and fences.
ExpiredWorkEnds == <>(run = "ended") \/ <>[](run = "work" /\ now < known)

-----------------------------------------------------------------------------
(***************************************************************************)
(* The inductive invariant behind the safety properties.                   *)
(***************************************************************************)
\* The run has not asked for the release yet.
Unreleased ==
  run \in {"start", "acquiring", "acquire query", "recording", "work", "ending"}

\* Fence f is of a lease this run has or had: no other owner has it.
Mine(f) == f <= port.fence /\ (f = port.fence => port.owner # "other")

\* The port grants the run lease f until this expiry.
Granted(f, expiry) ==
  now < expiry /\ ~revoked
    => Held /\ port.owner = "run" /\ port.fence = f /\ port.expiry >= expiry

\* The lease with fence f is over by a release.
GivenBack(f) == port.fence # f \/ port.released

\* A renewal never shortens the lease, and a repeated one answers no expiry
\* the port does not grant.
PortInv ==
  /\ port.expiry <= now + TTL
  /\ \A o \in Occurrences : renewals[o] <= port.expiry
  /\ port.owner = "none" => port.expiry = 0

\* What may still reach the port is about the run's own leases, and a release
\* about the one it ends with.
CallsInv ==
  \A call \in calls :
    /\ call.kind # "acquire" => Mine(call.fence)
    /\ call.kind = "release" => call.fence = fence /\ ~Unreleased

\* What the run, an answer it has not acted on and Control's record say of a
\* lease is true, and stays so however late it is acted on.
BeliefInv ==
  /\ Mine(fence) /\ Mine(record.fence)
  /\ reply.state = "held" => Mine(reply.fence)
  /\ reply.state = "held" /\ Unreleased => Granted(reply.fence, reply.expiry)
  /\ reply.state = "released" => ~Unreleased /\ GivenBack(fence)
  /\ run \in {"work", "ending"} => Granted(fence, known)
  /\ record.state = "held" /\ Unreleased => Granted(record.fence, record.expiry)
  /\ record.state = "released" => GivenBack(record.fence)

\* The supervisor works while the run does; what is recorded was answered.
PlacesInv ==
  /\ sup \notin {"off", "reporting", "querying"} => run = "work"
  /\ run = "recording" \/ sup = "recording" => reply.state = "held"
  /\ run = "release recording" => reply.state \in {"lost", "released"}
  /\ Unreleased => occurrence < MaxOccurrence

LInv == LeaseTypeOK /\ PortInv /\ CallsInv /\ BeliefInv /\ PlacesInv
=============================================================================
