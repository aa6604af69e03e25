---------------------------- MODULE EffectPermit ----------------------------
(***************************************************************************)
(* One external mutation under its effect identity: the Activity executions*)
(* that ask for it (src/internal/activities: guarded of release.go,        *)
(* RegisterCandidate of lifecycle.go, SaveSource of preview.go), Control's *)
(* effect record and the upstream that performs it (both external).        *)
(*                                                                         *)
(* The first prepare of the command consumes the permit and its caller     *)
(* sends the mutation, once.  An Activity may die or be given up between   *)
(* any two steps; the next execution finds the permit consumed and asks    *)
(* the upstream about the original identity, while the first one may still *)
(* be running and its send still be on the way.                            *)
(*                                                                         *)
(* Simplifications: a conflict (SaveSource, ActivateRelease) is the outcome*)
(* "failed"; receipts, digests and references are left out, except that a  *)
(* guarded answer may fail its verification; attempt identities are their  *)
(* order.  An execution the Workflow gave up is not stopped here: its      *)
(* calls may still go out, a superset of what its expired context allows.  *)
(***************************************************************************)
EXTENDS Naturals

CONSTANT
  MaxAttempts  \* executions: retries and, for a publication, query rounds

ASSUME MaxAttemptsAssumption == MaxAttempts \in Nat \ {0}

Activities == {"guarded", "registration", "save"}
Attempts == 1 .. MaxAttempts
Settled == {"succeeded", "failed"}

VARIABLES
  activity,  \* which of the three Activities asks, fixed for the effect
  current,   \* the execution the Workflow waits for, 0 before the first
  at,        \* at[a]: the call execution a makes next
  seen,      \* seen[a]: the effect state its prepare answered
  answer,    \* answer[a]: what it will report to Control
  result,    \* the Workflow's view of the mutation
  effect,    \* Control: the state of the effect, "absent" before the prepare
  observed,  \* Control: accepted observations, <<source, outcome>>
  sends,     \* upstream: mutations sent under the identity
  flying,    \* upstream: sends neither handled nor lost
  outcome    \* upstream: what it did with the mutation

callVars == <<current, at, seen, answer, result>>
controlVars == <<effect, observed>>
upstreamVars == <<sends, flying, outcome>>
vars == <<activity, callVars, controlVars, upstreamVars>>

TypeOK ==
  /\ activity \in Activities
  /\ current \in 0 .. MaxAttempts
  /\ at \in [Attempts -> {"idle", "prepare", "send", "sending", "query",
                          "observe", "failed", "ended"}]
  /\ seen \in [Attempts -> {"none", "permitted", "unknown"} \cup Settled]
  /\ answer \in [Attempts -> {"none", "unknown"} \cup Settled]
  /\ result \in {"none", "unknown", "denied", "error"} \cup Settled
  /\ effect \in {"absent", "permitted", "denied", "unknown"} \cup Settled
  /\ observed \in SUBSET ({"workflow", "workflow-query"} \X ({"unknown"} \cup Settled))
  /\ sends \in Nat /\ flying \in Nat
  /\ outcome \in {"none"} \cup Settled

Init ==
  /\ activity \in Activities
  /\ current = 0 /\ result = "none"
  /\ at = [a \in Attempts |-> "idle"]
  /\ seen = [a \in Attempts |-> "none"]
  /\ answer = [a \in Attempts |-> "none"]
  /\ effect = "absent" /\ observed = {}
  /\ sends = 0 /\ flying = 0 /\ outcome = "none"

-----------------------------------------------------------------------------
Become(a, place) == at' = [at EXCEPT ![a] = place]

\* The execution returns an answer; the Workflow hears the one it awaits.
Return(a, res) ==
  /\ Become(a, "ended")
  /\ result' = IF a = current /\ result \in {"none", "unknown"} THEN res ELSE result

\* The execution returns an error that Temporal retries.
Fail(a) ==
  /\ Become(a, "failed")
  /\ UNCHANGED <<current, seen, answer, result>>

\* The Workflow's first execution, a retry of a failed or timed out one, or
\* one more round about an unknown target.
StartAttempt ==
  /\ current < MaxAttempts
  /\ \/ result = "none"
     \/ result = "unknown" /\ activity = "guarded"
  /\ current' = current + 1
  /\ Become(current + 1, "prepare")
  /\ UNCHANGED <<seen, answer, result, controlVars, upstreamVars>>

\* The retries are exhausted, or Control or the port refused the call.
GiveUp ==
  /\ current \in Attempts /\ result = "none"
  /\ result' = "error"
  /\ UNCHANGED <<current, at, seen, answer, controlVars, upstreamVars>>

(***************************************************************************)
(* PrepareEffect / PrepareReleaseEffect: the same command answers the same *)
(* effect, and only the call that created it is permitted.                 *)
(***************************************************************************)
Permit(a) ==
  /\ at[a] = "prepare" /\ effect = "absent"
  /\ effect' = "permitted"
  /\ Become(a, "send")
  /\ UNCHANGED <<current, seen, answer, result, observed, upstreamVars>>

Deny(a) ==
  /\ at[a] = "prepare" /\ effect \in {"absent", "denied"}
  /\ effect' = "denied"
  /\ Return(a, "denied")
  /\ UNCHANGED <<current, seen, answer, observed, upstreamVars>>

\* The permit is consumed and its answer lost.
PermitLost(a) ==
  /\ at[a] = "prepare" /\ effect = "absent"
  /\ effect' \in {"permitted", "denied"}
  /\ Fail(a)
  /\ UNCHANGED <<observed, upstreamVars>>

\* Mutated form of Consumed: a permit an execution before it consumed is
\* taken for its own, and the mutation is sent again.
ConsumedResent(a) ==
  /\ at[a] = "prepare" /\ effect \in {"permitted", "unknown"} \cup Settled
  /\ IF effect = "permitted" THEN Become(a, "send") /\ UNCHANGED seen
     ELSE Become(a, "query") /\ seen' = [seen EXCEPT ![a] = effect]
  /\ UNCHANGED <<current, answer, result, controlVars, upstreamVars>>

\* Consumed earlier: a registration already settled is answered from
\* Control's record, anything else asks the upstream.
Consumed(a) ==
  /\ at[a] = "prepare" /\ effect \in {"permitted", "unknown"} \cup Settled
  /\ seen' = [seen EXCEPT ![a] = effect]
  /\ \/ /\ activity = "registration" /\ effect \in Settled
        /\ Return(a, effect)
     \/ /\ ~(activity = "registration" /\ effect \in Settled)
        /\ Become(a, "query")
        /\ UNCHANGED result
  /\ UNCHANGED <<current, answer, controlVars, upstreamVars>>

-----------------------------------------------------------------------------
Send(a) ==
  /\ at[a] = "send"
  /\ sends' = sends + 1 /\ flying' = flying + 1
  /\ Become(a, "sending")
  /\ UNCHANGED <<current, seen, answer, result, controlVars, outcome>>

\* The upstream handles a send; a second one under the same identity is
\* answered with the original outcome.
Handle ==
  /\ flying > 0
  /\ flying' = flying - 1
  /\ outcome' \in IF outcome = "none" THEN Settled ELSE {outcome}
  /\ UNCHANGED <<callVars, controlVars, sends>>

SendLost ==
  /\ flying > 0
  /\ flying' = flying - 1
  /\ UNCHANGED <<callVars, controlVars, sends, outcome>>

Answered(a) ==
  /\ at[a] = "sending" /\ outcome # "none"
  /\ answer' = [answer EXCEPT ![a] = outcome]
  /\ Become(a, "observe")
  /\ UNCHANGED <<current, seen, result, controlVars, upstreamVars>>

\* No answer: the mutation may have happened.  guarded records it unknown;
\* the other two return an error and leave the effect permitted.
Unanswered(a) ==
  /\ at[a] = "sending"
  /\ \/ /\ activity = "guarded"
        /\ answer' = [answer EXCEPT ![a] = "unknown"]
        /\ Become(a, "observe")
        /\ UNCHANGED <<current, seen, result>>
     \/ activity # "guarded" /\ Fail(a)
  /\ UNCHANGED <<controlVars, upstreamVars>>

\* The answers the Workflow gets for an outcome: a receipt that does not
\* verify makes the target failed, though the effect happened.
Verdicts(o) ==
  IF o = "succeeded" /\ activity = "guarded" THEN Settled ELSE {o}

\* The upstream knows the original identity.  An outcome Control already
\* holds is returned without another observation.
QueryKnown(a) ==
  /\ at[a] = "query" /\ outcome # "none"
  /\ \/ /\ seen[a] \in Settled
        /\ \E v \in Verdicts(outcome) : Return(a, v)
        /\ UNCHANGED answer
     \/ /\ seen[a] \notin Settled
        /\ answer' = [answer EXCEPT ![a] = outcome]
        /\ Become(a, "observe")
        /\ UNCHANGED result
  /\ UNCHANGED <<current, seen, controlVars, upstreamVars>>

\* Mutated form of QueryUnknown: the identity the upstream does not know is
\* recorded unknown, where a later query may record what happened.
QueryUnknownRecorded(a) ==
  /\ at[a] = "query" /\ outcome = "none"
  /\ answer' = [answer EXCEPT ![a] = "unknown"]
  /\ Become(a, "observe")
  /\ UNCHANGED <<current, seen, result, controlVars, upstreamVars>>

\* The upstream has not seen it (yet): unknown, and nothing is recorded.
QueryUnknown(a) ==
  /\ at[a] = "query" /\ outcome = "none"
  /\ Return(a, "unknown")
  /\ UNCHANGED <<current, seen, answer, controlVars, upstreamVars>>

-----------------------------------------------------------------------------
(***************************************************************************)
(* ObserveEffect.  The sender reports as "workflow", a query as            *)
(* "workflow-query", both with sequence 1.  Whether a late "unknown"       *)
(* replaces a recorded outcome is Control's choice.                        *)
(***************************************************************************)
Source(a) == IF seen[a] = "none" THEN "workflow" ELSE "workflow-query"

Accept(a) ==
  /\ observed' = observed \cup {<<Source(a), answer[a]>>}
  /\ effect' \in {answer[a]} \cup ({effect} \cap Settled)

Observe(a) ==
  /\ at[a] = "observe"
  /\ Accept(a)
  /\ \E v \in Verdicts(answer[a]) : Return(a, v)
  /\ UNCHANGED <<current, seen, answer, upstreamVars>>

ObserveLost(a) ==
  /\ at[a] = "observe"
  /\ Accept(a)
  /\ Fail(a)
  /\ UNCHANGED upstreamVars

\* Mutated form of CallFails: an observation Control did not take is ignored.
CallFailsIgnored(a) ==
  /\ at[a] \in {"prepare", "query", "observe"}
  /\ \/ at[a] = "observe" /\ Return(a, answer[a])
     \/ at[a] # "observe" /\ Become(a, "failed") /\ UNCHANGED result
  /\ UNCHANGED <<current, seen, answer, controlVars, upstreamVars>>

\* Control or the upstream cannot be reached, or the worker dies.
CallFails(a) ==
  /\ at[a] \in {"prepare", "query", "observe"}
  /\ Fail(a)
  /\ UNCHANGED <<controlVars, upstreamVars>>

-----------------------------------------------------------------------------
AttemptStep(a) ==
  \/ Permit(a) \/ Deny(a) \/ PermitLost(a) \/ Consumed(a)
  \/ Send(a) \/ Answered(a) \/ Unanswered(a)
  \/ QueryKnown(a) \/ QueryUnknown(a)
  \/ Observe(a) \/ ObserveLost(a) \/ CallFails(a)

Next ==
  /\ UNCHANGED activity
  /\ \/ StartAttempt \/ GiveUp \/ Handle \/ SendLost
     \/ \E a \in Attempts : AttemptStep(a)

Spec == Init /\ [][Next]_vars

-----------------------------------------------------------------------------
(***************************************************************************)
(* Properties                                                              *)
(***************************************************************************)

\* Whatever crashes, times out or is asked again, the mutation is sent at
\* most once under its identity ("never resent", "never saved again").
SentOnce == sends <= 1

\* What Control was told is what the upstream did: a recorded outcome is the
\* upstream's, whichever execution reported it and however late.
RecordedIsTrue ==
  \A o \in observed : o[2] \in Settled => o[2] = outcome

\* Control keeps one observation per source and sequence and drops another:
\* no source ever reports two different outcomes of the identity.
OneOutcomePerSource ==
  \A o, p \in observed : o[1] = p[1] => o[2] = p[2]

\* A settled answer is backed by Control's record: the Workflow never acts
\* on an outcome Control has not accepted.
AnswerIsRecorded ==
  result \in Settled => \E o \in observed : o[2] \in Settled /\ o[2] = outcome

\* To the Workflow the mutation is the guarded effect of Effect.
Guarded ==
  INSTANCE Effect WITH told <- result
IsGuardedEffect == Guarded!Spec

-----------------------------------------------------------------------------
(***************************************************************************)
(* The inductive invariant behind the safety properties.                   *)
(***************************************************************************)
\* The execution that consumed the permit, until it is done with it.
Sender(a) == seen[a] = "none" /\ at[a] \in {"send", "sending", "observe"}

\* One execution holds the permit, and it has sent and reported nothing yet.
PermitInv ==
  /\ effect \in {"absent", "denied"} => sends = 0 /\ observed = {}
  /\ \A a \in Attempts :
       /\ effect \in {"absent", "denied"}
            => at[a] \in {"idle", "prepare", "failed", "ended"}
       /\ at[a] = "send" => sends = 0
       /\ at[a] \in {"idle", "prepare", "send", "sending"} => seen[a] = "none"
       /\ at[a] = "query" => seen[a] # "none"
       /\ a > current => at[a] = "idle"
       /\ Sender(a) => \A o \in observed : o[1] # "workflow"
  /\ \A a, b \in Attempts : Sender(a) /\ Sender(b) => a = b

\* Nothing happens upstream that was not sent.
UpstreamInv == flying <= sends /\ (outcome # "none" => sends > 0)

\* Every outcome an execution holds, Control keeps or a prepare answered is
\* the upstream's; only the sender reports the unknown.
EvidenceInv ==
  /\ \A a \in Attempts :
       /\ answer[a] \in Settled => answer[a] = outcome
       /\ at[a] = "observe" => answer[a] # "none"
       /\ at[a] = "observe" /\ ~Sender(a) => answer[a] = outcome
       /\ seen[a] \in Settled => \E o \in observed : o[2] = seen[a]
  /\ effect \in Settled => \E o \in observed : o[2] = effect
  /\ \A o \in observed : o[1] = "workflow-query" => o[2] = outcome

EInv ==
  /\ TypeOK /\ SentOnce /\ RecordedIsTrue /\ OneOutcomePerSource
  /\ AnswerIsRecorded /\ PermitInv /\ UpstreamInv /\ EvidenceInv
  /\ result = "denied" => effect = "denied"
=============================================================================
