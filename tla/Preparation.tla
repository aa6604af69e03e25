---------------------------- MODULE Preparation ----------------------------
(***************************************************************************)
(* A Preparation run (src/internal/workflows/preparation.go: Preparation,  *)
(* analyzeRound) with the model call it makes through the Model Proxy      *)
(* client (src/internal/activities/lifecycle.go: AnalyzeRequirements;      *)
(* src/internal/adapters/modelproxy/client.go: CallModel) and the answers  *)
(* of the user, which Control accepts and relays as Updates.               *)
(*                                                                         *)
(* Every round is one attempt with one controlled call; a call may ask     *)
(* questions, which are recorded with Control and waited for until their   *)
(* absolute expiry.  The Update that carries an accepted answer races the  *)
(* timer, the record of the question set and the cancellation.             *)
(*                                                                         *)
(* Simplifications: the answer of a question set is named by its round; an *)
(* Activity that fails and is retried does not move; what a call produced  *)
(* is one of Contents; the polling of a close and of the settlement is     *)
(* AttemptClose's.  Control, the Proxy and the relay are external.  Control*)
(* and the Workflow agree on when an expiry instant has passed.            *)
(***************************************************************************)
EXTENDS Naturals, FiniteSets

CONSTANTS
  MaxRounds,   \* PreparationView.MaxRounds: question rounds
  Allowance,   \* LifecycleBounds.ContentRepairAllowance
  MaxFrames    \* modelproxy.Client.maxFrames

ASSUME PreparationAssumption ==
  MaxRounds \in Nat \ {0} /\ Allowance \in Nat /\ MaxFrames \in Nat \ {0}

Rounds == 1 .. MaxRounds          \* rounds that may ask
AllRounds == 1 .. (MaxRounds + 1) \* and the one that must conclude
Calls == 1 .. (Allowance + 1)

Contents == {"requirements", "questions", "invalid"}
CallStates == {"none", "sent", "failed", "unknown"} \cup Contents

VARIABLES
  pc,        \* where the run is
  round,     \* the analysis round
  call,      \* its call: the call id is the round and the call
  repairs,   \* content repairs consumed
  stream,    \* frames read of the open stream; MaxFrames + 1: no stream
  next,      \* where the run goes after the close of the attempt
  open,      \* state.open: the round of the open question set, 0 for nil
  answered,  \* state.answered
  answers,   \* state.answers: by round, the round whose answer it is (0: none)
  expired,   \* the timer fired
  outcome,   \* what the settlement states
  canceled,  \* the Workflow's context is canceled
  proxy,     \* Proxy: what became of each call
  sets,      \* Control: each round's question set
  accepted,  \* Control: rounds whose answer was accepted
  update,    \* the Update of each round's answer
  brief      \* the answers of the frozen brief

runVars == <<round, call, repairs, stream, next>>
waitVars == <<open, answered, answers, expired>>
vars == <<pc, runVars, waitVars, outcome, canceled, proxy, sets, accepted,
          update, brief>>

NoStream == MaxFrames + 1
NoAnswers == [r \in Rounds |-> 0]

PCs == {"funding", "attempt", "call", "close", "ask", "wait", "late", "freeze",
        "brief", "settle", "handlers", "done"}

TypeOK ==
  /\ pc \in PCs
  /\ round \in AllRounds /\ call \in Calls /\ repairs \in 0 .. Allowance
  /\ stream \in 0 .. NoStream
  /\ next \in {"ask", "freeze", "settle"}
  /\ open \in 0 .. MaxRounds
  /\ answered \in BOOLEAN /\ expired \in BOOLEAN /\ canceled \in BOOLEAN
  /\ answers \in [Rounds -> 0 .. MaxRounds]
  /\ outcome \in {"failed", "expired", "canceled", "succeeded"}
  /\ proxy \in [AllRounds \X Calls -> CallStates]
  /\ sets \in [Rounds -> {"none", "open", "past"}]
  /\ accepted \in SUBSET Rounds
  /\ update \in [Rounds -> {"none", "handling", "applied", "rejected"}]
  /\ brief \in [Rounds -> 0 .. MaxRounds]

Init ==
  /\ pc = "funding"
  /\ round = 1 /\ call = 1 /\ repairs = 0 /\ stream = NoStream /\ next = "settle"
  /\ open = 0 /\ answered = FALSE /\ answers = NoAnswers /\ expired = FALSE
  /\ outcome = "failed" /\ canceled = FALSE
  /\ proxy = [id \in AllRounds \X Calls |-> "none"]
  /\ sets = [r \in Rounds |-> "none"]
  /\ accepted = {}
  /\ update = [r \in Rounds |-> "none"]
  /\ brief = NoAnswers

\* settleOutcome: what a failed Activity makes of the run.
Fail(reason) ==
  outcome' = IF canceled THEN "canceled" ELSE reason

-----------------------------------------------------------------------------
(***************************************************************************)
(* One round: the attempt, the call, the close.                            *)
(***************************************************************************)
\* GetPreparation and RecordFunding, the record of the questions, the freeze
\* of the references and of the brief: a failure ends the run.
ActivityFails ==
  /\ pc \in {"funding", "attempt", "ask", "late", "freeze", "brief"}
  /\ Fail("failed")
  /\ pc' = "settle"
  /\ UNCHANGED <<runVars, waitVars, canceled, proxy, sets, accepted, update, brief>>

Funded ==
  /\ pc = "funding"
  /\ pc' = "attempt"
  /\ UNCHANGED <<runVars, waitVars, outcome, canceled, proxy, sets, accepted>>
  /\ UNCHANGED <<update, brief>>

OpenAttempt ==
  /\ pc = "attempt"
  /\ call' = 1
  /\ pc' = "call"
  /\ UNCHANGED <<round, repairs, stream, next, waitVars, outcome, canceled>>
  /\ UNCHANGED <<proxy, sets, accepted, update, brief>>

Id == <<round, call>>

\* CreateModelCall is answered with a stream: the Proxy sends a new call
\* once, and reenters one it knows.
OpenStream ==
  /\ pc = "call" /\ stream = NoStream
  /\ stream' = 0
  /\ proxy' = [proxy EXCEPT ![Id] = IF @ = "none" THEN "sent" ELSE @]
  /\ UNCHANGED <<pc, round, call, repairs, next, waitVars, outcome, canceled>>
  /\ UNCHANGED <<sets, accepted, update, brief>>

\* A frame of this call, in sequence, that is not the final one.
FrameArrives ==
  /\ pc = "call" /\ stream < MaxFrames
  /\ stream' = stream + 1
  /\ UNCHANGED <<pc, round, call, repairs, next, waitVars, outcome, canceled>>
  /\ UNCHANGED <<proxy, sets, accepted, update, brief>>

\* Interrupted, or ended without its final frame: the retry reenters the call.
StreamEnds ==
  /\ pc = "call" /\ stream # NoStream
  /\ stream' = NoStream
  /\ UNCHANGED <<pc, round, call, repairs, next, waitVars, outcome, canceled>>
  /\ UNCHANGED <<proxy, sets, accepted, update, brief>>

\* A frame outside the contract, out of sequence or over the bound, a
\* refusal of the Proxy, an artifact that cannot be read, or the retries are
\* exhausted: whatever the call is at the Proxy, no other one is made.
CallFails ==
  /\ pc = "call"
  /\ Fail("failed")
  /\ stream' = NoStream
  /\ next' = "settle"
  /\ pc' = "close"
  /\ UNCHANGED <<round, call, repairs, waitVars, canceled, proxy, sets, accepted>>
  /\ UNCHANGED <<update, brief>>

MustConclude == round > MaxRounds

\* Mutated form of Repairable: an unknown call is asked again.
RepairableUnknown(content) ==
  content \in {"invalid", "unknown"} /\ repairs < Allowance

\* AnalyzeRequirements answers CONTENT_INVALID for what the tools do not
\* allow, questions in the concluding round among it.
Repairable(content) ==
  /\ content = "invalid" \/ (content = "questions" /\ MustConclude)
  /\ repairs < Allowance

\* The repair takes a new call id.
CallRepaired ==
  /\ pc = "call" /\ stream < MaxFrames
  /\ Repairable(proxy[Id])
  /\ repairs' = repairs + 1
  /\ call' = call + 1
  /\ stream' = NoStream
  /\ UNCHANGED <<pc, round, next, waitVars, outcome, canceled, proxy, sets>>
  /\ UNCHANGED <<accepted, update, brief>>

\* The final frame, the last the bound admits or an earlier one:
\* requirements, questions, or the end of the run.
CallAnswered ==
  /\ pc = "call" /\ stream < MaxFrames
  /\ proxy[Id] \notin {"none", "sent"} /\ ~Repairable(proxy[Id])
  /\ next' = CASE proxy[Id] = "requirements" -> "freeze"
               [] proxy[Id] = "questions" /\ ~MustConclude -> "ask"
               [] OTHER -> "settle"
  /\ stream' = NoStream
  /\ pc' = "close"
  /\ UNCHANGED <<round, call, repairs, waitVars, outcome, canceled, proxy, sets>>
  /\ UNCHANGED <<accepted, update, brief>>

\* The attempt is closed before any wait; a refused close is logged.
CloseAttempt ==
  /\ pc = "close"
  /\ pc' = next
  /\ UNCHANGED <<runVars, waitVars, outcome, canceled, proxy, sets, accepted>>
  /\ UNCHANGED <<update, brief>>

-----------------------------------------------------------------------------
(***************************************************************************)
(* The questions and the wait for their answer.                            *)
(***************************************************************************)
\* Control records the set; its answer is still on the way, or lost and the
\* command repeated.
SetRecorded ==
  /\ pc = "ask" /\ sets[round] = "none"
  /\ sets' = [sets EXCEPT ![round] = "open"]
  /\ UNCHANGED <<pc, runVars, waitVars, outcome, canceled, proxy, accepted>>
  /\ UNCHANGED <<update, brief>>

BeginWait ==
  /\ pc = "ask" /\ sets[round] # "none"
  /\ open' = round /\ answered' = FALSE /\ expired' = FALSE
  /\ pc' = "wait"
  /\ UNCHANGED <<runVars, answers, outcome, canceled, proxy, sets, accepted>>
  /\ UNCHANGED <<update, brief>>

\* Mutated form of TimerFires: an accepted answer disarms the timer.
TimerFiresUnanswered ==
  /\ pc = "wait" /\ sets[round] = "past" /\ ~expired /\ round \notin accepted
  /\ expired' = TRUE
  /\ UNCHANGED <<pc, runVars, open, answered, answers, outcome, canceled, proxy>>
  /\ UNCHANGED <<sets, accepted, update, brief>>

TimerFires ==
  /\ pc = "wait" /\ sets[round] = "past" /\ ~expired
  /\ expired' = TRUE
  /\ UNCHANGED <<pc, runVars, open, answered, answers, outcome, canceled, proxy>>
  /\ UNCHANGED <<sets, accepted, update, brief>>

NextRound ==
  /\ open' = 0
  /\ round' = round + 1
  /\ pc' = "attempt"

AwaitAnswered ==
  /\ pc = "wait" /\ answered
  /\ NextRound
  /\ UNCHANGED <<call, repairs, stream, next, answered, answers, expired, outcome>>
  /\ UNCHANGED <<canceled, proxy, sets, accepted, update, brief>>

\* Mutated form of AwaitExpired: the timer ends the wait without a look at
\* what Control accepted.
AwaitExpiredAtOnce ==
  /\ pc = "wait" /\ expired /\ ~answered
  /\ outcome' = "expired"
  /\ open' = 0
  /\ pc' = "settle"
  /\ UNCHANGED <<runVars, answered, answers, expired, canceled, proxy, sets>>
  /\ UNCHANGED <<accepted, update, brief>>

AwaitExpired ==
  /\ pc = "wait" /\ expired /\ ~answered
  /\ pc' = "late"
  /\ UNCHANGED <<runVars, waitVars, outcome, canceled, proxy, sets, accepted>>
  /\ UNCHANGED <<update, brief>>

AwaitCanceled ==
  /\ pc = "wait" /\ canceled
  /\ Fail("canceled")
  /\ pc' = "settle"
  /\ UNCHANGED <<runVars, waitVars, canceled, proxy, sets, accepted, update, brief>>

\* GetAnswer by question set: an answer accepted before the instant counts.
LateFound ==
  /\ pc = "late" /\ round \in accepted
  /\ answers' = [answers EXCEPT ![round] = round]
  /\ answered' = TRUE
  /\ NextRound
  /\ UNCHANGED <<call, repairs, stream, next, expired, outcome, canceled, proxy>>
  /\ UNCHANGED <<sets, accepted, update, brief>>

LateMissing ==
  /\ pc = "late" /\ round \notin accepted
  /\ outcome' = "expired"
  /\ open' = 0
  /\ pc' = "settle"
  /\ UNCHANGED <<runVars, answered, answers, expired, canceled, proxy, sets>>
  /\ UNCHANGED <<accepted, update, brief>>

\* The content digests of the selected references.
FreezeReferences ==
  /\ pc = "freeze"
  /\ pc' = "brief"
  /\ UNCHANGED <<runVars, waitVars, outcome, canceled, proxy, sets, accepted>>
  /\ UNCHANGED <<update, brief>>

\* The brief with the answers the run has at this moment, in round order.
FreezeBrief ==
  /\ pc = "brief"
  /\ brief' = answers
  /\ outcome' = "succeeded"
  /\ pc' = "settle"
  /\ UNCHANGED <<runVars, waitVars, canceled, proxy, sets, accepted, update>>

\* The deferred settlement, then awaitHandlers.
Settle ==
  /\ pc = "settle"
  /\ pc' = "handlers"
  /\ UNCHANGED <<runVars, waitVars, outcome, canceled, proxy, sets, accepted>>
  /\ UNCHANGED <<update, brief>>

HandlersDone ==
  /\ pc = "handlers" /\ \A r \in Rounds : update[r] # "handling"
  /\ pc' = "done"
  /\ UNCHANGED <<runVars, waitVars, outcome, canceled, proxy, sets, accepted>>
  /\ UNCHANGED <<update, brief>>

-----------------------------------------------------------------------------
(***************************************************************************)
(* The answer Update.                                                      *)
(***************************************************************************)
Applied(r) == \E q \in Rounds : answers[q] = r

\* The validator, when the Update (or the same one again) arrives: an applied
\* answer is answered again, an answer of the open set goes to the handler.
\* A rejected Update may be relayed again.
UpdateArrives(r) ==
  /\ pc # "done"
  /\ r \in accepted /\ update[r] \in {"none", "rejected"}
  /\ update' = [update EXCEPT ![r] = IF Applied(r) THEN "applied"
                                     ELSE IF open = r THEN "handling"
                                     ELSE "rejected"]
  /\ UNCHANGED <<pc, runVars, waitVars, outcome, canceled, proxy, sets, accepted>>
  /\ UNCHANGED brief

\* The handler read the accepted answer: it applies to the set that is open
\* now.
HandlerApplies(r) ==
  /\ update[r] = "handling" /\ open = r
  /\ answers' = [answers EXCEPT ![open] = r]
  /\ answered' = TRUE
  /\ update' = [update EXCEPT ![r] = "applied"]
  /\ UNCHANGED <<pc, runVars, open, expired, outcome, canceled, proxy, sets>>
  /\ UNCHANGED <<accepted, brief>>

\* The answer could not be read, or its set is no longer the open one.
HandlerRejects(r) ==
  /\ update[r] = "handling"
  /\ update' = [update EXCEPT ![r] = "rejected"]
  /\ UNCHANGED <<pc, runVars, waitVars, outcome, canceled, proxy, sets, accepted>>
  /\ UNCHANGED brief

-----------------------------------------------------------------------------
(***************************************************************************)
(* Control, the user and the Proxy (external).                             *)
(***************************************************************************)
AcceptAnswer(r) ==
  /\ sets[r] = "open" /\ r \notin accepted
  /\ accepted' = accepted \cup {r}
  /\ UNCHANGED <<pc, runVars, waitVars, outcome, canceled, proxy, sets, update, brief>>

InstantPasses(r) ==
  /\ sets[r] = "open"
  /\ sets' = [sets EXCEPT ![r] = "past"]
  /\ UNCHANGED <<pc, runVars, waitVars, outcome, canceled, proxy, accepted>>
  /\ UNCHANGED <<update, brief>>

CallEnds(id) ==
  /\ proxy[id] = "sent"
  /\ \E state \in Contents \cup {"failed", "unknown"} :
       proxy' = [proxy EXCEPT ![id] = state]
  /\ UNCHANGED <<pc, runVars, waitVars, outcome, canceled, sets, accepted>>
  /\ UNCHANGED <<update, brief>>

Cancel ==
  /\ ~canceled /\ pc \notin {"settle", "handlers", "done"}
  /\ canceled' = TRUE
  /\ UNCHANGED <<pc, runVars, waitVars, outcome, proxy, sets, accepted, update, brief>>

-----------------------------------------------------------------------------
CallStep ==
  OpenStream \/ FrameArrives \/ StreamEnds \/ CallFails \/ CallRepaired
  \/ CallAnswered

Proceed ==
  \/ Funded \/ OpenAttempt \/ CloseAttempt \/ SetRecorded \/ BeginWait
  \/ TimerFires \/ AwaitAnswered \/ AwaitExpired \/ AwaitCanceled
  \/ LateFound \/ LateMissing \/ FreezeReferences
  \/ FreezeBrief \/ Settle

Handler(r) == HandlerApplies(r) \/ HandlerRejects(r)

Environment ==
  \/ \E r \in Rounds : AcceptAnswer(r) \/ InstantPasses(r) \/ UpdateArrives(r)
  \/ \E id \in AllRounds \X Calls : CallEnds(id)
  \/ Cancel

Ended == pc = "done" /\ UNCHANGED vars

Next ==
  \/ ActivityFails \/ CallStep \/ Proceed \/ HandlersDone \/ Environment
  \/ \E r \in Rounds : Handler(r)
  \/ Ended

Spec == Init /\ [][Next]_vars

(***************************************************************************)
(* Fairness.  The Workflow takes its next step; an Update handler's read   *)
(* ends; instants pass and timers fire; the Proxy ends a call within its   *)
(* deadline, and a call that is over answers the reentry or the retries    *)
(* end; awaitHandlers looks whenever a handler ends, however often the     *)
(* relay comes back.                                                       *)
(***************************************************************************)
FairSpec ==
  /\ Spec
  /\ WF_vars(Proceed) /\ SF_vars(HandlersDone)
  /\ WF_vars(CallStep) /\ SF_vars(CallAnswered \/ CallRepaired)
  /\ \A r \in Rounds : WF_vars(Handler(r)) /\ WF_vars(InstantPasses(r))
  /\ \A id \in AllRounds \X Calls : WF_vars(CallEnds(id))

-----------------------------------------------------------------------------
(***************************************************************************)
(* Properties                                                              *)
(***************************************************************************)

\* An answer Control accepted before the expiry counts, wherever its Update
\* is: the run expires only without one, every answer is used for the round
\* that asked for it, and a frozen brief has the answer of every round asked.
AcceptedAnswerCounts ==
  /\ outcome = "expired" => round \notin accepted
  /\ \A r \in Rounds : answers[r] \in {0, r} /\ (answers[r] = r => r \in accepted)
  /\ outcome = "succeeded" => \A r \in Rounds : r < round => brief[r] = r

\* A call is sent only when every call sent before it ended with content: no
\* call follows one that is unknown, failed or still under way; and the
\* rounds share one repair allowance.
Before(a, b) == a[1] < b[1] \/ (a[1] = b[1] /\ a[2] < b[2])
SentCalls == {id \in AllRounds \X Calls : proxy[id] # "none"}
CallsFollow ==
  /\ \A a, b \in SentCalls : Before(a, b) => proxy[a] \in Contents
  /\ Cardinality(SentCalls) <= MaxRounds + 1 + Allowance

\* The run ends, with every Update it admitted answered.
RunEnds == <>(pc = "done" /\ \A r \in Rounds : update[r] # "handling")
=============================================================================
