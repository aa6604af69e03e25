-------------------------- MODULE PreparationProofs --------------------------
(***************************************************************************)
(* What holds of a Preparation run whatever the number of question rounds, *)
(* the repair allowance and the frame bound: PrepInv is inductive (one     *)
(* lemma per action), so every variable keeps its type, an answer Control  *)
(* accepted counts, and no call follows one that did not end with content. *)
(***************************************************************************)
EXTENDS Preparation, FiniteSetTheorems, TLAPS

\* A round that asked ended its call with questions; only its set is open.
PlaceInv ==
  /\ pc \in {"ask", "wait", "late"} \/ (pc = "close" /\ next = "ask")
     => round \in Rounds /\ proxy[Id] = "questions"
  /\ open # 0 => open = round
  /\ pc \in {"wait", "late"} => open = round
  /\ call <= repairs + 1

\* Every round before this one has its answer; the instant of an expired
\* wait has passed for Control, which accepts no answer after it.
AnswerInv ==
  /\ \A r \in Rounds : update[r] # "none" => r \in accepted
  /\ \A r \in Rounds : r < round => answers[r] = r
  /\ pc = "wait" /\ answered => answers[round] = round
  /\ pc = "late" \/ (pc = "wait" /\ expired) => sets[round] = "past"
  /\ outcome = "expired" => round \in Rounds /\ sets[round] = "past"
  /\ outcome \in {"expired", "succeeded"} => pc \in {"settle", "handlers", "done"}

\* Between the rounds the run has no call; else its call is Id.
NoCall == pc \in {"funding", "attempt"}

\* The calls sent are those before the present one, which ended with content,
\* and that one.
SentInv ==
  \A a \in SentCalls :
    \/ ~NoCall /\ a = Id
    \/ /\ IF NoCall THEN a[1] < round ELSE Before(a, Id)
       /\ proxy[a] \in Contents

\* The present call is not sent yet.
Fresh == NoCall \/ proxy[Id] = "none"

\* One call for every round and one for every repair.
CountInv == Cardinality(SentCalls) <= IF Fresh THEN round + repairs - 1 ELSE round + repairs

PrepInv ==
  /\ TypeOK /\ PlaceInv /\ AnswerInv /\ SentInv /\ CountInv
  /\ AcceptedAnswerCounts

USE PreparationAssumption

LEMMA Finite ==
  ASSUME TypeOK
  PROVE  IsFiniteSet(SentCalls)
  <1>1. IsFiniteSet(AllRounds \X Calls)
    <2>1. IsFiniteSet(AllRounds) /\ IsFiniteSet(Calls)
      BY FS_Interval DEF AllRounds, Calls
    <2> QED
      BY <2>1, FS_Product
  <1>2. SentCalls \subseteq AllRounds \X Calls
    BY DEF SentCalls
  <1> QED
    BY <1>1, <1>2, FS_Subset

\* What the counts allow.
LEMMA SentBound ==
  ASSUME TypeOK
  PROVE  Cardinality(SentCalls) \in Nat
  BY Finite, FS_CardinalityType

\* A step that keeps the Proxy, or only ends a call, sends nothing.
LEMMA SameSent ==
  ASSUME TypeOK, TypeOK',
         \A id \in AllRounds \X Calls : proxy'[id] = "none" <=> proxy[id] = "none"
  PROVE  SentCalls' = SentCalls
  BY DEF SentCalls

\* A failed Activity ends the run.
LEMMA ActivityFailsKeeps ==
  ASSUME PrepInv, ActivityFails
  PROVE  PrepInv'
  <1> USE DEF PrepInv, TypeOK, ActivityFails, Fail, runVars, waitVars, PCs, Rounds,
          AllRounds, Calls
  <1>1. TypeOK'
    BY DEF PlaceInv, CallStates, Contents, NoStream
  <1>2. PlaceInv'
    BY DEF PlaceInv, AnswerInv, Id
  <1>3. AnswerInv'
    BY DEF AnswerInv, PlaceInv
  <1>4. AcceptedAnswerCounts'
    BY DEF AcceptedAnswerCounts, AnswerInv, PlaceInv
  <1>5. SentInv'
    BY DEF SentInv, SentCalls, NoCall, Id, Before, PlaceInv, Contents
  <1>6. CountInv'
    <2>1. SentCalls' = SentCalls /\ Id' = Id /\ proxy' = proxy
      BY DEF SentCalls, Id
    <2>2. NoCall => proxy[Id] = "none"
      <3>1. Id \in AllRounds \X Calls /\ Id[1] = round
        BY DEF Id
      <3> QED
        BY <3>1 DEF SentInv, SentCalls
    <2> QED
      BY <2>1, <2>2, SentBound DEF CountInv, Fresh, NoCall
  <1> QED
    BY <1>1, <1>2, <1>3, <1>4, <1>5, <1>6

\* The funding is recorded.
LEMMA FundedKeeps ==
  ASSUME PrepInv, Funded
  PROVE  PrepInv'
  <1> USE DEF PrepInv, TypeOK, Funded, runVars, waitVars, PCs, Rounds,
          AllRounds, Calls
  <1>1. TypeOK'
    BY DEF PlaceInv, CallStates, Contents, NoStream
  <1>2. PlaceInv'
    BY DEF PlaceInv, AnswerInv, Id
  <1>3. AnswerInv'
    BY DEF AnswerInv, PlaceInv
  <1>4. AcceptedAnswerCounts'
    BY DEF AcceptedAnswerCounts, AnswerInv, PlaceInv
  <1>5. SentInv'
    BY DEF SentInv, SentCalls, NoCall, Id, Before, PlaceInv, Contents
  <1>6. CountInv'
    BY SentBound, SameSent, <1>1 DEF CountInv, Fresh, NoCall, Id, SentInv, SentCalls, Before
  <1> QED
    BY <1>1, <1>2, <1>3, <1>4, <1>5, <1>6

\* The attempt of the round opens; its call is the first one.
LEMMA OpenAttemptKeeps ==
  ASSUME PrepInv, OpenAttempt
  PROVE  PrepInv'
  <1> USE DEF PrepInv, TypeOK, OpenAttempt, runVars, waitVars, PCs, Rounds,
          AllRounds, Calls
  <1>1. TypeOK'
    BY DEF PlaceInv, CallStates, Contents, NoStream
  <1>2. PlaceInv'
    BY DEF PlaceInv, AnswerInv, Id
  <1>3. AnswerInv'
    BY DEF AnswerInv, PlaceInv
  <1>4. AcceptedAnswerCounts'
    BY DEF AcceptedAnswerCounts, AnswerInv, PlaceInv
  <1>5. SentInv'
    BY DEF SentInv, SentCalls, NoCall, Id, Before, PlaceInv, Contents
  <1>6. CountInv'
    BY SentBound, SameSent, <1>1 DEF CountInv, Fresh, NoCall, Id, SentInv, SentCalls, Before
  <1> QED
    BY <1>1, <1>2, <1>3, <1>4, <1>5, <1>6

\* The call is sent, or the one sent is entered again.
LEMMA OpenStreamKeeps ==
  ASSUME PrepInv, OpenStream
  PROVE  PrepInv'
  <1> USE DEF PrepInv, TypeOK, OpenStream, runVars, waitVars, PCs, Rounds,
          AllRounds, Calls
  <1>1. TypeOK'
    BY SMTT(30) DEF PlaceInv, CallStates, Contents, NoStream, Id
  <1>2. PlaceInv'
    BY DEF PlaceInv, AnswerInv, Id, Id
  <1>3. AnswerInv'
    BY DEF AnswerInv, PlaceInv
  <1>4. AcceptedAnswerCounts'
    BY DEF AcceptedAnswerCounts, AnswerInv, PlaceInv
  <1>5. SentInv'
    BY DEF SentInv, SentCalls, NoCall, Id, Before, Contents
  <1>6. CountInv'
    <2>1. Id \in AllRounds \X Calls /\ Id' = Id
      BY DEF Id
    <2>2. CASE proxy[Id] = "none"
      <3>1. SentCalls' = SentCalls \cup {Id} /\ Id \notin SentCalls
        BY <2>1, <2>2 DEF SentCalls
      <3>2. Cardinality(SentCalls') = Cardinality(SentCalls) + 1
        BY <3>1, Finite, FS_AddElement
      <3>3. Cardinality(SentCalls) <= round + repairs - 1
        BY <2>2 DEF CountInv, Fresh
      <3> QED
        BY <2>1, <2>2, <3>2, <3>3, SentBound DEF CountInv, Fresh, NoCall
    <2>3. CASE proxy[Id] # "none"
      <3>1. SentCalls' = SentCalls /\ proxy' = proxy
        BY <2>1, <2>3 DEF SentCalls
      <3> QED
        BY <3>1, <2>1 DEF CountInv, Fresh, NoCall
    <2> QED
      BY <2>2, <2>3
  <1> QED
    BY <1>1, <1>2, <1>3, <1>4, <1>5, <1>6

\* A frame changes nothing but the count.
LEMMA FrameArrivesKeeps ==
  ASSUME PrepInv, FrameArrives
  PROVE  PrepInv'
  <1> USE DEF PrepInv, TypeOK, FrameArrives, NoStream, runVars, waitVars, PCs, Rounds,
          AllRounds, Calls
  <1>1. TypeOK'
    BY DEF PlaceInv, CallStates, Contents, NoStream
  <1>2. PlaceInv'
    BY DEF PlaceInv, AnswerInv, Id
  <1>3. AnswerInv'
    BY DEF AnswerInv, PlaceInv
  <1>4. AcceptedAnswerCounts'
    BY DEF AcceptedAnswerCounts, AnswerInv, PlaceInv
  <1>5. SentInv'
    BY DEF SentInv, SentCalls, NoCall, Id, Before, PlaceInv, Contents
  <1>6. CountInv'
    BY SentBound, SameSent, <1>1 DEF CountInv, Fresh, NoCall, Id, SentInv, SentCalls, Before
  <1> QED
    BY <1>1, <1>2, <1>3, <1>4, <1>5, <1>6

\* The stream ends and nothing else.
LEMMA StreamEndsKeeps ==
  ASSUME PrepInv, StreamEnds
  PROVE  PrepInv'
  <1> USE DEF PrepInv, TypeOK, StreamEnds, NoStream, runVars, waitVars, PCs, Rounds,
          AllRounds, Calls
  <1>1. TypeOK'
    BY DEF PlaceInv, CallStates, Contents, NoStream
  <1>2. PlaceInv'
    BY DEF PlaceInv, AnswerInv, Id
  <1>3. AnswerInv'
    BY DEF AnswerInv, PlaceInv
  <1>4. AcceptedAnswerCounts'
    BY DEF AcceptedAnswerCounts, AnswerInv, PlaceInv
  <1>5. SentInv'
    BY DEF SentInv, SentCalls, NoCall, Id, Before, PlaceInv, Contents
  <1>6. CountInv'
    BY SentBound, SameSent, <1>1 DEF CountInv, Fresh, NoCall, Id, SentInv, SentCalls, Before
  <1> QED
    BY <1>1, <1>2, <1>3, <1>4, <1>5, <1>6

\* A call that fails is the last one.
LEMMA CallFailsKeeps ==
  ASSUME PrepInv, CallFails
  PROVE  PrepInv'
  <1> USE DEF PrepInv, TypeOK, CallFails, Fail, runVars, waitVars, PCs, Rounds,
          AllRounds, Calls
  <1>1. TypeOK'
    BY DEF PlaceInv, CallStates, Contents, NoStream
  <1>2. PlaceInv'
    BY DEF PlaceInv, AnswerInv, Id
  <1>3. AnswerInv'
    BY DEF AnswerInv, PlaceInv
  <1>4. AcceptedAnswerCounts'
    BY DEF AcceptedAnswerCounts, AnswerInv, PlaceInv
  <1>5. SentInv'
    BY DEF SentInv, SentCalls, NoCall, Id, Before, PlaceInv, Contents
  <1>6. CountInv'
    BY SentBound, SameSent, <1>1 DEF CountInv, Fresh, NoCall, Id, SentInv, SentCalls, Before
  <1> QED
    BY <1>1, <1>2, <1>3, <1>4, <1>5, <1>6

\* A repair follows a call that ended with content.
LEMMA CallRepairedKeeps ==
  ASSUME PrepInv, CallRepaired
  PROVE  PrepInv'
  <1> USE DEF PrepInv, TypeOK, CallRepaired, Repairable, MustConclude, runVars, waitVars, PCs, Rounds,
          AllRounds, Calls
  <1>1. TypeOK'
    BY DEF PlaceInv, CallStates, Contents, NoStream
  <1>2. PlaceInv'
    BY DEF PlaceInv, AnswerInv, Id
  <1>3. AnswerInv'
    BY DEF AnswerInv, PlaceInv
  <1>4. AcceptedAnswerCounts'
    BY DEF AcceptedAnswerCounts, AnswerInv, PlaceInv
  <1>5. SentInv'
    <2> SUFFICES ASSUME NEW a \in SentCalls'
                 PROVE  Before(a, Id') /\ proxy'[a] \in Contents
      BY DEF SentInv, NoCall
    <2>1. a \in SentCalls /\ a[1] \in Nat /\ a[2] \in Nat /\ proxy'[a] = proxy[a]
      BY DEF SentCalls
    <2>2. Id[1] = round /\ Id[2] = call /\ Id'[1] = round /\ Id'[2] = call + 1
      BY DEF Id
    <2>3. a = Id \/ (Before(a, Id) /\ proxy[a] \in Contents)
      BY <2>1 DEF SentInv, NoCall
    <2>4. CASE a = Id
      BY <2>1, <2>2, <2>4 DEF Before, Contents, Repairable
    <2>5. CASE Before(a, Id) /\ proxy[a] \in Contents
      BY <2>1, <2>2, <2>5 DEF Before
    <2> QED
      BY <2>3, <2>4, <2>5
  <1>6. CountInv'
    <2>1. SentCalls' = SentCalls /\ proxy' = proxy
      BY DEF SentCalls
    <2>2. proxy[Id] # "none"
      BY DEF Repairable
    <2> QED
      BY <2>1, <2>2, SentBound, SMTT(30) DEF CountInv, Fresh, NoCall
  <1> QED
    BY <1>1, <1>2, <1>3, <1>4, <1>5, <1>6

\* The answer decides where the run goes.
LEMMA CallAnsweredKeeps ==
  ASSUME PrepInv, CallAnswered
  PROVE  PrepInv'
  <1> USE DEF PrepInv, TypeOK, CallAnswered, Repairable, MustConclude, runVars, waitVars, PCs, Rounds,
          AllRounds, Calls
  <1>1. TypeOK'
    BY SMTT(30) DEF PlaceInv, CallStates, Contents, NoStream
  <1>2. PlaceInv'
    BY DEF PlaceInv, AnswerInv, Id
  <1>3. AnswerInv'
    BY DEF AnswerInv, PlaceInv
  <1>4. AcceptedAnswerCounts'
    BY DEF AcceptedAnswerCounts, AnswerInv, PlaceInv
  <1>5. SentInv'
    BY DEF SentInv, SentCalls, NoCall, Id, Before, PlaceInv, Contents
  <1>6. CountInv'
    BY SentBound, SameSent, <1>1 DEF CountInv, Fresh, NoCall, Id, SentInv, SentCalls, Before
  <1> QED
    BY <1>1, <1>2, <1>3, <1>4, <1>5, <1>6

\* The attempt is closed.
LEMMA CloseAttemptKeeps ==
  ASSUME PrepInv, CloseAttempt
  PROVE  PrepInv'
  <1> USE DEF PrepInv, TypeOK, CloseAttempt, runVars, waitVars, PCs, Rounds,
          AllRounds, Calls
  <1>1. TypeOK'
    BY DEF PlaceInv, CallStates, Contents, NoStream
  <1>2. PlaceInv'
    BY DEF PlaceInv, AnswerInv, Id
  <1>3. AnswerInv'
    BY DEF AnswerInv, PlaceInv
  <1>4. AcceptedAnswerCounts'
    BY DEF AcceptedAnswerCounts, AnswerInv, PlaceInv
  <1>5. SentInv'
    BY DEF SentInv, SentCalls, NoCall, Id, Before, PlaceInv, Contents
  <1>6. CountInv'
    BY SentBound, SameSent, <1>1 DEF CountInv, Fresh, NoCall, Id, SentInv, SentCalls, Before
  <1> QED
    BY <1>1, <1>2, <1>3, <1>4, <1>5, <1>6

\* The question set is recorded.
LEMMA SetRecordedKeeps ==
  ASSUME PrepInv, SetRecorded
  PROVE  PrepInv'
  <1> USE DEF PrepInv, TypeOK, SetRecorded, runVars, waitVars, PCs, Rounds,
          AllRounds, Calls
  <1>1. TypeOK'
    BY DEF PlaceInv, CallStates, Contents, NoStream
  <1>2. PlaceInv'
    BY DEF PlaceInv, AnswerInv, Id
  <1>3. AnswerInv'
    BY DEF AnswerInv, PlaceInv
  <1>4. AcceptedAnswerCounts'
    BY DEF AcceptedAnswerCounts, AnswerInv, PlaceInv
  <1>5. SentInv'
    BY DEF SentInv, SentCalls, NoCall, Id, Before, PlaceInv, Contents
  <1>6. CountInv'
    BY SentBound, SameSent, <1>1 DEF CountInv, Fresh, NoCall, Id, SentInv, SentCalls, Before
  <1> QED
    BY <1>1, <1>2, <1>3, <1>4, <1>5, <1>6

\* The wait for an answer begins.
LEMMA BeginWaitKeeps ==
  ASSUME PrepInv, BeginWait
  PROVE  PrepInv'
  <1> USE DEF PrepInv, TypeOK, BeginWait, runVars, waitVars, PCs, Rounds,
          AllRounds, Calls
  <1>1. TypeOK'
    <2>1. open' \in 0 .. MaxRounds
      BY DEF PlaceInv
    <2> QED
      BY <2>1
  <1>2. PlaceInv'
    BY DEF PlaceInv, AnswerInv, Id
  <1>3. AnswerInv'
    BY DEF AnswerInv, PlaceInv
  <1>4. AcceptedAnswerCounts'
    BY DEF AcceptedAnswerCounts, AnswerInv, PlaceInv
  <1>5. SentInv'
    BY DEF SentInv, SentCalls, NoCall, Id, Before, PlaceInv, Contents
  <1>6. CountInv'
    BY SentBound, SameSent, <1>1 DEF CountInv, Fresh, NoCall, Id, SentInv, SentCalls, Before
  <1> QED
    BY <1>1, <1>2, <1>3, <1>4, <1>5, <1>6

\* The timer fires after the instant.
LEMMA TimerFiresKeeps ==
  ASSUME PrepInv, TimerFires
  PROVE  PrepInv'
  <1> USE DEF PrepInv, TypeOK, TimerFires, runVars, waitVars, PCs, Rounds,
          AllRounds, Calls
  <1>1. TypeOK'
    BY DEF PlaceInv, CallStates, Contents, NoStream
  <1>2. PlaceInv'
    BY DEF PlaceInv, AnswerInv, Id
  <1>3. AnswerInv'
    BY DEF AnswerInv, PlaceInv
  <1>4. AcceptedAnswerCounts'
    BY DEF AcceptedAnswerCounts, AnswerInv, PlaceInv
  <1>5. SentInv'
    BY DEF SentInv, SentCalls, NoCall, Id, Before, PlaceInv, Contents
  <1>6. CountInv'
    BY SentBound, SameSent, <1>1 DEF CountInv, Fresh, NoCall, Id, SentInv, SentCalls, Before
  <1> QED
    BY <1>1, <1>2, <1>3, <1>4, <1>5, <1>6

\* An answered round is followed by the next.
LEMMA AwaitAnsweredKeeps ==
  ASSUME PrepInv, AwaitAnswered
  PROVE  PrepInv'
  <1> USE DEF PrepInv, TypeOK, AwaitAnswered, NextRound, runVars, waitVars, PCs, Rounds,
          AllRounds, Calls
  <1>1. TypeOK'
    BY DEF PlaceInv, CallStates, Contents, NoStream
  <1>2. PlaceInv'
    BY DEF PlaceInv, AnswerInv, Id
  <1>3. AnswerInv'
    BY DEF AnswerInv, PlaceInv
  <1>4. AcceptedAnswerCounts'
    BY DEF AcceptedAnswerCounts, AnswerInv, PlaceInv
  <1>5. SentInv'
    <2> SUFFICES ASSUME NEW a \in SentCalls'
                 PROVE  a[1] < round' /\ proxy'[a] \in Contents
      BY DEF SentInv, NoCall
    <2>1. a \in SentCalls /\ a[1] \in Nat /\ a[2] \in Nat /\ proxy'[a] = proxy[a]
      BY DEF SentCalls
    <2>2. Id[1] = round /\ proxy[Id] = "questions" /\ round' = round + 1
      BY DEF Id, PlaceInv
    <2>3. a = Id \/ (Before(a, Id) /\ proxy[a] \in Contents)
      BY <2>1 DEF SentInv, NoCall
    <2> QED
      BY <2>1, <2>2, <2>3 DEF Before, Contents
  <1>6. CountInv'
    BY SentBound, SameSent, <1>1, SMTT(30) DEF CountInv, Fresh, NoCall, Id, SentInv, SentCalls, Before
  <1> QED
    BY <1>1, <1>2, <1>3, <1>4, <1>5, <1>6

\* An expired wait reads the answer once more.
LEMMA AwaitExpiredKeeps ==
  ASSUME PrepInv, AwaitExpired
  PROVE  PrepInv'
  <1> USE DEF PrepInv, TypeOK, AwaitExpired, runVars, waitVars, PCs, Rounds,
          AllRounds, Calls
  <1>1. TypeOK'
    BY DEF PlaceInv, CallStates, Contents, NoStream
  <1>2. PlaceInv'
    BY DEF PlaceInv, AnswerInv, Id
  <1>3. AnswerInv'
    BY DEF AnswerInv, PlaceInv
  <1>4. AcceptedAnswerCounts'
    BY DEF AcceptedAnswerCounts, AnswerInv, PlaceInv
  <1>5. SentInv'
    BY DEF SentInv, SentCalls, NoCall, Id, Before, PlaceInv, Contents
  <1>6. CountInv'
    BY SentBound, SameSent, <1>1 DEF CountInv, Fresh, NoCall, Id, SentInv, SentCalls, Before
  <1> QED
    BY <1>1, <1>2, <1>3, <1>4, <1>5, <1>6

\* A canceled wait ends the run.
LEMMA AwaitCanceledKeeps ==
  ASSUME PrepInv, AwaitCanceled
  PROVE  PrepInv'
  <1> USE DEF PrepInv, TypeOK, AwaitCanceled, Fail, runVars, waitVars, PCs, Rounds,
          AllRounds, Calls
  <1>1. TypeOK'
    BY DEF PlaceInv, CallStates, Contents, NoStream
  <1>2. PlaceInv'
    BY DEF PlaceInv, AnswerInv, Id
  <1>3. AnswerInv'
    BY DEF AnswerInv, PlaceInv
  <1>4. AcceptedAnswerCounts'
    BY DEF AcceptedAnswerCounts, AnswerInv, PlaceInv
  <1>5. SentInv'
    BY DEF SentInv, SentCalls, NoCall, Id, Before, PlaceInv, Contents
  <1>6. CountInv'
    BY SentBound, SameSent, <1>1 DEF CountInv, Fresh, NoCall, Id, SentInv, SentCalls, Before
  <1> QED
    BY <1>1, <1>2, <1>3, <1>4, <1>5, <1>6

\* An answer found late counts.
LEMMA LateFoundKeeps ==
  ASSUME PrepInv, LateFound
  PROVE  PrepInv'
  <1> USE DEF PrepInv, TypeOK, LateFound, NextRound, runVars, waitVars, PCs, Rounds,
          AllRounds, Calls
  <1>1. TypeOK'
    BY DEF PlaceInv, CallStates, Contents, NoStream
  <1>2. PlaceInv'
    BY DEF PlaceInv, AnswerInv, Id
  <1>3. AnswerInv'
    BY DEF AnswerInv, PlaceInv
  <1>4. AcceptedAnswerCounts'
    BY DEF AcceptedAnswerCounts, AnswerInv, PlaceInv
  <1>5. SentInv'
    <2> SUFFICES ASSUME NEW a \in SentCalls'
                 PROVE  a[1] < round' /\ proxy'[a] \in Contents
      BY DEF SentInv, NoCall
    <2>1. a \in SentCalls /\ a[1] \in Nat /\ a[2] \in Nat /\ proxy'[a] = proxy[a]
      BY DEF SentCalls
    <2>2. Id[1] = round /\ proxy[Id] = "questions" /\ round' = round + 1
      BY DEF Id, PlaceInv
    <2>3. a = Id \/ (Before(a, Id) /\ proxy[a] \in Contents)
      BY <2>1 DEF SentInv, NoCall
    <2> QED
      BY <2>1, <2>2, <2>3, SMTT(30) DEF Before, Contents
  <1>6. CountInv'
    BY SentBound, SameSent, <1>1, SMTT(30) DEF CountInv, Fresh, NoCall, Id, SentInv, SentCalls, Before
  <1> QED
    BY <1>1, <1>2, <1>3, <1>4, <1>5, <1>6

\* Without an answer the run expires.
LEMMA LateMissingKeeps ==
  ASSUME PrepInv, LateMissing
  PROVE  PrepInv'
  <1> USE DEF PrepInv, TypeOK, LateMissing, runVars, waitVars, PCs, Rounds,
          AllRounds, Calls
  <1>1. TypeOK'
    BY DEF PlaceInv, CallStates, Contents, NoStream
  <1>2. PlaceInv'
    BY DEF PlaceInv, AnswerInv, Id
  <1>3. AnswerInv'
    BY DEF AnswerInv, PlaceInv
  <1>4. AcceptedAnswerCounts'
    BY DEF AcceptedAnswerCounts, AnswerInv, PlaceInv
  <1>5. SentInv'
    BY DEF SentInv, SentCalls, NoCall, Id, Before, PlaceInv, Contents
  <1>6. CountInv'
    BY SentBound, SameSent, <1>1 DEF CountInv, Fresh, NoCall, Id, SentInv, SentCalls, Before
  <1> QED
    BY <1>1, <1>2, <1>3, <1>4, <1>5, <1>6

\* The references are frozen.
LEMMA FreezeReferencesKeeps ==
  ASSUME PrepInv, FreezeReferences
  PROVE  PrepInv'
  <1> USE DEF PrepInv, TypeOK, FreezeReferences, runVars, waitVars, PCs, Rounds,
          AllRounds, Calls
  <1>1. TypeOK'
    BY DEF PlaceInv, CallStates, Contents, NoStream
  <1>2. PlaceInv'
    BY DEF PlaceInv, AnswerInv, Id
  <1>3. AnswerInv'
    BY DEF AnswerInv, PlaceInv
  <1>4. AcceptedAnswerCounts'
    BY DEF AcceptedAnswerCounts, AnswerInv, PlaceInv
  <1>5. SentInv'
    BY DEF SentInv, SentCalls, NoCall, Id, Before, PlaceInv, Contents
  <1>6. CountInv'
    BY SentBound, SameSent, <1>1 DEF CountInv, Fresh, NoCall, Id, SentInv, SentCalls, Before
  <1> QED
    BY <1>1, <1>2, <1>3, <1>4, <1>5, <1>6

\* The brief is frozen with the answers of every round.
LEMMA FreezeBriefKeeps ==
  ASSUME PrepInv, FreezeBrief
  PROVE  PrepInv'
  <1> USE DEF PrepInv, TypeOK, FreezeBrief, runVars, waitVars, PCs, Rounds,
          AllRounds, Calls
  <1>1. TypeOK'
    BY DEF PlaceInv, CallStates, Contents, NoStream
  <1>2. PlaceInv'
    BY DEF PlaceInv, AnswerInv, Id
  <1>3. AnswerInv'
    BY DEF AnswerInv, PlaceInv
  <1>4. AcceptedAnswerCounts'
    BY DEF AcceptedAnswerCounts, AnswerInv, PlaceInv
  <1>5. SentInv'
    BY DEF SentInv, SentCalls, NoCall, Id, Before, PlaceInv, Contents
  <1>6. CountInv'
    BY SentBound, SameSent, <1>1 DEF CountInv, Fresh, NoCall, Id, SentInv, SentCalls, Before
  <1> QED
    BY <1>1, <1>2, <1>3, <1>4, <1>5, <1>6

\* The operation is settled.
LEMMA SettleKeeps ==
  ASSUME PrepInv, Settle
  PROVE  PrepInv'
  <1> USE DEF PrepInv, TypeOK, Settle, runVars, waitVars, PCs, Rounds,
          AllRounds, Calls
  <1>1. TypeOK'
    BY DEF PlaceInv, CallStates, Contents, NoStream
  <1>2. PlaceInv'
    BY DEF PlaceInv, AnswerInv, Id
  <1>3. AnswerInv'
    BY DEF AnswerInv, PlaceInv
  <1>4. AcceptedAnswerCounts'
    BY DEF AcceptedAnswerCounts, AnswerInv, PlaceInv
  <1>5. SentInv'
    BY DEF SentInv, SentCalls, NoCall, Id, Before, PlaceInv, Contents
  <1>6. CountInv'
    BY SentBound, SameSent, <1>1 DEF CountInv, Fresh, NoCall, Id, SentInv, SentCalls, Before
  <1> QED
    BY <1>1, <1>2, <1>3, <1>4, <1>5, <1>6

\* The handlers are awaited.
LEMMA HandlersDoneKeeps ==
  ASSUME PrepInv, HandlersDone
  PROVE  PrepInv'
  <1> USE DEF PrepInv, TypeOK, HandlersDone, runVars, waitVars, PCs, Rounds,
          AllRounds, Calls
  <1>1. TypeOK'
    BY DEF PlaceInv, CallStates, Contents, NoStream
  <1>2. PlaceInv'
    BY DEF PlaceInv, AnswerInv, Id
  <1>3. AnswerInv'
    BY DEF AnswerInv, PlaceInv
  <1>4. AcceptedAnswerCounts'
    BY DEF AcceptedAnswerCounts, AnswerInv, PlaceInv
  <1>5. SentInv'
    BY DEF SentInv, SentCalls, NoCall, Id, Before, PlaceInv, Contents
  <1>6. CountInv'
    BY SentBound, SameSent, <1>1 DEF CountInv, Fresh, NoCall, Id, SentInv, SentCalls, Before
  <1> QED
    BY <1>1, <1>2, <1>3, <1>4, <1>5, <1>6

\* An Update is of an accepted answer.
LEMMA UpdateArrivesKeeps ==
  ASSUME PrepInv, NEW r \in Rounds, UpdateArrives(r)
  PROVE  PrepInv'
  <1> USE DEF PrepInv, TypeOK, UpdateArrives, Applied, runVars, waitVars, PCs, Rounds,
          AllRounds, Calls
  <1>1. TypeOK'
    BY DEF PlaceInv, CallStates, Contents, NoStream
  <1>2. PlaceInv'
    BY DEF PlaceInv, AnswerInv, Id
  <1>3. AnswerInv'
    BY DEF AnswerInv, PlaceInv
  <1>4. AcceptedAnswerCounts'
    BY DEF AcceptedAnswerCounts, AnswerInv, PlaceInv
  <1>5. SentInv'
    BY DEF SentInv, SentCalls, NoCall, Id, Before, PlaceInv, Contents
  <1>6. CountInv'
    BY SentBound, SameSent, <1>1 DEF CountInv, Fresh, NoCall, Id, SentInv, SentCalls, Before
  <1> QED
    BY <1>1, <1>2, <1>3, <1>4, <1>5, <1>6

\* The handler applies the answer to the open set.
LEMMA HandlerAppliesKeeps ==
  ASSUME PrepInv, NEW r \in Rounds, HandlerApplies(r)
  PROVE  PrepInv'
  <1> USE DEF PrepInv, TypeOK, HandlerApplies, runVars, waitVars, PCs, Rounds,
          AllRounds, Calls
  <1>1. TypeOK'
    BY DEF PlaceInv, CallStates, Contents, NoStream
  <1>2. PlaceInv'
    BY DEF PlaceInv, AnswerInv, Id
  <1>3. AnswerInv'
    BY DEF AnswerInv, PlaceInv
  <1>4. AcceptedAnswerCounts'
    BY DEF AcceptedAnswerCounts, AnswerInv, PlaceInv
  <1>5. SentInv'
    BY DEF SentInv, SentCalls, NoCall, Id, Before, PlaceInv, Contents
  <1>6. CountInv'
    BY SentBound, SameSent, <1>1 DEF CountInv, Fresh, NoCall, Id, SentInv, SentCalls, Before
  <1> QED
    BY <1>1, <1>2, <1>3, <1>4, <1>5, <1>6

\* A rejected Update changes no answer.
LEMMA HandlerRejectsKeeps ==
  ASSUME PrepInv, NEW r \in Rounds, HandlerRejects(r)
  PROVE  PrepInv'
  <1> USE DEF PrepInv, TypeOK, HandlerRejects, runVars, waitVars, PCs, Rounds,
          AllRounds, Calls
  <1>1. TypeOK'
    BY DEF PlaceInv, CallStates, Contents, NoStream
  <1>2. PlaceInv'
    BY DEF PlaceInv, AnswerInv, Id
  <1>3. AnswerInv'
    BY DEF AnswerInv, PlaceInv
  <1>4. AcceptedAnswerCounts'
    BY DEF AcceptedAnswerCounts, AnswerInv, PlaceInv
  <1>5. SentInv'
    BY DEF SentInv, SentCalls, NoCall, Id, Before, PlaceInv, Contents
  <1>6. CountInv'
    BY SentBound, SameSent, <1>1 DEF CountInv, Fresh, NoCall, Id, SentInv, SentCalls, Before
  <1> QED
    BY <1>1, <1>2, <1>3, <1>4, <1>5, <1>6

\* Control accepts an answer before the instant only.
LEMMA AcceptAnswerKeeps ==
  ASSUME PrepInv, NEW r \in Rounds, AcceptAnswer(r)
  PROVE  PrepInv'
  <1> USE DEF PrepInv, TypeOK, AcceptAnswer, runVars, waitVars, PCs, Rounds,
          AllRounds, Calls
  <1>1. TypeOK'
    BY DEF PlaceInv, CallStates, Contents, NoStream
  <1>2. PlaceInv'
    BY DEF PlaceInv, AnswerInv, Id
  <1>3. AnswerInv'
    BY DEF AnswerInv, PlaceInv
  <1>4. AcceptedAnswerCounts'
    BY DEF AcceptedAnswerCounts, AnswerInv, PlaceInv
  <1>5. SentInv'
    BY DEF SentInv, SentCalls, NoCall, Id, Before, PlaceInv, Contents
  <1>6. CountInv'
    BY SentBound, SameSent, <1>1 DEF CountInv, Fresh, NoCall, Id, SentInv, SentCalls, Before
  <1> QED
    BY <1>1, <1>2, <1>3, <1>4, <1>5, <1>6

\* The instant passes.
LEMMA InstantPassesKeeps ==
  ASSUME PrepInv, NEW r \in Rounds, InstantPasses(r)
  PROVE  PrepInv'
  <1> USE DEF PrepInv, TypeOK, InstantPasses, runVars, waitVars, PCs, Rounds,
          AllRounds, Calls
  <1>1. TypeOK'
    BY DEF PlaceInv, CallStates, Contents, NoStream
  <1>2. PlaceInv'
    BY DEF PlaceInv, AnswerInv, Id
  <1>3. AnswerInv'
    BY DEF AnswerInv, PlaceInv
  <1>4. AcceptedAnswerCounts'
    BY DEF AcceptedAnswerCounts, AnswerInv, PlaceInv
  <1>5. SentInv'
    BY DEF SentInv, SentCalls, NoCall, Id, Before, PlaceInv, Contents
  <1>6. CountInv'
    BY SentBound, SameSent, <1>1 DEF CountInv, Fresh, NoCall, Id, SentInv, SentCalls, Before
  <1> QED
    BY <1>1, <1>2, <1>3, <1>4, <1>5, <1>6

\* A call ends once.
LEMMA CallEndsKeeps ==
  ASSUME PrepInv, NEW id \in AllRounds \X Calls, CallEnds(id)
  PROVE  PrepInv'
  <1> USE DEF PrepInv, TypeOK, CallEnds, runVars, waitVars, PCs, Rounds,
          AllRounds, Calls
  <1>1. TypeOK'
    BY DEF PlaceInv, CallStates, Contents, NoStream
  <1>2. PlaceInv'
    BY DEF PlaceInv, AnswerInv, Id
  <1>3. AnswerInv'
    BY DEF AnswerInv, PlaceInv
  <1>4. AcceptedAnswerCounts'
    BY DEF AcceptedAnswerCounts, AnswerInv, PlaceInv
  <1>5. SentInv'
    BY DEF SentInv, SentCalls, NoCall, Id, Before, PlaceInv, Contents
  <1>6. CountInv'
    <2>1. SentCalls' = SentCalls
      BY <1>1, SameSent DEF Contents
    <2>2. Fresh' = Fresh
      BY DEF Fresh, NoCall, Id, Contents
    <2> QED
      BY <2>1, <2>2 DEF CountInv
  <1> QED
    BY <1>1, <1>2, <1>3, <1>4, <1>5, <1>6

\* A cancellation changes nothing recorded.
LEMMA CancelKeeps ==
  ASSUME PrepInv, Cancel
  PROVE  PrepInv'
  <1> USE DEF PrepInv, TypeOK, Cancel, runVars, waitVars, PCs, Rounds,
          AllRounds, Calls
  <1>1. TypeOK'
    BY DEF PlaceInv, CallStates, Contents, NoStream
  <1>2. PlaceInv'
    BY DEF PlaceInv, AnswerInv, Id
  <1>3. AnswerInv'
    BY DEF AnswerInv, PlaceInv
  <1>4. AcceptedAnswerCounts'
    BY DEF AcceptedAnswerCounts, AnswerInv, PlaceInv
  <1>5. SentInv'
    BY DEF SentInv, SentCalls, NoCall, Id, Before, PlaceInv, Contents
  <1>6. CountInv'
    BY SentBound, SameSent, <1>1 DEF CountInv, Fresh, NoCall, Id, SentInv, SentCalls, Before
  <1> QED
    BY <1>1, <1>2, <1>3, <1>4, <1>5, <1>6

LEMMA InitHolds == Init => PrepInv
  <1> SUFFICES ASSUME Init
               PROVE  PrepInv
    OBVIOUS
  <1> USE DEF Init, NoAnswers, Rounds, AllRounds, Calls
  <1>1. TypeOK
    <2>1. proxy \in [AllRounds \X Calls -> CallStates]
      BY DEF CallStates
    <2>2. sets \in [Rounds -> {"none", "open", "past"}]
          /\ update \in [Rounds -> {"none", "handling", "applied", "rejected"}]
          /\ answers \in [Rounds -> 0 .. MaxRounds] /\ brief \in [Rounds -> 0 .. MaxRounds]
      OBVIOUS
    <2>3. /\ pc \in PCs /\ next \in {"ask", "freeze", "settle"}
          /\ outcome \in {"failed", "expired", "canceled", "succeeded"}
          /\ answered \in BOOLEAN /\ expired \in BOOLEAN /\ canceled \in BOOLEAN
      BY DEF PCs
    <2>4. /\ round \in 1 .. MaxRounds + 1 /\ call \in 1 .. Allowance + 1
          /\ repairs \in 0 .. Allowance /\ stream \in 0 .. NoStream
          /\ open \in 0 .. MaxRounds /\ accepted \in SUBSET (1 .. MaxRounds)
      BY DEF NoStream
    <2> QED
      BY <2>1, <2>2, <2>3, <2>4 DEF TypeOK
  <1>2. SentCalls = {}
    BY DEF SentCalls
  <1>3. PlaceInv /\ AnswerInv /\ SentInv
    BY <1>2 DEF PlaceInv, AnswerInv, SentInv
  <1>4. CountInv
    BY <1>2, FS_EmptySet DEF CountInv, Fresh, NoCall
  <1>5. AcceptedAnswerCounts
    BY DEF AcceptedAnswerCounts
  <1> QED
    BY <1>1, <1>3, <1>4, <1>5 DEF PrepInv

LEMMA StutterKeeps ==
  ASSUME PrepInv, UNCHANGED vars
  PROVE  PrepInv'
  BY DEF PrepInv, TypeOK, PlaceInv, AnswerInv, SentInv, CountInv, SentCalls, Fresh,
         NoCall, Id, Before, AcceptedAnswerCounts, vars, runVars, waitVars

LEMMA StepKeeps ==
  ASSUME PrepInv, [Next]_vars
  PROVE  PrepInv'
  <1>1. CASE CallStep
    BY <1>1, OpenStreamKeeps, FrameArrivesKeeps, StreamEndsKeeps, CallFailsKeeps,
       CallRepairedKeeps, CallAnsweredKeeps DEF CallStep
  <1>2. CASE Proceed
    BY <1>2, FundedKeeps, OpenAttemptKeeps, CloseAttemptKeeps, SetRecordedKeeps,
       BeginWaitKeeps, TimerFiresKeeps, AwaitAnsweredKeeps, AwaitExpiredKeeps,
       AwaitCanceledKeeps, LateFoundKeeps, LateMissingKeeps,
       FreezeReferencesKeeps, FreezeBriefKeeps, SettleKeeps DEF Proceed
  <1>3. CASE Environment
    BY <1>3, AcceptAnswerKeeps, InstantPassesKeeps, UpdateArrivesKeeps,
       CallEndsKeeps, CancelKeeps DEF Environment
  <1>4. CASE \E r \in Rounds : Handler(r)
    BY <1>4, HandlerAppliesKeeps, HandlerRejectsKeeps DEF Handler
  <1>5. CASE ActivityFails \/ HandlersDone
    BY <1>5, ActivityFailsKeeps, HandlersDoneKeeps
  <1>6. CASE Ended \/ UNCHANGED vars
    BY <1>6, StutterKeeps DEF Ended
  <1> QED
    BY <1>1, <1>2, <1>3, <1>4, <1>5, <1>6 DEF Next

\* The inductive invariant of a Preparation run, for any bounds.
THEOREM Invariance == Spec => []PrepInv
  <1>1. Init => PrepInv
    BY InitHolds
  <1>2. PrepInv /\ [Next]_vars => PrepInv'
    BY StepKeeps
  <1> QED
    BY <1>1, <1>2, PTL DEF Spec

\* Every variable keeps its type: no round after the one that must conclude,
\* no call beyond the allowance.
THEOREM TypeCorrect == Spec => []TypeOK
  <1>1. PrepInv => TypeOK
    BY DEF PrepInv
  <1> QED
    BY <1>1, Invariance, PTL

\* An answer Control accepted before the expiry counts, wherever its Update
\* is; a frozen brief has the answer of every round that asked.
THEOREM AnswersCount == Spec => []AcceptedAnswerCounts
  <1>1. PrepInv => AcceptedAnswerCounts
    BY DEF PrepInv
  <1> QED
    BY <1>1, Invariance, PTL

\* No call follows one that is unknown, failed or under way, and all rounds
\* share one repair allowance.
THEOREM CallsInOrder == Spec => []CallsFollow
  <1>1. PrepInv => CallsFollow
    <2> SUFFICES ASSUME PrepInv
                 PROVE  CallsFollow
      OBVIOUS
    <2>1. ASSUME NEW a \in SentCalls, NEW b \in SentCalls, Before(a, b)
          PROVE  proxy[a] \in Contents
      BY <2>1 DEF PrepInv, TypeOK, SentInv, SentCalls, NoCall, Id, Before, AllRounds, Calls
    <2>2. Cardinality(SentCalls) <= MaxRounds + 1 + Allowance
      BY SentBound DEF PrepInv, TypeOK, CountInv, AllRounds
    <2> QED
      BY <2>1, <2>2 DEF CallsFollow
  <1> QED
    BY <1>1, Invariance, PTL
=============================================================================
