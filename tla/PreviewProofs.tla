--------------------------- MODULE PreviewProofs ---------------------------
(***************************************************************************)
(* What holds of a PreviewBuild run whatever the number of revisions: PInv *)
(* is inductive (one lemma per action), so every variable keeps its type,  *)
(* a preview recorded ready was the current revision when its build was    *)
(* over and the projection tells the truth about the source.               *)
(***************************************************************************)
EXTENDS Preview, TLAPS

\* The save runs only at its place; the authority's answer under the effect
\* does not change, and what the run knows of a save is that answer.
SaveInv ==
  /\ save # "idle" => pc = "save"
  /\ ours.state \in {"none", "saved", "conflict"}
  /\ ours.state = "saved" => ours.revision # 0 /\ ours.revision <= lineage
  /\ ours.state = "conflict" => ours.revision # Base
  /\ saved.state \in {"saved", "conflict"} => saved = ours
  /\ save = "observe" => ours.state # "none"

\* Where the run is, and how many records were applied.
RecordInv ==
  /\ pc = "read" => written = 0
  /\ pc \in {"open", "save", "close"} => written = 1
  /\ pc \in {"build", "current"} => written = 2
  /\ pc = "record" => written <= 2 /\ recorded \in {written, written + 1}
  /\ pc = "record" /\ todo.state = "saving" => written = 0
  /\ pc = "record" /\ todo.state = "building" => written = 1
  /\ pc \notin {"record", "settle", "done"} => recorded = written
  /\ pc = "record" /\ recorded > written => projection = todo
  /\ recorded = 0 => projection = NoRecord
  /\ recorded > 0 /\ projection.state \notin {"saving", "building"}
     => pc \in {"settle", "done"} \/ (pc = "record" /\ recorded > written)
  /\ outcome = "succeeded" => pc \in {"settle", "done"}

\* What is about to be recorded is true.
TodoInv ==
  pc = "record" =>
    /\ todo.source # 0 => ours = [state |-> "saved", revision |-> todo.source]
    /\ todo.state = "failed" => todo.source = SavedRevision
    /\ todo.state = "conflict" => ours.state = "conflict" /\ todo.current # Base
    /\ todo.state = "ready" => ~superseded
    /\ todo.state = "stale" => todo.current > todo.source

\* A build is of the saved revision, and what superseded it stays newer.
BuildInv ==
  /\ pc \in {"build", "current"} => saved.state = "saved"
  /\ pc = "record" /\ todo.state = "building" => saved.state = "saved"
  /\ superseded => saved.state = "saved" /\ lineage > saved.revision
  /\ \/ pc \in {"read", "open", "save", "close", "build"}
     \/ pc = "record" /\ todo.state \in {"saving", "building"}
     => ~superseded

PInv ==
  /\ TypeOK /\ SaveInv /\ RecordInv /\ TodoInv /\ BuildInv
  /\ ReadyWasCurrent /\ ProjectionIsTrue

USE MaxRevisionAssumption

\* The source is read before anything is recorded.
LEMMA ReadSourceKeeps ==
  ASSUME PInv, ReadSource
  PROVE  PInv'
  <1> USE DEF PInv, TypeOK, ReadSource, Record, Saves, Records, RecordStates,
          MaybeRevision, Revisions, MaxRecords, Base, saveVars, recordVars
  <1>1. TypeOK'
    BY DEF SaveInv, RecordInv, BuildInv
  <1>2. SaveInv'
    BY DEF SaveInv
  <1>3. RecordInv'
    BY DEF RecordInv, NoRecord
  <1>4. TodoInv'
    BY DEF TodoInv, SavedRevision, SaveInv, RecordInv, BuildInv
  <1>5. BuildInv'
    BY DEF BuildInv, RecordInv, SaveInv
  <1>6. ReadyWasCurrent' /\ ProjectionIsTrue'
    BY DEF ReadyWasCurrent, ProjectionIsTrue, TodoInv, RecordInv, SaveInv,
           SavedRevision, NoRecord
  <1> QED
    BY <1>1, <1>2, <1>3, <1>4, <1>5, <1>6

\* Control applies the record the run is making.
LEMMA ControlRecordsKeeps ==
  ASSUME PInv, ControlRecords
  PROVE  PInv'
  <1> USE DEF PInv, TypeOK, ControlRecords, Saves, Records, RecordStates,
          MaybeRevision, Revisions, MaxRecords, Base, saveVars, recordVars
  <1>1. TypeOK'
    BY DEF SaveInv, RecordInv, BuildInv
  <1>2. SaveInv'
    BY DEF SaveInv
  <1>3. RecordInv'
    BY DEF RecordInv, NoRecord
  <1>4. TodoInv'
    BY DEF TodoInv, SavedRevision, SaveInv, RecordInv, BuildInv
  <1>5. BuildInv'
    BY DEF BuildInv, RecordInv, SaveInv
  <1>6. ReadyWasCurrent' /\ ProjectionIsTrue'
    BY DEF ReadyWasCurrent, ProjectionIsTrue, TodoInv, RecordInv, SaveInv,
           SavedRevision, NoRecord
  <1> QED
    BY <1>1, <1>2, <1>3, <1>4, <1>5, <1>6

\* The run goes on with the record Control applied.
LEMMA RecordReturnsKeeps ==
  ASSUME PInv, RecordReturns
  PROVE  PInv'
  <1> USE DEF PInv, TypeOK, RecordReturns, Saves, Records, RecordStates,
          MaybeRevision, Revisions, MaxRecords, Base, saveVars, recordVars
  <1>1. TypeOK'
    BY DEF SaveInv, RecordInv, BuildInv
  <1>2. SaveInv'
    BY DEF SaveInv
  <1>3. RecordInv'
    BY DEF RecordInv, NoRecord
  <1>4. TodoInv'
    BY DEF TodoInv, SavedRevision, SaveInv, RecordInv, BuildInv
  <1>5. BuildInv'
    BY DEF BuildInv, RecordInv, SaveInv
  <1>6. ReadyWasCurrent' /\ ProjectionIsTrue'
    BY DEF ReadyWasCurrent, ProjectionIsTrue, TodoInv, RecordInv, SaveInv,
           SavedRevision, NoRecord
  <1> QED
    BY <1>1, <1>2, <1>3, <1>4, <1>5, <1>6

\* A refused read or record ends the run.
LEMMA ReadOrRecordFailsKeeps ==
  ASSUME PInv, ReadOrRecordFails
  PROVE  PInv'
  <1> USE DEF PInv, TypeOK, ReadOrRecordFails, ErrorOutcome, Saves, Records, RecordStates,
          MaybeRevision, Revisions, MaxRecords, Base, saveVars, recordVars
  <1>1. TypeOK'
    BY DEF SaveInv, RecordInv, BuildInv
  <1>2. SaveInv'
    BY DEF SaveInv
  <1>3. RecordInv'
    BY DEF RecordInv, NoRecord
  <1>4. TodoInv'
    BY DEF TodoInv, SavedRevision, SaveInv, RecordInv, BuildInv
  <1>5. BuildInv'
    BY DEF BuildInv, RecordInv, SaveInv
  <1>6. ReadyWasCurrent' /\ ProjectionIsTrue'
    BY DEF ReadyWasCurrent, ProjectionIsTrue, TodoInv, RecordInv, SaveInv,
           SavedRevision, NoRecord
  <1> QED
    BY <1>1, <1>2, <1>3, <1>4, <1>5, <1>6

\* The save starts with the attempt that owns it.
LEMMA OpenSaveKeeps ==
  ASSUME PInv, OpenSave
  PROVE  PInv'
  <1> USE DEF PInv, TypeOK, OpenSave, Saves, Records, RecordStates,
          MaybeRevision, Revisions, MaxRecords, Base, saveVars, recordVars
  <1>1. TypeOK'
    BY DEF SaveInv, RecordInv, BuildInv
  <1>2. SaveInv'
    BY DEF SaveInv
  <1>3. RecordInv'
    BY DEF RecordInv, NoRecord
  <1>4. TodoInv'
    BY DEF TodoInv, SavedRevision, SaveInv, RecordInv, BuildInv
  <1>5. BuildInv'
    BY DEF BuildInv, RecordInv, SaveInv
  <1>6. ReadyWasCurrent' /\ ProjectionIsTrue'
    BY DEF ReadyWasCurrent, ProjectionIsTrue, TodoInv, RecordInv, SaveInv,
           SavedRevision, NoRecord
  <1> QED
    BY <1>1, <1>2, <1>3, <1>4, <1>5, <1>6

\* A failure names the saved revision, if there is one.
LEMMA OpenOrCurrentFailsKeeps ==
  ASSUME PInv, OpenOrCurrentFails
  PROVE  PInv'
  <1> USE DEF PInv, TypeOK, OpenOrCurrentFails, FailRecord, Record, Saves, Records, RecordStates,
          MaybeRevision, Revisions, MaxRecords, Base, saveVars, recordVars
  <1>1. TypeOK'
    BY DEF SavedRevision
  <1>2. SaveInv'
    BY DEF SaveInv
  <1>3. RecordInv'
    BY DEF RecordInv, NoRecord
  <1>4. TodoInv'
    BY DEF TodoInv, SavedRevision, SaveInv, RecordInv, BuildInv
  <1>5. BuildInv'
    BY DEF BuildInv, RecordInv, SaveInv
  <1>6. ReadyWasCurrent' /\ ProjectionIsTrue'
    BY DEF ReadyWasCurrent, ProjectionIsTrue, TodoInv, RecordInv, SaveInv,
           SavedRevision, NoRecord
  <1> QED
    BY <1>1, <1>2, <1>3, <1>4, <1>5, <1>6

\* The permit says nothing about the source yet.
LEMMA PermitKeeps ==
  ASSUME PInv, Permit
  PROVE  PInv'
  <1> USE DEF PInv, TypeOK, Permit, Saves, Records, RecordStates,
          MaybeRevision, Revisions, MaxRecords, Base, saveVars, recordVars
  <1>1. TypeOK'
    BY DEF SaveInv, RecordInv, BuildInv
  <1>2. SaveInv'
    BY DEF SaveInv
  <1>3. RecordInv'
    BY DEF RecordInv, NoRecord
  <1>4. TodoInv'
    BY DEF TodoInv, SavedRevision, SaveInv, RecordInv, BuildInv
  <1>5. BuildInv'
    BY DEF BuildInv, RecordInv, SaveInv
  <1>6. ReadyWasCurrent' /\ ProjectionIsTrue'
    BY DEF ReadyWasCurrent, ProjectionIsTrue, TodoInv, RecordInv, SaveInv,
           SavedRevision, NoRecord
  <1> QED
    BY <1>1, <1>2, <1>3, <1>4, <1>5, <1>6

\* A denied save names no revision.
LEMMA DenyKeeps ==
  ASSUME PInv, Deny
  PROVE  PInv'
  <1> USE DEF PInv, TypeOK, Deny, Return, Without, Saves, Records, RecordStates,
          MaybeRevision, Revisions, MaxRecords, Base, saveVars, recordVars
  <1>1. TypeOK'
    BY DEF SaveInv, RecordInv, BuildInv
  <1>2. SaveInv'
    BY DEF SaveInv
  <1>3. RecordInv'
    BY DEF RecordInv, SaveInv, NoRecord
  <1>4. TodoInv'
    BY DEF TodoInv, SavedRevision, SaveInv, RecordInv, BuildInv
  <1>5. BuildInv'
    BY DEF BuildInv, RecordInv, SaveInv
  <1>6. ReadyWasCurrent' /\ ProjectionIsTrue'
    BY DEF ReadyWasCurrent, ProjectionIsTrue, TodoInv, RecordInv, SaveInv,
           SavedRevision, NoRecord
  <1> QED
    BY <1>1, <1>2, <1>3, <1>4, <1>5, <1>6

\* An execution that finds the permit consumed asks.
LEMMA FindPermittedKeeps ==
  ASSUME PInv, FindPermitted
  PROVE  PInv'
  <1> USE DEF PInv, TypeOK, FindPermitted, Saves, Records, RecordStates,
          MaybeRevision, Revisions, MaxRecords, Base, saveVars, recordVars
  <1>1. TypeOK'
    BY DEF SaveInv, RecordInv, BuildInv
  <1>2. SaveInv'
    BY DEF SaveInv
  <1>3. RecordInv'
    BY DEF RecordInv, NoRecord
  <1>4. TodoInv'
    BY DEF TodoInv, SavedRevision, SaveInv, RecordInv, BuildInv
  <1>5. BuildInv'
    BY DEF BuildInv, RecordInv, SaveInv
  <1>6. ReadyWasCurrent' /\ ProjectionIsTrue'
    BY DEF ReadyWasCurrent, ProjectionIsTrue, TodoInv, RecordInv, SaveInv,
           SavedRevision, NoRecord
  <1> QED
    BY <1>1, <1>2, <1>3, <1>4, <1>5, <1>6

\* A send is on its way.
LEMMA SendKeeps ==
  ASSUME PInv, Send
  PROVE  PInv'
  <1> USE DEF PInv, TypeOK, Send, Saves, Records, RecordStates,
          MaybeRevision, Revisions, MaxRecords, Base, saveVars, recordVars
  <1>1. TypeOK'
    BY DEF SaveInv, RecordInv, BuildInv
  <1>2. SaveInv'
    BY DEF SaveInv
  <1>3. RecordInv'
    BY DEF RecordInv, NoRecord
  <1>4. TodoInv'
    BY DEF TodoInv, SavedRevision, SaveInv, RecordInv, BuildInv
  <1>5. BuildInv'
    BY DEF BuildInv, RecordInv, SaveInv
  <1>6. ReadyWasCurrent' /\ ProjectionIsTrue'
    BY DEF ReadyWasCurrent, ProjectionIsTrue, TodoInv, RecordInv, SaveInv,
           SavedRevision, NoRecord
  <1> QED
    BY <1>1, <1>2, <1>3, <1>4, <1>5, <1>6

\* The source authority answers the effect once.
LEMMA SourceSavesKeeps ==
  ASSUME PInv, SourceSaves
  PROVE  PInv'
  <1> USE DEF PInv, TypeOK, SourceSaves, Saves, Records, RecordStates,
          MaybeRevision, Revisions, MaxRecords, Base, saveVars, recordVars
  <1>1. TypeOK'
    <2>1. flying' \in BOOLEAN
      BY Zenon
    <2>2. ours' \in Saves /\ lineage' \in Revisions
      OBVIOUS
    <2>3. pc' = pc /\ save' = save /\ effect' = effect /\ saved' = saved
          /\ superseded' = superseded /\ outcome' = outcome /\ canceled' = canceled
      OBVIOUS
    <2>4. todo' = todo /\ written' = written /\ projection' = projection
          /\ recorded' = recorded
      OBVIOUS
    <2> HIDE DEF PInv, SourceSaves, Saves, Records, RecordStates, MaybeRevision, Revisions,
                 MaxRecords, saveVars, recordVars
    <2>5. TypeOK
      BY DEF PInv
    <2> QED
      BY <2>1, <2>2, <2>3, <2>4, <2>5
  <1>2. SaveInv'
    BY DEF SaveInv
  <1>3. RecordInv'
    BY DEF RecordInv, NoRecord
  <1>4. TodoInv'
    BY DEF TodoInv, SavedRevision, SaveInv, RecordInv, BuildInv
  <1>5. BuildInv'
    BY DEF BuildInv, RecordInv, SaveInv
  <1>6. ReadyWasCurrent' /\ ProjectionIsTrue'
    BY DEF ReadyWasCurrent, ProjectionIsTrue, TodoInv, RecordInv, SaveInv,
           SavedRevision, NoRecord
  <1> QED
    BY <1>1, <1>2, <1>3, <1>4, <1>5, <1>6

\* A lost send did nothing.
LEMMA SendLostKeeps ==
  ASSUME PInv, SendLost
  PROVE  PInv'
  <1> USE DEF PInv, TypeOK, SendLost, Saves, Records, RecordStates,
          MaybeRevision, Revisions, MaxRecords, Base, saveVars, recordVars
  <1>1. TypeOK'
    <2>1. flying' \in BOOLEAN
      BY Zenon
    <2>2. ours' = ours /\ lineage' = lineage
      OBVIOUS
    <2>3. pc' = pc /\ save' = save /\ effect' = effect /\ saved' = saved
          /\ superseded' = superseded /\ outcome' = outcome /\ canceled' = canceled
      OBVIOUS
    <2>4. todo' = todo /\ written' = written /\ projection' = projection
          /\ recorded' = recorded
      OBVIOUS
    <2> HIDE DEF PInv, SendLost, Saves, Records, RecordStates, MaybeRevision, Revisions,
                 MaxRecords, saveVars, recordVars
    <2>5. TypeOK
      BY DEF PInv
    <2> QED
      BY <2>1, <2>2, <2>3, <2>4, <2>5
  <1>2. SaveInv'
    BY DEF SaveInv
  <1>3. RecordInv'
    BY DEF RecordInv, NoRecord
  <1>4. TodoInv'
    BY DEF TodoInv, SavedRevision, SaveInv, RecordInv, BuildInv
  <1>5. BuildInv'
    BY DEF BuildInv, RecordInv, SaveInv
  <1>6. ReadyWasCurrent' /\ ProjectionIsTrue'
    BY DEF ReadyWasCurrent, ProjectionIsTrue, TodoInv, RecordInv, SaveInv,
           SavedRevision, NoRecord
  <1> QED
    BY <1>1, <1>2, <1>3, <1>4, <1>5, <1>6

\* What is answered is what the authority did.
LEMMA SendAnsweredKeeps ==
  ASSUME PInv, SendAnswered
  PROVE  PInv'
  <1> USE DEF PInv, TypeOK, SendAnswered, Saves, Records, RecordStates,
          MaybeRevision, Revisions, MaxRecords, Base, saveVars, recordVars
  <1>1. TypeOK'
    BY DEF SaveInv, RecordInv, BuildInv
  <1>2. SaveInv'
    BY DEF SaveInv
  <1>3. RecordInv'
    BY DEF RecordInv, NoRecord
  <1>4. TodoInv'
    BY DEF TodoInv, SavedRevision, SaveInv, RecordInv, BuildInv
  <1>5. BuildInv'
    BY DEF BuildInv, RecordInv, SaveInv
  <1>6. ReadyWasCurrent' /\ ProjectionIsTrue'
    BY DEF ReadyWasCurrent, ProjectionIsTrue, TodoInv, RecordInv, SaveInv,
           SavedRevision, NoRecord
  <1> QED
    BY <1>1, <1>2, <1>3, <1>4, <1>5, <1>6

\* An unknown save names no revision.
LEMMA QueryUnknownKeeps ==
  ASSUME PInv, QueryUnknown
  PROVE  PInv'
  <1> USE DEF PInv, TypeOK, QueryUnknown, Return, Without, Saves, Records, RecordStates,
          MaybeRevision, Revisions, MaxRecords, Base, saveVars, recordVars
  <1>1. TypeOK'
    BY DEF SaveInv, RecordInv, BuildInv
  <1>2. SaveInv'
    BY DEF SaveInv
  <1>3. RecordInv'
    BY DEF RecordInv, SaveInv, NoRecord
  <1>4. TodoInv'
    BY DEF TodoInv, SavedRevision, SaveInv, RecordInv, BuildInv
  <1>5. BuildInv'
    BY DEF BuildInv, RecordInv, SaveInv
  <1>6. ReadyWasCurrent' /\ ProjectionIsTrue'
    BY DEF ReadyWasCurrent, ProjectionIsTrue, TodoInv, RecordInv, SaveInv,
           SavedRevision, NoRecord
  <1> QED
    BY <1>1, <1>2, <1>3, <1>4, <1>5, <1>6

\* The original identity's answer is what the authority did.
LEMMA QueryKnownKeeps ==
  ASSUME PInv, QueryKnown
  PROVE  PInv'
  <1> USE DEF PInv, TypeOK, QueryKnown, Return, Saves, Records, RecordStates,
          MaybeRevision, Revisions, MaxRecords, Base, saveVars, recordVars
  <1>1. TypeOK'
    BY DEF SaveInv, RecordInv, BuildInv
  <1>2. SaveInv'
    BY DEF SaveInv
  <1>3. RecordInv'
    BY DEF RecordInv, SaveInv, NoRecord
  <1>4. TodoInv'
    BY DEF TodoInv, SavedRevision, SaveInv, RecordInv, BuildInv
  <1>5. BuildInv'
    BY DEF BuildInv, RecordInv, SaveInv
  <1>6. ReadyWasCurrent' /\ ProjectionIsTrue'
    BY DEF ReadyWasCurrent, ProjectionIsTrue, TodoInv, RecordInv, SaveInv,
           SavedRevision, NoRecord
  <1> QED
    BY <1>1, <1>2, <1>3, <1>4, <1>5, <1>6

\* What the run hears is what the authority did.
LEMMA ObserveKeeps ==
  ASSUME PInv, Observe
  PROVE  PInv'
  <1> USE DEF PInv, TypeOK, Observe, Return, Saves, Records, RecordStates,
          MaybeRevision, Revisions, MaxRecords, Base, saveVars, recordVars
  <1>1. TypeOK'
    BY DEF SaveInv, RecordInv, BuildInv
  <1>2. SaveInv'
    BY DEF SaveInv
  <1>3. RecordInv'
    BY DEF RecordInv, SaveInv, NoRecord
  <1>4. TodoInv'
    BY DEF TodoInv, SavedRevision, SaveInv, RecordInv, BuildInv
  <1>5. BuildInv'
    BY DEF BuildInv, RecordInv, SaveInv
  <1>6. ReadyWasCurrent' /\ ProjectionIsTrue'
    BY DEF ReadyWasCurrent, ProjectionIsTrue, TodoInv, RecordInv, SaveInv,
           SavedRevision, NoRecord
  <1> QED
    BY <1>1, <1>2, <1>3, <1>4, <1>5, <1>6

\* A retry forgets the execution, not the effect.
LEMMA SaveRetriedKeeps ==
  ASSUME PInv, SaveRetried
  PROVE  PInv'
  <1> USE DEF PInv, TypeOK, SaveRetried, Saves, Records, RecordStates,
          MaybeRevision, Revisions, MaxRecords, Base, saveVars, recordVars
  <1>1. TypeOK'
    BY DEF SaveInv, RecordInv, BuildInv
  <1>2. SaveInv'
    BY DEF SaveInv
  <1>3. RecordInv'
    BY DEF RecordInv, NoRecord
  <1>4. TodoInv'
    BY DEF TodoInv, SavedRevision, SaveInv, RecordInv, BuildInv
  <1>5. BuildInv'
    BY DEF BuildInv, RecordInv, SaveInv
  <1>6. ReadyWasCurrent' /\ ProjectionIsTrue'
    BY DEF ReadyWasCurrent, ProjectionIsTrue, TodoInv, RecordInv, SaveInv,
           SavedRevision, NoRecord
  <1> QED
    BY <1>1, <1>2, <1>3, <1>4, <1>5, <1>6

\* A failed save names no revision.
LEMMA SaveFailsKeeps ==
  ASSUME PInv, SaveFails
  PROVE  PInv'
  <1> USE DEF PInv, TypeOK, SaveFails, Return, Without, Saves, Records, RecordStates,
          MaybeRevision, Revisions, MaxRecords, Base, saveVars, recordVars
  <1>1. TypeOK'
    BY DEF SaveInv, RecordInv, BuildInv
  <1>2. SaveInv'
    BY DEF SaveInv
  <1>3. RecordInv'
    BY DEF RecordInv, NoRecord
  <1>4. TodoInv'
    BY DEF TodoInv, SavedRevision, SaveInv, RecordInv, BuildInv
  <1>5. BuildInv'
    BY DEF BuildInv, RecordInv, SaveInv
  <1>6. ReadyWasCurrent' /\ ProjectionIsTrue'
    BY DEF ReadyWasCurrent, ProjectionIsTrue, TodoInv, RecordInv, SaveInv,
           SavedRevision, NoRecord
  <1> QED
    BY <1>1, <1>2, <1>3, <1>4, <1>5, <1>6

\* The record after the save says what the save did.
LEMMA CloseSaveKeeps ==
  ASSUME PInv, CloseSave
  PROVE  PInv'
  <1> USE DEF PInv, TypeOK, CloseSave, Record, FailRecord, Saves, Records, RecordStates,
          MaybeRevision, Revisions, MaxRecords, Base, saveVars, recordVars
  <1>1. TypeOK'
    <2>1. saved.revision \in MaybeRevision /\ SavedRevision \in MaybeRevision
      BY DEF SavedRevision
    <2> QED
      BY <2>1
  <1>2. SaveInv'
    BY DEF SaveInv
  <1>3. RecordInv'
    BY DEF RecordInv, NoRecord
  <1>4. TodoInv'
    BY DEF TodoInv, SavedRevision, SaveInv, RecordInv, BuildInv
  <1>5. BuildInv'
    BY DEF BuildInv, RecordInv, SaveInv
  <1>6. ReadyWasCurrent' /\ ProjectionIsTrue'
    BY DEF ReadyWasCurrent, ProjectionIsTrue, TodoInv, RecordInv, SaveInv,
           SavedRevision, NoRecord
  <1> QED
    BY <1>1, <1>2, <1>3, <1>4, <1>5, <1>6

\* The build ends, superseded or not.
LEMMA BuildSucceedsKeeps ==
  ASSUME PInv, BuildSucceeds
  PROVE  PInv'
  <1> USE DEF PInv, TypeOK, BuildSucceeds, Saves, Records, RecordStates,
          MaybeRevision, Revisions, MaxRecords, Base, saveVars, recordVars
  <1>1. TypeOK'
    BY DEF SaveInv, RecordInv, BuildInv
  <1>2. SaveInv'
    BY DEF SaveInv
  <1>3. RecordInv'
    BY DEF RecordInv, NoRecord
  <1>4. TodoInv'
    BY DEF TodoInv, SavedRevision, SaveInv, RecordInv, BuildInv
  <1>5. BuildInv'
    BY DEF BuildInv, RecordInv, SaveInv
  <1>6. ReadyWasCurrent' /\ ProjectionIsTrue'
    BY DEF ReadyWasCurrent, ProjectionIsTrue, TodoInv, RecordInv, SaveInv,
           SavedRevision, NoRecord
  <1> QED
    BY <1>1, <1>2, <1>3, <1>4, <1>5, <1>6

\* A failed build names the saved revision.
LEMMA BuildFailsKeeps ==
  ASSUME PInv, BuildFails
  PROVE  PInv'
  <1> USE DEF PInv, TypeOK, BuildFails, FailRecord, Record, Saves, Records, RecordStates,
          MaybeRevision, Revisions, MaxRecords, Base, saveVars, recordVars
  <1>1. TypeOK'
    BY DEF SavedRevision
  <1>2. SaveInv'
    BY DEF SaveInv
  <1>3. RecordInv'
    BY DEF RecordInv, NoRecord
  <1>4. TodoInv'
    BY DEF TodoInv, SavedRevision, SaveInv, RecordInv, BuildInv
  <1>5. BuildInv'
    BY DEF BuildInv, RecordInv, SaveInv
  <1>6. ReadyWasCurrent' /\ ProjectionIsTrue'
    BY DEF ReadyWasCurrent, ProjectionIsTrue, TodoInv, RecordInv, SaveInv,
           SavedRevision, NoRecord
  <1> QED
    BY <1>1, <1>2, <1>3, <1>4, <1>5, <1>6

\* The final record compares with the current revision.
LEMMA ReadCurrentKeeps ==
  ASSUME PInv, ReadCurrent
  PROVE  PInv'
  <1> USE DEF PInv, TypeOK, ReadCurrent, Finish, Record, Saves, Records, RecordStates,
          MaybeRevision, Revisions, MaxRecords, Base, saveVars, recordVars
  <1>1. TypeOK'
    BY DEF SaveInv, RecordInv, BuildInv
  <1>2. SaveInv'
    BY DEF SaveInv
  <1>3. RecordInv'
    BY DEF RecordInv, NoRecord
  <1>4. TodoInv'
    BY DEF TodoInv, SavedRevision, SaveInv, RecordInv, BuildInv
  <1>5. BuildInv'
    BY DEF BuildInv, RecordInv, SaveInv
  <1>6. ReadyWasCurrent' /\ ProjectionIsTrue'
    BY DEF ReadyWasCurrent, ProjectionIsTrue, TodoInv, RecordInv, SaveInv,
           SavedRevision, NoRecord
  <1> QED
    BY <1>1, <1>2, <1>3, <1>4, <1>5, <1>6

\* The settlement changes nothing recorded.
LEMMA SettleKeeps ==
  ASSUME PInv, Settle
  PROVE  PInv'
  <1> USE DEF PInv, TypeOK, Settle, Saves, Records, RecordStates,
          MaybeRevision, Revisions, MaxRecords, Base, saveVars, recordVars
  <1>1. TypeOK'
    BY DEF SaveInv, RecordInv, BuildInv
  <1>2. SaveInv'
    BY DEF SaveInv
  <1>3. RecordInv'
    BY DEF RecordInv, NoRecord
  <1>4. TodoInv'
    BY DEF TodoInv, SavedRevision, SaveInv, RecordInv, BuildInv
  <1>5. BuildInv'
    BY DEF BuildInv, RecordInv, SaveInv
  <1>6. ReadyWasCurrent' /\ ProjectionIsTrue'
    BY DEF ReadyWasCurrent, ProjectionIsTrue, TodoInv, RecordInv, SaveInv,
           SavedRevision, NoRecord
  <1> QED
    BY <1>1, <1>2, <1>3, <1>4, <1>5, <1>6

\* Other authors only move the lineage on.
LEMMA OtherSavesKeeps ==
  ASSUME PInv, OtherSaves
  PROVE  PInv'
  <1> USE DEF PInv, TypeOK, OtherSaves, Saves, Records, RecordStates,
          MaybeRevision, Revisions, MaxRecords, Base, saveVars, recordVars
  <1>1. TypeOK'
    BY DEF SaveInv, RecordInv, BuildInv
  <1>2. SaveInv'
    BY DEF SaveInv
  <1>3. RecordInv'
    BY DEF RecordInv, NoRecord
  <1>4. TodoInv'
    BY DEF TodoInv, SavedRevision, SaveInv, RecordInv, BuildInv
  <1>5. BuildInv'
    BY DEF BuildInv, RecordInv, SaveInv
  <1>6. ReadyWasCurrent' /\ ProjectionIsTrue'
    BY DEF ReadyWasCurrent, ProjectionIsTrue, TodoInv, RecordInv, SaveInv,
           SavedRevision, NoRecord
  <1> QED
    BY <1>1, <1>2, <1>3, <1>4, <1>5, <1>6

\* A cancellation changes nothing recorded.
LEMMA CancelKeeps ==
  ASSUME PInv, Cancel
  PROVE  PInv'
  <1> USE DEF PInv, TypeOK, Cancel, Saves, Records, RecordStates,
          MaybeRevision, Revisions, MaxRecords, Base, saveVars, recordVars
  <1>1. TypeOK'
    BY DEF SaveInv, RecordInv, BuildInv
  <1>2. SaveInv'
    BY DEF SaveInv
  <1>3. RecordInv'
    BY DEF RecordInv, NoRecord
  <1>4. TodoInv'
    BY DEF TodoInv, SavedRevision, SaveInv, RecordInv, BuildInv
  <1>5. BuildInv'
    BY DEF BuildInv, RecordInv, SaveInv
  <1>6. ReadyWasCurrent' /\ ProjectionIsTrue'
    BY DEF ReadyWasCurrent, ProjectionIsTrue, TodoInv, RecordInv, SaveInv,
           SavedRevision, NoRecord
  <1> QED
    BY <1>1, <1>2, <1>3, <1>4, <1>5, <1>6

LEMMA InitHolds == Init => PInv
  <1> SUFFICES ASSUME Init
               PROVE  PInv
    OBVIOUS
  <1> USE DEF Init, NoRecord, Without, Base
  <1>1. TypeOK
    <2>1. ours \in Saves /\ saved \in Saves
      BY DEF Saves, MaybeRevision
    <2>2. todo \in Records /\ projection \in Records
      BY DEF Records, RecordStates, MaybeRevision
    <2>3. lineage \in Revisions /\ written \in 0 .. MaxRecords
          /\ recorded \in 0 .. MaxRecords
      BY DEF Revisions, MaxRecords
    <2> QED
      BY <2>1, <2>2, <2>3 DEF TypeOK
  <1>2. SaveInv /\ RecordInv /\ TodoInv /\ BuildInv
    BY DEF SaveInv, RecordInv, TodoInv, BuildInv
  <1>3. ReadyWasCurrent /\ ProjectionIsTrue
    BY DEF ReadyWasCurrent, ProjectionIsTrue
  <1> QED
    BY <1>1, <1>2, <1>3 DEF PInv

LEMMA StutterKeeps ==
  ASSUME PInv, UNCHANGED vars
  PROVE  PInv'
  BY DEF PInv, TypeOK, SaveInv, RecordInv, TodoInv, BuildInv, ReadyWasCurrent,
         ProjectionIsTrue, SavedRevision, vars, saveVars, recordVars

LEMMA StepKeeps ==
  ASSUME PInv, [Next]_vars
  PROVE  PInv'
  BY StutterKeeps,
     ReadSourceKeeps, ControlRecordsKeeps, RecordReturnsKeeps,
     ReadOrRecordFailsKeeps, OpenSaveKeeps, OpenOrCurrentFailsKeeps,
     PermitKeeps, DenyKeeps, FindPermittedKeeps, SendKeeps,
     SourceSavesKeeps, SendLostKeeps, SendAnsweredKeeps,
     QueryUnknownKeeps, QueryKnownKeeps, ObserveKeeps, SaveRetriedKeeps,
     SaveFailsKeeps, CloseSaveKeeps, BuildSucceedsKeeps,
     BuildFailsKeeps, ReadCurrentKeeps, SettleKeeps, OtherSavesKeeps,
     CancelKeeps
  DEF Next, Proceed, SaveStep, Ended

\* The inductive invariant of a preview run, for any number of revisions.
THEOREM Invariance == Spec => []PInv
  <1>1. Init => PInv
    BY InitHolds
  <1>2. PInv /\ [Next]_vars => PInv'
    BY StepKeeps
  <1> QED
    BY <1>1, <1>2, PTL DEF Spec

\* Every variable keeps its type: at most three records are applied.
THEOREM TypeCorrect == Spec => []TypeOK
  <1>1. PInv => TypeOK
    BY DEF PInv
  <1> QED
    BY <1>1, Invariance, PTL

\* A preview recorded ready was the current revision when its build was over,
\* one recorded stale names a newer revision.
THEOREM ReadyCurrent == Spec => []ReadyWasCurrent
  <1>1. PInv => ReadyWasCurrent
    BY DEF PInv
  <1> QED
    BY <1>1, Invariance, PTL

\* The projection names the revision saved under the run's effect, in a
\* failure too, and a run succeeds only with its preview recorded.
THEOREM ProjectionTruth == Spec => []ProjectionIsTrue
  <1>1. PInv => ProjectionIsTrue
    BY DEF PInv
  <1> QED
    BY <1>1, Invariance, PTL
=============================================================================
