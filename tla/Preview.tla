------------------------------ MODULE Preview ------------------------------
(***************************************************************************)
(* A PreviewBuild run (src/internal/workflows/preview.go) with its         *)
(* conditional save (src/internal/activities/preview.go: SaveSource), the  *)
(* source authority that answers it (src/internal/adapters/pagix/double.go:*)
(* SaveRevision, QuerySave, CurrentRevision) and the projection it records *)
(* with Control.  Other authors save to the same lineage at any moment.    *)
(*                                                                         *)
(* Simplifications: one execution of the save is followed, while the send  *)
(* of an earlier one may still be on its way; the build is its result      *)
(* (LaunchCleanup and AttemptClose model the Job and the closes); failure  *)
(* codes and phases are left out.  Control's permit and projection are     *)
(* external: a command repeated is answered as it was.                     *)
(***************************************************************************)
EXTENDS Naturals

CONSTANT
  MaxRevision  \* bound: revisions of the lineage, Base and more

ASSUME MaxRevisionAssumption == MaxRevision \in Nat \ {0, 1}

Base == 1                   \* the revision the edit was made from
Revisions == 1 .. MaxRevision
MaybeRevision == 0 .. MaxRevision   \* 0: not named
MaxRecords == 3             \* saving, building and how it ended
RecordStates == {"saving", "conflict", "building", "ready", "stale", "failed"}
Records == [state : RecordStates, source : MaybeRevision, current : MaybeRevision]

VARIABLES
  pc,          \* where the run is
  save,        \* where the execution of SaveSource is
  flying,      \* a send of the save is on its way
  effect,      \* Control: the state of the effect
  lineage,     \* the source authority: the current revision
  ours,        \* the source authority: what it did under our effect
  saved,       \* the run's result of the save
  superseded,  \* a newer revision was saved before the build was over
  todo,        \* the record being made
  written,     \* the projection revision the run expects
  projection,  \* Control: the projection
  recorded,    \* Control: its revision
  outcome,     \* what the settlement states
  canceled     \* the Workflow's context is canceled

saveVars == <<save, flying, effect, lineage, ours>>
recordVars == <<todo, written, projection, recorded>>
vars == <<pc, saveVars, saved, superseded, recordVars, outcome, canceled>>

Saves ==
  [state : {"none", "saved", "conflict", "denied", "unknown", "error"},
   revision : MaybeRevision]
Without(state) == [state |-> state, revision |-> 0]

TypeOK ==
  /\ pc \in {"read", "record", "open", "save", "close", "build", "current",
             "settle", "done"}
  /\ save \in {"idle", "prepare", "send", "sent", "query", "observe"}
  /\ flying \in BOOLEAN
  /\ effect \in {"absent", "permitted", "denied", "succeeded", "failed"}
  /\ lineage \in Revisions
  /\ ours \in Saves /\ saved \in Saves /\ superseded \in BOOLEAN
  /\ todo \in Records /\ projection \in Records
  /\ written \in 0 .. MaxRecords /\ recorded \in 0 .. MaxRecords
  /\ outcome \in {"failed", "canceled", "succeeded"}
  /\ canceled \in BOOLEAN

NoRecord == [state |-> "failed", source |-> 0, current |-> 0]

Init ==
  /\ pc = "read" /\ save = "idle" /\ flying = FALSE /\ effect = "absent"
  /\ lineage = Base /\ ours = Without("none") /\ saved = Without("none")
  /\ superseded = FALSE
  /\ todo = NoRecord /\ written = 0 /\ projection = NoRecord /\ recorded = 0
  /\ outcome = "failed" /\ canceled = FALSE

-----------------------------------------------------------------------------
(***************************************************************************)
(* The records of the projection.                                          *)
(***************************************************************************)
Record(state, source, current) ==
  /\ todo' = [state |-> state, source |-> source, current |-> current]
  /\ pc' = "record"
  /\ UNCHANGED <<written, projection, recorded>>

SavedRevision == IF saved.state = "saved" THEN saved.revision ELSE 0

\* Mutated form of FailRecord: the failure names no revision.
FailRecordBare == Record("failed", 0, 0)

\* fail: a failure after the save still names the saved revision.
FailRecord == Record("failed", SavedRevision, 0)

\* Control applies the command of the expected revision, once; the answer is
\* still on the way, or lost and the command repeated.
ControlRecords ==
  /\ pc = "record" /\ recorded = written
  /\ recorded' = recorded + 1 /\ projection' = todo
  /\ UNCHANGED <<pc, saveVars, saved, superseded, todo, written, outcome, canceled>>

RecordReturns ==
  /\ pc = "record" /\ recorded > written
  /\ written' = recorded
  /\ pc' = CASE todo.state = "saving" -> "open"
             [] todo.state = "building" -> "build"
             [] OTHER -> "settle"
  /\ outcome' = IF todo.state \in {"ready", "stale"} THEN "succeeded" ELSE outcome
  /\ UNCHANGED <<saveVars, saved, superseded, todo, projection, recorded, canceled>>

\* settleOutcome: what a failed Activity makes of the run.
ErrorOutcome == IF canceled THEN "canceled" ELSE "failed"

\* The source cannot be read, or Control refuses a record (one it may have
\* applied before): the run settles.
ReadOrRecordFails ==
  /\ pc \in {"read", "record"}
  /\ outcome' = ErrorOutcome
  /\ pc' = "settle"
  /\ UNCHANGED <<saveVars, saved, superseded, recordVars, canceled>>

ReadSource ==
  /\ pc = "read"
  /\ Record("saving", 0, 0)
  /\ UNCHANGED <<saveVars, saved, superseded, outcome, canceled>>

-----------------------------------------------------------------------------
(***************************************************************************)
(* The save: its attempt, the Activity and the source authority.           *)
(***************************************************************************)
OpenSave ==
  /\ pc = "open"
  /\ pc' = "save" /\ save' = "prepare"
  /\ UNCHANGED <<flying, effect, lineage, ours, saved, superseded, recordVars>>
  /\ UNCHANGED <<outcome, canceled>>

\* Neither the attempt of the save nor the current revision: fail.
OpenOrCurrentFails ==
  /\ pc \in {"open", "current"}
  /\ FailRecord
  /\ UNCHANGED <<saveVars, saved, superseded, outcome, canceled>>

\* SaveSource returns; its attempt is closed next.
Return(result) ==
  /\ saved' = result
  /\ save' = "idle" /\ pc' = "close"
  /\ UNCHANGED <<flying, lineage, ours, superseded, recordVars, outcome, canceled>>

\* PrepareEffect: only the call that creates the effect may send.
Permit ==
  /\ save = "prepare" /\ effect = "absent"
  /\ effect' = "permitted" /\ save' = "send"
  /\ UNCHANGED <<pc, flying, lineage, ours, saved, superseded, recordVars>>
  /\ UNCHANGED <<outcome, canceled>>

Deny ==
  /\ save = "prepare" /\ effect \in {"absent", "denied"}
  /\ effect' = "denied"
  /\ Return(Without("denied"))

FindPermitted ==
  /\ save = "prepare" /\ effect \in {"permitted", "succeeded", "failed"}
  /\ save' = "query"
  /\ UNCHANGED <<pc, flying, effect, lineage, ours, saved, superseded, recordVars>>
  /\ UNCHANGED <<outcome, canceled>>

Send ==
  /\ save = "send"
  /\ flying' = TRUE /\ save' = "sent"
  /\ UNCHANGED <<pc, effect, lineage, ours, saved, superseded, recordVars>>
  /\ UNCHANGED <<outcome, canceled>>

\* SaveRevision: the base must be the current revision; the identity keeps
\* its first answer.
SourceSaves ==
  /\ flying
  /\ flying' = FALSE
  /\ IF ours.state # "none" THEN UNCHANGED <<ours, lineage>>
     ELSE IF lineage = Base
     THEN /\ lineage' = lineage + 1
          /\ ours' = [state |-> "saved", revision |-> lineage + 1]
     ELSE /\ ours' = [state |-> "conflict", revision |-> lineage]
          /\ UNCHANGED lineage
  /\ UNCHANGED <<pc, save, effect, saved, superseded, recordVars, outcome, canceled>>

SendLost ==
  /\ flying
  /\ flying' = FALSE
  /\ UNCHANGED <<pc, save, effect, lineage, ours, saved, superseded, recordVars>>
  /\ UNCHANGED <<outcome, canceled>>

SendAnswered ==
  /\ save = "sent" /\ ours.state # "none"
  /\ save' = "observe"
  /\ UNCHANGED <<pc, flying, effect, lineage, ours, saved, superseded, recordVars>>
  /\ UNCHANGED <<outcome, canceled>>

\* Mutated form of QueryUnknown: the query is repeated until it is answered.
QueryUnknownAgain ==
  /\ save = "query" /\ ours.state = "none"
  /\ save' = "prepare"
  /\ UNCHANGED <<pc, flying, effect, lineage, ours, saved, superseded, recordVars>>
  /\ UNCHANGED <<outcome, canceled>>

\* QuerySave: the original identity is not known; it may still arrive.
QueryUnknown ==
  /\ save = "query" /\ ours.state = "none"
  /\ Return(Without("unknown")) /\ UNCHANGED effect

QueryKnown ==
  /\ save = "query" /\ ours.state # "none"
  /\ IF effect \in {"succeeded", "failed"}
     THEN Return(ours) /\ UNCHANGED effect
     ELSE /\ save' = "observe"
          /\ UNCHANGED <<pc, flying, effect, lineage, ours, saved, superseded>>
          /\ UNCHANGED <<recordVars, outcome, canceled>>

\* ObserveEffect: the outcome is Control's before the run hears it.
Observe ==
  /\ save = "observe"
  /\ effect' = IF ours.state = "saved" THEN "succeeded" ELSE "failed"
  /\ Return(ours)

\* The execution dies, or a call of it does not answer: it is retried.
SaveRetried ==
  /\ save \in {"prepare", "send", "sent", "query", "observe"}
  /\ save' = "prepare"
  /\ effect' \in IF save = "prepare" /\ effect = "absent" THEN {"absent", "permitted", "denied"}
                 ELSE IF save = "observe"
                 THEN {effect, IF ours.state = "saved" THEN "succeeded" ELSE "failed"}
                 ELSE {effect}
  /\ UNCHANGED <<pc, flying, lineage, ours, saved, superseded, recordVars>>
  /\ UNCHANGED <<outcome, canceled>>

\* Control refuses the execution, or the run is canceled under it.
SaveFails ==
  /\ pc = "save"
  /\ Return(Without("error")) /\ UNCHANGED effect

\* The attempt is closed; what the save said decides how to go on.
CloseSave ==
  /\ pc = "close"
  /\ CASE saved.state = "saved" -> Record("building", saved.revision, 0)
       [] saved.state = "conflict" -> Record("conflict", 0, saved.revision)
       [] OTHER -> FailRecord
  /\ UNCHANGED <<saveVars, saved, superseded, outcome, canceled>>

-----------------------------------------------------------------------------
(***************************************************************************)
(* The build and what becomes of it.                                       *)
(***************************************************************************)
BuildSucceeds ==
  /\ pc = "build"
  /\ superseded' = (lineage # saved.revision)
  /\ pc' = "current"
  /\ UNCHANGED <<saveVars, saved, recordVars, outcome, canceled>>

\* No stage, not certified, or without its module.
BuildFails ==
  /\ pc = "build"
  /\ FailRecord
  /\ UNCHANGED <<saveVars, saved, superseded, outcome, canceled>>

\* Mutated form of Finish: what was built is ready.
FinishReady(current) == Record("ready", saved.revision, 0)

Finish(current) ==
  IF current = saved.revision
  THEN Record("ready", saved.revision, 0)
  ELSE Record("stale", saved.revision, current)

ReadCurrent ==
  /\ pc = "current"
  /\ Finish(lineage)
  /\ UNCHANGED <<saveVars, saved, superseded, outcome, canceled>>

Settle ==
  /\ pc = "settle"
  /\ pc' = "done"
  /\ UNCHANGED <<saveVars, saved, superseded, recordVars, outcome, canceled>>

-----------------------------------------------------------------------------
\* Another author saves (external).
OtherSaves ==
  /\ lineage < MaxRevision
  /\ lineage' = lineage + 1
  /\ UNCHANGED <<pc, save, flying, effect, ours, saved, superseded, recordVars>>
  /\ UNCHANGED <<outcome, canceled>>

Cancel ==
  /\ ~canceled /\ pc \notin {"settle", "done"}
  /\ canceled' = TRUE
  /\ UNCHANGED <<pc, saveVars, saved, superseded, recordVars, outcome>>

SaveStep ==
  \/ Permit \/ Deny \/ FindPermitted \/ Send \/ SendAnswered \/ QueryUnknown
  \/ QueryKnown \/ Observe

Proceed ==
  \/ ReadSource \/ ControlRecords \/ RecordReturns \/ OpenSave \/ CloseSave
  \/ BuildSucceeds \/ BuildFails \/ ReadCurrent \/ Settle

Ended == pc = "done" /\ UNCHANGED vars

Next ==
  \/ Proceed \/ SaveStep \/ SaveRetried \/ SaveFails \/ ReadOrRecordFails
  \/ OpenOrCurrentFails \/ SourceSaves \/ SendLost \/ OtherSaves \/ Cancel
  \/ Ended

Spec == Init /\ [][Next]_vars

(***************************************************************************)
(* Fairness.  The run goes on; an execution takes its next call, and in    *)
(* the end one that finds the permit consumed is not retried before its    *)
(* query is answered; a send whose answer never comes is given up.         *)
(***************************************************************************)
FairSpec ==
  /\ Spec
  /\ WF_vars(Proceed) /\ WF_vars(SaveStep \/ SaveRetried)
  /\ SF_vars(FindPermitted) /\ SF_vars(QueryUnknown \/ QueryKnown) /\ SF_vars(Observe)

-----------------------------------------------------------------------------
(***************************************************************************)
(* Properties                                                              *)
(***************************************************************************)

\* A preview recorded ready was the current revision when its build was over,
\* and one recorded stale names a newer revision, whatever other authors save
\* while the run is between two answers.
ReadyWasCurrent ==
  /\ projection.state = "ready" => ~superseded
  /\ projection.state = "stale" => projection.current > projection.source

\* The projection says what happened to the source: the revision it names is
\* the one saved under this run's effect, and a failure after the save still
\* names it; a conflict names a revision that is not the base; and the run
\* succeeds only with a preview recorded.
ProjectionIsTrue ==
  /\ projection.source # 0
     => ours = [state |-> "saved", revision |-> projection.source]
  /\ recorded > 0 /\ projection.state = "failed"
     => projection.source = SavedRevision
  /\ projection.state = "conflict"
     => ours.state = "conflict" /\ projection.current # Base
  /\ outcome = "succeeded" => projection.state \in {"ready", "stale"}

\* The run ends, though the save may never be answered.
RunEnds == <>(pc = "done")
=============================================================================
