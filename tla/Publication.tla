---------------------------- MODULE Publication ----------------------------
(***************************************************************************)
(* The guarded mutations against the upstream that performs them: the      *)
(* Pagix double (src/internal/adapters/pagix/release.go and double.go) in  *)
(* the place of EffectPermit's upstream, the verification of its answers   *)
(* (src/internal/activities/release.go: PublishTarget, verifyPublication,  *)
(* ActivateRelease), and another release of the same component.            *)
(*                                                                         *)
(* Every call of the double holds its mutex, but it writes several files:  *)
(* the process dies or a write fails between any two of them, and what a   *)
(* call left behind has no answer recorded under its effect identity.      *)
(*                                                                         *)
(* Simplifications: bytes, digests and receipts are told apart as far as   *)
(* the verification does; the files of a browser target are one; a save is *)
(* as EffectPermit has it (module Preview has its revisions).  A file once *)
(* served stays: nothing here withdraws one.                               *)
(***************************************************************************)
EXTENDS EffectPermit, Sequences

CONSTANT
  MaxRevision  \* bound: catalog revisions of other releases

ASSUME MaxRevisionAssumption == MaxRevision \in Nat

\* The mutations and the Activity each is asked through.
Mutations == {"review", "npm", "browser", "activation", "registration", "save"}
ActivityOf(m) == IF m \in {"registration", "save"} THEN m ELSE "guarded"

VARIABLES
  mutation,      \* the mutation the effect is about, fixed
  registry,      \* whose bytes the npm registry serves as the version
  origin,        \* our release at the browser origin: [files, manifest]
  catalog,       \* by revision, whose release the catalog activated
  others,        \* the other release was told its version is published
  read,          \* the catalog revision the run read before it asked
  receipt,       \* the receipt recorded under the effect
  registration   \* the registration recorded under the effect

placeVars == <<registry, origin, catalog, registration>>
contextVars == <<mutation, others, read>>
pubVars == <<contextVars, placeVars, receipt>>
allVars == <<vars, pubVars>>

Whole == [files |-> TRUE, manifest |-> TRUE]
Absent == [files |-> FALSE, manifest |-> FALSE]

\* The origin serves the release before it is activated.
PubInit ==
  /\ Init
  /\ mutation \in Mutations /\ activity = ActivityOf(mutation)
  /\ registry = "free" /\ others = FALSE
  /\ origin = IF mutation = "activation" THEN Whole ELSE Absent
  /\ catalog = <<>> /\ read = 0
  /\ receipt = "none" /\ registration = "none"

-----------------------------------------------------------------------------
(***************************************************************************)
(* The double answers a call.                                              *)
(***************************************************************************)
Fresh(m) == mutation = m /\ outcome = "none"
Failed == outcome' = "failed" /\ UNCHANGED pubVars

\* A save; or a call whose effect has a recorded answer, which repeats it.
SaveOrRepeat ==
  /\ mutation = "save" \/ outcome # "none"
  /\ Handle
  /\ UNCHANGED pubVars

RegisterReview ==
  /\ Fresh("review") /\ Handle
  /\ outcome' = "succeeded" /\ receipt' = "right"
  /\ UNCHANGED <<contextVars, placeVars>>

RegisterCandidate ==
  /\ Fresh("registration") /\ Handle
  /\ outcome' = "succeeded" /\ registration' = "whole"
  /\ UNCHANGED <<contextVars, registry, origin, catalog, receipt>>

\* A version the registry holds is never overwritten (VERSION_EXISTS).  The
\* registry may come to serve other bytes, the receipt name another place.
PublishNpm ==
  /\ Fresh("npm") /\ Handle
  /\ IF registry # "free" THEN Failed
     ELSE /\ registry' \in {"ours", "altered"}
          /\ receipt' \in {"right", "elsewhere"}
          /\ outcome' = "succeeded"
          /\ UNCHANGED <<contextVars, origin, catalog, registration>>

\* The files first, the manifest last; the origin may never serve the files.
PublishBrowser ==
  /\ Fresh("browser") /\ Handle
  /\ IF origin.manifest THEN Failed
     ELSE /\ origin' \in {Whole, [Whole EXCEPT !.files = origin.files]}
          /\ receipt' \in {"right", "elsewhere"}
          /\ outcome' = "succeeded"
          /\ UNCHANGED <<contextVars, registry, catalog, registration>>

\* The registry or the origin rejects the publication.
RejectPublication ==
  /\ Fresh("npm") \/ Fresh("browser")
  /\ Handle /\ Failed

\* A conditional write: another revision is a conflict, a release the origin
\* does not serve is unavailable.
Activate ==
  /\ Fresh("activation") /\ Handle
  /\ IF Len(catalog) # read \/ ~origin.manifest THEN Failed
     ELSE /\ catalog' = Append(catalog, "ours")
          /\ outcome' = "succeeded" /\ receipt' = "right"
          /\ UNCHANGED <<contextVars, registry, origin, registration>>

(***************************************************************************)
(* The call ends between its writes: the caller gets no answer, and no     *)
(* later query finds one.                                                  *)
(***************************************************************************)
PublishNpmTorn ==
  /\ Fresh("npm") /\ SendLost
  /\ registry = "free" /\ registry' \in {"ours", "altered"}
  /\ UNCHANGED <<contextVars, origin, catalog, registration, receipt>>

PublishBrowserTorn ==
  /\ Fresh("browser") /\ SendLost
  /\ ~origin.manifest
  /\ origin' \in {Whole, [Whole EXCEPT !.files = FALSE],
                 [Whole EXCEPT !.manifest = FALSE]}
  /\ UNCHANGED <<contextVars, registry, catalog, registration, receipt>>

ActivateTorn ==
  /\ Fresh("activation") /\ SendLost
  /\ Len(catalog) = read /\ origin.manifest
  /\ catalog' = Append(catalog, "ours")
  /\ UNCHANGED <<contextVars, registry, origin, registration, receipt>>

\* The registration is not written atomically: half of it may stay.
RegisterCandidateTorn ==
  /\ Fresh("registration") /\ SendLost
  /\ registration' = "torn"
  /\ UNCHANGED <<contextVars, registry, origin, catalog, receipt>>

Call ==
  \/ SaveOrRepeat \/ RegisterReview \/ RegisterCandidate
  \/ PublishNpm \/ PublishBrowser \/ RejectPublication \/ Activate

Torn ==
  \/ PublishNpmTorn \/ PublishBrowserTorn \/ ActivateTorn
  \/ RegisterCandidateTorn

-----------------------------------------------------------------------------
(***************************************************************************)
(* The Activities: EffectPermit's, with the answers verified.              *)
(***************************************************************************)
\* Mutated form of Verified: the receipt is taken at its word.
VerifiedByReceipt == receipt = "right"

\* The receipt binds the subject and its destination, and the destination
\* serves exactly its bytes.
Verified ==
  /\ receipt = "right"
  /\ mutation = "npm" => registry = "ours"
  /\ mutation = "browser" => origin = Whole

\* A receipt that does not verify makes a failed target; reading back may
\* fail and make one too.  A review or an activation has nothing to read back.
Judged ==
  activity = "guarded" /\ result' # result =>
    /\ result' = "succeeded" => Verified
    /\ result' = "failed" /\ mutation \in {"review", "activation"}
         => outcome = "failed"

\* An execution makes its next step.  A registration left in half cannot be
\* read: the query fails, it does not answer that there is none.
Execute(a) ==
  /\ AttemptStep(a) /\ Judged
  /\ registration = "torn" => ~QueryUnknown(a)
  /\ UNCHANGED pubVars

(***************************************************************************)
(* The run and the other release.                                          *)
(***************************************************************************)
\* The run reads the catalog revision before it asks for the activation.
ReadCatalog ==
  /\ mutation = "activation" /\ current = 0
  /\ read' = Len(catalog)
  /\ UNCHANGED <<vars, mutation, others, placeVars, receipt>>

\* Another release of the component with the same version: published first,
\* it is served from then on.
OtherPublishes ==
  /\ mutation = "npm" /\ registry = "free"
  /\ registry' = "theirs" /\ others' = TRUE
  /\ UNCHANGED <<vars, mutation, origin, catalog, registration, read, receipt>>

\* Another activation, conditional on the revision its own run read last.
OtherActivates ==
  /\ mutation = "activation" /\ Len(catalog) < MaxRevision
  /\ catalog' = Append(catalog, "theirs")
  /\ UNCHANGED <<vars, contextVars, registry, origin, registration, receipt>>

-----------------------------------------------------------------------------
PubNext ==
  /\ UNCHANGED activity
  /\ \/ (StartAttempt \/ GiveUp \/ SendLost) /\ UNCHANGED pubVars
     \/ Call \/ Torn
     \/ \E a \in Attempts : Execute(a)
     \/ ReadCatalog \/ OtherPublishes \/ OtherActivates

PubSpec == PubInit /\ [][PubNext]_allVars

-----------------------------------------------------------------------------
(***************************************************************************)
(* Properties                                                              *)
(***************************************************************************)
\* Beside TypeOK.
PubTypeOK ==
  /\ mutation \in Mutations /\ activity = ActivityOf(mutation)
  /\ registry \in {"free", "ours", "altered", "theirs"} /\ others \in BOOLEAN
  /\ origin \in [files : BOOLEAN, manifest : BOOLEAN]
  /\ catalog \in Seq({"ours", "theirs"})
  /\ read \in Nat
  /\ receipt \in {"none", "right", "elsewhere"}
  /\ registration \in {"none", "torn", "whole"}

Ours == {n \in 1 .. Len(catalog) : catalog[n] = "ours"}

\* What the Workflow was told is what the destinations serve, whatever dies
\* between two writes: a succeeded target is served with its own bytes, a
\* succeeded activation is in the catalog, a failed one is not and never was,
\* a denied mutation left nothing.  The version another release was told to
\* be published stays its own, and an activation of ours replaced the catalog
\* its run had read: it undid no activation the run did not know of.
DeliveredIsServed ==
  /\ result = "succeeded" =>
       /\ mutation = "npm" => registry = "ours"
       /\ mutation = "browser" => origin = Whole
       /\ mutation = "activation" => Ours # {}
       /\ mutation = "registration" => registration = "whole"
  /\ mutation = "activation" =>
       /\ result \in {"failed", "denied"} => Ours = {}
       /\ Ours \subseteq {read + 1}
  /\ result = "denied" => registry # "ours" /\ registration = "none"
  /\ others => registry = "theirs"

-----------------------------------------------------------------------------
(***************************************************************************)
(* The inductive invariant behind DeliveredIsServed, beside EffectPermit's *)
(* EInv.                                                                   *)
(***************************************************************************)
\* Something of the mutation is at its destination.
Placed == registry = "ours" \/ Ours # {} \/ registration # "none"

\* The one send is over once it was answered or left something behind, so
\* nothing reaches the destination after that.
ArrivalInv ==
  /\ outcome # "none" \/ Placed => sends > 0 /\ flying = 0
  /\ current = 0 => sends = 0

\* What the double recorded under the effect is what it did.
OutcomeInv ==
  /\ outcome = "succeeded" =>
       /\ mutation = "activation" => Ours # {}
       /\ mutation = "registration" => registration = "whole"
  /\ outcome = "failed" /\ mutation = "activation" => Ours = {}

\* A success the Workflow heard was recorded, and what was read back of a
\* target is still served; only a target is judged against its record.
HeardInv ==
  /\ result = "succeeded" =>
       /\ outcome = "succeeded"
       /\ mutation = "npm" => registry = "ours"
       /\ mutation = "browser" => origin = Whole
  /\ result = "failed" /\ mutation = "activation" => outcome = "failed"

\* The catalog and the registry as the other release knows them.
OthersInv == Ours \subseteq {read + 1} /\ (others => registry = "theirs")

PubInv == PubTypeOK /\ ArrivalInv /\ OutcomeInv /\ HeardInv /\ OthersInv
=============================================================================
