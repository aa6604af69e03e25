-------------------------- MODULE LaunchObligation --------------------------
(***************************************************************************)
(* What a run promises Control about a prepared launch, without ledger,    *)
(* observations or rounds: it may report the cleanup unknown at any time,  *)
(* and complete only at an instant at which nothing of the launch exists   *)
(* and no create request can bring anything back.  Nothing is issued once  *)
(* a close was reported, so a reported "complete" stays true.              *)
(* (src/internal/workflows/localcheck.go, the doc comment of LocalCheck.)  *)
(***************************************************************************)
CONSTANT Request  \* the create requests the run may issue

VARIABLES
  outstanding,  \* issued requests that may still commit an object
  live,         \* requests whose objects exist
  told          \* the cleanup Control was told last

vars == <<outstanding, live, told>>

TypeOK ==
  /\ outstanding \in SUBSET Request
  /\ live \in SUBSET Request
  /\ told \in {"none", "unknown", "complete"}

Init == outstanding = {} /\ live = {} /\ told = "none"

Issue(r) ==
  /\ told = "none"
  /\ outstanding' = outstanding \cup {r}
  /\ UNCHANGED <<live, told>>

Land(r) ==
  /\ r \in outstanding
  /\ outstanding' = outstanding \ {r}
  /\ live' = live \cup {r}
  /\ UNCHANGED told

\* The request is over without an object.
Resolve(r) ==
  /\ r \in outstanding
  /\ outstanding' = outstanding \ {r}
  /\ UNCHANGED <<live, told>>

\* The object of r is gone.
Stop(r) ==
  /\ live' = live \ {r}
  /\ UNCHANGED <<outstanding, told>>

TellUnknown ==
  /\ told = "none"
  /\ told' = "unknown"
  /\ UNCHANGED <<outstanding, live>>

TellComplete ==
  /\ outstanding = {} /\ live = {}
  /\ told' = "complete"
  /\ UNCHANGED <<outstanding, live>>

Next ==
  \/ \E r \in Request : Issue(r) \/ Land(r) \/ Resolve(r) \/ Stop(r)
  \/ TellUnknown \/ TellComplete

Spec == Init /\ [][Next]_vars

\* A launch reported completely cleaned up never runs again.
Stopped == told = "complete" => outstanding = {} /\ live = {}
=============================================================================
