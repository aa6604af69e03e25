------------------------------- MODULE Effect -------------------------------
(***************************************************************************)
(* What a guarded mutation promises the Workflow that asks for it: it is   *)
(* sent upstream at most once, a denied one never; a settled answer says   *)
(* what the upstream did and is the last one; an unknown may become known. *)
(* (src/internal/activities/release.go, the doc comments of guarded and    *)
(* PublishTarget.)                                                         *)
(***************************************************************************)
VARIABLES
  sends,    \* how often the mutation was sent
  outcome,  \* what the upstream did with it
  told      \* the Workflow's view of it

vars == <<sends, outcome, told>>

Unsettled == {"none", "unknown"}

TypeOK ==
  /\ sends \in {0, 1}
  /\ outcome \in {"none", "succeeded", "failed"}
  /\ told \in Unsettled \cup {"denied", "succeeded", "failed", "error"}

Init == sends = 0 /\ outcome = "none" /\ told = "none"

Send ==
  /\ sends = 0 /\ told # "denied"
  /\ sends' = 1
  /\ UNCHANGED <<outcome, told>>

TakeEffect ==
  /\ sends = 1 /\ outcome = "none"
  /\ outcome' \in {"succeeded", "failed"}
  /\ UNCHANGED <<sends, told>>

\* "failed" is also the answer for an effect that happened and whose receipt
\* does not verify; "error" says nothing about the upstream.
Answers ==
  {"unknown", "error"}
  \cup (IF sends = 0 THEN {"denied"} ELSE {})
  \cup (IF outcome = "none" THEN {} ELSE {outcome, "failed"})

Tell ==
  /\ told \in Unsettled
  /\ told' \in Answers
  /\ UNCHANGED <<sends, outcome>>

Next == Send \/ TakeEffect \/ Tell

Spec == Init /\ [][Next]_vars
=============================================================================
