------------------------------ MODULE Reloader ------------------------------
(***************************************************************************)
(* The rotating identity of the worker (src/internal/transport/identity/   *)
(* reloader.go, material.go).  The mounted files (certificate, key, CA     *)
(* bundle) are polled: one pass digests them, and when the digest is not   *)
(* that of the current material a second pass reads them again and         *)
(* validates what it read.  The three files of a pass are read one after   *)
(* the other and the mount may be swapped at any moment, so what a pass    *)
(* read can be torn between versions.                                      *)
(*                                                                         *)
(* Simplifications: a file's bytes are the version of the mount they came  *)
(* from; a pass is a begin and an end, and each file it read is of a       *)
(* version that was mounted in between; the count of rejected candidates   *)
(* and the callbacks are left out.                                         *)
(***************************************************************************)
EXTENDS Naturals

CONSTANTS
  Versions,  \* the file sets that may be mounted
  First      \* the one New loaded

ASSUME VersionsAssumption == First \in Versions

VARIABLES
  mounted,   \* the version at the path
  window,    \* the versions mounted since the pass began
  polling,   \* the poller: "off", "idle", "digest", "load", "ending"
  material   \* Reloader.current: the contents and their Digest

reloaderVars == <<mounted, window, polling, material>>

\* The bytes of the three files.
Contents == [cert : Versions, key : Versions, ca : Versions]
Whole(v) == [cert |-> v, key |-> v, ca |-> v]
Read == {c \in Contents : {c.cert, c.key, c.ca} \subseteq window}

\* Parse: the key matches the certificate.
Parses(c) == c.cert = c.key

\* What is in force parsed, whatever the passes that read it were torn between.
ReloaderTypeOK ==
  /\ mounted \in Versions /\ window \subseteq Versions
  /\ polling \in {"off", "idle", "digest", "load", "ending"}
  /\ material \in [contents : {c \in Contents : Parses(c)}, digest : Contents]

ReloaderInit ==
  /\ mounted = First /\ window = {First} /\ polling = "off"
  /\ material = [contents |-> Whole(First), digest |-> Whole(First)]

\* The mount is swapped (external).
Swap(v) ==
  /\ v # mounted
  /\ mounted' = v
  /\ window' = IF polling \in {"digest", "load"} THEN window \cup {v} ELSE {v}
  /\ UNCHANGED <<polling, material>>

\* Start: the poller runs until Stop.
StartPolling == polling = "off" /\ polling' = "idle"

\* The ticker fires; a pass begins with what is mounted now.
Tick ==
  /\ polling = "idle"
  /\ polling' = "digest" /\ window' = {mounted}
  /\ UNCHANGED <<mounted, material>>

\* A file is missing or unreadable, in either pass, or what was loaded is
\* out of its validity or holds no usable bundle: the material stays.
ReadFails ==
  /\ polling \in {"digest", "load"}
  /\ polling' = "idle" /\ window' = {mounted}
  /\ UNCHANGED <<mounted, material>>

\* filesDigest: the bytes are those of the material in force, or a second
\* pass reads them.
Digested ==
  /\ polling = "digest"
  /\ \E read \in Read :
       polling' = IF read = material.digest THEN "idle" ELSE "load"
  /\ window' = {mounted}
  /\ UNCHANGED <<mounted, material>>

\* Mutated form of Publish: the digest is taken again when the material is
\* stored.
PublishDigestLater(read) ==
  material' = IF Parses(read)
              THEN [contents |-> read, digest |-> Whole(mounted)] ELSE material

\* Load refuses a candidate as a whole or publishes it with its digest.
Publish(read) ==
  material' = IF Parses(read)
              THEN [contents |-> read, digest |-> read] ELSE material

Loaded ==
  /\ polling = "load"
  /\ \E read \in Read : Publish(read)
  /\ polling' = "idle" /\ window' = {mounted}
  /\ UNCHANGED mounted

\* Stop cancels the poller and waits for the pass under way.
StopPolling == polling = "idle" /\ polling' = "ending"

Poll == Tick \/ Digested \/ Loaded
=============================================================================
