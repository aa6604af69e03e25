------------------------------- MODULE Worker -------------------------------
(***************************************************************************)
(* The lifecycle of the worker process (src/internal/bootstrap/module.go:  *)
(* queueWorker, workers; health.go) with its rotating identity (Reloader): *)
(* the start, the two queues' pollers with their Activities, the fatal     *)
(* callbacks, readiness and the bounded shutdown.  Five kinds of           *)
(* goroutines take part: the start, the stop hook, its two drains, a fatal *)
(* callback per queue and the poller of the files.                         *)
(*                                                                         *)
(* Simplifications: an Activity is a number per queue; the drain bound and *)
(* the end of the stop context are one event, which abandons; the          *)
(* promotion of a build and the answers of the closers are left out.  The  *)
(* SDK and Fx are external: Worker.Stop returns when no Activity runs or   *)
(* its own wait, longer than the drain bound, is over; Fx runs the stop    *)
(* hooks in reverse order once the start is over, and of a failed start    *)
(* only those whose start ran.                                             *)
(***************************************************************************)
EXTENDS Reloader

CONSTANTS
  Queues,    \* the two of them: the business queue and the control queue
  Business,  \* the one that starts first
  MaxTasks   \* MaxConcurrentActivityExecutionSize

ASSUME WorkerAssumption ==
  /\ \E control \in Queues : control # Business /\ Queues = {Business, control}
  /\ MaxTasks \in Nat \ {0}

Threads == {"nobody", "undo", "drain", "fatal"}

VARIABLES
  boot,       \* where the start is
  halt,       \* where the stop hook is
  listener,   \* the health listener is bound
  ready,      \* health.ready
  withdrawn,  \* health.withdrawn
  fatal,      \* health.fatal is recorded
  requests,   \* shutdowns asked of Fx by the fatal callback
  signal,     \* the process was told to stop
  poller,     \* a queue's SDK worker
  stopped,    \* queueWorker.stopped
  holder,     \* who holds queueWorker.mu
  callback,   \* where a queue's fatal callback is
  drain,      \* where the drain of a queue is
  tasks,      \* Activities under way
  overrun,    \* the SDK's own wait ended before them
  abandoned,  \* the root of the Activity contexts is canceled
  clients     \* the Temporal and Control clients are open

healthVars == <<listener, ready, withdrawn, fatal>>
queueVars == <<poller, stopped, holder>>
threadVars == <<boot, halt, callback, drain>>
workerVars == <<healthVars, requests, signal, queueVars, threadVars, tasks,
                overrun, abandoned, clients>>
processVars == <<reloaderVars, workerVars>>

WorkerTypeOK ==
  /\ ReloaderTypeOK
  /\ boot \in {"identity", "bind", "start", "ready", "undo", "up", "failed"}
  /\ halt \in {"none", "wait", "grace", "close", "listener", "identity", "done"}
  /\ listener \in BOOLEAN /\ ready \in BOOLEAN /\ withdrawn \in BOOLEAN
  /\ fatal \in BOOLEAN /\ signal \in BOOLEAN /\ requests \in 0 .. 1
  /\ poller \in [Queues -> {"new", "polling", "stopping", "stopped"}]
  /\ stopped \in [Queues -> BOOLEAN] /\ holder \in [Queues -> Threads]
  /\ callback \in [Queues -> {"none", "ask", "stop", "done"}]
  /\ drain \in [Queues -> {"none", "stop", "done"}]
  /\ tasks \in [Queues -> 0 .. MaxTasks]
  /\ overrun \in [Queues -> BOOLEAN]
  /\ abandoned \in BOOLEAN /\ clients \in BOOLEAN

WorkerInit ==
  /\ ReloaderInit
  /\ boot = "identity" /\ halt = "none" /\ listener = FALSE
  /\ ready = FALSE /\ withdrawn = FALSE /\ fatal = FALSE
  /\ requests = 0 /\ signal = FALSE
  /\ poller = [q \in Queues |-> "new"] /\ stopped = [q \in Queues |-> FALSE]
  /\ holder = [q \in Queues |-> "nobody"]
  /\ callback = [q \in Queues |-> "none"] /\ drain = [q \in Queues |-> "none"]
  /\ tasks = [q \in Queues |-> 0] /\ overrun = [q \in Queues |-> FALSE]
  /\ abandoned = FALSE /\ clients = TRUE

-----------------------------------------------------------------------------
(***************************************************************************)
(* queueWorker.stop, entered from the drain, the fatal callback and a      *)
(* failed start.                                                           *)
(***************************************************************************)
\* Mutated form of EnterStop: the flag is looked at without the mutex.
EnterStopUnlocked(q, who) ==
  IF stopped[q] THEN UNCHANGED queueVars
  ELSE /\ holder[q] = "nobody"
       /\ holder' = [holder EXCEPT ![q] = who]
       /\ stopped' = [stopped EXCEPT ![q] = TRUE]
       /\ poller' = [poller EXCEPT ![q] = "stopping"]

\* The mutex is taken; the first one in stops the SDK's worker.
EnterStop(q, who) ==
  /\ holder[q] = "nobody"
  /\ IF stopped[q] THEN UNCHANGED queueVars
     ELSE /\ holder' = [holder EXCEPT ![q] = who]
          /\ stopped' = [stopped EXCEPT ![q] = TRUE]
          /\ poller' = [poller EXCEPT ![q] = "stopping"]

\* Worker.Stop returned to this holder, who leaves the mutex.
LeaveStop(q, who) ==
  /\ holder[q] = who /\ poller[q] = "stopped"
  /\ holder' = [holder EXCEPT ![q] = "nobody"]
  /\ UNCHANGED <<poller, stopped>>

\* queueWorker.stop returns when the entry found it stopped, or on leaving.
StopReturns(q, who) ==
  \/ EnterStop(q, who) /\ stopped[q]
  \/ LeaveStop(q, who)
StopBegins(q, who) == EnterStop(q, who) /\ ~stopped[q]

\* The SDK: the worker is stopped when its Activities are over.
SdkStops(q) ==
  /\ poller[q] = "stopping" /\ tasks[q] = 0
  /\ poller' = [poller EXCEPT ![q] = "stopped"]
  /\ UNCHANGED <<reloaderVars, healthVars, requests, signal, threadVars>>
  /\ UNCHANGED <<stopped, holder, tasks, overrun, abandoned, clients>>

\* WorkerStopTimeout, which is longer than the drain bound: the shutdown's
\* bound is over before, unless Fx is still starting the process.
SdkGivesUp(q) ==
  /\ poller[q] = "stopping" /\ tasks[q] > 0
  /\ abandoned \/ boot # "up"
  /\ poller' = [poller EXCEPT ![q] = "stopped"]
  /\ overrun' = [overrun EXCEPT ![q] = TRUE]
  /\ UNCHANGED <<reloaderVars, healthVars, requests, signal, threadVars>>
  /\ UNCHANGED <<stopped, holder, tasks, abandoned, clients>>

TaskStarts(q) ==
  /\ poller[q] = "polling" /\ tasks[q] < MaxTasks
  /\ tasks' = [tasks EXCEPT ![q] = @ + 1]
  /\ UNCHANGED <<reloaderVars, healthVars, requests, signal, queueVars>>
  /\ UNCHANGED <<threadVars, overrun, abandoned, clients>>

TaskEnds(q) ==
  /\ tasks[q] > 0
  /\ tasks' = [tasks EXCEPT ![q] = @ - 1]
  /\ UNCHANGED <<reloaderVars, healthVars, requests, signal, queueVars>>
  /\ UNCHANGED <<threadVars, overrun, abandoned, clients>>

-----------------------------------------------------------------------------
(***************************************************************************)
(* The start.                                                              *)
(***************************************************************************)
\* newIdentities' hook runs first: the files are polled.
StartIdentity ==
  /\ boot = "identity"
  /\ StartPolling /\ UNCHANGED <<mounted, window, material>>
  /\ boot' = "bind"
  /\ UNCHANGED <<healthVars, requests, signal, queueVars, halt, callback, drain>>
  /\ UNCHANGED <<tasks, overrun, abandoned, clients>>

Bind ==
  /\ boot = "bind"
  /\ \/ listener' = TRUE /\ boot' = "start"
     \/ listener' = FALSE /\ boot' = "failed"
  /\ UNCHANGED <<reloaderVars, ready, withdrawn, fatal, requests, signal>>
  /\ UNCHANGED <<queueVars, halt, callback, drain, tasks, overrun, abandoned, clients>>

\* The business poller starts, then the control poller.
StartQueue(q) ==
  /\ boot = "start" /\ poller[q] = "new"
  /\ q # Business => poller[Business] # "new"
  /\ poller' = [poller EXCEPT ![q] = "polling"]
  /\ boot' = IF q = Business THEN "start" ELSE "ready"
  /\ UNCHANGED <<reloaderVars, healthVars, requests, signal, stopped, holder>>
  /\ UNCHANGED <<halt, callback, drain, tasks, overrun, abandoned, clients>>

\* A poller that cannot start: the business poller is stopped if it runs,
\* and the listener.
StartQueueFails ==
  /\ boot = "start"
  /\ boot' = "undo"
  /\ UNCHANGED <<reloaderVars, healthVars, requests, signal, queueVars, halt>>
  /\ UNCHANGED <<callback, drain, tasks, overrun, abandoned, clients>>

UndoEnters ==
  /\ boot = "undo" /\ poller[Business] # "new"
  /\ StopBegins(Business, "undo")
  /\ UNCHANGED <<reloaderVars, healthVars, requests, signal, threadVars>>
  /\ UNCHANGED <<tasks, overrun, abandoned, clients>>

Undone ==
  /\ boot = "undo"
  /\ IF poller[Business] = "new" THEN UNCHANGED queueVars
     ELSE StopReturns(Business, "undo")
  /\ boot' = "failed"
  /\ listener' = FALSE /\ ready' = FALSE /\ withdrawn' = TRUE
  /\ UNCHANGED <<reloaderVars, fatal, requests, signal, halt, callback, drain>>
  /\ UNCHANGED <<tasks, overrun, abandoned, clients>>

\* Mutated form of BecomeReady: the start that is over reports ready.
BecomeReadyAnyway ==
  /\ boot = "ready"
  /\ ready' = TRUE
  /\ boot' = "up"
  /\ UNCHANGED <<reloaderVars, listener, withdrawn, fatal, requests, signal>>
  /\ UNCHANGED <<queueVars, halt, callback, drain, tasks, overrun, abandoned, clients>>

\* becomeReady: not after a fatal error, nor once withdrawn.
BecomeReady ==
  /\ boot = "ready"
  /\ ready' = (~fatal /\ ~withdrawn)
  /\ boot' = "up"
  /\ UNCHANGED <<reloaderVars, listener, withdrawn, fatal, requests, signal>>
  /\ UNCHANGED <<queueVars, halt, callback, drain, tasks, overrun, abandoned, clients>>

-----------------------------------------------------------------------------
(***************************************************************************)
(* The fatal callback of a queue, on its poller's goroutine.               *)
(***************************************************************************)
\* health.fail: only the first error is recorded.
FirstError == ~fatal

Fail(q) ==
  /\ poller[q] = "polling" /\ callback[q] = "none"
  /\ ready' = FALSE /\ withdrawn' = TRUE /\ fatal' = TRUE
  /\ callback' = [callback EXCEPT ![q] = IF FirstError THEN "ask" ELSE "stop"]
  /\ UNCHANGED <<reloaderVars, listener, requests, signal, queueVars, boot>>
  /\ UNCHANGED <<halt, drain, tasks, overrun, abandoned, clients>>

AskShutdown(q) ==
  /\ callback[q] = "ask"
  /\ requests' = requests + 1 /\ signal' = TRUE
  /\ callback' = [callback EXCEPT ![q] = "stop"]
  /\ UNCHANGED <<reloaderVars, healthVars, queueVars, boot, halt, drain, tasks>>
  /\ UNCHANGED <<overrun, abandoned, clients>>

FatalEnters(q) ==
  /\ callback[q] = "stop" /\ StopBegins(q, "fatal")
  /\ UNCHANGED <<reloaderVars, healthVars, requests, signal, threadVars>>
  /\ UNCHANGED <<tasks, overrun, abandoned, clients>>

FatalReturns(q) ==
  /\ callback[q] = "stop" /\ StopReturns(q, "fatal")
  /\ callback' = [callback EXCEPT ![q] = "done"]
  /\ UNCHANGED <<reloaderVars, healthVars, requests, signal, boot, halt, drain>>
  /\ UNCHANGED <<tasks, overrun, abandoned, clients>>

-----------------------------------------------------------------------------
(***************************************************************************)
(* The stop.                                                               *)
(***************************************************************************)
\* A termination signal (external).
Terminate ==
  /\ ~signal
  /\ signal' = TRUE
  /\ UNCHANGED <<reloaderVars, healthVars, requests, queueVars, threadVars>>
  /\ UNCHANGED <<tasks, overrun, abandoned, clients>>

BeginStop ==
  /\ boot = "up" /\ signal /\ halt = "none"
  /\ ready' = FALSE /\ withdrawn' = TRUE
  /\ drain' = [q \in Queues |-> "stop"]
  /\ halt' = "wait"
  /\ UNCHANGED <<reloaderVars, listener, fatal, requests, signal, queueVars>>
  /\ UNCHANGED <<boot, callback, tasks, overrun, abandoned, clients>>

DrainEnters(q) ==
  /\ drain[q] = "stop" /\ StopBegins(q, "drain")
  /\ UNCHANGED <<reloaderVars, healthVars, requests, signal, threadVars>>
  /\ UNCHANGED <<tasks, overrun, abandoned, clients>>

DrainReturns(q) ==
  /\ drain[q] = "stop" /\ StopReturns(q, "drain")
  /\ drain' = [drain EXCEPT ![q] = "done"]
  /\ UNCHANGED <<reloaderVars, healthVars, requests, signal, boot, halt>>
  /\ UNCHANGED <<callback, tasks, overrun, abandoned, clients>>

Drained == \A q \in Queues : drain[q] = "done"

\* Both drains are over, before the bound or within the report grace.
StopDrained ==
  /\ halt \in {"wait", "grace"} /\ Drained
  /\ halt' = "close"
  /\ UNCHANGED <<reloaderVars, healthVars, requests, signal, queueVars, boot>>
  /\ UNCHANGED <<callback, drain, tasks, overrun, abandoned, clients>>

\* Mutated form of BoundElapses: the drains are waited for without a bound.
BoundElapsesDrained ==
  /\ halt = "wait" /\ Drained
  /\ abandoned' = TRUE
  /\ halt' = "grace"
  /\ UNCHANGED <<reloaderVars, healthVars, requests, signal, queueVars, boot>>
  /\ UNCHANGED <<callback, drain, tasks, overrun, clients>>

\* The drain bound, or the stop context, ended: the Activities are abandoned.
BoundElapses ==
  /\ halt = "wait"
  /\ abandoned' = TRUE
  /\ halt' = "grace"
  /\ UNCHANGED <<reloaderVars, healthVars, requests, signal, queueVars, boot>>
  /\ UNCHANGED <<callback, drain, tasks, overrun, clients>>

GraceElapses ==
  /\ halt = "grace"
  /\ halt' = "close"
  /\ UNCHANGED <<reloaderVars, healthVars, requests, signal, queueVars, boot>>
  /\ UNCHANGED <<callback, drain, tasks, overrun, abandoned, clients>>

CloseClients ==
  /\ halt = "close"
  /\ clients' = FALSE
  /\ halt' = "listener"
  /\ UNCHANGED <<reloaderVars, healthVars, requests, signal, queueVars, boot>>
  /\ UNCHANGED <<callback, drain, tasks, overrun, abandoned>>

StopListener ==
  /\ halt = "listener"
  /\ listener' = FALSE /\ ready' = FALSE /\ withdrawn' = TRUE
  /\ halt' = "identity"
  /\ UNCHANGED <<reloaderVars, fatal, requests, signal, queueVars, boot>>
  /\ UNCHANGED <<callback, drain, tasks, overrun, abandoned, clients>>

\* The hook of newIdentities runs last, of a failed start too.
StopIdentity ==
  /\ halt = "identity" \/ (boot = "failed" /\ halt = "none")
  /\ StopPolling /\ UNCHANGED <<mounted, window, material>>
  /\ halt' = "done"
  /\ UNCHANGED <<healthVars, requests, signal, queueVars, boot, callback, drain>>
  /\ UNCHANGED <<tasks, overrun, abandoned, clients>>

-----------------------------------------------------------------------------
Files ==
  /\ Poll \/ ReadFails \/ \E v \in Versions : Swap(v)
  /\ halt # "done"
  /\ UNCHANGED workerVars

\* The goroutines of the process.
Step ==
  \/ StartIdentity \/ Bind \/ (\E q \in Queues : StartQueue(q)) \/ UndoEnters
  \/ Undone \/ BecomeReady
  \/ BeginStop \/ StopDrained \/ BoundElapses \/ GraceElapses \/ CloseClients
  \/ StopListener
QueueStep(q) ==
  /\ halt # "done"
  /\ \/ AskShutdown(q) \/ FatalEnters(q) \/ FatalReturns(q) \/ DrainEnters(q)
     \/ DrainReturns(q) \/ SdkStops(q) \/ SdkGivesUp(q)

\* What the Activities and the server do, while the process runs.
Events(q) ==
  /\ halt # "done"
  /\ TaskStarts(q) \/ TaskEnds(q) \/ Fail(q)

ProcessEnded == halt = "done" /\ UNCHANGED processVars

WorkerNext ==
  \/ Step \/ StopIdentity \/ StartQueueFails \/ Terminate \/ Files \/ ProcessEnded
  \/ \E q \in Queues : QueueStep(q) \/ Events(q)

WorkerSpec == WorkerInit /\ [][WorkerNext]_processVars

(***************************************************************************)
(* Fairness.  A goroutine takes its next step, the bounds of the shutdown  *)
(* and of the SDK elapse, and the ticker fires; an Activity need not end,  *)
(* no file need change, and a mutex is handed to whoever waits for it; the *)
(* files are not unreadable or unusable in every pass.                     *)
(* Reloader.Stop waits for the pass under way, and the ticker does not     *)
(* fire for ever before the poller sees that it is canceled.               *)
(***************************************************************************)
WorkerFairSpec ==
  /\ WorkerSpec
  /\ WF_processVars(Step) /\ SF_processVars(StopIdentity)
  /\ WF_processVars(Tick /\ UNCHANGED workerVars)
  /\ SF_processVars(Digested /\ UNCHANGED workerVars)
  /\ SF_processVars(Loaded /\ UNCHANGED workerVars)
  /\ \A q \in Queues : WF_processVars(QueueStep(q))

-----------------------------------------------------------------------------
(***************************************************************************)
(* Properties                                                              *)
(***************************************************************************)

\* /readyz answers 200 only while both pollers poll, no queue has failed,
\* no stop has begun and the listener and the files are looked after; a
\* start that is over after a failure does not report ready.
ReadyMeansServing ==
  ready => /\ boot = "up" /\ halt = "none" /\ ~fatal /\ listener
           /\ polling # "off" /\ polling # "ending"
           /\ \A q \in Queues : poller[q] = "polling"

\* The clients close under an Activity only if it was abandoned or the SDK's
\* own wait for it was over, and the identity is looked after until the
\* clients are closed.
ClientsOutliveActivities ==
  /\ ~clients => \A q \in Queues : tasks[q] > 0 => abandoned \/ overrun[q]
  /\ clients /\ boot = "up" => polling \notin {"off", "ending"}

\* A stop that was asked for ends, whatever the Activities do.
StopEnds == signal ~> halt = "done"

\* A file set that stays is the one in force in the end, however the
\* passes that read it were torn.
MaterialFollows ==
  \A v \in Versions :
    <>[](mounted = v /\ halt = "none" /\ boot = "up")
      => <>[](material.contents = Whole(v))
-----------------------------------------------------------------------------
(***************************************************************************)
(* The inductive invariant behind the safety properties.                   *)
(***************************************************************************)
\* The files are polled from the first hook of the start to the last one of
\* the stop, the listener is bound in between, and what is in force is what
\* its digest says.
ServiceInv ==
  /\ polling = "off" <=> boot = "identity"
  /\ polling = "ending" <=> halt = "done"
  /\ boot \in {"start", "ready", "undo", "up"} /\ halt \notin {"identity", "done"}
       => listener
  /\ material.digest = material.contents

\* Only a process that is up is stopped, in this order; a failed start ends.
\* The clients close once the drains are over or the Activities abandoned.
StopInv ==
  /\ halt # "none" => boot = "up" \/ (halt = "done" /\ boot = "failed")
  /\ halt = "grace" => abandoned
  /\ halt \in {"close", "listener", "identity", "done"} /\ boot = "up"
       => abandoned \/ Drained
  /\ clients <=> ~(halt \in {"listener", "identity", "done"} /\ boot = "up")

\* Readiness is withdrawn by whatever takes a poller away, and stays so.
ReadyInv ==
  /\ ready => boot = "up" /\ ~withdrawn
  /\ fatal => withdrawn
  /\ halt # "none" /\ boot = "up" => withdrawn
  /\ \A q \in Queues :
       /\ callback[q] # "none" => fatal
       /\ drain[q] # "none" => halt # "none" /\ boot = "up"
       /\ poller[q] \in {"stopping", "stopped"}
            => withdrawn \/ boot \in {"undo", "failed"}
       /\ poller[q] = "new" => boot \notin {"ready", "up"}

\* Who finds a queue stopped finds it stopped by the one who stopped it; its
\* Activities are over, or the SDK's wait for them.
QueueInv ==
  \A q \in Queues :
    /\ poller[q] \in {"stopping", "stopped"} => stopped[q]
    /\ stopped[q] /\ holder[q] = "nobody" => poller[q] = "stopped"
    /\ drain[q] = "done" => poller[q] = "stopped"
    /\ poller[q] = "stopped" => tasks[q] = 0 \/ overrun[q]

\* Of any number of fatal errors one asks Fx for the shutdown, once.
AskedInv ==
  /\ ~fatal => requests = 0
  /\ \A q \in Queues :
       callback[q] = "ask" =>
         /\ requests = 0
         /\ \A r \in Queues : callback[r] = "ask" => r = q

WInv ==
  WorkerTypeOK /\ ServiceInv /\ StopInv /\ ReadyInv /\ QueueInv /\ AskedInv
=============================================================================
