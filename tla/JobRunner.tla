------------------------------ MODULE JobRunner -----------------------------
(***************************************************************************)
(* The job runner (server/jobs/runner.ts): its start, the events of its    *)
(* queue workers, the jobs they run, and its end.                          *)
(*                                                                         *)
(* The runner holds handles: a first connection to Redis, a health server, *)
(* one worker per queue, the registry of queues, and MongoDB, which a job  *)
(* connects.  A handle whose close fails stays "held".  Workers take jobs  *)
(* and report errors as soon as they exist, also while the runner starts   *)
(* or closes.  BullMQ is modelled from its use: closing a worker waits for *)
(* its job, and a scheduler brings the next job when one has ended.        *)
(***************************************************************************)
EXTENDS FiniteSets

CONSTANT Queues   \* the queues with a consumer

\* A queue is not called like another handle of the runner.
ASSUME QueuesAssumption ==
  Queues \cap {"preflight", "health", "registry", "mongo"} = {}

VARIABLES
  phase,      \* how far the runner is
  handle,     \* what it holds
  ready,      \* isReady
  unhealthy,  \* unhealthyResources
  active,     \* queues whose worker runs a job
  aborted,    \* a signal arrived
  exitCode

vars == <<phase, handle, ready, unhealthy, active, aborted, exitCode>>

Handles == Queues \cup {"preflight", "health", "registry", "mongo"}

\* "unwinding" is the catch block of startJobRunner, "closing" runner.close().
Phases == {"connecting", "connected", "binding", "starting", "running",
           "unwinding", "closing", "ended"}

TypeOK ==
  /\ phase \in Phases
  /\ handle \in [Handles -> {"none", "open", "closed", "held"}]
  /\ ready \in BOOLEAN /\ aborted \in BOOLEAN
  /\ unhealthy \subseteq Queues /\ active \subseteq Queues
  /\ exitCode \in IF phase = "ended" THEN {"0", "1"} ELSE {"none"}

Init ==
  /\ phase = "connecting"
  /\ handle = [h \in Handles |-> IF h = "preflight" THEN "open" ELSE "none"]
  /\ ready = FALSE /\ unhealthy = {} /\ active = {}
  /\ aborted = FALSE /\ exitCode = "none"

Open(h) == handle[h] = "open"
Opened(set) == [h \in Handles |-> IF h \in set THEN "open" ELSE handle[h]]
\* Closing a handle, or failing to.
Settles(h) == \E end \in {"closed", "held"} : handle' = [handle EXCEPT ![h] = end]
Stopping == phase \in {"unwinding", "closing"}

-----------------------------------------------------------------------------
(* Start.                                                                  *)

Connect ==
  /\ phase = "connecting"
  /\ phase' = "connected"
  /\ UNCHANGED <<handle, ready, unhealthy, active, aborted, exitCode>>

\* The first connection is closed; a signal is only looked at after that.
ClosePreflight ==
  /\ phase = "connected"
  /\ \/ /\ ~aborted
        /\ handle' = [handle EXCEPT !["preflight"] = "closed", !["registry"] = "open"]
        /\ phase' = "binding"
     \/ /\ aborted
        /\ handle' = [handle EXCEPT !["preflight"] = "closed"]
        /\ phase' = "unwinding"
  /\ UNCHANGED <<ready, unhealthy, active, aborted, exitCode>>

\* The health server listens, or there is none, and the workers are made; a
\* signal that came meanwhile is noticed when they exist.
Bind ==
  /\ phase = "binding"
  /\ \/ handle' = Opened(Queues \cup {"health"})
     \/ handle' = Opened(Queues)
  /\ phase' = IF aborted THEN "unwinding" ELSE "starting"
  /\ UNCHANGED <<ready, unhealthy, active, aborted, exitCode>>

\* Every worker is ready and the schedulers are installed; main looks at the
\* signal once more.
CompleteStart ==
  /\ phase = "starting"
  /\ phase' = IF aborted THEN "closing" ELSE "running"
  /\ ready' = (unhealthy = {})
  /\ UNCHANGED <<handle, unhealthy, active, aborted, exitCode>>

\* A connection is refused, a port taken, or a step takes 15 seconds.
FailStart ==
  /\ phase \in {"connecting", "connected", "binding", "starting"}
  /\ phase' = "unwinding"
  /\ UNCHANGED <<handle, ready, unhealthy, active, aborted, exitCode>>

-----------------------------------------------------------------------------
(* Queue workers and their jobs.                                           *)

WorkerError(q) ==
  /\ Open(q)
  /\ unhealthy' = unhealthy \cup {q}
  /\ ready' = FALSE
  /\ UNCHANGED <<phase, handle, active, aborted, exitCode>>

StartupComplete == phase \in {"running", "closing"}
MutReadyAgain(q) == unhealthy \ {q} = {}
ReadyAgain(q) == StartupComplete /\ unhealthy \ {q} = {}

WorkerReady(q) ==
  /\ Open(q)
  /\ unhealthy' = unhealthy \ {q}
  /\ ready' = ReadyAgain(q)
  /\ UNCHANGED <<phase, handle, active, aborted, exitCode>>

\* A closing worker takes no new job.
TakesJobs(q) == Open(q) /\ ~(Stopping /\ ~Open("health"))

\* A job begins with connectMongoose; when that fails the job fails.
BeginJob(q) ==
  /\ TakesJobs(q) /\ q \notin active
  /\ handle' = Opened({"mongo"})
  /\ active' = active \cup {q}
  /\ UNCHANGED <<phase, ready, unhealthy, aborted, exitCode>>

\* Completed, or failed and left to the queue's retries.
EndJob(q) ==
  /\ q \in active
  /\ active' = active \ {q}
  /\ UNCHANGED <<phase, handle, ready, unhealthy, aborted, exitCode>>

-----------------------------------------------------------------------------
(* End.                                                                    *)

MutAfterSignal == IF phase \in {"connecting", "starting"} THEN "unwinding" ELSE phase
\* A signal ends an awaited start at once and closes a runner that has started;
\* elsewhere it is only remembered.
AfterSignal ==
  CASE phase \in {"connecting", "starting"} -> "unwinding"
    [] phase = "running" -> "closing"
    [] OTHER -> phase

\* The first signal.
Signal ==
  /\ ~aborted /\ phase # "ended"
  /\ aborted' = TRUE
  /\ phase' = AfterSignal
  /\ ready' = (ready /\ phase # "running")
  /\ UNCHANGED <<handle, unhealthy, active, exitCode>>

\* closeRunnerResources and, while starting, the first connection: one after
\* the other, the workers at the same time.
MutMayClose(h) == TRUE
MayClose(h) ==
  CASE h = "preflight" -> TRUE
    [] h = "health" -> ~Open("preflight")
    [] h \in Queues -> ~Open("preflight") /\ ~Open("health") /\ h \notin active
    [] h = "registry" -> ~Open("health") /\ ~\E q \in Queues : Open(q)
    [] h = "mongo" -> ~\E g \in Handles \ {"mongo"} : Open(g)

Close(h) ==
  /\ Stopping /\ Open(h)
  /\ MayClose(h)
  /\ Settles(h)
  /\ UNCHANGED <<phase, ready, unhealthy, active, aborted, exitCode>>

Held == \E h \in Handles : handle[h] = "held"
MutExit == IF phase = "closing" /\ Held THEN "1" ELSE exitCode
\* What fails while a start is undone is not reported.
Exit ==
  IF phase = "closing"
  THEN IF Held THEN "1" ELSE "0"
  ELSE IF aborted THEN "0" ELSE "1"

End ==
  /\ Stopping /\ \A h \in Handles : ~Open(h)
  /\ phase' = "ended"
  /\ exitCode' = Exit
  /\ UNCHANGED <<handle, ready, unhealthy, active, aborted>>

Next ==
  \/ Connect \/ ClosePreflight \/ Bind \/ CompleteStart \/ FailStart
  \/ \E q \in Queues : WorkerError(q) \/ WorkerReady(q) \/ BeginJob(q) \/ EndJob(q)
  \/ \E h \in Handles : Close(h)
  \/ Signal \/ End

Spec == Init /\ [][Next]_vars

Continue == ClosePreflight \/ Bind \/ End \/ \E h \in Handles : Close(h)

\* The runner goes on when what it awaits settles (a connection is closed or
\* given up within two seconds), and a job ends.
Fairness == WF_vars(Continue) /\ \A q \in Queues : WF_vars(EndJob(q))
FairSpec == Spec /\ Fairness

-----------------------------------------------------------------------------
(* Properties.                                                             *)

\* No job loses its database or its worker: whenever a job runs, also while
\* the runner starts or closes, both are still there.
JobsHaveDatabase == \A q \in active : Open(q) /\ Open("mongo")

\* Readiness is never reported before the start is complete or with a worker
\* that has not recovered, in whatever order the workers' events come.
ReadyIsHealthy == ready => phase \notin {"starting", "unwinding"} /\ unhealthy = {}

\* A signal ends the runner, wherever it is in its start, and a start that
\* fails is undone to the end.
EndsWhenAsked == aborted \/ phase = "unwinding" ~> phase = "ended"
=============================================================================
