---------------------------- MODULE WorkerResults ---------------------------
(***************************************************************************)
(* Results that workers report for their commands (persistWorkerResult in  *)
(* server/workers/service.ts).                                             *)
(*                                                                         *)
(* A handler looks for a result of the command, awaits, and then runs a    *)
(* transaction that looks again, checks the times and the command, inserts *)
(* the result and closes the command.  The transaction writes both         *)
(* documents it decides on, and the key of the result is unique, so it is  *)
(* one step here: a loser of a conflict or of the index runs or reads      *)
(* again and meets the winner's result.                                    *)
(*                                                                         *)
(* Nothing in the repository issues commands yet; Issue is what the        *)
(* queries here expect of one.  MongoDB removes expired records.           *)
(***************************************************************************)
EXTENDS Integers

CONSTANTS
  Commands,      \* command ids
  Workers,
  Bodies,        \* contents of a result, besides its completion time
  Handlers,
  Window,        \* accepted distance of a completion time, five minutes
  ResultTtl,     \* lifetime of a stored result, seven days
  MaxLifetime,   \* longest lifetime of a command
  MaxTime        \* bound on the clock

ASSUME TimesAssumption ==
  Window \in Nat /\ ResultTtl \in Nat /\ MaxLifetime \in Nat /\ MaxTime \in Nat

VARIABLES
  now,
  command,   \* idempotency_records of scope worker-command
  result,    \* those of scope worker-command-result
  handler,   \* the report each handler serves and how far it is
  closedBy   \* history: the report that closed each command

vars == <<now, command, result, handler, closedBy>>
-----------------------------------------------------------------------------
Absent == [status |-> "absent"]

Command == [status: {"started", "closed"}, worker: Workers,
            createdAt: 0 .. MaxTime, expiresAt: 0 .. MaxTime + MaxLifetime]

\* The digest of the body covers its completion time.
Report == [worker: Workers, command: Commands, body: Bodies, completedAt: 0 .. MaxTime]

\* A result keeps the hash of its report and the worker.
Result == [report: Report, expiresAt: 0 .. MaxTime + ResultTtl]

Idle == [at |-> "idle"]

Serving == [at: {"received", "missed"}, report: Report]

Replied == [at: {"accepted", "conflict", "not_found", "invalid_time"}, report: Report]

NoReport == [command |-> "none"]

HasResult(d) == result[d] # Absent

Reply(c, answer) ==
  handler' = [handler EXCEPT ![c] = [at |-> answer, report |-> handler[c].report]]

Init ==
  /\ now = 0
  /\ command = [d \in Commands |-> Absent]
  /\ result = [d \in Commands |-> Absent]
  /\ handler = [c \in Handlers |-> Idle]
  /\ closedBy = [d \in Commands |-> NoReport]
-----------------------------------------------------------------------------
(* A command for a worker, once per id.                                    *)
Issue(d, w) ==
  /\ command[d] = Absent /\ closedBy[d] = NoReport /\ ~HasResult(d)
  /\ \E lifetime \in 1 .. MaxLifetime :
       command' = [command EXCEPT ![d] =
         [status |-> "started", worker |-> w, createdAt |-> now,
          expiresAt |-> now + lifetime]]
  /\ UNCHANGED <<now, result, handler, closedBy>>

(* An authenticated report arrives: a first one, a repetition, or another  *)
(* one for the same command, from whichever worker.                        *)
Receive(c) ==
  /\ handler[c] = Idle
  /\ \E report \in Report :
       handler' = [handler EXCEPT ![c] = [at |-> "received", report |-> report]]
  /\ UNCHANGED <<now, command, result, closedBy>>

\* Mutant: the stored result is not compared with the sender.
Matches_AnyWorker(stored, report) ==
  [stored.report EXCEPT !.worker = report.worker] = report

\* assertMatchingWorkerResult: the same body, from the same worker.
Matches(stored, report) == stored.report = report

AnswerFrom(c, stored) ==
  \/ Matches(stored, handler[c].report) /\ Reply(c, "accepted")
  \/ ~Matches(stored, handler[c].report) /\ Reply(c, "conflict")

FindResult(c) ==
  /\ handler[c].at = "received"
  /\ LET d == handler[c].report.command
     IN  \/ HasResult(d) /\ AnswerFrom(c, result[d])
         \/ ~HasResult(d) /\ handler' = [handler EXCEPT ![c].at = "missed"]
  /\ UNCHANGED <<now, command, result, closedBy>>

Near(time) == time - now <= Window /\ now - time <= Window

\* Mutant: a closed command can be reported again.
Reportable_AnyStatus(report) ==
  LET found == command[report.command]
  IN  /\ found # Absent
      /\ found.worker = report.worker
      /\ found.createdAt <= report.completedAt
      /\ report.completedAt <= found.expiresAt

\* The command the report is about: started, for this worker, and alive at
\* the completion time.
Reportable(report) ==
  LET found == command[report.command]
  IN  /\ found # Absent
      /\ found.status = "started"
      /\ found.worker = report.worker
      /\ found.createdAt <= report.completedAt
      /\ report.completedAt <= found.expiresAt

ResultExpiresAt == now + ResultTtl

(* The transaction.                                                        *)
PersistResult(c) ==
  /\ handler[c].at = "missed"
  /\ LET report == handler[c].report  d == report.command
     IN  \/ /\ HasResult(d)
            /\ AnswerFrom(c, result[d])
            /\ UNCHANGED <<command, result, closedBy>>
         \/ /\ ~HasResult(d) /\ ~Near(report.completedAt)
            /\ Reply(c, "invalid_time")
            /\ UNCHANGED <<command, result, closedBy>>
         \/ /\ ~HasResult(d) /\ Near(report.completedAt) /\ ~Reportable(report)
            /\ Reply(c, "not_found")
            /\ UNCHANGED <<command, result, closedBy>>
         \/ /\ ~HasResult(d) /\ Near(report.completedAt) /\ Reportable(report)
            /\ result' = [result EXCEPT ![d] =
                 [report |-> report, expiresAt |-> ResultExpiresAt]]
            /\ command' = [command EXCEPT ![d].status = "closed"]
            /\ closedBy' = [closedBy EXCEPT ![d] = report]
            /\ Reply(c, "accepted")
  /\ UNCHANGED now

(* The reply reaches the worker or is lost, or the handler fails.          *)
Finish(c) ==
  /\ handler[c].at \in {"missed", "accepted", "conflict", "not_found", "invalid_time"}
  /\ handler' = [handler EXCEPT ![c] = Idle]
  /\ UNCHANGED <<now, command, result, closedBy>>

RemoveExpired(d) ==
  /\ \/ /\ command[d] # Absent /\ command[d].expiresAt <= now
        /\ command' = [command EXCEPT ![d] = Absent]
        /\ UNCHANGED result
     \/ /\ HasResult(d) /\ result[d].expiresAt <= now
        /\ result' = [result EXCEPT ![d] = Absent]
        /\ UNCHANGED command
  /\ UNCHANGED <<now, handler, closedBy>>

Tick ==
  /\ now < MaxTime
  /\ now' = now + 1
  /\ UNCHANGED <<command, result, handler, closedBy>>

Next ==
  \/ \E d \in Commands, w \in Workers : Issue(d, w)
  \/ \E c \in Handlers : Receive(c) \/ FindResult(c) \/ PersistResult(c) \/ Finish(c)
  \/ \E d \in Commands : RemoveExpired(d)
  \/ Tick

Spec == Init /\ [][Next]_vars
-----------------------------------------------------------------------------
(* The records and reports have their shapes.                              *)
TypeOK ==
  /\ now \in 0 .. MaxTime
  /\ command \in [Commands -> Command \cup {Absent}]
  /\ result \in [Commands -> Result \cup {Absent}]
  /\ handler \in [Handlers -> {Idle} \cup Serving \cup Replied]
  /\ closedBy \in [Commands -> Report \cup {NoReport}]

(* A command is closed by one report, for good: no repetition, later       *)
(* report or report of another worker closes it again, even after its      *)
(* result has been removed (persistWorkerResult, service.ts:367).          *)
ClosesOnce ==
  [][\A d \in Commands : closedBy[d] # NoReport => closedBy'[d] = closedBy[d]]_vars

(* A worker is told that its report was accepted only when that report is  *)
(* the one that closed the command; two different reports of the same      *)
(* command are never both accepted.                                        *)
AcceptedIsRecorded ==
  [][\A c \in Handlers :
       handler'[c].at = "accepted" /\ handler[c].at # "accepted" =>
         closedBy'[handler[c].report.command] = handler[c].report]_vars

=============================================================================
