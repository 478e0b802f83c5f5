-------------------------- MODULE WorkerEnrollment --------------------------
(***************************************************************************)
(* Enrollment of a worker with a one-use token: the agent's processes, the *)
(* state file they keep the key pair in, and the control plane.            *)
(*                                                                         *)
(* An agent writes its key pair to the file before it asks, so that an     *)
(* enrollment whose reply is lost can be asked for again with the same     *)
(* key.  The control plane remembers a hash of the request that consumed   *)
(* the token, which covers what the host reports of itself ("facts").      *)
(*                                                                         *)
(* A file is replaced as a whole (a temporary file, synced and renamed).   *)
(* Processes may overlap on a machine, stop at any point and be started    *)
(* again; a request outlives the process that sent it.                     *)
(***************************************************************************)
EXTENDS FiniteSets

CONSTANTS Machines,
          Processes,
          MachineOf,   \* the machine a process runs on
          Keys,        \* key pairs that can be generated
          Facts,       \* capacity and versions a host can report
          None         \* no file, key, worker or record

VARIABLES file,        \* per machine: the state file
          process,     \* per process: how far it is, and the key it holds
          request,     \* per process: its enrollment request in flight
          facts,       \* what a host reports now
          record,      \* the request that consumed the token
          credential   \* the active credential: its public key

vars == <<file, process, request, facts, record, credential>>

\* A worker is named by the key it was enrolled with.
File == [key : Keys, worker : Keys \cup {None}]
Process == [at : {"stopped", "writing", "asking", "waiting", "storing", "beating"},
            key : Keys \cup {None}]
Request == [key : Keys, facts : Facts]

TypeOK ==
  /\ file \in [Machines -> File \cup {None}]
  /\ process \in [Processes -> Process]
  /\ request \in [Processes -> Request \cup {None}]
  /\ facts \in Facts
  /\ record \in Request \cup {None}
  /\ credential \in Keys \cup {None}
  /\ \A p \in Processes : process[p].at = "stopped" <=> process[p].key = None
  /\ credential # None => record # None

Stopped == [at |-> "stopped", key |-> None]

Init ==
  /\ file = [m \in Machines |-> None]
  /\ process = [p \in Processes |-> Stopped]
  /\ request = [p \in Processes |-> None]
  /\ facts \in Facts
  /\ record = None
  /\ credential = None

-----------------------------------------------------------------------------
(* The agent.                                                              *)

FileOf(p) == file[MachineOf[p]]
Enrolled(m) == file[m] # None /\ file[m].worker # None

\* A new key pair is no other's.
Unused(k) ==
  /\ \A p \in Processes : process[p].key # k /\ (request[p] # None => request[p].key # k)
  /\ \A m \in Machines : file[m] # None => file[m].key # k
  /\ record # None => record.key # k

At(p, stage, key) == process' = [process EXCEPT ![p] = [at |-> stage, key |-> key]]

\* "enroll" or "start" on a machine without a state file.
StartNew(p, k) ==
  /\ process[p] = Stopped
  /\ FileOf(p) = None
  /\ Unused(k)
  /\ At(p, "writing", k)
  /\ UNCHANGED <<file, request, facts, record, credential>>

\* The file that enrollAgent leaves before it asks.
WriteKey(p) ==
  /\ process[p].at = "writing"
  /\ file' = [file EXCEPT ![MachineOf[p]] = [key |-> process[p].key, worker |-> None]]
  /\ At(p, "asking", process[p].key)
  /\ UNCHANGED <<request, facts, record, credential>>

MutKeyToAsk(p) == CHOOSE k \in Keys : Unused(k) \/ k = FileOf(p).key
\* Asking again takes the key of the file.
KeyToAsk(p) == FileOf(p).key

StartAgain(p) ==
  /\ process[p] = Stopped
  /\ FileOf(p) # None /\ FileOf(p).worker = None
  /\ At(p, "asking", KeyToAsk(p))
  /\ UNCHANGED <<file, request, facts, record, credential>>

\* "start" with an enrolled file goes on to the heartbeats.
StartEnrolled(p) ==
  /\ process[p] = Stopped
  /\ FileOf(p) # None /\ FileOf(p).worker # None
  /\ At(p, "beating", FileOf(p).key)
  /\ UNCHANGED <<file, request, facts, record, credential>>

Ask(p) ==
  /\ process[p].at = "asking"
  /\ request[p] = None
  /\ request' = [request EXCEPT ![p] = [key |-> process[p].key, facts |-> facts]]
  /\ At(p, "waiting", process[p].key)
  /\ UNCHANGED <<file, facts, record, credential>>

\* The file written after the reply: the key the process asked with, and the
\* worker it got.
Stored(p) ==
  [file EXCEPT ![MachineOf[p]] = [key |-> process[p].key, worker |-> process[p].key]]

StoreWorker(p) ==
  /\ process[p].at = "storing"
  /\ file' = Stored(p)
  /\ At(p, "beating", process[p].key)
  /\ UNCHANGED <<request, facts, record, credential>>

\* A refusal, a timeout, a signal, a crash, or a heartbeat that fails for good.
Stop(p) ==
  /\ process[p] # Stopped
  /\ process' = [process EXCEPT ![p] = Stopped]
  /\ UNCHANGED <<file, request, facts, record, credential>>

-----------------------------------------------------------------------------
(* The control plane.                                                      *)

Answered(p) == request' = [request EXCEPT ![p] = None]
\* The reply reaches a process that waits for it.
Accept(p) ==
  process' = [process EXCEPT ![p].at =
    IF @ = "waiting" /\ process[p].key = request[p].key THEN "storing" ELSE @]

\* The token's record and the worker with its credential, in one transaction.
Consume(p) == record' = request[p] /\ credential' = request[p].key

\* The transaction that consumes the token and creates worker and credential;
\* the unique index on the token lets one request through.
EnrollWorker(p) ==
  /\ request[p] # None
  /\ record = None
  /\ Consume(p)
  /\ Accept(p)
  /\ Answered(p)
  /\ UNCHANGED <<file, facts>>

MutReplays(r) == r.facts = record.facts
\* findEnrollmentReplay: the same request, and a credential with its key.
Replays(r) == r = record /\ credential = r.key

Replay(p) ==
  /\ request[p] # None /\ record # None
  /\ Replays(request[p])
  /\ Accept(p)
  /\ Answered(p)
  /\ UNCHANGED <<file, facts, record, credential>>

\* The token was consumed by another request, or the request or its reply is
\* lost on the way; the process ends with an error.
Refuse(p) ==
  /\ request[p] # None
  /\ Answered(p)
  /\ process' = [process EXCEPT ![p] = IF @.at = "waiting" THEN Stopped ELSE @]
  /\ UNCHANGED <<file, facts, record, credential>>

\* The transaction committed and its reply is lost.
EnrollUnheard(p) ==
  /\ request[p] # None
  /\ record = None
  /\ Consume(p)
  /\ Answered(p)
  /\ process' = [process EXCEPT ![p] = IF @.at = "waiting" THEN Stopped ELSE @]
  /\ UNCHANGED <<file, facts>>

CredentialExpires ==
  /\ credential # None
  /\ credential' = None
  /\ UNCHANGED <<file, process, request, facts, record>>

\* A disk grows, the agent's runtime is upgraded.
HostChanges ==
  /\ facts' \in Facts \ {facts}
  /\ UNCHANGED <<file, process, request, record, credential>>

Next ==
  \/ \E p \in Processes :
       \/ \E k \in Keys : StartNew(p, k)
       \/ WriteKey(p) \/ StartAgain(p) \/ StartEnrolled(p) \/ Ask(p)
       \/ StoreWorker(p) \/ Stop(p)
       \/ EnrollWorker(p) \/ EnrollUnheard(p) \/ Replay(p) \/ Refuse(p)
  \/ CredentialExpires \/ HostChanges

\* Someone runs the agent again and again, it is not always stopped before its
\* reply, and a request ends: its reply comes or fetch gives up after 15 seconds.
Fairness ==
  \A p \in Processes :
    /\ WF_vars(StartAgain(p)) /\ WF_vars(Refuse(p)) /\ SF_vars(Ask(p))
    /\ SF_vars(process[p].at = "waiting" /\ Replay(p)) /\ SF_vars(StoreWorker(p))
FairSpec == Init /\ [][Next]_vars /\ Fairness

-----------------------------------------------------------------------------
(* Properties.                                                             *)

\* The key in an enrolled file is the one the control plane knows the worker
\* by: whatever processes overlap and whatever replies are late, the worker it
\* names is the worker it can sign for.
EnrolledHoldsKey ==
  \A m \in Machines : Enrolled(m) => /\ file[m].worker = file[m].key
                                     /\ record # None /\ record.key = file[m].key

\* No process is about to write another key over the file.
Settled(m) == \A p \in Processes : MachineOf[p] = m => process[p].at # "writing"

\* The next request of a process that holds the key would be the recorded one.
CanReplay(m) ==
  /\ record # None /\ credential # None /\ file[m] # None
  /\ record = [key |-> file[m].key, facts |-> facts]

\* A machine whose key consumed the token, and that did not hear of it, is
\* enrolled in the end, unless its host or its credential changes first.
LostReplyRecovered ==
  \A m \in Machines : CanReplay(m) /\ Settled(m) ~> Enrolled(m) \/ ~CanReplay(m)

=============================================================================
