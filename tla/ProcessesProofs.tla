--------------------------- MODULE ProcessesProofs ---------------------------
(***************************************************************************)
(* Proofs about the programs beside the control plane: the job runner, for *)
(* any queues, and the enrollment of workers, for any machines, processes, *)
(* keys and facts.                                                         *)
(***************************************************************************)
EXTENDS MCProcesses, TLAPS

-----------------------------------------------------------------------------
(* The job runner.                                                         *)

\* Readiness is only ever reported by a runner whose start is complete.
ReadyWhenStarted ==
  ready => phase \in {"running", "closing", "ended"} /\ unhealthy = {}

RunnerInv == TypeOK /\ JobsHaveDatabase /\ ReadyWhenStarted

\* Opening handles keeps what is open.
LEMMA OpenedKeeps ==
  ASSUME TypeOK, NEW set \in SUBSET Handles
  PROVE  /\ Opened(set) \in [Handles -> {"none", "open", "closed", "held"}]
         /\ \A h \in Handles : Open(h) => Opened(set)[h] = "open"
         /\ \A h \in set : Opened(set)[h] = "open"
  BY DEF Opened, Open, TypeOK

\* A handle that something still needs is not closed.
LEMMA CloseKeepsJobs ==
  ASSUME RunnerInv, NEW h \in Handles, Close(h)
  PROVE  JobsHaveDatabase'
<1>1. /\ MayClose(h) /\ UNCHANGED active
      /\ \A g \in Handles \ {h} : handle'[g] = handle[g]
  BY DEF Close, Settles, RunnerInv, TypeOK
<1>2. active \subseteq Queues /\ Queues \subseteq Handles /\ "mongo" \in Handles
  BY DEF RunnerInv, TypeOK, Handles
<1>3. \A q \in active : Open(q) /\ Open("mongo") /\ q # "mongo"
  BY <1>2, QueuesAssumption DEF RunnerInv, JobsHaveDatabase
<1>4. h \notin active
  <2>1. CASE h \in Queues
    <3>1. h \notin {"preflight", "health", "registry", "mongo"}
      BY <2>1, QueuesAssumption
    <3> QED
      BY <1>1, <2>1, <3>1 DEF MayClose
  <2>2. CASE h \notin Queues
    BY <1>2, <2>2
  <2> QED
    BY <2>1, <2>2
<1>5. active # {} => h # "mongo"
  <2>1. ASSUME h = "mongo", NEW q \in active
        PROVE  FALSE
    <3>1. h \notin Queues
      BY <2>1, QueuesAssumption
    <3>2. ~\E g \in Handles \ {"mongo"} : Open(g)
      BY <1>1, <2>1, <3>1 DEF MayClose
    <3> QED
      BY <1>2, <1>3, <2>1, <3>2
  <2> QED
    BY <2>1
<1>6. ASSUME NEW q \in active
      PROVE  handle'[q] = "open" /\ handle'["mongo"] = "open"
  BY <1>1, <1>2, <1>3, <1>4, <1>5, <1>6 DEF Open
<1> QED
  BY <1>1, <1>6 DEF JobsHaveDatabase, Open

\* The inductive invariant of the runner is kept by every step.
LEMMA RunnerStep == RunnerInv /\ [Next]_vars => RunnerInv'
<1> SUFFICES ASSUME RunnerInv, [Next]_vars PROVE RunnerInv'
  OBVIOUS
<1> USE DEF RunnerInv
<1>h. /\ Queues \subseteq Handles
      /\ {"preflight", "health", "registry", "mongo"} \subseteq Handles
  BY DEF Handles
<1>1. CASE Connect
  BY <1>1 DEF Connect, TypeOK, Phases, JobsHaveDatabase, Open, ReadyWhenStarted
<1>2. CASE ClosePreflight
  <2>1. "preflight" \notin Queues /\ "preflight" # "mongo"
    BY QueuesAssumption
  <2>2. /\ handle' \in [Handles -> {"none", "open", "closed", "held"}]
        /\ \A h \in Handles \ {"preflight"} : Open(h) => handle'[h] = "open"
    BY <1>2 DEF ClosePreflight, TypeOK, Open
  <2>3. TypeOK'
    BY <1>2, <2>2 DEF ClosePreflight, TypeOK, Phases
  <2>4. JobsHaveDatabase'
    BY <1>2, <1>h, <2>1, <2>2 DEF ClosePreflight, TypeOK, JobsHaveDatabase, Open
  <2>5. ReadyWhenStarted'
    BY <1>2 DEF ClosePreflight, ReadyWhenStarted
  <2> QED
    BY <2>3, <2>4, <2>5
<1>3. CASE Bind
  <2>1. PICK set \in SUBSET Handles : handle' = Opened(set)
    BY <1>3, <1>h DEF Bind
  <2>2. /\ handle' \in [Handles -> {"none", "open", "closed", "held"}]
        /\ \A h \in Handles : Open(h) => handle'[h] = "open"
    BY <2>1, OpenedKeeps
  <2>3. TypeOK'
    BY <1>3, <2>2 DEF Bind, TypeOK, Phases
  <2>4. JobsHaveDatabase'
    BY <1>3, <1>h, <2>2 DEF Bind, TypeOK, JobsHaveDatabase, Open
  <2>5. ReadyWhenStarted'
    BY <1>3 DEF Bind, ReadyWhenStarted
  <2> QED
    BY <2>3, <2>4, <2>5
<1>4. CASE CompleteStart \/ FailStart
  <2>1. UNCHANGED <<handle, unhealthy, active, aborted, exitCode>>
    BY <1>4 DEF CompleteStart, FailStart
  <2>2. CASE CompleteStart
    BY <2>1, <2>2 DEF CompleteStart, TypeOK, Phases, JobsHaveDatabase, Open, ReadyWhenStarted
  <2>3. CASE FailStart
    BY <2>1, <2>3 DEF FailStart, TypeOK, Phases, JobsHaveDatabase, Open, ReadyWhenStarted
  <2> QED
    BY <1>4, <2>2, <2>3
<1>5. ASSUME NEW q \in Queues, WorkerError(q) \/ WorkerReady(q)
      PROVE  RunnerInv'
  BY <1>5 DEF WorkerError, WorkerReady, ReadyAgain, StartupComplete, TypeOK,
              JobsHaveDatabase, Open, ReadyWhenStarted
<1>6. ASSUME NEW q \in Queues, BeginJob(q)
      PROVE  RunnerInv'
  <2>1. /\ handle' \in [Handles -> {"none", "open", "closed", "held"}]
        /\ \A h \in Handles : Open(h) => handle'[h] = "open"
        /\ handle'["mongo"] = "open"
    BY <1>6, <1>h, OpenedKeeps DEF BeginJob
  <2>2. TypeOK' /\ ReadyWhenStarted'
    BY <1>6, <2>1 DEF BeginJob, TypeOK, ReadyWhenStarted
  <2>3. JobsHaveDatabase'
    BY <1>6, <1>h, <2>1 DEF BeginJob, TakesJobs, TypeOK, JobsHaveDatabase, Open
  <2> QED
    BY <2>2, <2>3
<1>7. ASSUME NEW q \in Queues, EndJob(q)
      PROVE  RunnerInv'
  BY <1>7 DEF EndJob, TypeOK, JobsHaveDatabase, Open, ReadyWhenStarted
<1>8. ASSUME NEW h \in Handles, Close(h)
      PROVE  RunnerInv'
  BY <1>8, CloseKeepsJobs DEF Close, Settles, TypeOK, ReadyWhenStarted
<1>9. CASE Signal
  BY <1>9 DEF Signal, AfterSignal, TypeOK, Phases, JobsHaveDatabase, Open, ReadyWhenStarted
<1>10. CASE End
  BY <1>10 DEF End, Exit, Stopping, TypeOK, Phases, JobsHaveDatabase, Open,
               ReadyWhenStarted
<1>11. CASE UNCHANGED vars
  BY <1>11 DEF vars, TypeOK, JobsHaveDatabase, Open, ReadyWhenStarted
<1> QED
  BY <1>1, <1>2, <1>3, <1>4, <1>5, <1>6, <1>7, <1>8, <1>9, <1>10, <1>11 DEF Next

\* The runner begins with a first connection and nothing else.
LEMMA RunnerInit == Init => RunnerInv
  BY DEF Init, RunnerInv, TypeOK, Phases, Handles, JobsHaveDatabase, ReadyWhenStarted

\* For any queues: no job loses its database or its worker, whatever the
\* runner starts, fails to start or closes around it.
THEOREM JobsKeepDatabase == Spec => []JobsHaveDatabase
<1>1. RunnerInv => JobsHaveDatabase
  BY DEF RunnerInv
<1> QED
  BY <1>1, RunnerInit, RunnerStep, PTL DEF Spec

\* For any queues: readiness is not reported before the start is complete,
\* while it is undone, or with a worker that has not recovered.
THEOREM ReadyOnlyWhenHealthy == Spec => []ReadyIsHealthy
<1>1. RunnerInv => ReadyIsHealthy
  BY DEF RunnerInv, ReadyWhenStarted, ReadyIsHealthy
<1> QED
  BY <1>1, RunnerInit, RunnerStep, PTL DEF Spec

-----------------------------------------------------------------------------
(* Enrollment.                                                             *)

\* A process that got its reply holds the key the control plane recorded.
RepliesFit ==
  \A p \in Processes :
    process[p].at = "storing" => record # None /\ record.key = process[p].key

EnrollInv == Enrollment!TypeOK /\ Enrollment!EnrolledHoldsKey /\ RepliesFit

\* A process keeps its key until it stops, and only one that stops has none.
LEMMA ProcessTypes ==
  ASSUME Enrollment!TypeOK, NEW p \in Processes, NEW new,
         process' = [process EXCEPT ![p] = new],
         \/ new = Enrollment!Stopped
         \/ /\ new.key \in Keys
            /\ new \in Enrollment!Process /\ new.at # "stopped"
  PROVE  /\ process' \in [Processes -> Enrollment!Process]
         /\ \A q \in Processes : process'[q].at = "stopped" <=> process'[q].key = None
<1>1. /\ process'[p] = new
      /\ \A q \in Processes \ {p} : process'[q] = process[q]
  BY DEF Enrollment!TypeOK
<1>2. new \in Enrollment!Process /\ (new.at = "stopped" <=> new.key = None)
  BY EnrollmentAssumption DEF Enrollment!Stopped, Enrollment!Process
<1> QED
  BY <1>1, <1>2 DEF Enrollment!TypeOK

\* A process that runs has a key.
LEMMA HasKey ==
  ASSUME Enrollment!TypeOK, NEW p \in Processes, process[p].at # "stopped"
  PROVE  process[p] \in Enrollment!Process /\ process[p].key \in Keys
  BY DEF Enrollment!TypeOK, Enrollment!Process

\* A step of an agent keeps the invariant.
LEMMA AgentStep ==
  ASSUME EnrollInv, NEW p \in Processes,
         \/ \E k \in Keys : Enrollment!StartNew(p, k)
         \/ Enrollment!WriteKey(p) \/ Enrollment!StartAgain(p)
         \/ Enrollment!StartEnrolled(p) \/ Enrollment!Ask(p)
         \/ Enrollment!StoreWorker(p) \/ Enrollment!Stop(p)
  PROVE  EnrollInv'
<1> USE DEF EnrollInv
<1>f. MachineOf[p] \in Machines /\ Enrollment!FileOf(p) \in Enrollment!File \cup {None}
  BY EnrollmentAssumption DEF Enrollment!FileOf, Enrollment!TypeOK
\* What has to be shown of a step that moves p and writes its file or nothing.
<1>1. ASSUME NEW new, process' = [process EXCEPT ![p] = new],
             \/ new = Enrollment!Stopped
             \/ /\ new.key \in Keys
                /\ new \in Enrollment!Process /\ new.at \notin {"stopped", "storing"},
             \/ UNCHANGED file
             \/ \E f \in Enrollment!File :
                  /\ file' = [file EXCEPT ![MachineOf[p]] = f]
                  /\ \/ f.worker = None
                     \/ f.worker = f.key /\ record # None /\ record.key = f.key,
             request' \in [Processes -> Enrollment!Request \cup {None}],
             UNCHANGED <<facts, record, credential>>
      PROVE  EnrollInv'
  <2>1. /\ process' \in [Processes -> Enrollment!Process]
        /\ \A q \in Processes : process'[q].at = "stopped" <=> process'[q].key = None
    BY <1>1, ProcessTypes
  <2>2. file' \in [Machines -> Enrollment!File \cup {None}]
    BY <1>1 DEF Enrollment!TypeOK
  <2>3. Enrollment!TypeOK'
    BY <1>1, <2>1, <2>2 DEF Enrollment!TypeOK
  <2>4. Enrollment!EnrolledHoldsKey'
    BY <1>1 DEF Enrollment!TypeOK, Enrollment!EnrolledHoldsKey, Enrollment!Enrolled
  <2>5. RepliesFit'
    BY <1>1 DEF Enrollment!TypeOK, RepliesFit, Enrollment!Stopped
  <2> QED
    BY <2>3, <2>4, <2>5
<1>2. ASSUME NEW k \in Keys, NEW stage \in {"writing", "asking", "waiting", "beating"}
      PROVE  /\ [at |-> stage, key |-> k] \in Enrollment!Process
             /\ [at |-> stage, key |-> k].key \in Keys
             /\ [at |-> stage, key |-> k].at \notin {"stopped", "storing"}
  BY <1>2 DEF Enrollment!Process
<1>3. request \in [Processes -> Enrollment!Request \cup {None}]
  BY DEF Enrollment!TypeOK
<1>4. ASSUME NEW k \in Keys, Enrollment!StartNew(p, k)
      PROVE  EnrollInv'
  BY <1>1, <1>2, <1>3, <1>4 DEF Enrollment!StartNew, Enrollment!At
<1>5. CASE Enrollment!WriteKey(p)
  <2>1. process[p].key \in Keys
    BY <1>5, HasKey DEF Enrollment!WriteKey
  <2>2. [key |-> process[p].key, worker |-> None] \in Enrollment!File
    BY <2>1 DEF Enrollment!File
  <2> QED
    BY <1>1, <1>2, <1>3, <1>5, <2>1, <2>2 DEF Enrollment!WriteKey, Enrollment!At
<1>6. CASE Enrollment!StartAgain(p) \/ Enrollment!StartEnrolled(p)
  <2>1. Enrollment!FileOf(p).key \in Keys
    BY <1>6, <1>f DEF Enrollment!StartAgain, Enrollment!StartEnrolled, Enrollment!File
  <2> QED
    BY <1>1, <1>2, <1>3, <1>6, <2>1
       DEF Enrollment!StartAgain, Enrollment!StartEnrolled, Enrollment!At, Enrollment!KeyToAsk
<1>7. CASE Enrollment!Ask(p)
  <2>1. process[p].key \in Keys
    BY <1>7, HasKey DEF Enrollment!Ask
  <2>2. [key |-> process[p].key, facts |-> facts] \in Enrollment!Request
    BY <2>1 DEF Enrollment!Request, Enrollment!TypeOK
  <2> QED
    BY <1>1, <1>2, <1>3, <1>7, <2>1, <2>2 DEF Enrollment!Ask, Enrollment!At
<1>8. CASE Enrollment!StoreWorker(p)
  <2>1. process[p].key \in Keys
    BY <1>8, HasKey DEF Enrollment!StoreWorker
  <2> DEFINE f == [key |-> process[p].key, worker |-> process[p].key]
  <2>2. f \in Enrollment!File /\ f.worker = f.key
        /\ record # None /\ record.key = f.key
    BY <1>8, <2>1 DEF Enrollment!File, RepliesFit, Enrollment!StoreWorker
  <2>3. file' = [file EXCEPT ![MachineOf[p]] = f]
    BY <1>8 DEF Enrollment!StoreWorker, Enrollment!Stored
  <2> HIDE DEF f
  <2> QED
    BY <1>1, <1>2, <1>3, <1>8, <2>1, <2>2, <2>3 DEF Enrollment!StoreWorker, Enrollment!At
<1>9. CASE Enrollment!Stop(p)
  BY <1>1, <1>3, <1>9 DEF Enrollment!Stop
<1> QED
  BY <1>4, <1>5, <1>6, <1>7, <1>8, <1>9

\* An answer, or its loss, keeps the invariant.
LEMMA AnswerStep ==
  ASSUME EnrollInv, NEW p \in Processes,
         \/ Enrollment!EnrollWorker(p) \/ Enrollment!EnrollUnheard(p)
         \/ Enrollment!Replay(p) \/ Enrollment!Refuse(p)
  PROVE  EnrollInv'
<1> USE DEF EnrollInv
<1>1. request[p] \in Enrollment!Request /\ request[p] # None /\ request[p].key \in Keys
  BY DEF Enrollment!EnrollWorker, Enrollment!EnrollUnheard, Enrollment!Replay,
         Enrollment!Refuse, Enrollment!TypeOK, Enrollment!Request
<1>2. UNCHANGED <<file, facts>> /\ request' = [request EXCEPT ![p] = None]
  BY DEF Enrollment!EnrollWorker, Enrollment!EnrollUnheard, Enrollment!Replay,
         Enrollment!Refuse, Enrollment!Answered
\* The first request that comes is recorded and none after it.
<1>3. /\ record' \in Enrollment!Request \cup {None}
      /\ record # None => record' = record
      /\ \/ UNCHANGED <<record, credential>>
         \/ record' = request[p] /\ credential' = request[p].key
  BY <1>1 DEF Enrollment!EnrollWorker, Enrollment!EnrollUnheard, Enrollment!Replay,
         Enrollment!Refuse, Enrollment!Consume, Enrollment!TypeOK
<1>4. PICK new : /\ process' = [process EXCEPT ![p] = new]
                 /\ \/ new = Enrollment!Stopped
                    \/ new = process[p]
                    \/ /\ new = [process[p] EXCEPT !.at = "storing"]
                       /\ process[p].at = "waiting"
                       /\ process[p].key = request[p].key
                       /\ record' = request[p]
  <2>1. CASE Enrollment!EnrollWorker(p) \/ Enrollment!Replay(p)
    <3>1. record' = request[p] /\ Enrollment!Accept(p)
      BY <2>1 DEF Enrollment!EnrollWorker, Enrollment!Consume, Enrollment!Replay,
                  Enrollment!Replays
    <3>2. process' = [process EXCEPT ![p] = [process[p] EXCEPT !.at =
            IF process[p].at = "waiting" /\ process[p].key = request[p].key
            THEN "storing" ELSE process[p].at]]
      BY <3>1 DEF Enrollment!Accept, Enrollment!TypeOK
    <3>3. process[p] = [process[p] EXCEPT !.at = process[p].at]
      BY DEF Enrollment!TypeOK, Enrollment!Process
    <3> QED
      BY <3>1, <3>2, <3>3
  <2>2. CASE Enrollment!EnrollUnheard(p) \/ Enrollment!Refuse(p)
    <3>1. process' = [process EXCEPT ![p] =
            IF process[p].at = "waiting" THEN Enrollment!Stopped ELSE process[p]]
      BY <2>2 DEF Enrollment!EnrollUnheard, Enrollment!Refuse
    <3> QED
      BY <3>1
  <2> QED
    BY <2>1, <2>2
<1>5. CASE new = [process[p] EXCEPT !.at = "storing"] /\ process[p].at = "waiting"
           /\ process[p].key = request[p].key /\ record' = request[p]
  <2>1. new \in Enrollment!Process /\ new.key = request[p].key /\ new.at = "storing"
    BY <1>5 DEF Enrollment!TypeOK, Enrollment!Process
  <2>2. /\ process' \in [Processes -> Enrollment!Process]
        /\ \A q \in Processes : process'[q].at = "stopped" <=> process'[q].key = None
    BY <1>1, <1>4, <2>1, ProcessTypes
  <2>3. Enrollment!TypeOK'
    BY <1>1, <1>2, <1>3, <2>2 DEF Enrollment!TypeOK
  <2>4. Enrollment!EnrolledHoldsKey'
    BY <1>2, <1>3 DEF Enrollment!EnrolledHoldsKey, Enrollment!Enrolled
  <2>5. RepliesFit'
    BY <1>1, <1>3, <1>4, <1>5, <2>1 DEF Enrollment!TypeOK, RepliesFit
  <2> QED
    BY <2>3, <2>4, <2>5
<1>6. CASE new = Enrollment!Stopped \/ new = process[p]
  <2>1. /\ process' \in [Processes -> Enrollment!Process]
        /\ \A q \in Processes : process'[q].at = "stopped" <=> process'[q].key = None
    <3>1. CASE new = Enrollment!Stopped
      BY <1>4, <3>1, ProcessTypes
    <3>2. CASE new = process[p]
      BY <1>4, <3>2 DEF Enrollment!TypeOK
    <3> QED
      BY <1>6, <3>1, <3>2
  <2>2. Enrollment!TypeOK'
    BY <1>1, <1>2, <1>3, <2>1 DEF Enrollment!TypeOK
  <2>3. Enrollment!EnrolledHoldsKey'
    BY <1>2, <1>3 DEF Enrollment!EnrolledHoldsKey, Enrollment!Enrolled
  <2>4. RepliesFit'
    BY <1>3, <1>4, <1>6 DEF Enrollment!TypeOK, RepliesFit, Enrollment!Stopped
  <2> QED
    BY <2>2, <2>3, <2>4
<1> QED
  BY <1>4, <1>5, <1>6

\* The inductive invariant of the enrollment is kept by every step.
LEMMA EnrollStep == EnrollInv /\ [Enrollment!Next]_enrollmentVars => EnrollInv'
<1> SUFFICES ASSUME EnrollInv, [Enrollment!Next]_enrollmentVars PROVE EnrollInv'
  OBVIOUS
<1>1. CASE Enrollment!CredentialExpires \/ Enrollment!HostChanges
           \/ UNCHANGED enrollmentVars
  <2>1. UNCHANGED <<file, process, request, record>> /\ facts' \in Facts
        /\ credential' \in {credential, None}
    BY <1>1 DEF Enrollment!CredentialExpires, Enrollment!HostChanges, enrollmentVars,
                EnrollInv, Enrollment!TypeOK
  <2> QED
    BY <2>1 DEF EnrollInv, Enrollment!TypeOK, Enrollment!EnrolledHoldsKey,
                Enrollment!Enrolled, RepliesFit
<1> QED
  BY <1>1, AgentStep, AnswerStep DEF Enrollment!Next

\* Nothing is enrolled in the beginning.
LEMMA EnrollInit == Enrollment!Init => EnrollInv
  BY DEF Enrollment!Init, EnrollInv, Enrollment!TypeOK, Enrollment!EnrolledHoldsKey,
         Enrollment!Enrolled, RepliesFit, Enrollment!Stopped, Enrollment!Process

-----------------------------------------------------------------------------
(* Both side by side, as they are checked.                                 *)

\* Every step is a step of the runner and a step of the enrollment.
LEMMA PartsStep ==
  [MCNext]_mcVars => [Next]_vars /\ [Enrollment!Next]_enrollmentVars /\ UNCHANGED part
<1>1. MCNext => [Next]_vars /\ [Enrollment!Next]_enrollmentVars /\ UNCHANGED part
  BY DEF MCNext
<1>2. UNCHANGED mcVars => UNCHANGED vars /\ UNCHANGED enrollmentVars /\ UNCHANGED part
  BY DEF mcVars
<1> QED
  BY <1>1, <1>2

\* For any queues, machines, processes, keys and facts: what the runner and
\* the agents hold has the shape their code gives it.
THEOREM ProcessTypesOK == MCSpec => []TypesOK
<1>1. MCInit => RunnerInv /\ EnrollInv
  BY RunnerInit, EnrollInit DEF MCInit
<1>2. RunnerInv /\ EnrollInv /\ [MCNext]_mcVars => (RunnerInv /\ EnrollInv)'
  BY PartsStep, RunnerStep, EnrollStep
<1>3. RunnerInv /\ EnrollInv => TypesOK
  BY DEF RunnerInv, EnrollInv, TypesOK
<1> QED
  BY <1>1, <1>2, <1>3, PTL DEF MCSpec

\* For any machines, processes, keys and facts: the worker that an enrolled
\* file names is the one whose key it holds, whatever processes overlap and
\* whatever replies are lost, late or asked for again.
THEOREM EnrolledKeyIsHeld == MCSpec => []EnrolledHoldsKey
<1>1. MCInit => EnrollInv
  BY EnrollInit DEF MCInit
<1>2. EnrollInv /\ [MCNext]_mcVars => EnrollInv'
  BY PartsStep, EnrollStep
<1>3. EnrollInv => EnrolledHoldsKey
  BY DEF EnrollInv, EnrolledHoldsKey
<1> QED
  BY <1>1, <1>2, <1>3, PTL DEF MCSpec
=============================================================================
