---------------------------- MODULE MCProcesses -----------------------------
(***************************************************************************)
(* The programs that run beside the control plane, side by side: the job   *)
(* runner, and the agent that enrolls a worker, with two processes on one  *)
(* machine or on two.  They share no state; "part" picks one.              *)
(***************************************************************************)
EXTENDS JobRunner, TLC

CONSTANTS Machines, Processes, MachineOf, Keys, Facts, None,
          p1, p2, p3, m1, m2   \* the processes and machines of the instance
VARIABLES file, process, request, facts, record, credential, part

\* Every process runs on a machine, and "no key" is not a key.
ASSUME EnrollmentAssumption ==
  /\ MachineOf \in [Processes -> Machines]
  /\ None \notin Keys

Enrollment == INSTANCE WorkerEnrollment

TwoShareOne == (p1 :> m1) @@ (p2 :> m1) @@ (p3 :> m2)

enrollmentVars == <<file, process, request, facts, record, credential>>
mcVars == <<vars, enrollmentVars, part>>

OfRunner == part = "runner"
OfEnrollment == part \in {"one machine", "two machines"}

\* Two processes take part, on the same machine or on one each.  The third is
\* never started, so nothing is asked of it either.
Idle == IF part = "one machine" THEN p3 ELSE p2
TakesPart(p) == OfEnrollment /\ p # Idle

MCInit ==
  /\ part \in {"runner", "one machine", "two machines"}
  /\ Init /\ Enrollment!Init
  /\ OfRunner => facts = CHOOSE f \in Facts : TRUE

MCNext ==
  /\ UNCHANGED part
  /\ \/ OfRunner /\ Next /\ UNCHANGED enrollmentVars
     \/ /\ OfEnrollment /\ Enrollment!Next
        /\ process'[Idle] = process[Idle]
        /\ UNCHANGED vars

\* The fairness of JobRunner and of WorkerEnrollment, each in its part.
MCFairness ==
  /\ WF_vars(OfRunner /\ Continue)
  /\ \A q \in Queues : WF_vars(OfRunner /\ EndJob(q))
  /\ \A p \in Processes :
       /\ WF_enrollmentVars(TakesPart(p) /\ Enrollment!StartAgain(p))
       /\ WF_enrollmentVars(TakesPart(p) /\ Enrollment!Refuse(p))
       /\ SF_enrollmentVars(TakesPart(p) /\ Enrollment!Ask(p))
       /\ SF_enrollmentVars(/\ TakesPart(p) /\ process[p].at = "waiting"
                            /\ Enrollment!Replay(p))
       /\ SF_enrollmentVars(TakesPart(p) /\ Enrollment!StoreWorker(p))
MCSpec == MCInit /\ [][MCNext]_mcVars /\ MCFairness

TypesOK == IF OfRunner THEN TypeOK ELSE Enrollment!TypeOK
EnrolledHoldsKey == OfEnrollment => Enrollment!EnrolledHoldsKey
LostReplyRecovered == Enrollment!LostReplyRecovered
=============================================================================
