----------------------- MODULE ReservationSnapshotProofs -----------------------
(***************************************************************************)
(* What the write conflicts of the reservation service are good for.  A    *)
(* step outdates every open transaction that writes a document it changes, *)
(* so a transaction that still can commit knows what it read: the place is *)
(* there, the quantities fit, the environment is empty, the reservation is *)
(* reserved.  From that follow the outbox, the idempotency keys, the       *)
(* environments, the stale releases and the ledger.                        *)
(***************************************************************************)
EXTENDS ReservationsProofs
-----------------------------------------------------------------------------
(* What a step writes, and whom it outdates.                               *)

\* Every document that changes is in docs; making a reservation writes its
\* environment.
Written(docs) ==
  /\ \A o \in Orgs : entitlement'[o] # entitlement[o] => EntitlementDoc(o) \in docs
  /\ \A w \in Workers : worker'[w] # worker[w] => WorkerDoc(w) \in docs
  /\ \A e \in Environments :
       environment'[e] # environment[e] => EnvironmentDoc(e) \in docs
  /\ \A i \in Ids :
       /\ Exists(i) /\ reservation'[i] # reservation[i] => ReservationDoc(i) \in docs
       /\ ~Exists(i) /\ reservation'[i] # reservation[i]
            => EnvironmentDoc(reservation'[i].body.env) \in docs

\* A transaction that goes on and is not outdated writes none of docs.
Outdates(docs) ==
  \A s \in Sessions : session'[s] = session[s] /\ session[s] # Idle /\ ~outdated'[s]
    => ~outdated[s] /\ Writes(session[s]) \cap docs = {}

\* A transaction that is opened or rolled back writes nothing.
LEMMA OpenOutdates ==
  ASSUME TypeInv, NEW s \in Sessions, NEW tx, Open(s, tx) \/ RollBack(s),
         UNCHANGED <<entitlement, worker, environment, reservation>>
  PROVE  Written({}) /\ Outdates({})
BY DEF Written, Outdates, Open, RollBack, TypeInv, TypeOK

\* A write outside the handlers outdates who would write the same document.
LEMMA TouchOutdates ==
  ASSUME TypeInv, NEW doc, Touch(doc)
  PROVE  Outdates({doc})
BY DEF Outdates, Touch, Outdate, TypeInv, TypeOK

\* A commit outdates who would write what it writes.
LEMMA CommitOutdates ==
  ASSUME TypeInv, NEW s \in Sessions, Commit(s)
  PROVE  Outdates(Writes(session[s]))
BY DEF Outdates, Commit, Outdate, TypeInv, TypeOK

\* A step that leaves documents and transactions alone outdates nobody.
LEMMA QuietOutdates ==
  ASSUME UNCHANGED <<entitlement, worker, environment, reservation, session, outdated>>
  PROVE  Written({}) /\ Outdates({})
BY DEF Written, Outdates

\* The commits write what they say.
LEMMA CommitWrites ==
  ASSUME TypeInv, NEW s \in Sessions,
         \/ CommitReserve(s) \/ CommitConfirm(s)
         \/ CommitRelease(s) \/ CommitDeleteEnvironment(s)
  PROVE  Written(Writes(session[s]))
<1> USE DEF TypeInv
<1>1. CASE CommitReserve(s)
  <2> DEFINE tx == session[s]
             o  == OrgOf[tx.body.env]
  <2>1. PICK i \in Ids :
          /\ ~Exists(i)
          /\ reservation' = [reservation EXCEPT ![i] =
               [status |-> "reserved", key |-> tx.key, body |-> tx.body,
                worker |-> tx.worker, expiresAt |-> tx.at + Ttl,
                reason |-> "none"]]
    BY <1>1 DEF CommitReserve
  <2>2. reservation'[i].body = tx.body /\ \A j \in Ids \ {i} : reservation'[j] = reservation[j]
    BY <2>1 DEF TypeOK
  <2>3. Writes(tx) = {EnvironmentDoc(tx.body.env), EntitlementDoc(o), WorkerDoc(tx.worker)}
    BY <1>1 DEF Writes, CommitReserve
  <2>4. \A x \in Orgs \ {o} : entitlement'[x] = entitlement[x]
    BY <1>1 DEF CommitReserve, TypeOK
  <2>5. \A x \in Workers \ {tx.worker} : worker'[x] = worker[x]
    BY <1>1 DEF CommitReserve, TypeOK
  <2> QED
    BY <1>1, <2>1, <2>2, <2>3, <2>4, <2>5 DEF CommitReserve, Written
<1>2. CASE CommitConfirm(s) \/ CommitRelease(s)
  <2> DEFINE i == session[s].id
             o == OrgOfReservation(i)
             w == reservation[i].worker
  <2>1. i \in Ids /\ Exists(i)
    BY ZenonT(30), <1>2, SettleFacts DEF CommitConfirm, CommitRelease
  <2>2. Writes(session[s]) = {ReservationDoc(i), EntitlementDoc(o), WorkerDoc(w)}
    BY ZenonT(30), <1>2 DEF Writes, CommitConfirm, CommitRelease, SettleWrites
  <2>3. \A x \in Orgs \ {o} : entitlement'[x] = entitlement[x]
    BY <1>2 DEF CommitConfirm, CommitRelease, TypeOK
  <2>4. \A x \in Workers \ {w} : worker'[x] = worker[x]
    BY <1>2 DEF CommitConfirm, CommitRelease, TypeOK
  <2>5. \A j \in Ids \ {i} : reservation'[j] = reservation[j]
    BY <1>2, <2>1 DEF CommitConfirm, CommitRelease, TypeOK
  <2>6. UNCHANGED environment
    BY ZenonT(30), <1>2 DEF CommitConfirm, CommitRelease
  <2> QED
    BY <2>1, <2>2, <2>3, <2>4, <2>5, <2>6 DEF Written
<1>3. CASE CommitDeleteEnvironment(s)
  <2>1. Writes(session[s]) = {EnvironmentDoc(session[s].env)}
    BY <1>3 DEF Writes, CommitDeleteEnvironment
  <2> QED
    BY <1>3, <2>1 DEF CommitDeleteEnvironment, Written, TypeOK
<1> QED
  BY <1>1, <1>2, <1>3

\* What happens outside the handlers writes one document.
LEMMA OutsideWrites ==
  ASSUME TypeInv, OutsideStep
  PROVE  \E docs : Written(docs) /\ Outdates(docs)
<1> USE DEF TypeInv
<1>1. CASE Tick
  BY <1>1, QuietOutdates DEF Tick
<1>2. ASSUME NEW e \in Environments, NEW region \in Regions,
             CreateEnvironment(e, region) \/ UpdateEnvironment(e, region)
      PROVE  Written({EnvironmentDoc(e)}) /\ Outdates({EnvironmentDoc(e)})
  BY <1>2, TouchOutdates DEF CreateEnvironment, UpdateEnvironment, Written, TypeOK
<1>3. ASSUME NEW w \in Workers, MarkDisconnected(w)
      PROVE  Written({WorkerDoc(w)}) /\ Outdates({WorkerDoc(w)})
  BY <1>3, TouchOutdates DEF MarkDisconnected, Written, TypeOK
<1>4. ASSUME NEW w \in Workers, NEW capacity \in Capacities, NEW health \in Healths,
             Heartbeat(w, health, capacity)
      PROVE  Written({WorkerDoc(w)}) /\ Outdates({WorkerDoc(w)})
  BY <1>4, TouchOutdates DEF Heartbeat, Written, TypeOK
<1>5. ASSUME NEW o \in Orgs, NEW active \in BOOLEAN, NEW limits \in Limits,
             ChangeEntitlement(o, active, limits)
      PROVE  Written({EntitlementDoc(o)}) /\ Outdates({EntitlementDoc(o)})
  BY <1>5, TouchOutdates DEF ChangeEntitlement, Written, TypeOK
<1> QED
  BY <1>1, <1>2, <1>3, <1>4, <1>5 DEF OutsideStep

\* Every step outdates the open transactions that write what it writes.
LEMMA WritesOutdate ==
  ASSUME TypeInv, [Next]_vars
  PROVE  \E docs : Written(docs) /\ Outdates(docs)
<1>0. \A c \in Clients : c \in Sessions
  BY DEF Sessions
<1>1. ASSUME NEW s \in Sessions, NEW i \in Ids, NEW reason, OpenRelease(s, i, reason)
      PROVE  Written({}) /\ Outdates({})
  BY <1>1, OpenOutdates DEF OpenRelease
<1>2. ASSUME NEW c \in Clients, ReserveStep(c)
      PROVE  \E docs : Written(docs) /\ Outdates(docs)
  <2>1. ASSUME NEW key \in Keys, NEW body \in Bodies, ReplayReserve(c, key, body)
        PROVE  Written({}) /\ Outdates({})
    BY <2>1, QuietOutdates DEF ReplayReserve
  <2>2. ASSUME NEW key \in Keys, NEW body \in Bodies, BeginReserve(c, key, body)
        PROVE  Written({}) /\ Outdates({})
    BY <1>0, <2>2, OpenOutdates DEF BeginReserve
  <2>3. CASE CommitReserve(c)
    BY <1>0, <2>3, CommitWrites, CommitOutdates DEF CommitReserve
  <2>4. CASE DuplicateReserve(c)
    BY <1>0, <2>4, OpenOutdates DEF DuplicateReserve
  <2> QED
    BY <1>2, <2>1, <2>2, <2>3, <2>4 DEF ReserveStep
<1>3. ASSUME NEW c \in Clients, SettleStep(c)
      PROVE  \E docs : Written(docs) /\ Outdates(docs)
  <2>1. ASSUME NEW i \in Ids, BeginConfirm(c, i)
        PROVE  Written({}) /\ Outdates({})
    <3>1. /\ Open(c, [op |-> "confirm", id |-> i])
          /\ UNCHANGED <<entitlement, worker, environment, reservation>>
      BY <2>1 DEF BeginConfirm
    <3> QED
      BY <1>0, <3>1, OpenOutdates
  <2>2. CASE CommitConfirm(c)
    <3>1. Commit(c)
      BY ZenonT(30), <2>2 DEF CommitConfirm
    <3> QED
      BY <1>0, <2>2, <3>1, CommitWrites, CommitOutdates
  <2>3. ASSUME NEW i \in Ids, NEW reason, BeginRelease(c, i, reason)
        PROVE  Written({}) /\ Outdates({})
    BY <1>0, <1>1, <2>3 DEF BeginRelease
  <2> QED
    BY <1>3, <2>1, <2>2, <2>3 DEF SettleStep
<1>4. ASSUME NEW c \in Clients, DeleteStep(c)
      PROVE  \E docs : Written(docs) /\ Outdates(docs)
  <2>1. ASSUME NEW e \in Environments, BeginDeleteEnvironment(c, e)
        PROVE  Written({}) /\ Outdates({})
    BY <1>0, <2>1, OpenOutdates DEF BeginDeleteEnvironment
  <2>2. CASE CommitDeleteEnvironment(c)
    BY <1>0, <2>2, CommitWrites, CommitOutdates DEF CommitDeleteEnvironment
  <2> QED
    BY <1>4, <2>1, <2>2 DEF DeleteStep
<1>5. ASSUME NEW r \in Reconcilers, ReconcileStep(r)
      PROVE  Written({}) /\ Outdates({})
  <2>1. r \in Sessions
    BY DEF Sessions
  <2>2. ASSUME NEW i \in Ids, BeginStaleRelease(r, i)
        PROVE  Written({}) /\ Outdates({})
    BY <1>1, <2>1, <2>2 DEF BeginStaleRelease
  <2>3. ASSUME NEW i \in Ids, SkipStale(r, i)
        PROVE  Written({}) /\ Outdates({})
    BY <2>3, QuietOutdates DEF SkipStale
  <2>4. CASE ListStale(r)
    BY <2>4, QuietOutdates DEF ListStale
  <2>5. CASE RestartRunner(r)
    BY <2>1, <2>5, OpenOutdates DEF RestartRunner
  <2> QED
    BY <1>5, <2>2, <2>3, <2>4, <2>5 DEF ReconcileStep
<1>6. ASSUME NEW s \in Sessions, CommitRelease(s)
      PROVE  \E docs : Written(docs) /\ Outdates(docs)
  BY <1>6, CommitWrites, CommitOutdates DEF CommitRelease
<1>7. ASSUME NEW s \in Sessions, Abort(s)
      PROVE  Written({}) /\ Outdates({})
  BY <1>7, OpenOutdates DEF Abort
<1>8. CASE UNCHANGED vars
  BY <1>8, QuietOutdates DEF vars
<1> QED
  BY <1>2, <1>3, <1>4, <1>5, <1>6, <1>7, <1>8, OutsideWrites DEF Next
-----------------------------------------------------------------------------
(* What becomes of the reservations.                                       *)

\* A commit of the service moves counters, never a limit or a capacity.
LimitsKept ==
  /\ \A o \in Orgs : entitlement'[o].limits = entitlement[o].limits
  /\ \A w \in Workers : worker'[w].capacity = worker[w].capacity

\* Transaction s made reservation i, from a snapshot nobody has outdated.
Made(s, i) ==
  LET tx == session[s] IN
  /\ tx \in [op: {"reserve"}, key: Keys, body: Bodies, worker: Workers, at: Nat]
  /\ ~outdated[s]
  /\ ~Exists(i)
  /\ \A j \in Ids : ~HoldsKey(j, OrgOf[tx.body.env], tx.key)
  /\ reservation'[i] =
       [status |-> "reserved", key |-> tx.key, body |-> tx.body,
        worker |-> tx.worker, expiresAt |-> tx.at + Ttl, reason |-> "none"]
  /\ \A j \in Ids \ {i} : reservation'[j] = reservation[j]
  /\ outbox' = outbox \cup {<<i, "reserved">>}
  /\ granted' = granted \cup {[key |-> tx.key, body |-> tx.body, id |-> i]}
  /\ LimitsKept
  /\ UNCHANGED <<now, environment, batch>>

\* Transaction s confirmed or released reservation i, from a snapshot nobody
\* has outdated; all it changes of it is its status and the reason.
Settled(s, i) ==
  /\ session[s].op \in {"confirm", "release"}
  /\ session[s].id = i
  /\ ~outdated[s]
  /\ Active(i) /\ Exists(i)
  /\ session[s].op = "confirm" => reservation[i].status = "reserved"
  /\ reservation'[i] = [reservation[i] EXCEPT
       !.status = IF session[s].op = "confirm" THEN "confirmed" ELSE "released",
       !.reason = IF session[s].op = "confirm" THEN @ ELSE session[s].reason]
  /\ \A j \in Ids \ {i} : reservation'[j] = reservation[j]
  /\ outbox' = outbox \cup {<<i, reservation'[i].status>>}
  /\ LimitsKept
  /\ UNCHANGED <<now, environment, granted>>

\* No commit changes a limit or a capacity.
LEMMA CommitKeepsLimits ==
  ASSUME TypeInv, NEW s \in Sessions,
         CommitReserve(s) \/ CommitConfirm(s) \/ CommitRelease(s)
  PROVE  LimitsKept
<1>1. ASSUME NEW o \in Orgs
      PROVE  entitlement'[o].limits = entitlement[o].limits
  <2>1. entitlement[o] \in Entitlement
    BY DEF TypeInv, TypeOK
  <2>2. CASE CommitReserve(s)
    BY <2>1, <2>2 DEF CommitReserve, TypeInv, TypeOK, Entitlement
  <2>3. CASE CommitConfirm(s)
    BY <2>1, <2>3 DEF CommitConfirm, TypeInv, TypeOK, Entitlement
  <2>4. CASE CommitRelease(s)
    BY <2>1, <2>4 DEF CommitRelease, Released, TypeInv, TypeOK, Entitlement
  <2> QED
    BY <2>2, <2>3, <2>4
<1>2. ASSUME NEW w \in Workers
      PROVE  worker'[w].capacity = worker[w].capacity
  <2>1. worker[w] \in WorkerNode
    BY DEF TypeInv, TypeOK
  <2>2. CASE CommitReserve(s)
    BY <2>1, <2>2 DEF CommitReserve, TypeInv, TypeOK, WorkerNode
  <2>3. CASE CommitConfirm(s)
    BY <2>1, <2>3 DEF CommitConfirm, TypeInv, TypeOK, WorkerNode
  <2>4. CASE CommitRelease(s)
    BY <2>1, <2>4 DEF CommitRelease, Released, TypeInv, TypeOK, WorkerNode
  <2> QED
    BY <2>2, <2>3, <2>4
<1> QED
  BY <1>1, <1>2 DEF LimitsKept

\* reserveResource, when it commits, makes one reservation.
LEMMA ReserveMakes ==
  ASSUME TypeInv, NEW s \in Sessions, CommitReserve(s)
  PROVE  \E i \in Ids : Made(s, i)
<1> DEFINE tx == session[s]
<1>1. tx \in [op: {"reserve"}, key: Keys, body: Bodies, worker: Workers, at: Nat]
  BY DEF TypeInv, TypeOK, CommitReserve, Transaction, Idle
<1>2. PICK i \in Ids :
        /\ ~Exists(i)
        /\ reservation' = [reservation EXCEPT ![i] =
             [status |-> "reserved", key |-> tx.key, body |-> tx.body,
              worker |-> tx.worker, expiresAt |-> tx.at + Ttl,
              reason |-> "none"]]
        /\ Announce(i, "reserved")
        /\ granted' = granted \cup {[key |-> tx.key, body |-> tx.body, id |-> i]}
  BY DEF CommitReserve
<1>3. /\ reservation'[i] =
           [status |-> "reserved", key |-> tx.key, body |-> tx.body,
            worker |-> tx.worker, expiresAt |-> tx.at + Ttl, reason |-> "none"]
      /\ \A j \in Ids \ {i} : reservation'[j] = reservation[j]
  BY <1>2 DEF TypeInv, TypeOK
<1>4. ~outdated[s] /\ UNCHANGED <<now, environment, batch>>
  BY DEF CommitReserve, Commit, NoWriteConflict
<1>5. \A j \in Ids : ~HoldsKey(j, OrgOf[tx.body.env], tx.key)
  BY DEF CommitReserve
<1>6. Made(s, i)
  BY <1>1, <1>2, <1>3, <1>4, <1>5, CommitKeepsLimits DEF Made, Announce
<1> QED
  BY <1>6

\* A confirmation or a release, when it commits, settles one reservation.
LEMMA SettleSettles ==
  ASSUME TypeInv, NEW s \in Sessions, CommitConfirm(s) \/ CommitRelease(s)
  PROVE  session[s].id \in Ids /\ Settled(s, session[s].id)
<1> DEFINE tx == session[s]
           i  == tx.id
<1>1. i \in Ids /\ Exists(i) /\ tx.op \in {"confirm", "release"} /\ Commit(s)
      /\ UNCHANGED <<now, environment, granted>>
  BY ZenonT(30), SettleFacts DEF CommitConfirm, CommitRelease
<1>2. ~outdated[s]
  BY <1>1 DEF Commit, NoWriteConflict
<1>3. /\ tx.op = "confirm" => reservation[i].status = "reserved"
      /\ Active(i)
  BY <1>1, <1>2 DEF TypeInv, SnapshotHolds, Active
<1>4. reservation[i] \in Reservation
  BY <1>1, ReservationFacts DEF TypeInv
<1>5. CASE CommitConfirm(s)
  <2>1. /\ tx.op = "confirm"
        /\ reservation' = [reservation EXCEPT ![i].status = "confirmed"]
        /\ Announce(i, "confirmed")
    BY ZenonT(30), <1>5 DEF CommitConfirm
  <2>2. /\ reservation'[i] = [reservation[i] EXCEPT !.status = "confirmed"]
        /\ \A j \in Ids \ {i} : reservation'[j] = reservation[j]
    BY <1>1, <2>1 DEF TypeInv, TypeOK
  <2>3. reservation'[i] = [reservation[i] EXCEPT !.status = "confirmed", !.reason = @]
    BY <1>4, <2>2 DEF Reservation
  <2>4. outbox' = outbox \cup {<<i, reservation'[i].status>>}
    BY <1>4, <2>1, <2>2 DEF Announce, Reservation
  <2> QED
    BY <1>1, <1>2, <1>3, <2>1, <2>2, <2>3, <2>4, CommitKeepsLimits DEF Settled
<1>6. CASE CommitRelease(s)
  <2>1. /\ tx.op = "release"
        /\ reservation' = [reservation EXCEPT ![i].status = "released",
                                              ![i].reason = tx.reason]
        /\ Announce(i, "released")
    BY ZenonT(30), <1>6 DEF CommitRelease
  <2>2. /\ reservation'[i] = [reservation[i] EXCEPT !.status = "released",
                                                    !.reason = tx.reason]
        /\ \A j \in Ids \ {i} : reservation'[j] = reservation[j]
    BY <1>1, <2>1 DEF TypeInv, TypeOK
  <2>3. reservation'[i].status = "released"
    BY <1>4, <2>2 DEF Reservation
  <2>4. outbox' = outbox \cup {<<i, reservation'[i].status>>}
    BY <2>1, <2>3 DEF Announce
  <2> QED
    BY <1>1, <1>2, <1>3, <2>1, <2>2, <2>4, CommitKeepsLimits DEF Settled
<1> QED
  BY <1>5, <1>6

\* A step makes one reservation, settles one, or changes none and announces
\* nothing.
LEMMA ReservationStep ==
  ASSUME TypeInv, [Next]_vars
  PROVE  \/ \E s \in Sessions, i \in Ids : Made(s, i) \/ Settled(s, i)
         \/ UNCHANGED <<reservation, outbox>>
<1>0. Clients \subseteq Sessions
  BY DEF Sessions
<1>1. ASSUME NEW c \in Clients, ReserveStep(c) \/ SettleStep(c) \/ DeleteStep(c)
      PROVE  CommitReserve(c) \/ CommitConfirm(c) \/ UNCHANGED <<reservation, outbox>>
  BY <1>1 DEF ReserveStep, SettleStep, DeleteStep, ReplayReserve, BeginReserve,
              DuplicateReserve, BeginConfirm, BeginRelease, OpenRelease,
              BeginDeleteEnvironment, CommitDeleteEnvironment
<1>2. ASSUME NEW r \in Reconcilers, ReconcileStep(r)
      PROVE  UNCHANGED <<reservation, outbox>>
  BY <1>2 DEF ReconcileStep, ListStale, BeginStaleRelease, OpenRelease, SkipStale,
              RestartRunner
<1>3. CASE OutsideStep
  BY ZenonT(30), <1>3 DEF OutsideStep, Tick, CreateEnvironment, UpdateEnvironment,
                    MarkDisconnected, Heartbeat, ChangeEntitlement
<1>4. ASSUME NEW s \in Sessions, Abort(s)
      PROVE  UNCHANGED <<reservation, outbox>>
  BY <1>4 DEF Abort
<1>5. ASSUME NEW s \in Sessions, CommitReserve(s)
      PROVE  \E i \in Ids : Made(s, i)
  BY <1>5, ReserveMakes
<1>6. ASSUME NEW s \in Sessions, CommitConfirm(s) \/ CommitRelease(s)
      PROVE  \E i \in Ids : Settled(s, i)
  BY <1>6, SettleSettles
<1>7. CASE UNCHANGED vars
  BY <1>7 DEF vars
<1> QED
  BY <1>0, <1>1, <1>2, <1>3, <1>4, <1>5, <1>6, <1>7 DEF Next
-----------------------------------------------------------------------------
(* The outbox tells the history of every reservation.                      *)

\* Nothing was announced of a reservation that was never made.
Unannounced == \A i \in Ids : ~Exists(i) => <<i, "confirmed">> \notin outbox

\* The inductive invariant behind OutboxIsFaithful.
OutboxInv == TypeInv /\ Unannounced /\ OutboxTellsHistory

\* Every announcement keeps the outbox and the reservations in step.
LEMMA OutboxStep == OutboxInv /\ [Next]_vars => OutboxInv'
<1> SUFFICES ASSUME OutboxInv, [Next]_vars PROVE OutboxInv'
  OBVIOUS
<1> USE DEF OutboxInv
<1>1. TypeInv'
  BY TypeInvStep
<1>2. ASSUME NEW s \in Sessions, NEW i \in Ids, Made(s, i)
      PROVE  Unannounced' /\ OutboxTellsHistory'
  BY <1>2 DEF Made, Unannounced, OutboxTellsHistory, Exists
<1>3. ASSUME NEW s \in Sessions, NEW i \in Ids, Settled(s, i)
      PROVE  Unannounced' /\ OutboxTellsHistory'
  <2>1. reservation[i] \in Reservation
    BY <1>3, ReservationFacts DEF Settled, TypeInv
  <2>2. reservation'[i].status = IF session[s].op = "confirm" THEN "confirmed" ELSE "released"
    BY <1>3, <2>1 DEF Settled, Reservation
  <2> DEFINE status == reservation'[i].status
  <2>3. \/ status = "confirmed" /\ reservation[i].status = "reserved"
        \/ status = "released" /\ reservation[i].status \in {"reserved", "confirmed"}
    BY <1>3, <2>2 DEF Settled, Active
  <2>4. /\ outbox' = outbox \cup {<<i, status>>}
        /\ \A j \in Ids \ {i} : reservation'[j] = reservation[j]
    BY <1>3 DEF Settled
  <2> HIDE DEF status
  <2>5. ASSUME NEW j \in Ids, j # i
        PROVE  /\ reservation'[j] = reservation[j]
               /\ \A event : <<j, event>> \in outbox' <=> <<j, event>> \in outbox
    BY <2>4, <2>5
  <2>6. \A event : <<i, event>> \in outbox' <=> <<i, event>> \in outbox \/ event = status
    BY <2>4
  <2>7. Unannounced'
    BY <2>3, <2>5 DEF Unannounced, Exists, status
  <2>8. OutboxTellsHistory'
    BY <2>3, <2>5, <2>6 DEF OutboxTellsHistory, Exists, status
  <2> QED
    BY <2>7, <2>8
<1>4. CASE UNCHANGED <<reservation, outbox>>
  BY <1>1, <1>4 DEF Unannounced, OutboxTellsHistory, Exists
<1> QED
  BY <1>1, <1>2, <1>3, <1>4, ReservationStep

\* For every interleaving of handlers and reconcilers: the outbox names exactly
\* the reservations that were made, the released ones as released, and a
\* confirmation exactly while and after it holds.
THEOREM OutboxIsFaithful == Spec => []OutboxTellsHistory
<1>1. Init => OutboxInv
  <2> SUFFICES ASSUME Init PROVE Unannounced /\ OutboxTellsHistory
    BY InitTypes DEF OutboxInv
  <2> QED
    BY DEF Init, Unannounced, OutboxTellsHistory, Exists, Absent
<1>2. OutboxInv => OutboxTellsHistory
  BY DEF OutboxInv
<1> QED
  BY <1>1, <1>2, OutboxStep, PTL DEF Spec
-----------------------------------------------------------------------------
(* One reservation for one Idempotency-Key.                                *)

\* A reservation keeps its request, its worker and its deadline, and only a
\* reserved or confirmed one is settled.
LEMMA SettledKeeps ==
  ASSUME TypeInv, NEW s \in Sessions, NEW i \in Ids, Settled(s, i), NEW j \in Ids
  PROVE  /\ Exists(j)' <=> Exists(j)
         /\ reservation'[j].body = reservation[j].body
         /\ reservation'[j].key = reservation[j].key
         /\ reservation'[j].worker = reservation[j].worker
         /\ reservation'[j].expiresAt = reservation[j].expiresAt
         /\ Active(j)' => Active(j)
<1>1. reservation[i] \in Reservation
  BY ReservationFacts DEF Settled, TypeInv
<1>2. /\ reservation'[i].status \in {"confirmed", "released"}
      /\ reservation'[i].body = reservation[i].body
      /\ reservation'[i].key = reservation[i].key
      /\ reservation'[i].worker = reservation[i].worker
      /\ reservation'[i].expiresAt = reservation[i].expiresAt
  BY <1>1 DEF Settled, Reservation
<1>3. Active(i) /\ Exists(i) /\ (j # i => reservation'[j] = reservation[j])
  BY DEF Settled
<1> QED
  BY <1>2, <1>3 DEF Exists, Active

\* A reply is given when the reservation is made, or names the reservation
\* that already holds the key, for the same body.
LEMMA ReplyStep ==
  ASSUME [Next]_vars
  PROVE  \/ \E s \in Sessions : CommitReserve(s)
         \/ UNCHANGED granted
         \/ \E i \in Ids : \E body, key :
              /\ HoldsKey(i, OrgOf[body.env], key)
              /\ Replay(i, body, granted)
<1>0. Clients \subseteq Sessions
  BY DEF Sessions
<1>1. ASSUME NEW c \in Clients, ReserveStep(c), ~CommitReserve(c)
      PROVE  \/ UNCHANGED granted
             \/ \E i \in Ids : \E body, key :
                  /\ HoldsKey(i, OrgOf[body.env], key)
                  /\ Replay(i, body, granted)
  <2>1. ASSUME NEW key \in Keys, NEW body \in Bodies, ReplayReserve(c, key, body)
        PROVE  \E i \in Ids : /\ HoldsKey(i, OrgOf[body.env], key)
                              /\ Replay(i, body, granted)
    BY <2>1 DEF ReplayReserve
  <2>2. CASE DuplicateReserve(c)
    BY <2>2 DEF DuplicateReserve
  <2>3. ASSUME NEW key \in Keys, NEW body \in Bodies, BeginReserve(c, key, body)
        PROVE  UNCHANGED granted
    BY <2>3 DEF BeginReserve
  <2> QED
    BY <1>1, <2>1, <2>2, <2>3 DEF ReserveStep
<1>2. ASSUME NEW c \in Clients, SettleStep(c) \/ DeleteStep(c)
      PROVE  UNCHANGED granted
  BY ZenonT(30), <1>2 DEF SettleStep, DeleteStep, BeginConfirm, CommitConfirm,
              BeginRelease, OpenRelease, BeginDeleteEnvironment, CommitDeleteEnvironment
<1>3. ASSUME NEW r \in Reconcilers, ReconcileStep(r)
      PROVE  UNCHANGED granted
  BY <1>3 DEF ReconcileStep, ListStale, BeginStaleRelease, OpenRelease, SkipStale,
              RestartRunner
<1>4. CASE OutsideStep
  BY ZenonT(30), <1>4 DEF OutsideStep, Tick, CreateEnvironment, UpdateEnvironment,
                    MarkDisconnected, Heartbeat, ChangeEntitlement
<1>5. ASSUME NEW s \in Sessions, CommitRelease(s) \/ Abort(s)
      PROVE  UNCHANGED granted
  BY <1>5 DEF CommitRelease, Abort
<1>6. CASE UNCHANGED vars
  BY <1>6 DEF vars
<1> QED
  BY <1>0, <1>1, <1>2, <1>3, <1>4, <1>5, <1>6 DEF Next

\* No reservation is made for a key that is held, and replies name holders.
LEMMA IdempotentStep ==
  TypeInv /\ IdempotentReserve /\ [Next]_vars => IdempotentReserve'
<1> SUFFICES ASSUME TypeInv, IdempotentReserve, [Next]_vars
             PROVE  IdempotentReserve'
  OBVIOUS
<1>1. ASSUME NEW s \in Sessions, NEW i \in Ids, Made(s, i)
      PROVE  IdempotentReserve'
  <2> DEFINE tx == session[s]
             o  == OrgOf[tx.body.env]
  <2>1. /\ Exists(i)' /\ ~Exists(i)
        /\ reservation'[i].body = tx.body /\ reservation'[i].key = tx.key
        /\ OrgOfReservation(i)' = o
    BY <1>1 DEF Made, Exists, OrgOfReservation
  <2>2. ASSUME NEW j \in Ids, j # i
        PROVE  /\ Exists(j)' <=> Exists(j)
               /\ reservation'[j] = reservation[j]
               /\ OrgOfReservation(j)' = OrgOfReservation(j)
               /\ ~HoldsKey(j, o, tx.key)
    BY <1>1, <2>2 DEF Made, Exists, OrgOfReservation
  <2>3. ASSUME NEW a \in Ids, NEW b \in Ids, Exists(a)',
               HoldsKey(b, OrgOfReservation(a), reservation[a].key)'
        PROVE  a = b
    BY <2>1, <2>2, <2>3 DEF IdempotentReserve, HoldsKey
  <2>4. ASSUME NEW g \in granted'
        PROVE  /\ HoldsKey(g.id, OrgOf[g.body.env], g.key)'
               /\ reservation'[g.id].body = g.body
    <3>1. CASE g = [key |-> tx.key, body |-> tx.body, id |-> i]
      BY <2>1, <3>1 DEF HoldsKey
    <3>2. CASE g \in granted
      <4>1. g.id \in Ids /\ g.id # i
        BY <2>1, <3>2 DEF IdempotentReserve, HoldsKey, TypeInv, TypeOK
      <4> QED
        BY <2>2, <3>2, <4>1 DEF IdempotentReserve, HoldsKey
    <3> QED
      BY <1>1, <3>1, <3>2 DEF Made
  <2> QED
    BY <2>3, <2>4 DEF IdempotentReserve
<1>2. ASSUME NEW s \in Sessions, NEW i \in Ids, Settled(s, i)
      PROVE  IdempotentReserve'
  <2>1. ASSUME NEW j \in Ids
        PROVE  /\ Exists(j)' <=> Exists(j)
               /\ reservation'[j].body = reservation[j].body
               /\ reservation'[j].key = reservation[j].key
               /\ OrgOfReservation(j)' = OrgOfReservation(j)
    BY <1>2, SettledKeeps DEF OrgOfReservation
  <2>2. granted' = granted /\ \A g \in granted : g.id \in Ids
    BY <1>2 DEF Settled, TypeInv, TypeOK
  <2> QED
    BY <2>1, <2>2 DEF IdempotentReserve, HoldsKey
<1>3. CASE UNCHANGED reservation
  <2>1. ASSUME NEW s \in Sessions
        PROVE  ~CommitReserve(s)
    <3>1. ASSUME NEW i \in Ids
          PROVE  ~Made(s, i)
      BY <1>3, <3>1 DEF Made, Exists
    <3> QED
      BY <3>1, ReserveMakes
  <2>2. ASSUME NEW i \in Ids, NEW body, NEW key,
               HoldsKey(i, OrgOf[body.env], key), Replay(i, body, granted),
               NEW g \in granted'
        PROVE  /\ HoldsKey(g.id, OrgOf[g.body.env], g.key)
               /\ reservation[g.id].body = g.body
    BY <2>2 DEF IdempotentReserve, Replay, HoldsKey
  <2>3. \A g \in granted' : /\ HoldsKey(g.id, OrgOf[g.body.env], g.key)
                            /\ reservation[g.id].body = g.body
    BY <2>1, <2>2, ReplyStep DEF IdempotentReserve
  <2> QED
    BY <1>3, <2>3 DEF IdempotentReserve, HoldsKey, Exists, OrgOfReservation
<1> QED
  BY <1>1, <1>2, <1>3, ReservationStep

\* For every number of clients, keys, retries and crashes: within an
\* organization a key never stands for two reservations, and every reply to
\* a key names the reservation that was made for that key and that body.
THEOREM KeysAreIdempotent == Spec => []IdempotentReserve
<1>1. Init => IdempotentReserve
  BY DEF Init, IdempotentReserve, Exists, Absent
<1> QED
  BY <1>1, InitTypes, TypeInvStep, IdempotentStep, PTL DEF Spec
-----------------------------------------------------------------------------
(* What an open transaction knows while nobody has outdated it.            *)

\* The place tx chose can still take a reservation.
Placed(tx) ==
  /\ environment[tx.body.env].status = "active"
  /\ environment[tx.body.env].region = RegionOf[tx.worker]
  /\ worker[tx.worker].status = "online"
  /\ worker[tx.worker].schedulable

\* What tx asks for still fits the limits and the worker.  Environments are
\* not reserved.
Fits(tx) ==
  LET ent  == entitlement[OrgOf[tx.body.env]]
      node == worker[tx.worker]
  IN
  /\ \A k \in QuotaKeys \ {"environments"} :
       ent.reserved[k] + ent.allocated[k] + ReservationQuotaDelta(tx.body)[k]
         <= ent.limits[k]
  /\ \A k \in WorkerDims :
       node.reserved[k] + node.allocated[k] + ToWorkerResources(tx.body)[k]
         <= node.capacity[k]

\* No resources are held in environment e.
Empty(e) == \A i \in Ids : Active(i) => reservation[i].body.env # e

Expired(i) == Exists(i) /\ reservation[i].expiresAt <= now

StaleTx(tx) == tx.op = "release" /\ tx.reason = "stale"

Knows(tx) ==
  /\ tx.op = "reserve" => Placed(tx) /\ Fits(tx)
  /\ tx.op = "delete" => Empty(tx.env)
  /\ StaleTx(tx) => reservation[tx.id].status = "reserved"

\* A reservation that has expired stays so; everything else a transaction
\* knows it knows until it is outdated.
SnapshotKnown ==
  \A s \in Sessions : /\ ~outdated[s] => Knows(session[s])
                      /\ StaleTx(session[s]) => Expired(session[s].id)

\* What a reconciler listed had expired.
BatchExpired == \A r \in Reconcilers : \A i \in batch[r] : Expired(i)

SnapshotInv == TypeInv /\ SnapshotKnown /\ BatchExpired

\* What a handler knows when it opens transaction tx.
Opened(tx) ==
  /\ Knows(tx)
  /\ StaleTx(tx) => \E r \in Reconcilers : tx.id \in batch[r]
  /\ UNCHANGED <<now, entitlement, worker, environment, reservation>>

\* A reserve transaction knows that its quantities fit and its place exists.
LEMMA ReserveKnows ==
  ASSUME TypeInv, NEW c \in Sessions, NEW key \in Keys, NEW body \in Bodies,
         BeginReserve(c, key, body)
  PROVE  \E tx : Open(c, tx) /\ Opened(tx)
<1>1. PICK w \in WorkerCandidates(body) :
        Open(c, [op |-> "reserve", key |-> key, body |-> body,
                 worker |-> w, at |-> now])
  BY DEF BeginReserve
<1> DEFINE tx == [op |-> "reserve", key |-> key, body |-> body,
                  worker |-> w, at |-> now]
<1>2. Placed(tx)
  BY <1>1 DEF BeginReserve, WorkerCandidates, Schedulable, Placed
<1>3. OrgOf[body.env] \in Orgs /\ w \in Workers
      /\ ReservationQuotaDelta(body) \in [QuotaKeys -> 0 .. MaxAmount]
      /\ ToWorkerResources(body) \in [WorkerDims -> 0 .. MaxAmount]
  BY <1>1, DeltaTypes DEF WorkerCandidates
<1>4. entitlement[OrgOf[body.env]] \in Entitlement /\ worker[w] \in WorkerNode
  BY <1>3 DEF TypeInv, TypeOK
<1>5. ASSUME NEW k \in QuotaKeys \ {"environments"}
      PROVE  entitlement[OrgOf[body.env]].reserved[k]
               + entitlement[OrgOf[body.env]].allocated[k]
               + ReservationQuotaDelta(body)[k] <= entitlement[OrgOf[body.env]].limits[k]
  <2>1. ~QuotaExceeded(OrgOf[body.env], ReservationQuotaDelta(body))
    BY DEF BeginReserve
  <2>2. /\ entitlement[OrgOf[body.env]].reserved[k] \in Int
        /\ entitlement[OrgOf[body.env]].allocated[k] \in Int
        /\ entitlement[OrgOf[body.env]].limits[k] \in Int
        /\ ReservationQuotaDelta(body)[k] \in Int
    BY <1>3, <1>4, FiniteAssumption DEF Entitlement
  <2> QED
    BY <2>1, <2>2 DEF QuotaExceeded
<1>6. WorkerHasCapacity(w, ToWorkerResources(body))
  BY <1>1 DEF WorkerCandidates
<1>7. Fits(tx)
  BY <1>5, <1>6 DEF Fits, WorkerHasCapacity
<1>8. Opened(tx)
  BY <1>2, <1>7 DEF Opened, Knows, StaleTx, BeginReserve
<1> QED
  BY <1>1, <1>8

\* So does a release, and the reconciler's is of an id it listed.
LEMMA ReleaseKnows ==
  ASSUME NEW s \in Sessions, NEW i \in Ids, NEW reason, OpenRelease(s, i, reason),
         reason = "stale" => \E r \in Reconcilers : i \in batch[r]
  PROVE  \E tx : Open(s, tx) /\ Opened(tx)
<1> DEFINE tx == [op |-> "release", id |-> i, reason |-> reason]
<1>1. Open(s, tx)
  BY DEF OpenRelease
<1>2. Opened(tx)
  BY DEF OpenRelease, Releasable, Opened, Knows, StaleTx
<1> QED
  BY <1>1, <1>2

\* Every transaction is opened, goes on, or is over.
LEMMA SessionStep ==
  ASSUME TypeInv, [Next]_vars
  PROVE  \/ \E s \in Sessions : \E tx : Open(s, tx) /\ Opened(tx)
         \/ \A s \in Sessions : session'[s] \in {session[s], Idle}
<1> DEFINE Goes == \A s \in Sessions : session'[s] \in {session[s], Idle}
           Opens == \E s \in Sessions : \E tx : Open(s, tx) /\ Opened(tx)
<1>0. Clients \subseteq Sessions /\ Reconcilers \subseteq Sessions
  BY DEF Sessions
<1>1. ASSUME NEW s \in Sessions, Commit(s) \/ RollBack(s)
      PROVE  Goes
  BY <1>1 DEF Commit, RollBack, TypeInv, TypeOK
<1>2. ASSUME UNCHANGED session
      PROVE  Goes
  BY <1>2
<1>3. ASSUME NEW c \in Clients, ReserveStep(c)
      PROVE  Opens \/ Goes
  <2>1. ASSUME NEW key \in Keys, NEW body \in Bodies, BeginReserve(c, key, body)
        PROVE  Opens
    BY <1>0, <2>1, ReserveKnows
  <2>2. ASSUME NEW key \in Keys, NEW body \in Bodies, ReplayReserve(c, key, body)
        PROVE  Goes
    BY <1>2, <2>2 DEF ReplayReserve
  <2>3. CASE CommitReserve(c) \/ DuplicateReserve(c)
    BY <1>0, <1>1, <2>3 DEF CommitReserve, DuplicateReserve
  <2> QED
    BY <1>3, <2>1, <2>2, <2>3 DEF ReserveStep
<1>4. ASSUME NEW c \in Clients, SettleStep(c)
      PROVE  Opens \/ Goes
  <2>1. ASSUME NEW i \in Ids, BeginConfirm(c, i)
        PROVE  Opens
    <3>1. Open(c, [op |-> "confirm", id |-> i]) /\ Opened([op |-> "confirm", id |-> i])
      BY <2>1 DEF BeginConfirm, Opened, Knows, StaleTx
    <3> QED
      BY <1>0, <3>1
  <2>2. CASE CommitConfirm(c)
    BY ZenonT(30), <1>0, <1>1, <2>2 DEF CommitConfirm
  <2>3. ASSUME NEW i \in Ids, NEW reason \in {"requested", "failed"},
               BeginRelease(c, i, reason)
        PROVE  Opens
    BY <1>0, <2>3, ReleaseKnows DEF BeginRelease
  <2> QED
    BY <1>4, <2>1, <2>2, <2>3 DEF SettleStep
<1>5. ASSUME NEW c \in Clients, DeleteStep(c)
      PROVE  Opens \/ Goes
  <2>1. ASSUME NEW e \in Environments, BeginDeleteEnvironment(c, e)
        PROVE  Opens
    <3>1. Open(c, [op |-> "delete", env |-> e]) /\ Opened([op |-> "delete", env |-> e])
      BY <2>1 DEF BeginDeleteEnvironment, Opened, Knows, StaleTx, Empty
    <3> QED
      BY <1>0, <3>1
  <2>2. CASE CommitDeleteEnvironment(c)
    BY <1>0, <1>1, <2>2 DEF CommitDeleteEnvironment
  <2> QED
    BY <1>5, <2>1, <2>2 DEF DeleteStep
<1>6. ASSUME NEW r \in Reconcilers, ReconcileStep(r)
      PROVE  Opens \/ Goes
  <2>1. ASSUME NEW i \in Ids, BeginStaleRelease(r, i)
        PROVE  Opens
    BY <1>0, <2>1, ReleaseKnows DEF BeginStaleRelease, NextListed
  <2>2. ASSUME NEW i \in Ids, SkipStale(r, i)
        PROVE  Goes
    BY <1>2, <2>2 DEF SkipStale
  <2>3. CASE ListStale(r)
    BY <1>2, <2>3 DEF ListStale
  <2>4. CASE RestartRunner(r)
    BY <1>0, <1>1, <2>4 DEF RestartRunner
  <2> QED
    BY <1>6, <2>1, <2>2, <2>3, <2>4 DEF ReconcileStep
<1>7. ASSUME NEW s \in Sessions, CommitRelease(s) \/ Abort(s)
      PROVE  Goes
  BY <1>1, <1>7 DEF CommitRelease, Abort
<1>8. CASE OutsideStep
  BY ZenonT(30), <1>2, <1>8 DEF OutsideStep, Tick, CreateEnvironment, UpdateEnvironment,
                 MarkDisconnected, Heartbeat, ChangeEntitlement, Touch
<1>9. CASE UNCHANGED vars
  BY <1>2, <1>9 DEF vars
<1> QED
  BY <1>3, <1>4, <1>5, <1>6, <1>7, <1>8, <1>9 DEF Next
-----------------------------------------------------------------------------
\* Whatever exists keeps its request and its deadline; what becomes active is
\* made; time goes on.
LEMMA ReservationKept ==
  ASSUME TypeInv, [Next]_vars, NEW j \in Ids
  PROVE  /\ now <= now'
         /\ Exists(j) => /\ Exists(j)'
                         /\ reservation'[j].body = reservation[j].body
                         /\ reservation'[j].expiresAt = reservation[j].expiresAt
         /\ Active(j)' /\ ~Active(j) => ~Exists(j)
<1>1. now <= now'
  <2>1. now \in Int
    BY TimeAssumption DEF TypeInv, TypeOK
  <2>2. ASSUME NEW c \in Clients, ReserveStep(c) \/ DeleteStep(c)
        PROVE  UNCHANGED now
    BY <2>2 DEF ReserveStep, DeleteStep, ReplayReserve, BeginReserve, CommitReserve,
                DuplicateReserve, BeginDeleteEnvironment, CommitDeleteEnvironment
  <2>3. ASSUME NEW c \in Clients, SettleStep(c)
        PROVE  UNCHANGED now
    BY ZenonT(30), <2>3 DEF SettleStep, BeginConfirm, CommitConfirm, BeginRelease,
                            OpenRelease
  <2>4. ASSUME NEW r \in Reconcilers, ReconcileStep(r)
        PROVE  UNCHANGED now
    BY <2>4 DEF ReconcileStep, ListStale, BeginStaleRelease, OpenRelease, SkipStale,
                RestartRunner
  <2>5. ASSUME NEW s \in Sessions, CommitRelease(s) \/ Abort(s)
        PROVE  UNCHANGED now
    BY <2>5 DEF CommitRelease, Abort
  <2>6. CASE OutsideStep
    <3>1. now' = now + 1 \/ UNCHANGED now
      BY ZenonT(30), <2>6 DEF OutsideStep, Tick, CreateEnvironment, UpdateEnvironment,
                              MarkDisconnected, Heartbeat, ChangeEntitlement
    <3> QED
      BY <2>1, <3>1
  <2>7. now' = now \/ OutsideStep
    BY <2>2, <2>3, <2>4, <2>5 DEF Next, vars
  <2> QED
    BY <2>1, <2>6, <2>7
<1>2. ASSUME NEW s \in Sessions, NEW i \in Ids, Made(s, i)
      PROVE  /\ Exists(j) => reservation'[j] = reservation[j]
             /\ Active(j)' /\ ~Active(j) => ~Exists(j)
  BY <1>2 DEF Made, Active, Exists
<1>3. ASSUME NEW s \in Sessions, NEW i \in Ids, Settled(s, i)
      PROVE  /\ Exists(j)' <=> Exists(j)
             /\ reservation'[j].body = reservation[j].body
             /\ reservation'[j].expiresAt = reservation[j].expiresAt
             /\ Active(j)' => Active(j)
  BY <1>3, SettledKeeps
<1> QED
  BY <1>1, <1>2, <1>3, ReservationStep DEF Exists, Active

\* A batch loses members, or is listed anew from what has expired.
LEMMA BatchStep ==
  ASSUME TypeInv, [Next]_vars, NEW r \in Reconcilers, NEW i \in batch'[r]
  PROVE  i \in batch[r] \/ (i \in Ids /\ Stale(i))
<1> DEFINE Goal == i \in batch[r] \/ (i \in Ids /\ Stale(i))
<1>1. ASSUME UNCHANGED batch
      PROVE  Goal
  BY <1>1
<1>2. ASSUME NEW s \in Sessions, NEW j, Consume(s, j)
      PROVE  Goal
  BY <1>2 DEF Consume, TypeInv, TypeOK
<1>3. ASSUME NEW x \in Reconcilers, ReconcileStep(x)
      PROVE  Goal
  <2>1. CASE ListStale(x)
    <3>1. PICK chosen \in SUBSET {j \in Ids : Stale(j)} :
            batch' = [batch EXCEPT ![x] = chosen]
      BY <2>1 DEF ListStale
    <3> QED
      BY <3>1 DEF TypeInv, TypeOK
  <2>2. ASSUME NEW j \in Ids, BeginStaleRelease(x, j)
        PROVE  Goal
    BY <1>1, <2>2 DEF BeginStaleRelease, OpenRelease
  <2>3. ASSUME NEW j \in Ids, SkipStale(x, j)
        PROVE  Goal
    BY <1>2, <2>3 DEF SkipStale, Sessions
  <2>4. CASE RestartRunner(x)
    BY <2>4 DEF RestartRunner, TypeInv, TypeOK
  <2> QED
    BY <1>3, <2>1, <2>2, <2>3, <2>4 DEF ReconcileStep
<1>4. ASSUME NEW s \in Sessions, CommitRelease(s) \/ Abort(s)
      PROVE  Goal
  <2>1. Consume(s, session[s].id) \/ UNCHANGED batch
    BY <1>4 DEF CommitRelease, Abort
  <2> QED
    BY <1>1, <1>2, <2>1
<1>5. ASSUME NEW c \in Clients, ReserveStep(c) \/ DeleteStep(c)
      PROVE  UNCHANGED batch
  BY <1>5 DEF ReserveStep, DeleteStep, ReplayReserve, BeginReserve, CommitReserve,
              DuplicateReserve, BeginDeleteEnvironment, CommitDeleteEnvironment
<1>6. ASSUME NEW c \in Clients, SettleStep(c)
      PROVE  UNCHANGED batch
  BY ZenonT(30), <1>6 DEF SettleStep, BeginConfirm, CommitConfirm, BeginRelease,
                          OpenRelease
<1>7. CASE OutsideStep
  BY ZenonT(30), <1>1, <1>7 DEF OutsideStep, Tick, CreateEnvironment, UpdateEnvironment,
                           MarkDisconnected, Heartbeat, ChangeEntitlement
<1>8. CASE UNCHANGED vars
  BY <1>1, <1>8 DEF vars
<1> QED
  BY <1>1, <1>3, <1>4, <1>5, <1>6, <1>7, <1>8 DEF Next

\* A transaction that goes on knows what it knew, unless the step outdates it.
LEMMA KnowledgeLasts ==
  ASSUME SnapshotInv, TypeInv', [Next]_vars, NEW s \in Sessions,
         session'[s] = session[s], session[s] # Idle, ~outdated'[s]
  PROVE  Knows(session[s])'
<1> DEFINE tx == session[s]
<1>1. PICK docs : Written(docs) /\ Outdates(docs)
  BY WritesOutdate DEF SnapshotInv
<1>2. ~outdated[s] /\ Writes(tx) \cap docs = {} /\ Knows(tx)
  BY <1>1 DEF Outdates, SnapshotInv, SnapshotKnown
<1>3. tx \in Transaction
  BY DEF SnapshotInv, TypeInv, TypeOK
<1>4. ASSUME tx.op = "reserve"
      PROVE  (Placed(tx) /\ Fits(tx))'
  <2>1. tx.body \in Bodies /\ tx.worker \in Workers
    BY <1>3, <1>4 DEF Transaction
  <2>2. tx.body.env \in Environments /\ OrgOf[tx.body.env] \in Orgs
    BY <2>1, DeltaTypes
  <2>3. Writes(tx) = {EnvironmentDoc(tx.body.env), EntitlementDoc(OrgOf[tx.body.env]),
                      WorkerDoc(tx.worker)}
    BY <1>4 DEF Writes
  <2>4. /\ environment'[tx.body.env] = environment[tx.body.env]
        /\ entitlement'[OrgOf[tx.body.env]] = entitlement[OrgOf[tx.body.env]]
        /\ worker'[tx.worker] = worker[tx.worker]
    BY <1>1, <1>2, <2>1, <2>2, <2>3 DEF Written
  <2> QED
    BY <1>2, <1>4, <2>4 DEF Knows, Placed, Fits
<1>5. ASSUME tx.op = "delete", NEW i \in Ids, Active(i)', reservation'[i].body.env = tx.env
      PROVE  FALSE
  <2>1. EnvironmentDoc(tx.env) \notin docs
    BY <1>2, <1>5 DEF Writes
  <2>2. ~(Active(i) /\ reservation[i].body.env = tx.env)
    BY <1>2, <1>5 DEF Knows, Empty
  <2>3. ~Exists(i)
    BY <1>5, <2>2, ReservationKept DEF SnapshotInv
  <2>4. reservation'[i] # reservation[i]
    BY <1>5, <2>3 DEF Active, Exists
  <2> QED
    BY <1>1, <1>5, <2>1, <2>3, <2>4 DEF Written
<1>6. ASSUME StaleTx(tx)
      PROVE  reservation'[tx.id].status = "reserved"
  <2>1. tx.id \in Ids /\ Exists(tx.id)
    BY <1>6, SettleFacts DEF SnapshotInv, StaleTx
  <2>2. ReservationDoc(tx.id) \in Writes(tx)
    BY <1>6 DEF Writes, StaleTx, SettleWrites
  <2>3. reservation'[tx.id] = reservation[tx.id]
    BY <1>1, <1>2, <2>1, <2>2 DEF Written
  <2> QED
    BY <1>2, <1>6, <2>3 DEF Knows
<1>7. ASSUME tx.op = "delete"
      PROVE  Empty(tx.env)'
  BY <1>5, <1>7 DEF Empty
<1> QED
  BY <1>4, <1>6, <1>7 DEF Knows, StaleTx

\* What open transactions know survives every step.
LEMMA SnapshotStep == SnapshotInv /\ [Next]_vars => SnapshotInv'
<1> SUFFICES ASSUME SnapshotInv, [Next]_vars PROVE SnapshotInv'
  OBVIOUS
<1>1. TypeInv /\ TypeInv'
  BY TypeInvStep DEF SnapshotInv
<1>2. ASSUME NEW i \in Ids, Expired(i)
      PROVE  Expired(i)'
  <2>1. reservation[i].expiresAt \in Int /\ now \in Int /\ now' \in Int
    BY <1>1, <1>2, ReservationFacts, TimeAssumption
       DEF TypeInv, TypeOK, Expired, Reservation
  <2> QED
    BY <1>1, <1>2, <2>1, ReservationKept DEF Expired
<1>3. BatchExpired'
  <2>1. ASSUME NEW r \in Reconcilers, NEW i \in batch'[r]
        PROVE  Expired(i)'
    <3>1. i \in Ids /\ Expired(i)
      BY <1>1, <2>1, BatchStep
         DEF SnapshotInv, BatchExpired, TypeInv, TypeOK, Stale, Expired, Exists
    <3> QED
      BY <1>2, <3>1
  <2> QED
    BY <2>1 DEF BatchExpired
<1>4. ASSUME NEW s \in Sessions, session'[s] \in {session[s], Idle}
      PROVE  /\ ~outdated'[s] => Knows(session[s])'
             /\ StaleTx(session'[s]) => Expired(session[s].id)'
  <2>1. CASE session'[s] = Idle
    BY <2>1 DEF Knows, StaleTx, Idle
  <2>2. CASE session'[s] = session[s] /\ session[s] # Idle
    <3>1. ASSUME StaleTx(session[s])
          PROVE  Expired(session[s].id)'
      <4>1. session[s].id \in Ids /\ Expired(session[s].id)
        BY <1>1, <3>1, SettleFacts DEF SnapshotInv, SnapshotKnown, StaleTx
      <4> QED
        BY <1>2, <2>2, <4>1
    <3> QED
      BY <1>1, <2>2, <3>1, KnowledgeLasts
  <2> QED
    BY <1>4, <2>1, <2>2
<1>5. ASSUME NEW x \in Sessions, NEW tx, Open(x, tx), Opened(tx), NEW s \in Sessions
      PROVE  /\ ~outdated'[s] => Knows(session[s])'
             /\ StaleTx(session'[s]) => Expired(session[s].id)'
  <2>1. CASE s # x
    BY <1>1, <1>4, <1>5, <2>1 DEF Open, TypeInv, TypeOK
  <2>2. CASE s = x
    <3>1. session'[s] = tx
      BY <1>1, <1>5, <2>2 DEF Open, TypeInv, TypeOK
    <3>2. Knows(session[s])'
      BY <1>5, <3>1 DEF Opened, Knows, Placed, Fits, Empty, Active, StaleTx
    <3>3. StaleTx(tx) => Expired(tx.id)'
      BY <1>5 DEF Opened, SnapshotInv, BatchExpired, Expired, Exists
    <3> QED
      BY <3>1, <3>2, <3>3
  <2> QED
    BY <2>1, <2>2
<1>6. SnapshotKnown'
  BY <1>1, <1>4, <1>5, SessionStep DEF SnapshotKnown
<1> QED
  BY <1>1, <1>3, <1>6 DEF SnapshotInv

\* Nothing is open and nothing is listed in the beginning.
LEMMA InitSnapshots == Init => SnapshotInv
<1> SUFFICES ASSUME Init PROVE SnapshotKnown /\ BatchExpired
  BY InitTypes DEF SnapshotInv
<1> QED
  BY DEF Init, SnapshotKnown, BatchExpired, Knows, StaleTx, Idle
-----------------------------------------------------------------------------
(* What the snapshots are good for.                                        *)

\* An environment stops being active only when a transaction that saw it
\* empty, and that nobody outdated, deletes it.
LEMMA EnvironmentStep ==
  ASSUME TypeInv, [Next]_vars, NEW e \in Environments,
         environment[e].status = "active", environment'[e].status # "active"
  PROVE  /\ UNCHANGED reservation
         /\ \E s \in Sessions : /\ session[s].op = "delete" /\ session[s].env = e
                                /\ ~outdated[s]
<1>1. environment'[e] # environment[e]
  OBVIOUS
<1>2. environment[e] \in Environment
  BY DEF TypeInv, TypeOK
<1>3. ASSUME NEW c \in Clients, ReserveStep(c) \/ SettleStep(c)
      PROVE  UNCHANGED environment
  <2>1. CASE ReserveStep(c)
    BY <2>1 DEF ReserveStep, ReplayReserve, BeginReserve, CommitReserve, DuplicateReserve
  <2>2. CASE SettleStep(c)
    BY ZenonT(30), <2>2 DEF SettleStep, BeginConfirm, CommitConfirm, BeginRelease,
                            OpenRelease
  <2> QED
    BY <1>3, <2>1, <2>2
<1>4. ASSUME NEW r \in Reconcilers, ReconcileStep(r)
      PROVE  UNCHANGED environment
  BY <1>4 DEF ReconcileStep, ListStale, BeginStaleRelease, OpenRelease, SkipStale,
              RestartRunner
<1>5. ASSUME NEW s \in Sessions, CommitRelease(s) \/ Abort(s)
      PROVE  UNCHANGED environment
  BY <1>5 DEF CommitRelease, Abort
<1>6. CASE OutsideStep
  <2>1. ASSUME NEW x \in Environments, NEW region \in Regions,
               CreateEnvironment(x, region) \/ UpdateEnvironment(x, region)
        PROVE  environment'[e].status = "active"
    BY <1>2, <2>1 DEF CreateEnvironment, UpdateEnvironment, TypeInv, TypeOK, Environment
  <2>2. UNCHANGED environment
    BY ZenonT(30), <1>6, <2>1 DEF OutsideStep, Tick, MarkDisconnected, Heartbeat,
                                  ChangeEntitlement
  <2> QED
    BY <1>1, <2>2
<1>7. ASSUME NEW c \in Clients, DeleteStep(c)
      PROVE  \/ UNCHANGED environment
             \/ /\ UNCHANGED reservation
                /\ session[c].op = "delete" /\ session[c].env = e /\ ~outdated[c]
  <2>1. ASSUME NEW x \in Environments, BeginDeleteEnvironment(c, x)
        PROVE  UNCHANGED environment
    BY <2>1 DEF BeginDeleteEnvironment
  <2>2. CASE CommitDeleteEnvironment(c)
    BY <1>1, <2>2 DEF CommitDeleteEnvironment, Commit, NoWriteConflict, TypeInv, TypeOK
  <2> QED
    BY <1>7, <2>1, <2>2 DEF DeleteStep
<1> QED
  BY <1>1, <1>3, <1>4, <1>5, <1>6, <1>7 DEF Next, vars, Sessions

\* Every reservation is made in an active environment, and the environment of
\* an active one is not deleted.
LEMMA ActiveStep ==
  SnapshotInv /\ ActiveInActiveEnvironment /\ [Next]_vars
    => ActiveInActiveEnvironment'
<1> SUFFICES ASSUME SnapshotInv, ActiveInActiveEnvironment, [Next]_vars,
                    NEW i \in Ids, Active(i)'
             PROVE  environment'[reservation'[i].body.env].status = "active"
  BY DEF ActiveInActiveEnvironment
<1> DEFINE e == reservation'[i].body.env
<1>1. TypeInv
  BY DEF SnapshotInv
<1>2. e \in Environments /\ environment[e].status = "active"
  <2>1. ASSUME NEW s \in Sessions, Made(s, i)
        PROVE  e \in Environments /\ environment[e].status = "active"
    <3>1. session[s].op = "reserve" /\ session[s].body \in Bodies /\ e = session[s].body.env
          /\ ~outdated[s]
      BY <2>1 DEF Made
    <3> QED
      BY <3>1, DeltaTypes DEF SnapshotInv, SnapshotKnown, Knows, Placed
  <2>2. CASE Active(i)
    <3>1. Exists(i)
      BY <2>2 DEF Active, Exists
    <3>2. reservation[i].body.env \in Environments
      BY <1>1, <3>1, ReservationFacts, DeltaTypes DEF TypeInv
    <3> QED
      BY <1>1, <2>2, <3>1, <3>2, ReservationKept DEF ActiveInActiveEnvironment
  <2>3. Active(i) \/ \E s \in Sessions : Made(s, i)
    <3>1. ASSUME NEW s \in Sessions, NEW j \in Ids, Made(s, j), i # j
          PROVE  Active(i)
      BY <3>1 DEF Made, Active
    <3>2. ASSUME NEW s \in Sessions, NEW j \in Ids, Settled(s, j)
          PROVE  Active(i)
      BY <1>1, <3>2, SettledKeeps
    <3>3. CASE UNCHANGED reservation
      BY <3>3 DEF Active
    <3> QED
      BY <1>1, <3>1, <3>2, <3>3, ReservationStep
  <2> QED
    BY <2>1, <2>2, <2>3
<1>3. CASE environment'[e].status # "active"
  <2>1. /\ UNCHANGED reservation
        /\ \E s \in Sessions : session[s].op = "delete" /\ session[s].env = e /\ ~outdated[s]
    BY <1>1, <1>2, <1>3, EnvironmentStep
  <2>2. Empty(e)
    BY <2>1 DEF SnapshotInv, SnapshotKnown, Knows
  <2> QED
    BY <2>1, <2>2 DEF Empty, Active
<1> QED
  BY <1>3

\* However a reserve and the deletion of its environment interleave, whichever
\* of them commits second loses: no reservation is reserved or confirmed in an
\* environment that is gone.
THEOREM NothingHeldInDeleted == Spec => []ActiveInActiveEnvironment
<1>1. Init => ActiveInActiveEnvironment
  BY DEF Init, ActiveInActiveEnvironment, Active, Absent
<1> QED
  BY <1>1, InitSnapshots, SnapshotStep, ActiveStep, PTL DEF Spec

\* A stale release that commits read a reserved reservation, nobody outdated
\* it, and what was listed had expired.
LEMMA StaleReleaseStep ==
  ASSUME SnapshotInv, [Next]_vars, NEW i \in Ids,
         reservation'[i].status = "released", reservation'[i].reason = "stale"
  PROVE  Stale(i) \/ reservation'[i] = reservation[i]
<1>1. TypeInv
  BY DEF SnapshotInv
<1>2. ASSUME NEW s \in Sessions, NEW j \in Ids, Made(s, j)
      PROVE  reservation'[i] = reservation[i]
  BY <1>2 DEF Made
<1>3. ASSUME NEW s \in Sessions, Settled(s, i)
      PROVE  Stale(i)
  <2>1. reservation[i] \in Reservation
    BY <1>1, <1>3, ReservationFacts DEF Settled, TypeInv
  <2>2. session[s].op = "release" /\ session[s].reason = "stale"
    BY <1>3, <2>1 DEF Settled, Reservation
  <2>3. StaleTx(session[s]) /\ session[s].id = i /\ ~outdated[s]
    BY <1>3, <2>2 DEF Settled, StaleTx
  <2> QED
    BY <2>3 DEF SnapshotInv, SnapshotKnown, Knows, Expired, Stale
<1>4. ASSUME NEW s \in Sessions, NEW j \in Ids, Settled(s, j), j # i
      PROVE  reservation'[i] = reservation[i]
  BY <1>4 DEF Settled
<1> QED
  BY <1>1, <1>2, <1>3, <1>4, ReservationStep

\* For any number of reconcilers and clients and any batch size: what the
\* reconciler gives up was reserved and past its deadline at that instant,
\* however long ago it was listed.
THEOREM OnlyStaleIsReclaimed == Spec => StaleReleaseIsStale
<1>1. SnapshotInv /\ [Next]_vars =>
        [\A i \in Ids :
           reservation'[i].status = "released" /\ reservation'[i].reason = "stale"
             => Stale(i) \/ reservation'[i] = reservation[i]]_vars
  BY StaleReleaseStep
<1> QED
  BY <1>1, InitSnapshots, SnapshotStep, PTL DEF Spec, StaleReleaseIsStale

\* A reservation that appears is made where its transaction saw a place.
LEMMA PlacementStep ==
  ASSUME SnapshotInv, [Next]_vars, NEW i \in Ids, ~Exists(i), Exists(i)'
  PROVE  LET r == reservation'[i] IN
         /\ environment[r.body.env].status = "active"
         /\ environment[r.body.env].region = RegionOf[r.worker]
         /\ worker[r.worker].status = "online"
         /\ worker[r.worker].schedulable
<1>1. TypeInv
  BY DEF SnapshotInv
<1>2. PICK s \in Sessions : Made(s, i)
  <2>1. ASSUME NEW s \in Sessions, NEW j \in Ids, Settled(s, j)
        PROVE  FALSE
    BY <1>1, <2>1, SettledKeeps
  <2>2. ASSUME NEW s \in Sessions, NEW j \in Ids, Made(s, j), j # i
        PROVE  FALSE
    BY <2>2 DEF Made, Exists
  <2> QED
    BY <1>1, <2>1, <2>2, ReservationStep DEF Exists
<1>3. ~outdated[s] /\ session[s].op = "reserve"
      /\ reservation'[i].body = session[s].body /\ reservation'[i].worker = session[s].worker
  BY <1>2 DEF Made
<1> QED
  BY <1>3 DEF SnapshotInv, SnapshotKnown, Knows, Placed

\* While what a transaction saw is known, a reservation is only made in a place
\* that is still right for it.
LEMMA PlacementsSeen == []SnapshotInv /\ [][Next]_vars => PlacementIsCurrent
<1>1. SnapshotInv /\ [Next]_vars =>
        [\A i \in Ids : ~Exists(i) /\ Exists(i)' =>
           LET r == reservation'[i] IN
           /\ environment[r.body.env].status = "active"
           /\ environment[r.body.env].region = RegionOf[r.worker]
           /\ worker[r.worker].status = "online"
           /\ worker[r.worker].schedulable]_vars
  BY PlacementStep
<1> QED
  BY <1>1, PTL DEF PlacementIsCurrent

\* Through every interleaving of heartbeats, disconnects, region changes and
\* deletions: a reservation is only ever made in an active environment, on a
\* worker of its region that is in scheduling at that instant.
THEOREM PlacedWhereSeen == Spec => PlacementIsCurrent
BY InitSnapshots, SnapshotStep, PlacementsSeen, PTL DEF Spec
-----------------------------------------------------------------------------
(* The counters implement the ledger.                                      *)

\* The account of the ledger that the reservation documents stand for.
account == [i \in Ids |->
              IF Exists(i)
              THEN [state |-> reservation[i].status,
                    claim |-> ClaimOf(reservation[i].body, reservation[i].worker)]
              ELSE [state |-> "unclaimed"]]

\* The ledger sums as the counters are summed.
LEMMA LedgerTotal ==
  \A S, weight, bound : Ledger!Total(S, weight, bound) = Total(S, weight, bound)
<1> SUFFICES ASSUME NEW S, NEW weight, NEW bound
             PROVE  Ledger!Total(S, weight, bound) = Total(S, weight, bound)
  OBVIOUS
<1>1. Ledger!Units(S, weight, bound) = Units(S, weight, bound)
  BY DEF Ledger!Units, Units
<1> QED
  BY <1>1 DEF Ledger!Total, Total, Ledger!Cardinality, Cardinality

\* What the ledger sums per claim is what the two counters of a document say.
LEMMA LedgerUse ==
  ASSUME TypeInv, CountersMatchReservations
  PROVE  /\ \A o \in Orgs, k \in QuotaKeys :
              Ledger!OrgUse(o, k) = entitlement[o].reserved[k] + entitlement[o].allocated[k]
         /\ \A w \in Workers, k \in WorkerDims :
              Ledger!WorkerUse(w, k) = worker[w].reserved[k] + worker[w].allocated[k]
<1>1. ASSUME NEW i \in Ids
      PROVE  /\ Ledger!InUse(i) <=> Active(i)
             /\ Active(i) =>
                  /\ account[i].claim.org = OrgOfReservation(i)
                  /\ account[i].claim.worker = reservation[i].worker
                  /\ account[i].claim.quota = ReservationQuotaDelta(reservation[i].body)
                  /\ account[i].claim.needs = ToWorkerResources(reservation[i].body)
                  /\ Exists(i)
  BY <1>1 DEF Ledger!InUse, Active, Exists, ClaimOf, OrgOfReservation, account
<1>2. MaxAmount \in Nat /\ IsFiniteSet(Ids)
  BY FiniteAssumption
<1>3. ASSUME NEW o \in Orgs, NEW k \in QuotaKeys
      PROVE  Ledger!OrgUse(o, k) = entitlement[o].reserved[k] + entitlement[o].allocated[k]
  <2> DEFINE R == OrgHolds(o, "reserved")
             A == OrgHolds(o, "confirmed")
             used == {i \in Ids : Ledger!InUse(i) /\ account[i].claim.org = o}
             weight == [i \in Ids |-> IF Ledger!InUse(i) THEN account[i].claim.quota[k] ELSE 0]
  <2>1. used = R \cup A /\ R \cap A = {}
    BY <1>1 DEF OrgHolds, Active
  <2>2. \A i \in R \cup A : weight[i] = QuotaWeight(k)[i]
    BY <1>1, <2>1 DEF OrgHolds, QuotaWeight
  <2>3. IsFiniteSet(R) /\ IsFiniteSet(A)
    BY <1>2, FS_Subset DEF OrgHolds
  <2>4. Ledger!OrgUse(o, k) = Total(used, weight, MaxAmount)
    BY LedgerTotal DEF Ledger!OrgUse, account
  <2>5. Total(R \cup A, weight, MaxAmount) = Total(R \cup A, QuotaWeight(k), MaxAmount)
    <3> HIDE DEF R, A, weight
    <3> QED
      BY <1>2, <2>2, TotalDependsOnMembers
  <2>6. Total(R \cup A, QuotaWeight(k), MaxAmount) =
          Total(R, QuotaWeight(k), MaxAmount) + Total(A, QuotaWeight(k), MaxAmount)
    <3> HIDE DEF R, A
    <3> QED
      BY <1>2, <2>1, <2>3, TotalOfUnion
  <2>7. /\ entitlement[o].reserved[k] = Total(R, QuotaWeight(k), MaxAmount)
        /\ entitlement[o].allocated[k] = Total(A, QuotaWeight(k), MaxAmount)
    BY DEF CountersMatchReservations, EntitlementCountersMatch
  <2> HIDE DEF R, A, used, weight
  <2> QED
    BY <2>1, <2>4, <2>5, <2>6, <2>7
<1>4. ASSUME NEW w \in Workers, NEW k \in WorkerDims
      PROVE  Ledger!WorkerUse(w, k) = worker[w].reserved[k] + worker[w].allocated[k]
  <2> DEFINE R == WorkerHolds(w, "reserved")
             A == WorkerHolds(w, "confirmed")
             used == {i \in Ids : Ledger!InUse(i) /\ account[i].claim.worker = w}
             weight == [i \in Ids |-> IF Ledger!InUse(i) THEN account[i].claim.needs[k] ELSE 0]
  <2>1. used = R \cup A /\ R \cap A = {}
    BY <1>1 DEF WorkerHolds, Active
  <2>2. \A i \in R \cup A : weight[i] = WorkerWeight(k)[i]
    BY <1>1, <2>1 DEF WorkerHolds, WorkerWeight
  <2>3. IsFiniteSet(R) /\ IsFiniteSet(A)
    BY <1>2, FS_Subset DEF WorkerHolds
  <2>4. Ledger!WorkerUse(w, k) = Total(used, weight, MaxAmount)
    BY LedgerTotal DEF Ledger!WorkerUse, account
  <2>5. Total(R \cup A, weight, MaxAmount) = Total(R \cup A, WorkerWeight(k), MaxAmount)
    <3> HIDE DEF R, A, weight
    <3> QED
      BY <1>2, <2>2, TotalDependsOnMembers
  <2>6. Total(R \cup A, WorkerWeight(k), MaxAmount) =
          Total(R, WorkerWeight(k), MaxAmount) + Total(A, WorkerWeight(k), MaxAmount)
    <3> HIDE DEF R, A
    <3> QED
      BY <1>2, <2>1, <2>3, TotalOfUnion
  <2>7. /\ worker[w].reserved[k] = Total(R, WorkerWeight(k), MaxAmount)
        /\ worker[w].allocated[k] = Total(A, WorkerWeight(k), MaxAmount)
    BY DEF CountersMatchReservations, WorkerCountersMatch
  <2> HIDE DEF R, A, used, weight
  <2> QED
    BY <2>1, <2>4, <2>5, <2>6, <2>7
<1> QED
  BY <1>3, <1>4

\* A step that changes no claim is the ledger's to ignore.
LEMMA LedgerQuiet ==
  ASSUME UNCHANGED reservation
  PROVE  UNCHANGED account
BY DEF account, Exists, ClaimOf

\* What a made reservation means to the ledger: a claim nobody held, which fits.
LEMMA LedgerGrant ==
  ASSUME SnapshotInv, CountersMatchReservations, TypeInv',
         NEW s \in Sessions, NEW i \in Ids, Made(s, i)
  PROVE  \E claim \in {ClaimOf(body, w) : body \in Bodies, w \in Workers} :
           Ledger!Grant(i, claim)
<1> DEFINE tx == session[s]
           o  == OrgOf[tx.body.env]
<1>1. /\ tx.body \in Bodies /\ tx.worker \in Workers /\ tx.op = "reserve"
      /\ ~outdated[s] /\ ~Exists(i)
  BY DEF Made
<1>0. PICK claim \in {ClaimOf(body, w) : body \in Bodies, w \in Workers} :
        claim = ClaimOf(tx.body, tx.worker)
  BY <1>1
<1>2. /\ o \in Orgs
      /\ ReservationQuotaDelta(tx.body) \in [QuotaKeys -> 0 .. MaxAmount]
      /\ ToWorkerResources(tx.body) \in [WorkerDims -> 0 .. MaxAmount]
  BY <1>1, DeltaTypes
<1>3. Fits(tx)
  BY <1>1 DEF SnapshotInv, SnapshotKnown, Knows
<1>4. /\ claim.org = o /\ claim.worker = tx.worker
      /\ claim.quota = ReservationQuotaDelta(tx.body)
      /\ claim.needs = ToWorkerResources(tx.body)
  BY <1>0 DEF ClaimOf
<1>5. ASSUME NEW k \in QuotaKeys, claim.quota[k] > 0
      PROVE  Ledger!OrgUse(claim.org, k) + claim.quota[k] <= entitlement[o].limits[k]
  <2>1. k # "environments"
    BY <1>4, <1>5 DEF ReservationQuotaDelta
  <2>2. Ledger!OrgUse(o, k) = entitlement[o].reserved[k] + entitlement[o].allocated[k]
    BY <1>2, LedgerUse DEF SnapshotInv
  <2>3. entitlement[o].reserved[k] + entitlement[o].allocated[k] + claim.quota[k]
          <= entitlement[o].limits[k]
    BY <1>3, <1>4, <2>1 DEF Fits
  <2> QED
    BY <1>4, <2>2, <2>3
<1>6. ASSUME NEW k \in WorkerDims, claim.needs[k] > 0
      PROVE  Ledger!WorkerUse(claim.worker, k) + claim.needs[k] <= worker[tx.worker].capacity[k]
  <2>2. Ledger!WorkerUse(tx.worker, k) =
          worker[tx.worker].reserved[k] + worker[tx.worker].allocated[k]
    BY <1>1, LedgerUse DEF SnapshotInv
  <2> QED
    BY <1>3, <1>4, <2>2 DEF Fits
<1>7. Ledger!Fits(claim)
  BY <1>1, <1>2, <1>4, <1>5, <1>6 DEF Ledger!Fits
<1>8. account[i] = Ledger!Unclaimed
  BY <1>1 DEF account, Ledger!Unclaimed
<1>9. account' = [account EXCEPT ![i] = [state |-> "reserved", claim |-> claim]]
  <2>1. account'[i] = [state |-> "reserved", claim |-> claim]
    BY <1>0 DEF Made, account, Exists, ClaimOf
  <2>2. \A j \in Ids \ {i} : account'[j] = account[j]
    BY DEF Made, account, Exists, ClaimOf
  <2>3. DOMAIN account = Ids /\ account' = [j \in Ids |-> account'[j]]
    BY DEF account
  <2>4. account = [j \in Ids |-> account[j]]
    BY DEF account
  <2> HIDE DEF account
  <2> QED
    BY <2>1, <2>2, <2>3, <2>4
<1>10. Ledger!Grant(i, claim)
  BY <1>7, <1>8, <1>9 DEF Ledger!Grant, account
<1> QED
  BY <1>10

\* A settled reservation is a claim confirmed or released.
LEMMA LedgerSettle ==
  ASSUME TypeInv, NEW s \in Sessions, NEW i \in Ids, Settled(s, i)
  PROVE  Ledger!Confirm(i) \/ Ledger!Release(i)
<1> DEFINE status == reservation'[i].status
<1>1. /\ Exists(i) /\ Exists(i)' /\ Active(i)
      /\ reservation'[i].body = reservation[i].body
      /\ reservation'[i].worker = reservation[i].worker
  BY SettledKeeps DEF Settled
<1>2. \/ status = "confirmed" /\ reservation[i].status = "reserved"
      \/ status = "released"
  <2>1. reservation[i] \in Reservation
    BY <1>1, ReservationFacts DEF TypeInv
  <2> QED
    BY <2>1 DEF Settled, Reservation
<1>3. account' = [account EXCEPT ![i].state = status]
  <2>1. account'[i] = [account[i] EXCEPT !.state = status]
    BY <1>1 DEF account, ClaimOf
  <2>2. \A j \in Ids \ {i} : account'[j] = account[j]
    BY DEF Settled, account, Exists, ClaimOf
  <2> QED
    BY <2>1, <2>2 DEF account
<1>4. account[i].state = reservation[i].status
  BY <1>1 DEF account
<1>5. CASE status = "confirmed"
  BY <1>2, <1>3, <1>4, <1>5 DEF Ledger!Confirm, account
<1>6. CASE status = "released"
  BY <1>1, <1>3, <1>4, <1>6 DEF Ledger!Release, Ledger!InUse, Active, account
<1> QED
  BY <1>2, <1>5, <1>6

\* Both inductive invariants: the counters are sums, the snapshots are current.
LedgerInv == SnapshotInv /\ CounterInv

\* Every step is a step of the ledger or leaves the claims alone.
LEMMA LedgerStep == LedgerInv /\ [Next]_vars => [Ledger!Next]_(Ledger!vars)
<1> SUFFICES ASSUME LedgerInv, [Next]_vars PROVE Ledger!Next \/ UNCHANGED Ledger!vars
  OBVIOUS
<1> USE DEF LedgerInv
<1>1. TypeInv /\ TypeInv' /\ CountersMatchReservations
  BY TypeInvStep DEF SnapshotInv, CounterInv
<1>2. ASSUME NEW s \in Sessions, NEW i \in Ids, Made(s, i) \/ Settled(s, i)
      PROVE  Ledger!Settle
  <2>1. \/ \E claim \in {ClaimOf(body, w) : body \in Bodies, w \in Workers} :
             Ledger!Grant(i, claim)
        \/ Ledger!Confirm(i) \/ Ledger!Release(i)
    BY <1>1, <1>2, LedgerGrant, LedgerSettle
  <2>2. /\ \A o \in Orgs : entitlement'[o].limits = entitlement[o].limits
        /\ \A w \in Workers : worker'[w].capacity = worker[w].capacity
    BY <1>2 DEF Made, Settled, LimitsKept
  <2> QED
    BY <2>1, <2>2 DEF Ledger!Settle
<1>3. CASE UNCHANGED reservation
  BY <1>3, LedgerQuiet DEF Ledger!Next, Ledger!Regulate, account
<1> QED
  BY <1>1, <1>2, <1>3, ReservationStep DEF Ledger!Next

\* For every number of tenants, workers, handlers and reconcilers, every limit
\* and every capacity: the counters implement the ledger.  A claim is granted
\* only where the sum of the claims leaves room for it, it is confirmed or
\* released once, and nothing else touches it.
THEOREM LedgerIsImplemented == Spec => LedgerRefinement
<1>1. Init => LedgerInv
  BY InitTypes, InitTotals, InitSnapshots DEF LedgerInv, CounterInv
<1>2. Init => Ledger!Init
  BY DEF Init, Ledger!Init, Ledger!Unclaimed, Exists, Absent
<1>3. LedgerInv /\ [Next]_vars => LedgerInv'
  BY SnapshotStep, CounterStep DEF LedgerInv
<1> QED
  BY <1>1, <1>2, <1>3, LedgerStep, PTL DEF Spec, LedgerRefinement, Ledger!Spec
=============================================================================
