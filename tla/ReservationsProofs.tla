-------------------------- MODULE ReservationsProofs --------------------------
(* Type correctness of Reservations, and that its counters are sums.       *)
EXTENDS Reservations, TotalsProofs

\* Requested quantities, as the counters see them, are natural numbers.
LEMMA DeltaTypes ==
  ASSUME NEW body \in Bodies
  PROVE  /\ ReservationQuotaDelta(body) \in [QuotaKeys -> 0 .. MaxAmount]
         /\ ToWorkerResources(body) \in [WorkerDims -> 0 .. MaxAmount]
         /\ body.env \in Environments
         /\ OrgOf[body.env] \in Orgs
<1>1. body \in [env: Environments, amount: [Dims -> 0 .. MaxAmount],
                pin: Workers \cup {AnyWorker}]
  BY ShapeAssumption
<1>2. \A k \in Dims : body.amount[k] \in 0 .. MaxAmount
  BY <1>1
<1>3. 0 \in 0 .. MaxAmount /\ 1 \in 0 .. MaxAmount
  BY FiniteAssumption
<1>4. \A k \in QuotaKeys : k # "services" /\ k # "environments" => k \in Dims
  BY DEF QuotaKeys
<1>5. ASSUME NEW k \in QuotaKeys
      PROVE  ReservationQuotaDelta(body)[k] \in 0 .. MaxAmount
  BY <1>2, <1>3, <1>4 DEF ReservationQuotaDelta
<1>6. ReservationQuotaDelta(body) \in [QuotaKeys -> 0 .. MaxAmount]
  BY <1>5 DEF ReservationQuotaDelta
<1>7. ToWorkerResources(body) \in [WorkerDims -> 0 .. MaxAmount]
  BY <1>2, ShapeAssumption DEF ToWorkerResources
<1> QED
  BY <1>1, <1>6, <1>7, ShapeAssumption

\* Counters stay integers.
LEMMA CounterTypes ==
  ASSUME NEW K, NEW counters \in [K -> Int], NEW delta \in [K -> 0 .. MaxAmount]
  PROVE  /\ Plus(counters, delta) \in [K -> Int]
         /\ Minus(counters, delta) \in [K -> Int]
         /\ \A k \in K : /\ Plus(counters, delta)[k] = counters[k] + delta[k]
                         /\ Minus(counters, delta)[k] = counters[k] - delta[k]
<1>1. \A k \in K : delta[k] \in Int
  BY FiniteAssumption
<1> QED
  BY <1>1 DEF Plus, Minus

-----------------------------------------------------------------------------
(* What an open transaction knows.                                         *)

\* A confirm or a release is about a reservation that was made.
SettlesExisting ==
  \A s \in Sessions :
    session[s].op \in {"confirm", "release"} => Exists(session[s].id)

\* While nobody outdated it, the state it read is still the state.
SnapshotHolds ==
  \A s \in Sessions : ~outdated[s] =>
    /\ session[s].op = "confirm" =>
         reservation[session[s].id].status = "reserved"
    /\ session[s].op = "release" => Active(session[s].id)

TypeInv == TypeOK /\ SettlesExisting /\ SnapshotHolds

\* Opening a well-formed transaction on an idle handler keeps the sessions typed.
LEMMA OpenTypes ==
  ASSUME TypeOK, NEW s \in Sessions, NEW tx \in Transaction, Open(s, tx)
  PROVE  /\ session' \in [Sessions -> Transaction \cup {Idle}]
         /\ outdated' \in [Sessions -> BOOLEAN]
BY DEF TypeOK, Open

\* A commit leaves every session idle or as it was.
LEMMA CommitTypes ==
  ASSUME TypeOK, NEW s \in Sessions, Commit(s)
  PROVE  /\ session' \in [Sessions -> Transaction \cup {Idle}]
         /\ outdated' \in [Sessions -> BOOLEAN]
BY DEF TypeOK, Commit, Outdate

\* So does a rollback.
LEMMA RollBackTypes ==
  ASSUME TypeOK, NEW s \in Sessions, RollBack(s)
  PROVE  /\ session' \in [Sessions -> Transaction \cup {Idle}]
         /\ outdated' \in [Sessions -> BOOLEAN]
BY DEF TypeOK, RollBack

\* A write outside the handlers marks transactions and opens none.
LEMMA TouchTypes ==
  ASSUME TypeOK, NEW doc, Touch(doc)
  PROVE  /\ session' \in [Sessions -> Transaction \cup {Idle}]
         /\ outdated' \in [Sessions -> BOOLEAN]
BY DEF TypeOK, Touch, Outdate

\* The initial documents are well formed and nothing is open.
LEMMA InitTypes == Init => TypeInv
<1> SUFFICES ASSUME Init PROVE TypeInv
  OBVIOUS
<1>1. entitlement \in [Orgs -> Entitlement]
  <2>1. ASSUME NEW until \in {MaxTime, MaxTime + 1}, NEW limits \in Limits
        PROVE  [active |-> TRUE, validFrom |-> 0, validUntil |-> until,
                limits |-> limits, reserved |-> NoCounters(QuotaKeys),
                allocated |-> NoCounters(QuotaKeys)] \in Entitlement
    <3>1. NoCounters(QuotaKeys) \in [QuotaKeys -> Int]
      BY DEF NoCounters
    <3>2. limits \in [QuotaKeys -> Nat] /\ until \in Nat
      BY ShapeAssumption, TimeAssumption
    <3> QED
      BY <3>1, <3>2 DEF Entitlement
  <2> QED
    BY <2>1 DEF Init
<1>2. worker \in [Workers -> WorkerNode]
  <2>1. ASSUME NEW capacity \in Capacities
        PROVE  [status |-> "online", schedulable |-> TRUE,
                lastHeartbeatAt |-> 0, capacity |-> capacity,
                reserved |-> NoCounters(WorkerDims),
                allocated |-> NoCounters(WorkerDims)] \in WorkerNode
    <3>1. NoCounters(WorkerDims) \in [WorkerDims -> Int]
      BY DEF NoCounters
    <3>2. capacity \in [WorkerDims -> Nat]
      BY ShapeAssumption
    <3> QED
      BY <3>1, <3>2 DEF WorkerNode
  <2> QED
    BY <2>1 DEF Init
<1>3. environment \in [Environments -> Environment]
  BY DEF Init, Environment
<1>4. TypeOK
  BY <1>1, <1>2, <1>3, TimeAssumption DEF Init, TypeOK
<1>5. SettlesExisting /\ SnapshotHolds
  BY DEF Init, SettlesExisting, SnapshotHolds, Idle
<1> QED
  BY <1>4, <1>5 DEF TypeInv

\* reserveResource keeps the types.
LEMMA ReserveTypes ==
  ASSUME TypeInv, NEW c \in Clients, ReserveStep(c)
  PROVE  TypeOK'
<1> USE DEF TypeInv, Sessions
<1>1. ASSUME NEW key \in Keys, NEW body \in Bodies, ReplayReserve(c, key, body)
      PROVE  TypeOK'
  <2>1. PICK i \in Ids : HoldsKey(i, OrgOf[body.env], key) /\ Replay(i, body, granted)
    BY <1>1 DEF ReplayReserve
  <2>2. reservation[i].key = key
    BY <2>1 DEF HoldsKey
  <2>3. granted' \subseteq [key: Keys, body: Bodies, id: Ids]
    BY <2>1, <2>2 DEF Replay, TypeOK
  <2> QED
    BY <1>1, <2>3 DEF TypeOK, ReplayReserve
<1>2. ASSUME NEW key \in Keys, NEW body \in Bodies, BeginReserve(c, key, body)
      PROVE  TypeOK'
  <2>1. PICK w \in WorkerCandidates(body) :
          Open(c, [op |-> "reserve", key |-> key, body |-> body,
                   worker |-> w, at |-> now])
    BY <1>2 DEF BeginReserve
  <2>2. [op |-> "reserve", key |-> key, body |-> body, worker |-> w, at |-> now]
          \in Transaction
    BY TimeAssumption DEF Transaction, WorkerCandidates, TypeOK
  <2> QED
    BY <1>2, <2>1, <2>2, OpenTypes DEF TypeOK, BeginReserve
<1>3. CASE CommitReserve(c)
  <2> DEFINE tx == session[c]
             o  == OrgOf[tx.body.env]
  <2>1. /\ tx \in [op: {"reserve"}, key: Keys, body: Bodies, worker: Workers, at: Nat]
        /\ o \in Orgs
    BY <1>3, DeltaTypes DEF TypeOK, CommitReserve, Transaction, Idle
  <2>2. Plus(entitlement[o].reserved, ReservationQuotaDelta(tx.body))
          \in [QuotaKeys -> Int]
    BY <2>1, DeltaTypes, CounterTypes DEF TypeOK, Entitlement
  <2>3. Plus(worker[tx.worker].reserved, ToWorkerResources(tx.body))
          \in [WorkerDims -> Int]
    BY <2>1, DeltaTypes, CounterTypes DEF TypeOK, WorkerNode
  <2>4. entitlement' \in [Orgs -> Entitlement]
    <3>1. entitlement[o] \in Entitlement
      BY <2>1 DEF TypeOK
    <3>2. [entitlement[o] EXCEPT !.reserved =
             Plus(@, ReservationQuotaDelta(tx.body))] \in Entitlement
      BY ZenonT(30), <2>2, <3>1 DEF Entitlement
    <3>3. entitlement' = [entitlement EXCEPT ![o] = [entitlement[o] EXCEPT
            !.reserved = Plus(@, ReservationQuotaDelta(tx.body))]]
      BY <1>3 DEF CommitReserve
    <3> QED
      BY ZenonT(30), <3>2, <3>3 DEF TypeOK
  <2>5. worker' \in [Workers -> WorkerNode]
    <3>1. worker[tx.worker] \in WorkerNode
      BY <2>1 DEF TypeOK
    <3>2. [worker[tx.worker] EXCEPT !.reserved =
             Plus(@, ToWorkerResources(tx.body))] \in WorkerNode
      BY <2>3, <3>1 DEF WorkerNode
    <3>3. worker' = [worker EXCEPT ![tx.worker] = [worker[tx.worker] EXCEPT
            !.reserved = Plus(@, ToWorkerResources(tx.body))]]
      BY <1>3 DEF CommitReserve
    <3> QED
      BY <3>2, <3>3 DEF TypeOK
  <2>6. PICK i \in Ids :
          /\ reservation' = [reservation EXCEPT ![i] =
               [status |-> "reserved", key |-> tx.key, body |-> tx.body,
                worker |-> tx.worker, expiresAt |-> tx.at + Ttl,
                reason |-> "none"]]
          /\ Announce(i, "reserved")
          /\ granted' = granted \cup {[key |-> tx.key, body |-> tx.body, id |-> i]}
    BY <1>3 DEF CommitReserve
  <2>7. reservation' \in [Ids -> Reservation \cup {Absent}]
    BY <2>1, <2>6, TimeAssumption DEF TypeOK, Reservation
  <2>8. /\ outbox' \subseteq Ids \X {"reserved", "confirmed", "released"}
        /\ granted' \subseteq [key: Keys, body: Bodies, id: Ids]
    BY <2>1, <2>6 DEF TypeOK, Announce
  <2> QED
    BY <1>3, <2>4, <2>5, <2>7, <2>8, CommitTypes DEF TypeOK, CommitReserve
<1>4. CASE DuplicateReserve(c)
  <2> DEFINE tx == session[c]
  <2>1. tx \in [op: {"reserve"}, key: Keys, body: Bodies, worker: Workers, at: Nat]
    BY <1>4 DEF TypeOK, DuplicateReserve, Transaction, Idle
  <2>2. PICK i \in Ids : /\ HoldsKey(i, OrgOf[tx.body.env], tx.key)
                         /\ Replay(i, tx.body, granted)
    BY <1>4 DEF DuplicateReserve
  <2>3. reservation[i].key = tx.key
    BY <2>2 DEF HoldsKey
  <2>4. granted' \subseteq [key: Keys, body: Bodies, id: Ids]
    BY <2>1, <2>2, <2>3 DEF Replay, TypeOK
  <2> QED
    BY <1>4, <2>4, RollBackTypes DEF TypeOK, DuplicateReserve
<1> QED
  BY <1>1, <1>2, <1>3, <1>4 DEF ReserveStep

\* What a reservation that exists refers to.
LEMMA ReservationFacts ==
  ASSUME TypeOK, NEW i \in Ids, Exists(i)
  PROVE  /\ reservation[i] \in Reservation
         /\ reservation[i].body \in Bodies
         /\ reservation[i].worker \in Workers
         /\ OrgOfReservation(i) \in Orgs
         /\ ReservationQuotaDelta(reservation[i].body)
              \in [QuotaKeys -> 0 .. MaxAmount]
         /\ ToWorkerResources(reservation[i].body)
              \in [WorkerDims -> 0 .. MaxAmount]
<1>1. reservation[i] \in Reservation
  BY DEF TypeOK, Exists, Absent
<1>2. reservation[i].body \in Bodies /\ reservation[i].worker \in Workers
  BY <1>1 DEF Reservation
<1> QED
  BY <1>1, <1>2, DeltaTypes DEF OrgOfReservation

\* What a transaction that confirms or releases refers to.
LEMMA SettleFacts ==
  ASSUME TypeInv, NEW s \in Sessions, session[s].op \in {"confirm", "release"}
  PROVE  /\ session[s].id \in Ids
         /\ Exists(session[s].id)
         /\ session[s].op = "release" =>
              session[s].reason \in {"requested", "stale", "failed"}
<1>1. session[s] \in Transaction \cup {Idle}
  BY DEF TypeInv, TypeOK
<1>2. session[s].id \in Ids
  BY <1>1 DEF Transaction, Idle
<1>3. session[s].op = "release" =>
        session[s].reason \in {"requested", "stale", "failed"}
  BY <1>1 DEF Transaction, Idle
<1> QED
  BY <1>2, <1>3 DEF TypeInv, SettlesExisting

\* confirmResourceReservation keeps the types.
LEMMA ConfirmTypes ==
  ASSUME TypeInv, NEW c \in Clients,
         (\E i \in Ids : BeginConfirm(c, i)) \/ CommitConfirm(c)
  PROVE  TypeOK'
<1> USE DEF TypeInv, Sessions
<1>1. ASSUME NEW i \in Ids, BeginConfirm(c, i)
      PROVE  TypeOK'
  <2>1. [op |-> "confirm", id |-> i] \in Transaction
    BY DEF Transaction
  <2>2. Open(c, [op |-> "confirm", id |-> i])
    BY <1>1 DEF BeginConfirm
  <2>3. /\ session' \in [Sessions -> Transaction \cup {Idle}]
        /\ outdated' \in [Sessions -> BOOLEAN]
    BY <2>1, <2>2, OpenTypes
  <2> QED
    BY <1>1, <2>3 DEF TypeOK, BeginConfirm
<1>2. CASE CommitConfirm(c)
  <2> DEFINE i     == session[c].id
             r     == reservation[i]
             o     == OrgOfReservation(i)
             quota == ReservationQuotaDelta(r.body)
             needs == ToWorkerResources(r.body)
             ent   == [entitlement[o] EXCEPT !.reserved  = Minus(@, quota),
                                             !.allocated = Plus(@, quota)]
             node  == [worker[r.worker] EXCEPT !.reserved  = Minus(@, needs),
                                               !.allocated = Plus(@, needs)]
  <2>1. i \in Ids /\ Exists(i)
    BY ZenonT(30), <1>2, SettleFacts DEF CommitConfirm
  <2>2. /\ r \in Reservation /\ r.worker \in Workers /\ o \in Orgs
        /\ quota \in [QuotaKeys -> 0 .. MaxAmount]
        /\ needs \in [WorkerDims -> 0 .. MaxAmount]
    BY <2>1, ReservationFacts
  <2>3. entitlement' \in [Orgs -> Entitlement]
    <3>1. entitlement[o] \in Entitlement
      BY <2>2 DEF TypeOK
    <3>2. /\ Minus(entitlement[o].reserved, quota) \in [QuotaKeys -> Int]
          /\ Plus(entitlement[o].allocated, quota) \in [QuotaKeys -> Int]
      BY <2>2, <3>1, CounterTypes DEF Entitlement
    <3>3. ent \in Entitlement
      BY ZenonT(30), <3>1, <3>2 DEF Entitlement
    <3>4. entitlement' = [entitlement EXCEPT ![o] = ent]
      BY ZenonT(30), <1>2, <2>2 DEF CommitConfirm, TypeOK
    <3> QED
      BY <3>3, <3>4 DEF TypeOK
  <2>4. worker' \in [Workers -> WorkerNode]
    <3>1. worker[r.worker] \in WorkerNode
      BY <2>2 DEF TypeOK
    <3>2. /\ Minus(worker[r.worker].reserved, needs) \in [WorkerDims -> Int]
          /\ Plus(worker[r.worker].allocated, needs) \in [WorkerDims -> Int]
      BY <2>2, <3>1, CounterTypes DEF WorkerNode
    <3>3. node \in WorkerNode
      BY ZenonT(30), <3>1, <3>2 DEF WorkerNode
    <3>4. worker' = [worker EXCEPT ![r.worker] = node]
      BY ZenonT(30), <1>2, <2>2 DEF CommitConfirm, TypeOK
    <3> QED
      BY <3>3, <3>4 DEF TypeOK
  <2>5. reservation' \in [Ids -> Reservation \cup {Absent}]
    <3>1. [r EXCEPT !.status = "confirmed"] \in Reservation
      BY <2>2 DEF Reservation
    <3>2. reservation' = [reservation EXCEPT ![i] = [r EXCEPT !.status = "confirmed"]]
      BY ZenonT(30), <1>2 DEF CommitConfirm
    <3> QED
      BY <3>1, <3>2 DEF TypeOK
  <2>6. outbox' \subseteq Ids \X {"reserved", "confirmed", "released"}
    BY <1>2, <2>1 DEF TypeOK, CommitConfirm, Announce
  <2>7. Commit(c)
    BY ZenonT(30), <1>2 DEF CommitConfirm
  <2> QED
    BY ZenonT(30), <1>2, <2>3, <2>4, <2>5, <2>6, <2>7, CommitTypes DEF TypeOK, CommitConfirm
<1> QED
  BY <1>1, <1>2

\* Opening a release keeps the types, for a caller and for the reconciler.
LEMMA OpenReleaseTypes ==
  ASSUME TypeInv, NEW s \in Sessions, NEW i \in Ids,
         NEW reason \in {"requested", "stale", "failed"}, OpenRelease(s, i, reason)
  PROVE  TypeOK'
<1>1. [op |-> "release", id |-> i, reason |-> reason] \in Transaction
  BY DEF Transaction
<1>2. Open(s, [op |-> "release", id |-> i, reason |-> reason])
  BY DEF OpenRelease
<1>3. /\ session' \in [Sessions -> Transaction \cup {Idle}]
      /\ outdated' \in [Sessions -> BOOLEAN]
  BY <1>1, <1>2, OpenTypes DEF TypeInv
<1> QED
  BY <1>3 DEF TypeInv, TypeOK, OpenRelease

\* A reconciler batch only loses members.
LEMMA ConsumeTypes ==
  ASSUME TypeOK, NEW s \in Sessions, NEW i, Consume(s, i)
  PROVE  batch' \in [Reconcilers -> SUBSET Ids]
BY DEF TypeOK, Consume

\* releaseReservationInternal keeps the types.
LEMMA CommitReleaseTypes ==
  ASSUME TypeInv, NEW s \in Sessions, CommitRelease(s)
  PROVE  TypeOK'
<1> USE DEF TypeInv
<1> DEFINE i     == session[s].id
           r     == reservation[i]
           o     == OrgOfReservation(i)
           quota == ReservationQuotaDelta(r.body)
           needs == ToWorkerResources(r.body)
<1>1. i \in Ids /\ Exists(i) /\ session[s].reason \in {"requested", "stale", "failed"}
  BY SettleFacts DEF CommitRelease
<1>2. /\ r \in Reservation /\ r.worker \in Workers /\ o \in Orgs
      /\ quota \in [QuotaKeys -> 0 .. MaxAmount]
      /\ needs \in [WorkerDims -> 0 .. MaxAmount]
  BY <1>1, ReservationFacts
<1>3. entitlement' \in [Orgs -> Entitlement]
  <2>1. entitlement[o] \in Entitlement
    BY <1>2 DEF TypeOK
  <2>2. /\ Minus(entitlement[o].reserved, quota) \in [QuotaKeys -> Int]
        /\ Minus(entitlement[o].allocated, quota) \in [QuotaKeys -> Int]
    BY <1>2, <2>1, CounterTypes DEF Entitlement
  <2>3. Released(entitlement[o], i, quota) \in Entitlement
    BY <2>1, <2>2 DEF Entitlement, Released
  <2>4. entitlement' = [entitlement EXCEPT ![o] = Released(entitlement[o], i, quota)]
    BY <1>2 DEF CommitRelease, TypeOK
  <2> QED
    BY <2>3, <2>4 DEF TypeOK
<1>4. worker' \in [Workers -> WorkerNode]
  <2>1. worker[r.worker] \in WorkerNode
    BY <1>2 DEF TypeOK
  <2>2. /\ Minus(worker[r.worker].reserved, needs) \in [WorkerDims -> Int]
        /\ Minus(worker[r.worker].allocated, needs) \in [WorkerDims -> Int]
    BY <1>2, <2>1, CounterTypes DEF WorkerNode
  <2>3. Released(worker[r.worker], i, needs) \in WorkerNode
    BY ZenonT(30), <2>1, <2>2 DEF WorkerNode, Released
  <2>4. worker' = [worker EXCEPT ![r.worker] = Released(worker[r.worker], i, needs)]
    BY <1>2 DEF CommitRelease, TypeOK
  <2> QED
    BY <2>3, <2>4 DEF TypeOK
<1>5. reservation' \in [Ids -> Reservation \cup {Absent}]
  <2>1. [r EXCEPT !.status = "released", !.reason = session[s].reason] \in Reservation
    BY <1>1, <1>2 DEF Reservation
  <2>2. reservation' = [reservation EXCEPT ![i] =
          [r EXCEPT !.status = "released", !.reason = session[s].reason]]
    BY <1>1 DEF CommitRelease, TypeOK
  <2> QED
    BY <2>1, <2>2 DEF TypeOK
<1>6. outbox' \subseteq Ids \X {"reserved", "confirmed", "released"}
  BY <1>1 DEF TypeOK, CommitRelease, Announce
<1>7. batch' \in [Reconcilers -> SUBSET Ids]
  BY ConsumeTypes DEF CommitRelease
<1>8. Commit(s)
  BY DEF CommitRelease
<1> QED
  BY <1>3, <1>4, <1>5, <1>6, <1>7, <1>8, CommitTypes DEF TypeOK, CommitRelease

\* Deleting an environment keeps the types.
LEMMA DeleteTypes ==
  ASSUME TypeInv, NEW c \in Clients, DeleteStep(c)
  PROVE  TypeOK'
<1> USE DEF TypeInv, Sessions
<1>1. ASSUME NEW e \in Environments, BeginDeleteEnvironment(c, e)
      PROVE  TypeOK'
  <2>1. [op |-> "delete", env |-> e] \in Transaction
    BY DEF Transaction
  <2>2. Open(c, [op |-> "delete", env |-> e])
    BY <1>1 DEF BeginDeleteEnvironment
  <2>3. /\ session' \in [Sessions -> Transaction \cup {Idle}]
        /\ outdated' \in [Sessions -> BOOLEAN]
    BY <2>1, <2>2, OpenTypes
  <2> QED
    BY <1>1, <2>3 DEF TypeOK, BeginDeleteEnvironment
<1>2. CASE CommitDeleteEnvironment(c)
  <2>1. session[c].env \in Environments
    BY <1>2 DEF CommitDeleteEnvironment, TypeOK, Transaction, Idle
  <2>2. environment' \in [Environments -> Environment]
    BY <1>2, <2>1 DEF CommitDeleteEnvironment, TypeOK, Environment
  <2>3. Commit(c)
    BY <1>2 DEF CommitDeleteEnvironment
  <2> QED
    BY <1>2, <2>2, <2>3, CommitTypes DEF CommitDeleteEnvironment, TypeOK
<1> QED
  BY <1>1, <1>2 DEF DeleteStep

\* The reconciler's own steps and rollbacks keep the types.
LEMMA ReconcileTypes ==
  ASSUME TypeInv, NEW r \in Reconcilers, ReconcileStep(r)
  PROVE  TypeOK'
<1> USE DEF TypeInv, Sessions
<1>1. CASE ListStale(r)
  BY <1>1 DEF ListStale, TypeOK
<1>2. ASSUME NEW i \in Ids, BeginStaleRelease(r, i)
      PROVE  TypeOK'
  BY <1>2, OpenReleaseTypes DEF BeginStaleRelease
<1>3. ASSUME NEW i \in Ids, SkipStale(r, i)
      PROVE  TypeOK'
  <2>1. batch' \in [Reconcilers -> SUBSET Ids]
    BY <1>3, ConsumeTypes DEF SkipStale
  <2> QED
    BY <1>3, <2>1 DEF SkipStale, TypeOK
<1>4. CASE RestartRunner(r)
  <2>1. RollBack(r)
    BY <1>4 DEF RestartRunner
  <2> QED
    BY <1>4, <2>1, RollBackTypes DEF RestartRunner, TypeOK
<1> QED
  BY <1>1, <1>2, <1>3, <1>4 DEF ReconcileStep

\* An open transaction that ends without a commit keeps the types.
LEMMA AbortTypes ==
  ASSUME TypeInv, NEW s \in Sessions, Abort(s)
  PROVE  TypeOK'
<1>1. batch' \in [Reconcilers -> SUBSET Ids]
  BY ConsumeTypes DEF Abort, TypeInv, TypeOK
<1>2. RollBack(s)
  BY DEF Abort
<1> QED
  BY <1>1, <1>2, RollBackTypes DEF Abort, TypeInv, TypeOK

\* What happens outside the handlers keeps the types.
LEMMA OutsideTypes ==
  ASSUME TypeInv, OutsideStep
  PROVE  TypeOK'
<1> USE DEF TypeInv
<1>1. CASE Tick
  BY <1>1, TimeAssumption DEF Tick, TypeOK
<1>2. ASSUME NEW e \in Environments, NEW region \in Regions,
             CreateEnvironment(e, region) \/ UpdateEnvironment(e, region)
      PROVE  TypeOK'
  <2>1. environment' \in [Environments -> Environment]
    BY <1>2 DEF CreateEnvironment, UpdateEnvironment, TypeOK, Environment
  <2>2. Touch(EnvironmentDoc(e))
    BY <1>2 DEF CreateEnvironment, UpdateEnvironment
  <2> QED
    BY <1>2, <2>1, <2>2, TouchTypes
       DEF CreateEnvironment, UpdateEnvironment, TypeOK
<1>3. ASSUME NEW w \in Workers, MarkDisconnected(w)
      PROVE  TypeOK'
  <2>1. worker' \in [Workers -> WorkerNode]
    <3>1. worker[w] \in WorkerNode
      BY DEF TypeOK
    <3>2. [worker[w] EXCEPT !.status = "offline", !.schedulable = FALSE]
            \in WorkerNode
      BY <3>1 DEF WorkerNode
    <3>3. worker' = [worker EXCEPT ![w] =
            [worker[w] EXCEPT !.status = "offline", !.schedulable = FALSE]]
      BY <1>3, <3>1 DEF MarkDisconnected, TypeOK, WorkerNode
    <3> QED
      BY <3>2, <3>3 DEF TypeOK
  <2>2. Touch(WorkerDoc(w))
    BY <1>3 DEF MarkDisconnected
  <2> QED
    BY <1>3, <2>1, <2>2, TouchTypes DEF MarkDisconnected, TypeOK
<1>4. ASSUME NEW w \in Workers, NEW capacity \in Capacities,
             NEW health \in Healths, Heartbeat(w, health, capacity)
      PROVE  TypeOK'
  <2>1. /\ StatusOf(health) \in {"online", "draining"}
        /\ capacity \in [WorkerDims -> Nat]
        /\ now \in Nat
    BY ShapeAssumption, TimeAssumption DEF StatusOf, TypeOK
  <2>2. worker' \in [Workers -> WorkerNode]
    <3> DEFINE node == [worker[w] EXCEPT
                          !.status = StatusOf(health),
                          !.schedulable = (health = "ready"),
                          !.capacity = capacity,
                          !.lastHeartbeatAt = now]
    <3>1. node \in WorkerNode
      <4>1. worker[w] \in WorkerNode /\ (health = "ready") \in BOOLEAN
        BY DEF TypeOK
      <4> QED
        BY <2>1, <4>1 DEF WorkerNode
    <3>2. worker' = [worker EXCEPT ![w] = node]
      BY <1>4 DEF Heartbeat, TypeOK, WorkerNode
    <3> QED
      BY <3>1, <3>2 DEF TypeOK
  <2>3. Touch(WorkerDoc(w))
    BY <1>4 DEF Heartbeat
  <2> QED
    BY <1>4, <2>2, <2>3, TouchTypes DEF Heartbeat, TypeOK
<1>5. ASSUME NEW o \in Orgs, NEW active \in BOOLEAN, NEW limits \in Limits,
             ChangeEntitlement(o, active, limits)
      PROVE  TypeOK'
  <2>1. limits \in [QuotaKeys -> Nat]
    BY ShapeAssumption
  <2>2. entitlement' \in [Orgs -> Entitlement]
    <3>1. [entitlement[o] EXCEPT !.active = active, !.limits = limits] \in Entitlement
      <4>1. entitlement[o] \in Entitlement
        BY DEF TypeOK
      <4> QED
        BY <2>1, <4>1 DEF Entitlement
    <3>2. entitlement' = [entitlement EXCEPT ![o] =
            [entitlement[o] EXCEPT !.active = active, !.limits = limits]]
      BY <1>5 DEF ChangeEntitlement, TypeOK, Entitlement
    <3> QED
      BY <3>1, <3>2 DEF TypeOK
  <2>3. Touch(EntitlementDoc(o))
    BY <1>5 DEF ChangeEntitlement
  <2> QED
    BY <1>5, <2>2, <2>3, TouchTypes DEF ChangeEntitlement, TypeOK
<1> QED
  BY <1>1, <1>2, <1>3, <1>4, <1>5 DEF OutsideStep

\* Every step keeps the types.
LEMMA TypeStep ==
  ASSUME TypeInv, [Next]_vars
  PROVE  TypeOK'
<1>1. ASSUME NEW c \in Clients, SettleStep(c)
      PROVE  TypeOK'
  <2>1. ASSUME NEW i \in Ids, NEW reason \in {"requested", "failed"},
               BeginRelease(c, i, reason)
        PROVE  TypeOK'
    BY <2>1, OpenReleaseTypes DEF BeginRelease, Sessions
  <2> QED
    BY <1>1, <2>1, ConfirmTypes DEF SettleStep
<1>2. ASSUME NEW s \in Sessions, CommitRelease(s) \/ Abort(s)
      PROVE  TypeOK'
  BY <1>2, CommitReleaseTypes, AbortTypes
<1>3. CASE UNCHANGED vars
  BY <1>3 DEF TypeInv, TypeOK, vars
<1> QED
  BY <1>1, <1>2, <1>3, ReserveTypes, DeleteTypes, ReconcileTypes, OutsideTypes
     DEF Next
-----------------------------------------------------------------------------
(* The facts about open transactions survive every step.                   *)

Settles(tx) == tx.op \in {"confirm", "release"}

\* The transaction of s is over, or goes on undisturbed, or has just read
\* what it knows.
Undisturbed(s) ==
  \/ ~Settles(session'[s])
  \/ /\ session'[s] = session[s]
     /\ ~outdated'[s] =>
          ~outdated[s] /\ reservation'[session[s].id] = reservation[session[s].id]
  \/ /\ session'[s].op = "confirm"
     /\ session'[s].id \in Ids
     /\ reservation[session'[s].id].status = "reserved"
     /\ UNCHANGED reservation
  \/ /\ session'[s].op = "release"
     /\ session'[s].id \in Ids
     /\ Active(session'[s].id)
     /\ UNCHANGED reservation

\* What an open transaction knows survives a step that changes no
\* reservation it is about, unless the step outdates it.
LEMMA FactsSurvive ==
  ASSUME TypeInv,
         \A i \in Ids : Exists(i) => Exists(i)',
         \A s \in Sessions : Undisturbed(s)
  PROVE  SettlesExisting' /\ SnapshotHolds'
<1> DEFINE status(s) == reservation'[session'[s].id].status
<1>1. ASSUME NEW s \in Sessions, Settles(session'[s])
      PROVE  status(s) # "absent"
  <2>1. CASE session'[s] = session[s]
    <3>1. session[s].id \in Ids /\ Exists(session[s].id)
      BY <1>1, <2>1, SettleFacts DEF Settles
    <3> QED
      BY <2>1, <3>1 DEF Exists
  <2>2. CASE session'[s] # session[s]
    BY <1>1, <2>2 DEF Undisturbed, Exists, Active
  <2> QED
    BY <2>1, <2>2
<1>2. ASSUME NEW s \in Sessions, ~outdated'[s]
      PROVE  /\ session'[s].op = "confirm" => status(s) = "reserved"
             /\ session'[s].op = "release" => status(s) \in {"reserved", "confirmed"}
  <2>1. CASE /\ session'[s] = session[s]
             /\ ~outdated[s] /\ reservation'[session[s].id] = reservation[session[s].id]
    BY <2>1 DEF TypeInv, SnapshotHolds, Active
  <2>2. CASE ~(/\ session'[s] = session[s]
               /\ ~outdated[s] /\ reservation'[session[s].id] = reservation[session[s].id])
    BY <1>2, <2>2 DEF Undisturbed, Settles, Active
  <2> QED
    BY <2>1, <2>2
<1>3. SettlesExisting'
  BY <1>1 DEF SettlesExisting, Settles, Exists
<1>4. SnapshotHolds'
  BY <1>2 DEF SnapshotHolds, Active
<1> QED
  BY <1>3, <1>4

\* A step that changes no reservation and ends or keeps transactions.
LEMMA QuietStep ==
  ASSUME TypeInv, UNCHANGED reservation,
         \A s \in Sessions :
           \/ session'[s] = Idle
           \/ session'[s] = session[s] /\ (~outdated'[s] => ~outdated[s])
  PROVE  SettlesExisting' /\ SnapshotHolds'
<1>1. \A i \in Ids : Exists(i) => Exists(i)'
  BY DEF Exists
<1>2. \A s \in Sessions : Undisturbed(s)
  BY DEF Undisturbed, Settles, Idle
<1> QED
  BY <1>1, <1>2, FactsSurvive

\* A transaction that just read an existing reservation knows it.
LEMMA OpenStep ==
  ASSUME TypeInv, UNCHANGED reservation, NEW x \in Sessions, NEW tx, Open(x, tx),
         \/ ~Settles(tx)
         \/ /\ tx.op = "confirm" /\ tx.id \in Ids
            /\ reservation[tx.id].status = "reserved"
         \/ /\ tx.op = "release" /\ tx.id \in Ids
            /\ Active(tx.id)
  PROVE  SettlesExisting' /\ SnapshotHolds'
<1>1. \A i \in Ids : Exists(i) => Exists(i)'
  BY DEF Exists
<1>2. ASSUME NEW s \in Sessions
      PROVE  Undisturbed(s)
  <2>1. CASE s = x
    <3>1. session'[s] = tx
      BY <2>1 DEF Open, TypeInv, TypeOK
    <3> QED
      BY <3>1 DEF Undisturbed
  <2>2. CASE s # x
    <3>1. session'[s] = session[s] /\ outdated'[s] = outdated[s]
      BY <2>2 DEF Open, TypeInv, TypeOK
    <3> QED
      BY <3>1 DEF Undisturbed
  <2> QED
    BY <2>1, <2>2
<1> QED
  BY <1>1, <1>2, FactsSurvive

\* A commit that changes at most reservation i, which it wrote or made.
LEMMA CommitStep ==
  ASSUME TypeInv, NEW x \in Sessions, Commit(x), NEW i \in Ids,
         reservation' \in [Ids -> Reservation \cup {Absent}],
         \A j \in Ids \ {i} : reservation'[j] = reservation[j],
         Exists(i) => Exists(i)',
         ~Exists(i) \/ ReservationDoc(i) \in Writes(session[x])
  PROVE  SettlesExisting' /\ SnapshotHolds'
<1>1. \A j \in Ids : Exists(j) => Exists(j)'
  BY DEF Exists
<1>2. ASSUME NEW s \in Sessions
      PROVE  Undisturbed(s)
  <2>1. CASE s = x
    BY <2>1 DEF Undisturbed, Commit, Settles, Idle, TypeInv, TypeOK
  <2>2. CASE s # x /\ Settles(session[s])
    <3>1. session'[s] = session[s]
      BY <2>2 DEF Commit, TypeInv, TypeOK
    <3>2. session[s].id \in Ids /\ Exists(session[s].id)
      BY <2>2, SettleFacts DEF Settles
    <3>3. ReservationDoc(session[s].id) \in Writes(session[s])
      BY <2>2 DEF Writes, Settles, SettleWrites
    <3>4. ASSUME ~outdated'[s]
          PROVE  ~outdated[s] /\ session[s].id # i
      <4>1. outdated'[s] = (s \in Sessions \ {x} /\
              (outdated[s] \/ Writes(session[s]) \cap Writes(session[x]) # {}))
        BY DEF Commit, Outdate
      <4>2. ~outdated[s] /\ Writes(session[s]) \cap Writes(session[x]) = {}
        BY <2>2, <3>4, <4>1
      <4> QED
        BY <3>2, <3>3, <4>2
    <3> QED
      BY <3>1, <3>2, <3>4 DEF Undisturbed
  <2>3. CASE s # x /\ ~Settles(session[s])
    BY <2>3 DEF Undisturbed, Commit, TypeInv, TypeOK
  <2> QED
    BY <2>1, <2>2, <2>3
<1> QED
  BY <1>1, <1>2, FactsSurvive

\* A commit that changes no reservation keeps what the others know.
LEMMA QuietCommit ==
  ASSUME TypeInv, NEW x \in Sessions, Commit(x), UNCHANGED reservation
  PROVE  SettlesExisting' /\ SnapshotHolds'
BY QuietStep DEF Commit, Outdate, TypeInv, TypeOK

\* A rollback changes no reservation at all.
LEMMA QuietRollBack ==
  ASSUME TypeInv, NEW x \in Sessions, RollBack(x), UNCHANGED reservation
  PROVE  SettlesExisting' /\ SnapshotHolds'
BY QuietStep DEF RollBack, TypeInv, TypeOK

\* confirmResourceReservation reads a reserved reservation.
LEMMA ConfirmTransactions ==
  ASSUME TypeInv, TypeOK', NEW c \in Clients,
         (\E i \in Ids : BeginConfirm(c, i)) \/ CommitConfirm(c)
  PROVE  SettlesExisting' /\ SnapshotHolds'
<1>1. ASSUME NEW i \in Ids, BeginConfirm(c, i)
      PROVE  SettlesExisting' /\ SnapshotHolds'
  <2> DEFINE tx == [op |-> "confirm", id |-> i]
  <2>1. /\ Open(c, tx) /\ UNCHANGED reservation /\ c \in Sessions
        /\ reservation[tx.id].status = "reserved"
    BY <1>1 DEF BeginConfirm, Confirmable, Sessions
  <2> QED
    BY <2>1, OpenStep
<1>2. CASE CommitConfirm(c)
  <2>0. c \in Sessions
    BY DEF Sessions
  <2>1. PICK i \in Ids : i = session[c].id /\ Exists(i)
    BY ZenonT(30), <1>2, <2>0, SettleFacts DEF CommitConfirm
  <2>2. /\ Commit(c)
        /\ reservation' = [reservation EXCEPT ![i].status = "confirmed"]
    BY ZenonT(30), <1>2, <2>1 DEF CommitConfirm
  <2>3. \A j \in Ids \ {i} : reservation'[j] = reservation[j]
    BY <2>2 DEF TypeInv, TypeOK
  <2>4. Exists(i)'
    <3>1. reservation'[i] = [reservation[i] EXCEPT !.status = "confirmed"]
      BY <2>1, <2>2 DEF TypeInv, TypeOK
    <3>2. reservation[i] \in Reservation
      BY <2>1, ReservationFacts DEF TypeInv
    <3>3. reservation'[i].status = "confirmed"
      BY <3>1, <3>2 DEF Reservation
    <3> QED
      BY <3>3 DEF Exists
  <2>5. ReservationDoc(i) \in Writes(session[c])
    BY ZenonT(30), <1>2, <2>1 DEF CommitConfirm, Writes, SettleWrites
  <2>6. reservation' \in [Ids -> Reservation \cup {Absent}]
    BY DEF TypeOK
  <2> QED
    BY <2>0, <2>1, <2>2, <2>3, <2>4, <2>5, <2>6, CommitStep
<1> QED
  BY <1>1, <1>2

\* reserveResource makes a reservation nobody else knows yet.
LEMMA ReserveTransactions ==
  ASSUME TypeInv, TypeOK', NEW c \in Clients, ReserveStep(c)
  PROVE  SettlesExisting' /\ SnapshotHolds'
<1>0. c \in Sessions
  BY DEF Sessions
<1>1. ASSUME NEW key \in Keys, NEW body \in Bodies, ReplayReserve(c, key, body)
      PROVE  SettlesExisting' /\ SnapshotHolds'
  BY <1>1, QuietStep DEF ReplayReserve
<1>2. ASSUME NEW key \in Keys, NEW body \in Bodies, BeginReserve(c, key, body)
      PROVE  SettlesExisting' /\ SnapshotHolds'
  <2>1. PICK w \in WorkerCandidates(body) :
          Open(c, [op |-> "reserve", key |-> key, body |-> body,
                   worker |-> w, at |-> now])
    BY <1>2 DEF BeginReserve
  <2> DEFINE tx == [op |-> "reserve", key |-> key, body |-> body,
                    worker |-> w, at |-> now]
  <2>2. ~Settles(tx)
    BY DEF Settles
  <2>3. UNCHANGED reservation
    BY <1>2 DEF BeginReserve
  <2> QED
    BY <1>0, <2>1, <2>2, <2>3, OpenStep
<1>3. CASE CommitReserve(c)
  <2>1. PICK i \in Ids :
          /\ ~Exists(i)
          /\ \E doc : reservation' = [reservation EXCEPT ![i] = doc]
    BY <1>3 DEF CommitReserve
  <2>2. \A j \in Ids \ {i} : reservation'[j] = reservation[j]
    BY <2>1 DEF TypeInv, TypeOK
  <2>3. Commit(c) /\ reservation' \in [Ids -> Reservation \cup {Absent}]
    BY <1>3 DEF CommitReserve, TypeOK
  <2> QED
    BY <1>0, <2>1, <2>2, <2>3, CommitStep
<1>4. CASE DuplicateReserve(c)
  <2>1. RollBack(c) /\ UNCHANGED reservation
    BY <1>4 DEF DuplicateReserve
  <2> QED
    BY <1>0, <2>1, QuietStep DEF RollBack, TypeInv, TypeOK
<1> QED
  BY <1>1, <1>2, <1>3, <1>4 DEF ReserveStep

\* A release reads an active reservation.
LEMMA OpenReleaseTransactions ==
  ASSUME TypeInv, NEW s \in Sessions, NEW i \in Ids, NEW reason,
         OpenRelease(s, i, reason)
  PROVE  SettlesExisting' /\ SnapshotHolds'
<1> DEFINE tx == [op |-> "release", id |-> i, reason |-> reason]
<1>1. Open(s, tx) /\ UNCHANGED reservation /\ Active(tx.id)
  BY DEF OpenRelease, Releasable
<1> QED
  BY <1>1, OpenStep

\* Committing a release outdates every other transaction on its reservation.
LEMMA CommitReleaseTransactions ==
  ASSUME TypeInv, TypeOK', NEW s \in Sessions, CommitRelease(s)
  PROVE  SettlesExisting' /\ SnapshotHolds'
<1>1. PICK i \in Ids : i = session[s].id /\ Exists(i)
  BY SettleFacts DEF CommitRelease
<1>2. /\ Commit(s)
      /\ reservation' = [reservation EXCEPT ![i].status = "released",
                                            ![i].reason = session[s].reason]
  BY <1>1 DEF CommitRelease
<1>3. \A j \in Ids \ {i} : reservation'[j] = reservation[j]
  BY <1>2 DEF TypeInv, TypeOK
<1>4. Exists(i)'
  <2>1. reservation'[i] = [reservation[i] EXCEPT !.status = "released",
                                                 !.reason = session[s].reason]
    BY <1>1, <1>2 DEF TypeInv, TypeOK
  <2>2. reservation[i] \in Reservation
    BY <1>1, ReservationFacts DEF TypeInv
  <2>3. reservation'[i].status = "released"
    BY <2>1, <2>2 DEF Reservation
  <2> QED
    BY <2>3 DEF Exists
<1>5. ReservationDoc(i) \in Writes(session[s])
  BY <1>1 DEF CommitRelease, Writes, SettleWrites
<1>6. reservation' \in [Ids -> Reservation \cup {Absent}]
  BY DEF TypeOK
<1> QED
  BY <1>1, <1>2, <1>3, <1>4, <1>5, <1>6, CommitStep

\* The facts about open transactions survive every step of the system.
LEMMA TransactionStep ==
  ASSUME TypeInv, TypeOK', [Next]_vars
  PROVE  SettlesExisting' /\ SnapshotHolds'
<1>1. ASSUME NEW c \in Clients, SettleStep(c)
      PROVE  SettlesExisting' /\ SnapshotHolds'
  <2>1. ASSUME NEW i \in Ids, NEW reason \in {"requested", "failed"},
               BeginRelease(c, i, reason)
        PROVE  SettlesExisting' /\ SnapshotHolds'
    BY <2>1, OpenReleaseTransactions DEF BeginRelease, Sessions
  <2> QED
    BY <1>1, <2>1, ConfirmTransactions DEF SettleStep
<1>2. ASSUME NEW c \in Clients, DeleteStep(c)
      PROVE  SettlesExisting' /\ SnapshotHolds'
  <2>0. c \in Sessions
    BY DEF Sessions
  <2>1. ASSUME NEW e \in Environments, BeginDeleteEnvironment(c, e)
        PROVE  SettlesExisting' /\ SnapshotHolds'
    <3>1. /\ Open(c, [op |-> "delete", env |-> e]) /\ UNCHANGED reservation
          /\ ~Settles([op |-> "delete", env |-> e])
      BY <2>1 DEF BeginDeleteEnvironment, Settles
    <3> QED
      BY <2>0, <3>1, OpenStep
  <2>2. CASE CommitDeleteEnvironment(c)
    BY <2>0, <2>2, QuietCommit DEF CommitDeleteEnvironment
  <2> QED
    BY <1>2, <2>1, <2>2 DEF DeleteStep
<1>3. ASSUME NEW r \in Reconcilers, ReconcileStep(r)
      PROVE  SettlesExisting' /\ SnapshotHolds'
  <2>0. r \in Sessions
    BY DEF Sessions
  <2>1. ASSUME NEW i \in Ids, BeginStaleRelease(r, i)
        PROVE  SettlesExisting' /\ SnapshotHolds'
    BY <2>0, <2>1, OpenReleaseTransactions DEF BeginStaleRelease
  <2>2. ASSUME NEW i \in Ids, ListStale(r) \/ SkipStale(r, i)
        PROVE  SettlesExisting' /\ SnapshotHolds'
    BY <2>2, QuietStep DEF ListStale, SkipStale
  <2>3. CASE ListStale(r)
    BY <2>3, QuietStep DEF ListStale
  <2>4. CASE RestartRunner(r)
    BY <2>0, <2>4, QuietRollBack DEF RestartRunner
  <2> QED
    BY <1>3, <2>1, <2>2, <2>3, <2>4 DEF ReconcileStep
<1>4. ASSUME NEW s \in Sessions, CommitRelease(s) \/ Abort(s)
      PROVE  SettlesExisting' /\ SnapshotHolds'
  BY <1>4, CommitReleaseTransactions, QuietRollBack DEF Abort
<1>5. CASE OutsideStep
  <2>1. UNCHANGED reservation /\ ((\E doc : Touch(doc)) \/ UNCHANGED <<session, outdated>>)
    BY ZenonT(30), <1>5 DEF OutsideStep, Tick, CreateEnvironment, UpdateEnvironment,
                MarkDisconnected, Heartbeat, ChangeEntitlement
  <2> QED
    BY ZenonT(30), <2>1, QuietStep DEF Touch, Outdate
<1>6. CASE UNCHANGED vars
  BY <1>6, QuietStep DEF vars
<1> QED
  BY <1>1, <1>2, <1>3, <1>4, <1>5, <1>6, ReserveTransactions DEF Next

\* The inductive invariant behind TypeCorrect is kept by every step.
LEMMA TypeInvStep == TypeInv /\ [Next]_vars => TypeInv'
BY TypeStep, TransactionStep DEF TypeInv

\* Whatever the tenants, the workers, the limits and the requests are, every
\* document keeps the shape the handlers rely on, and a confirm or release
\* transaction is always about a reservation that was made.
THEOREM TypeCorrect == Spec => []TypeOK
<1>1. TypeInv => TypeOK
  BY DEF TypeInv
<1> QED
  BY InitTypes, TypeInvStep, <1>1, PTL DEF Spec
-----------------------------------------------------------------------------
(* The counters are sums.                                                  *)

\* What reservation i holds of quantity k in the given counter of an
\* organization, and of a worker.
QuotaHeld(i, o, k, status) ==
  IF i \in OrgHolds(o, status) THEN QuotaWeight(k)[i] ELSE 0
NeedsHeld(i, w, k, status) ==
  IF i \in WorkerHolds(w, status) THEN WorkerWeight(k)[i] ELSE 0

QuotaTotal(o, k, status) == Total(OrgHolds(o, status), QuotaWeight(k), MaxAmount)
NeedsTotal(w, k, status) == Total(WorkerHolds(w, status), WorkerWeight(k), MaxAmount)

\* Every weight is a natural number within the bound.
WeightsBounded ==
  \A i \in Ids : /\ \A k \in QuotaKeys : QuotaWeight(k)[i] \in 0 .. MaxAmount
                 /\ \A k \in WorkerDims : WorkerWeight(k)[i] \in 0 .. MaxAmount

\* Well-formed reservations weigh bounded natural numbers.
LEMMA WeightTypes == TypeOK => WeightsBounded
<1> SUFFICES ASSUME TypeOK, NEW i \in Ids
             PROVE  /\ \A k \in QuotaKeys : QuotaWeight(k)[i] \in 0 .. MaxAmount
                    /\ \A k \in WorkerDims : WorkerWeight(k)[i] \in 0 .. MaxAmount
  BY DEF WeightsBounded
<1>1. 0 \in 0 .. MaxAmount
  BY FiniteAssumption
<1>2. CASE Exists(i)
  BY <1>2, ReservationFacts DEF QuotaWeight, WorkerWeight
<1>3. CASE ~Exists(i)
  BY <1>1, <1>3 DEF QuotaWeight, WorkerWeight
<1> QED
  BY <1>2, <1>3

\* The same after a step.
LEMMA WeightTypesAfter == TypeOK' => WeightsBounded'
BY WeightTypes, PTL

\* A step that changes only reservation i moves the totals by what i held and
\* by what it holds.
LEMMA QuotaTotalChange ==
  ASSUME TypeOK, TypeOK', NEW i \in Ids,
         \A j \in Ids \ {i} : reservation'[j] = reservation[j],
         NEW o \in Orgs, NEW k \in QuotaKeys, NEW status
  PROVE  QuotaTotal(o, k, status)' = QuotaTotal(o, k, status)
           - QuotaHeld(i, o, k, status) + QuotaHeld(i, o, k, status)'
<1> DEFINE S == OrgHolds(o, status)
           T == OrgHolds(o, status)'
           before == QuotaWeight(k)
           after  == QuotaWeight(k)'
<1>1. IsFiniteSet(S) /\ IsFiniteSet(T)
  BY FiniteAssumption, FS_Subset DEF OrgHolds
<1>2. S \ {i} = T \ {i}
  BY DEF OrgHolds, OrgOfReservation
<1>3. before[i] \in 0 .. MaxAmount
  BY WeightTypes DEF WeightsBounded
<1>4. after[i] \in 0 .. MaxAmount
  BY WeightTypesAfter DEF WeightsBounded
<1>5. \A j \in S \ {i} : before[j] = after[j]
  BY DEF OrgHolds, QuotaWeight, Exists
<1>6. MaxAmount \in Nat
  BY FiniteAssumption
<1>7. Total(T, after, MaxAmount) = Total(S, before, MaxAmount)
        - (IF i \in S THEN before[i] ELSE 0) + (IF i \in T THEN after[i] ELSE 0)
  <2> HIDE DEF S, T, before, after
  <2> QED
    BY <1>1, <1>2, <1>3, <1>4, <1>5, <1>6, TotalChange
<1> QED
  BY <1>7 DEF QuotaTotal, QuotaHeld

\* The same for a worker's totals.
LEMMA NeedsTotalChange ==
  ASSUME TypeOK, TypeOK', NEW i \in Ids,
         \A j \in Ids \ {i} : reservation'[j] = reservation[j],
         NEW w \in Workers, NEW k \in WorkerDims, NEW status
  PROVE  NeedsTotal(w, k, status)' = NeedsTotal(w, k, status)
           - NeedsHeld(i, w, k, status) + NeedsHeld(i, w, k, status)'
<1> DEFINE S == WorkerHolds(w, status)
           T == WorkerHolds(w, status)'
           before == WorkerWeight(k)
           after  == WorkerWeight(k)'
<1>1. IsFiniteSet(S) /\ IsFiniteSet(T)
  BY FiniteAssumption, FS_Subset DEF WorkerHolds
<1>2. S \ {i} = T \ {i}
  BY DEF WorkerHolds
<1>3. before[i] \in 0 .. MaxAmount
  BY WeightTypes DEF WeightsBounded
<1>4. after[i] \in 0 .. MaxAmount
  BY WeightTypesAfter DEF WeightsBounded
<1>5. \A j \in S \ {i} : before[j] = after[j]
  BY DEF WorkerHolds, WorkerWeight, Exists
<1>6. MaxAmount \in Nat
  BY FiniteAssumption
<1>7. Total(T, after, MaxAmount) = Total(S, before, MaxAmount)
        - (IF i \in S THEN before[i] ELSE 0) + (IF i \in T THEN after[i] ELSE 0)
  <2> HIDE DEF S, T, before, after
  <2> QED
    BY <1>1, <1>2, <1>3, <1>4, <1>5, <1>6, TotalChange
<1> QED
  BY <1>7 DEF NeedsTotal, NeedsHeld

\* A step that changes no reservation and no counter keeps the sums.
LEMMA SameTotals ==
  ASSUME CountersMatchReservations, UNCHANGED reservation,
         \A o \in Orgs : /\ entitlement'[o].reserved  = entitlement[o].reserved
                         /\ entitlement'[o].allocated = entitlement[o].allocated,
         \A w \in Workers : /\ worker'[w].reserved  = worker[w].reserved
                            /\ worker'[w].allocated = worker[w].allocated
  PROVE  CountersMatchReservations'
<1>1. \A o \in Orgs : \A status : OrgHolds(o, status)' = OrgHolds(o, status)
  BY DEF OrgHolds, OrgOfReservation
<1>2. \A w \in Workers : \A status : WorkerHolds(w, status)' = WorkerHolds(w, status)
  BY DEF WorkerHolds
<1>3. \A k \in QuotaKeys : QuotaWeight(k)' = QuotaWeight(k)
  BY DEF QuotaWeight, Exists
<1>4. \A k \in WorkerDims : WorkerWeight(k)' = WorkerWeight(k)
  BY DEF WorkerWeight, Exists
<1>5. EntitlementCountersMatch'
  BY <1>1, <1>3 DEF CountersMatchReservations, EntitlementCountersMatch
<1>6. WorkerCountersMatch'
  BY <1>2, <1>4 DEF CountersMatchReservations, WorkerCountersMatch
<1> QED
  BY <1>5, <1>6 DEF CountersMatchReservations

\* A step that changes reservation i and the counters accordingly keeps the sums.
LEMMA MovedTotals ==
  ASSUME TypeOK, TypeOK', CountersMatchReservations, NEW i \in Ids,
         \A j \in Ids \ {i} : reservation'[j] = reservation[j],
         \A o \in Orgs, k \in QuotaKeys :
           /\ entitlement'[o].reserved[k] = entitlement[o].reserved[k]
                - QuotaHeld(i, o, k, "reserved") + QuotaHeld(i, o, k, "reserved")'
           /\ entitlement'[o].allocated[k] = entitlement[o].allocated[k]
                - QuotaHeld(i, o, k, "confirmed") + QuotaHeld(i, o, k, "confirmed")',
         \A w \in Workers, k \in WorkerDims :
           /\ worker'[w].reserved[k] = worker[w].reserved[k]
                - NeedsHeld(i, w, k, "reserved") + NeedsHeld(i, w, k, "reserved")'
           /\ worker'[w].allocated[k] = worker[w].allocated[k]
                - NeedsHeld(i, w, k, "confirmed") + NeedsHeld(i, w, k, "confirmed")'
  PROVE  CountersMatchReservations'
<1>1. ASSUME NEW o \in Orgs, NEW k \in QuotaKeys
      PROVE  /\ entitlement'[o].reserved[k] = QuotaTotal(o, k, "reserved")'
             /\ entitlement'[o].allocated[k] = QuotaTotal(o, k, "confirmed")'
  <2>1. /\ entitlement[o].reserved[k] = QuotaTotal(o, k, "reserved")
        /\ entitlement[o].allocated[k] = QuotaTotal(o, k, "confirmed")
    BY DEF CountersMatchReservations, EntitlementCountersMatch, QuotaTotal
  <2> QED
    BY <2>1, QuotaTotalChange
<1>2. ASSUME NEW w \in Workers, NEW k \in WorkerDims
      PROVE  /\ worker'[w].reserved[k] = NeedsTotal(w, k, "reserved")'
             /\ worker'[w].allocated[k] = NeedsTotal(w, k, "confirmed")'
  <2>1. /\ worker[w].reserved[k] = NeedsTotal(w, k, "reserved")
        /\ worker[w].allocated[k] = NeedsTotal(w, k, "confirmed")
    BY DEF CountersMatchReservations, WorkerCountersMatch, NeedsTotal
  <2> QED
    BY <2>1, NeedsTotalChange
<1>3. EntitlementCountersMatch'
  BY <1>1 DEF EntitlementCountersMatch, QuotaTotal
<1>4. WorkerCountersMatch'
  BY <1>2 DEF WorkerCountersMatch, NeedsTotal
<1> QED
  BY <1>3, <1>4 DEF CountersMatchReservations

\* What reservation i holds, written out.
LEMMA HeldBefore ==
  ASSUME NEW i \in Ids
  PROVE  /\ \A o \in Orgs, k \in QuotaKeys, st \in {"reserved", "confirmed"} :
              QuotaHeld(i, o, k, st) =
                IF reservation[i].status = st /\ OrgOfReservation(i) = o
                THEN ReservationQuotaDelta(reservation[i].body)[k] ELSE 0
         /\ \A w \in Workers, k \in WorkerDims, st \in {"reserved", "confirmed"} :
              NeedsHeld(i, w, k, st) =
                IF reservation[i].status = st /\ reservation[i].worker = w
                THEN ToWorkerResources(reservation[i].body)[k] ELSE 0
BY DEF QuotaHeld, NeedsHeld, OrgHolds, WorkerHolds, QuotaWeight, WorkerWeight, Exists

\* The same after a step.
LEMMA HeldAfter ==
  ASSUME NEW i \in Ids
  PROVE  /\ \A o \in Orgs, k \in QuotaKeys, st \in {"reserved", "confirmed"} :
              QuotaHeld(i, o, k, st)' =
                IF reservation'[i].status = st /\ OrgOf[reservation'[i].body.env] = o
                THEN ReservationQuotaDelta(reservation'[i].body)[k] ELSE 0
         /\ \A w \in Workers, k \in WorkerDims, st \in {"reserved", "confirmed"} :
              NeedsHeld(i, w, k, st)' =
                IF reservation'[i].status = st /\ reservation'[i].worker = w
                THEN ToWorkerResources(reservation'[i].body)[k] ELSE 0
BY DEF QuotaHeld, NeedsHeld, OrgHolds, WorkerHolds, QuotaWeight, WorkerWeight,
       Exists, OrgOfReservation

CounterInv == TypeInv /\ CountersMatchReservations

\* A reserve adds what its new reservation holds.
LEMMA ReserveTotals ==
  ASSUME CounterInv, TypeOK', NEW c \in Clients, CommitReserve(c)
  PROVE  CountersMatchReservations'
<1> USE DEF CounterInv, TypeInv
<1> DEFINE tx    == session[c]
           o     == OrgOf[tx.body.env]
           quota == ReservationQuotaDelta(tx.body)
           needs == ToWorkerResources(tx.body)
<1>1. PICK i \in Ids :
        /\ ~Exists(i)
        /\ reservation' = [reservation EXCEPT ![i] =
             [status |-> "reserved", key |-> tx.key, body |-> tx.body,
              worker |-> tx.worker, expiresAt |-> tx.at + Ttl,
              reason |-> "none"]]
  BY DEF CommitReserve
<1>2. /\ tx.body \in Bodies /\ tx.worker \in Workers /\ o \in Orgs
      /\ quota \in [QuotaKeys -> 0 .. MaxAmount]
      /\ needs \in [WorkerDims -> 0 .. MaxAmount]
  <2>1. tx \in [op: {"reserve"}, key: Keys, body: Bodies, worker: Workers, at: Nat]
    BY DEF TypeOK, CommitReserve, Transaction, Idle, Sessions
  <2> QED
    BY <2>1, DeltaTypes
<1>3. /\ \A j \in Ids \ {i} : reservation'[j] = reservation[j]
      /\ reservation'[i].status = "reserved"
      /\ reservation'[i].body = tx.body /\ reservation'[i].worker = tx.worker
  BY <1>1 DEF TypeOK
<1>4. reservation[i].status = "absent"
  BY <1>1 DEF Exists
<1>5. ASSUME NEW org \in Orgs, NEW k \in QuotaKeys
      PROVE  /\ entitlement'[org].reserved[k] = entitlement[org].reserved[k]
                  - QuotaHeld(i, org, k, "reserved") + QuotaHeld(i, org, k, "reserved")'
             /\ entitlement'[org].allocated[k] = entitlement[org].allocated[k]
                  - QuotaHeld(i, org, k, "confirmed") + QuotaHeld(i, org, k, "confirmed")'
  <2>1. /\ entitlement[org].reserved \in [QuotaKeys -> Int]
        /\ entitlement[org].allocated \in [QuotaKeys -> Int]
        /\ entitlement[org] \in Entitlement
    BY DEF TypeOK, Entitlement
  <2>2. /\ QuotaHeld(i, org, k, "reserved") = 0
        /\ QuotaHeld(i, org, k, "confirmed") = 0
    BY <1>4, HeldBefore
  <2>3. /\ QuotaHeld(i, org, k, "reserved")' = IF o = org THEN quota[k] ELSE 0
        /\ QuotaHeld(i, org, k, "confirmed")' = 0
    BY <1>3, HeldAfter
  <2>4. entitlement'[org] = IF o = org
          THEN [entitlement[org] EXCEPT !.reserved = Plus(@, quota)]
          ELSE entitlement[org]
    BY <1>2 DEF CommitReserve, TypeOK
  <2>5. CASE o = org
    <3>1. /\ entitlement'[org].reserved = Plus(entitlement[org].reserved, quota)
          /\ entitlement'[org].allocated = entitlement[org].allocated
      BY <2>1, <2>4, <2>5 DEF Entitlement
    <3>2. entitlement'[org].reserved[k] = entitlement[org].reserved[k] + quota[k]
      BY <1>2, <2>1, <3>1, CounterTypes
    <3>3. quota[k] \in Int /\ entitlement[org].reserved[k] \in Int
          /\ entitlement[org].allocated[k] \in Int
      BY <1>2, <2>1
    <3> QED
      BY <2>2, <2>3, <2>5, <3>1, <3>2, <3>3
  <2>6. CASE o # org
    <3>1. entitlement[org].reserved[k] \in Int /\ entitlement[org].allocated[k] \in Int
      BY <2>1
    <3> QED
      BY <2>2, <2>3, <2>4, <2>6, <3>1
  <2> QED
    BY <2>5, <2>6
<1>6. ASSUME NEW w \in Workers, NEW k \in WorkerDims
      PROVE  /\ worker'[w].reserved[k] = worker[w].reserved[k]
                  - NeedsHeld(i, w, k, "reserved") + NeedsHeld(i, w, k, "reserved")'
             /\ worker'[w].allocated[k] = worker[w].allocated[k]
                  - NeedsHeld(i, w, k, "confirmed") + NeedsHeld(i, w, k, "confirmed")'
  <2>1. /\ worker[w].reserved \in [WorkerDims -> Int]
        /\ worker[w].allocated \in [WorkerDims -> Int]
        /\ worker[w] \in WorkerNode
    BY DEF TypeOK, WorkerNode
  <2>2. /\ NeedsHeld(i, w, k, "reserved") = 0
        /\ NeedsHeld(i, w, k, "confirmed") = 0
    BY <1>4, HeldBefore
  <2>3. /\ NeedsHeld(i, w, k, "reserved")' = IF tx.worker = w THEN needs[k] ELSE 0
        /\ NeedsHeld(i, w, k, "confirmed")' = 0
    BY <1>3, HeldAfter
  <2>4. worker'[w] = IF tx.worker = w
          THEN [worker[w] EXCEPT !.reserved = Plus(@, needs)]
          ELSE worker[w]
    BY <1>2 DEF CommitReserve, TypeOK
  <2>5. CASE tx.worker = w
    <3>1. /\ worker'[w].reserved = Plus(worker[w].reserved, needs)
          /\ worker'[w].allocated = worker[w].allocated
      BY <2>1, <2>4, <2>5 DEF WorkerNode
    <3>2. worker'[w].reserved[k] = worker[w].reserved[k] + needs[k]
      BY <1>2, <2>1, <3>1, CounterTypes
    <3>3. needs[k] \in Int /\ worker[w].reserved[k] \in Int
          /\ worker[w].allocated[k] \in Int
      BY <1>2, <2>1
    <3> QED
      BY <2>2, <2>3, <2>5, <3>1, <3>2, <3>3
  <2>6. CASE tx.worker # w
    <3>1. worker[w].reserved[k] \in Int /\ worker[w].allocated[k] \in Int
      BY <2>1
    <3> QED
      BY <2>2, <2>3, <2>4, <2>6, <3>1
  <2> QED
    BY <2>5, <2>6
<1> QED
  BY <1>3, <1>5, <1>6, MovedTotals

\* A confirmation moves what its reservation holds from reserved to allocated.
LEMMA ConfirmTotals ==
  ASSUME CounterInv, TypeOK', NEW c \in Clients, CommitConfirm(c)
  PROVE  CountersMatchReservations'
<1> USE DEF CounterInv, TypeInv
<1>0. c \in Sessions
  BY DEF Sessions
<1>1. PICK i \in Ids : i = session[c].id /\ Exists(i) /\ reservation[i].status = "reserved"
  BY ZenonT(30), <1>0, SettleFacts DEF CommitConfirm, Commit, NoWriteConflict, SnapshotHolds
<1> DEFINE r     == reservation[i]
           o     == OrgOfReservation(i)
           quota == ReservationQuotaDelta(r.body)
           needs == ToWorkerResources(r.body)
<1>2. /\ r \in Reservation /\ r.worker \in Workers /\ o \in Orgs
      /\ quota \in [QuotaKeys -> 0 .. MaxAmount]
      /\ needs \in [WorkerDims -> 0 .. MaxAmount]
  BY <1>1, ReservationFacts
<1>3. /\ \A j \in Ids \ {i} : reservation'[j] = reservation[j]
      /\ reservation'[i].status = "confirmed"
      /\ reservation'[i].body = r.body /\ reservation'[i].worker = r.worker
  <2>1. /\ reservation' = [reservation EXCEPT ![i].status = "confirmed"]
        /\ DOMAIN reservation = Ids
    BY ZenonT(30), <1>1 DEF CommitConfirm, TypeOK
  <2>2. reservation'[i] = [r EXCEPT !.status = "confirmed"]
    BY <2>1
  <2> QED
    BY <1>2, <2>1, <2>2 DEF Reservation
<1>4. ASSUME NEW org \in Orgs, NEW k \in QuotaKeys
      PROVE  /\ entitlement'[org].reserved[k] = entitlement[org].reserved[k]
                  - QuotaHeld(i, org, k, "reserved") + QuotaHeld(i, org, k, "reserved")'
             /\ entitlement'[org].allocated[k] = entitlement[org].allocated[k]
                  - QuotaHeld(i, org, k, "confirmed") + QuotaHeld(i, org, k, "confirmed")'
  <2>1. /\ entitlement[org].reserved \in [QuotaKeys -> Int]
        /\ entitlement[org].allocated \in [QuotaKeys -> Int]
        /\ entitlement[org] \in Entitlement
    BY DEF TypeOK, Entitlement
  <2>2. /\ QuotaHeld(i, org, k, "reserved") = IF o = org THEN quota[k] ELSE 0
        /\ QuotaHeld(i, org, k, "confirmed") = 0
    BY <1>1, HeldBefore
  <2>3. /\ QuotaHeld(i, org, k, "reserved")' = 0
        /\ QuotaHeld(i, org, k, "confirmed")' = IF o = org THEN quota[k] ELSE 0
    BY <1>3, HeldAfter DEF OrgOfReservation
  <2>4. entitlement'[org] = IF o = org
          THEN [entitlement[org] EXCEPT !.reserved  = Minus(@, quota),
                                        !.allocated = Plus(@, quota)]
          ELSE entitlement[org]
    <3>1. entitlement[o] \in Entitlement
      BY <1>2 DEF TypeOK
    <3>2. entitlement' = [entitlement EXCEPT ![o].reserved  = Minus(@, quota),
                                             ![o].allocated = Plus(@, quota)]
      BY ZenonT(30), <1>1 DEF CommitConfirm
    <3> QED
      BY ZenonT(30), <1>2, <3>1, <3>2 DEF TypeOK, Entitlement
  <2>5. CASE o = org
    <3>1. /\ entitlement'[org].reserved = Minus(entitlement[org].reserved, quota)
          /\ entitlement'[org].allocated = Plus(entitlement[org].allocated, quota)
      BY <2>1, <2>4, <2>5 DEF Entitlement
    <3>2. /\ entitlement'[org].reserved[k] = entitlement[org].reserved[k] - quota[k]
          /\ entitlement'[org].allocated[k] = entitlement[org].allocated[k] + quota[k]
      BY <1>2, <2>1, <3>1, CounterTypes
    <3>3. quota[k] \in Int /\ entitlement[org].reserved[k] \in Int
          /\ entitlement[org].allocated[k] \in Int
      BY <1>2, <2>1
    <3> QED
      BY <2>2, <2>3, <2>5, <3>2, <3>3
  <2>6. CASE o # org
    <3>1. entitlement[org].reserved[k] \in Int /\ entitlement[org].allocated[k] \in Int
      BY <2>1
    <3> QED
      BY <2>2, <2>3, <2>4, <2>6, <3>1
  <2> QED
    BY <2>5, <2>6
<1>5. ASSUME NEW w \in Workers, NEW k \in WorkerDims
      PROVE  /\ worker'[w].reserved[k] = worker[w].reserved[k]
                  - NeedsHeld(i, w, k, "reserved") + NeedsHeld(i, w, k, "reserved")'
             /\ worker'[w].allocated[k] = worker[w].allocated[k]
                  - NeedsHeld(i, w, k, "confirmed") + NeedsHeld(i, w, k, "confirmed")'
  <2>1. /\ worker[w].reserved \in [WorkerDims -> Int]
        /\ worker[w].allocated \in [WorkerDims -> Int]
        /\ worker[w] \in WorkerNode
    BY DEF TypeOK, WorkerNode
  <2>2. /\ NeedsHeld(i, w, k, "reserved") = IF r.worker = w THEN needs[k] ELSE 0
        /\ NeedsHeld(i, w, k, "confirmed") = 0
    BY <1>1, HeldBefore
  <2>3. /\ NeedsHeld(i, w, k, "reserved")' = 0
        /\ NeedsHeld(i, w, k, "confirmed")' = IF r.worker = w THEN needs[k] ELSE 0
    BY <1>3, HeldAfter
  <2>4. worker'[w] = IF r.worker = w
          THEN [worker[w] EXCEPT !.reserved  = Minus(@, needs),
                                 !.allocated = Plus(@, needs)]
          ELSE worker[w]
    <3>1. worker[r.worker] \in WorkerNode
      BY <1>2 DEF TypeOK
    <3>2. worker' = [worker EXCEPT ![r.worker].reserved  = Minus(@, needs),
                                   ![r.worker].allocated = Plus(@, needs)]
      BY ZenonT(30), <1>1 DEF CommitConfirm
    <3> QED
      BY ZenonT(30), <1>2, <3>1, <3>2 DEF TypeOK, WorkerNode
  <2>5. CASE r.worker = w
    <3>1. /\ worker'[w].reserved = Minus(worker[w].reserved, needs)
          /\ worker'[w].allocated = Plus(worker[w].allocated, needs)
      BY <2>1, <2>4, <2>5 DEF WorkerNode
    <3>2. /\ worker'[w].reserved[k] = worker[w].reserved[k] - needs[k]
          /\ worker'[w].allocated[k] = worker[w].allocated[k] + needs[k]
      BY <1>2, <2>1, <3>1, CounterTypes
    <3>3. needs[k] \in Int /\ worker[w].reserved[k] \in Int
          /\ worker[w].allocated[k] \in Int
      BY <1>2, <2>1
    <3> QED
      BY <2>2, <2>3, <2>5, <3>2, <3>3
  <2>6. CASE r.worker # w
    <3>1. worker[w].reserved[k] \in Int /\ worker[w].allocated[k] \in Int
      BY <2>1
    <3> QED
      BY <2>2, <2>3, <2>4, <2>6, <3>1
  <2> QED
    BY <2>5, <2>6
<1> QED
  BY <1>3, <1>4, <1>5, MovedTotals

\* A release takes what its reservation holds from the counter it is held in.
LEMMA ReleaseTotals ==
  ASSUME CounterInv, TypeOK', NEW s \in Sessions, CommitRelease(s)
  PROVE  CountersMatchReservations'
<1> USE DEF CounterInv, TypeInv
<1>1. PICK i \in Ids : i = session[s].id /\ Exists(i)
                       /\ reservation[i].status \in {"reserved", "confirmed"}
  BY SettleFacts DEF CommitRelease, Commit, NoWriteConflict, SnapshotHolds, Active
<1> DEFINE r     == reservation[i]
           o     == OrgOfReservation(i)
           quota == ReservationQuotaDelta(r.body)
           needs == ToWorkerResources(r.body)
<1>2. /\ r \in Reservation /\ r.worker \in Workers /\ o \in Orgs
      /\ quota \in [QuotaKeys -> 0 .. MaxAmount]
      /\ needs \in [WorkerDims -> 0 .. MaxAmount]
  BY <1>1, ReservationFacts
<1>3. /\ \A j \in Ids \ {i} : reservation'[j] = reservation[j]
      /\ reservation'[i].status = "released"
  <2>1. /\ reservation' = [reservation EXCEPT ![i].status = "released",
                                              ![i].reason = session[s].reason]
        /\ DOMAIN reservation = Ids
    BY <1>1 DEF CommitRelease, TypeOK
  <2>2. reservation'[i] = [r EXCEPT !.status = "released", !.reason = session[s].reason]
    BY <2>1
  <2> QED
    BY <1>2, <2>1, <2>2 DEF Reservation
<1>4. ASSUME NEW org \in Orgs, NEW k \in QuotaKeys
      PROVE  /\ entitlement'[org].reserved[k] = entitlement[org].reserved[k]
                  - QuotaHeld(i, org, k, "reserved") + QuotaHeld(i, org, k, "reserved")'
             /\ entitlement'[org].allocated[k] = entitlement[org].allocated[k]
                  - QuotaHeld(i, org, k, "confirmed") + QuotaHeld(i, org, k, "confirmed")'
  <2>1. /\ entitlement[org].reserved \in [QuotaKeys -> Int]
        /\ entitlement[org].allocated \in [QuotaKeys -> Int]
        /\ entitlement[org] \in Entitlement
    BY DEF TypeOK, Entitlement
  <2>2. \A st \in {"reserved", "confirmed"} :
          QuotaHeld(i, org, k, st) = IF r.status = st /\ o = org THEN quota[k] ELSE 0
    BY HeldBefore
  <2>3. /\ QuotaHeld(i, org, k, "reserved")' = 0
        /\ QuotaHeld(i, org, k, "confirmed")' = 0
    BY <1>3, HeldAfter
  <2>4. entitlement'[org] = IF o = org THEN Released(entitlement[org], i, quota)
                                       ELSE entitlement[org]
    BY <1>1, <1>2 DEF CommitRelease, TypeOK
  <2>5. /\ quota[k] \in Int /\ entitlement[org].reserved[k] \in Int
        /\ entitlement[org].allocated[k] \in Int
    BY <1>2, <2>1
  <2>6. CASE o = org /\ r.status = "reserved"
    <3>1. /\ entitlement'[org].reserved = Minus(entitlement[org].reserved, quota)
          /\ entitlement'[org].allocated = entitlement[org].allocated
      BY <2>1, <2>4, <2>6 DEF Entitlement, Released
    <3>2. entitlement'[org].reserved[k] = entitlement[org].reserved[k] - quota[k]
      BY <1>2, <2>1, <3>1, CounterTypes
    <3> QED
      BY <2>2, <2>3, <2>5, <2>6, <3>1, <3>2
  <2>7. CASE o = org /\ r.status = "confirmed"
    <3>1. /\ entitlement'[org].allocated = Minus(entitlement[org].allocated, quota)
          /\ entitlement'[org].reserved = entitlement[org].reserved
      BY <2>1, <2>4, <2>7 DEF Entitlement, Released
    <3>2. entitlement'[org].allocated[k] = entitlement[org].allocated[k] - quota[k]
      BY <1>2, <2>1, <3>1, CounterTypes
    <3> QED
      BY <2>2, <2>3, <2>5, <2>7, <3>1, <3>2
  <2>8. CASE o # org
    BY <2>2, <2>3, <2>4, <2>5, <2>8
  <2> QED
    BY <1>1, <2>6, <2>7, <2>8
<1>5. ASSUME NEW w \in Workers, NEW k \in WorkerDims
      PROVE  /\ worker'[w].reserved[k] = worker[w].reserved[k]
                  - NeedsHeld(i, w, k, "reserved") + NeedsHeld(i, w, k, "reserved")'
             /\ worker'[w].allocated[k] = worker[w].allocated[k]
                  - NeedsHeld(i, w, k, "confirmed") + NeedsHeld(i, w, k, "confirmed")'
  <2>1. /\ worker[w].reserved \in [WorkerDims -> Int]
        /\ worker[w].allocated \in [WorkerDims -> Int]
        /\ worker[w] \in WorkerNode
    BY DEF TypeOK, WorkerNode
  <2>2. \A st \in {"reserved", "confirmed"} :
          NeedsHeld(i, w, k, st) =
            IF r.status = st /\ r.worker = w THEN needs[k] ELSE 0
    BY HeldBefore
  <2>3. /\ NeedsHeld(i, w, k, "reserved")' = 0
        /\ NeedsHeld(i, w, k, "confirmed")' = 0
    BY <1>3, HeldAfter
  <2>4. worker'[w] = IF r.worker = w THEN Released(worker[w], i, needs)
                                     ELSE worker[w]
    BY <1>1, <1>2 DEF CommitRelease, TypeOK
  <2>5. /\ needs[k] \in Int /\ worker[w].reserved[k] \in Int
        /\ worker[w].allocated[k] \in Int
    BY <1>2, <2>1
  <2>6. CASE r.worker = w /\ r.status = "reserved"
    <3>1. /\ worker'[w].reserved = Minus(worker[w].reserved, needs)
          /\ worker'[w].allocated = worker[w].allocated
      BY <2>1, <2>4, <2>6 DEF WorkerNode, Released
    <3>2. worker'[w].reserved[k] = worker[w].reserved[k] - needs[k]
      BY <1>2, <2>1, <3>1, CounterTypes
    <3> QED
      BY <2>2, <2>3, <2>5, <2>6, <3>1, <3>2
  <2>7. CASE r.worker = w /\ r.status = "confirmed"
    <3>1. /\ worker'[w].allocated = Minus(worker[w].allocated, needs)
          /\ worker'[w].reserved = worker[w].reserved
      BY <2>1, <2>4, <2>7 DEF WorkerNode, Released
    <3>2. worker'[w].allocated[k] = worker[w].allocated[k] - needs[k]
      BY <1>2, <2>1, <3>1, CounterTypes
    <3> QED
      BY <2>2, <2>3, <2>5, <2>7, <3>1, <3>2
  <2>8. CASE r.worker # w
    BY <2>2, <2>3, <2>4, <2>5, <2>8
  <2> QED
    BY <1>1, <2>6, <2>7, <2>8
<1> QED
  BY <1>3, <1>4, <1>5, MovedTotals

\* Nothing is held and every counter is zero.
LEMMA InitTotals == Init => CountersMatchReservations
<1> SUFFICES ASSUME Init PROVE CountersMatchReservations
  OBVIOUS
<1>1. MaxAmount \in Nat
  BY FiniteAssumption
<1>2. ASSUME NEW o \in Orgs, NEW k \in QuotaKeys
      PROVE  /\ entitlement[o].reserved[k] = 0 /\ entitlement[o].allocated[k] = 0
             /\ OrgHolds(o, "reserved") = {} /\ OrgHolds(o, "confirmed") = {}
  BY DEF Init, NoCounters, OrgHolds, Absent
<1>3. ASSUME NEW w \in Workers, NEW k \in WorkerDims
      PROVE  /\ worker[w].reserved[k] = 0 /\ worker[w].allocated[k] = 0
             /\ WorkerHolds(w, "reserved") = {} /\ WorkerHolds(w, "confirmed") = {}
  BY DEF Init, NoCounters, WorkerHolds, Absent
<1>4. EntitlementCountersMatch
  BY ZenonT(30), <1>1, <1>2, TotalOfNone DEF EntitlementCountersMatch
<1>5. WorkerCountersMatch
  BY <1>1, <1>3, TotalOfNone DEF WorkerCountersMatch
<1> QED
  BY <1>4, <1>5 DEF CountersMatchReservations

\* No step outside the handlers touches a counter.
LEMMA OutsideTotals ==
  ASSUME CounterInv, OutsideStep
  PROVE  CountersMatchReservations'
<1> USE DEF CounterInv, TypeInv
<1>0. UNCHANGED reservation
  BY ZenonT(30) DEF OutsideStep, Tick, CreateEnvironment, UpdateEnvironment,
         MarkDisconnected, Heartbeat, ChangeEntitlement
<1>1. \A o \in Orgs : /\ entitlement'[o].reserved  = entitlement[o].reserved
                      /\ entitlement'[o].allocated = entitlement[o].allocated
  <2>1. ASSUME NEW o \in Orgs, NEW active \in BOOLEAN, NEW limits \in Limits,
               ChangeEntitlement(o, active, limits), NEW x \in Orgs
        PROVE  /\ entitlement'[x].reserved  = entitlement[x].reserved
               /\ entitlement'[x].allocated = entitlement[x].allocated
    <3>1. entitlement' = [entitlement EXCEPT ![o].active = active, ![o].limits = limits]
      BY <2>1 DEF ChangeEntitlement
    <3>2. entitlement[x] \in Entitlement /\ entitlement[o] \in Entitlement
      BY DEF TypeOK
    <3> QED
      BY <3>1, <3>2 DEF TypeOK, Entitlement
  <2>2. CASE UNCHANGED entitlement
    BY <2>2
  <2> QED
    BY ZenonT(30), <2>1, <2>2 DEF OutsideStep, Tick, CreateEnvironment, UpdateEnvironment,
                      MarkDisconnected, Heartbeat
<1>2. \A w \in Workers : /\ worker'[w].reserved  = worker[w].reserved
                         /\ worker'[w].allocated = worker[w].allocated
  <2>1. ASSUME NEW w \in Workers, MarkDisconnected(w), NEW x \in Workers
        PROVE  /\ worker'[x].reserved  = worker[x].reserved
               /\ worker'[x].allocated = worker[x].allocated
    <3>1. worker' = [worker EXCEPT ![w].status = "offline", ![w].schedulable = FALSE]
      BY <2>1 DEF MarkDisconnected
    <3>2. worker[x] \in WorkerNode /\ worker[w] \in WorkerNode
      BY DEF TypeOK
    <3> QED
      BY <3>1, <3>2 DEF TypeOK, WorkerNode
  <2>2. ASSUME NEW w \in Workers, NEW capacity \in Capacities,
               NEW health \in Healths, Heartbeat(w, health, capacity), NEW x \in Workers
        PROVE  /\ worker'[x].reserved  = worker[x].reserved
               /\ worker'[x].allocated = worker[x].allocated
    <3>1. worker' = [worker EXCEPT ![w].status = StatusOf(health),
                                   ![w].schedulable = (health = "ready"),
                                   ![w].capacity = capacity,
                                   ![w].lastHeartbeatAt = now]
      BY <2>2 DEF Heartbeat
    <3>2. worker[x] \in WorkerNode /\ worker[w] \in WorkerNode
      BY DEF TypeOK
    <3> QED
      BY <3>1, <3>2 DEF TypeOK, WorkerNode
  <2>3. CASE UNCHANGED worker
    BY <2>3
  <2> QED
    BY <2>1, <2>2, <2>3 DEF OutsideStep, Tick, CreateEnvironment,
                            UpdateEnvironment, ChangeEntitlement
<1> QED
  BY <1>0, <1>1, <1>2, SameTotals

\* The inductive invariant behind CountersAreSums is kept by every step.
LEMMA CounterStep == CounterInv /\ [Next]_vars => CounterInv'
<1> SUFFICES ASSUME CounterInv, [Next]_vars PROVE CounterInv'
  OBVIOUS
<1>1. TypeInv' /\ TypeOK'
  BY TypeInvStep DEF CounterInv, TypeInv
<1>2. CASE UNCHANGED <<entitlement, worker, reservation>>
  BY <1>1, <1>2, SameTotals DEF CounterInv
<1>3. ASSUME NEW c \in Clients, CommitReserve(c) \/ CommitConfirm(c)
      PROVE  CounterInv'
  BY <1>1, <1>3, ReserveTotals, ConfirmTotals DEF CounterInv
<1>4. ASSUME NEW s \in Sessions, CommitRelease(s)
      PROVE  CounterInv'
  BY <1>1, <1>4, ReleaseTotals DEF CounterInv
<1>5. CASE OutsideStep
  BY <1>1, <1>5, OutsideTotals DEF CounterInv
<1>6. ASSUME NEW c \in Clients, ReserveStep(c) \/ SettleStep(c) \/ DeleteStep(c)
      PROVE  CounterInv'
  BY <1>2, <1>3, <1>6
     DEF ReserveStep, SettleStep, DeleteStep, ReplayReserve, BeginReserve,
         DuplicateReserve, BeginConfirm, BeginRelease, OpenRelease,
         BeginDeleteEnvironment, CommitDeleteEnvironment
<1>7. ASSUME NEW r \in Reconcilers, ReconcileStep(r)
      PROVE  CounterInv'
  BY <1>2, <1>7 DEF ReconcileStep, ListStale, BeginStaleRelease, OpenRelease,
                    SkipStale, RestartRunner
<1>8. ASSUME NEW s \in Sessions, Abort(s)
      PROVE  CounterInv'
  BY <1>2, <1>8 DEF Abort
<1> QED
  BY <1>2, <1>4, <1>5, <1>6, <1>7, <1>8 DEF Next, vars

\* For every number of tenants, workers, requests and handlers, through every
\* interleaving, write conflict and crash: an organization's and a worker's
\* reserved and allocated counters are exactly what their reserved and
\* confirmed reservations add up to.
THEOREM CountersAreSums == Spec => []CountersMatchReservations
<1>1. Init => CounterInv
  BY InitTypes, InitTotals DEF CounterInv
<1>2. CounterInv => CountersMatchReservations
  BY DEF CounterInv
<1> QED
  BY <1>1, CounterStep, <1>2, PTL DEF Spec
=============================================================================
