---------------------------- MODULE Reservations ----------------------------
(***************************************************************************)
(* The resource-reservation service of the control plane: the entitlement  *)
(* counters of an organization, the counters of a worker node, the         *)
(* reservation documents and the environments they belong to, changed by   *)
(* request handlers and by the stale-reservation reconciler, each inside a *)
(* MongoDB snapshot transaction (features/resources/reservations.ts,       *)
(* reservation-release.ts, reconciliation.ts; server/domain/               *)
(* transactions.ts).                                                       *)
(*                                                                         *)
(* A handler is two steps.  Its Begin step is the callback of              *)
(* runTransaction evaluated on the snapshot; it is enabled when the        *)
(* callback reaches its end, so every throw is a Begin that does not       *)
(* happen.  Its Commit step installs the writes if no document the         *)
(* callback wrote was written by someone else since the snapshot.  Abort   *)
(* is every other end of an open transaction.                              *)
(***************************************************************************)
EXTENDS Integers, FiniteSets, Totals

CONSTANTS
  Orgs, Environments, Workers, Regions,
  Ids,               \* reservation documents, a bound on how many exist
  Keys,              \* Idempotency-Key header values
  Bodies,            \* request bodies: [env, amount, pin]
  Dims, WorkerDims,  \* reservable quantities; those a worker accounts for
  Limits, Capacities,\* what operators and heartbeats may set
  Healths,           \* the health states agents report
  Clients, Reconcilers,
  OrgOf,             \* [Environments -> Orgs]
  RegionOf,          \* [Workers -> Regions], fixed at enrollment
  AnyWorker,         \* the body names no workerNodeId
  Ttl,               \* RESERVATION_TTL_MS
  HeartbeatMaxAge,   \* WORKER_HEARTBEAT_MAX_AGE_MS
  DisconnectAfter,   \* WORKER_DISCONNECT_AFTER_SECONDS
  BatchLimit,        \* WORKER_RECONCILIATION_BATCH_SIZE
  MaxAmount,         \* bound on every requested quantity
  MaxTime            \* bound on the clock

QuotaKeys == Dims \cup {"services", "environments"}

ASSUME FiniteAssumption ==
  /\ IsFiniteSet(Ids)
  /\ IsFiniteSet(Environments)
  /\ MaxAmount \in Nat \ {0}

ASSUME ShapeAssumption ==
  /\ WorkerDims \subseteq Dims
  /\ "services" \notin Dims
  /\ "environments" \notin Dims
  /\ OrgOf \in [Environments -> Orgs]
  /\ RegionOf \in [Workers -> Regions]
  /\ AnyWorker \notin Workers
  /\ Bodies \subseteq [env: Environments, amount: [Dims -> 0 .. MaxAmount],
                       pin: Workers \cup {AnyWorker}]
  /\ Limits \subseteq [QuotaKeys -> Nat]
  /\ Capacities \subseteq [WorkerDims -> Nat]
  /\ Healths \subseteq {"ready", "degraded", "draining"}
  /\ Clients \cap Reconcilers = {}

ASSUME TimeAssumption ==
  /\ Ttl \in Nat \ {0}
  /\ HeartbeatMaxAge \in Nat \ {0}
  /\ DisconnectAfter \in Nat \ {0}
  /\ BatchLimit \in Nat \ {0}
  /\ MaxTime \in Nat

Sessions == Clients \cup Reconcilers

VARIABLES
  now,          \* the wall clock every process reads
  entitlement,  \* resource_entitlements, one document per organization
  worker,       \* worker_nodes
  environment,  \* environments
  reservation,  \* resource_reservations, by _id
  outbox,       \* outbox_events written for reservations
  session,      \* the open transaction of each handler, or Idle
  outdated,     \* others wrote one of its documents since its snapshot
  batch,        \* what a reconciler run still has to release
  granted       \* history: the replies to reserve requests

vars == <<now, entitlement, worker, environment, reservation, outbox,
          session, outdated, batch, granted>>
-----------------------------------------------------------------------------
(* Documents.                                                              *)

NoCounters(keys) == [k \in keys |-> 0]

Entitlement == [active: BOOLEAN, validFrom: Nat, validUntil: Nat,
                limits: [QuotaKeys -> Nat],
                reserved: [QuotaKeys -> Int], allocated: [QuotaKeys -> Int]]

WorkerNode == [status: {"online", "draining", "offline", "disabled"},
               schedulable: BOOLEAN, lastHeartbeatAt: Nat,
               capacity: [WorkerDims -> Nat],
               reserved: [WorkerDims -> Int], allocated: [WorkerDims -> Int]]

Environment == [status: {"absent", "active", "deleted"}, region: Regions]

Absent == [status |-> "absent"]

Reservation == [status: {"reserved", "confirmed", "released"},
                key: Keys, body: Bodies, worker: Workers, expiresAt: Nat,
                reason: {"none", "requested", "stale", "failed"}]

Idle == [op |-> "idle"]

Transaction ==
       [op: {"reserve"}, key: Keys, body: Bodies, worker: Workers, at: Nat]
  \cup [op: {"confirm"}, id: Ids]
  \cup [op: {"release"}, id: Ids, reason: {"requested", "stale", "failed"}]
  \cup [op: {"delete"}, env: Environments]

EntitlementDoc(o) == <<"entitlement", o>>
WorkerDoc(w)      == <<"worker", w>>
EnvironmentDoc(e) == <<"environment", e>>
ReservationDoc(i) == <<"reservation", i>>

Exists(i) == reservation[i].status # "absent"
Active(i) == reservation[i].status \in {"reserved", "confirmed"}
OrgOfReservation(i) == OrgOf[reservation[i].body.env]
Stale(i) == reservation[i].status = "reserved" /\ reservation[i].expiresAt <= now

\* The unique index on (organizationId, idempotencyKey).
HoldsKey(i, o, key) ==
  Exists(i) /\ OrgOfReservation(i) = o /\ reservation[i].key = key

\* What a reservation adds to the organization's counters: its quantities,
\* one service, no project and no environment.
ReservationQuotaDelta(body) ==
  [k \in QuotaKeys |-> CASE k = "services"     -> 1
                         [] k = "environments" -> 0
                         [] OTHER              -> body.amount[k]]

\* What it adds to the worker's counters.
ToWorkerResources(body) == [k \in WorkerDims |-> body.amount[k]]

Plus(counters, delta)  == [k \in DOMAIN counters |-> counters[k] + delta[k]]
Minus(counters, delta) == [k \in DOMAIN counters |-> counters[k] - delta[k]]
Covers(counters, delta) == \A k \in DOMAIN counters : counters[k] >= delta[k]

BillingIsOperable(ent, time) ==
  ent.active /\ ent.validFrom <= time /\ time < ent.validUntil

ActiveEnvironments(o) ==
  {e \in Environments : OrgOf[e] = o /\ environment[e].status = "active"}

\* Environments are counted, everything else is reserved plus allocated.
QuotaExceeded(o, delta) ==
  \E k \in QuotaKeys :
    LET current == IF k = "environments"
                   THEN Cardinality(ActiveEnvironments(o))
                   ELSE entitlement[o].reserved[k] + entitlement[o].allocated[k]
    IN  current + delta[k] > entitlement[o].limits[k]

\* Mutant: a degraded or draining node is taken as well.
Schedulable_AnyHealth(w) ==
  now < worker[w].lastHeartbeatAt + HeartbeatMaxAge

Schedulable(w) ==
  /\ worker[w].status = "online"
  /\ worker[w].schedulable
  /\ now < worker[w].lastHeartbeatAt + HeartbeatMaxAge

\* Mutant: what is already allocated is not counted.
WorkerHasCapacity_ReservedOnly(w, requested) ==
  \A k \in WorkerDims :
    worker[w].reserved[k] + requested[k] <= worker[w].capacity[k]

WorkerHasCapacity(w, requested) ==
  \A k \in WorkerDims :
    worker[w].reserved[k] + worker[w].allocated[k] + requested[k]
      <= worker[w].capacity[k]

\* The workers a body may be placed on.  Any of them may be taken: which one
\* the load ranking puts first is not modelled here.
WorkerCandidates(body) ==
  {w \in Workers : /\ RegionOf[w] = environment[body.env].region
                   /\ body.pin \in {AnyWorker, w}
                   /\ Schedulable(w)
                   /\ WorkerHasCapacity(w, ToWorkerResources(body))}
-----------------------------------------------------------------------------
(* Snapshot transactions.                                                  *)

\* Confirm and release write the same three documents.
SettleWrites(i) ==
  {ReservationDoc(i), EntitlementDoc(OrgOfReservation(i)),
   WorkerDoc(reservation[i].worker)}

\* Mutant: a reserve reads the environment without writing it.
Writes_NoEnvironmentGuard(tx) ==
  CASE tx.op = "reserve" -> {EntitlementDoc(OrgOf[tx.body.env]),
                             WorkerDoc(tx.worker)}
    [] tx.op \in {"confirm", "release"} -> SettleWrites(tx.id)
    [] tx.op = "delete" -> {EnvironmentDoc(tx.env)}
    [] OTHER -> {}

\* The documents a transaction writes.  A reserve writes the environment too
\* (reservationRevision): that is what makes it conflict with a deletion of
\* the environment.
Writes(tx) ==
  CASE tx.op = "reserve" -> {EnvironmentDoc(tx.body.env),
                             EntitlementDoc(OrgOf[tx.body.env]),
                             WorkerDoc(tx.worker)}
    [] tx.op \in {"confirm", "release"} -> SettleWrites(tx.id)
    [] tx.op = "delete" -> {EnvironmentDoc(tx.env)}
    [] OTHER -> {}

Open(s, tx) ==
  /\ session[s] = Idle
  /\ session' = [session EXCEPT ![s] = tx]
  /\ outdated' = [outdated EXCEPT ![s] = FALSE]

\* First committer wins.
NoWriteConflict(s) == ~outdated[s]

\* Every other open transaction that writes one of docs has lost.
Outdate(others, docs) ==
  outdated' = [x \in Sessions |->
                 x \in others /\ (outdated[x] \/ Writes(session[x]) \cap docs # {})]

Commit(s) ==
  /\ NoWriteConflict(s)
  /\ session' = [session EXCEPT ![s] = Idle]
  /\ Outdate(Sessions \ {s}, Writes(session[s]))

RollBack(s) ==
  /\ session' = [session EXCEPT ![s] = Idle]
  /\ outdated' = [outdated EXCEPT ![s] = FALSE]

\* A write outside the modelled handlers.
Touch(doc) ==
  /\ Outdate(Sessions, {doc})
  /\ UNCHANGED session

\* Mutant: confirmations are not announced.
Announce_NotConfirmed(i, event) ==
  outbox' = outbox \cup ({<<i, event>>} \ {<<i, "confirmed">>})

\* createOutboxEvent, in the transaction that makes the change.
Announce(i, event) == outbox' = outbox \cup {<<i, event>>}

\* The item a reconciler worked on leaves its batch, whatever came of it.
Consume(s, i) ==
  batch' = IF s \in Reconcilers THEN [batch EXCEPT ![s] = @ \ {i}] ELSE batch
-----------------------------------------------------------------------------
Init ==
  /\ now = 0
  /\ entitlement \in
       [Orgs -> {[active |-> TRUE, validFrom |-> 0, validUntil |-> until,
                  limits |-> limits,
                  reserved |-> NoCounters(QuotaKeys),
                  allocated |-> NoCounters(QuotaKeys)] :
                    until \in {MaxTime, MaxTime + 1}, limits \in Limits}]
  /\ worker \in
       [Workers -> {[status |-> "online", schedulable |-> TRUE,
                     lastHeartbeatAt |-> 0, capacity |-> capacity,
                     reserved |-> NoCounters(WorkerDims),
                     allocated |-> NoCounters(WorkerDims)] :
                       capacity \in Capacities}]
  /\ environment \in [Environments -> [status: {"absent", "active"},
                                       region: Regions]]
  /\ reservation = [i \in Ids |-> Absent]
  /\ outbox = {}
  /\ session = [s \in Sessions |-> Idle]
  /\ outdated = [s \in Sessions |-> FALSE]
  /\ batch = [r \in Reconcilers |-> {}]
  /\ granted = {}
-----------------------------------------------------------------------------
(* reserveResource.                                                        *)

\* Mutant: the stored request hash is not compared.
Replay_AnyBody(i, body, replies) ==
  replies' = replies \cup {[key |-> reservation[i].key, body |-> body, id |-> i]}

\* The key is already taken: the stored reservation is the reply when it was
\* made for the same body, otherwise IDEMPOTENCY_KEY_REUSED.
Replay(i, body, replies) ==
  replies' = IF reservation[i].body = body
             THEN replies \cup {[key |-> reservation[i].key, body |-> body, id |-> i]}
             ELSE replies

ReplayReserve(c, key, body) ==
  /\ session[c] = Idle
  /\ environment[body.env].status = "active"
  /\ \E i \in Ids : HoldsKey(i, OrgOf[body.env], key) /\ Replay(i, body, granted)
  /\ UNCHANGED <<now, entitlement, worker, environment, reservation, outbox,
                 session, outdated, batch>>

BeginReserve(c, key, body) ==
  LET o == OrgOf[body.env] IN
  /\ environment[body.env].status = "active"
  /\ \A i \in Ids : ~HoldsKey(i, o, key)
  /\ BillingIsOperable(entitlement[o], now)
  /\ ~QuotaExceeded(o, ReservationQuotaDelta(body))
  /\ \E w \in WorkerCandidates(body) :
       Open(c, [op |-> "reserve", key |-> key, body |-> body,
                worker |-> w, at |-> now])
  /\ UNCHANGED <<now, entitlement, worker, environment, reservation, outbox,
                 batch, granted>>

CommitReserve(c) ==
  LET tx == session[c]
      o  == OrgOf[tx.body.env]
  IN
  /\ tx.op = "reserve"
  /\ \A i \in Ids : ~HoldsKey(i, o, tx.key)
  /\ entitlement' = [entitlement EXCEPT
       ![o].reserved = Plus(@, ReservationQuotaDelta(tx.body))]
  /\ worker' = [worker EXCEPT
       ![tx.worker].reserved = Plus(@, ToWorkerResources(tx.body))]
  /\ \E i \in Ids :
       /\ ~Exists(i)
       /\ reservation' = [reservation EXCEPT ![i] =
            [status |-> "reserved", key |-> tx.key, body |-> tx.body,
             worker |-> tx.worker, expiresAt |-> tx.at + Ttl,
             reason |-> "none"]]
       /\ Announce(i, "reserved")
       /\ granted' = granted \cup {[key |-> tx.key, body |-> tx.body, id |-> i]}
  /\ Commit(c)
  /\ UNCHANGED <<now, environment, batch>>

\* The insert hits the unique index (code 11000): the transaction is rolled
\* back and the winner's reservation is read and returned.
DuplicateReserve(c) ==
  LET tx == session[c] IN
  /\ tx.op = "reserve"
  /\ \E i \in Ids : /\ HoldsKey(i, OrgOf[tx.body.env], tx.key)
                    /\ Replay(i, tx.body, granted)
  /\ RollBack(c)
  /\ UNCHANGED <<now, entitlement, worker, environment, reservation, outbox,
                 batch>>
-----------------------------------------------------------------------------
(* confirmResourceReservation.                                             *)

Confirmable(i) ==
  reservation[i].status = "reserved" /\ now < reservation[i].expiresAt

BeginConfirm(c, i) ==
  LET r == reservation[i] IN
  /\ Confirmable(i)
  /\ environment[r.body.env].status = "active"
  /\ BillingIsOperable(entitlement[OrgOfReservation(i)], now)
  /\ Covers(entitlement[OrgOfReservation(i)].reserved,
            ReservationQuotaDelta(r.body))
  /\ Covers(worker[r.worker].reserved, ToWorkerResources(r.body))
  /\ Open(c, [op |-> "confirm", id |-> i])
  /\ UNCHANGED <<now, entitlement, worker, environment, reservation, outbox,
                 batch, granted>>

CommitConfirm(c) ==
  LET tx    == session[c]
      i     == tx.id
      r     == reservation[i]
      o     == OrgOfReservation(i)
      quota == ReservationQuotaDelta(r.body)
      needs == ToWorkerResources(r.body)
  IN
  /\ tx.op = "confirm"
  /\ entitlement' = [entitlement EXCEPT ![o].reserved  = Minus(@, quota),
                                        ![o].allocated = Plus(@, quota)]
  /\ worker' = [worker EXCEPT ![r.worker].reserved  = Minus(@, needs),
                              ![r.worker].allocated = Plus(@, needs)]
  /\ reservation' = [reservation EXCEPT ![i].status = "confirmed"]
  /\ Announce(i, "confirmed")
  /\ Commit(c)
  /\ UNCHANGED <<now, environment, batch, granted>>
-----------------------------------------------------------------------------
(* releaseReservationInternal, for a caller and for the reconciler.        *)

\* The counters of a document that an active reservation is held in.
CounterOf(doc, i) ==
  IF reservation[i].status = "reserved" THEN doc.reserved ELSE doc.allocated

\* Mutant: the state of the reservation is not looked at.
Released_FromReserved(doc, i, delta) ==
  [doc EXCEPT !.reserved = Minus(@, delta)]

Released(doc, i, delta) ==
  IF reservation[i].status = "reserved"
  THEN [doc EXCEPT !.reserved  = Minus(@, delta)]
  ELSE [doc EXCEPT !.allocated = Minus(@, delta)]

\* Mutants: a listed reservation is released whatever became of it; a
\* release asks for an operable entitlement as a confirmation does.
Releasable_OnceListed(i, reason) == Active(i)
Releasable_WhenBilled(i, reason) ==
  /\ reservation[i].status = "reserved"
  /\ BillingIsOperable(entitlement[OrgOfReservation(i)], now)

Releasable(i, reason) ==
  Active(i) /\ (reason = "stale" => reservation[i].status = "reserved")

OpenRelease(s, i, reason) ==
  LET r == reservation[i] IN
  /\ Releasable(i, reason)
  /\ Covers(CounterOf(entitlement[OrgOfReservation(i)], i),
            ReservationQuotaDelta(r.body))
  /\ Covers(CounterOf(worker[r.worker], i), ToWorkerResources(r.body))
  /\ Open(s, [op |-> "release", id |-> i, reason |-> reason])
  /\ UNCHANGED <<now, entitlement, worker, environment, reservation, outbox,
                 batch, granted>>

BeginRelease(c, i, reason) ==
  /\ Exists(i)
  /\ environment[reservation[i].body.env].status = "active"
  /\ OpenRelease(c, i, reason)

CommitRelease(s) ==
  LET tx    == session[s]
      i     == tx.id
      r     == reservation[i]
      o     == OrgOfReservation(i)
      quota == ReservationQuotaDelta(r.body)
      needs == ToWorkerResources(r.body)
  IN
  /\ tx.op = "release"
  /\ entitlement' = [entitlement EXCEPT ![o] = Released(@, i, quota)]
  /\ worker' = [worker EXCEPT ![r.worker] = Released(@, i, needs)]
  /\ reservation' = [reservation EXCEPT ![i].status = "released",
                                        ![i].reason = tx.reason]
  /\ Announce(i, "released")
  /\ Commit(s)
  /\ Consume(s, i)
  /\ UNCHANGED <<now, environment, granted>>
-----------------------------------------------------------------------------
(* releaseStaleReservations: one bounded listing, oldest first, then one   *)
(* transaction per listed reservation.                                     *)

OldestFirst(chosen, all) ==
  \A i \in chosen, j \in all \ chosen :
    reservation[i].expiresAt <= reservation[j].expiresAt

ListStale(r) ==
  LET all == {i \in Ids : Stale(i)} IN
  /\ session[r] = Idle
  /\ batch[r] = {}
  /\ all # {}
  /\ \E chosen \in SUBSET all :
       /\ Cardinality(chosen) =
            (IF Cardinality(all) <= BatchLimit THEN Cardinality(all) ELSE BatchLimit)
       /\ OldestFirst(chosen, all)
       /\ batch' = [batch EXCEPT ![r] = chosen]
  /\ UNCHANGED <<now, entitlement, worker, environment, reservation, outbox,
                 session, outdated, granted>>

NextListed(r, i) == i \in batch[r] /\ OldestFirst({i}, batch[r])

BeginStaleRelease(r, i) == NextListed(r, i) /\ OpenRelease(r, i, "stale")

\* The reservation was confirmed or released after it was listed.
SkipStale(r, i) ==
  /\ session[r] = Idle
  /\ NextListed(r, i)
  /\ reservation[i].status # "reserved"
  /\ Consume(r, i)
  /\ UNCHANGED <<now, entitlement, worker, environment, reservation, outbox,
                 session, outdated, granted>>

\* The runner process dies; the listing dies with it.
RestartRunner(r) ==
  /\ batch[r] # {}
  /\ RollBack(r)
  /\ batch' = [batch EXCEPT ![r] = {}]
  /\ UNCHANGED <<now, entitlement, worker, environment, reservation, outbox,
                 granted>>
-----------------------------------------------------------------------------
(* Any open transaction may end without a commit: write conflict, driver   *)
(* error, crash of the process.  The caller may call again.                *)

Abort(s) ==
  /\ session[s] # Idle
  /\ RollBack(s)
  /\ IF session[s].op = "release" THEN Consume(s, session[s].id)
                                  ELSE UNCHANGED batch
  /\ UNCHANGED <<now, entitlement, worker, environment, reservation, outbox,
                 granted>>
-----------------------------------------------------------------------------
(* The environments the reservations hang on.                              *)

\* assertRegionAvailable
RegionAvailable(region) == \E w \in Workers : RegionOf[w] = region /\ Schedulable(w)

CreateEnvironment(e, region) ==
  /\ environment[e].status = "absent"
  /\ RegionAvailable(region)
  /\ environment' = [environment EXCEPT
                       ![e] = [status |-> "active", region |-> region]]
  /\ Touch(EnvironmentDoc(e))
  /\ UNCHANGED <<now, entitlement, worker, reservation, outbox, batch, granted>>

UpdateEnvironment(e, region) ==
  /\ environment[e].status = "active"
  /\ RegionAvailable(region)
  /\ environment' = [environment EXCEPT ![e].region = region]
  /\ Touch(EnvironmentDoc(e))
  /\ UNCHANGED <<now, entitlement, worker, reservation, outbox, batch, granted>>

BeginDeleteEnvironment(c, e) ==
  /\ environment[e].status = "active"
  /\ ~\E i \in Ids : Active(i) /\ reservation[i].body.env = e
  /\ Open(c, [op |-> "delete", env |-> e])
  /\ UNCHANGED <<now, entitlement, worker, environment, reservation, outbox,
                 batch, granted>>

CommitDeleteEnvironment(c) ==
  LET tx == session[c] IN
  /\ tx.op = "delete"
  /\ environment' = [environment EXCEPT ![tx.env].status = "deleted"]
  /\ Commit(c)
  /\ UNCHANGED <<now, entitlement, worker, reservation, outbox, batch, granted>>
-----------------------------------------------------------------------------
(* What others do to the documents meanwhile.                              *)

\* Mutant: the reported health is stored as the status.
StatusOf_Reported(health) == health

StatusOf(health) == IF health = "draining" THEN "draining" ELSE "online"

\* persistHeartbeat: capacity is whatever the agent reports, and only a
\* ready node is schedulable.
Heartbeat(w, health, capacity) ==
  /\ worker[w].status # "disabled"
  /\ worker' = [worker EXCEPT
       ![w].status = StatusOf(health),
       ![w].schedulable = (health = "ready"),
       ![w].capacity = capacity,
       ![w].lastHeartbeatAt = now]
  /\ Touch(WorkerDoc(w))
  /\ UNCHANGED <<now, entitlement, environment, reservation, outbox, batch, granted>>

\* processDisconnectedWorkers: one updateMany, document by document.
MarkDisconnected(w) ==
  /\ worker[w].status \in {"online", "draining"}
  /\ worker[w].lastHeartbeatAt + DisconnectAfter <= now
  /\ worker' = [worker EXCEPT ![w].status = "offline",
                              ![w].schedulable = FALSE]
  /\ Touch(WorkerDoc(w))
  /\ UNCHANGED <<now, entitlement, environment, reservation, outbox, batch, granted>>

\* There is no entitlement API: an operator edits the document.
ChangeEntitlement(o, active, limits) ==
  /\ entitlement[o].active # active \/ entitlement[o].limits # limits
  /\ entitlement' = [entitlement EXCEPT ![o].active = active, ![o].limits = limits]
  /\ Touch(EntitlementDoc(o))
  /\ UNCHANGED <<now, worker, environment, reservation, outbox, batch, granted>>

Tick ==
  /\ now < MaxTime
  /\ now' = now + 1
  /\ UNCHANGED <<entitlement, worker, environment, reservation, outbox,
                 session, outdated, batch, granted>>
-----------------------------------------------------------------------------
ReserveStep(c) ==
  \/ \E key \in Keys, body \in Bodies :
       ReplayReserve(c, key, body) \/ BeginReserve(c, key, body)
  \/ CommitReserve(c)
  \/ DuplicateReserve(c)

SettleStep(c) ==
  \/ \E i \in Ids : BeginConfirm(c, i)
  \/ CommitConfirm(c)
  \/ \E i \in Ids, reason \in {"requested", "failed"} : BeginRelease(c, i, reason)

DeleteStep(c) ==
  \/ \E e \in Environments : BeginDeleteEnvironment(c, e)
  \/ CommitDeleteEnvironment(c)

ReconcileStep(r) ==
  \/ ListStale(r)
  \/ \E i \in Ids : BeginStaleRelease(r, i) \/ SkipStale(r, i)
  \/ RestartRunner(r)

OutsideStep ==
  \/ Tick
  \/ \E e \in Environments, region \in Regions :
       CreateEnvironment(e, region) \/ UpdateEnvironment(e, region)
  \/ \E w \in Workers : MarkDisconnected(w)
  \/ \E w \in Workers, capacity \in Capacities,
        health \in Healths :
       Heartbeat(w, health, capacity)
  \/ \E o \in Orgs, active \in BOOLEAN, limits \in Limits :
       ChangeEntitlement(o, active, limits)

Next ==
  \/ \E c \in Clients : ReserveStep(c) \/ SettleStep(c) \/ DeleteStep(c)
  \/ \E r \in Reconcilers : ReconcileStep(r)
  \/ \E s \in Sessions : CommitRelease(s) \/ Abort(s)
  \/ OutsideStep

Spec == Init /\ [][Next]_vars
-----------------------------------------------------------------------------
(* Properties.                                                             *)

\* Every document and every open transaction has the shape the code gives it.
TypeOK ==
  /\ now \in 0 .. MaxTime
  /\ entitlement \in [Orgs -> Entitlement]
  /\ worker \in [Workers -> WorkerNode]
  /\ environment \in [Environments -> Environment]
  /\ reservation \in [Ids -> Reservation \cup {Absent}]
  /\ outbox \subseteq Ids \X {"reserved", "confirmed", "released"}
  /\ session \in [Sessions -> Transaction \cup {Idle}]
  /\ outdated \in [Sessions -> BOOLEAN]
  /\ batch \in [Reconcilers -> SUBSET Ids]
  /\ granted \subseteq [key: Keys, body: Bodies, id: Ids]

QuotaWeight(k) ==
  [i \in Ids |-> IF Exists(i) THEN ReservationQuotaDelta(reservation[i].body)[k]
                              ELSE 0]
WorkerWeight(k) ==
  [i \in Ids |-> IF Exists(i) THEN ToWorkerResources(reservation[i].body)[k]
                              ELSE 0]
OrgHolds(o, status) ==
  {i \in Ids : reservation[i].status = status /\ OrgOfReservation(i) = o}
WorkerHolds(w, status) ==
  {i \in Ids : reservation[i].status = status /\ reservation[i].worker = w}

\* The counters of every organization are the sums over its reservations:
\* reserved over the reserved ones, allocated over the confirmed ones, through
\* every interleaving of reserve, confirm, release and stale release.
EntitlementCountersMatch ==
  \A o \in Orgs, k \in QuotaKeys :
    /\ entitlement[o].reserved[k] =
         Total(OrgHolds(o, "reserved"), QuotaWeight(k), MaxAmount)
    /\ entitlement[o].allocated[k] =
         Total(OrgHolds(o, "confirmed"), QuotaWeight(k), MaxAmount)

\* The same for every worker, over the reservations of all organizations.
WorkerCountersMatch ==
  \A w \in Workers, k \in WorkerDims :
    /\ worker[w].reserved[k] =
         Total(WorkerHolds(w, "reserved"), WorkerWeight(k), MaxAmount)
    /\ worker[w].allocated[k] =
         Total(WorkerHolds(w, "confirmed"), WorkerWeight(k), MaxAmount)

CountersMatchReservations == EntitlementCountersMatch /\ WorkerCountersMatch

\* However often a request is sent, and whichever replies are lost, an
\* organization's Idempotency-Key stands for one reservation: no second one is
\* created, and every reply names it and was for the same body.
IdempotentReserve ==
  /\ \A i, j \in Ids :
       Exists(i) /\ HoldsKey(j, OrgOfReservation(i), reservation[i].key) => i = j
  /\ \A g \in granted : /\ HoldsKey(g.id, OrgOf[g.body.env], g.key)
                        /\ reservation[g.id].body = g.body

\* No resources are held in an environment that was deleted while the
\* reservation was being made.
ActiveInActiveEnvironment ==
  \A i \in Ids :
    Active(i) => environment[reservation[i].body.env].status = "active"

\* Consumers of the outbox can rebuild every reservation: it was announced,
\* and its confirmation and its release are announced exactly when they hold.
OutboxTellsHistory ==
  \A i \in Ids :
    /\ <<i, "reserved">> \in outbox <=> Exists(i)
    /\ <<i, "released">> \in outbox <=> reservation[i].status = "released"
    /\ reservation[i].status = "confirmed" => <<i, "confirmed">> \in outbox
    /\ reservation[i].status = "reserved" => <<i, "confirmed">> \notin outbox

\* When a reservation appears, the environment it is for and the worker it is
\* on are what the handler saw: an active environment, in the worker's region,
\* and a worker nobody has taken out of scheduling in between.
PlacementIsCurrent ==
  [][\A i \in Ids : ~Exists(i) /\ Exists(i)' =>
       LET r == reservation'[i] IN
       /\ environment[r.body.env].status = "active"
       /\ environment[r.body.env].region = RegionOf[r.worker]
       /\ worker[r.worker].status = "online"
       /\ worker[r.worker].schedulable]_vars

\* The reconciler releases only what is still reserved and has expired when
\* the release takes effect, not what was so when it listed its batch.
StaleReleaseIsStale ==
  [][\A i \in Ids :
       reservation'[i].status = "released" /\ reservation'[i].reason = "stale"
         => Stale(i) \/ reservation'[i] = reservation[i]]_vars

ClaimOf(body, w) ==
  [org |-> OrgOf[body.env], worker |-> w,
   quota |-> ReservationQuotaDelta(body), needs |-> ToWorkerResources(body)]

Ledger ==
  INSTANCE ReservationLedger WITH
    Claims   <- {ClaimOf(body, w) : body \in Bodies, w \in Workers},
    limits   <- [o \in Orgs |-> entitlement[o].limits],
    capacity <- [w \in Workers |-> worker[w].capacity],
    account  <- [i \in Ids |->
                   IF Exists(i)
                   THEN [state |-> reservation[i].status,
                         claim |-> ClaimOf(reservation[i].body,
                                           reservation[i].worker)]
                   ELSE [state |-> "unclaimed"]]

\* The counters implement the ledger that has none: every grant fits the
\* limits and the capacity counting the claims themselves, a released claim
\* stays released, and nothing else changes a claim.
LedgerRefinement == Ledger!Spec

\* The reconciler job is repeated for ever, a transaction that lost a write
\* conflict ends, and one that is tried again and again commits in the end.
Fairness ==
  /\ WF_vars(Tick)
  /\ \A r \in Reconcilers :
       /\ WF_vars(ListStale(r))
       /\ SF_vars(\E i \in Ids : BeginStaleRelease(r, i) \/ SkipStale(r, i))
       /\ SF_vars(CommitRelease(r))
       /\ WF_vars(outdated[r] /\ Abort(r))

FairSpec == Spec /\ Fairness

\* A reservation nobody confirmed is given up in the end, also when its
\* entitlement is suspended and when more are stale than a batch holds.
StaleEventuallyReleased ==
  \A i \in Ids : Stale(i) ~> reservation[i].status # "reserved"
=============================================================================
