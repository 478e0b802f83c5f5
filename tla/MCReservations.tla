--------------------------- MODULE MCReservations ---------------------------
(* Instances of Reservations for TLC.                                      *)
EXTENDS Reservations, TLC

CONSTANTS o1, o2, e1, e2, w1, w2, i1, i2, i3, k1, k2, c1, c2, r1, east, west, any

Quota(cpu, transfer, services, environments) ==
  "cpu" :> cpu @@ "transfer" :> transfer @@ "services" :> services
    @@ "environments" :> environments
Cpu(n) == "cpu" :> n
Body(env, cpu, transfer, pin) ==
  [env |-> env, amount |-> "cpu" :> cpu @@ "transfer" :> transfer, pin |-> pin]

\* One tenant, one environment: contention for the same counters.
RaceOrgOf    == e1 :> o1
RaceRegionOf == w1 :> east
RaceBodies   == {Body(e1, 1, 1, any), Body(e1, 2, 0, any)}
RaceLimits   == {Quota(2, 1, 2, 1)}
RaceCapacities == {Cpu(3)}
RaceSymmetry == Permutations({i1, i2}) \cup Permutations({c1, c2})
                  \cup Permutations({k1, k2})

\* The reconciler against a client, more stale reservations than its batch
\* holds, an entitlement that may be suspended for good, and a worker whose
\* reported capacity shrinks and grows.
ReconcileBodies == {Body(e1, 1, 0, any)}
ReconcileLimits == {Quota(2, 1, 2, 1), Quota(0, 0, 0, 0)}
ReconcileCapacities == {Cpu(1), Cpu(2)}
=============================================================================
