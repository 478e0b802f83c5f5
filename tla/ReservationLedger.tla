-------------------------- MODULE ReservationLedger --------------------------
(***************************************************************************)
(* What the reservation service promises: an account of claims, each       *)
(* reserved, then perhaps confirmed, finally released, with no counters at *)
(* all.  What an organization or a worker has in use is by definition the  *)
(* sum of the claims it backs, and a claim is granted only when its        *)
(* quantities still fit.  Reservations implements this specification.      *)
(***************************************************************************)
EXTENDS Integers, Totals

CONSTANTS
  Ids,         \* claims that can ever be made
  Claims,      \* what may be claimed: [org, worker, quota, needs]
  QuotaKeys, WorkerDims,
  MaxAmount    \* bound on every quantity

VARIABLES
  limits,      \* per organization
  capacity,    \* per worker
  account      \* per claim: its state, and the claim once it is made

vars == <<limits, capacity, account>>

Unclaimed == [state |-> "unclaimed"]

InUse(i) == account[i].state \in {"reserved", "confirmed"}

OrgUse(o, k) ==
  Total({i \in Ids : InUse(i) /\ account[i].claim.org = o},
        [i \in Ids |-> IF InUse(i) THEN account[i].claim.quota[k] ELSE 0],
        MaxAmount)

WorkerUse(w, k) ==
  Total({i \in Ids : InUse(i) /\ account[i].claim.worker = w},
        [i \in Ids |-> IF InUse(i) THEN account[i].claim.needs[k] ELSE 0],
        MaxAmount)

\* A quantity that is not asked for is not checked.
Fits(claim) ==
  /\ \A k \in QuotaKeys : claim.quota[k] > 0 =>
       OrgUse(claim.org, k) + claim.quota[k] <= limits[claim.org][k]
  /\ \A k \in WorkerDims : claim.needs[k] > 0 =>
       WorkerUse(claim.worker, k) + claim.needs[k] <= capacity[claim.worker][k]

Init == account = [i \in Ids |-> Unclaimed]

Grant(i, claim) ==
  /\ account[i] = Unclaimed
  /\ Fits(claim)
  /\ account' = [account EXCEPT ![i] = [state |-> "reserved", claim |-> claim]]

Confirm(i) ==
  /\ account[i].state = "reserved"
  /\ account' = [account EXCEPT ![i].state = "confirmed"]

Release(i) ==
  /\ InUse(i)
  /\ account' = [account EXCEPT ![i].state = "released"]

Settle ==
  /\ \E i \in Ids :
       (\E claim \in Claims : Grant(i, claim)) \/ Confirm(i) \/ Release(i)
  /\ UNCHANGED <<limits, capacity>>

\* Operators change limits and workers report capacity as they like, but no
\* such change touches a claim.
Regulate == UNCHANGED account

Next == Settle \/ Regulate

Spec == Init /\ [][Next]_vars
=============================================================================
