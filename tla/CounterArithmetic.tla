------------------------- MODULE CounterArithmetic -------------------------
(***************************************************************************)
(* One reserved/allocated counter pair of an entitlement or a worker, with *)
(* the arithmetic it is really kept in.  storageGiB and transferGiB are    *)
(* any finite number, so the stored counters are binary floating point and *)
(* $inc rounds.  Quantities here are whole multiples of the last bit of    *)
(* the smallest quantity in play; Round brings a result back to a whole    *)
(* number below Significand of the least unit that has room for it.  Every *)
(* handler is one step: Reservations covers their interleaving, on         *)
(* counters that do not round.                                             *)
(***************************************************************************)
EXTENDS Totals

CONSTANTS
  Ids,         \* reservations, a bound on how many exist
  Amounts,     \* quantities a request may name
  MaxAmount,   \* bound on them
  Limit,       \* the entitlement's limit or the worker's capacity
  Significand, \* 2^53 in the program: a significand is less
  Ulps         \* the units of numbers' last places: powers of two

VARIABLES
  reserved, allocated,   \* the two counters
  reservation            \* by _id

vars == <<reserved, allocated, reservation>>

Absent == [status |-> "absent"]

\* The least unit in which n is less than a significand.
Ulp(n) == CHOOSE u \in Ulps : /\ n < Significand * u
                              /\ \A v \in Ulps : v < u => n >= Significand * v

\* Round to nearest, ties to even.
Round(n) ==
  LET ulp  == Ulp(n)
      low  == n \div ulp
      rest == n % ulp
      up   == 2 * rest > ulp \/ (2 * rest = ulp /\ low % 2 = 1)
  IN  IF up THEN (low + 1) * ulp ELSE low * ulp

\* $inc by an amount and by its negation.
Inc(counter, amount) == Round(counter + amount)
Dec(counter, amount) == Round(counter - amount)

\* The quota and capacity guards of a reserve.
Fits(amount) == Inc(Inc(reserved, allocated), amount) <= Limit

\* nonnegativeExpression, the guard of every decrement.
Covered(counter, amount) == counter >= amount

Init ==
  /\ reserved = 0
  /\ allocated = 0
  /\ reservation = [i \in Ids |-> Absent]

Reserve(i, amount) ==
  /\ reservation[i] = Absent
  /\ Fits(amount)
  /\ reserved' = Inc(reserved, amount)
  /\ reservation' = [reservation EXCEPT
       ![i] = [status |-> "reserved", amount |-> amount, expired |-> FALSE]]
  /\ UNCHANGED allocated

Confirm(i) ==
  /\ reservation[i].status = "reserved"
  /\ ~reservation[i].expired
  /\ Covered(reserved, reservation[i].amount)
  /\ reserved'  = Dec(reserved, reservation[i].amount)
  /\ allocated' = Inc(allocated, reservation[i].amount)
  /\ reservation' = [reservation EXCEPT ![i].status = "confirmed"]

ReleaseReserved(i) ==
  /\ reservation[i].status = "reserved"
  /\ Covered(reserved, reservation[i].amount)
  /\ reserved' = Dec(reserved, reservation[i].amount)
  /\ reservation' = [reservation EXCEPT ![i].status = "released"]
  /\ UNCHANGED allocated

\* Mutant: a confirmed reservation is released from the reserved counter.
ReleaseConfirmed_FromReserved(i) ==
  /\ reservation[i].status = "confirmed"
  /\ Covered(reserved, reservation[i].amount)
  /\ reserved' = Dec(reserved, reservation[i].amount)
  /\ reservation' = [reservation EXCEPT ![i].status = "released"]
  /\ UNCHANGED allocated

ReleaseConfirmed(i) ==
  /\ reservation[i].status = "confirmed"
  /\ Covered(allocated, reservation[i].amount)
  /\ allocated' = Dec(allocated, reservation[i].amount)
  /\ reservation' = [reservation EXCEPT ![i].status = "released"]
  /\ UNCHANGED reserved

\* expiresAt passes.
Expire(i) ==
  /\ reservation[i].status = "reserved"
  /\ ~reservation[i].expired
  /\ reservation' = [reservation EXCEPT ![i].expired = TRUE]
  /\ UNCHANGED <<reserved, allocated>>

\* The reconciler's pass over what has expired.
ReleaseStale(i) ==
  /\ reservation[i].status = "reserved"
  /\ reservation[i].expired
  /\ ReleaseReserved(i)

Next == \E i \in Ids :
  \/ \E amount \in Amounts : Reserve(i, amount)
  \/ Confirm(i)
  \/ ReleaseReserved(i)
  \/ ReleaseConfirmed(i)
  \/ Expire(i)
  \/ ReleaseStale(i)

Spec == Init /\ [][Next]_vars

\* The reconciler job is scheduled for ever and tries every stale reservation.
FairSpec == Spec /\ \A i \in Ids : WF_vars(ReleaseStale(i))
-----------------------------------------------------------------------------
\* The exact total of the reservations in a status.
Amount == [i \in Ids |-> IF reservation[i] = Absent THEN 0 ELSE reservation[i].amount]
Held(status) == Total({i \in Ids : reservation[i].status = status}, Amount, MaxAmount)

\* While the limit is less than a significand in the common unit, nothing
\* rounds: the counters are the exact sums and no more than the limit, and the
\* guard against negative counters refuses no reservation to be taken back.
\* This is what counters as integers stand for elsewhere.
ExactWithinPrecision ==
  /\ reserved = Held("reserved")
  /\ allocated = Held("confirmed")
  /\ reserved + allocated <= Limit
  /\ \A i \in Ids :
       /\ reservation[i].status = "reserved" => Covered(reserved, reservation[i].amount)
       /\ reservation[i].status = "confirmed" => Covered(allocated, reservation[i].amount)

\* What docs/api.md says of the job runner: it releases stale unconfirmed
\* reservations.
StaleEventuallyReleased ==
  \A i \in Ids : reservation[i].status = "reserved" /\ reservation[i].expired
                   ~> reservation[i].status = "released"
=============================================================================
