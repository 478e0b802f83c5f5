------------------------------- MODULE Totals -------------------------------
(***************************************************************************)
(* Sums over a finite set, written so that they can be reasoned about      *)
(* without induction: the total weight of S is the number of units its     *)
(* members hold.                                                           *)
(***************************************************************************)
EXTENDS Integers, FiniteSets

\* The units the members of S hold: member i holds units 1 .. weight[i].
\* No weight exceeds bound.
Units(S, weight, bound) ==
  {u \in S \X (1 .. bound) : u[2] <= weight[u[1]]}

\* The sum of weight[i] over the members i of S.
Total(S, weight, bound) == Cardinality(Units(S, weight, bound))
=============================================================================
