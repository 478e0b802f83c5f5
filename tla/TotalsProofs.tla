---------------------------- MODULE TotalsProofs ----------------------------
(* Lemmas about Total, for the proofs that counters are sums.              *)
EXTENDS Totals, FiniteSetTheorems, TLAPS

\* The units of a finite set are finite, so their number is a natural number.
LEMMA TotalIsNat ==
  ASSUME NEW S, IsFiniteSet(S), NEW weight, NEW bound \in Nat
  PROVE  /\ IsFiniteSet(Units(S, weight, bound))
         /\ Total(S, weight, bound) \in Nat
<1>1. IsFiniteSet(1 .. bound)
  BY FS_Interval
<1>2. IsFiniteSet(S \X (1 .. bound))
  BY <1>1, FS_Product
<1>3. Units(S, weight, bound) \in SUBSET (S \X (1 .. bound))
  BY DEF Units
<1>4. IsFiniteSet(Units(S, weight, bound))
  BY <1>2, <1>3, FS_Subset
<1> QED
  BY <1>4, FS_CardinalityType DEF Total

\* Nobody holds nothing.
LEMMA TotalOfNone ==
  ASSUME NEW weight, NEW bound \in Nat
  PROVE  Total({}, weight, bound) = 0
<1>1. Units({}, weight, bound) = {}
  BY DEF Units
<1> QED
  BY <1>1, FS_EmptySet DEF Total

\* Only the weights of the members matter.
LEMMA TotalDependsOnMembers ==
  ASSUME NEW S, NEW weight, NEW other, NEW bound \in Nat,
         \A i \in S : weight[i] = other[i]
  PROVE  Total(S, weight, bound) = Total(S, other, bound)
<1>1. Units(S, weight, bound) = Units(S, other, bound)
  BY DEF Units
<1> QED
  BY <1>1 DEF Total

\* The units of one member are as many as its weight.
LEMMA UnitsOfOne ==
  ASSUME NEW x, NEW weight, NEW bound \in Nat, weight[x] \in 0 .. bound
  PROVE  /\ IsFiniteSet(Units({x}, weight, bound))
         /\ Cardinality(Units({x}, weight, bound)) = weight[x]
<1>1. PICK n \in Nat : n = weight[x] /\ n <= bound
  OBVIOUS
<1>2. Units({x}, weight, bound) = {x} \X (1 .. n)
  BY <1>1 DEF Units
<1>3. IsFiniteSet({x}) /\ Cardinality({x}) = 1
  BY FS_Singleton
<1>4. /\ IsFiniteSet(1 .. n)
      /\ Cardinality(1 .. n) = IF 1 > n THEN 0 ELSE n - 1 + 1
  <2>1. 1 \in Int /\ n \in Int
    OBVIOUS
  <2> QED
    BY <2>1, FS_Interval
<1>5. /\ IsFiniteSet({x} \X (1 .. n))
      /\ Cardinality({x} \X (1 .. n)) = Cardinality({x}) * Cardinality(1 .. n)
  BY <1>3, <1>4, FS_Product
<1>6. Cardinality(1 .. n) = n
  BY <1>4
<1>7. Cardinality({x} \X (1 .. n)) = n
  BY <1>3, <1>5, <1>6
<1> QED
  BY <1>1, <1>2, <1>5, <1>7

\* A new member adds its weight.
LEMMA TotalAdd ==
  ASSUME NEW S, IsFiniteSet(S), NEW x, x \notin S,
         NEW weight, NEW bound \in Nat, weight[x] \in 0 .. bound
  PROVE  Total(S \cup {x}, weight, bound) = Total(S, weight, bound) + weight[x]
<1> DEFINE A == Units(S, weight, bound)
           B == Units({x}, weight, bound)
<1>1. Units(S \cup {x}, weight, bound) = A \cup B
  BY DEF Units
<1>2. A \cap B = {}
  BY DEF Units
<1>3. IsFiniteSet(A) /\ Cardinality(A) \in Nat
  BY TotalIsNat DEF Total
<1>4. IsFiniteSet(B) /\ Cardinality(B) = weight[x]
  BY UnitsOfOne
<1>5. Cardinality(A \cup B) = Cardinality(A) + Cardinality(B) - Cardinality(A \cap B)
  BY <1>3, <1>4, FS_Union
<1>6. Cardinality(A \cap B) = 0
  BY <1>2, FS_EmptySet
<1>7. weight[x] \in Nat
  OBVIOUS
<1>8. Cardinality(A \cup B) = Cardinality(A) + weight[x]
  BY <1>3, <1>4, <1>5, <1>6, <1>7
<1> QED
  BY <1>1, <1>8 DEF Total

\* Two states that agree on everything but x: the total loses what x held and
\* gains what it holds.
LEMMA TotalChange ==
  ASSUME NEW S, IsFiniteSet(S), NEW T, IsFiniteSet(T), NEW x, S \ {x} = T \ {x},
         NEW before, NEW after, NEW bound \in Nat,
         before[x] \in 0 .. bound, after[x] \in 0 .. bound,
         \A i \in S \ {x} : before[i] = after[i]
  PROVE  Total(T, after, bound) = Total(S, before, bound)
           - (IF x \in S THEN before[x] ELSE 0) + (IF x \in T THEN after[x] ELSE 0)
<1> DEFINE rest == Total(S \ {x}, before, bound)
<1>1. IsFiniteSet(S \ {x})
  BY FS_RemoveElement
<1>2. rest = Total(T \ {x}, after, bound)
  BY TotalDependsOnMembers
<1>3. Total(S, before, bound) = rest + (IF x \in S THEN before[x] ELSE 0)
  <2>1. CASE x \in S
    <3>1. (S \ {x}) \cup {x} = S
      BY <2>1
    <3>2. Total((S \ {x}) \cup {x}, before, bound) = rest + before[x]
      BY <1>1, TotalAdd
    <3> QED
      BY <2>1, <3>1, <3>2
  <2>2. CASE x \notin S
    <3>1. S \ {x} = S
      BY <2>2
    <3>2. rest \in Nat
      BY <1>1, TotalIsNat
    <3> QED
      BY <2>2, <3>1, <3>2
  <2> QED
    BY <2>1, <2>2
<1>4. Total(T, after, bound) = rest + (IF x \in T THEN after[x] ELSE 0)
  <2>1. CASE x \in T
    <3>1. (S \ {x}) \cup {x} = T
      BY <2>1
    <3>2. Total((S \ {x}) \cup {x}, after, bound)
            = Total(S \ {x}, after, bound) + after[x]
      BY <1>1, TotalAdd
    <3> QED
      BY <1>2, <2>1, <3>1, <3>2
  <2>2. CASE x \notin T
    <3>1. T \ {x} = T
      BY <2>2
    <3>2. rest \in Nat
      BY <1>1, TotalIsNat
    <3>3. rest = Total(T, after, bound)
      BY <1>2, <3>1
    <3> QED
      BY <2>2, <3>2, <3>3
  <2> QED
    BY <2>1, <2>2
<1>5. rest \in Nat /\ before[x] \in Int /\ after[x] \in Int
  BY <1>1, TotalIsNat
<1> HIDE DEF rest
<1> QED
  BY <1>3, <1>4, <1>5

\* The total over two disjoint sets is the sum of their totals.
LEMMA TotalOfUnion ==
  ASSUME NEW S, IsFiniteSet(S), NEW T, IsFiniteSet(T), S \cap T = {},
         NEW weight, NEW bound \in Nat
  PROVE  Total(S \cup T, weight, bound) = Total(S, weight, bound) + Total(T, weight, bound)
<1> DEFINE A == Units(S, weight, bound)
           B == Units(T, weight, bound)
<1>1. Units(S \cup T, weight, bound) = A \cup B
  BY DEF Units
<1>2. A \cap B = {}
  BY DEF Units
<1>3. IsFiniteSet(A) /\ IsFiniteSet(B) /\ Cardinality(A) \in Nat /\ Cardinality(B) \in Nat
  BY TotalIsNat DEF Total
<1>4. Cardinality(A \cup B) =
        Cardinality(A) + Cardinality(B) - Cardinality(A \cap B)
  BY <1>3, FS_Union
<1>5. Cardinality(A \cap B) = 0
  BY <1>2, FS_EmptySet
<1>6. Cardinality(A \cup B) = Cardinality(A) + Cardinality(B)
  <2> HIDE DEF A, B
  <2> QED
    BY <1>3, <1>4, <1>5
<1> QED
  BY <1>1, <1>6 DEF Total
=============================================================================
