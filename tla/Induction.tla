----------------------------- MODULE Induction -----------------------------
(***************************************************************************)
(* Induction and recursion over numbers in the form the provers can use:   *)
(* about the set of numbers of which a statement holds, never about a      *)
(* predicate.  A recursive function f[k \in 0 .. n] stands for a CHOOSE, so *)
(* that every fact about it begins with the existence of a solution of its *)
(* equation (Recursion).                                                   *)
(***************************************************************************)
EXTENDS Integers, FiniteSets, FiniteSetsExt, FiniteSetTheorems, WellFoundedInduction, TLAPS

-----------------------------------------------------------------------------
(* Induction and recursion over 0 .. n                                      *)

\* A set of numbers has a least one.
LEMMA LeastNat ==
    ASSUME NEW T, T \subseteq Nat, T # {}
    PROVE  \E x \in T : \A y \in T : ~(y < x)
<1> DEFINE R == OpToRel(<, Nat)
<1>1. IsWellFoundedOn(R, Nat)
  BY NatLessThanWellFounded
<1>2. \E x \in T : \A y \in T : ~(<<y, x>> \in R)
  <2> HIDE DEF R
  <2>. QED BY <1>1, WFMin
<1>. QED BY <1>2 DEF OpToRel

\* A set with 0 that contains k whenever it contains k - 1 has all of 0 .. n.
LEMMA UpTo ==
    ASSUME NEW n \in Nat, NEW S, 0 \in S, \A k \in 1..n : k - 1 \in S => k \in S
    PROVE  0..n \subseteq S
<1> DEFINE T == (0..n) \ S
<1> SUFFICES ASSUME T # {} PROVE FALSE
  OBVIOUS
<1>0. T \subseteq Nat
  OBVIOUS
<1>1. PICK x \in T : \A y \in T : ~(y < x)
  <2> HIDE DEF T
  <2>. QED BY <1>0, LeastNat
<1>2. x # 0 /\ x \in 1..n /\ x - 1 \in 0..n /\ x - 1 \notin T
  BY <1>1
<1>. QED BY <1>2

\* f begins with a and goes on by the step G.
Solution(f, a, G, n) == f[0] = a /\ \A k \in 1..n : f[k] = G[<<f[k - 1], k>>]
StaysIn(X, G, n) == G \in [X \X (1..n) -> X]

\* A recursion whose step G stays in X has a solution in X.
LEMMA Recursion ==
    ASSUME NEW X, NEW a, a \in X, NEW n, n \in Nat, NEW G, StaysIn(X, G, n)
    PROVE  \E f \in [0..n -> X] : Solution(f, a, G, n)
<1>. USE DEF StaysIn
<1> DEFINE Solves(m, f) == f[0] = a /\ \A k \in 1..m : f[k] = G[<<f[k - 1], k>>]
           S == {m \in 0..n : \E f \in [0..m -> X] : Solves(m, f)}
<1>1. 0 \in S
  <2> DEFINE f == [k \in 0..0 |-> a]
  <2>1. f \in [0..0 -> X] /\ Solves(0, f)
    OBVIOUS
  <2> HIDE DEF f
  <2>2. 0 \in 0..n
    OBVIOUS
  <2>. QED BY <2>1, <2>2
<1>2. ASSUME NEW m \in 1..n, m - 1 \in S PROVE m \in S
  <2>1. PICK f \in [0..(m - 1) -> X] : Solves(m - 1, f)
    BY <1>2
  <2> DEFINE g == [k \in 0..m |-> IF k = m THEN G[<<f[m - 1], m>>] ELSE f[k]]
  <2>2. g \in [0..m -> X]
    OBVIOUS
  <2>3. Solves(m, g)
    <3>1. g[0] = a
      BY <2>1
    <3>2. ASSUME NEW k \in 1..m PROVE g[k] = G[<<g[k - 1], k>>]
      <4>1. g[k - 1] = f[k - 1]
        OBVIOUS
      <4>2. CASE k = m
        <5>1. g[k] = G[<<f[m - 1], m>>]
          BY <4>2
        <5>. QED BY <4>1, <4>2, <5>1
      <4>3. CASE k # m
        <5>1. k \in 1..(m - 1)
          BY <4>3
        <5>. QED BY <2>1, <4>1, <5>1
      <4>. QED BY <4>2, <4>3
    <3>. QED BY <3>1, <3>2
  <2> HIDE DEF g, Solves
  <2>. QED BY <2>2, <2>3
<1> HIDE DEF S
<1>3. n \in S
  BY <1>1, <1>2, UpTo
<1>. QED BY <1>3 DEF S, Solution

\* The same for a step that leads from X[k - 1] to X[k].
LEMMA FamilyRecursion ==
    ASSUME NEW n \in Nat, NEW X, NEW a, a \in X[0], NEW G,
           \A k \in 1..n : \A x \in X[k - 1] : G[<<x, k>>] \in X[k]
    PROVE  \E f : /\ f = [k \in 0..n |-> f[k]] /\ Solution(f, a, G, n)
                  /\ \A k \in 0..n : f[k] \in X[k]
<1> DEFINE U == UNION {X[k] : k \in 0..n}
           H == [z \in U \X (1..n) |-> IF z[1] \in X[z[2] - 1] THEN G[<<z[1], z[2]>>] ELSE z[1]]
<1>1. \A k \in 0..n : X[k] \subseteq U
  OBVIOUS
<1>2. a \in U
  <2>1. 0 \in 0..n
    OBVIOUS
  <2>. QED BY <1>1, <2>1
<1> HIDE DEF U
<1>3. ASSUME NEW x \in U, NEW k \in 1..n
      PROVE  H[<<x, k>>] = (IF x \in X[k - 1] THEN G[<<x, k>>] ELSE x) /\ H[<<x, k>>] \in U
  <2>1. H[<<x, k>>] = IF x \in X[k - 1] THEN G[<<x, k>>] ELSE x
    OBVIOUS
  <2>2. k \in 0..n
    OBVIOUS
  <2>3. x \in X[k - 1] => G[<<x, k>>] \in U
    BY <1>1, <2>2
  <2> HIDE DEF H
  <2>. QED BY <2>1, <2>3
<1>4. StaysIn(U, H, n)
  <2>1. DOMAIN H = U \X (1..n) /\ H = [z \in U \X (1..n) |-> H[z]]
    OBVIOUS
  <2> HIDE DEF H
  <2>2. \A z \in U \X (1..n) : H[z] \in U
    BY <1>3
  <2>. QED BY <2>1, <2>2 DEF StaysIn
<1> HIDE DEF H
<1>5. PICK f \in [0..n -> U] : Solution(f, a, H, n)
  BY <1>2, <1>4, Recursion
<1>6. \A k \in 0..n : f[k] \in X[k]
  <2> DEFINE S == {k \in 0..n : f[k] \in X[k]}
  <2>1. 0 \in S
    BY <1>5 DEF Solution
  <2>2. ASSUME NEW k \in 1..n, k - 1 \in S PROVE k \in S
    <3>1. k - 1 \in 0..n /\ k \in 0..n /\ f[k - 1] \in U /\ f[k - 1] \in X[k - 1]
      BY <2>2
    <3>2. f[k] = G[<<f[k - 1], k>>]
      BY <1>3, <1>5, <3>1 DEF Solution
    <3>. QED BY <3>1, <3>2
  <2> HIDE DEF S
  <2>3. 0..n \subseteq S
    BY <2>1, <2>2, UpTo
  <2>. QED BY <2>3 DEF S
<1>7. ASSUME NEW k \in 1..n PROVE f[k] = G[<<f[k - 1], k>>]
  <2>1. k - 1 \in 0..n
    OBVIOUS
  <2>2. f[k - 1] \in U /\ f[k - 1] \in X[k - 1]
    BY <1>6, <2>1
  <2>. QED BY <1>3, <1>5, <2>2 DEF Solution
<1>. QED BY <1>5, <1>6, <1>7 DEF Solution

\* What holds at 0 and is kept by every step holds throughout.
LEMMA Throughout ==
    ASSUME NEW X, NEW n \in Nat, NEW f, f[0] \in X, \A k \in 1..n : f[k - 1] \in X => f[k] \in X
    PROVE  \A k \in 0..n : f[k] \in X
<1> DEFINE S == {k \in 0..n : f[k] \in X}
<1>1. 0 \in S
  OBVIOUS
<1>2. ASSUME NEW k \in 1..n, k - 1 \in S PROVE k \in S
  BY <1>2
<1> HIDE DEF S
<1>3. 0..n \subseteq S
  BY <1>1, <1>2, UpTo
<1>. QED BY <1>3 DEF S

\* A set with 0 that is closed under successor has every number.
LEMMA SetInduction ==
    ASSUME NEW S, 0 \in S, \A n \in Nat : n \in S => n + 1 \in S
    PROVE  Nat \subseteq S
<1> DEFINE T == Nat \ S
<1> SUFFICES ASSUME T # {} PROVE FALSE
  OBVIOUS
<1>1. PICK x \in T : \A y \in T : ~(y < x)
  BY LeastNat
<1>2. x # 0 /\ x - 1 \in Nat /\ x - 1 \notin T
  BY <1>1
<1>. QED BY <1>2

-----------------------------------------------------------------------------
(* Sets of numbers                                                          *)

Below(S, x) == {y \in S : y < x}
Above(S, x) == {y \in S : y > x}

\* The rank of a number in a finite set, from below and from above.
LEMMA Ranks ==
    ASSUME NEW S, S \subseteq Int, IsFiniteSet(S), NEW x \in Int
    PROVE  /\ Cardinality(Below(S, x)) \in Nat /\ Cardinality(Above(S, x)) \in Nat
           /\ \A y \in S : y < x => Cardinality(Below(S, y)) < Cardinality(Below(S, x))
           /\ \A y \in S : y > x => Cardinality(Above(S, y)) < Cardinality(Above(S, x))
           /\ x \in S => /\ Cardinality(Below(S, x)) < Cardinality(S)
                         /\ Cardinality(Above(S, x)) < Cardinality(S)
<1>1. ASSUME NEW z \in Int
      PROVE  /\ Below(S, z) \in SUBSET S /\ IsFiniteSet(Below(S, z)) /\ Cardinality(Below(S, z)) \in Nat
             /\ Above(S, z) \in SUBSET S /\ IsFiniteSet(Above(S, z)) /\ Cardinality(Above(S, z)) \in Nat
  <2>1. Below(S, z) \in SUBSET S /\ Above(S, z) \in SUBSET S
    BY DEF Below, Above
  <2>. QED BY <2>1, FS_Subset, FS_CardinalityType
<1>2. ASSUME NEW A, NEW B, IsFiniteSet(B), A \subseteq B, NEW w \in B, w \notin A
      PROVE  Cardinality(A) < Cardinality(B)
  <2>1. Cardinality(A) <= Cardinality(B) /\ Cardinality(B) # Cardinality(A) /\ IsFiniteSet(A)
    BY <1>2, FS_Subset
  <2>2. Cardinality(A) \in Nat /\ Cardinality(B) \in Nat
    BY <1>2, <2>1, FS_CardinalityType
  <2>. QED BY <2>1, <2>2
<1>3. ASSUME NEW y \in S, y < x PROVE Cardinality(Below(S, y)) < Cardinality(Below(S, x))
  <2>0. y \in Int /\ y < x /\ ~(y < y)
    BY <1>3
  <2>1. \A z \in S : z < y => z < x
    <3>1. ASSUME NEW z \in Int, z < y PROVE z < x
      BY <2>0, <3>1
    <3>. QED BY <3>1
  <2>2. Below(S, y) \subseteq Below(S, x) /\ y \in Below(S, x) /\ y \notin Below(S, y)
    BY <2>0, <2>1 DEF Below
  <2>. QED BY <1>1, <1>2, <2>0, <2>2
<1>4. ASSUME NEW y \in S, y > x PROVE Cardinality(Above(S, y)) < Cardinality(Above(S, x))
  <2>0. y \in Int /\ y > x /\ ~(y > y)
    BY <1>4
  <2>1. \A z \in S : z > y => z > x
    <3>1. ASSUME NEW z \in Int, z > y PROVE z > x
      BY <2>0, <3>1
    <3>. QED BY <3>1
  <2>2. Above(S, y) \subseteq Above(S, x) /\ y \in Above(S, x) /\ y \notin Above(S, y)
    BY <2>0, <2>1 DEF Above
  <2>. QED BY <1>1, <1>2, <2>0, <2>2
<1>5. ASSUME x \in S
      PROVE  Cardinality(Below(S, x)) < Cardinality(S) /\ Cardinality(Above(S, x)) < Cardinality(S)
  <2>1. x \notin Below(S, x) /\ x \notin Above(S, x)
    BY DEF Below, Above
  <2>. QED BY <1>1, <1>2, <1>5, <2>1
<1>. QED BY <1>1, <1>3, <1>4, <1>5

\* The smallest and the largest number of a finite set.
LEMMA MinMax ==
    ASSUME NEW S, S \subseteq Int, S # {}, IsFiniteSet(S)
    PROVE  /\ Min(S) \in S /\ \A x \in S : Min(S) <= x
           /\ Max(S) \in S /\ \A x \in S : x <= Max(S)
<1>1. \E x \in S : \A y \in S : x <= y
  <2> DEFINE R == {Cardinality(Below(S, x)) : x \in S}
  <2>1. R \subseteq Nat /\ R # {}
    BY Ranks
  <2>2. PICK r \in R : \A q \in R : ~(q < r)
    <3> HIDE DEF R
    <3>. QED BY <2>1, LeastNat
  <2>3. PICK x \in S : r = Cardinality(Below(S, x))
    OBVIOUS
  <2>4. ASSUME NEW y \in S, y < x PROVE FALSE
    BY <2>2, <2>3, <2>4, Ranks
  <2>. QED BY <2>3, <2>4
<1>2. \E x \in S : \A y \in S : x >= y
  <2> DEFINE R == {Cardinality(Above(S, x)) : x \in S}
  <2>1. R \subseteq Nat /\ R # {}
    BY Ranks
  <2>2. PICK r \in R : \A q \in R : ~(q < r)
    <3> HIDE DEF R
    <3>. QED BY <2>1, LeastNat
  <2>3. PICK x \in S : r = Cardinality(Above(S, x))
    OBVIOUS
  <2>4. ASSUME NEW y \in S, y > x PROVE FALSE
    BY <2>2, <2>3, <2>4, Ranks
  <2>. QED BY <2>3, <2>4
<1>3. Min(S) \in S /\ \A x \in S : Min(S) <= x
  BY <1>1 DEF Min
<1>4. Max(S) \in S /\ \A x \in S : Max(S) >= x
  BY <1>2 DEF Max
<1>. QED BY <1>3, <1>4

\* The smaller of two numbers.
LEMMA MinPair ==
    ASSUME NEW a \in Int, NEW b \in Int
    PROVE  Min({a, b}) = IF a <= b THEN a ELSE b
<1>1. \E x \in {a, b} : \A y \in {a, b} : x <= y
  OBVIOUS
<1>2. Min({a, b}) \in {a, b} /\ \A y \in {a, b} : Min({a, b}) <= y
  BY <1>1 DEF Min
<1>. QED BY <1>2

\* The larger of two numbers.
LEMMA MaxPair ==
    ASSUME NEW a \in Int, NEW b \in Int
    PROVE  Max({a, b}) = IF a >= b THEN a ELSE b
<1>1. \E x \in {a, b} : \A y \in {a, b} : x >= y
  OBVIOUS
<1>2. Max({a, b}) \in {a, b} /\ \A y \in {a, b} : Max({a, b}) >= y
  BY <1>1 DEF Max
<1>. QED BY <1>2

\* The values of a function on a finite set are finitely many.
LEMMA FiniteRange ==
    ASSUME NEW f, IsFiniteSet(DOMAIN f), f = [x \in DOMAIN f |-> f[x]]
    PROVE  IsFiniteSet({f[x] : x \in DOMAIN f})
<1> DEFINE S == DOMAIN f
           T == {f[x] : x \in S}
<1>1. f \in [S -> T] /\ \A t \in T : \E x \in S : f[x] = t
  OBVIOUS
<1> HIDE DEF T
<1>2. f \in Surjection(S, T)
  BY <1>1 DEF Surjection
<1>3. IsFiniteSet(T)
  BY <1>2, FS_Surjection
<1>. QED BY <1>3 DEF T

\* Cardinality of a disjoint union and of a difference.
LEMMA CardSplit ==
    ASSUME NEW S, NEW A, IsFiniteSet(S), IsFiniteSet(A)
    PROVE  /\ S \cap A = {} => Cardinality(S \cup A) = Cardinality(S) + Cardinality(A)
           /\ A \subseteq S => Cardinality(S \ A) = Cardinality(S) - Cardinality(A)
<1>1. Cardinality(S) \in Nat /\ Cardinality(A) \in Nat /\ Cardinality({}) = 0
  BY FS_CardinalityType, FS_EmptySet
<1>2. ASSUME S \cap A = {} PROVE Cardinality(S \cup A) = Cardinality(S) + Cardinality(A)
  <2>1. Cardinality(S \cup A) = Cardinality(S) + Cardinality(A) - Cardinality(S \cap A)
    BY FS_Union
  <2>2. Cardinality(S \cap A) = 0
    BY <1>1, <1>2
  <2>. QED BY <1>1, <2>1, <2>2
<1>3. ASSUME A \subseteq S PROVE Cardinality(S \ A) = Cardinality(S) - Cardinality(A)
  <2>1. S \cap A = A
    BY <1>3
  <2>. QED BY <2>1, FS_Difference
<1>. QED BY <1>2, <1>3
=============================================================================
