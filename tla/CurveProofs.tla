------------------------------ MODULE CurveProofs ------------------------------
(***************************************************************************)
(* Proofs about the scalars (ScalarRegisters), the chains of powers        *)
(* (PowerChains) and the memory of multiplications (Scratch).  Scalars:    *)
(* for every order that the reduction fits, every operation on limbs is    *)
(* the one on numbers modulo the order, no column overflows, and what      *)
(* VERIFY_CHECK says holds.  Chains: each ends with the power it is for,   *)
(* over any elements with an associative product.  Memory: a batch of as   *)
(* many points as were said to fit is granted all its objects.             *)
(* No large number appears as a literal, since the provers round them: the *)
(* powers of 2 are symbols with the laws proved here.                      *)
(***************************************************************************)
EXTENDS ScalarRegisters, PowerChains, Scratch, FiniteSetTheorems, WellFoundedInduction, TLAPS

-----------------------------------------------------------------------------
(* Arithmetic: quotients, remainders and powers of 2. *)

\* Quotient and remainder.
LEMMA Division ==
  ASSUME NEW a \in Nat, NEW d \in Nat \ {0}
  PROVE  /\ a \div d \in Nat /\ a % d \in 0 .. d - 1
         /\ a = (d * (a \div d)) + (a % d)
OBVIOUS

\* A remainder is no larger than what is divided.
LEMMA Remainder ==
  ASSUME NEW a \in Nat, NEW d \in Nat \ {0}
  PROVE  a % d \in 0 .. d - 1 /\ a % d <= a
<1>1. CASE a < d
  BY <1>1
<1>2. CASE ~(a < d)
  BY <1>2
<1> QED BY <1>1, <1>2

\* What a quotient is below.
LEMMA DivBelow ==
  ASSUME NEW a \in Nat, NEW q \in Nat, NEW d \in Nat \ {0}, a < q * d
  PROVE  a \div d < q
OBVIOUS

\* A quotient grows with what is divided.
LEMMA DivMono ==
  ASSUME NEW a \in Nat, NEW b \in Nat, a <= b, NEW d \in Nat \ {0}
  PROVE  a \div d <= b \div d
OBVIOUS

\* A number below the divisor is its own remainder: it does not wrap.
LEMMA ModBelow ==
  ASSUME NEW a \in Nat, NEW d \in Nat \ {0}, a < d
  PROVE  a % d = a
OBVIOUS

\* A product grows with its factors.
LEMMA Times ==
  ASSUME NEW a \in Nat, NEW b \in Nat, a <= b, NEW c \in Nat
  PROVE  a * c \in Nat /\ b * c \in Nat /\ a * c <= b * c
OBVIOUS

\* A power of two is a positive number: it counts the subsets of 1 .. n.
LEMMA PowerIsNat ==
  ASSUME NEW n \in Nat
  PROVE  2^n \in Nat \ {0}
<1> DEFINE Halves == 1 .. n
<1>1. IsFiniteSet(Halves) /\ Cardinality(Halves) = n
  <2>1. 1 \in Int /\ n \in Int
    OBVIOUS
  <2>2. Cardinality(Halves) = IF 1 > n THEN 0 ELSE n - 1 + 1
    BY <2>1, FS_Interval
  <2> QED BY <2>1, <2>2, FS_Interval
<1>2. IsFiniteSet(SUBSET Halves) /\ Cardinality(SUBSET Halves) = 2^Cardinality(Halves)
  BY <1>1, FS_SUBSET
<1>3. SUBSET Halves # {}
  OBVIOUS
<1>4. Cardinality(SUBSET Halves) \in Nat /\ Cardinality(SUBSET Halves) # 0
  BY <1>2, <1>3, FS_CardinalityType, FS_EmptySet
<1> HIDE DEF Halves
<1> QED BY <1>1, <1>2, <1>4

\* A larger exponent gives a larger power.
LEMMA PowerMono ==
  ASSUME NEW m \in Nat, NEW n \in Nat, m <= n
  PROVE  2^m <= 2^n
<1> DEFINE Halves(k) == 1 .. k
<1>1. ASSUME NEW k \in Nat
      PROVE  IsFiniteSet(SUBSET Halves(k)) /\ Cardinality(SUBSET Halves(k)) = 2^k
  <2>1. 1 \in Int /\ k \in Int
    OBVIOUS
  <2>2. Cardinality(Halves(k)) = IF 1 > k THEN 0 ELSE k - 1 + 1
    BY <2>1, FS_Interval
  <2>3. IsFiniteSet(Halves(k)) /\ Cardinality(Halves(k)) = k
    BY <2>1, <2>2, FS_Interval
  <2> HIDE DEF Halves
  <2> QED BY <2>3, FS_SUBSET
<1>2. SUBSET Halves(m) \subseteq SUBSET Halves(n)
  OBVIOUS
<1> HIDE DEF Halves
<1>3. Cardinality(SUBSET Halves(m)) <= Cardinality(SUBSET Halves(n))
  BY <1>1, <1>2, FS_Subset
<1> QED BY <1>1, <1>3

\* Every set of numbers that is not empty has a least member.
LEMMA LeastNatural ==
  ASSUME NEW X \in SUBSET Nat, X # {}
  PROVE  \E m \in X : \A k \in X : m <= k
<1> DEFINE R == OpToRel(<, Nat)
<1>1. IsWellFoundedOn(R, Nat)
  BY NatLessThanWellFounded
<1>2. R = {ss \in Nat \X Nat : ss[1] < ss[2]}
  BY Zenon DEF OpToRel
<1> HIDE DEF R
<1>3. PICK m \in X : \A k \in X : <<k, m>> \notin R
  BY <1>1, WFMin
<1>4. ASSUME NEW k \in X PROVE m <= k
  <2>1. ~(<<k, m>> \in Nat \X Nat /\ <<k, m>>[1] < <<k, m>>[2])
    BY <1>2, <1>3
  <2> QED BY <2>1
<1> QED
  BY <1>4

\* Induction over a set of numbers.
LEMMA Induction ==
  ASSUME NEW H \in SUBSET Nat, 0 \in H, \A n \in H : n + 1 \in H
  PROVE  H = Nat
<1> SUFFICES ASSUME H # Nat PROVE FALSE
  OBVIOUS
<1>1. PICK m \in Nat \ H : \A k \in Nat \ H : m <= k
  <2>1. Nat \ H \in SUBSET Nat /\ Nat \ H # {}
    OBVIOUS
  <2> QED BY <2>1, LeastNatural
<1>2. m # 0 /\ m - 1 \in Nat
  BY <1>1
<1>3. m - 1 \in H
  BY <1>1, <1>2
<1>4. (m - 1) + 1 = m
  BY <1>1
<1> QED
  BY <1>1, <1>3, <1>4

\* 2^0 = 1: the empty set has one subset.
LEMMA PowerZero == 2^0 = 1
<1>1. IsFiniteSet({}) /\ Cardinality({}) = 0
  BY FS_EmptySet
<1>2. Cardinality(SUBSET {}) = 2^0
  BY <1>1, FS_SUBSET
<1>3. SUBSET {} = {{}}
  OBVIOUS
<1>4. Cardinality({{}}) = 1
  BY FS_Singleton
<1> QED BY <1>2, <1>3, <1>4

\* 2^(n+1) = 2 * 2^n: the subsets of 1 .. n + 1 without n + 1 and with it.
LEMMA PowerNext ==
  ASSUME NEW n \in Nat
  PROVE  2^(n + 1) = 2 * 2^n
<1> DEFINE Halves == 1 .. n
           E == 1 .. n + 1
           X == SUBSET Halves
           Y == {s \cup {n + 1} : s \in X}
<1>1. IsFiniteSet(X) /\ Cardinality(X) = 2^n
  <2>1. IsFiniteSet(Halves) /\ Cardinality(Halves) = n
    <3>1. 1 \in Int /\ n \in Int
      OBVIOUS
    <3>2. Cardinality(Halves) = IF 1 > n THEN 0 ELSE n - 1 + 1
      BY <3>1, FS_Interval
    <3> QED BY <3>1, <3>2, FS_Interval
  <2> HIDE DEF Halves
  <2> QED BY <2>1, FS_SUBSET
<1>2. Cardinality(SUBSET E) = 2^(n + 1)
  <2>1. IsFiniteSet(E) /\ Cardinality(E) = n + 1
    <3>1. 1 \in Int /\ n + 1 \in Int
      OBVIOUS
    <3>2. Cardinality(E) = IF 1 > n + 1 THEN 0 ELSE (n + 1) - 1 + 1
      BY <3>1, FS_Interval
    <3> QED BY <3>1, <3>2, FS_Interval
  <2> HIDE DEF E
  <2> QED BY <2>1, FS_SUBSET
<1>3. E = Halves \cup {n + 1} /\ n + 1 \notin Halves
  OBVIOUS
<1> HIDE DEF Halves, E
<1>4. SUBSET E = X \cup Y
  <2>1. ASSUME NEW s \in SUBSET E PROVE s \in X \cup Y
    <3>1. CASE n + 1 \in s
      <4>1. s \ {n + 1} \in X /\ s = (s \ {n + 1}) \cup {n + 1}
        BY <1>3, <3>1
      <4> QED BY <4>1
    <3>2. CASE n + 1 \notin s
      BY <1>3, <3>2
    <3> QED BY <3>1, <3>2
  <2>2. X \cup Y \subseteq SUBSET E
    BY <1>3
  <2> QED BY <2>1, <2>2
<1>5. X \cap Y = {}
  BY <1>3
<1>6. ExistsBijection(X, Y)
  <2> DEFINE f == [s \in X |-> s \cup {n + 1}]
  <2>1. f \in [X -> Y]
    OBVIOUS
  <2>2. \A s, t \in X : f[s] = f[t] => s = t
    BY <1>3
  <2>3. \A r \in Y : \E s \in X : f[s] = r
    OBVIOUS
  <2> HIDE DEF f
  <2>4. f \in Injection(X, Y)
    <3>1. DOMAIN f = X
      BY <2>1
    <3> QED BY <2>1, <2>2, <3>1, Zenon DEF Injection, IsInjective
  <2>5. f \in Surjection(X, Y)
    BY <2>1, <2>3, Zenon DEF Surjection
  <2>6. f \in Bijection(X, Y)
    BY <2>4, <2>5, Zenon DEF Bijection
  <2> QED BY <2>6, Zenon DEF ExistsBijection
<1>7. IsFiniteSet(Y) /\ Cardinality(Y) = 2^n
  BY <1>1, <1>6, FS_Bijection
<1> HIDE DEF X, Y
<1>8. Cardinality(X \cup Y) = Cardinality(X) + Cardinality(Y) - Cardinality(X \cap Y)
  BY <1>1, <1>7, FS_Union
<1>9. Cardinality(X \cap Y) = 0
  BY <1>5, FS_EmptySet
<1>10. 2^n \in Nat
  BY PowerIsNat
<1> DEFINE a == 2^n
           b == 2^(n + 1)
           z == Cardinality(X \cap Y)
<1>11. a \in Nat /\ z = 0 /\ b = a + a - z
  BY <1>1, <1>2, <1>4, <1>7, <1>8, <1>9, <1>10
<1> HIDE DEF a, b, z
<1>12. b = 2 * a
  BY <1>11
<1> QED BY <1>12 DEF a, b

\* The law of exponents.
LEMMA PowerSum ==
  ASSUME NEW m \in Nat, NEW n \in Nat
  PROVE  2^(m + n) = 2^m * 2^n
<1> DEFINE H == {k \in Nat : 2^(m + k) = 2^m * 2^k}
<1>1. 0 \in H
  <2>1. m + 0 = m /\ 2^m \in Nat
    BY PowerIsNat
  <2> QED BY <2>1, PowerZero
<1>2. ASSUME NEW k \in H PROVE k + 1 \in H
  <2>1. m + (k + 1) = (m + k) + 1 /\ m + k \in Nat
    OBVIOUS
  <2>2. 2^((m + k) + 1) = 2 * 2^(m + k) /\ 2^(k + 1) = 2 * 2^k
    BY <2>1, PowerNext
  <2> DEFINE a == 2^m
             b == 2^k
  <2>3. a \in Nat /\ b \in Nat /\ 2^(m + k) = a * b
    BY PowerIsNat
  <2> HIDE DEF a, b
  <2>4. 2 * (a * b) = a * (2 * b)
    BY <2>3
  <2>5. 2^(m + (k + 1)) = 2^m * 2^(k + 1)
    BY <2>1, <2>2, <2>3, <2>4 DEF a, b
  <2> QED BY <2>5
<1> HIDE DEF H
<1>3. H = Nat
  BY <1>1, <1>2, Induction DEF H
<1> QED BY <1>3 DEF H

\* The partial sums.
IsTotal(s, f, n) == s = [k \in 0 .. n |-> IF k = 0 THEN 0 ELSE s[k - 1] + f[k - 1]]

\* A sum, a recursive function, exists for all terms.
LEMMA TotalExists ==
  ASSUME NEW f, NEW n \in Nat
  PROVE  \E s : IsTotal(s, f, n) /\ Total(f, n) = s[n]
<1> DEFINE H == {j \in Nat : \E s : IsTotal(s, f, j)}
<1>1. 0 \in H
  <2> DEFINE s == [k \in 0 .. 0 |-> 0]
  <2>1. s = [k \in 0 .. 0 |-> IF k = 0 THEN 0 ELSE s[k - 1] + f[k - 1]]
    OBVIOUS
  <2> HIDE DEF s
  <2> QED BY <2>1 DEF IsTotal
<1>2. ASSUME NEW j \in H PROVE j + 1 \in H
  <2>1. PICK s : IsTotal(s, f, j)
    OBVIOUS
  <2> DEFINE d == [k \in 0 .. j + 1 |-> IF k <= j THEN s[k] ELSE s[j] + f[j]]
  <2>2. ASSUME NEW k \in 0 .. j + 1 PROVE d[k] = IF k = 0 THEN 0 ELSE d[k - 1] + f[k - 1]
    <3>1. CASE k = 0
      BY <2>1, <3>1 DEF IsTotal
    <3>2. CASE k # 0 /\ k <= j
      <4>1. k \in 0 .. j /\ k - 1 \in 0 .. j + 1 /\ k - 1 <= j
        BY <3>2
      <4>2. d[k] = s[k] /\ d[k - 1] = s[k - 1] /\ s[k] = s[k - 1] + f[k - 1]
        BY <2>1, <3>2, <4>1 DEF IsTotal
      <4> HIDE DEF d
      <4> QED BY <3>2, <4>2
    <3>3. CASE k = j + 1
      <4>1. k - 1 = j /\ k # 0 /\ j \in 0 .. j + 1 /\ ~(k <= j)
        BY <3>3
      <4>2. d[k] = s[j] + f[j] /\ d[k - 1] = s[j]
        BY <4>1
      <4> HIDE DEF d
      <4> QED BY <4>1, <4>2
    <3> QED BY <3>1, <3>2, <3>3
  <2>3. d = [k \in 0 .. j + 1 |-> d[k]]
    OBVIOUS
  <2> HIDE DEF d
  <2>4. IsTotal(d, f, j + 1)
    BY <2>2, <2>3 DEF IsTotal
  <2>5. j + 1 \in Nat
    OBVIOUS
  <2> QED BY <2>4, <2>5
<1> HIDE DEF H
<1>3. H = Nat
  BY <1>1, <1>2, Induction DEF H
<1> DEFINE s == CHOOSE s : IsTotal(s, f, n)
<1>4. \E r : IsTotal(r, f, n)
  BY <1>3 DEF H
<1>5. IsTotal(s, f, n)
  BY <1>4
<1>6. Total(f, n) = s[n]
  BY Zenon DEF Total, IsTotal
<1> HIDE DEF s
<1> QED BY <1>5, <1>6

\* The partial sums are the same whatever the length.
LEMMA TotalUnique ==
  ASSUME NEW f, NEW n \in Nat, NEW m \in Nat, NEW s, IsTotal(s, f, n), NEW r, IsTotal(r, f, m)
  PROVE  \A j \in Nat : j <= n /\ j <= m => s[j] = r[j]
<1> DEFINE H == {j \in Nat : j <= n /\ j <= m => s[j] = r[j]}
<1>1. 0 \in H
  BY DEF IsTotal
<1>2. ASSUME NEW j \in H PROVE j + 1 \in H
  <2> SUFFICES ASSUME j + 1 <= n, j + 1 <= m PROVE s[j + 1] = r[j + 1]
    OBVIOUS
  <2>1. j + 1 \in 0 .. n /\ j + 1 \in 0 .. m /\ (j + 1) - 1 = j /\ j + 1 # 0 /\ j <= n /\ j <= m
    OBVIOUS
  <2>2. s[j + 1] = s[j] + f[j] /\ r[j + 1] = r[j] + f[j]
    BY <2>1 DEF IsTotal
  <2> QED BY <2>1, <2>2
<1> HIDE DEF H
<1>3. H = Nat
  BY <1>1, <1>2, Induction DEF H
<1> QED BY <1>3 DEF H

\* A sum, term by term.
LEMMA TotalStep ==
  ASSUME NEW f, NEW n \in Nat
  PROVE  Total(f, 0) = 0 /\ Total(f, n + 1) = Total(f, n) + f[n]
<1>1. PICK s : IsTotal(s, f, n) /\ Total(f, n) = s[n]
  BY TotalExists
<1>2. PICK r : IsTotal(r, f, n + 1) /\ Total(f, n + 1) = r[n + 1]
  <2>1. n + 1 \in Nat
    OBVIOUS
  <2> QED BY <2>1, TotalExists
<1>3. PICK z : IsTotal(z, f, 0) /\ Total(f, 0) = z[0]
  BY TotalExists
<1>4. z[0] = 0
  BY <1>3 DEF IsTotal
<1>5. n + 1 \in 0 .. n + 1 /\ (n + 1) - 1 = n /\ n + 1 # 0 /\ n <= n /\ n <= n + 1 /\ n + 1 \in Nat
  OBVIOUS
<1>6. r[n + 1] = r[n] + f[n]
  BY <1>2, <1>5 DEF IsTotal
<1>7. s[n] = r[n]
  BY <1>1, <1>2, <1>5, TotalUnique
<1> QED BY <1>1, <1>2, <1>3, <1>4, <1>6, <1>7

\* What grows by the terms is the sum.
LEMMA TotalIs ==
  ASSUME NEW n \in Nat, NEW f, NEW h, h[0] = 0, \A j \in 0 .. n - 1 : h[j + 1] = h[j] + f[j]
  PROVE  \A j \in 0 .. n : Total(f, j) = h[j]
<1> DEFINE H == {j \in Nat : j <= n => Total(f, j) = h[j]}
<1>1. 0 \in H
  BY TotalStep
<1>2. ASSUME NEW j \in H PROVE j + 1 \in H
  <2> SUFFICES ASSUME j + 1 <= n PROVE Total(f, j + 1) = h[j + 1]
    OBVIOUS
  <2>1. j \in 0 .. n - 1 /\ j <= n
    OBVIOUS
  <2> QED BY <2>1, TotalStep
<1> HIDE DEF H
<1>3. H = Nat
  BY <1>1, <1>2, Induction DEF H
<1> QED BY <1>3 DEF H

\* A sum of integers is one.
LEMMA TotalInt ==
  ASSUME NEW n \in Nat, NEW f, \A j \in 0 .. n - 1 : f[j] \in Int
  PROVE  \A j \in 0 .. n : Total(f, j) \in Int
<1> DEFINE H == {j \in Nat : j <= n => Total(f, j) \in Int}
<1>1. 0 \in H
  BY TotalStep
<1>2. ASSUME NEW j \in H PROVE j + 1 \in H
  <2> SUFFICES ASSUME j + 1 <= n PROVE Total(f, j + 1) \in Int
    OBVIOUS
  <2>1. j \in 0 .. n - 1 /\ j <= n
    OBVIOUS
  <2> QED BY <2>1, TotalStep
<1> HIDE DEF H
<1>3. H = Nat
  BY <1>1, <1>2, Induction DEF H
<1> QED BY <1>3 DEF H

\* Sums of as many equal terms are equal.
LEMMA TotalSame ==
  ASSUME NEW n \in Nat, NEW f, NEW g, \A j \in 0 .. n - 1 : f[j] = g[j]
  PROVE  Total(f, n) = Total(g, n)
<1> DEFINE h == [j \in 0 .. n |-> Total(g, j)]
<1>1. h[0] = 0
  BY TotalStep
<1>2. ASSUME NEW j \in 0 .. n - 1 PROVE h[j + 1] = h[j] + f[j]
  <2>1. j \in 0 .. n /\ j + 1 \in 0 .. n /\ j \in Nat
    OBVIOUS
  <2>2. h[j + 1] = Total(g, j + 1) /\ h[j] = Total(g, j) /\ f[j] = g[j]
    BY <2>1
  <2> HIDE DEF h
  <2> QED BY <2>1, <2>2, TotalStep
<1>3. h[n] = Total(g, n) /\ n \in 0 .. n
  OBVIOUS
<1> HIDE DEF h
<1> QED BY <1>1, <1>2, <1>3, TotalIs

\* Sums are linear.
LEMMA TotalLinear ==
  ASSUME NEW n \in Nat, NEW f, NEW g, NEW h, NEW p \in Int, NEW q \in Int,
         \A j \in 0 .. n - 1 : f[j] \in Int /\ g[j] \in Int /\ h[j] = p * f[j] + q * g[j]
  PROVE  Total(h, n) = p * Total(f, n) + q * Total(g, n)
<1> DEFINE r == [j \in 0 .. n |-> p * Total(f, j) + q * Total(g, j)]
<1>1. \A j \in 0 .. n : Total(f, j) \in Int /\ Total(g, j) \in Int
  BY TotalInt
<1>2. r[0] = 0
  BY TotalStep
<1>3. ASSUME NEW j \in 0 .. n - 1 PROVE r[j + 1] = r[j] + h[j]
  <2>1. j \in 0 .. n /\ j + 1 \in 0 .. n /\ j \in Nat
    OBVIOUS
  <2>2. Total(f, j + 1) = Total(f, j) + f[j] /\ Total(g, j + 1) = Total(g, j) + g[j]
    BY <2>1, TotalStep
  <2> DEFINE a == Total(f, j)
             b == Total(g, j)
             c == f[j]
             d == g[j]
  <2>3. a \in Int /\ b \in Int /\ c \in Int /\ d \in Int /\ h[j] = p * c + q * d
    BY <1>1, <2>1
  <2>4. r[j + 1] = p * (a + c) + q * (b + d) /\ r[j] = p * a + q * b
    BY <2>1, <2>2
  <2> HIDE DEF a, b, c, d, r
  <2>5. p * (a + c) = p * a + p * c /\ q * (b + d) = q * b + q * d
    BY <2>3
  <2>6. p * a \in Int /\ p * c \in Int /\ q * b \in Int /\ q * d \in Int
    BY <2>3
  <2> QED BY <2>3, <2>4, <2>5, <2>6
<1>4. r[n] = p * Total(f, n) + q * Total(g, n) /\ n \in 0 .. n
  OBVIOUS
<1> HIDE DEF r
<1> QED BY <1>2, <1>3, <1>4, TotalIs

\* A sum of terms that are not negative is at least each of them.
LEMMA TotalNat ==
  ASSUME NEW n \in Nat, NEW f, \A j \in 0 .. n - 1 : f[j] \in Nat
  PROVE  /\ \A j \in 0 .. n : Total(f, j) \in Nat
         /\ \A i \in 0 .. n - 1 : f[i] <= Total(f, n)
<1>1. \A j \in 0 .. n : Total(f, j) \in Nat
  <2> DEFINE H == {j \in Nat : j <= n => Total(f, j) \in Nat}
  <2>1. 0 \in H
    BY TotalStep
  <2>2. ASSUME NEW j \in H PROVE j + 1 \in H
    <3> SUFFICES ASSUME j + 1 <= n PROVE Total(f, j + 1) \in Nat
      OBVIOUS
    <3>1. j \in 0 .. n - 1 /\ j <= n
      OBVIOUS
    <3> QED BY <3>1, TotalStep
  <2> HIDE DEF H
  <2>3. H = Nat
    BY <2>1, <2>2, Induction DEF H
  <2> QED BY <2>3 DEF H
<1>2. ASSUME NEW i \in 0 .. n - 1 PROVE f[i] <= Total(f, n)
  <2> DEFINE H == {j \in Nat : i < j /\ j <= n => f[i] <= Total(f, j)}
  <2>1. 0 \in H
    OBVIOUS
  <2>2. ASSUME NEW j \in H PROVE j + 1 \in H
    <3> SUFFICES ASSUME i < j + 1, j + 1 <= n PROVE f[i] <= Total(f, j + 1)
      OBVIOUS
    <3>1. j \in 0 .. n - 1 /\ j <= n /\ j \in 0 .. n
      OBVIOUS
    <3>2. Total(f, j + 1) = Total(f, j) + f[j] /\ Total(f, j) \in Nat /\ f[j] \in Nat /\ f[i] \in Nat
      BY <1>1, <3>1, TotalStep
    <3>3. CASE i = j
      BY <3>2, <3>3
    <3>4. CASE i < j
      BY <3>1, <3>2, <3>4
    <3> QED BY <3>3, <3>4
  <2> HIDE DEF H
  <2>3. H = Nat
    BY <2>1, <2>2, Induction DEF H
  <2> QED BY <2>3 DEF H
<1> QED BY <1>1, <1>2

\* A multiple of every term makes a multiple of the sum.
LEMMA TotalScaled ==
  ASSUME NEW n \in Nat, NEW f, NEW h, NEW p \in Int, \A j \in 0 .. n - 1 : f[j] \in Int /\ h[j] = p * f[j]
  PROVE  Total(h, n) = p * Total(f, n)
<1> DEFINE r == [j \in 0 .. n |-> p * Total(f, j)]
<1>1. \A j \in 0 .. n : Total(f, j) \in Int
  BY TotalInt
<1>2. r[0] = 0
  BY TotalStep
<1>3. ASSUME NEW j \in 0 .. n - 1 PROVE r[j + 1] = r[j] + h[j]
  <2>1. j \in 0 .. n /\ j + 1 \in 0 .. n /\ j \in Nat
    OBVIOUS
  <2>2. Total(f, j + 1) = Total(f, j) + f[j]
    BY <2>1, TotalStep
  <2> DEFINE a == Total(f, j)
             c == f[j]
  <2>3. a \in Int /\ c \in Int /\ h[j] = p * c
    BY <1>1, <2>1
  <2>4. r[j + 1] = p * (a + c) /\ r[j] = p * a
    BY <2>1, <2>2
  <2> HIDE DEF a, c, r
  <2>5. p * (a + c) = p * a + p * c
    BY <2>3
  <2> QED BY <2>3, <2>4, <2>5
<1>4. r[n] = p * Total(f, n) /\ n \in 0 .. n
  OBVIOUS
<1> HIDE DEF r
<1>5. \A j \in 0 .. n : Total(h, j) = r[j]
  BY <1>2, <1>3, TotalIs
<1> QED BY <1>4, <1>5

\* Quotient and remainder are determined.
LEMMA DivisionUnique ==
  ASSUME NEW d \in Nat \ {0}, NEW q \in Int, NEW r \in 0 .. d - 1, NEW a, a = d * q + r
  PROVE  a \div d = q /\ a % d = r
<1> DEFINE p == a \div d
           s == a % d
<1>1. a \in Int
  OBVIOUS
<1>2. p \in Int /\ s \in 0 .. d - 1 /\ a = d * p + s
  BY <1>1
<1> HIDE DEF p, s
<1>3. d * (q - p) = s - r
  <2>1. d * (q - p) = d * q - d * p
    BY <1>2
  <2> QED BY <1>2, <2>1
<1>4. CASE q > p
  <2>1. q - p \in Nat /\ 1 <= q - p
    BY <1>2, <1>4
  <2>2. 1 * d <= (q - p) * d
    BY <2>1, Times
  <2> QED BY <1>2, <1>3, <2>1, <2>2
<1>5. CASE q < p
  <2>1. p - q \in Nat /\ 1 <= p - q
    BY <1>2, <1>5
  <2>2. 1 * d <= (p - q) * d
    BY <2>1, Times
  <2>3. (p - q) * d = 0 - d * (q - p)
    BY <1>2
  <2> QED BY <1>2, <1>3, <2>1, <2>2, <2>3
<1>6. CASE q = p
  BY <1>2, <1>3, <1>6
<1>7. q = p /\ r = s
  BY <1>2, <1>3, <1>4, <1>5, <1>6
<1> QED BY <1>7 DEF p, s

\* Division by a product, in two steps.
LEMMA QuotientByProduct ==
  ASSUME NEW v \in Nat, NEW w \in Nat \ {0}, NEW b \in Nat \ {0}
  PROVE  v \div (w * b) = (v \div w) \div b
<1> DEFINE q == v \div w
           r == v % w
<1>1. q \in Nat /\ r \in 0 .. w - 1 /\ v = (w * q) + r
  BY Division
<1> HIDE DEF q, r
<1> DEFINE p == q \div b
           s == q % b
<1>2. p \in Nat /\ s \in 0 .. b - 1 /\ q = (b * p) + s
  BY <1>1, Division
<1> HIDE DEF p, s
<1>3. w * b \in Nat \ {0} /\ v = (w * b) * p + (r + s * w)
  <2>1. w * (b * p + s) = (w * b) * p + s * w /\ w * b \in Nat \ {0}
    <3>1. b * p \in Int /\ s \in Int /\ w * b \in Nat \ {0}
      BY <1>2
    <3>2. w * (b * p + s) = w * (b * p) + w * s
      BY <3>1
    <3>3. w * (b * p) = (w * b) * p /\ w * s = s * w
      BY <1>2, <3>1
    <3> QED BY <3>1, <3>2, <3>3
  <2>2. (w * b) * p \in Int /\ s * w \in Int
    <3> DEFINE e == w * b
    <3>1. e \in Nat
      BY <2>1
    <3> HIDE DEF e
    <3>2. e * p \in Int /\ s * w \in Int
      BY <1>2, <3>1
    <3> QED BY <3>2 DEF e
  <2> QED BY <1>1, <1>2, <2>1, <2>2
<1>4. r + s * w \in 0 .. (w * b) - 1
  <2>1. s * w <= (b - 1) * w /\ s * w \in Nat
    <3>1. s \in Nat /\ b - 1 \in Nat /\ s <= b - 1
      BY <1>2
    <3> QED BY <3>1, Times
  <2>2. (b - 1) * w = w * b - w
    OBVIOUS
  <2> QED BY <1>1, <1>3, <2>1, <2>2
<1> DEFINE e == w * b
           k == r + s * w
<1>5. e \in Nat \ {0} /\ k \in 0 .. e - 1 /\ v = e * p + k /\ p \in Int
  BY <1>2, <1>3, <1>4
<1> HIDE DEF e, k
<1>6. v \div e = p
  BY <1>5, DivisionUnique
<1> QED BY <1>6 DEF e, p, q

\* A remainder by a product, from the remainders by its factors.
LEMMA RemainderByProduct ==
  ASSUME NEW v \in Nat, NEW w \in Nat \ {0}, NEW b \in Nat \ {0}
  PROVE  v % (w * b) = (v % w) + ((v \div w) % b) * w
<1> DEFINE q == v \div w
           p == q \div b
           s == q % b
           r == v % w
           e == w * b
           t == v % e
<1>1. q \in Nat /\ v = w * q + r /\ r \in Nat
  BY Division
<1>2. v \div e = p /\ e \in Nat \ {0}
  BY QuotientByProduct
<1>3. p \in Nat /\ s \in Nat /\ q = b * p + s
  <2> HIDE DEF q
  <2>1. p \in Nat /\ s \in 0 .. b - 1 /\ q = (b * p) + s
    BY <1>1, Division
  <2> QED BY <2>1
<1> HIDE DEF q, p, r, s
<1>4. v = e * p + t /\ t \in Int
  <2> HIDE DEF e
  <2>1. v \div e \in Nat /\ v % e \in 0 .. e - 1 /\ v = (e * (v \div e)) + (v % e)
    BY <1>2, Division
  <2> QED BY <1>2, <2>1
<1>5. w * q = e * p + s * w
  <2>1. b * p \in Int /\ w * (b * p) = (w * b) * p /\ w * s = s * w
    BY <1>3
  <2>2. w * (b * p + s) = w * (b * p) + w * s
    BY <1>3, <2>1
  <2> QED BY <1>3, <2>1, <2>2
<1> HIDE DEF e, t
<1>6. e * p \in Int /\ s * w \in Int
  BY <1>2, <1>3
<1>7. t = r + s * w
  <2> DEFINE f == e * p
             g == s * w
             h == w * q
  <2>1. f \in Int /\ g \in Int /\ h = f + g /\ v = h + r /\ v = f + t /\ t \in Int /\ r \in Int
    BY <1>1, <1>4, <1>5, <1>6
  <2> HIDE DEF f, g, h
  <2>2. t = r + g
    BY <2>1
  <2> QED BY <2>2 DEF g
<1> QED BY <1>7 DEF e, t, r, s, q

-----------------------------------------------------------------------------
(* Sums, weights, and what limbs are worth. *)

\* What the first n of a list of limbs are worth; of a scalar, its value.
Worth(f, n) == Total([i \in 0 .. n - 1 |-> f[i] * Weight(i)], n)

\* The shape of the scalars, as the proofs use it.
LEMMA Shape ==
  /\ J \in Nat \ {0} /\ L \in Nat /\ L = 2 * J /\ L >= 2 /\ W \in Nat /\ W >= 3
  /\ D = 0 .. L - 1 /\ 0 \in D /\ L - 1 \in D /\ J \in D
  /\ Base \in Nat \ {0} /\ Base >= 8 /\ L < Base
<1>1. J \in Nat \ {0} /\ L = 2 * J /\ W \in Nat /\ W >= 3 /\ L < Base
  BY ShapeAssumption
<1>2. Base \in Nat \ {0}
  BY <1>1, PowerIsNat DEF Base
<1>3. 2^3 <= 2^W
  BY <1>1, PowerMono
<1>4. 2^1 = 2 /\ 2^2 = 4 /\ 2^3 = 8
  <2>1. 2^(0 + 1) = 2 * 2^0 /\ 2^(1 + 1) = 2 * 2^1 /\ 2^(2 + 1) = 2 * 2^2
    BY PowerNext
  <2>2. 0 + 1 = 1 /\ 1 + 1 = 2 /\ 2 + 1 = 3
    OBVIOUS
  <2> QED BY <2>1, <2>2, PowerZero
<1> QED BY <1>1, <1>2, <1>3, <1>4 DEF Base, D

\* The weights are powers of the base.
LEMMA Weights ==
  /\ \A i \in Nat : Weight(i) \in Nat \ {0} /\ Weight(i + 1) = Weight(i) * Base
  /\ \A i, j \in Nat : Weight(i + j) = Weight(i) * Weight(j)
  /\ Weight(0) = 1 /\ Weight(1) = Base /\ Weight(2) = Base * Base /\ Weight(3) = Base * Base * Base
<1>0. W \in Nat
  BY Shape
<1>1. ASSUME NEW i \in Nat, NEW j \in Nat PROVE Weight(i + j) = Weight(i) * Weight(j) /\ Weight(i) \in Nat \ {0}
  <2>1. W * (i + j) = W * i + W * j /\ W * i \in Nat /\ W * j \in Nat
    BY <1>0
  <2> QED BY <2>1, PowerSum, PowerIsNat DEF Weight
<1>2. Weight(0) = 1 /\ Weight(1) = Base
  <2>1. W * 0 = 0 /\ W * 1 = W
    BY <1>0
  <2> QED BY <2>1, PowerZero DEF Weight, Base
<1>3. ASSUME NEW i \in Nat PROVE Weight(i + 1) = Weight(i) * Base
  BY <1>1, <1>2
<1>4. Weight(2) = Base * Base /\ Weight(3) = Base * Base * Base
  <2>1. 1 + 1 = 2 /\ 2 + 1 = 3
    OBVIOUS
  <2> QED BY <1>2, <1>3, <2>1
<1> QED BY <1>1, <1>2, <1>3, <1>4

\* The same, one by one.
LEMMA SmallWeights ==
  Weight(0) = 1 /\ Weight(1) = Base /\ Weight(2) = Base * Base /\ Weight(3) = Base * Base * Base
BY Weights

\* Each weight is Base times the one before.
LEMMA WeightNext ==
  ASSUME NEW i \in Nat
  PROVE  Weight(i + 1) = Weight(i) * Base
BY Weights

\* Weights multiply as their indices add.
LEMMA WeightSum ==
  ASSUME NEW i \in Nat, NEW j \in Nat
  PROVE  Weight(i + j) = Weight(i) * Weight(j)
BY Weights

\* A weight is a positive number.
LEMMA WeightOf ==
  ASSUME NEW i \in Nat
  PROVE  Weight(i) \in Nat \ {0} /\ Weight(i) \in Nat /\ Weight(i) \in Int /\ Weight(i) > 0
<1>1. Weight(i) \in Nat \ {0}
  BY Weights
<1> QED BY <1>1

\* A higher limb weighs no less.
LEMMA WeightMono ==
  ASSUME NEW i \in Nat, NEW j \in Nat, i <= j
  PROVE  Weight(i) <= Weight(j) /\ Weight(i) \in Nat \ {0} /\ Weight(j) \in Nat \ {0}
<1>1. W * i \in Nat /\ W * j \in Nat /\ W * i <= W * j
  <2>1. i * W <= j * W /\ i * W \in Nat /\ j * W \in Nat
    BY Shape, Times
  <2> QED BY <2>1, Shape
<1> QED BY <1>1, PowerMono, Weights DEF Weight

\* The worth of limbs, limb by limb.
LEMMA WorthStep ==
  ASSUME NEW f, NEW n \in Nat
  PROVE  Worth(f, 0) = 0 /\ Worth(f, n + 1) = Worth(f, n) + f[n] * Weight(n)
<1> DEFINE g == [i \in 0 .. n |-> f[i] * Weight(i)]
           h == [i \in 0 .. n - 1 |-> f[i] * Weight(i)]
<1>1. Worth(f, n + 1) = Total(g, n + 1) /\ Worth(f, n) = Total(h, n)
  <2>1. (n + 1) - 1 = n
    OBVIOUS
  <2> QED BY <2>1 DEF Worth
<1>2. \A j \in 0 .. n - 1 : g[j] = h[j]
  OBVIOUS
<1>3. g[n] = f[n] * Weight(n)
  OBVIOUS
<1> HIDE DEF g, h
<1>4. Total(g, n) = Total(h, n)
  BY <1>2, TotalSame
<1>5. Total(g, n + 1) = Total(g, n) + g[n]
  BY TotalStep
<1>6. Worth(f, 0) = 0
  BY TotalStep DEF Worth
<1> QED BY <1>1, <1>3, <1>4, <1>5, <1>6

\* No limbs are worth nothing.
LEMMA WorthZero ==
  ASSUME NEW f
  PROVE  Worth(f, 0) = 0
BY WorthStep

\* What grows with each limb by its worth is the worth.
LEMMA WorthIs ==
  ASSUME NEW n \in Nat, NEW f, NEW h, h[0] = 0, \A j \in 0 .. n - 1 : h[j + 1] = h[j] + f[j] * Weight(j)
  PROVE  \A j \in 0 .. n : Worth(f, j) = h[j]
<1> DEFINE H == {j \in Nat : j <= n => Worth(f, j) = h[j]}
<1>1. 0 \in H
  BY WorthStep
<1>2. ASSUME NEW j \in H PROVE j + 1 \in H
  <2> SUFFICES ASSUME j + 1 <= n PROVE Worth(f, j + 1) = h[j + 1]
    OBVIOUS
  <2>1. j \in 0 .. n - 1 /\ j <= n
    OBVIOUS
  <2> QED BY <2>1, WorthStep
<1> HIDE DEF H
<1>3. H = Nat
  BY <1>1, <1>2, Induction DEF H
<1> QED BY <1>3 DEF H

\* Limbs that are the same are worth the same.
LEMMA WorthSame ==
  ASSUME NEW n \in Nat, NEW f, NEW g, \A i \in 0 .. n - 1 : f[i] = g[i]
  PROVE  Worth(f, n) = Worth(g, n)
<1>1. \A i \in 0 .. n - 1 : [j \in 0 .. n - 1 |-> f[j] * Weight(j)][i] = [j \in 0 .. n - 1 |-> g[j] * Weight(j)][i]
  OBVIOUS
<1> QED BY <1>1, TotalSame DEF Worth

\* The value of a scalar is the worth of its limbs.
LEMMA ValueIsWorth ==
  ASSUME NEW f
  PROVE  Value(f) = Worth(f, L)
BY DEF Value, Worth, D

\* The worth of integers is one, of naturals too.
LEMMA WorthInt ==
  ASSUME NEW n \in Nat, NEW f
  PROVE  /\ (\A i \in 0 .. n - 1 : f[i] \in Int) => \A j \in 0 .. n : Worth(f, j) \in Int
         /\ (\A i \in 0 .. n - 1 : f[i] \in Nat) => \A j \in 0 .. n : Worth(f, j) \in Nat
<1>1. ASSUME \A i \in 0 .. n - 1 : f[i] \in Int PROVE \A j \in 0 .. n : Worth(f, j) \in Int
  <2> DEFINE H == {j \in Nat : j <= n => Worth(f, j) \in Int}
  <2>1. 0 \in H
    BY WorthStep
  <2>2. ASSUME NEW j \in H PROVE j + 1 \in H
    <3> SUFFICES ASSUME j + 1 <= n PROVE Worth(f, j + 1) \in Int
      OBVIOUS
    <3>1. f[j] \in Int /\ Weight(j) \in Int /\ Worth(f, j) \in Int
      BY <1>1, Weights
    <3>2. f[j] * Weight(j) \in Int
      BY <3>1
    <3> QED BY <3>1, <3>2, WorthStep
  <2> HIDE DEF H
  <2>3. H = Nat
    BY <2>1, <2>2, Induction DEF H
  <2> QED BY <2>3 DEF H
<1>2. ASSUME \A i \in 0 .. n - 1 : f[i] \in Nat PROVE \A j \in 0 .. n : Worth(f, j) \in Nat
  <2> DEFINE H == {j \in Nat : j <= n => Worth(f, j) \in Nat}
  <2>1. 0 \in H
    BY WorthStep
  <2>2. ASSUME NEW j \in H PROVE j + 1 \in H
    <3> SUFFICES ASSUME j + 1 <= n PROVE Worth(f, j + 1) \in Nat
      OBVIOUS
    <3>1. f[j] \in Nat /\ Weight(j) \in Nat /\ Worth(f, j) \in Nat
      BY <1>2, Weights
    <3>2. f[j] * Weight(j) \in Nat
      BY <3>1
    <3> QED BY <3>1, <3>2, WorthStep
  <2> HIDE DEF H
  <2>3. H = Nat
    BY <2>1, <2>2, Induction DEF H
  <2> QED BY <2>3 DEF H
<1> QED BY <1>1, <1>2

\* Limbs are worth less than the weight above them.
LEMMA WorthBelow ==
  ASSUME NEW n \in Nat, NEW f, \A i \in 0 .. n - 1 : f[i] \in 0 .. Base - 1
  PROVE  \A j \in 0 .. n : Worth(f, j) \in 0 .. Weight(j) - 1
<1> DEFINE H == {j \in Nat : j <= n => Worth(f, j) \in 0 .. Weight(j) - 1}
<1>1. 0 \in H
  <2>1. Worth(f, 0) = 0 /\ Weight(0) = 1 /\ 0 \in 0 .. 1 - 1
    BY WorthStep, Weights
  <2> QED BY <2>1
<1>2. ASSUME NEW j \in H PROVE j + 1 \in H
  <2> SUFFICES ASSUME j + 1 <= n PROVE Worth(f, j + 1) \in 0 .. Weight(j + 1) - 1
    OBVIOUS
  <2> DEFINE w == Weight(j)
             v == f[j]
             e == Base
             p == Worth(f, j)
  <2>1. w \in Nat \ {0} /\ v \in Nat /\ v <= e - 1 /\ e - 1 \in Nat /\ e \in Nat /\ p \in 0 .. w - 1
    BY Weights, Shape
  <2>2. Worth(f, j + 1) = p + v * w /\ Weight(j + 1) = w * e
    BY WorthStep, Weights
  <2> HIDE DEF w, v, e, p
  <2>3. v * w <= (e - 1) * w /\ v * w \in Nat
    BY <2>1, Times
  <2>4. (e - 1) * w = w * e - w
    BY <2>1
  <2>5. w * e \in Int
    BY <2>1
  <2> QED BY <2>1, <2>2, <2>3, <2>4, <2>5
<1> HIDE DEF H
<1>3. H = Nat
  BY <1>1, <1>2, Induction DEF H
<1> QED BY <1>3 DEF H

\* The worth of more limbs is that of fewer, and a multiple of the weight above those.
LEMMA WorthAbove ==
  ASSUME NEW n \in Nat, NEW f, \A i \in 0 .. n - 1 : f[i] \in Nat, NEW k \in 0 .. n
  PROVE  \E q \in Nat : Worth(f, n) = Weight(k) * q + Worth(f, k)
<1> DEFINE w == Weight(k)
           H == {j \in Nat : j <= n - k => \E q \in Nat : Worth(f, k + j) = w * q + Worth(f, k)}
<1>0. w \in Nat \ {0} /\ Worth(f, k) \in Nat
  <2>1. k \in Nat
    OBVIOUS
  <2> QED BY <2>1, Weights, WorthInt
<1>1. 0 \in H
  <2>1. k + 0 = k /\ Worth(f, k) = w * 0 + Worth(f, k)
    BY <1>0
  <2> QED BY <2>1
<1>2. ASSUME NEW j \in H PROVE j + 1 \in H
  <2> SUFFICES ASSUME j + 1 <= n - k PROVE \E q \in Nat : Worth(f, k + (j + 1)) = w * q + Worth(f, k)
    OBVIOUS
  <2>1. PICK q \in Nat : Worth(f, k + j) = w * q + Worth(f, k)
    OBVIOUS
  <2>2. k + j \in Nat /\ k + (j + 1) = (k + j) + 1 /\ k + j \in 0 .. n - 1
    OBVIOUS
  <2> DEFINE z == Weight(j)
             v == f[k + j]
             p == Worth(f, k)
  <2>3. v \in Nat /\ z \in Nat /\ p \in Nat
    BY <1>0, <2>2, Weights
  <2>4. Worth(f, k + (j + 1)) = (w * q + p) + v * (w * z)
    <3>1. Weight(k + j) = w * z
      <4>1. k \in Nat /\ j \in Nat
        OBVIOUS
      <4> QED BY <4>1, Weights
    <3>2. Worth(f, (k + j) + 1) = Worth(f, k + j) + f[k + j] * Weight(k + j)
      BY <2>2, WorthStep
    <3> QED BY <2>1, <2>2, <3>1, <3>2
  <2> HIDE DEF w, z, v, p
  <2>5. v * z \in Nat /\ q + v * z \in Nat
    BY <2>3
  <2>6. w * (q + v * z) = w * q + v * (w * z)
    BY <1>0, <2>3
  <2>7. w * q \in Int /\ v * (w * z) \in Int
    <3>1. w * q \in Int /\ w * z \in Int
      BY <1>0, <2>3
    <3> QED BY <2>3, <3>1
  <2>8. Worth(f, k + (j + 1)) = w * (q + v * z) + p
    BY <2>3, <2>4, <2>6, <2>7
  <2> QED BY <2>5, <2>8 DEF p
<1> HIDE DEF H
<1>3. H = Nat
  BY <1>1, <1>2, Induction DEF H
<1>4. n - k \in Nat /\ k + (n - k) = n
  OBVIOUS
<1>5. n - k \in H
  BY <1>3, <1>4
<1> QED BY <1>4, <1>5 DEF H

\* What is left of the worth of limbs below one of them, and that limb.
LEMMA LimbOfWorth ==
  ASSUME NEW n \in Nat, NEW f, \A i \in 0 .. n - 1 : f[i] \in 0 .. Base - 1
  PROVE  /\ \A k \in 0 .. n : Worth(f, n) % Weight(k) = Worth(f, k)
         /\ \A k \in 0 .. n - 1 : (Worth(f, n) \div Weight(k)) % Base = f[k]
<1>1. ASSUME NEW k \in 0 .. n PROVE Worth(f, n) % Weight(k) = Worth(f, k)
  <2>1. PICK q \in Nat : Worth(f, n) = Weight(k) * q + Worth(f, k)
    <3>1. \A i \in 0 .. n - 1 : f[i] \in Nat
      BY Shape
    <3> QED BY <3>1, WorthAbove
  <2>2. Worth(f, k) \in 0 .. Weight(k) - 1 /\ Weight(k) \in Nat \ {0} /\ q \in Int
    <3>1. k \in Nat
      OBVIOUS
    <3>2. Worth(f, k) \in 0 .. Weight(k) - 1
      BY WorthBelow
    <3> QED BY <3>1, <3>2, WeightOf
  <2> QED BY <2>1, <2>2, DivisionUnique
<1>2. ASSUME NEW k \in 0 .. n - 1 PROVE (Worth(f, n) \div Weight(k)) % Base = f[k]
  <2> DEFINE v == Worth(f, n)
             w == Weight(k)
             e == Base
             t == (v \div w) % e
  <2>1. v \in Nat /\ w \in Nat \ {0} /\ e \in Nat \ {0}
    <3>1. k \in Nat /\ n \in 0 .. n
      OBVIOUS
    <3>2. \A i \in 0 .. n - 1 : f[i] \in Nat
      BY Shape
    <3> QED BY <3>1, <3>2, Weights, Shape, WorthInt
  <2>2. v % (w * e) = (v % w) + t * w
    BY <2>1, RemainderByProduct
  <2>3. w * e = Weight(k + 1) /\ k + 1 \in 0 .. n /\ k \in 0 .. n
    BY Weights
  <2>4. v % (w * e) = Worth(f, k + 1) /\ v % w = Worth(f, k) /\ Worth(f, k) \in Nat
    BY <1>1, <2>3, WorthInt
  <2>5. Worth(f, k + 1) = Worth(f, k) + f[k] * w
    BY WorthStep
  <2>6. t \in Nat /\ f[k] \in Nat
    <3>1. v \div w \in Nat
      BY <2>1, Division
    <3> QED BY <2>1, <3>1, Division
  <2> HIDE DEF v, w, t, e
  <2>7. t * w = f[k] * w
    <3>1. t * w \in Int /\ f[k] * w \in Int
      BY <2>1, <2>6
    <3> QED BY <2>2, <2>4, <2>5, <3>1
  <2>8. t = f[k]
    BY <2>1, <2>6, <2>7
  <2> QED BY <2>8 DEF t, v, w, e
<1> QED BY <1>1, <1>2

\* Limbs that are worth the same are the same.
LEMMA WorthUnique ==
  ASSUME NEW n \in Nat, NEW f, NEW g, Worth(f, n) = Worth(g, n),
         \A i \in 0 .. n - 1 : f[i] \in 0 .. Base - 1 /\ g[i] \in 0 .. Base - 1
  PROVE  \A i \in 0 .. n - 1 : f[i] = g[i]
BY LimbOfWorth

\* The limbs of a number, and what is left of it above them.
LEMMA LimbsOfNumber ==
  ASSUME NEW v \in Nat, NEW n \in Nat, NEW f, \A i \in 0 .. n - 1 : f[i] = (v \div Weight(i)) % Base
  PROVE  Worth(f, n) = v % Weight(n)
<1> DEFINE h == [j \in 0 .. n |-> v % Weight(j)]
<1>1. h[0] = 0
  <2>1. v % 1 = 0
    OBVIOUS
  <2> QED BY <2>1, Weights
<1>2. ASSUME NEW j \in 0 .. n - 1 PROVE h[j + 1] = h[j] + f[j] * Weight(j)
  <2>1. Weight(j) \in Nat \ {0} /\ Base \in Nat \ {0} /\ Weight(j + 1) = Weight(j) * Base
    <3>1. j \in Nat
      OBVIOUS
    <3> QED BY <3>1, Weights, Shape
  <2>2. v % (Weight(j) * Base) = (v % Weight(j)) + ((v \div Weight(j)) % Base) * Weight(j)
    BY <2>1, RemainderByProduct
  <2>3. j \in 0 .. n /\ j + 1 \in 0 .. n
    OBVIOUS
  <2> QED BY <2>1, <2>2, <2>3
<1>3. h[n] = v % Weight(n) /\ n \in 0 .. n
  OBVIOUS
<1> HIDE DEF h
<1> QED BY <1>1, <1>2, <1>3, WorthIs

\* The worth is linear.
LEMMA WorthLinear ==
  ASSUME NEW n \in Nat, NEW f, NEW g, NEW h, NEW p \in Int, NEW q \in Int,
         \A i \in 0 .. n - 1 : f[i] \in Int /\ g[i] \in Int /\ h[i] = p * f[i] + q * g[i]
  PROVE  Worth(h, n) = p * Worth(f, n) + q * Worth(g, n)
<1> DEFINE F == [i \in 0 .. n - 1 |-> f[i] * Weight(i)]
           G == [i \in 0 .. n - 1 |-> g[i] * Weight(i)]
           K == [i \in 0 .. n - 1 |-> h[i] * Weight(i)]
<1>1. ASSUME NEW i \in 0 .. n - 1 PROVE F[i] \in Int /\ G[i] \in Int /\ K[i] = p * F[i] + q * G[i]
  <2>1. f[i] \in Int /\ g[i] \in Int /\ h[i] = p * f[i] + q * g[i] /\ Weight(i) \in Int
    <3>1. i \in Nat
      OBVIOUS
    <3>2. Weight(i) \in Int
      BY <3>1, WeightOf
    <3> QED BY <3>2
  <2>2. F[i] = f[i] * Weight(i) /\ G[i] = g[i] * Weight(i) /\ K[i] = h[i] * Weight(i)
    OBVIOUS
  <2> DEFINE u == f[i]
             v == g[i]
             w == Weight(i)
  <2> HIDE DEF u, v, w, F, G, K
  <2>3. u \in Int /\ v \in Int /\ w \in Int /\ F[i] = u * w /\ G[i] = v * w /\ K[i] = (p * u + q * v) * w
    BY <2>1, <2>2 DEF u, v, w
  <2>4. p * u \in Int /\ q * v \in Int /\ u * w \in Int /\ v * w \in Int
    BY <2>3
  <2>5. (p * u + q * v) * w = (p * u) * w + (q * v) * w
    BY <2>3, <2>4
  <2>6. (p * u) * w = p * (u * w) /\ (q * v) * w = q * (v * w)
    BY <2>3
  <2> QED BY <2>3, <2>4, <2>5, <2>6
<1> HIDE DEF F, G, K
<1>2. Total(K, n) = p * Total(F, n) + q * Total(G, n)
  BY <1>1, TotalLinear
<1> QED BY <1>2 DEF Worth, F, G, K

\* The worth of a sum.
LEMMA WorthSum ==
  ASSUME NEW n \in Nat, NEW f, NEW g, NEW h, \A i \in 0 .. n - 1 : f[i] \in Int /\ g[i] \in Int /\ h[i] = f[i] + g[i]
  PROVE  Worth(h, n) = Worth(f, n) + Worth(g, n)
<1>1. \A i \in 0 .. n - 1 : f[i] \in Int /\ g[i] \in Int /\ h[i] = 1 * f[i] + 1 * g[i]
  OBVIOUS
<1>2. Worth(h, n) = 1 * Worth(f, n) + 1 * Worth(g, n)
  <2>1. 1 \in Int
    OBVIOUS
  <2> QED BY <1>1, <2>1, WorthLinear
<1>3. Worth(f, n) \in Int /\ Worth(g, n) \in Int
  <2>1. n \in 0 .. n
    OBVIOUS
  <2> QED BY <1>1, <2>1, WorthInt
<1> QED BY <1>2, <1>3

-----------------------------------------------------------------------------
(* The order and its limbs. *)

Differ(f, g, n) == \E i \in 0 .. n - 1 : f[i] # g[i]
DifferLast(f, g, n, i) == i \in 0 .. n - 1 /\ f[i] # g[i] /\ \A j \in i + 1 .. n - 1 : f[j] = g[j]

\* Of two lists of limbs that differ, the highest that does.
LEMMA TopDifference ==
  ASSUME NEW n \in Nat, NEW f, NEW g, Differ(f, g, n)
  PROVE  \E i : DifferLast(f, g, n, i)
<1> DEFINE X == {m \in Nat : m <= n - 1 /\ f[(n - 1) - m] # g[(n - 1) - m]}
<1>1. PICK i \in 0 .. n - 1 : f[i] # g[i]
  BY DEF Differ
<1>2. (n - 1) - ((n - 1) - i) = i /\ (n - 1) - i \in Nat /\ (n - 1) - i <= n - 1
  OBVIOUS
<1>3. X # {} /\ X \in SUBSET Nat
  BY <1>1, <1>2
<1>4. PICK m \in X : \A k \in X : m <= k
  BY <1>3, LeastNatural
<1>5. (n - 1) - m \in 0 .. n - 1 /\ f[(n - 1) - m] # g[(n - 1) - m]
  OBVIOUS
<1>6. ASSUME NEW j \in ((n - 1) - m) + 1 .. n - 1 PROVE f[j] = g[j]
  <2>1. (n - 1) - j \in Nat /\ (n - 1) - j <= n - 1 /\ (n - 1) - j < m /\ (n - 1) - ((n - 1) - j) = j
    OBVIOUS
  <2>2. (n - 1) - j \notin X
    <3>1. ASSUME NEW k \in X, k < m PROVE FALSE
      <4>1. m <= k /\ k \in Nat /\ m \in Nat
        BY <1>3, <1>4
      <4> QED BY <3>1, <4>1
    <3> QED BY <2>1, <3>1
  <2> QED BY <2>1, <2>2
<1>7. DifferLast(f, g, n, (n - 1) - m)
  BY <1>5, <1>6 DEF DifferLast
<1> QED BY <1>7

\* Limbs with a larger one at the highest difference are worth more.
LEMMA WorthOrder ==
  ASSUME NEW n \in Nat, NEW f, NEW g, \A i \in 0 .. n - 1 : f[i] \in 0 .. Base - 1 /\ g[i] \in 0 .. Base - 1,
         NEW i \in 0 .. n - 1, f[i] > g[i], \A j \in i + 1 .. n - 1 : f[j] = g[j]
  PROVE  Worth(f, n) > Worth(g, n)
<1>0. \A k \in 0 .. n : Worth(f, k) \in Nat /\ Worth(g, k) \in Nat
  <2>1. \A k \in 0 .. n - 1 : f[k] \in Nat /\ g[k] \in Nat
    BY Shape
  <2> QED BY <2>1, WorthInt
<1> DEFINE H == {j \in Nat : i + 1 + j <= n => Worth(f, i + 1 + j) > Worth(g, i + 1 + j)}
<1>1. 0 \in H
  <2> DEFINE w == Weight(i)
             p == Worth(f, i)
             q == Worth(g, i)
             u == f[i]
             v == g[i]
  <2>1. p \in Nat /\ q \in 0 .. w - 1 /\ w \in Nat \ {0} /\ u \in Nat /\ v \in Nat /\ v + 1 <= u
    <3>1. i \in Nat /\ i \in 0 .. n
      OBVIOUS
    <3>2. Worth(g, i) \in 0 .. Weight(i) - 1
      BY <3>1, WorthBelow
    <3>3. f[i] \in Nat /\ g[i] \in Nat
      BY Shape
    <3> QED BY <1>0, <3>1, <3>2, <3>3, WeightOf
  <2>2. Worth(f, i + 1) = p + u * w /\ Worth(g, i + 1) = q + v * w /\ i + 1 + 0 = i + 1
    BY WorthStep
  <2> HIDE DEF w, p, q, u, v
  <2>3. (v + 1) * w <= u * w /\ u * w \in Nat
    BY <2>1, Times
  <2>4. (v + 1) * w = v * w + w /\ v * w \in Nat
    BY <2>1
  <2>5. Worth(f, i + 1 + 0) > Worth(g, i + 1 + 0)
    BY <2>1, <2>2, <2>3, <2>4
  <2> QED BY <2>5
<1>2. ASSUME NEW j \in H PROVE j + 1 \in H
  <2> SUFFICES ASSUME i + 1 + (j + 1) <= n PROVE Worth(f, i + 1 + (j + 1)) > Worth(g, i + 1 + (j + 1))
    OBVIOUS
  <2>1. i + 1 + j \in i + 1 .. n - 1 /\ i + 1 + j \in Nat /\ i + 1 + (j + 1) = (i + 1 + j) + 1
        /\ i + 1 + j \in 0 .. n - 1 /\ i + 1 + j \in 0 .. n
    OBVIOUS
  <2> DEFINE k == i + 1 + j
             p == f[k]
             w == Weight(k)
  <2>2. f[k] = g[k] /\ Worth(f, k) > Worth(g, k)
    BY <2>1
  <2>3. Worth(f, k + 1) = Worth(f, k) + p * w /\ Worth(g, k + 1) = Worth(g, k) + p * w
    BY <2>1, <2>2, WorthStep
  <2>4. p * w \in Int /\ Worth(f, k) \in Int /\ Worth(g, k) \in Int
    <3>1. p \in Int /\ w \in Int
      <4>1. p \in 0 .. Base - 1 /\ Base \in Int
        BY <2>1, Shape
      <4> QED BY <2>1, <4>1, WeightOf
    <3>2. p * w \in Int
      BY <3>1
    <3> QED BY <1>0, <2>1, <3>2
  <2>5. Worth(f, k + 1) > Worth(g, k + 1)
    BY <2>2, <2>3, <2>4
  <2> QED BY <2>1, <2>5
<1> HIDE DEF H
<1>3. H = Nat
  BY <1>1, <1>2, Induction DEF H
<1>4. (n - 1) - i \in Nat /\ i + 1 + ((n - 1) - i) = n
  OBVIOUS
<1>5. (n - 1) - i \in H
  BY <1>3, <1>4
<1> QED BY <1>4, <1>5 DEF H

\* Limbs of a scalar's shape.
LEMMA Limbs ==
  ASSUME NEW s, IsLimbs(s)
  PROVE  /\ \A i \in 0 .. L - 1 : s[i] \in 0 .. Base - 1 /\ s[i] \in Nat /\ s[i] \in Int /\ s[i] <= Base - 1
         /\ Value(s) = Worth(s, L) /\ Value(s) \in 0 .. Weight(L) - 1 /\ Value(s) \in Nat
<1>1. \A i \in 0 .. L - 1 : s[i] \in 0 .. Base - 1
  BY Shape DEF IsLimbs
<1>2. Worth(s, L) \in 0 .. Weight(L) - 1
  <2>1. L \in 0 .. L
    BY Shape
  <2> QED BY <1>1, <2>1, Shape, WorthBelow
<1>3. Base \in Int /\ Weight(L) \in Int
  BY Shape, WeightOf
<1> QED BY <1>1, <1>2, <1>3, ValueIsWorth

\* Two scalars worth the same are the same.
LEMMA ValueUnique ==
  ASSUME NEW s, IsLimbs(s), NEW r, IsLimbs(r), Value(s) = Value(r)
  PROVE  s = r
<1>1. Worth(s, L) = Worth(r, L)
  BY Limbs
<1>2. \A i \in 0 .. L - 1 : s[i] = r[i]
  BY <1>1, Limbs, Shape, WorthUnique
<1> QED BY <1>2, Shape DEF IsLimbs

\* Above compares the numbers.
LEMMA AboveIsGreater ==
  ASSUME NEW s, IsLimbs(s), NEW r, IsLimbs(r)
  PROVE  Above(s, r) <=> Value(s) > Value(r)
<1>1. ASSUME NEW p, IsLimbs(p), NEW q, IsLimbs(q), Above(p, q) PROVE Value(p) > Value(q)
  <2>1. PICK i \in 0 .. L - 1 : p[i] > q[i] /\ \A j \in i + 1 .. L - 1 : p[j] = q[j]
    BY <1>1, Shape DEF Above
  <2>2. \A k \in 0 .. L - 1 : p[k] \in 0 .. Base - 1 /\ q[k] \in 0 .. Base - 1
    BY <1>1, Limbs
  <2>3. Worth(p, L) > Worth(q, L)
    BY <2>1, <2>2, Shape, WorthOrder
  <2> QED BY <1>1, <2>3, Limbs
<1>2. ASSUME Value(s) > Value(r), ~Above(s, r) PROVE FALSE
  <2>1. Value(s) \in Nat /\ Value(r) \in Nat
    BY Limbs
  <2>2. Differ(s, r, L)
    <3>1. ASSUME \A i \in 0 .. L - 1 : s[i] = r[i] PROVE FALSE
      <4>1. Worth(s, L) = Worth(r, L)
        BY <3>1, Shape, WorthSame
      <4> QED BY <1>2, <2>1, <4>1, Limbs
    <3> QED BY <3>1 DEF Differ
  <2>3. PICK i : DifferLast(s, r, L, i)
    BY <2>2, Shape, TopDifference
  <2>9. i \in 0 .. L - 1 /\ s[i] # r[i] /\ \A j \in i + 1 .. L - 1 : s[j] = r[j]
    BY <2>3 DEF DifferLast
  <2>4. s[i] \in Int /\ r[i] \in Int
    BY <2>9, Limbs
  <2>5. s[i] < r[i]
    BY <1>2, <2>9, <2>4, Shape DEF Above
  <2>6. Above(r, s)
    BY <2>9, <2>5, <2>4, Shape DEF Above
  <2>7. Value(r) > Value(s)
    BY <1>1, <2>6
  <2> QED BY <1>2, <2>1, <2>7
<1> QED BY <1>1, <1>2

\* The n terms t leave the limbs d, with the carries c between them.
Passing(t, c, d, n) ==
  /\ \A i \in 0 .. n - 1 : t[i] \in Nat
  /\ c[0] = 0 /\ \A i \in 0 .. n - 1 : c[i + 1] = (t[i] + c[i]) \div Base
  /\ \A i \in 0 .. n - 1 : d[i] = (t[i] + c[i]) % Base

\* What is passed on from limb to limb loses nothing.
LEMMA Passed ==
  ASSUME NEW n \in Nat, NEW t, NEW c, NEW d, Passing(t, c, d, n)
  PROVE  /\ \A j \in 0 .. n : c[j] \in Nat /\ Worth(d, j) + c[j] * Weight(j) = Worth(t, j)
         /\ \A j \in 0 .. n - 1 : d[j] \in 0 .. Base - 1
<1>0. /\ \A i \in 0 .. n - 1 : t[i] \in Nat
      /\ c[0] = 0 /\ \A i \in 0 .. n - 1 : c[i + 1] = (t[i] + c[i]) \div Base
      /\ \A i \in 0 .. n - 1 : d[i] = (t[i] + c[i]) % Base
  BY DEF Passing
<1> DEFINE H == {j \in Nat : j <= n => c[j] \in Nat}
<1>1. 0 \in H
  BY <1>0
<1>2. ASSUME NEW j \in H PROVE j + 1 \in H
  <2> SUFFICES ASSUME j + 1 <= n PROVE c[j + 1] \in Nat
    OBVIOUS
  <2>1. j \in 0 .. n - 1 /\ j <= n
    OBVIOUS
  <2>2. t[j] + c[j] \in Nat /\ c[j + 1] = (t[j] + c[j]) \div Base
    BY <1>0, <2>1
  <2> QED BY <2>1, <2>2, Shape, Division
<1> HIDE DEF H
<1>3. H = Nat
  BY <1>1, <1>2, Induction DEF H
<1>4. \A j \in 0 .. n : c[j] \in Nat
  BY <1>3 DEF H
<1>5. ASSUME NEW j \in 0 .. n - 1
      PROVE  /\ d[j] \in 0 .. Base - 1 /\ d[j] \in Nat /\ c[j + 1] \in Nat /\ c[j] \in Nat
             /\ t[j] + c[j] = Base * c[j + 1] + d[j]
  <2>1. t[j] + c[j] \in Nat /\ c[j] \in Nat /\ j + 1 \in 0 .. n
    BY <1>0, <1>4
  <2>2. d[j] \in 0 .. Base - 1 /\ t[j] + c[j] = Base * c[j + 1] + d[j]
    <3> DEFINE u == t[j] + c[j]
    <3>1. c[j + 1] = u \div Base /\ d[j] = u % Base
      BY <1>0
    <3> HIDE DEF u
    <3>2. u % Base \in 0 .. Base - 1 /\ u = Base * (u \div Base) + (u % Base)
      BY <2>1, Shape, Division DEF u
    <3> QED BY <3>1, <3>2 DEF u
  <2> QED BY <1>4, <2>1, <2>2, Shape
<1> DEFINE K == {j \in Nat : j <= n => Worth(d, j) + c[j] * Weight(j) = Worth(t, j)}
<1>6. 0 \in K
  <2>1. Worth(d, 0) = 0 /\ Worth(t, 0) = 0 /\ Weight(0) = 1 /\ 0 + 0 * 1 = 0 /\ c[0] = 0
    BY <1>0, WorthZero, SmallWeights
  <2> QED BY <2>1
<1>7. ASSUME NEW j \in K PROVE j + 1 \in K
  <2> SUFFICES ASSUME j + 1 <= n PROVE Worth(d, j + 1) + c[j + 1] * Weight(j + 1) = Worth(t, j + 1)
    OBVIOUS
  <2>1. j \in 0 .. n - 1 /\ j <= n /\ j \in 0 .. n
    OBVIOUS
  <2> DEFINE w == Weight(j)
             u == Worth(d, j)
             v == Worth(t, j)
             e == Base
             p == c[j]
             q == c[j + 1]
             r == d[j]
             z == t[j]
  <2>2. u + p * w = v /\ p \in Int /\ q \in Int /\ r \in Int /\ z \in Int /\ w \in Int /\ e \in Int
        /\ z + p = e * q + r
    <3>1. w \in Int /\ e \in Int
      BY Shape, WeightOf
    <3>2. p \in Int /\ q \in Int /\ r \in Int /\ z \in Int /\ z + p = e * q + r
      BY <1>0, <1>5, <2>1
    <3> QED BY <2>1, <3>1, <3>2
  <2>3. u \in Int /\ v \in Int
    <3>1. \A i \in 0 .. n - 1 : d[i] \in Nat
      BY <1>5
    <3>2. Worth(d, j) \in Int
      BY <2>1, <3>1, WorthInt
    <3>3. Worth(t, j) \in Int
      <4>1. \A i \in 0 .. n - 1 : t[i] \in Int
        BY <1>0
      <4> QED BY <2>1, <4>1, WorthInt
    <3> QED BY <3>2, <3>3
  <2>4. Worth(d, j + 1) = u + r * w /\ Worth(t, j + 1) = v + z * w /\ Weight(j + 1) = w * e
    BY WorthStep, WeightNext
  <2> HIDE DEF u, v, w, e, p, q, r, z
  <2>5. (e * q + r) * w = (e * q) * w + r * w /\ (z + p) * w = z * w + p * w
    <3>1. e * q \in Int
      BY <2>2
    <3> QED BY <2>2, <3>1
  <2>6. (e * q) * w = q * (w * e)
    BY <2>2
  <2>7. q * (w * e) \in Int /\ r * w \in Int /\ z * w \in Int /\ p * w \in Int
    <3>1. w * e \in Int
      BY <2>2
    <3> QED BY <2>2, <3>1
  <2>8. (u + r * w) + q * (w * e) = v + z * w
    BY <2>2, <2>3, <2>5, <2>6, <2>7
  <2> QED BY <2>4, <2>8 DEF q
<1> HIDE DEF K
<1>8. K = Nat
  BY <1>6, <1>7, Induction DEF K
<1> QED BY <1>4, <1>5, <1>8 DEF K

-----------------------------------------------------------------------------
\* The carries of a sum.
IsCarries(c, term) ==
  c = [i \in 0 .. L |-> IF i = 0 THEN 0 ELSE (term[i - 1] + c[i - 1]) \div Base]

\* The carries, a recursive function, exist for all terms.
LEMMA CarriesExist ==
  ASSUME NEW term
  PROVE  \E c : IsCarries(c, term)
<1> DEFINE Is(s, n) == s = [i \in 0 .. n |-> IF i = 0 THEN 0 ELSE (term[i - 1] + s[i - 1]) \div Base]
           H == {j \in Nat : \E s : Is(s, j)}
<1>1. 0 \in H
  <2> DEFINE s == [i \in 0 .. 0 |-> 0]
  <2>1. s = [i \in 0 .. 0 |-> IF i = 0 THEN 0 ELSE (term[i - 1] + s[i - 1]) \div Base]
    OBVIOUS
  <2> HIDE DEF s
  <2> QED BY <2>1
<1>2. ASSUME NEW j \in H PROVE j + 1 \in H
  <2>1. PICK s : Is(s, j)
    OBVIOUS
  <2> DEFINE d == [k \in 0 .. j + 1 |-> IF k <= j THEN s[k] ELSE (term[j] + s[j]) \div Base]
  <2>2. ASSUME NEW k \in 0 .. j + 1 PROVE d[k] = IF k = 0 THEN 0 ELSE (term[k - 1] + d[k - 1]) \div Base
    <3>1. CASE k = 0
      <4>1. 0 \in 0 .. j /\ 0 \in 0 .. j + 1 /\ 0 <= j
        OBVIOUS
      <4>2. s[0] = 0 /\ d[0] = s[0]
        BY <2>1, <4>1
      <4> HIDE DEF d
      <4> QED BY <3>1, <4>2
    <3>2. CASE k # 0 /\ k <= j
      <4>1. k \in 0 .. j /\ k - 1 \in 0 .. j + 1 /\ k - 1 <= j
        BY <3>2
      <4>2. d[k] = s[k] /\ d[k - 1] = s[k - 1] /\ s[k] = (term[k - 1] + s[k - 1]) \div Base
        BY <2>1, <3>2, <4>1
      <4> HIDE DEF d
      <4> QED BY <3>2, <4>2
    <3>3. CASE k = j + 1
      <4>1. k - 1 = j /\ k # 0 /\ j \in 0 .. j + 1 /\ ~(k <= j)
        BY <3>3
      <4>2. d[k] = (term[j] + s[j]) \div Base /\ d[k - 1] = s[j]
        BY <4>1
      <4> HIDE DEF d
      <4> QED BY <4>1, <4>2
    <3> QED BY <3>1, <3>2, <3>3
  <2>3. d = [k \in 0 .. j + 1 |-> d[k]]
    OBVIOUS
  <2> HIDE DEF d
  <2>4. Is(d, j + 1)
    BY <2>2, <2>3
  <2>5. j + 1 \in Nat
    OBVIOUS
  <2> QED BY <2>4, <2>5
<1> HIDE DEF H
<1>3. H = Nat
  BY <1>1, <1>2, Induction DEF H
<1>4. L \in H
  BY <1>3, Shape
<1> QED BY <1>4 DEF H, IsCarries

\* Carrying keeps the worth of the terms: the limbs, and the last carry above them.
LEMMA RippleWorth ==
  ASSUME NEW term, \A i \in 0 .. L - 1 : term[i] \in Nat
  PROVE  /\ IsLimbs(Ripple(term).d) /\ Ripple(term).carry \in Nat
         /\ Value(Ripple(term).d) + Ripple(term).carry * Weight(L) = Worth(term, L)
<1> DEFINE c == CHOOSE c : IsCarries(c, term)
           d == [i \in D |-> (term[i] + c[i]) % Base]
<1>1. IsCarries(c, term)
  BY CarriesExist
<1>2. Ripple(term) = [d |-> d, carry |-> c[L]]
  BY Zenon DEF Ripple, IsCarries
<1> HIDE DEF c
<1>3. c[0] = 0 /\ \A i \in 0 .. L - 1 : c[i + 1] = (term[i] + c[i]) \div Base
  <2>1. 0 \in 0 .. L /\ \A i \in 0 .. L - 1 : i + 1 \in 0 .. L /\ i + 1 # 0 /\ (i + 1) - 1 = i
    BY Shape
  <2> QED BY <1>1, <2>1 DEF IsCarries
<1>4. \A i \in 0 .. L - 1 : d[i] = (term[i] + c[i]) % Base
  BY Shape
<1>5. d = [i \in D |-> d[i]]
  OBVIOUS
<1> HIDE DEF d
<1>7. L \in 0 .. L /\ L \in Nat
  BY Shape
<1>6. /\ \A j \in 0 .. L : c[j] \in Nat /\ Worth(d, j) + c[j] * Weight(j) = Worth(term, j)
      /\ \A j \in 0 .. L - 1 : d[j] \in 0 .. Base - 1
  <2>1. Passing(term, c, d, L)
    BY <1>3, <1>4 DEF Passing
  <2> QED BY <2>1, <1>7, Passed
<1>8. IsLimbs(d)
  BY <1>5, <1>6, Shape DEF IsLimbs
<1> QED BY <1>2, <1>6, <1>7, <1>8, ValueIsWorth

\* Limbs of zero add nothing.
LEMMA WorthPadded ==
  ASSUME NEW k \in Nat, NEW n \in Nat, k <= n, NEW f, Worth(f, k) \in Int, \A i \in k .. n - 1 : f[i] = 0
  PROVE  Worth(f, n) = Worth(f, k)
<1> DEFINE H == {j \in Nat : k + j <= n => Worth(f, k + j) = Worth(f, k)}
<1>1. 0 \in H
  OBVIOUS
<1>2. ASSUME NEW j \in H PROVE j + 1 \in H
  <2> SUFFICES ASSUME k + (j + 1) <= n PROVE Worth(f, k + (j + 1)) = Worth(f, k)
    OBVIOUS
  <2>1. k + j \in k .. n - 1 /\ k + j \in Nat /\ k + (j + 1) = (k + j) + 1
    OBVIOUS
  <2>2. Worth(f, (k + j) + 1) = Worth(f, k + j) + f[k + j] * Weight(k + j) /\ f[k + j] = 0
    BY <2>1, WorthStep
  <2>3. Weight(k + j) \in Int
    BY <2>1, WeightOf
  <2>4. 0 * Weight(k + j) = 0
    BY <2>3
  <2> QED BY <2>1, <2>2, <2>4
<1> HIDE DEF H
<1>3. H = Nat
  BY <1>1, <1>2, Induction DEF H
<1>4. n - k \in H /\ k + (n - k) = n
  BY <1>3
<1> QED BY <1>4 DEF H

\* The limbs of C, in the places of a scalar.
NCs == [i \in D |-> IF i <= J THEN NC(i) ELSE 0]

\* They are limbs, the first not 0 and the last 1.
LEMMA NCsOf ==
  /\ IsLimbs(NCs) /\ NCs[0] # 0 /\ NCs[J] = 1
  /\ \A i \in 0 .. J : i \in D /\ NCs[i] = NC(i)
  /\ \A i \in J + 1 .. L - 1 : NCs[i] = 0
<1>1. \A i \in 0 .. J : NC(i) \in 0 .. Base - 1
  BY ShapeAssumption
<1>2. NC(0) # 0 /\ NC(J) = 1
  BY ShapeAssumption
<1>3. \A i \in 0 .. J : i \in D /\ NCs[i] = NC(i)
  BY Shape DEF NCs
<1>4. \A i \in J + 1 .. L - 1 : i \in D /\ ~(i <= J)
  BY Shape
<1>5. \A i \in J + 1 .. L - 1 : NCs[i] = 0
  BY <1>4 DEF NCs
<1>6. ASSUME NEW i \in D PROVE NCs[i] \in 0 .. Base - 1
  <2>1. CASE i <= J
    <3>1. i \in 0 .. J
      BY <2>1, Shape
    <3> QED BY <1>1, <1>3, <3>1
  <2>2. CASE ~(i <= J)
    BY <2>2, Shape DEF NCs
  <2> QED BY <2>1, <2>2
<1>7. IsLimbs(NCs)
  BY <1>6 DEF IsLimbs, NCs
<1>8. 0 \in 0 .. J /\ J \in 0 .. J
  BY Shape
<1> QED BY <1>2, <1>3, <1>5, <1>7, <1>8

\* C is worth its limbs, and is about the half of L limbs long.
LEMMA CIs ==
  /\ Value(NCs) = C /\ Worth(NCs, L) = C
  /\ C \in Weight(J) .. 2 * Weight(J) - 1
<1>1. J \in Nat /\ J + 1 \in Nat /\ J + 1 <= L /\ L \in Nat
  BY Shape
<1>2. C = Total([i \in 0 .. (J + 1) - 1 |-> NC(i) * Weight(i)], J + 1)
  <2>1. (J + 1) - 1 = J
    BY <1>1
  <2> QED BY <2>1 DEF C
<1>3. \A i \in 0 .. (J + 1) - 1 :
        [k \in 0 .. (J + 1) - 1 |-> NC(k) * Weight(k)][i] = [k \in 0 .. (J + 1) - 1 |-> NCs[k] * Weight(k)][i]
  <2>1. \A i \in 0 .. (J + 1) - 1 : i \in 0 .. J
    BY <1>1
  <2>2. \A i \in 0 .. (J + 1) - 1 : NCs[i] = NC(i)
    BY <2>1, NCsOf
  <2> QED BY <2>2
<1>4. Worth(NCs, J + 1) = C
  BY <1>1, <1>2, <1>3, TotalSame DEF Worth
<1>5. \A i \in 0 .. L - 1 : NCs[i] \in 0 .. Base - 1 /\ NCs[i] \in Nat
  BY NCsOf, Limbs
<1>6. Worth(NCs, J + 1) = Worth(NCs, J) + NCs[J] * Weight(J)
  BY <1>1, WorthStep
<1>7. Worth(NCs, J) \in 0 .. Weight(J) - 1 /\ Worth(NCs, J + 1) \in Int
  <2>1. J \in 0 .. L /\ J + 1 \in 0 .. L
    BY <1>1
  <2> QED BY <1>1, <1>5, <2>1, WorthBelow, WorthInt
<1>8. NCs[J] = 1 /\ Weight(J) \in Nat
  BY <1>1, NCsOf, WeightOf
<1>9. Worth(NCs, L) = Worth(NCs, J + 1)
  BY <1>1, <1>7, NCsOf, WorthPadded
<1> QED BY <1>4, <1>6, <1>7, <1>8, <1>9, ValueIsWorth

\* How large C and the order are.
LEMMA Sizes ==
  /\ C \in Nat \ {0} /\ Order \in Nat \ {0} /\ Weight(L) \in Nat \ {0} /\ Weight(J) \in Nat \ {0}
  /\ Weight(L) = Order + C /\ Weight(L) = Weight(J) * Weight(J) /\ 8 <= Weight(J)
  /\ Weight(J) <= C /\ C <= 2 * Weight(J) - 1 /\ 4 * C <= Weight(L) /\ C * C <= 2 * Weight(L)
  /\ Base <= Order
<1>1. J \in Nat \ {0} /\ L \in Nat /\ L = J + J /\ Base \in Nat /\ Base >= 8
  BY Shape
<1>2. Weight(L) = Weight(J) * Weight(J) /\ Weight(J) \in Nat \ {0} /\ Weight(L) \in Nat \ {0}
  BY <1>1, WeightSum, WeightOf
<1>3. Base <= Weight(J)
  <2>1. 1 \in Nat /\ 1 <= J
    BY <1>1
  <2>2. Weight(1) <= Weight(J)
    BY <1>1, <2>1, WeightMono
  <2> QED BY <2>2, SmallWeights
<1>4. C \in Nat \ {0} /\ Weight(J) <= C /\ C <= 2 * Weight(J) - 1
  BY <1>2, CIs
<1> DEFINE w == Weight(J)
<1>5. 8 * w <= w * w /\ w * w \in Nat
  <2>1. w \in Nat /\ 8 <= w
    BY <1>1, <1>2, <1>3
  <2> HIDE DEF w
  <2> QED BY <2>1, Times
<1>6. 4 * C <= Weight(L)
  BY <1>2, <1>4, <1>5
<1>7. C * C <= 2 * Weight(L)
  BY ShapeAssumption
<1>8. Weight(L) = Order + C /\ Order \in Int
  BY <1>2, <1>4 DEF Order
<1>9. Base <= Order
  BY <1>1, <1>2, <1>3, <1>4, <1>5, <1>6, <1>8
<1> QED BY <1>1, <1>2, <1>3, <1>4, <1>6, <1>7, <1>8, <1>9

\* The limbs SECP256K1_N_0 to SECP256K1_N_7 are those of the order.
LEMMA OrderLimbs ==
  IsLimbs(NLimb) /\ Value(NLimb) = Order
<1>1. \A i \in D : NCs[i] \in 0 .. Base - 1 /\ NCs[i] \in Int /\ NCs[0] # 0 /\ NCs[0] \in 0 .. Base - 1
  BY NCsOf, Limbs, Shape
<1>2. ASSUME NEW i \in D
      PROVE  /\ NLimb[i] \in 0 .. Base - 1 /\ NLimb[i] \in Int
             /\ NLimb[i] = (IF i = 0 THEN Base ELSE Base - 1) - NCs[i]
  <2>1. Base \in Nat /\ i \in Nat /\ 0 \in D /\ 0 <= J
    BY Shape
  <2>2. CASE i = 0
    <3>1. NLimb[i] = Base - NC(0) /\ NCs[i] = NC(0)
      BY <2>1, <2>2 DEF NLimb, NCs
    <3> QED BY <1>1, <2>1, <2>2, <3>1
  <2>3. CASE i # 0
    <3>1. NLimb[i] = Base - 1 - NCs[i]
      <4>1. CASE i <= J
        BY <2>1, <2>3, <4>1 DEF NLimb, NCs
      <4>2. CASE ~(i <= J)
        <5>1. NLimb[i] = Base - 1 /\ NCs[i] = 0
          BY <2>1, <2>3, <4>2 DEF NLimb, NCs
        <5> QED BY <2>1, <5>1
      <4> QED BY <4>1, <4>2
    <3> QED BY <1>1, <2>1, <2>3, <3>1
  <2> QED BY <2>2, <2>3
<1>3. IsLimbs(NLimb)
  BY <1>2 DEF IsLimbs, NLimb
<1> DEFINE full == [i \in D |-> IF i = 0 THEN Base ELSE Base - 1]
           h == [j \in 0 .. L |-> IF j = 0 THEN 0 ELSE Weight(j)]
<1>4. ASSUME NEW j \in 0 .. L - 1 PROVE h[j + 1] = h[j] + full[j] * Weight(j)
  <2>1. j \in Nat /\ j \in D /\ j \in 0 .. L /\ j + 1 \in 0 .. L /\ j + 1 # 0 /\ Base \in Nat
    BY Shape
  <2>2. Weight(j + 1) = Weight(j) * Base /\ Weight(j) \in Int
    BY <2>1, WeightNext, WeightOf
  <2>3. h[j + 1] = Weight(j + 1) /\ h[j] = (IF j = 0 THEN 0 ELSE Weight(j)) /\ full[j] = IF j = 0 THEN Base ELSE Base - 1
    BY <2>1
  <2> DEFINE w == Weight(j)
  <2>4. w \in Int /\ w * Base = Base * w /\ (Base - 1) * w = Base * w - w /\ Base * w \in Int
    BY <2>1, <2>2
  <2> HIDE DEF w, h, full
  <2> QED BY <2>2, <2>3, <2>4 DEF w
<1>5. h[0] = 0 /\ h[L] = Weight(L) /\ L \in 0 .. L /\ L \in Nat
  BY Shape
<1>6. \A i \in 0 .. L - 1 : full[i] \in Int
  BY Shape
<1>7. \A i \in 0 .. L - 1 : full[i] \in Int /\ NCs[i] \in Int /\ NLimb[i] = 1 * full[i] + (-1) * NCs[i]
  <2>1. \A i \in 0 .. L - 1 : full[i] = IF i = 0 THEN Base ELSE Base - 1
    BY Shape
  <2>2. \A i \in 0 .. L - 1 : NCs[i] \in Int /\ NLimb[i] = (IF i = 0 THEN Base ELSE Base - 1) - NCs[i]
    BY <1>1, <1>2, Shape
  <2> HIDE DEF full
  <2> QED BY <1>6, <2>1, <2>2
<1> HIDE DEF full, h
<1>8. Worth(full, L) = Weight(L)
  BY <1>4, <1>5, WorthIs
<1>9. Worth(NLimb, L) = 1 * Worth(full, L) + (-1) * Worth(NCs, L)
  <2>1. 1 \in Int /\ -1 \in Int
    OBVIOUS
  <2> QED BY <1>5, <1>7, <2>1, WorthLinear
<1>10. Value(NLimb) = Order
  BY <1>8, <1>9, CIs, Sizes, ValueIsWorth
<1> QED BY <1>3, <1>10

\* The comparison with the order.
LEMMA CheckOverflowIs ==
  ASSUME NEW s, IsLimbs(s)
  PROVE  CheckOverflow(s) = IF Value(s) >= Order THEN 1 ELSE 0
<1>1. Above(s, NLimb) <=> Value(s) > Order
  BY OrderLimbs, AboveIsGreater
<1>2. s = NLimb <=> Value(s) = Order
  BY OrderLimbs, ValueUnique
<1>3. Value(s) \in Nat /\ Order \in Nat
  BY Limbs, Sizes
<1> QED BY <1>1, <1>2, <1>3 DEF CheckOverflow

\* Subtracting the order is adding C.
LEMMA ReduceWorth ==
  ASSUME NEW s, IsLimbs(s), NEW overflow \in Nat
  PROVE  /\ IsLimbs(Reduce(s, overflow))
         /\ \E carry \in Nat : Value(Reduce(s, overflow)) + carry * Weight(L) = Value(s) + overflow * C
<1> DEFINE t == [i \in D |-> s[i] + (IF i <= J THEN overflow * NC(i) ELSE 0)]
<1>1. ASSUME NEW i \in 0 .. L - 1
      PROVE  s[i] \in Int /\ NCs[i] \in Int /\ t[i] = 1 * s[i] + overflow * NCs[i] /\ t[i] \in Nat
  <2>1. s[i] \in Nat /\ NCs[i] \in Nat /\ i \in D
    BY Limbs, NCsOf, Shape
  <2>2. t[i] = s[i] + overflow * NCs[i]
    <3>1. CASE i <= J
      BY <2>1, <3>1 DEF NCs
    <3>2. CASE ~(i <= J)
      BY <2>1, <3>2 DEF NCs
    <3> QED BY <3>1, <3>2
  <2>3. overflow * NCs[i] \in Nat
    BY <2>1
  <2> QED BY <2>1, <2>2, <2>3
<1>2. Reduce(s, overflow) = Ripple(t).d
  BY DEF Reduce
<1> HIDE DEF t
<1>3. Worth(t, L) = 1 * Worth(s, L) + overflow * Worth(NCs, L)
  <2>1. L \in Nat /\ 1 \in Int /\ overflow \in Int
    BY Shape
  <2> QED BY <1>1, <2>1, WorthLinear
<1>4. /\ IsLimbs(Ripple(t).d) /\ Ripple(t).carry \in Nat
      /\ Value(Ripple(t).d) + Ripple(t).carry * Weight(L) = Worth(t, L)
  BY <1>1, RippleWorth
<1>5. Worth(t, L) = Value(s) + overflow * C
  <2>1. Worth(s, L) = Value(s) /\ Value(s) \in Int /\ Worth(NCs, L) = C
    BY Limbs, CIs
  <2> QED BY <1>3, <2>1
<1> QED BY <1>2, <1>4, <1>5

\* A sum below twice the order: one subtraction makes it a scalar.
LEMMA ReduceOnce ==
  ASSUME NEW s, IsLimbs(s), NEW carry \in Nat, Value(s) + carry * Weight(L) < 2 * Order
  PROVE  LET v == Value(s) + carry * Weight(L)
             overflow == carry + CheckOverflow(s)
         IN  /\ overflow = v \div Order /\ overflow \in {0, 1}
             /\ IsScalar(Reduce(s, overflow)) /\ Value(Reduce(s, overflow)) = v % Order
<1> DEFINE v == Value(s) + carry * Weight(L)
           overflow == carry + CheckOverflow(s)
           r == Reduce(s, overflow)
           w == Weight(L)
<1>1. w \in Nat \ {0} /\ Order \in Nat \ {0} /\ C \in Nat \ {0} /\ w = Order + C /\ 4 * C <= w
  BY Sizes
<1>2. Value(s) \in Nat /\ Value(s) <= w - 1
  BY <1>1, Limbs
<1>3. carry \in {0, 1}
  <2>1. CASE carry >= 2
    <3>1. 2 * w <= carry * w /\ carry * w \in Nat
      BY <1>1, <2>1, Times
    <3> QED BY <1>1, <1>2, <3>1
  <2> QED BY <2>1
<1>4. v \in Nat /\ carry * w = (IF carry = 1 THEN w ELSE 0) /\ v = Value(s) + (IF carry = 1 THEN w ELSE 0)
  BY <1>1, <1>2, <1>3
<1>5. overflow \in {0, 1} /\ overflow = (IF v >= Order THEN 1 ELSE 0)
  BY <1>1, <1>2, <1>3, <1>4, CheckOverflowIs
<1>6. v < 2 * Order
  OBVIOUS
<1> HIDE DEF overflow
<1>7. IsLimbs(r) /\ \E c \in Nat : Value(r) + c * w = Value(s) + overflow * C
  <2>1. overflow \in Nat
    BY <1>5
  <2> QED BY <2>1, ReduceWorth
<1>8. Value(r) \in Nat /\ Value(r) <= w - 1
  BY <1>1, <1>7, Limbs
<1>9. Value(r) = v - (IF v >= Order THEN Order ELSE 0)
  <2>1. PICK c \in Nat : Value(r) + c * w = Value(s) + overflow * C
    BY <1>7
  <2>2. overflow * C = IF v >= Order THEN C ELSE 0
    BY <1>1, <1>5
  <2>3. c \in {0, 1}
    <3>1. CASE c >= 2
      <4>1. 2 * w <= c * w /\ c * w \in Nat
        BY <1>1, <3>1, Times
      <4> QED BY <1>1, <1>2, <1>8, <2>1, <2>2, <4>1
    <3> QED BY <3>1
  <2>4. c * w = IF c = 1 THEN w ELSE 0
    BY <1>1, <2>3
  <2> HIDE DEF v, r, w
  <2>5. CASE v >= Order /\ carry = 1
    BY <1>1, <1>2, <1>4, <1>6, <1>8, <2>1, <2>2, <2>3, <2>4, <2>5
  <2>6. CASE v >= Order /\ carry = 0
    BY <1>1, <1>2, <1>4, <1>6, <1>8, <2>1, <2>2, <2>3, <2>4, <2>6
  <2>7. CASE v < Order
    BY <1>1, <1>2, <1>3, <1>4, <1>6, <1>8, <2>1, <2>2, <2>3, <2>4, <2>7
  <2> QED BY <1>1, <1>3, <1>4, <2>5, <2>6, <2>7
<1> HIDE DEF v, r
<1>10. Value(r) < Order /\ Value(r) = v % Order /\ overflow = v \div Order
  <2>1. v = Order * overflow + Value(r) /\ Value(r) \in 0 .. Order - 1 /\ overflow \in Int
    <3>1. CASE v >= Order
      <4>1. overflow = 1 /\ Order * 1 = Order
        BY <1>1, <1>5, <3>1
      <4> QED BY <1>1, <1>4, <1>6, <1>9, <3>1, <4>1
    <3>2. CASE v < Order
      <4>1. overflow = 0 /\ Order * 0 = 0
        BY <1>1, <1>4, <1>5, <3>2
      <4> QED BY <1>1, <1>4, <1>9, <3>2, <4>1
    <3> QED BY <1>1, <1>4, <3>1, <3>2
  <2> DEFINE p == Value(r)
  <2>2. v = Order * overflow + p /\ p \in 0 .. Order - 1 /\ overflow \in Int /\ Order \in Nat \ {0}
    BY <1>1, <2>1
  <2> HIDE DEF p
  <2>3. v \div Order = overflow /\ v % Order = p
    BY <2>2, DivisionUnique
  <2> QED BY <1>1, <2>2, <2>3 DEF p
<1> QED BY <1>5, <1>7, <1>10 DEF v, r, overflow, IsScalar

-----------------------------------------------------------------------------
(* Addition, negation and the tests of scalars. *)

\* A scalar, with its number.
LEMMA Scalar ==
  ASSUME NEW s, IsScalar(s)
  PROVE  IsLimbs(s) /\ Value(s) \in Nat /\ Value(s) < Order /\ Value(s) \in 0 .. Weight(L) - 1
BY Limbs DEF IsScalar

\* The sum of two scalars.
LEMMA AddExact ==
  ASSUME NEW s, IsScalar(s), NEW r, IsScalar(r)
  PROVE  /\ Add(s, r).overflow = (Value(s) + Value(r)) \div Order /\ Add(s, r).overflow \in {0, 1}
         /\ IsScalar(Add(s, r).r) /\ Value(Add(s, r).r) = (Value(s) + Value(r)) % Order
<1> DEFINE t == [i \in D |-> s[i] + r[i]]
           d == Ripple(t).d
           c == Ripple(t).carry
<1>1. ASSUME NEW i \in 0 .. L - 1
      PROVE  s[i] \in Int /\ r[i] \in Int /\ t[i] = s[i] + r[i] /\ t[i] \in Nat
  BY Scalar, Limbs, Shape
<1>2. Add(s, r) = [r |-> Reduce(d, c + CheckOverflow(d)), overflow |-> c + CheckOverflow(d)]
  BY DEF Add
<1> HIDE DEF t
<1>3. Worth(t, L) = Worth(s, L) + Worth(r, L)
  BY <1>1, Shape, WorthSum
<1>4. IsLimbs(d) /\ c \in Nat /\ Value(d) + c * Weight(L) = Worth(t, L)
  BY <1>1, RippleWorth
<1>5. Worth(t, L) = Value(s) + Value(r) /\ Value(s) \in Nat /\ Value(r) \in Nat /\ Value(s) + Value(r) < 2 * Order
  <2>1. Worth(s, L) = Value(s) /\ Worth(r, L) = Value(r) /\ Value(s) \in Nat /\ Value(r) \in Nat
    BY Scalar, Limbs
  <2>2. Value(s) < Order /\ Value(r) < Order /\ Order \in Nat
    BY Scalar, Sizes
  <2> QED BY <1>3, <2>1, <2>2
<1> HIDE DEF d, c
<1>6. Value(d) + c * Weight(L) < 2 * Order
  BY <1>4, <1>5
<1>7. /\ c + CheckOverflow(d) = (Value(d) + c * Weight(L)) \div Order /\ c + CheckOverflow(d) \in {0, 1}
      /\ IsScalar(Reduce(d, c + CheckOverflow(d)))
      /\ Value(Reduce(d, c + CheckOverflow(d))) = (Value(d) + c * Weight(L)) % Order
  BY <1>4, <1>6, ReduceOnce
<1> QED BY <1>2, <1>4, <1>5, <1>7

\* Small numbers as scalars.
LEMMA SetIntExact ==
  ASSUME NEW v \in 0 .. Base - 1
  PROVE  IsScalar(SetInt(v)) /\ Value(SetInt(v)) = v
<1> DEFINE s == SetInt(v)
<1>1. s = [i \in D |-> IF i = 0 THEN v ELSE 0]
  BY DEF SetInt
<1>2. IsLimbs(s) /\ s[0] = v /\ \A i \in 1 .. L - 1 : s[i] = 0
  BY <1>1, Shape DEF IsLimbs
<1> HIDE DEF s
<1>3. Worth(s, 1) = v
  <2>1. Worth(s, 0 + 1) = Worth(s, 0) + s[0] * Weight(0) /\ Worth(s, 0) = 0 /\ Weight(0) = 1
    BY WorthStep, WorthZero, SmallWeights
  <2>2. v \in Int /\ 0 + 1 = 1
    BY Shape
  <2> QED BY <1>2, <2>1, <2>2
<1>4. Worth(s, L) = v
  <2>1. 1 \in Nat /\ L \in Nat /\ 1 <= L /\ v \in Int
    BY Shape
  <2> QED BY <1>2, <1>3, <2>1, WorthPadded
<1>5. v < Order
  BY Sizes, Shape
<1> QED BY <1>2, <1>4, <1>5, ValueIsWorth DEF IsScalar, s

\* The tests of a scalar.
LEMMA TestsExact ==
  ASSUME NEW s, IsLimbs(s)
  PROVE  /\ IsZero(s) <=> Value(s) = 0
         /\ IsOne(s) <=> Value(s) = 1
         /\ \A r : IsLimbs(r) => (Eq(s, r) <=> Value(s) = Value(r))
<1>1. 0 \in 0 .. Base - 1 /\ 1 \in 0 .. Base - 1
  BY Shape
<1>2. IsLimbs(SetInt(0)) /\ Value(SetInt(0)) = 0 /\ IsLimbs(SetInt(1)) /\ Value(SetInt(1)) = 1
  BY <1>1, SetIntExact DEF IsScalar
<1>3. IsZero(s) <=> Value(s) = 0
  BY <1>2, ValueUnique DEF IsZero, Clear
<1>4. IsOne(s) <=> Value(s) = 1
  BY <1>2, ValueUnique DEF IsOne
<1>5. ASSUME NEW r, IsLimbs(r) PROVE Eq(s, r) <=> Value(s) = Value(r)
  <2>1. Eq(s, r) <=> s = r
    BY <1>5 DEF Eq, IsLimbs
  <2> QED BY <1>5, <2>1, ValueUnique
<1> QED BY <1>3, <1>4, <1>5

\* The negation: the order minus the number, and zero for zero.
LEMMA NegateExact ==
  ASSUME NEW s, IsScalar(s)
  PROVE  /\ IsScalar(Negate(s)) /\ Value(Negate(s)) = (Order - Value(s)) % Order
         /\ Value(s) # 0 => Value(Negate(s)) = Order - Value(s)
<1>0. IsLimbs(s) /\ Value(s) \in Nat /\ Value(s) < Order /\ Order \in Nat \ {0}
  BY Scalar, Sizes
<1>1. CASE IsZero(s)
  <2>1. Negate(s) = SetInt(0) /\ 0 \in 0 .. Base - 1
    BY <1>1, Shape DEF Negate, Clear
  <2>2. Value(s) = 0
    BY <1>0, <1>1, TestsExact
  <2>3. Order % Order = 0 /\ Order - 0 = Order
    <3>1. Order = Order * 1 + 0 /\ 0 \in 0 .. Order - 1
      BY <1>0
    <3> QED BY <1>0, <3>1, DivisionUnique
  <2> QED BY <2>1, <2>2, <2>3, SetIntExact
<1>2. CASE ~IsZero(s)
  <2> DEFINE t == [i \in D |-> Base - 1 - s[i] + NLimb[i] + (IF i = 0 THEN 1 ELSE 0)]
             full == [i \in D |-> (Base - 1) + (IF i = 0 THEN 1 ELSE 0)]
             h == [j \in 0 .. L |-> IF j = 0 THEN 0 ELSE Weight(j)]
  <2>1. Negate(s) = Ripple(t).d
    BY <1>2 DEF Negate
  <2>2. ASSUME NEW i \in 0 .. L - 1
        PROVE  /\ s[i] \in Int /\ NLimb[i] \in Int /\ full[i] \in Int /\ t[i] \in Nat
               /\ t[i] = (1 * full[i]) + (-1) * s[i] + NLimb[i]
               /\ full[i] = IF i = 0 THEN Base ELSE Base - 1
    <3>1. s[i] \in Nat /\ s[i] <= Base - 1 /\ NLimb[i] \in Nat /\ i \in D /\ Base \in Nat
      BY <1>0, OrderLimbs, Limbs, Shape
    <3>2. t[i] = Base - 1 - s[i] + NLimb[i] + (IF i = 0 THEN 1 ELSE 0) /\ full[i] = (Base - 1) + (IF i = 0 THEN 1 ELSE 0)
      BY <3>1
    <3> HIDE DEF t, full
    <3> QED BY <3>1, <3>2
  <2>3. ASSUME NEW j \in 0 .. L - 1 PROVE h[j + 1] = h[j] + full[j] * Weight(j)
    <3>1. j \in Nat /\ j \in D /\ j \in 0 .. L /\ j + 1 \in 0 .. L /\ j + 1 # 0 /\ Base \in Nat
      BY Shape
    <3>2. Weight(j + 1) = Weight(j) * Base /\ Weight(j) \in Int /\ Weight(0) = 1
      BY <3>1, WeightNext, WeightOf, SmallWeights
    <3>3. h[j + 1] = Weight(j + 1) /\ h[j] = (IF j = 0 THEN 0 ELSE Weight(j)) /\ full[j] = IF j = 0 THEN Base ELSE Base - 1
      BY <2>2, <3>1
    <3> DEFINE w == Weight(j)
    <3>4. w \in Int /\ w * Base = Base * w /\ (Base - 1) * w = Base * w - w /\ Base * w \in Int
      BY <3>1, <3>2
    <3> HIDE DEF w, h, full
    <3> QED BY <3>2, <3>3, <3>4 DEF w
  <2>4. h[0] = 0 /\ h[L] = Weight(L) /\ L \in 0 .. L /\ L \in Nat
    BY Shape
  <2> DEFINE u == [i \in D |-> full[i] + (-1) * s[i]]
  <2>5. \A i \in 0 .. L - 1 : u[i] \in Int /\ u[i] = 1 * full[i] + (-1) * s[i] /\ t[i] = 1 * u[i] + 1 * NLimb[i]
    <3>1. \A i \in 0 .. L - 1 : u[i] = full[i] + (-1) * s[i]
      BY Shape
    <3> HIDE DEF u, t, full
    <3> QED BY <2>2, <3>1
  <2> HIDE DEF t, full, h, u
  <2>6. Worth(full, L) = Weight(L)
    BY <2>3, <2>4, WorthIs
  <2>7. Worth(u, L) = 1 * Worth(full, L) + (-1) * Worth(s, L) /\ Worth(t, L) = 1 * Worth(u, L) + 1 * Worth(NLimb, L)
    <3>1. 1 \in Int /\ -1 \in Int
      OBVIOUS
    <3>2. Worth(u, L) = 1 * Worth(full, L) + (-1) * Worth(s, L)
      BY <2>2, <2>4, <2>5, <3>1, WorthLinear
    <3>3. Worth(t, L) = 1 * Worth(u, L) + 1 * Worth(NLimb, L)
      BY <2>2, <2>4, <2>5, <3>1, WorthLinear
    <3> QED BY <3>2, <3>3
  <2> DEFINE w == Weight(L)
             d == Ripple(t).d
             c == Ripple(t).carry
  <2>8. IsLimbs(d) /\ c \in Nat /\ Value(d) + c * w = Worth(t, L)
    BY <2>2, RippleWorth
  <2>9. Worth(t, L) = w + (Order - Value(s)) /\ w \in Nat \ {0} /\ Order < w
    <3>1. Worth(s, L) = Value(s) /\ Worth(NLimb, L) = Order
      BY <1>0, Limbs, OrderLimbs
    <3> QED BY <1>0, <2>6, <2>7, <3>1, Sizes
  <2>10. Value(s) # 0
    BY <1>0, <1>2, TestsExact
  <2>11. Value(d) \in Nat /\ Value(d) <= w - 1
    BY <2>8, <2>9, Limbs
  <2> HIDE DEF w, d, c
  <2>12. c = 1
    <3>1. CASE c = 0
      <4>1. 0 * w = 0
        BY <2>9
      <4> QED BY <1>0, <2>8, <2>9, <2>11, <3>1, <4>1
    <3>2. CASE c >= 2
      <4>1. 2 * w <= c * w /\ c * w \in Nat
        BY <2>8, <2>9, <3>2, Times
      <4> QED BY <1>0, <2>8, <2>9, <2>10, <2>11, <4>1
    <3> QED BY <2>8, <3>1, <3>2
  <2>13. 1 * w = w
    BY <2>9
  <2>14. Value(d) = Order - Value(s)
    BY <1>0, <2>8, <2>9, <2>11, <2>12, <2>13
  <2>15. (Order - Value(s)) % Order = Order - Value(s) /\ Order - Value(s) < Order /\ Order - Value(s) \in Nat
    BY <1>0, <2>10, ModBelow
  <2> QED BY <2>1, <2>8, <2>14, <2>15 DEF d, IsScalar
<1> QED BY <1>1, <1>2

-----------------------------------------------------------------------------
(* Bits and shifts of limbs. *)

\* A multiple of the divisor adds to the quotient only.
LEMMA DivideSum ==
  ASSUME NEW u \in Nat, NEW v \in Nat, NEW d \in Nat \ {0}
  PROVE  (u + d * v) \div d = (u \div d) + v /\ (u + d * v) % d = u % d
<1> DEFINE q == u \div d
           r == u % d
           e == u + d * v
<1>1. q \in Nat /\ r \in 0 .. d - 1 /\ u = d * q + r
  BY Division
<1> HIDE DEF q, r
<1>2. e = d * (q + v) + r /\ q + v \in Int
  <2>1. d * (q + v) = d * q + d * v /\ d * q \in Int /\ d * v \in Int
    BY <1>1
  <2> QED BY <1>1, <2>1
<1> DEFINE g == q + v
<1>3. e = d * g + r /\ g \in Int /\ r \in 0 .. d - 1 /\ d \in Nat \ {0}
  BY <1>1, <1>2
<1> HIDE DEF e, g
<1>4. e \div d = g /\ e % d = r
  BY <1>3, DivisionUnique
<1> QED BY <1>4 DEF e, g, q, r

\* A factor common to both stays a factor of the remainder.
LEMMA ScaledRemainder ==
  ASSUME NEW m \in Nat \ {0}, NEW p \in Nat \ {0}, NEW r \in Nat
  PROVE  (m * r) % (m * p) = m * (r % p) /\ r % p \in 0 .. p - 1
<1> DEFINE v == m * r
           q == r % p
<1>1. v \in Nat /\ v = m * r + 0 /\ 0 \in 0 .. m - 1 /\ r \in Int
  BY Remainder
<1>2. v \div m = r /\ v % m = 0
  <2> HIDE DEF v
  <2> QED BY <1>1, DivisionUnique
<1>3. v % (m * p) = (v % m) + ((v \div m) % p) * m
  <2> HIDE DEF v
  <2> QED BY <1>1, RemainderByProduct
<1>4. q \in 0 .. p - 1
  BY Division
<1> HIDE DEF v, q
<1>5. q * m = m * q /\ 0 + q * m = q * m
  BY <1>4
<1> QED BY <1>2, <1>3, <1>4, <1>5 DEF v, q

\* Two powers of two that make a limb.
LEMMA LimbHalves ==
  ASSUME NEW k \in 0 .. W
  PROVE  /\ k \in Nat /\ W - k \in Nat /\ 2^k \in Nat \ {0} /\ 2^(W - k) \in Nat \ {0}
         /\ Base = 2^k * 2^(W - k) /\ Base = 2^(W - k) * 2^k
<1>1. k \in Nat /\ W - k \in Nat /\ k + (W - k) = W
  BY Shape
<1>2. 2^(k + (W - k)) = 2^k * 2^(W - k)
  BY <1>1, PowerSum
<1>3. 2^k \in Nat \ {0} /\ 2^(W - k) \in Nat \ {0}
  BY <1>1, PowerIsNat
<1>4. 2^k * 2^(W - k) = 2^(W - k) * 2^k
  BY <1>3
<1> QED BY <1>1, <1>2, <1>3, <1>4 DEF Base

\* A limb and what is above it, shifted down: what stays of the limb, and what comes into it.
LEMMA ShiftedPair ==
  ASSUME NEW lo \in 0 .. Base - 1, NEW r \in Nat, NEW k \in 0 .. W
  PROVE  /\ (lo + Base * r) \div 2^k = (lo \div 2^k) + 2^(W - k) * r
         /\ ((lo + Base * r) \div 2^k) % Base = (lo \div 2^k) + ((r * 2^(W - k)) % Base)
         /\ (r * 2^(W - k)) % Base = ((r % Base) * 2^(W - k)) % Base
<1> DEFINE p == 2^k
           m == 2^(W - k)
           u == lo \div p
           z == r % p
<1>1. p \in Nat \ {0} /\ m \in Nat \ {0} /\ Base = p * m /\ Base = m * p /\ Base \in Nat \ {0} /\ lo \in Nat
  BY LimbHalves, Shape
<1> HIDE DEF p, m
<1>2. (lo + Base * r) \div p = u + m * r
  <2> DEFINE g == m * r
  <2>1. Base * r = p * g /\ g \in Nat
    BY <1>1
  <2> HIDE DEF g
  <2>2. (lo + p * g) \div p = (lo \div p) + g
    <3>1. lo \in Nat /\ g \in Nat /\ p \in Nat \ {0}
      BY <1>1, <2>1
    <3> QED BY <3>1, DivideSum, Zenon
  <2> QED BY <2>1, <2>2 DEF g
<1>3. u \in 0 .. m - 1
  <2>1. lo < m * p
    BY <1>1
  <2>2. u < m
    BY <1>1, <2>1, DivBelow
  <2>3. u \in Nat
    BY <1>1, Division
  <2> QED BY <1>1, <2>2, <2>3
<1>4. (m * r) % (m * p) = m * z /\ z \in 0 .. p - 1
  BY <1>1, ScaledRemainder
<1>5. u + m * z \in 0 .. Base - 1
  <2>1. z \in Nat /\ p - 1 \in Nat /\ z <= p - 1
    BY <1>1, <1>4
  <2>2. z * m <= (p - 1) * m /\ z * m \in Nat
    BY <1>1, <2>1, Times
  <2>3. (p - 1) * m = m * p - m /\ z * m = m * z
    BY <1>1, <2>1
  <2> HIDE DEF u, z
  <2> QED BY <1>1, <1>3, <2>2, <2>3
<1>6. (u + m * r) % Base = u + m * z
  <2> DEFINE q == r \div p
  <2>1. q \in Nat /\ r = p * q + z
    BY <1>1, Division
  <2> HIDE DEF q, u, z
  <2>2. m * r = m * (p * q) + m * z
    <3>1. p * q \in Int /\ z \in Int
      BY <1>1, <1>4, <2>1
    <3> QED BY <1>1, <2>1, <3>1
  <2>3. m * (p * q) = Base * q
    BY <1>1, <2>1
  <2> DEFINE e == u + m * r
             g == u + m * z
  <2>4. e = Base * q + g /\ g \in 0 .. Base - 1 /\ q \in Int
    <3>1. m * z \in Int /\ Base * q \in Int /\ u \in Int
      BY <1>1, <1>3, <1>4, <2>1
    <3> QED BY <1>5, <2>1, <2>2, <2>3, <3>1
  <2> HIDE DEF e, g
  <2>5. e % Base = g
    <3>1. Base \in Nat \ {0} /\ q \in Int /\ g \in 0 .. Base - 1 /\ e = Base * q + g
      BY <1>1, <2>4
    <3> QED BY <3>1, DivisionUnique, Zenon
  <2> QED BY <2>5 DEF e, g
<1>7. (r * m) % Base = m * z /\ r * m = m * r
  BY <1>1, <1>4
<1>8. ((r % Base) * m) % Base = m * z
  <2> DEFINE s == r % Base
             t == r \div Base
             g == m * t
  <2>1. s \in Nat /\ t \in Nat /\ r = Base * t + s
    <3>1. t \in Nat /\ s \in 0 .. Base - 1 /\ r = (Base * t) + s
      BY <1>1, Division
    <3> QED BY <3>1, <1>1
  <2> HIDE DEF s, t
  <2>2. r = s + p * g /\ g \in Nat
    <3>1. Base * t = p * (m * t) /\ m * t \in Nat /\ Base * t \in Int
      BY <1>1, <2>1
    <3> QED BY <2>1, <3>1
  <2> HIDE DEF g
  <2>3. (s + p * g) % p = s % p
    <3>1. s \in Nat /\ g \in Nat /\ p \in Nat \ {0}
      BY <1>1, <2>1, <2>2
    <3> QED BY <3>1, DivideSum, Zenon
  <2>4. (m * s) % (m * p) = m * (s % p)
    BY <1>1, <2>1, ScaledRemainder
  <2>5. m * s = s * m
    BY <1>1, <2>1
  <2> QED BY <1>1, <1>4, <2>2, <2>3, <2>4, <2>5 DEF s
<1> QED BY <1>2, <1>6, <1>7, <1>8 DEF p, m, u

\* The limb i of n limbs, none above them.
Digit(f, n, i) == IF i < n THEN f[i] ELSE 0
AreLimbs(f, n) == \A i \in 0 .. n - 1 : f[i] \in 0 .. Base - 1

\* A digit of a number in limbs.
LEMMA DigitOf ==
  ASSUME NEW n \in Nat, NEW f, AreLimbs(f, n), NEW i \in Nat
  PROVE  /\ Worth(f, n) \in Nat /\ Digit(f, n, i) \in 0 .. Base - 1 /\ Worth(f, n) \div Weight(i) \in Nat
         /\ (Worth(f, n) \div Weight(i)) % Base = Digit(f, n, i)
         /\ Worth(f, n) \div Weight(i) = Digit(f, n, i) + Base * (Worth(f, n) \div Weight(i + 1))
<1>0. \A j \in 0 .. n - 1 : f[j] \in 0 .. Base - 1
  BY DEF AreLimbs
<1> DEFINE v == Worth(f, n)
           w == Weight(i)
           q == v \div w
<1>1. v \in 0 .. Weight(n) - 1 /\ v \in Nat
  <2>1. n \in 0 .. n
    OBVIOUS
  <2>2. Worth(f, n) \in 0 .. Weight(n) - 1
    BY <1>0, <2>1, WorthBelow
  <2> QED BY <2>2
<1>2. w \in Nat \ {0} /\ Base \in Nat \ {0}
  BY WeightOf, Shape
<1>3. q \in Nat
  BY <1>1, <1>2, Division
<1>4. Digit(f, n, i) \in 0 .. Base - 1 /\ q % Base = Digit(f, n, i)
  <2>1. CASE i < n
    <3>1. i \in 0 .. n - 1
      BY <2>1
    <3> QED BY <1>0, <2>1, <3>1, LimbOfWorth DEF Digit
  <2>2. CASE ~(i < n)
    <3>1. Weight(n) <= w /\ Weight(n) \in Nat
      BY <2>2, WeightMono
    <3>2. v < 1 * w
      BY <1>1, <1>2, <3>1
    <3>3. q < 1
      <4> HIDE DEF v, w
      <4> QED BY <1>1, <1>2, <3>2, DivBelow
    <3>4. q = 0
      BY <1>3, <3>3
    <3>5. 0 % Base = 0
      BY <1>2, ModBelow
    <3> QED BY <1>2, <2>2, <3>4, <3>5 DEF Digit
  <2> QED BY <2>1, <2>2
<1>5. Weight(i + 1) = w * Base
  BY WeightNext
<1>6. v \div (w * Base) = q \div Base
  <2> HIDE DEF v, w
  <2> QED BY <1>1, <1>2, QuotientByProduct
<1>7. q = Base * (q \div Base) + (q % Base)
  <2> HIDE DEF q
  <2> QED BY <1>2, <1>3, Division
<1> HIDE DEF v, w
<1>8. q \div Base \in Nat /\ Base * (q \div Base) \in Int
  <2> HIDE DEF q
  <2>1. q \div Base \in Nat
    BY <1>2, <1>3, Division
  <2> QED BY <1>2, <2>1
<1>9. q % Base \in Int
  BY <1>4
<1> QED BY <1>1, <1>3, <1>4, <1>5, <1>6, <1>7, <1>8, <1>9 DEF v, w

\* A number in limbs shifted down, limb by limb.
LEMMA ShiftedLimb ==
  ASSUME NEW n \in Nat, NEW f, AreLimbs(f, n), NEW i \in Nat, NEW k \in 0 .. W
  PROVE  ((Worth(f, n) \div 2^k) \div Weight(i)) % Base
           = (Digit(f, n, i) \div 2^k) + ((Digit(f, n, i + 1) * 2^(W - k)) % Base)
<1> DEFINE v == Worth(f, n)
           w == Weight(i)
           p == 2^k
           lo == Digit(f, n, i)
           r == v \div Weight(i + 1)
<1>1. v \in Nat /\ w \in Nat \ {0} /\ p \in Nat \ {0}
  BY DigitOf, WeightOf, LimbHalves
<1>2. i + 1 \in Nat
  OBVIOUS
<1>3. v \div w = lo + Base * r /\ lo \in 0 .. Base - 1
  BY DigitOf
<1>4. r \in Nat /\ r % Base = Digit(f, n, i + 1)
  BY <1>2, DigitOf
<1> HIDE DEF v, w, lo, r
<1>5. (v \div p) \div w = (v \div w) \div p
  <2>1. v \div (p * w) = (v \div p) \div w /\ v \div (w * p) = (v \div w) \div p
    <3>1. v \in Nat /\ w \in Nat \ {0} /\ p \in Nat \ {0}
      BY <1>1
    <3> QED BY <3>1, QuotientByProduct, Zenon
  <2>2. p * w = w * p
    BY <1>1
  <2> QED BY <2>1, <2>2
<1> HIDE DEF p
<1>6. ((lo + Base * r) \div p) % Base = (lo \div p) + (((r % Base) * 2^(W - k)) % Base)
  BY <1>3, <1>4, ShiftedPair DEF p
<1> QED BY <1>3, <1>4, <1>5, <1>6 DEF v, w, p, lo, r

\* Limbs that are those of a shifted number.
ShiftedInto(r, m, f, n, base, k) ==
  \A i \in 0 .. m - 1 :
    r[i] = (Digit(f, n, base + i) \div 2^k) + ((Digit(f, n, base + i + 1) * 2^(W - k)) % Base)

\* Limbs shifted down are worth the quotient, as far as they go.
LEMMA ShiftedWorth ==
  ASSUME NEW n \in Nat, NEW f, AreLimbs(f, n), NEW k \in 0 .. W, NEW m \in Nat, NEW base \in Nat, NEW r,
         ShiftedInto(r, m, f, n, base, k)
  PROVE  /\ Worth(r, m) = ((Worth(f, n) \div Weight(base)) \div 2^k) % Weight(m)
         /\ AreLimbs(r, m)
<1> DEFINE v == Worth(f, n)
           p == 2^k
           w == Weight(base)
           u == (v \div w) \div p
<1>1. v \in Nat /\ w \in Nat \ {0} /\ p \in Nat \ {0} /\ Base \in Nat \ {0}
  BY DigitOf, WeightOf, LimbHalves, Shape
<1>2. v \div w \in Nat /\ u \in Nat /\ v \div p \in Nat
  <2> HIDE DEF v, w, p
  <2>1. v \div w \in Nat /\ v \div p \in Nat
    BY <1>1, Division
  <2> DEFINE z == v \div w
  <2>2. z \in Nat
    BY <2>1
  <2> HIDE DEF z
  <2>3. z \div p \in Nat
    BY <1>1, <2>2, Division
  <2> QED BY <2>1, <2>3 DEF z
<1>3. u = (v \div p) \div w
  <2>1. v \div (p * w) = (v \div p) \div w /\ v \div (w * p) = (v \div w) \div p
    <3> HIDE DEF v, w, p
    <3>1. v \in Nat /\ w \in Nat \ {0} /\ p \in Nat \ {0}
      BY <1>1
    <3> QED BY <3>1, QuotientByProduct, Zenon
  <2>2. p * w = w * p
    BY <1>1
  <2> QED BY <2>1, <2>2
<1>4. ASSUME NEW i \in 0 .. m - 1 PROVE r[i] = (u \div Weight(i)) % Base
  <2>1. base + i \in Nat /\ i \in Nat
    OBVIOUS
  <2>2. ((v \div p) \div Weight(base + i)) % Base = r[i]
    <3>1. ((v \div p) \div Weight(base + i)) % Base
            = (Digit(f, n, base + i) \div 2^k) + ((Digit(f, n, base + i + 1) * 2^(W - k)) % Base)
      BY <2>1, ShiftedLimb
    <3> QED BY <3>1 DEF ShiftedInto
  <2>3. Weight(base + i) = w * Weight(i) /\ Weight(i) \in Nat \ {0}
    BY <2>1, WeightSum, WeightOf
  <2> DEFINE z == v \div p
             y1 == Weight(i)
  <2> HIDE DEF v, w, p, u
  <2>4. z \in Nat /\ y1 \in Nat \ {0}
    BY <1>2, <2>3
  <2> HIDE DEF z, y1
  <2>5. z \div (w * y1) = (z \div w) \div y1
    BY <1>1, <2>4, QuotientByProduct
  <2> QED BY <1>3, <2>2, <2>3, <2>5 DEF z, y1
<1> HIDE DEF u
<1>5. Worth(r, m) = u % Weight(m)
  BY <1>2, <1>4, LimbsOfNumber
<1>6. ASSUME NEW i \in 0 .. m - 1 PROVE r[i] \in 0 .. Base - 1
  <2> DEFINE z == u \div Weight(i)
  <2>1. z \in Nat
    <3>1. Weight(i) \in Nat \ {0}
      BY WeightOf
    <3> QED BY <1>2, <3>1, Division
  <2>2. r[i] = z % Base
    BY <1>4
  <2> HIDE DEF z
  <2> QED BY <1>1, <2>1, <2>2, Division
<1> QED BY <1>5, <1>6 DEF u, v, w, p, AreLimbs

\* A quotient is no larger than what is divided.
LEMMA QuotientLess ==
  ASSUME NEW a \in Nat, NEW d \in Nat \ {0}
  PROVE  a \div d \in Nat /\ a \div d <= a
<1> DEFINE q == a \div d
           r == a % d
<1>1. q \in Nat /\ r \in 0 .. d - 1 /\ a = (d * q) + r
  BY Division
<1> HIDE DEF q, r
<1>2. 1 * q <= d * q /\ 1 * q = q
  BY <1>1, Times
<1>3. q <= a
  BY <1>1, <1>2
<1> QED BY <1>1, <1>3 DEF q

\* Limbs that are those of a number shifted down by less than a limb.
LEMMA ShiftedValue ==
  ASSUME NEW s, IsLimbs(s), NEW n \in 0 .. W, NEW r, r \in [D -> Int],
         \A i \in 0 .. L - 1 : r[i] = (Digit(s, L, i) \div 2^n) + ((Digit(s, L, i + 1) * 2^(W - n)) % Base)
  PROVE  IsLimbs(r) /\ Value(r) = Value(s) \div 2^n
<1> DEFINE v == Value(s)
<1>1. v \in Nat /\ v < Weight(L) /\ v = Worth(s, L) /\ L \in Nat /\ AreLimbs(s, L)
  <2>1. v \in 0 .. Weight(L) - 1 /\ v = Worth(s, L) /\ AreLimbs(s, L)
    BY Limbs DEF AreLimbs
  <2>2. L \in Nat /\ Weight(L) \in Nat
    BY Shape, WeightOf
  <2> QED BY <2>1, <2>2
<1>2. \A i \in 0 .. L - 1 : 0 + i = i /\ 0 + i + 1 = i + 1
  BY <1>1
<1>3. ShiftedInto(r, L, s, L, 0, n) /\ 0 \in Nat
  BY <1>2 DEF ShiftedInto
<1>4. Worth(r, L) = ((v \div Weight(0)) \div 2^n) % Weight(L) /\ AreLimbs(r, L)
  BY <1>1, <1>3, ShiftedWorth
<1>5. 2^n \in Nat \ {0} /\ v \div 1 = v
  BY <1>1, LimbHalves
<1> DEFINE q == v \div 2^n
<1>6. q \in Nat /\ q <= v
  <2> DEFINE p == 2^n
  <2>1. p \in Nat \ {0}
    BY <1>5
  <2> HIDE DEF v, p
  <2>2. v \div p \in Nat /\ v \div p <= v
    BY <1>1, <2>1, QuotientLess
  <2> QED BY <2>2 DEF p
<1>7. q % Weight(L) = q
  <2> DEFINE w == Weight(L)
  <2>1. w \in Nat \ {0} /\ q < w
    <3>1. w \in Nat \ {0}
      BY <1>1, WeightOf
    <3> HIDE DEF q, w, v
    <3> QED BY <1>1, <1>6, <3>1 DEF w
  <2> HIDE DEF q, w
  <2>2. q % w = q
    BY <1>6, <2>1, ModBelow
  <2> QED BY <2>2 DEF w
<1>8. IsLimbs(r)
  BY <1>4, Shape DEF IsLimbs, AreLimbs
<1> QED BY <1>4, <1>5, <1>7, <1>8, SmallWeights, ValueIsWorth

\* Half the order.
LEMMA HalfIs ==
  IsLimbs(HalfLimb) /\ Value(HalfLimb) = Order \div 2
<1>1. 1 \in 0 .. W /\ 2^1 = 2
  <2>1. 2^(0 + 1) = 2 * 2^0 /\ 2^0 = 1
    BY PowerZero, PowerNext
  <2> QED BY <2>1, Shape
<1>2. IsLimbs(NLimb) /\ Value(NLimb) = Order
  BY OrderLimbs
<1>3. AreLimbs(NLimb, L) /\ L \in Nat
  BY <1>2, Limbs, Shape DEF AreLimbs
<1>4. ASSUME NEW i \in 0 .. L - 1
      PROVE  HalfLimb[i] = (Digit(NLimb, L, i) \div 2^1) + ((Digit(NLimb, L, i + 1) * 2^(W - 1)) % Base)
             /\ HalfLimb[i] \in Int
  <2> DEFINE lo == Digit(NLimb, L, i)
             r == Digit(NLimb, L, i + 1)
  <2>1. i \in Nat /\ i + 1 \in Nat /\ i < L
    BY <1>3
  <2>2. lo \in 0 .. Base - 1 /\ r \in 0 .. Base - 1 /\ Base \in Nat \ {0}
    BY <1>3, <2>1, DigitOf, Shape
  <2>3. lo = NLimb[i] /\ r = IF i = L - 1 THEN 0 ELSE NLimb[i + 1]
    BY <1>3, <2>1 DEF Digit
  <2>4. (IF i = L - 1 THEN 0 ELSE Base * NLimb[i + 1]) = Base * r
    BY <2>2, <2>3
  <2>5. HalfLimb[i] = ((lo + Base * r) \div 2) % Base
    BY <2>3, <2>4, Shape DEF HalfLimb
  <2> HIDE DEF lo, r
  <2>6. r \in Nat
    BY <2>2
  <2>7. ((lo + Base * r) \div 2^1) % Base = (lo \div 2^1) + ((r * 2^(W - 1)) % Base)
    BY <1>1, <2>2, <2>6, ShiftedPair
  <2>8. HalfLimb[i] \in Int
    <3> DEFINE e == lo + Base * r
    <3>1. e \in Nat
      BY <2>2, <2>6
    <3> HIDE DEF e
    <3>2. e \div 2 \in Int
      BY <3>1
    <3> DEFINE g == e \div 2
    <3> HIDE DEF g
    <3>3. g % Base \in Int
      BY <3>2, <2>2 DEF g
    <3> QED BY <2>5, <3>3 DEF e, g
  <2> QED BY <1>1, <2>5, <2>7, <2>8 DEF lo, r
<1>5. HalfLimb \in [D -> Int]
  BY <1>4, Shape DEF HalfLimb
<1>6. IsLimbs(HalfLimb) /\ Value(HalfLimb) = Value(NLimb) \div 2^1
  <2> DEFINE r == HalfLimb
  <2>1. \A i \in 0 .. L - 1 : r[i] = (Digit(NLimb, L, i) \div 2^1) + ((Digit(NLimb, L, i + 1) * 2^(W - 1)) % Base)
    BY <1>4
  <2>2. r \in [D -> Int]
    BY <1>5
  <2> HIDE DEF r
  <2>3. IsLimbs(r) /\ Value(r) = Value(NLimb) \div 2^1
    BY <1>1, <1>2, <2>1, <2>2, ShiftedValue
  <2> QED BY <2>3 DEF r
<1> QED BY <1>1, <1>2, <1>6

\* What is high: above half the order.
LEMMA HighExact ==
  ASSUME NEW s, IsLimbs(s)
  PROVE  IsHigh(s) <=> Value(s) > Order \div 2
BY HalfIs, AboveIsGreater DEF IsHigh

\* The low one of a scalar and its negation.
LEMMA LowerExact ==
  ASSUME NEW s, IsScalar(s)
  PROVE  /\ IsScalar(CondNegate(s, IsHigh(s)).r)
         /\ Value(CondNegate(s, IsHigh(s)).r) = IF Value(s) > Order \div 2 THEN Order - Value(s) ELSE Value(s)
<1>1. CondNegate(s, IsHigh(s)).r = IF IsHigh(s) THEN Negate(s) ELSE s
  BY DEF CondNegate
<1>2. IsHigh(s) <=> Value(s) > Order \div 2
  BY HighExact DEF IsScalar
<1>3. Value(s) > Order \div 2 => Value(s) # 0
  <2>1. Order \in Nat /\ Order \div 2 \in Nat
    <3>1. Order \in Nat
      BY Sizes
    <3> DEFINE o == Order
    <3> HIDE DEF o
    <3>2. o \in Nat => o \div 2 \in Nat
      OBVIOUS
    <3> QED BY <3>1, <3>2 DEF o
  <2> QED BY <2>1
<1> QED BY <1>1, <1>2, <1>3, NegateExact

\* What shifting by a few bits leaves and what it drops.
LEMMA ShrIntExact ==
  ASSUME NEW s, IsScalar(s), NEW n \in 1 .. W - 1
  PROVE  /\ IsScalar(ShrInt(s, n).r) /\ Value(ShrInt(s, n).r) = Value(s) \div 2^n
         /\ ShrInt(s, n).low = Value(s) % 2^n
<1> DEFINE r == [i \in D |-> s[i] \div 2^n + (IF i = L - 1 THEN 0 ELSE (s[i + 1] * 2^(W - n)) % Base)]
           v == Value(s)
<1>1. ShrInt(s, n) = [r |-> r, low |-> s[0] % 2^n]
  BY DEF ShrInt
<1>2. IsLimbs(s) /\ v \in Nat /\ v < Order /\ Order \in Nat /\ v = Worth(s, L) /\ AreLimbs(s, L) /\ L \in Nat
  BY Scalar, Sizes, Limbs, Shape DEF AreLimbs
<1>3. n \in 0 .. W /\ 2^n \in Nat \ {0} /\ 2^(W - n) \in Nat \ {0} /\ Base = 2^n * 2^(W - n) /\ Base \in Nat \ {0}
  <2>1. n \in 0 .. W
    BY Shape
  <2> QED BY <2>1, LimbHalves, Shape
<1> DEFINE p == 2^n
           m == 2^(W - n)
<1>4. ASSUME NEW i \in 0 .. L - 1
      PROVE  r[i] = (Digit(s, L, i) \div p) + ((Digit(s, L, i + 1) * m) % Base) /\ r[i] \in Int
  <2> DEFINE lo == Digit(s, L, i)
             hi == Digit(s, L, i + 1)
  <2>1. i \in Nat /\ i + 1 \in Nat /\ i < L
    BY <1>2
  <2>2. lo \in 0 .. Base - 1 /\ hi \in 0 .. Base - 1
    BY <1>2, <2>1, DigitOf
  <2>3. lo = s[i] /\ hi = IF i = L - 1 THEN 0 ELSE s[i + 1]
    BY <1>2, <2>1 DEF Digit
  <2>4. r[i] = lo \div p + (IF i = L - 1 THEN 0 ELSE (s[i + 1] * m) % Base)
    BY <2>3, Shape
  <2> HIDE DEF lo, hi, p, m, r
  <2>5. (hi * m) % Base = IF i = L - 1 THEN 0 ELSE (s[i + 1] * m) % Base
    <3>1. CASE i = L - 1
      <4>1. hi * m = 0
        BY <1>3, <2>3, <3>1 DEF m
      <4>2. 0 % Base = 0
        BY <1>3, ModBelow
      <4> QED BY <3>1, <4>1, <4>2
    <3>2. CASE i # L - 1
      BY <2>3, <3>2
    <3> QED BY <3>1, <3>2
  <2>6. lo \div p \in Int
    <3>1. lo \in Nat
      BY <2>2
    <3> QED BY <1>3, <3>1, Division DEF p
  <2>7. (hi * m) % Base \in Int
    <3> DEFINE e == hi * m
    <3>1. e \in Nat
      BY <1>3, <2>2 DEF m
    <3> HIDE DEF e
    <3>2. e % Base \in 0 .. Base - 1
      BY <1>3, <3>1, Division
    <3> QED BY <1>3, <3>2 DEF e
  <2>8. r[i] = (lo \div p) + ((hi * m) % Base)
    BY <2>4, <2>5
  <2>9. r[i] \in Int
    BY <2>6, <2>7, <2>8
  <2> QED BY <2>8, <2>9 DEF lo, hi
<1>5. r \in [D -> Int]
  BY <1>4, Shape
<1>6. IsLimbs(r) /\ Value(r) = v \div p
  <2>1. \A i \in 0 .. L - 1 : r[i] = (Digit(s, L, i) \div 2^n) + ((Digit(s, L, i + 1) * 2^(W - n)) % Base)
    BY <1>4
  <2> HIDE DEF r
  <2> QED BY <1>2, <1>3, <1>5, <2>1, ShiftedValue
<1>7. v \div p <= v /\ v \div p \in Nat
  <2> HIDE DEF v, p
  <2> QED BY <1>2, <1>3, QuotientLess DEF p
<1>8. s[0] % p = v % p
  <2> DEFINE lo == Digit(s, L, 0)
             h == v \div Weight(0 + 1)
  <2>1. 0 \in Nat /\ Weight(0) = 1 /\ v \div 1 = v
    BY <1>2, SmallWeights
  <2>2. v \div Weight(0) = lo + Base * h /\ lo \in 0 .. Base - 1
    BY <1>2, <2>1, DigitOf
  <2>3. h \in Nat
    <3>1. 0 + 1 \in Nat
      OBVIOUS
    <3> QED BY <1>2, <3>1, DigitOf
  <2>4. lo = s[0]
    BY Shape DEF Digit
  <2> HIDE DEF lo, h, p, m
  <2> DEFINE g == m * h
  <2>5. Base * h = p * g /\ g \in Nat /\ lo \in Nat
    BY <1>3, <2>2, <2>3 DEF p, m
  <2> HIDE DEF g
  <2>6. (lo + p * g) % p = lo % p
    <3>1. lo \in Nat /\ g \in Nat /\ p \in Nat \ {0}
      BY <1>3, <2>5 DEF p
    <3> QED BY <3>1, DivideSum, Zenon
  <2> QED BY <2>1, <2>2, <2>4, <2>5, <2>6
<1> HIDE DEF r
<1>9. Value(r) < Order
  <2> DEFINE q == v \div p
  <2>1. q \in Nat /\ q <= v /\ Value(r) = q
    BY <1>6, <1>7
  <2> HIDE DEF q, v
  <2> QED BY <1>2, <2>1
<1> QED BY <1>1, <1>6, <1>8, <1>9 DEF IsScalar

\* The lowest bit.
LEMMA EvenExact ==
  ASSUME NEW s, IsScalar(s)
  PROVE  IsEven(s) <=> Value(s) % 2 = 0
<1>1. 1 \in 1 .. W - 1
  BY Shape
<1>2. 2^1 = 2
  <2>1. 2^(0 + 1) = 2 * 2^0 /\ 2^0 = 1
    BY PowerZero, PowerNext
  <2> QED BY <2>1
<1>3. ShrInt(s, 1).low = Value(s) % 2^1
  BY <1>1, ShrIntExact
<1>4. ShrInt(s, 1).low = s[0] % 2^1
  BY DEF ShrInt
<1> QED BY <1>2, <1>3, <1>4 DEF IsEven

\* A bit's limb and its place in it.
LEMMA BitPlace ==
  ASSUME NEW bit \in Nat
  PROVE  /\ bit \div W \in Nat /\ bit % W \in 0 .. W - 1 /\ bit = W * (bit \div W) + (bit % W)
         /\ 2^bit = Weight(bit \div W) * 2^(bit % W) /\ 2^(bit % W) \in Nat \ {0}
         /\ bit < L * W => bit \div W \in 0 .. L - 1
<1> DEFINE o == bit \div W
           p == bit % W
<1>1. W \in Nat \ {0} /\ L \in Nat
  BY Shape
<1>2. o \in Nat /\ p \in 0 .. W - 1 /\ bit = (W * o) + p
  BY <1>1, Division
<1>3. bit < L * W => o < L
  BY <1>1, DivBelow
<1> HIDE DEF o, p
<1> DEFINE e == W * o
<1>4. e \in Nat /\ p \in Nat /\ bit = e + p
  BY <1>1, <1>2
<1>5. Weight(o) = 2^e
  BY DEF Weight
<1> HIDE DEF e
<1>6. 2^(e + p) = 2^e * 2^p /\ 2^p \in Nat \ {0}
  BY <1>4, PowerSum, PowerIsNat
<1>7. 2^bit = Weight(o) * 2^p
  BY <1>4, <1>5, <1>6
<1>8. bit < L * W => o \in 0 .. L - 1
  BY <1>1, <1>2, <1>3
<1> QED BY <1>2, <1>6, <1>7, <1>8 DEF o, p

\* What a number is above a bit: the limb of the bit, shifted, and the limbs above.
LEMMA AboveBit ==
  ASSUME NEW v \in Nat, NEW s, IsLimbs(s), v = Value(s), NEW o \in 0 .. L - 1, NEW p \in 0 .. W - 1
  PROVE  /\ v \div Weight(o + 1) \in Nat
         /\ v \div (Weight(o) * 2^p) = (s[o] \div 2^p) + 2^(W - p) * (v \div Weight(o + 1))
<1>1. L \in Nat /\ AreLimbs(s, L) /\ v = Worth(s, L) /\ o \in Nat /\ o < L /\ p \in 0 .. W
  <2>1. L \in Nat /\ AreLimbs(s, L) /\ v = Worth(s, L)
    BY Limbs, Shape DEF AreLimbs
  <2> QED BY <2>1, Shape
<1> DEFINE r == v \div Weight(o + 1)
           w == Weight(o)
           q == 2^p
           lo == Digit(s, L, o)
<1>2. v \div w = lo + Base * r /\ lo \in 0 .. Base - 1
  BY <1>1, DigitOf
<1>3. r \in Nat
  <2>1. o + 1 \in Nat
    BY <1>1
  <2> QED BY <1>1, <2>1, DigitOf
<1>4. lo = s[o]
  BY <1>1 DEF Digit
<1>5. w \in Nat \ {0} /\ q \in Nat \ {0}
  BY <1>1, WeightOf, LimbHalves
<1> HIDE DEF r, w, lo
<1>6. (lo + Base * r) \div 2^p = (lo \div 2^p) + 2^(W - p) * r
  BY <1>1, <1>2, <1>3, ShiftedPair
<1> HIDE DEF q
<1>7. v \div (w * q) = (v \div w) \div q
  BY <1>5, QuotientByProduct
<1> QED BY <1>2, <1>3, <1>4, <1>6, <1>7 DEF r, w, q

\* The bits of a number from a place in a limb on, when they do not leave the limb.
LEMMA BitsInLimb ==
  ASSUME NEW v \in Nat, NEW s, IsLimbs(s), v = Value(s), NEW o \in 0 .. L - 1, NEW p \in 0 .. W - 1,
         NEW count \in Nat, p + count <= W
  PROVE  (v \div (Weight(o) * 2^p)) % 2^count = (s[o] \div 2^p) % 2^count
<1> DEFINE r == v \div Weight(o + 1)
           u == s[o] \div 2^p
           a == 2^count
           b == 2^(W - p - count)
<1>1. r \in Nat /\ v \div (Weight(o) * 2^p) = u + 2^(W - p) * r
  BY AboveBit
<1>2. u \in Nat
  <2>1. s[o] \in Nat
    BY Limbs
  <2>2. 2^p \in Nat \ {0}
    <3>1. p \in Nat
      BY Shape
    <3> QED BY <3>1, PowerIsNat
  <2> QED BY <2>1, <2>2, Division
<1>3. a \in Nat \ {0} /\ b \in Nat \ {0} /\ 2^(W - p) = a * b
  <2> DEFINE k == W - p - count
  <2>1. k \in Nat /\ W - p = count + k
    BY Shape
  <2> HIDE DEF k
  <2>2. 2^(count + k) = 2^count * 2^k /\ 2^count \in Nat \ {0} /\ 2^k \in Nat \ {0}
    BY <2>1, PowerSum, PowerIsNat
  <2> QED BY <2>1, <2>2 DEF k
<1> HIDE DEF r, u, a, b
<1> DEFINE g == b * r
<1>4. g \in Nat /\ (a * b) * r = a * g
  BY <1>1, <1>3
<1> HIDE DEF g
<1>5. (u + a * g) % a = u % a
  <2>1. u \in Nat /\ g \in Nat /\ a \in Nat \ {0}
    BY <1>2, <1>3, <1>4
  <2> QED BY <2>1, DivideSum, Zenon
<1> QED BY <1>1, <1>3, <1>4, <1>5 DEF a, u

\* When they do.
LEMMA BitsOfTwoLimbs ==
  ASSUME NEW v \in Nat, NEW s, IsLimbs(s), v = Value(s), NEW o \in 0 .. L - 2, NEW p \in 0 .. W - 1,
         NEW count \in 1 .. W
  PROVE  (v \div (Weight(o) * 2^p)) % 2^count = (s[o] \div 2^p + s[o + 1] * 2^(W - p)) % 2^count
<1> DEFINE r == v \div Weight(o + 1)
           h == v \div Weight(o + 2)
           u == s[o] \div 2^p
           m == 2^(W - p)
           a == 2^count
           b == 2^(W - count)
           hi == s[o + 1]
<1>1. o \in 0 .. L - 1 /\ o + 1 \in 0 .. L - 1 /\ o + 1 + 1 = o + 2 /\ p \in 0 .. W /\ count \in 0 .. W /\ 0 \in 0 .. W - 1
  BY Shape
<1>2. r \in Nat /\ v \div (Weight(o) * 2^p) = u + m * r
  BY <1>1, AboveBit
<1>3. h \in Nat /\ r = hi + Base * h /\ hi \in Nat
  <2>1. L \in Nat /\ AreLimbs(s, L) /\ v = Worth(s, L)
    BY Limbs, Shape DEF AreLimbs
  <2>2. o + 1 \in Nat /\ o + 2 \in Nat
    BY <1>1
  <2>3. r = Digit(s, L, o + 1) + Base * (v \div Weight(o + 1 + 1)) /\ v \div Weight(o + 2) \in Nat
    BY <2>1, <2>2, DigitOf
  <2>4. Digit(s, L, o + 1) = hi
    BY <1>1, <2>1 DEF Digit
  <2>5. hi \in Nat
    BY <1>1, Limbs
  <2> QED BY <1>1, <2>3, <2>4, <2>5
<1>4. m \in Nat \ {0} /\ a \in Nat \ {0} /\ b \in Nat \ {0} /\ Base = a * b
  BY <1>1, LimbHalves
<1>5. u \in Nat
  <2>1. s[o] \in Nat /\ 2^p \in Nat \ {0}
    BY <1>1, Limbs, LimbHalves
  <2> QED BY <2>1, Division
<1> HIDE DEF r, h, u, m, a, b, hi
<1> DEFINE e == u + hi * m
           g == m * (b * h)
<1>6. e \in Nat /\ g \in Nat /\ u + m * r = e + a * g
  <2>1. b * h \in Nat /\ m * hi \in Nat /\ m * hi = hi * m
    BY <1>3, <1>4
  <2>2. m * (hi + Base * h) = m * hi + m * (Base * h) /\ Base * h = a * (b * h)
    BY <1>3, <1>4
  <2> DEFINE f == b * h
  <2>3. f \in Nat
    BY <2>1
  <2> HIDE DEF f
  <2>4. m * (a * f) = a * (m * f) /\ m * f \in Nat /\ a * (m * f) \in Int
    BY <1>4, <2>3
  <2>5. e \in Nat
    BY <1>5, <2>1
  <2>6. g = m * f /\ Base * h = a * f
    BY <2>2 DEF f
  <2> HIDE DEF g, e
  <2>7. m * r = m * hi + a * g
    BY <1>3, <2>2, <2>4, <2>6
  <2> QED BY <1>5, <2>1, <2>4, <2>5, <2>6, <2>7 DEF e
<1> HIDE DEF e, g
<1>7. (e + a * g) % a = e % a
  <2>1. e \in Nat /\ g \in Nat /\ a \in Nat \ {0}
    BY <1>4, <1>6
  <2> QED BY <2>1, DivideSum, Zenon
<1> QED BY <1>2, <1>6, <1>7 DEF e, a, u, m, hi

\* The bits of a window.
LEMMA BitsExact ==
  ASSUME NEW s, IsLimbs(s), NEW count \in 1 .. W - 1, NEW offset \in 0 .. L * W - count
  PROVE  GetBitsVar(s, offset, count) = (Value(s) \div 2^offset) % 2^count
<1> DEFINE o == offset \div W
           p == offset % W
           last == offset + count - 1
           v == Value(s)
<1>1. offset \in Nat /\ offset < L * W /\ last \in Nat /\ last < L * W /\ v \in Nat
  BY Limbs, Shape
<1>2. o \in 0 .. L - 1 /\ o \in Nat /\ p \in 0 .. W - 1 /\ offset = W * o + p /\ 2^offset = Weight(o) * 2^p
  BY <1>1, BitPlace
<1>3. last \div W \in 0 .. L - 1 /\ last = W * (last \div W) + (last % W) /\ last % W \in 0 .. W - 1
  BY <1>1, BitPlace
<1>4. CASE last \div W = o
  <2>1. p + count <= W
    <3>1. last % W = p + count - 1
      <4> DEFINE k == last % W
      <4>1. k \in Int /\ last = W * o + k /\ W * o \in Int /\ W \in Nat
        BY <1>2, <1>3, <1>4, Shape
      <4> HIDE DEF k
      <4> QED BY <1>2, <4>1 DEF k
    <3> DEFINE k == last % W
    <3>2. k \in 0 .. W - 1 /\ k = p + count - 1 /\ W \in Nat
      BY <1>3, <3>1, Shape
    <3> HIDE DEF k, p
    <3> QED BY <1>2, <3>2
  <2>2. GetBitsVar(s, offset, count) = (s[o] \div 2^p) % 2^count
    BY <1>4 DEF GetBitsVar, GetBits
  <2>3. count \in Nat
    BY Shape
  <2> HIDE DEF o, p, v
  <2>4. (v \div (Weight(o) * 2^p)) % 2^count = (s[o] \div 2^p) % 2^count
    BY <1>1, <1>2, <2>1, <2>3, BitsInLimb DEF v
  <2> QED BY <1>2, <2>2, <2>4 DEF v
<1>5. CASE last \div W # o
  <2>1. o <= L - 2
    <3> DEFINE q == last \div W
               k == last % W
    <3>1. q \in Nat /\ q <= L - 1 /\ k \in 0 .. W - 1 /\ last = W * q + k /\ q # o /\ W \in Nat /\ L \in Nat
      BY <1>3, <1>5, Shape
    <3> HIDE DEF q, k, o, p
    <3>2. CASE q < o
      <4>1. (q + 1) * W <= o * W
        BY <1>2, <3>1, <3>2, Times
      <4>2. (q + 1) * W = W * q + W /\ o * W = W * o /\ W * o \in Int /\ W * q \in Int
        BY <1>2, <3>1
      <4> QED BY <1>2, <3>1, <4>1, <4>2
    <3> QED BY <1>2, <3>1, <3>2
  <2>2. o \in 0 .. L - 2 /\ count \in 1 .. W
    BY <1>2, <2>1, Shape
  <2>3. GetBitsVar(s, offset, count) = (s[o] \div 2^p + s[o + 1] * 2^(W - p)) % 2^count
    BY <1>5 DEF GetBitsVar
  <2> HIDE DEF o, p, v
  <2>4. (v \div (Weight(o) * 2^p)) % 2^count = (s[o] \div 2^p + s[o + 1] * 2^(W - p)) % 2^count
    BY <1>1, <1>2, <2>2, BitsOfTwoLimbs DEF v
  <2> QED BY <1>2, <2>3, <2>4 DEF v
<1> QED BY <1>4, <1>5

-----------------------------------------------------------------------------
(* One limb set, and bits cleared or added. *)

\* A limb alone, of a number whose other limbs are zero.
LEMMA WorthOne ==
  ASSUME NEW n \in Nat, NEW f, NEW o \in 0 .. n - 1, f[o] \in Int, \A i \in 0 .. n - 1 : i # o => f[i] = 0
  PROVE  Worth(f, n) = f[o] * Weight(o)
<1> DEFINE w == f[o] * Weight(o)
           h == [j \in 0 .. n |-> IF j <= o THEN 0 ELSE w]
<1>1. w \in Int /\ o \in Nat
  <2>1. Weight(o) \in Int
    BY WeightOf
  <2> QED BY <2>1
<1>2. ASSUME NEW j \in 0 .. n - 1 PROVE h[j + 1] = h[j] + f[j] * Weight(j)
  <2>1. h[j + 1] = (IF j + 1 <= o THEN 0 ELSE w) /\ h[j] = IF j <= o THEN 0 ELSE w
    OBVIOUS
  <2>2. j # o => f[j] * Weight(j) = 0
    <3>1. Weight(j) \in Int
      BY WeightOf
    <3> QED BY <3>1
  <2>3. j = o => f[j] * Weight(j) = w
    OBVIOUS
  <2> HIDE DEF h, w
  <2> QED BY <1>1, <2>1, <2>2, <2>3
<1>3. h[0] = 0 /\ h[n] = w /\ n \in 0 .. n
  BY <1>1
<1> HIDE DEF h, w
<1> QED BY <1>2, <1>3, WorthIs DEF w

\* Setting a bit adds it, when the sum has its place.
LEMMA CaddBitExact ==
  ASSUME NEW s, IsLimbs(s), NEW bit \in 0 .. L * W - 1, Value(s) + 2^bit < Weight(L)
  PROVE  IsLimbs(CaddBit(s, bit, TRUE)) /\ Value(CaddBit(s, bit, TRUE)) = Value(s) + 2^bit
<1> DEFINE o == bit \div W
           p == bit % W
           t == [i \in D |-> s[i] + (IF TRUE /\ bit \div W = i THEN 2^(bit % W) ELSE 0)]
           g == [i \in D |-> IF o = i THEN 2^p ELSE 0]
           d == Ripple(t).d
           c == Ripple(t).carry
<1>1. bit \in Nat /\ bit < L * W
  BY Shape
<1>2. o \in 0 .. L - 1 /\ 2^bit = Weight(o) * 2^p /\ 2^p \in Nat \ {0}
  BY <1>1, BitPlace
<1>3. CaddBit(s, bit, TRUE) = d
  BY DEF CaddBit
<1>4. \A i \in 0 .. L - 1 : s[i] \in Int /\ g[i] \in Int /\ t[i] = s[i] + g[i] /\ t[i] \in Nat /\ s[i] \in Nat
  BY <1>2, Limbs, Shape
<1>5. g[o] = 2^p /\ \A i \in 0 .. L - 1 : i # o => g[i] = 0
  BY <1>2, Shape
<1> HIDE DEF t, g, o, p
<1>6. Worth(t, L) = Value(s) + 2^bit
  <2>1. L \in Nat
    BY Shape
  <2>2. Worth(t, L) = Worth(s, L) + Worth(g, L)
    BY <1>4, <2>1, WorthSum
  <2>3. Worth(g, L) = g[o] * Weight(o)
    <3>1. g[o] \in Int
      BY <1>2, <1>5
    <3> QED BY <1>2, <1>5, <2>1, <3>1, WorthOne
  <2>4. g[o] * Weight(o) = Weight(o) * 2^p
    <3>1. Weight(o) \in Int
      BY <1>2, WeightOf
    <3> QED BY <1>2, <1>5, <3>1
  <2>5. Worth(s, L) = Value(s)
    BY Limbs
  <2> QED BY <1>2, <2>2, <2>3, <2>4, <2>5
<1>7. IsLimbs(d) /\ c \in Nat /\ Value(d) + c * Weight(L) = Worth(t, L)
  BY <1>4, RippleWorth
<1> HIDE DEF d, c
<1>8. c = 0
  <2> DEFINE w == Weight(L)
             a == Value(d)
  <2>1. w \in Nat \ {0} /\ a \in Nat
    BY <1>7, Limbs, Sizes
  <2>2. a + c * w < w
    BY <1>6, <1>7
  <2>3. c >= 1 => 1 * w <= c * w
    <3> HIDE DEF w
    <3> QED BY <1>7, <2>1, Times
  <2>4. c * w \in Nat
    BY <1>7, <2>1
  <2> DEFINE e == c * w
  <2> HIDE DEF w, a, e
  <2>5. ~(c >= 1)
    BY <2>1, <2>2, <2>3, <2>4 DEF e
  <2> QED BY <1>7, <2>5
<1>9. Value(d) = Worth(t, L)
  <2>1. Value(d) \in Nat /\ Weight(L) \in Int
    BY <1>7, Limbs, Sizes
  <2> QED BY <1>7, <1>8, <2>1
<1> QED BY <1>3, <1>6, <1>7, <1>9

\* Setting no bit changes nothing.
LEMMA CaddNothing ==
  ASSUME NEW s, IsLimbs(s), NEW bit
  PROVE  CaddBit(s, bit, FALSE) = s
<1> DEFINE t == [i \in D |-> s[i] + (IF FALSE /\ bit \div W = i THEN 2^(bit % W) ELSE 0)]
           d == Ripple(t).d
           c == Ripple(t).carry
<1>1. CaddBit(s, bit, FALSE) = d
  BY DEF CaddBit
<1>2. \A i \in 0 .. L - 1 : t[i] = s[i] /\ t[i] \in Nat
  BY Limbs, Shape
<1> HIDE DEF t
<1>3. L \in Nat
  BY Shape
<1>4. Worth(t, L) = Worth(s, L)
  BY <1>2, <1>3, WorthSame
<1>5. IsLimbs(d) /\ c \in Nat /\ Value(d) + c * Weight(L) = Worth(t, L)
  BY <1>2, RippleWorth
<1> HIDE DEF d, c
<1>6. Value(d) = Value(s)
  <2> DEFINE w == Weight(L)
             a == Value(d)
             b == Value(s)
             e == c * w
  <2>1. w \in Nat \ {0} /\ a \in Nat /\ b \in Nat /\ b < w
    <3>1. b \in 0 .. w - 1 /\ b \in Nat /\ a \in Nat /\ w \in Nat \ {0}
      BY <1>5, Limbs, Sizes
    <3> HIDE DEF w, a, b
    <3> QED BY <3>1
  <2>2. a + e = b
    BY <1>4, <1>5, Limbs
  <2>3. c >= 1 => 1 * w <= e
    <3> HIDE DEF w
    <3> QED BY <1>5, <2>1, Times
  <2>4. e \in Nat
    BY <1>5, <2>1
  <2>5. c = 0 => e = 0
    BY <2>1
  <2> HIDE DEF w, a, b, e
  <2>6. ~(c >= 1)
    BY <2>1, <2>2, <2>3, <2>4
  <2>7. c = 0
    BY <1>5, <2>6
  <2>8. a = b
    BY <2>1, <2>2, <2>5, <2>7
  <2> QED BY <2>8 DEF a, b
<1> QED BY <1>1, <1>5, <1>6, ValueUnique

-----------------------------------------------------------------------------
\* The shape of the bytes.
LEMMA ByteShape ==
  /\ PerLimb \in Nat \ {0} /\ ByteBits \in Nat \ {0} /\ W = ByteBits * PerLimb
  /\ L * PerLimb \in Nat /\ Bytes = 0 .. L * PerLimb - 1
<1>1. W \in Nat /\ L \in Nat /\ ByteBits \in Nat \ {0} /\ W # 0 /\ W % ByteBits = 0
  BY Shape, FormAssumption
<1>2. PerLimb \in Nat /\ W = (ByteBits * PerLimb) + (W % ByteBits)
  BY <1>1, Division DEF PerLimb
<1>3. ByteBits * PerLimb \in Int
  BY <1>1, <1>2
<1>4. W = ByteBits * PerLimb
  BY <1>1, <1>2, <1>3
<1>5. PerLimb # 0
  <2>1. ByteBits * 0 = 0
    BY <1>1
  <2> QED BY <1>1, <1>4, <2>1
<1>6. L * PerLimb \in Nat
  BY <1>1, <1>2
<1> QED BY <1>1, <1>2, <1>4, <1>5, <1>6 DEF Bytes

\* A byte's place: the limb it is in, and where in it.
LEMMA BytePlace ==
  ASSUME NEW i \in Nat, NEW j \in 0 .. PerLimb - 1
  PROVE  /\ ByteBits * (i * PerLimb + j) = W * i + ByteBits * j
         /\ ByteBits * j \in 0 .. W - 1 /\ ByteBits * j + ByteBits <= W
         /\ 2^(ByteBits * (i * PerLimb + j)) = Weight(i) * 2^(ByteBits * j)
<1>1. PerLimb \in Nat \ {0} /\ ByteBits \in Nat \ {0} /\ W = ByteBits * PerLimb /\ W \in Nat /\ j \in Nat
  BY ByteShape, Shape
<1> DEFINE e == W * i
           f == ByteBits * j
<1>2. ByteBits * (i * PerLimb + j) = e + f /\ e \in Nat /\ f \in Nat
  <2>1. i * PerLimb \in Nat /\ ByteBits * (i * PerLimb) = (ByteBits * PerLimb) * i /\ f \in Nat
    BY <1>1
  <2>2. ByteBits * (i * PerLimb + j) = ByteBits * (i * PerLimb) + ByteBits * j
    BY <1>1, <2>1
  <2>3. e \in Nat
    BY <1>1
  <2> QED BY <1>1, <2>1, <2>2, <2>3
<1>3. f + ByteBits <= W
  <2>1. (j + 1) * ByteBits <= PerLimb * ByteBits
    BY <1>1, Times
  <2>2. (j + 1) * ByteBits = f + ByteBits /\ PerLimb * ByteBits = W
    BY <1>1
  <2> QED BY <2>1, <2>2
<1>4. Weight(i) = 2^e
  BY DEF Weight
<1> HIDE DEF e, f
<1>5. 2^(e + f) = 2^e * 2^f
  BY <1>2, PowerSum
<1>6. f \in 0 .. W - 1
  BY <1>1, <1>2, <1>3
<1> QED BY <1>2, <1>3, <1>4, <1>5, <1>6 DEF e, f

\* The bytes of a scalar are those of its number.
LEMMA BytesExact ==
  ASSUME NEW s, IsLimbs(s)
  PROVE  GetB32(s) = BytesOf(Value(s))
<1> DEFINE v == Value(s)
<1>1. ASSUME NEW k \in Bytes
      PROVE  LET b == L * PerLimb - 1 - k
             IN  (s[b \div PerLimb] \div 2^(ByteBits * (b % PerLimb))) % 2^ByteBits
                   = (v \div 2^(ByteBits * (L * PerLimb - 1 - k))) % 2^ByteBits
  <2> DEFINE b == L * PerLimb - 1 - k
             o == b \div PerLimb
             j == b % PerLimb
             p == ByteBits * j
  <2>1. b \in Nat /\ b < L * PerLimb /\ PerLimb \in Nat \ {0} /\ L \in Nat
    BY ByteShape, Shape
  <2> HIDE DEF b
  <2>2. o \in Nat /\ j \in 0 .. PerLimb - 1 /\ b = (PerLimb * o) + j /\ o < L
    BY <2>1, Division, DivBelow
  <2> HIDE DEF o, j
  <2>3. b = o * PerLimb + j
    BY <2>1, <2>2
  <2>4. p \in 0 .. W - 1 /\ p + ByteBits <= W /\ 2^(ByteBits * b) = Weight(o) * 2^p
    BY <2>2, <2>3, BytePlace
  <2>5. o \in 0 .. L - 1 /\ ByteBits \in Nat /\ v \in Nat
    BY <2>1, <2>2, ByteShape, Limbs
  <2> HIDE DEF p, v
  <2>6. (v \div (Weight(o) * 2^p)) % 2^ByteBits = (s[o] \div 2^p) % 2^ByteBits
    BY <2>4, <2>5, BitsInLimb DEF v
  <2> QED BY <2>4, <2>6 DEF b, o, j, p
<1> QED BY <1>1 DEF GetB32, BytesOf

\* A limb from its bytes.
LEMMA LimbOfBytes ==
  ASSUME NEW v \in Nat, NEW i \in 0 .. L - 1
  PROVE  Total([j \in 0 .. PerLimb - 1 |->
                  BytesOf(v)[L * PerLimb - 1 - (i * PerLimb + j)] * 2^(ByteBits * j)], PerLimb)
           = (v \div Weight(i)) % Base
<1> DEFINE u == v \div Weight(i)
           f == [j \in 0 .. PerLimb - 1 |-> BytesOf(v)[L * PerLimb - 1 - (i * PerLimb + j)] * 2^(ByteBits * j)]
           h == [j \in 0 .. PerLimb |-> u % 2^(ByteBits * j)]
           q == 2^ByteBits
<1>1. /\ PerLimb \in Nat \ {0} /\ ByteBits \in Nat \ {0} /\ i \in Nat /\ L \in Nat /\ i < L
      /\ W = ByteBits * PerLimb /\ q \in Nat \ {0}
  <2>1. PerLimb \in Nat \ {0} /\ ByteBits \in Nat \ {0} /\ i \in Nat /\ L \in Nat /\ i < L /\ W = ByteBits * PerLimb
    BY ByteShape, Shape
  <2> QED BY <2>1, PowerIsNat
<1>2. u \in Nat /\ Weight(i) \in Nat \ {0}
  <2>1. Weight(i) \in Nat \ {0}
    BY <1>1, WeightOf
  <2> QED BY <2>1, Division
<1>3. ASSUME NEW j \in 0 .. PerLimb - 1
      PROVE  h[j + 1] = h[j] + f[j]
  <2> DEFINE k == L * PerLimb - 1 - (i * PerLimb + j)
             e == ByteBits * j
             a == 2^e
  <2>1. k \in Bytes /\ L * PerLimb - 1 - k = i * PerLimb + j
    <3>1. (i + 1) * PerLimb <= L * PerLimb /\ (i + 1) * PerLimb = i * PerLimb + PerLimb /\ i * PerLimb \in Nat
      BY <1>1, Times
    <3>2. Bytes = 0 .. L * PerLimb - 1 /\ L * PerLimb \in Nat /\ j \in Nat /\ j < PerLimb
      BY <1>1, ByteShape
    <3> DEFINE g == i * PerLimb
               n == L * PerLimb
    <3> HIDE DEF g, n
    <3>3. g + PerLimb <= n /\ g \in Nat /\ n \in Nat
      BY <3>1, <3>2 DEF g, n
    <3>4. n - 1 - (g + j) \in 0 .. n - 1 /\ n - 1 - (n - 1 - (g + j)) = g + j
      BY <1>1, <3>2, <3>3
    <3> QED BY <3>2, <3>4 DEF g, n
  <2>2. BytesOf(v)[k] = (v \div 2^(ByteBits * (i * PerLimb + j))) % q
    BY <2>1 DEF BytesOf
  <2>3. 2^(ByteBits * (i * PerLimb + j)) = Weight(i) * a /\ e \in 0 .. W - 1 /\ e \in Nat
    <3>1. e \in 0 .. W - 1
      BY <1>1, BytePlace
    <3> QED BY <1>1, <3>1, BytePlace
  <2>4. a \in Nat \ {0}
    BY <2>3, PowerIsNat
  <2> HIDE DEF e
  <2>5. v \div (Weight(i) * a) = u \div a
    <3> HIDE DEF a
    <3> QED BY <1>2, <2>4, QuotientByProduct
  <2>6. 2^(e + ByteBits) = a * q
    BY <1>1, <2>3, PowerSum
  <2>7. f[j] = ((u \div a) % q) * a
    BY <2>2, <2>3, <2>5 DEF e
  <2>8. h[j] = u % a
    BY <1>1 DEF e
  <2>9. h[j + 1] = u % (a * q)
    <3>1. ByteBits * (j + 1) = e + ByteBits
      BY <1>1 DEF e
    <3>2. h[j + 1] = u % 2^(ByteBits * (j + 1))
      BY <1>1
    <3> QED BY <2>6, <3>1, <3>2
  <2> HIDE DEF h, f, a, q, u
  <2>10. u % (a * q) = (u % a) + ((u \div a) % q) * a
    BY <1>1, <1>2, <2>4, RemainderByProduct
  <2> QED BY <2>7, <2>8, <2>9, <2>10
<1>4. h[0] = 0
  <2>1. h[0] = u % 2^(ByteBits * 0)
    BY <1>1
  <2>2. ByteBits * 0 = 0 /\ 2^0 = 1
    BY <1>1, PowerZero
  <2>3. u % 1 = 0
    <3> HIDE DEF u
    <3> QED BY <1>2
  <2> QED BY <2>1, <2>2, <2>3
<1>5. h[PerLimb] = u % Base /\ PerLimb \in 0 .. PerLimb
  BY <1>1 DEF Base
<1> HIDE DEF h
<1>6. Total(f, PerLimb) = h[PerLimb]
  <2> HIDE DEF f
  <2>1. \A j \in 0 .. PerLimb : Total(f, j) = h[j]
    BY <1>1, <1>3, <1>4, TotalIs
  <2> QED BY <1>5, <2>1
<1> QED BY <1>5, <1>6

\* The scalar the bytes of a number hold, and whether it was not below the order.
LEMMA SetBytesExact ==
  ASSUME NEW v \in 0 .. Weight(L) - 1
  PROVE  LET b == SetB32(BytesOf(v))
         IN  /\ IsScalar(b.r) /\ Value(b.r) = v % Order /\ b.overflow = v \div Order
             /\ b = [r |-> b.r, overflow |-> b.overflow]
<1> DEFINE a == [i \in D |-> (v \div Weight(i)) % Base]
<1>1. SetB32(BytesOf(v)) = [r |-> Reduce(a, CheckOverflow(a)), overflow |-> CheckOverflow(a)]
  <2> DEFINE b == BytesOf(v)
             Limb(i) == Total([j \in 0 .. PerLimb - 1 |->
                          b[L * PerLimb - 1 - (i * PerLimb + j)] * 2^(ByteBits * j)], PerLimb)
             z == [i \in D |-> Limb(i)]
  <2>1. \A i \in 0 .. L - 1 : Limb(i) = (v \div Weight(i)) % Base
    <3>1. v \in Nat
      BY Sizes
    <3> QED BY <3>1, LimbOfBytes
  <2>2. z = a
    <3> HIDE DEF Limb
    <3> QED BY <2>1, Shape
  <2>3. SetB32(b) = [r |-> Reduce(z, CheckOverflow(z)), overflow |-> CheckOverflow(z)]
    BY DEF SetB32
  <2> HIDE DEF z, Limb, a
  <2> QED BY <2>2, <2>3
<1>2. v \in Nat /\ v < Weight(L) /\ L \in Nat /\ Weight(L) \in Nat \ {0} /\ Base \in Nat \ {0}
  BY Sizes, Shape
<1>3. ASSUME NEW i \in 0 .. L - 1 PROVE a[i] = (v \div Weight(i)) % Base /\ a[i] \in 0 .. Base - 1
  <2> DEFINE q == v \div Weight(i)
  <2>1. Weight(i) \in Nat \ {0}
    BY WeightOf
  <2>2. q \in Nat
    BY <1>2, <2>1, Division
  <2>3. a[i] = q % Base
    BY Shape
  <2> HIDE DEF q, a
  <2>4. q % Base \in 0 .. Base - 1
    BY <1>2, <2>2, Division
  <2> QED BY <2>3, <2>4 DEF q
<1>4. IsLimbs(a)
  <2>1. a \in [D -> 0 .. Base - 1]
    BY <1>3, Shape
  <2> QED BY <2>1 DEF IsLimbs
<1> HIDE DEF a
<1>5. Value(a) = v
  <2>1. Worth(a, L) = v % Weight(L)
    BY <1>2, <1>3, LimbsOfNumber
  <2> DEFINE w == Weight(L)
  <2>2. w \in Nat \ {0} /\ v < w
    BY <1>2
  <2> HIDE DEF w
  <2>3. v % w = v
    BY <1>2, <2>2, ModBelow
  <2> QED BY <2>1, <2>3, ValueIsWorth DEF w
<1>6. Value(a) + 0 * Weight(L) < 2 * Order /\ Value(a) + 0 * Weight(L) = v /\ 0 \in Nat
  <2>1. Weight(L) = Order + C /\ 4 * C <= Weight(L) /\ C \in Nat /\ Order \in Nat
    BY Sizes
  <2> DEFINE w == Weight(L)
             k == C
             o == Order
  <2> HIDE DEF w, k, o
  <2>2. v < 2 * o /\ 0 * w = 0
    BY <1>2, <2>1 DEF w, k, o
  <2> QED BY <1>2, <1>5, <2>2 DEF w, o
<1>7. LET n == Value(a) + 0 * Weight(L)
             overflow == 0 + CheckOverflow(a)
      IN  /\ overflow = n \div Order
          /\ IsScalar(Reduce(a, overflow)) /\ Value(Reduce(a, overflow)) = n % Order
  BY <1>4, <1>6, ReduceOnce
<1>8. 0 + CheckOverflow(a) = CheckOverflow(a)
  BY <1>4, CheckOverflowIs
<1> QED BY <1>1, <1>6, <1>7, <1>8

-----------------------------------------------------------------------------
(* Columns of products. *)

\* Terms that are zero add nothing.
LEMMA TotalPadded ==
  ASSUME NEW k \in Nat, NEW n \in Nat, k <= n, NEW f, NEW g,
         \A i \in 0 .. k - 1 : f[i] \in Int /\ g[i] = f[i], \A i \in k .. n - 1 : g[i] = 0
  PROVE  Total(g, n) = Total(f, k)
<1> DEFINE h == [j \in 0 .. n |-> IF j <= k THEN Total(f, j) ELSE Total(f, k)]
<1>1. \A j \in 0 .. k : Total(f, j) \in Int
  BY TotalInt
<1>2. h[0] = 0
  BY TotalStep
<1>3. ASSUME NEW j \in 0 .. n - 1 PROVE h[j + 1] = h[j] + g[j]
  <2>1. j \in 0 .. n /\ j + 1 \in 0 .. n /\ j \in Nat /\ k \in 0 .. k
    OBVIOUS
  <2>2. Total(f, j + 1) = Total(f, j) + f[j]
    BY <2>1, TotalStep
  <2>3. CASE j < k
    <3>1. j \in 0 .. k - 1 /\ j <= k /\ j + 1 <= k
      BY <2>1, <2>3
    <3> QED BY <2>1, <2>2, <3>1
  <2>4. CASE ~(j < k)
    <3>1. j \in k .. n - 1 /\ ~(j + 1 <= k)
      BY <2>1, <2>4
    <3>2. h[j + 1] = Total(f, k)
      BY <2>1, <3>1
    <3>3. h[j] = Total(f, k)
      <4>1. j <= k => j = k
        BY <2>1, <2>4
      <4> QED BY <2>1, <4>1
    <3> HIDE DEF h
    <3> QED BY <1>1, <2>1, <3>1, <3>2, <3>3
  <2> QED BY <2>3, <2>4
<1>4. h[n] = Total(f, k) /\ n \in 0 .. n
  OBVIOUS
<1> HIDE DEF h
<1> QED BY <1>2, <1>3, <1>4, TotalIs

\* A sum from its last term on.
LEMMA TotalReversed ==
  ASSUME NEW n \in Nat, NEW f, NEW r, \A i \in 0 .. n - 1 : f[i] \in Int /\ r[i] = f[n - 1 - i]
  PROVE  Total(r, n) = Total(f, n)
<1> DEFINE h == [j \in 0 .. n |-> Total(f, n) - Total(f, n - j)]
<1>1. \A j \in 0 .. n : Total(f, j) \in Int
  BY TotalInt
<1>2. h[0] = 0
  <2>1. n \in 0 .. n /\ n - 0 = n /\ 0 \in 0 .. n
    OBVIOUS
  <2>2. Total(f, n) - Total(f, n) = 0
    BY <1>1, <2>1
  <2> QED BY <2>1, <2>2
<1>3. ASSUME NEW j \in 0 .. n - 1 PROVE h[j + 1] = h[j] + r[j]
  <2> DEFINE k == n - (j + 1)
  <2>1. j \in 0 .. n /\ j + 1 \in 0 .. n /\ k \in 0 .. n - 1 /\ k \in Nat /\ n - j = k + 1 /\ n - 1 - j = k
    OBVIOUS
  <2>2. h[j + 1] = Total(f, n) - Total(f, k) /\ h[j] = Total(f, n) - Total(f, k + 1) /\ r[j] = f[k]
    BY <2>1
  <2>3. Total(f, k + 1) = Total(f, k) + f[k]
    BY <2>1, TotalStep
  <2>4. Total(f, n) \in Int /\ Total(f, k) \in Int /\ f[k] \in Int
    BY <1>1, <2>1
  <2> HIDE DEF h, k
  <2> QED BY <2>2, <2>3, <2>4
<1>4. h[n] = Total(f, n)
  <2>1. n \in 0 .. n /\ n - n = 0 /\ Total(f, 0) = 0
    BY TotalStep
  <2>2. Total(f, n) - 0 = Total(f, n)
    BY <1>1, <2>1
  <2> QED BY <2>1, <2>2
<1> HIDE DEF h
<1>5. n \in 0 .. n
  OBVIOUS
<1> QED BY <1>2, <1>3, <1>4, <1>5, TotalIs

\* A sum of terms none of which is above a bound.
LEMMA TotalBelow ==
  ASSUME NEW n \in Nat, NEW f, NEW bound \in Nat, \A i \in 0 .. n - 1 : f[i] \in 0 .. bound
  PROVE  Total(f, n) \in 0 .. n * bound
<1> DEFINE H == {j \in Nat : j <= n => Total(f, j) \in Nat /\ Total(f, j) <= j * bound}
<1>1. 0 \in H
  BY TotalStep
<1>2. ASSUME NEW j \in H PROVE j + 1 \in H
  <2>1. SUFFICES ASSUME j + 1 <= n PROVE Total(f, j + 1) \in Nat /\ Total(f, j + 1) <= (j + 1) * bound
    OBVIOUS
  <2>2. j \in 0 .. n - 1 /\ j \in Nat /\ j <= n
    BY <2>1
  <2>3. Total(f, j + 1) = Total(f, j) + f[j]
    BY <2>2, TotalStep
  <2>4. Total(f, j) \in Nat /\ Total(f, j) <= j * bound /\ f[j] \in Nat /\ f[j] <= bound
    BY <2>2
  <2>5. (j + 1) * bound = j * bound + bound /\ j * bound \in Nat
    BY <2>2
  <2> QED BY <2>3, <2>4, <2>5
<1> HIDE DEF H
<1>3. H = Nat
  <2>1. H \in SUBSET Nat
    BY DEF H
  <2>2. \A j \in H : j + 1 \in H
    BY <1>2
  <2> QED BY <1>1, <2>1, <2>2, Induction
<1>4. Total(f, n) \in Nat /\ Total(f, n) <= n * bound
  BY <1>3 DEF H
<1>5. n * bound \in Nat
  OBVIOUS
<1> QED BY <1>4, <1>5

-----------------------------------------------------------------------------
\* A row of products, put at its limb.
RowAt(row, g, m, n, k) == \A j \in 0 .. k - 1 : row[j] = IF j - m \in 0 .. n - 1 THEN g[j - m] ELSE 0

\* A row at its limb is worth that much more.
LEMMA RowWorth ==
  ASSUME NEW m \in Nat, NEW n \in Nat, NEW k \in Nat, m + n <= k, NEW g, \A j \in 0 .. n - 1 : g[j] \in Int,
         NEW row, RowAt(row, g, m, n, k)
  PROVE  Worth(row, k) = Weight(m) * Worth(g, n)
<1> DEFINE w == Weight(m)
           h == [j \in 0 .. k |-> IF j <= m THEN 0 ELSE IF j <= m + n THEN w * Worth(g, j - m) ELSE w * Worth(g, n)]
<1>0. /\ w \in Int /\ \A j \in 0 .. n : Worth(g, j) \in Int
      /\ \A j \in 0 .. k - 1 : row[j] = IF j - m \in 0 .. n - 1 THEN g[j - m] ELSE 0
  BY WeightOf, WorthInt DEF RowAt
<1>1. h[0] = 0
  OBVIOUS
<1>2. ASSUME NEW j \in 0 .. k - 1 PROVE h[j + 1] = h[j] + row[j] * Weight(j)
  <2>1. j \in 0 .. k /\ j + 1 \in 0 .. k /\ j \in Nat /\ Weight(j) \in Int
    BY WeightOf
  <2>2. CASE j < m
    <3>1. j - m \notin 0 .. n - 1 /\ j <= m /\ j + 1 <= m
      BY <2>1, <2>2
    <3>2. row[j] = 0 /\ h[j] = 0 /\ h[j + 1] = 0
      BY <1>0, <2>1, <3>1
    <3> HIDE DEF h
    <3> QED BY <2>1, <3>2
  <2>3. CASE m <= j /\ j < m + n
    <3> DEFINE i == j - m
               p == Worth(g, i)
               c == g[i]
               z == Weight(i)
    <3>1. i \in 0 .. n - 1 /\ i \in Nat /\ i \in 0 .. n /\ j = m + i /\ j + 1 - m = i + 1
      BY <2>1, <2>3
    <3>2. Worth(g, i + 1) = p + c * z /\ Weight(j) = w * z
      BY <3>1, WorthStep, WeightSum
    <3>3. p \in Int /\ c \in Int /\ z \in Int
      BY <1>0, <3>1, WeightOf
    <3>4. row[j] = c
      BY <1>0, <3>1
    <3>5. h[j + 1] = w * (p + c * z)
      <4>1. ~(j + 1 <= m) /\ j + 1 <= m + n
        BY <2>1, <2>3
      <4> QED BY <2>1, <3>1, <3>2, <4>1
    <3>6. h[j] = w * p
      <4>1. CASE j = m
        <5>1. i = 0 /\ j <= m
          BY <4>1
        <5>2. p = 0 /\ h[j] = 0
          BY <2>1, <5>1, WorthZero
        <5> HIDE DEF p, h, w
        <5> QED BY <1>0, <5>2
      <4>2. CASE j # m
        <5>1. ~(j <= m) /\ j <= m + n
          BY <2>1, <2>3, <4>2
        <5> QED BY <2>1, <5>1
      <4> QED BY <4>1, <4>2
    <3> HIDE DEF h, p, c, z, w
    <3>7. w * (p + c * z) = w * p + c * (w * z)
      BY <1>0, <3>3
    <3> QED BY <3>2, <3>4, <3>5, <3>6, <3>7
  <2>4. CASE m + n <= j
    <3>1. j - m \notin 0 .. n - 1 /\ ~(j + 1 <= m) /\ ~(j + 1 <= m + n)
      BY <2>1, <2>4
    <3>2. row[j] = 0 /\ h[j + 1] = w * Worth(g, n)
      BY <1>0, <2>1, <3>1
    <3>3. h[j] = w * Worth(g, n)
      <4>1. CASE j = m + n /\ n # 0
        <5>1. ~(j <= m) /\ j <= m + n /\ j - m = n
          BY <2>1, <4>1
        <5> QED BY <2>1, <5>1
      <4>2. CASE j = m /\ n = 0
        <5>1. h[j] = 0 /\ Worth(g, n) = 0
          BY <2>1, <4>2, WorthZero
        <5> HIDE DEF h
        <5> QED BY <1>0, <5>1
      <4>3. CASE m + n < j
        <5>1. ~(j <= m) /\ ~(j <= m + n)
          BY <2>1, <4>3
        <5> QED BY <2>1, <5>1
      <4> QED BY <2>1, <2>4, <4>1, <4>2, <4>3
    <3> DEFINE e == w * Worth(g, n)
    <3>4. e \in Int
      BY <1>0
    <3> HIDE DEF h, e
    <3> QED BY <2>1, <3>2, <3>3, <3>4 DEF e
  <2> QED BY <2>1, <2>2, <2>3, <2>4
<1>3. h[k] = w * Worth(g, n)
  <2>1. CASE k = m + n /\ n # 0
    <3>1. ~(k <= m) /\ k <= m + n /\ k - m = n /\ k \in 0 .. k
      BY <2>1
    <3> QED BY <3>1
  <2>2. CASE k = m /\ n = 0
    <3>1. h[k] = 0 /\ Worth(g, n) = 0
      BY <2>2, WorthZero
    <3> HIDE DEF h
    <3> QED BY <1>0, <3>1
  <2>3. CASE m + n < k
    <3>1. ~(k <= m) /\ ~(k <= m + n) /\ k \in 0 .. k
      BY <2>3
    <3> QED BY <3>1
  <2> QED BY <2>1, <2>2, <2>3
<1> HIDE DEF h
<1>4. \A j \in 0 .. k : Worth(row, j) = h[j]
  BY <1>1, <1>2, WorthIs
<1> QED BY <1>3, <1>4

\* Columns that add up rows, each put at its limb.
Cells(rows, m, n, k) == [i \in 0 .. m - 1 |-> IF k - i \in 0 .. n - 1 THEN rows[i][k - i] ELSE 0]
ByRows(column, rows, m, n, k) == \A j \in 0 .. k - 1 : column[j] = Total(Cells(rows, m, n, j), m)
RowWorths(rows, m, n) == [i \in 0 .. m - 1 |-> Weight(i) * Worth(rows[i], n)]

\* Columns are worth what the rows are.
LEMMA ColumnsByRows ==
  ASSUME NEW m \in Nat, NEW n \in Nat, NEW k \in Nat, m + n <= k + 1,
         NEW rows, \A i \in 0 .. m - 1 : \A j \in 0 .. n - 1 : rows[i][j] \in Int,
         NEW column, ByRows(column, rows, m, n, k)
  PROVE  Worth(column, k) = Total(RowWorths(rows, m, n), m)
<1> DEFINE Upto(i) == [j \in 0 .. k - 1 |-> Total(Cells(rows, m, n, j), i)]
           Row(i) == [j \in 0 .. k - 1 |-> Cells(rows, m, n, j)[i]]
           h == [i \in 0 .. m |-> Worth(Upto(i), k)]
           s == RowWorths(rows, m, n)
<1>1. \A j \in 0 .. k - 1 : \A i \in 0 .. m - 1 : Cells(rows, m, n, j)[i] \in Int
  BY DEF Cells
<1>2. \A j \in 0 .. k - 1 : \A i \in 0 .. m : Total(Cells(rows, m, n, j), i) \in Int
  BY <1>1, TotalInt
<1>3. h[0] = 0
  <2>1. 0 \in 0 .. m
    OBVIOUS
  <2>2. \A j \in 0 .. k - 1 : Upto(0)[j] = 0
    BY TotalStep
  <2> DEFINE u == Upto(0)
             z == [j \in 0 .. k |-> 0]
  <2>3. \A j \in 0 .. k - 1 : z[j + 1] = z[j] + u[j] * Weight(j)
    <3>1. ASSUME NEW j \in 0 .. k - 1 PROVE z[j + 1] = z[j] + u[j] * Weight(j)
      <4>1. u[j] = 0 /\ Weight(j) \in Int /\ z[j] = 0 /\ z[j + 1] = 0
        BY <2>2, WeightOf
      <4> HIDE DEF z, u
      <4> QED BY <4>1
    <3> QED BY <3>1
  <2>4. z[0] = 0 /\ z[k] = 0 /\ k \in 0 .. k
    OBVIOUS
  <2>5. h[0] = Worth(u, k)
    BY <2>1
  <2> HIDE DEF u, z
  <2>6. \A j \in 0 .. k : Worth(u, j) = z[j]
    BY <2>3, <2>4, WorthIs
  <2> QED BY <2>4, <2>5, <2>6
<1>4. ASSUME NEW i \in 0 .. m - 1 PROVE h[i + 1] = h[i] + s[i]
  <2>1. i \in Nat /\ i \in 0 .. m /\ i + 1 \in 0 .. m /\ i + n <= k
    OBVIOUS
  <2>2. \A j \in 0 .. k - 1 : /\ Upto(i)[j] \in Int /\ Row(i)[j] \in Int
                              /\ Upto(i + 1)[j] = Upto(i)[j] + Row(i)[j]
    <3>1. ASSUME NEW j \in 0 .. k - 1
          PROVE  Total(Cells(rows, m, n, j), i + 1) = Total(Cells(rows, m, n, j), i) + Cells(rows, m, n, j)[i]
      BY <2>1, TotalStep
    <3> QED BY <1>1, <1>2, <2>1, <3>1
  <2> DEFINE a == Upto(i)
             b == Row(i)
             c == Upto(i + 1)
             g == rows[i]
  <2>3. RowAt(b, g, i, n, k)
    BY DEF Cells, RowAt
  <2>4. h[i] = Worth(a, k) /\ h[i + 1] = Worth(c, k) /\ s[i] = Weight(i) * Worth(g, n)
    BY <2>1 DEF RowWorths
  <2>5. \A j \in 0 .. n - 1 : g[j] \in Int
    OBVIOUS
  <2>6. \A j \in 0 .. k - 1 : a[j] \in Int /\ b[j] \in Int /\ c[j] = a[j] + b[j]
    BY <2>2
  <2> HIDE DEF a, b, c, g, h, s
  <2>7. Worth(c, k) = Worth(a, k) + Worth(b, k)
    BY <2>6, WorthSum
  <2>8. Worth(b, k) = Weight(i) * Worth(g, n)
    BY <2>1, <2>3, <2>5, RowWorth
  <2> QED BY <2>4, <2>7, <2>8
<1>5. h[m] = Worth(column, k) /\ m \in 0 .. m
  <2>1. \A j \in 0 .. k - 1 : Upto(m)[j] = column[j]
    BY DEF ByRows
  <2> DEFINE u == Upto(m)
  <2>2. h[m] = Worth(u, k) /\ m \in 0 .. m
    <3>1. m \in 0 .. m
      OBVIOUS
    <3> HIDE DEF Upto
    <3> QED BY <3>1
  <2>3. \A j \in 0 .. k - 1 : u[j] = column[j]
    BY <2>1
  <2> HIDE DEF u
  <2>4. Worth(u, k) = Worth(column, k)
    BY <2>3, WorthSame
  <2> QED BY <2>2, <2>4
<1> HIDE DEF h, s
<1>6. \A i \in 0 .. m : Total(s, i) = h[i]
  BY <1>3, <1>4, TotalIs
<1> QED BY <1>5, <1>6 DEF s

\* The products of two lists of limbs, row by row.
Products(f, g, m, n) == [i \in 0 .. m - 1 |-> [j \in 0 .. n - 1 |-> f[i] * g[j]]]

\* The columns of a product are worth it.
LEMMA ProductColumns ==
  ASSUME NEW m \in Nat, NEW n \in Nat, NEW k \in Nat, m + n <= k + 1,
         NEW f, \A i \in 0 .. m - 1 : f[i] \in Int, NEW g, \A j \in 0 .. n - 1 : g[j] \in Int,
         NEW column, ByRows(column, Products(f, g, m, n), m, n, k)
  PROVE  Worth(column, k) = Worth(f, m) * Worth(g, n)
<1> DEFINE rows == Products(f, g, m, n)
           r == RowWorths(rows, m, n)
           s == [i \in 0 .. m - 1 |-> f[i] * Weight(i)]
           v == Worth(g, n)
<1>1. \A i \in 0 .. m - 1 : \A j \in 0 .. n - 1 : rows[i][j] = f[i] * g[j] /\ rows[i][j] \in Int
  BY DEF Products
<1>2. v \in Int
  <2>1. n \in 0 .. n
    OBVIOUS
  <2> QED BY <2>1, WorthInt
<1>3. ASSUME NEW i \in 0 .. m - 1 PROVE s[i] \in Int /\ r[i] = v * s[i]
  <2> DEFINE c == f[i]
             w == Weight(i)
             row == rows[i]
  <2>1. c \in Int /\ w \in Int
    BY WeightOf
  <2>2. \A j \in 0 .. n - 1 : g[j] \in Int /\ row[j] = c * g[j] + 0 * g[j]
    <3>1. ASSUME NEW j \in 0 .. n - 1 PROVE row[j] = c * g[j] + 0 * g[j]
      <4>1. row[j] = c * g[j] /\ g[j] \in Int
        BY <1>1
      <4>2. c * g[j] \in Int /\ 0 * g[j] = 0
        BY <2>1, <4>1
      <4> HIDE DEF row, c
      <4> QED BY <4>1, <4>2
    <3> QED BY <3>1
  <2>3. r[i] = w * Worth(row, n) /\ s[i] = c * w
    BY DEF RowWorths
  <2> HIDE DEF c, w, row, r, s, v
  <2>4. Worth(row, n) = c * v + 0 * v
    BY <2>1, <2>2, WorthLinear DEF v
  <2>5. w * (c * v + 0 * v) = v * (c * w) /\ c * w \in Int
    BY <1>2, <2>1
  <2> QED BY <2>3, <2>4, <2>5
<1>4. Worth(f, m) = Total(s, m)
  BY DEF Worth
<1>5. Worth(column, k) = Total(r, m)
  <2> HIDE DEF s, v
  <2>1. \A i \in 0 .. m - 1 : \A j \in 0 .. n - 1 : rows[i][j] \in Int
    BY <1>1
  <2> HIDE DEF rows
  <2>2. ByRows(column, rows, m, n, k)
    BY DEF rows
  <2> QED BY <2>1, <2>2, ColumnsByRows
<1> HIDE DEF s, r, v
<1>6. Total(r, m) = v * Total(s, m)
  BY <1>2, <1>3, TotalScaled
<1>7. Total(s, m) \in Int
  <2>1. m \in 0 .. m
    OBVIOUS
  <2> QED BY <1>3, <2>1, TotalInt
<1>8. v * Total(s, m) = Total(s, m) * v
  BY <1>2, <1>7
<1> QED BY <1>4, <1>5, <1>6, <1>8 DEF v

-----------------------------------------------------------------------------
(* The columns as they are summed, and carried. *)

\* The most a column may be: as many products as a scalar has limbs, and a limb.
ColumnRoom == L * ((Base - 1) * (Base - 1)) + (Base - 1)

\* It leaves room for what a column passes on.
LEMMA ColumnSizes ==
  /\ ColumnRoom \in Nat /\ ColumnRoom + Base * Base <= Weight(3)
  /\ (Base - 1) * (Base - 1) \in Nat /\ (Base - 1) * (Base - 1) + (Base - 1) < Weight(2)
  /\ Weight(2) \in Nat \ {0} /\ Weight(3) \in Nat \ {0} /\ Weight(2) <= Weight(3)
  /\ Weight(2) = Base * Base /\ Weight(3) = (Base * Base) * Base
<1> DEFINE b == Base
           m == (b - 1) * (b - 1)
<1>1. b \in Nat /\ b >= 8 /\ L \in Nat /\ L <= b - 1
  BY Shape
<1>2. Weight(2) = b * b /\ Weight(3) = (b * b) * b
  <2>1. Weight(3) = b * b * b
    BY SmallWeights
  <2> QED BY SmallWeights, <2>1
<1> HIDE DEF b
<1>3. b * b \in Nat /\ b * b >= 8 * b /\ m = b * b - 2 * b + 1
  <2>1. 8 * b <= b * b /\ b * b \in Nat
    BY <1>1, Times
  <2>2. m = b * b - 2 * b + 1
    BY <1>1
  <2> QED BY <2>1, <2>2
<1>4. m \in Nat
  BY <1>1, <1>3
<1>5. m + (b - 1) < b * b
  BY <1>1, <1>3
<1> DEFINE s == b * b
<1>6. L * m <= (b - 1) * m /\ L * m \in Nat
  <2> HIDE DEF m
  <2> QED BY <1>1, <1>4, Times
<1>7. (b - 1) * m = s * b - 3 * s + 3 * b - 1 /\ s * b \in Nat
  <2>1. (b - 1) * m = b * m - m
    <3> HIDE DEF m
    <3> QED BY <1>1, <1>4
  <2>2. b * m = s * b - 2 * s + b /\ s * b \in Nat
    <3>1. b * (s - 2 * b + 1) = b * s - b * (2 * b) + b
      <4>1. s \in Int
        BY <1>3
      <4> HIDE DEF s
      <4> QED BY <1>1, <4>1
    <3>2. b * s = s * b /\ b * (2 * b) = 2 * s /\ s * b \in Nat
      <4>1. b * (2 * b) = 2 * s
        BY <1>1
      <4>2. s \in Nat
        BY <1>3
      <4> HIDE DEF s
      <4> QED BY <1>1, <4>1, <4>2
    <3> QED BY <1>3, <3>1, <3>2
  <2> HIDE DEF m
  <2>3. m = s - 2 * b + 1 /\ s \in Int
    BY <1>3 DEF m
  <2> DEFINE t == s * b
  <2> HIDE DEF s, t
  <2>4. b * m = t - 2 * s + b /\ t \in Nat
    BY <2>2 DEF t
  <2>5. (b - 1) * m = (t - 2 * s + b) - (s - 2 * b + 1)
    BY <2>1, <2>3, <2>4
  <2>6. (t - 2 * s + b) - (s - 2 * b + 1) = t - 3 * s + 3 * b - 1
    BY <1>1, <2>3, <2>4
  <2> QED BY <2>4, <2>5, <2>6 DEF t
<1>8. (L * m + (b - 1)) \in Nat /\ (L * m + (b - 1)) + s <= s * b
  <2> DEFINE t == s * b
             e == L * m
             f == (b - 1) * m
  <2>1. e <= f /\ e \in Nat /\ f = t - 3 * s + 3 * b - 1 /\ t \in Nat /\ s \in Nat /\ s >= 8 * b
    BY <1>3, <1>6, <1>7
  <2> HIDE DEF t, e, f, s
  <2>2. e + (b - 1) \in Nat /\ (e + (b - 1)) + s <= t
    BY <1>1, <2>1
  <2> QED BY <2>2 DEF e, t
<1>9. s \in Nat \ {0} /\ s * b \in Nat \ {0} /\ s <= s * b
  <2>1. s \in Nat /\ s >= 64
    BY <1>1, <1>3
  <2>2. 1 * s <= b * s /\ b * s = s * b /\ b * s \in Nat
    <3> HIDE DEF s
    <3> QED BY <1>1, <2>1, Times
  <2> HIDE DEF s
  <2> QED BY <2>1, <2>2
<1> QED BY <1>2, <1>4, <1>5, <1>8, <1>9 DEF ColumnRoom, b

\* What is left after each column.
IsRest(rest, column, n, fast) ==
  rest = [k \in 0 .. n |->
            IF k = 0 THEN 0
            ELSE ((rest[k - 1] + column[k - 1]) % (IF k - 1 \in fast THEN Weight(2) ELSE Weight(3))) \div Base]

\* It, a recursive function, exists for all columns.
LEMMA RestsExist ==
  ASSUME NEW column, NEW n \in Nat, NEW fast
  PROVE  \E rest : IsRest(rest, column, n, fast)
<1> DEFINE After(s, k) == ((s + column[k]) % (IF k \in fast THEN Weight(2) ELSE Weight(3))) \div Base
           Is(s, j) == s = [k \in 0 .. j |-> IF k = 0 THEN 0 ELSE After(s[k - 1], k - 1)]
           H == {j \in Nat : \E s : Is(s, j)}
<1> HIDE DEF After
<1>1. 0 \in H
  <2> DEFINE s == [i \in 0 .. 0 |-> 0]
  <2>1. s = [k \in 0 .. 0 |-> IF k = 0 THEN 0 ELSE After(s[k - 1], k - 1)]
    OBVIOUS
  <2> HIDE DEF s
  <2> QED BY <2>1
<1>2. ASSUME NEW j \in H PROVE j + 1 \in H
  <2>1. PICK s : Is(s, j)
    OBVIOUS
  <2> DEFINE d == [k \in 0 .. j + 1 |-> IF k <= j THEN s[k] ELSE After(s[j], j)]
  <2>2. ASSUME NEW k \in 0 .. j + 1 PROVE d[k] = IF k = 0 THEN 0 ELSE After(d[k - 1], k - 1)
    <3>1. CASE k = 0
      <4>1. 0 \in 0 .. j /\ 0 \in 0 .. j + 1 /\ 0 <= j
        OBVIOUS
      <4>2. s[0] = 0 /\ d[0] = s[0]
        BY <2>1, <4>1
      <4> HIDE DEF d
      <4> QED BY <3>1, <4>2
    <3>2. CASE k # 0 /\ k <= j
      <4>1. k \in 0 .. j /\ k - 1 \in 0 .. j + 1 /\ k - 1 <= j
        BY <3>2
      <4>2. d[k] = s[k] /\ d[k - 1] = s[k - 1] /\ s[k] = After(s[k - 1], k - 1)
        BY <2>1, <3>2, <4>1
      <4> HIDE DEF d
      <4> QED BY <3>2, <4>2
    <3>3. CASE k = j + 1
      <4>1. k - 1 = j /\ k # 0 /\ j \in 0 .. j + 1 /\ ~(k <= j)
        BY <3>3
      <4>2. d[k] = After(s[j], j) /\ d[k - 1] = s[j]
        BY <4>1
      <4> HIDE DEF d
      <4> QED BY <4>1, <4>2
    <3> QED BY <3>1, <3>2, <3>3
  <2>3. d = [k \in 0 .. j + 1 |-> d[k]]
    OBVIOUS
  <2> HIDE DEF d
  <2>4. Is(d, j + 1)
    BY <2>2, <2>3
  <2>5. j + 1 \in Nat
    OBVIOUS
  <2> QED BY <2>4, <2>5
<1> HIDE DEF H
<1>3. H = Nat
  BY <1>1, <1>2, Induction DEF H
<1>4. n \in H
  BY <1>3
<1> QED BY <1>4 DEF H, IsRest, After

\* The columns a product or a folding adds up.
NoWrap(column, n) ==
  /\ \A j \in 0 .. n - 1 : column[j] \in Nat /\ column[j] <= ColumnRoom
  /\ column[0] < Weight(2) /\ Worth(column, n) < Weight(n + 1)

\* None of them passes its accumulator, so that nothing is lost.
LEMMA ExtractedExact ==
  ASSUME NEW n \in Nat \ {0}, NEW column, NoWrap(column, n)
  PROVE  LET e == Extracted(column, n, {0, n - 1})
         IN  /\ e.rest \in Nat /\ AreLimbs(e.limb, n) /\ e.limb = [k \in 0 .. n - 1 |-> e.limb[k]]
             /\ Worth(e.limb, n) + e.rest * Weight(n) = Worth(column, n)
<1> DEFINE fast == {0, n - 1}
           Room(k) == IF k \in fast THEN Weight(2) ELSE Weight(3)
           c == CHOOSE c : IsRest(c, column, n, fast)
           d == [k \in 0 .. n - 1 |-> (c[k] + column[k]) % Base]
<1>1. IsRest(c, column, n, fast)
  BY RestsExist
<1>2. Extracted(column, n, fast) = [limb |-> d, rest |-> c[n]]
  BY Zenon DEF Extracted, IsRest
<1> HIDE DEF c, fast
<1>3. c[0] = 0 /\ \A k \in 0 .. n - 1 : c[k + 1] = ((c[k] + column[k]) % Room(k)) \div Base
  <2>1. 0 \in 0 .. n /\ \A k \in 0 .. n - 1 : k + 1 \in 0 .. n /\ k + 1 # 0 /\ (k + 1) - 1 = k
    OBVIOUS
  <2>2. ASSUME NEW k \in 0 .. n - 1 PROVE c[k + 1] = ((c[k] + column[k]) % Room(k)) \div Base
    <3>1. c[k + 1] = ((c[(k + 1) - 1] + column[(k + 1) - 1]) % Room((k + 1) - 1)) \div Base
      BY <1>1, <2>1 DEF IsRest
    <3> QED BY <2>1, <3>1
  <2>3. c[0] = 0
    BY <1>1, <2>1 DEF IsRest
  <2> QED BY <2>2, <2>3
<1>4. \A k \in 0 .. n - 1 : column[k] \in Nat /\ column[k] <= ColumnRoom
  BY DEF NoWrap
<1>5. Base \in Nat \ {0} /\ 0 \in 0 .. n - 1 /\ n \in Nat
  BY Shape
<1> DEFINE H == {j \in Nat : j <= n => c[j] \in Nat /\ c[j] < Weight(2) /\ Passing(column, c, d, j)}
<1>6. 0 \in H
  <2>1. Passing(column, c, d, 0)
    BY <1>3 DEF Passing
  <2>2. 0 < Weight(2)
    BY ColumnSizes
  <2> QED BY <1>3, <2>1, <2>2
<1>7. ASSUME NEW j \in H PROVE j + 1 \in H
  <2> SUFFICES ASSUME j + 1 <= n PROVE c[j + 1] \in Nat /\ c[j + 1] < Weight(2) /\ Passing(column, c, d, j + 1)
    OBVIOUS
  <2>1. j \in 0 .. n - 1 /\ j \in Nat /\ j \in 0 .. j
    OBVIOUS
  <2>2. c[j] \in Nat /\ c[j] < Weight(2) /\ Passing(column, c, d, j)
    BY <2>1
  <2> DEFINE sum == c[j] + column[j]
  <2>3. sum \in Nat /\ sum = column[j] + c[j]
    BY <1>4, <2>1, <2>2
  <2>4. sum < Room(j) /\ sum < Weight(3)
    <3>1. CASE j = 0
      <4>1. sum = column[0] /\ column[0] < Weight(2) /\ Room(j) = Weight(2)
        BY <1>3, <1>4, <1>5, <3>1 DEF fast, NoWrap
      <4>2. Weight(2) <= Weight(3) /\ Weight(2) \in Nat /\ Weight(3) \in Nat
        BY ColumnSizes
      <4> HIDE DEF sum, Room
      <4> QED BY <2>3, <4>1, <4>2
    <3>2. CASE j = n - 1
      <4> DEFINE w == Weight(j)
                 t == Weight(2)
                 u == Worth(d, j)
      <4>1. w \in Nat \ {0} /\ t \in Nat \ {0} /\ t <= Weight(3) /\ Weight(3) \in Nat
        BY <2>1, WeightOf, ColumnSizes
      <4>2. Weight(n + 1) = w * t
        <5>1. n + 1 = j + 2
          BY <3>2
        <5> QED BY <2>1, <5>1, WeightSum
      <4>3. u + c[j] * w = Worth(column, j) /\ \A i \in 0 .. j - 1 : d[i] \in 0 .. Base - 1
        BY <2>1, <2>2, Passed, SMTT(30)
      <4>4. u \in Nat
        <5>1. j \in 0 .. j /\ \A i \in 0 .. j - 1 : d[i] \in Nat
          BY <1>5, <2>1, <4>3, SMTT(30)
        <5> HIDE DEF d
        <5> QED BY <2>1, <5>1, WorthInt
      <4>5. Worth(column, n) = Worth(column, j) + column[j] * w
        <5>1. Worth(column, j + 1) = Worth(column, j) + column[j] * w
          BY <2>1, WorthStep
        <5>2. j + 1 = n
          BY <3>2
        <5> QED BY <5>1, <5>2
      <4>6. Worth(column, n) < w * t
        BY <4>2 DEF NoWrap
      <4>7. sum * w = c[j] * w + column[j] * w /\ c[j] * w \in Nat /\ column[j] * w \in Nat
        <5> DEFINE p == c[j]
                   q == column[j]
        <5>1. p \in Nat /\ q \in Nat /\ sum = p + q
          BY <1>4, <2>1, <2>2
        <5> HIDE DEF p, q, w, sum
        <5>2. (p + q) * w = p * w + q * w /\ p * w \in Nat /\ q * w \in Nat
          BY <4>1, <5>1
        <5> QED BY <5>1, <5>2 DEF p, q
      <4>8. ~(t <= sum)
        <5> SUFFICES ASSUME t <= sum PROVE FALSE
          OBVIOUS
        <5>1. t * w <= sum * w
          <6> HIDE DEF t, w, sum
          <6> QED BY <2>3, <4>1, Times
        <5>2. t * w = w * t /\ w * t \in Nat
          BY <4>1
        <5> DEFINE p == c[j] * w
                   q == column[j] * w
                   r == w * t
                   s == sum * w
        <5>3. r <= s /\ s = p + q /\ p \in Nat /\ q \in Nat /\ r \in Nat /\ u + p + q < r
          BY <4>3, <4>4, <4>5, <4>6, <4>7, <5>1, <5>2
        <5> HIDE DEF p, q, r, s, u
        <5> QED BY <4>4, <5>3
      <4>9. Room(j) = t
        BY <3>2 DEF fast
      <4> HIDE DEF sum, t, Room
      <4> QED BY <2>3, <4>1, <4>8, <4>9
    <3>3. CASE j # 0 /\ j # n - 1
      <4>1. Room(j) = Weight(3)
        BY <3>3 DEF fast
      <4>2. column[j] <= ColumnRoom /\ column[j] \in Nat
        BY <1>4, <2>1
      <4>3. ColumnRoom + Weight(2) <= Weight(3) /\ ColumnRoom \in Nat /\ Weight(2) \in Nat /\ Weight(3) \in Nat
        BY ColumnSizes
      <4> DEFINE p == c[j]
                 q == column[j]
      <4>4. sum = p + q /\ p \in Nat /\ q \in Nat /\ p < Weight(2) /\ q <= ColumnRoom
        BY <2>2, <4>2
      <4> HIDE DEF sum, p, q, Room
      <4> QED BY <4>1, <4>3, <4>4
    <3> QED BY <3>1, <3>2, <3>3
  <2>5. c[j + 1] = (column[j] + c[j]) \div Base /\ c[j + 1] \in Nat /\ c[j + 1] < Weight(2)
    <3> DEFINE room == Room(j)
    <3>1. room \in Nat \ {0}
      BY ColumnSizes
    <3>2. c[j + 1] = (sum % room) \div Base
      BY <1>3, <2>1
    <3> HIDE DEF sum, Room, room
    <3>3. sum % room = sum
      BY <2>3, <2>4, <3>1, ModBelow DEF room
    <3>4. sum < Weight(2) * Base
      BY <2>4, ColumnSizes
    <3>5. sum \div Base < Weight(2) /\ sum \div Base \in Nat
      <4>1. Weight(2) \in Nat
        BY ColumnSizes
      <4> QED BY <1>5, <2>3, <3>4, <4>1, DivBelow, Division
    <3> QED BY <2>3, <3>2, <3>3, <3>5
  <2>6. d[j] = (column[j] + c[j]) % Base
    BY <2>1, <2>3
  <2>7. Passing(column, c, d, j + 1)
    <3>1. \A i \in 0 .. (j + 1) - 1 : i \in 0 .. j - 1 \/ i = j
      BY <2>1
    <3>2. /\ \A i \in 0 .. j - 1 : column[i] \in Nat
          /\ c[0] = 0 /\ \A i \in 0 .. j - 1 : c[i + 1] = (column[i] + c[i]) \div Base
          /\ \A i \in 0 .. j - 1 : d[i] = (column[i] + c[i]) % Base
      BY <2>2 DEF Passing
    <3>3. column[j] \in Nat
      BY <1>4, <2>1
    <3> HIDE DEF d
    <3>4. \A i \in 0 .. (j + 1) - 1 : /\ column[i] \in Nat /\ c[i + 1] = (column[i] + c[i]) \div Base
                                      /\ d[i] = (column[i] + c[i]) % Base
      BY <2>5, <2>6, <3>1, <3>2, <3>3
    <3> QED BY <3>2, <3>4 DEF Passing
  <2> QED BY <2>5, <2>7
<1> HIDE DEF H
<1>8. H = Nat
  BY <1>6, <1>7, Induction DEF H
<1>9. Passing(column, c, d, n)
  BY <1>5, <1>8 DEF H
<1>10. d = [k \in 0 .. n - 1 |-> d[k]]
  OBVIOUS
<1> HIDE DEF d
<1>11. /\ \A j \in 0 .. n : c[j] \in Nat /\ Worth(d, j) + c[j] * Weight(j) = Worth(column, j)
       /\ \A j \in 0 .. n - 1 : d[j] \in 0 .. Base - 1
  BY <1>5, <1>9, Passed
<1>12. n \in 0 .. n
  BY <1>5
<1> DEFINE e == Extracted(column, n, {0, n - 1})
<1>13. e.limb = d /\ e.rest = c[n]
  BY <1>2 DEF fast
<1> HIDE DEF e
<1>14. /\ e.rest \in Nat /\ AreLimbs(e.limb, n) /\ e.limb = [k \in 0 .. n - 1 |-> e.limb[k]]
       /\ Worth(e.limb, n) + e.rest * Weight(n) = Worth(column, n)
  BY <1>10, <1>11, <1>12, <1>13 DEF AreLimbs
<1> QED BY <1>14 DEF e

-----------------------------------------------------------------------------
(* Squares, and the reduction modulo the order. *)

\* A square's columns are those of the product with itself: each product below the middle is
\* added twice instead of once on either side.
LEMMA SquareColumn ==
  ASSUME NEW a, IsLimbs(a), NEW k \in Nat
  PROVE  SqrColumn(a, k) = MulColumn(a, a, k)
<1> DEFINE In(i) == i \in D /\ k - i \in D
           f == [i \in D |-> IF k - i \notin D \/ 2 * i > k THEN 0
                             ELSE IF 2 * i = k THEN a[i] * a[i] ELSE 2 * (a[i] * a[k - i])]
           g == [i \in D |-> IF k - i \in D THEN a[i] * a[k - i] ELSE 0]
           u == [i \in 0 .. k |-> IF In(i) THEN f[i] ELSE 0]
           v == [i \in 0 .. k |-> IF In(i) THEN g[i] ELSE 0]
           r == [i \in 0 .. k |-> u[k - i]]
<1>1. SqrColumn(a, k) = Total(f, L) /\ MulColumn(a, a, k) = Total(g, L)
  BY DEF SqrColumn, MulColumn
<1>2. L \in Nat /\ D = 0 .. L - 1 /\ k + 1 \in Nat /\ \A i \in D : a[i] \in Int
  <2>1. D = 0 .. L - 1 /\ L \in Nat
    BY Shape
  <2> QED BY <2>1, Limbs
<1>3. ASSUME NEW i \in D
      PROVE  /\ f[i] \in Int /\ g[i] \in Int /\ (~In(i) => f[i] = 0 /\ g[i] = 0)
             /\ In(i) => /\ f[i] = (IF 2 * i > k THEN 0 ELSE IF 2 * i = k THEN a[i] * a[i] ELSE 2 * (a[i] * a[k - i]))
                         /\ g[i] = a[i] * a[k - i]
  <2>1. CASE In(i)
    <3>1. a[i] * a[k - i] \in Int /\ a[i] * a[i] \in Int /\ 2 * (a[i] * a[k - i]) \in Int
      <4> DEFINE p == a[i]
                 q == a[k - i]
      <4>1. p \in Int /\ q \in Int
        BY <1>2, <2>1
      <4> HIDE DEF p, q
      <4>2. p * q \in Int /\ p * p \in Int
        BY <4>1
      <4> QED BY <4>2 DEF p, q
    <3> QED BY <2>1, <3>1
  <2>2. CASE ~In(i)
    <3>1. k - i \notin D
      BY <2>2
    <3> QED BY <2>2, <3>1
  <2> QED BY <2>1, <2>2
<1> HIDE DEF f, g
<1>4. ASSUME NEW i \in 0 .. k PROVE u[i] \in Int /\ v[i] \in Int /\ r[i] \in Int
  <2>1. k - i \in 0 .. k
    OBVIOUS
  <2> QED BY <1>3, <2>1
<1>5. ASSUME NEW h, NEW e, \A i \in D : h[i] \in Int /\ (~In(i) => h[i] = 0),
             \A i \in 0 .. k : e[i] = IF In(i) THEN h[i] ELSE 0
      PROVE  Total(h, L) = Total(e, k + 1)
  <2>1. CASE L <= k + 1
    <3>1. \A i \in 0 .. L - 1 : h[i] \in Int /\ e[i] = h[i]
      <4>1. \A i \in 0 .. L - 1 : i \in D /\ i \in 0 .. k
        BY <1>2, <2>1
      <4> HIDE DEF In
      <4> QED BY <1>5, <4>1
    <3>2. \A i \in L .. (k + 1) - 1 : e[i] = 0
      <4>1. \A i \in L .. (k + 1) - 1 : i \notin D /\ i \in 0 .. k
        BY <1>2
      <4> QED BY <1>5, <4>1
    <3> HIDE DEF In
    <3> QED BY <1>2, <2>1, <3>1, <3>2, TotalPadded
  <2>2. CASE k + 1 <= L
    <3> DEFINE n == k + 1
    <3>1. \A i \in 0 .. n - 1 : e[i] \in Int /\ h[i] = e[i]
      <4>1. \A i \in 0 .. n - 1 : i \in D /\ i \in 0 .. k
        BY <1>2, <2>2
      <4> HIDE DEF In
      <4> QED BY <1>5, <4>1
    <3>2. \A i \in n .. L - 1 : h[i] = 0
      <4>1. \A i \in n .. L - 1 : i \in D /\ k - i \notin D
        BY <1>2
      <4> QED BY <1>5, <4>1
    <3>3. n \in Nat /\ n <= L
      BY <2>2
    <3> HIDE DEF In, n
    <3>4. Total(h, L) = Total(e, n)
      BY <1>2, <3>1, <3>2, <3>3, TotalPadded
    <3> QED BY <3>4 DEF n
  <2> QED BY <1>2, <2>1, <2>2
<1>6. Total(f, L) = Total(u, k + 1) /\ Total(g, L) = Total(v, k + 1)
  <2>1. (\A i \in 0 .. k : u[i] = IF In(i) THEN f[i] ELSE 0) /\ (\A i \in 0 .. k : v[i] = IF In(i) THEN g[i] ELSE 0)
    OBVIOUS
  <2>2. (\A i \in D : f[i] \in Int /\ (~In(i) => f[i] = 0)) /\ (\A i \in D : g[i] \in Int /\ (~In(i) => g[i] = 0))
    BY <1>3
  <2> HIDE DEF u, v, In
  <2> QED BY <1>5, <2>1, <2>2
<1>7. \A i \in 0 .. (k + 1) - 1 : u[i] \in Int /\ r[i] = u[(k + 1) - 1 - i]
  <2>1. \A i \in 0 .. (k + 1) - 1 : i \in 0 .. k /\ (k + 1) - 1 - i = k - i
    OBVIOUS
  <2>2. \A i \in 0 .. k : r[i] = u[k - i]
    OBVIOUS
  <2> HIDE DEF u, r
  <2> QED BY <1>4, <2>1, <2>2
<1>8. Total(r, k + 1) = Total(u, k + 1)
  <2> HIDE DEF r, u
  <2> QED BY <1>2, <1>7, TotalReversed
<1> DEFINE s == [i \in 0 .. k |-> 2 * v[i]]
<1>9. ASSUME NEW i \in 0 .. k PROVE s[i] = 1 * u[i] + 1 * r[i]
  <2> DEFINE j == k - i
  <2>1. j \in 0 .. k /\ k - j = i /\ i \in Nat /\ j \in Nat /\ i + j = k
    OBVIOUS
  <2>2. In(j) <=> In(i)
    BY <2>1
  <2>3. r[i] = u[j] /\ s[i] = 2 * v[i]
    BY <2>1
  <2>4. CASE In(i)
    <3> DEFINE p == a[i]
               q == a[j]
    <3>1. p \in Int /\ q \in Int
      BY <1>2, <2>4
    <3>2. u[i] = (IF 2 * i > k THEN 0 ELSE IF 2 * i = k THEN p * p ELSE 2 * (p * q)) /\ v[i] = p * q
      BY <1>3, <2>4
    <3>3. u[j] = (IF 2 * j > k THEN 0 ELSE IF 2 * j = k THEN q * q ELSE 2 * (q * p))
      <4>1. In(j) /\ a[k - j] = p
        BY <2>1, <2>2, <2>4
      <4> QED BY <1>3, <2>1, <4>1
    <3> DEFINE t == p * q
    <3>4. t \in Int /\ q * p = t
      BY <3>1
    <3>5. 2 * i = k => i = j
      BY <2>1
    <3>6. i = j => p * p = t /\ q * q = t
      OBVIOUS
    <3> HIDE DEF p, q, u, v, r, s, t, j
    <3>7. CASE 2 * i > k
      <4>1. ~(2 * j > k) /\ 2 * j # k
        BY <2>1, <3>7
      <4>2. u[i] = 0 /\ u[j] = 2 * t /\ v[i] = t
        BY <3>2, <3>3, <3>4, <3>7, <4>1 DEF t
      <4> QED BY <2>3, <3>4, <4>2
    <3>8. CASE 2 * i = k
      <4>1. 2 * j = k /\ ~(2 * j > k) /\ ~(2 * i > k)
        BY <2>1, <3>8
      <4>2. u[i] = t /\ u[j] = t /\ v[i] = t
        BY <3>2, <3>3, <3>5, <3>6, <3>8, <4>1 DEF t
      <4> QED BY <2>3, <3>4, <4>2
    <3>9. CASE 2 * i < k
      <4>1. 2 * j > k /\ ~(2 * i > k) /\ 2 * i # k
        BY <2>1, <3>9
      <4>2. u[i] = 2 * t /\ u[j] = 0 /\ v[i] = t
        BY <3>2, <3>3, <4>1 DEF t
      <4> QED BY <2>3, <3>4, <4>2
    <3> QED BY <2>1, <3>7, <3>8, <3>9
  <2>5. CASE ~In(i)
    <3>1. u[i] = 0 /\ v[i] = 0 /\ u[j] = 0
      BY <2>1, <2>2, <2>5
    <3> HIDE DEF u, v, r, s
    <3> QED BY <2>3, <3>1
  <2> QED BY <2>4, <2>5
<1> HIDE DEF u, v, r
<1>10. Total(s, k + 1) = 1 * Total(u, k + 1) + 1 * Total(r, k + 1)
  <2>1. \A i \in 0 .. (k + 1) - 1 : u[i] \in Int /\ r[i] \in Int /\ s[i] = 1 * u[i] + 1 * r[i]
    <3>1. \A i \in 0 .. (k + 1) - 1 : i \in 0 .. k
      OBVIOUS
    <3> HIDE DEF s
    <3> QED BY <1>4, <1>9, <3>1
  <2> HIDE DEF s
  <2> QED BY <1>2, <2>1, TotalLinear
<1>11. Total(s, k + 1) = 2 * Total(v, k + 1)
  <2>1. \A i \in 0 .. (k + 1) - 1 : v[i] \in Int /\ s[i] = 2 * v[i]
    <3>1. \A i \in 0 .. (k + 1) - 1 : i \in 0 .. k
      OBVIOUS
    <3> QED BY <1>4, <3>1
  <2> HIDE DEF s
  <2> QED BY <1>2, <2>1, TotalScaled
<1>12. Total(u, k + 1) \in Int /\ Total(v, k + 1) \in Int
  <2>1. k + 1 \in 0 .. k + 1 /\ \A i \in 0 .. (k + 1) - 1 : u[i] \in Int /\ v[i] \in Int
    <3>1. \A i \in 0 .. (k + 1) - 1 : i \in 0 .. k
      OBVIOUS
    <3> QED BY <1>4, <3>1
  <2> QED BY <1>2, <2>1, TotalInt
<1> QED BY <1>1, <1>6, <1>8, <1>10, <1>11, <1>12

\* The columns of the product of two scalars.
LEMMA MulColumns ==
  ASSUME NEW a, IsLimbs(a), NEW b, IsLimbs(b)
  PROVE  LET column == [k \in 0 .. 2 * L - 2 |-> MulColumn(a, b, k)]
         IN  Worth(column, 2 * L - 1) = Value(a) * Value(b) /\ NoWrap(column, 2 * L - 1)
<1> DEFINE column == [k \in 0 .. 2 * L - 2 |-> MulColumn(a, b, k)]
           n == 2 * L - 1
           m == (Base - 1) * (Base - 1)
<1>1. L \in Nat /\ L >= 2 /\ D = 0 .. L - 1 /\ n \in Nat /\ L + L <= n + 1 /\ n + 1 = L + L /\ Base \in Nat \ {0}
  BY Shape
<1>2. \A i \in 0 .. L - 1 : a[i] \in 0 .. Base - 1 /\ b[i] \in 0 .. Base - 1 /\ a[i] \in Int /\ b[i] \in Int
  BY Limbs
<1>3. \A k \in 0 .. n - 1 : column[k] = MulColumn(a, b, k)
  BY <1>1
<1> HIDE DEF column
<1>4. ASSUME NEW k \in 0 .. n - 1 PROVE MulColumn(a, b, k) = Total(Cells(Products(a, b, L, L), L, L, k), L)
  <2> DEFINE f == [i \in D |-> IF k - i \in D THEN a[i] * b[k - i] ELSE 0]
             g == Cells(Products(a, b, L, L), L, L, k)
  <2>1. \A i \in 0 .. L - 1 : f[i] = g[i]
    BY <1>1 DEF Cells, Products
  <2>2. MulColumn(a, b, k) = Total(f, L)
    BY DEF MulColumn
  <2> HIDE DEF f, g
  <2>3. Total(f, L) = Total(g, L)
    BY <1>1, <2>1, TotalSame
  <2> QED BY <2>2, <2>3 DEF g
<1>5. Worth(column, n) = Worth(a, L) * Worth(b, L)
  <2>1. ByRows(column, Products(a, b, L, L), L, L, n)
    BY <1>3, <1>4 DEF ByRows
  <2> HIDE DEF n
  <2> QED BY <1>1, <1>2, <2>1, ProductColumns
<1>6. Worth(a, L) = Value(a) /\ Worth(b, L) = Value(b)
  BY Limbs
<1>7. m \in Nat /\ L * m <= ColumnRoom /\ m < Weight(2)
  <2> DEFINE e == L * m
             w == Weight(2)
  <2>1. m \in Nat /\ ColumnRoom = e + (Base - 1) /\ m + (Base - 1) < w /\ w \in Nat
    BY ColumnSizes DEF ColumnRoom
  <2>2. e \in Int
    <3> HIDE DEF m
    <3> QED BY <1>1, <2>1
  <2> HIDE DEF e, m, w
  <2> QED BY <1>1, <2>1, <2>2 DEF e, w
<1>8. ASSUME NEW i \in 0 .. L - 1, NEW j \in 0 .. L - 1 PROVE a[i] * b[j] \in 0 .. m
  <2> DEFINE p == a[i]
             q == b[j]
             t == Base - 1
  <2>1. p \in Nat /\ q \in Nat /\ t \in Nat /\ p <= t /\ q <= t
    BY <1>1, <1>2
  <2> HIDE DEF p, q, t
  <2>2. p * q <= t * q /\ q * t <= t * t /\ p * q \in Nat /\ t * t \in Nat
    BY <2>1, Times
  <2>3. t * q = q * t /\ t * q \in Nat
    BY <2>1
  <2> DEFINE x1 == p * q
             x2 == t * q
             x3 == t * t
  <2>4. x1 <= x2 /\ x2 <= x3 /\ x1 \in Nat /\ x2 \in Nat /\ x3 \in Nat
    BY <2>2, <2>3
  <2> HIDE DEF x1, x2, x3
  <2>5. x1 \in 0 .. x3
    BY <2>4
  <2> QED BY <2>5 DEF x1, x3, p, q, t
<1> HIDE DEF m
<1>9. ASSUME NEW k \in 0 .. n - 1 PROVE column[k] \in Nat /\ column[k] <= ColumnRoom
  <2> DEFINE f == [i \in D |-> IF k - i \in D THEN a[i] * b[k - i] ELSE 0]
  <2>1. \A i \in 0 .. L - 1 : f[i] \in 0 .. m
    <3>1. 0 \in 0 .. m
      BY <1>7
    <3> QED BY <1>1, <1>8, <3>1
  <2>2. MulColumn(a, b, k) = Total(f, L)
    BY DEF MulColumn
  <2> HIDE DEF f
  <2>3. Total(f, L) \in 0 .. L * m
    BY <1>1, <1>7, <2>1, TotalBelow
  <2> DEFINE e == L * m
  <2>4. e \in Int /\ e <= ColumnRoom /\ ColumnRoom \in Int
    BY <1>1, <1>7, ColumnSizes
  <2> HIDE DEF e
  <2> QED BY <1>3, <2>2, <2>3, <2>4 DEF e
<1>10. column[0] < Weight(2)
  <2> DEFINE f == [i \in D |-> IF 0 - i \in D THEN a[i] * b[0 - i] ELSE 0]
             g == [i \in 0 .. 0 |-> a[0] * b[0]]
  <2>1. 0 \in 0 .. n - 1 /\ column[0] = Total(f, L)
    <3>1. 0 \in 0 .. n - 1
      BY <1>1
    <3>2. column[0] = MulColumn(a, b, 0)
      BY <1>3, <3>1
    <3>3. MulColumn(a, b, 0) = Total(f, L)
      BY DEF MulColumn
    <3> QED BY <3>1, <3>2, <3>3
  <2>2. f[0] = a[0] * b[0] /\ \A i \in 1 .. L - 1 : f[i] = 0
    <3>1. 0 - 0 = 0 /\ 0 \in D /\ \A i \in 1 .. L - 1 : i \in D /\ 0 - i \notin D
      BY <1>1
    <3> QED BY <3>1
  <2>3. a[0] * b[0] \in 0 .. m
    BY <1>1, <1>8
  <2> HIDE DEF f
  <2>4. Total(f, L) = Total(g, 1)
    <3>1. \A i \in 0 .. 1 - 1 : g[i] \in Int /\ f[i] = g[i]
      <4>1. \A i \in 0 .. 1 - 1 : i = 0
        OBVIOUS
      <4>2. g[0] = a[0] * b[0]
        OBVIOUS
      <4> HIDE DEF g
      <4> QED BY <2>2, <2>3, <4>1, <4>2
    <3> HIDE DEF g
    <3>2. 1 \in Nat /\ 1 <= L /\ L \in Nat
      BY <1>1
    <3> QED BY <2>2, <3>1, <3>2, TotalPadded
  <2>5. Total(g, 1) = a[0] * b[0]
    <3>1. Total(g, 0 + 1) = Total(g, 0) + g[0] /\ Total(g, 0) = 0
      BY TotalStep
    <3>2. g[0] = a[0] * b[0]
      OBVIOUS
    <3> HIDE DEF g
    <3> QED BY <2>3, <3>1, <3>2
  <2>6. Weight(2) \in Nat
    BY ColumnSizes
  <2> QED BY <1>7, <2>1, <2>3, <2>4, <2>5, <2>6
<1>11. Value(a) * Value(b) < Weight(n + 1)
  <2> DEFINE p == Value(a)
             q == Value(b)
             w == Weight(L)
  <2>1. p \in 0 .. w - 1 /\ q \in 0 .. w - 1 /\ w \in Nat \ {0} /\ Weight(n + 1) = w * w
    <3>1. Weight(L + L) = w * w
      BY <1>1, WeightSum
    <3> QED BY <1>1, <3>1, Limbs, Sizes
  <2> HIDE DEF p, q, w
  <2>2. p <= w /\ q + 1 <= w /\ p \in Nat /\ q \in Nat /\ p + 1 <= w
    BY <2>1
  <2>3. p * q <= w * q /\ (q + 1) * w <= w * w /\ p * q \in Nat
    BY <2>1, <2>2, Times
  <2>4. (q + 1) * w = w * q + w /\ w * q \in Nat /\ w * w \in Nat
    BY <2>1, <2>2
  <2> DEFINE x1 == p * q
             x2 == w * q
             x3 == w * w
  <2>5. x1 <= x2 /\ x2 + w <= x3 /\ x1 \in Nat /\ x2 \in Nat /\ x3 \in Nat
    BY <2>3, <2>4
  <2> HIDE DEF x1, x2, x3
  <2>6. x1 < x3
    BY <2>1, <2>5
  <2> QED BY <2>1, <2>6 DEF x1, x3, p, q
<1>12. NoWrap(column, n)
  BY <1>5, <1>6, <1>9, <1>10, <1>11 DEF NoWrap
<1> QED BY <1>5, <1>6, <1>12 DEF column

\* The limbs of columns that do not wrap.
LEMMA WideExact ==
  ASSUME NEW column, NoWrap(column, 2 * L - 1)
  PROVE  /\ AreLimbs(Wide(column), 2 * L) /\ Worth(Wide(column), 2 * L) = Worth(column, 2 * L - 1)
         /\ Wide(column) = [k \in 0 .. 2 * L - 1 |-> Wide(column)[k]]
<1> DEFINE n == 2 * L - 1
           e == Extracted(column, n, {0, n - 1})
           z == [k \in 0 .. 2 * L - 1 |-> IF k = 2 * L - 1 THEN e.rest % Base ELSE e.limb[k]]
<1>1. n \in Nat \ {0} /\ n \in Nat /\ n - 1 = 2 * L - 2 /\ 2 * L = n + 1 /\ Base \in Nat \ {0}
  BY Shape
<1>2. Wide(column) = z
  BY <1>1 DEF Wide
<1>3. /\ e.rest \in Nat /\ AreLimbs(e.limb, n) /\ Worth(e.limb, n) + e.rest * Weight(n) = Worth(column, n)
  <2> HIDE DEF e, n
  <2>1. NoWrap(column, n)
    BY DEF n
  <2> QED BY <1>1, <2>1, ExtractedExact DEF e
<1> HIDE DEF e
<1>4. Worth(e.limb, n) \in Nat
  <2>1. n \in 0 .. n /\ \A i \in 0 .. n - 1 : e.limb[i] \in Nat
    BY <1>1, <1>3 DEF AreLimbs
  <2> HIDE DEF n
  <2> QED BY <1>1, <2>1, WorthInt
<1>5. e.rest < Base
  <2> DEFINE w == Weight(n)
             r == e.rest
             b == Base
             u == Worth(e.limb, n)
  <2>1. Weight(n + 1) = w * b /\ w \in Nat \ {0} /\ b \in Nat /\ r \in Nat /\ u \in Nat
    BY <1>1, <1>3, <1>4, WeightNext, WeightOf
  <2>2. u + r * w < w * b
    BY <1>3, <2>1 DEF NoWrap
  <2> HIDE DEF w, r, b, u
  <2>3. b <= r => b * w <= r * w
    BY <2>1, Times
  <2>4. b * w = w * b /\ r * w \in Nat /\ b * w \in Nat
    BY <2>1
  <2> DEFINE x1 == r * w
             x2 == w * b
  <2>5. (b <= r => x2 <= x1) /\ u + x1 < x2 /\ x1 \in Nat /\ x2 \in Nat
    BY <2>2, <2>3, <2>4
  <2> HIDE DEF x1, x2
  <2>6. r < b
    BY <2>1, <2>5
  <2> QED BY <2>6 DEF r, b
<1>6. e.rest % Base = e.rest
  <2> DEFINE r == e.rest
  <2>1. r \in Nat /\ r < Base
    BY <1>3, <1>5
  <2> HIDE DEF r
  <2>2. r % Base = r
    BY <1>1, <2>1, ModBelow
  <2> QED BY <2>2 DEF r
<1>7. z[n] = e.rest /\ \A i \in 0 .. n - 1 : z[i] = e.limb[i]
  <2>1. n \in 0 .. 2 * L - 1 /\ \A i \in 0 .. n - 1 : i \in 0 .. 2 * L - 1 /\ i # 2 * L - 1
    BY <1>1
  <2> QED BY <1>6, <2>1
<1>8. z = [k \in 0 .. 2 * L - 1 |-> z[k]]
  OBVIOUS
<1> HIDE DEF z
<1>9. Worth(z, n + 1) = Worth(column, n)
  <2> HIDE DEF n
  <2>1. Worth(z, n + 1) = Worth(z, n) + z[n] * Weight(n)
    BY <1>1, WorthStep
  <2>2. Worth(z, n) = Worth(e.limb, n)
    BY <1>1, <1>7, WorthSame
  <2> QED BY <1>3, <1>7, <2>1, <2>2
<1>10. \A i \in 0 .. (n + 1) - 1 : z[i] \in 0 .. Base - 1
  <2>1. \A i \in 0 .. (n + 1) - 1 : i \in 0 .. n - 1 \/ i = n
    BY <1>1
  <2>2. e.rest \in 0 .. Base - 1 /\ \A i \in 0 .. n - 1 : e.limb[i] \in 0 .. Base - 1
    BY <1>1, <1>3, <1>5 DEF AreLimbs
  <2> HIDE DEF n
  <2> QED BY <1>7, <2>1, <2>2
<1>11. AreLimbs(z, 2 * L) /\ Worth(z, 2 * L) = Worth(column, 2 * L - 1)
  BY <1>1, <1>9, <1>10 DEF AreLimbs
<1> QED BY <1>2, <1>8, <1>11

\* The product of two scalars in 2 * L limbs: nothing is lost on the way.
LEMMA Mul512Exact ==
  ASSUME NEW a, IsLimbs(a), NEW b, IsLimbs(b)
  PROVE  AreLimbs(Mul512(a, b), 2 * L) /\ Worth(Mul512(a, b), 2 * L) = Value(a) * Value(b)
<1> DEFINE column == [k \in 0 .. 2 * L - 2 |-> MulColumn(a, b, k)]
<1>1. Worth(column, 2 * L - 1) = Value(a) * Value(b) /\ NoWrap(column, 2 * L - 1)
  BY MulColumns
<1>2. Mul512(a, b) = Wide(column)
  BY DEF Mul512
<1> HIDE DEF column
<1> QED BY <1>1, <1>2, WideExact

\* A square is the product of a scalar with itself.
LEMMA Sqr512Exact ==
  ASSUME NEW a, IsLimbs(a)
  PROVE  Sqr512(a) = Mul512(a, a)
<1>1. \A k \in 0 .. 2 * L - 2 : SqrColumn(a, k) = MulColumn(a, a, k)
  <2>1. \A k \in 0 .. 2 * L - 2 : k \in Nat
    BY Shape
  <2> QED BY <2>1, SquareColumn
<1>2. [k \in 0 .. 2 * L - 2 |-> SqrColumn(a, k)] = [k \in 0 .. 2 * L - 2 |-> MulColumn(a, a, k)]
  BY <1>1
<1> QED BY <1>2, Zenon DEF Sqr512, Mul512

\* Limbs in two parts.
LEMMA WorthSplit ==
  ASSUME NEW n \in Nat, NEW m \in Nat, NEW f, \A i \in 0 .. (n + m) - 1 : f[i] \in Int,
         NEW g, \A i \in 0 .. m - 1 : g[i] = f[n + i]
  PROVE  Worth(f, n + m) = Worth(f, n) + Weight(n) * Worth(g, m)
<1> DEFINE w == Weight(n)
           H == {j \in Nat : j <= m => Worth(f, n + j) = Worth(f, n) + w * Worth(g, j)}
<1>0. w \in Int /\ Worth(f, n) \in Int /\ \A j \in 0 .. m : Worth(g, j) \in Int
  <2>1. n \in 0 .. n + m /\ n + m \in Nat
    OBVIOUS
  <2>2. \A i \in 0 .. m - 1 : g[i] \in Int
    <3>1. \A i \in 0 .. m - 1 : n + i \in 0 .. (n + m) - 1
      OBVIOUS
    <3> QED BY <3>1
  <2>3. Worth(f, n) \in Int
    <3> DEFINE k == n + m
    <3>1. k \in Nat /\ n \in 0 .. k /\ \A i \in 0 .. k - 1 : f[i] \in Int
      BY <2>1
    <3> HIDE DEF k
    <3> QED BY <3>1, WorthInt
  <2> QED BY <2>2, <2>3, WorthInt, WeightOf
<1>1. 0 \in H
  <2>1. n + 0 = n /\ Worth(g, 0) = 0 /\ w * 0 = 0
    BY <1>0, WorthZero
  <2> HIDE DEF w
  <2> QED BY <1>0, <2>1
<1>2. ASSUME NEW j \in H PROVE j + 1 \in H
  <2> SUFFICES ASSUME j + 1 <= m PROVE Worth(f, n + (j + 1)) = Worth(f, n) + w * Worth(g, j + 1)
    OBVIOUS
  <2> DEFINE a == Worth(f, n)
             b == Worth(g, j)
             c == g[j]
             z == Weight(j)
  <2>1. j \in 0 .. m - 1 /\ j \in Nat /\ n + j \in Nat /\ n + (j + 1) = (n + j) + 1 /\ j <= m
    OBVIOUS
  <2>2. Worth(f, (n + j) + 1) = Worth(f, n + j) + f[n + j] * Weight(n + j)
    BY <2>1, WorthStep
  <2>3. Worth(g, j + 1) = b + c * z /\ Weight(n + j) = w * z /\ f[n + j] = c /\ Worth(f, n + j) = a + w * b
    BY <2>1, WorthStep, WeightSum
  <2>4. a \in Int /\ b \in Int /\ c \in Int /\ z \in Int
    <3>1. n + j \in 0 .. (n + m) - 1
      BY <2>1
    <3> QED BY <1>0, <2>1, <2>3, <3>1, WeightOf
  <2> HIDE DEF a, b, c, z, w
  <2>5. w * (b + c * z) = w * b + c * (w * z) /\ w * b \in Int /\ c * (w * z) \in Int
    <3>1. c * z \in Int /\ w * (c * z) = c * (w * z) /\ w * z \in Int
      BY <1>0, <2>4
    <3> DEFINE e == c * z
               y1 == w * z
    <3>2. e \in Int /\ y1 \in Int
      BY <3>1
    <3> HIDE DEF e, y1
    <3>3. w * (b + e) = w * b + w * e /\ w * b \in Int /\ c * y1 \in Int
      BY <1>0, <2>4, <3>2
    <3> QED BY <3>1, <3>3 DEF e, y1
  <2> DEFINE p == w * b
             q == c * (w * z)
  <2>6. Worth(f, n + (j + 1)) = (a + p) + q /\ w * Worth(g, j + 1) = p + q /\ p \in Int /\ q \in Int
    <3>1. Worth(f, n + (j + 1)) = Worth(f, n + j) + f[n + j] * Weight(n + j)
      BY <2>1, <2>2
    <3>2. f[n + j] * Weight(n + j) = q
      BY <2>3
    <3> QED BY <2>3, <2>5, <3>1, <3>2
  <2> HIDE DEF p, q
  <2>7. Worth(f, n + (j + 1)) = a + (p + q)
    BY <2>4, <2>6
  <2> QED BY <2>6, <2>7 DEF a, w
<1> HIDE DEF H
<1>3. H = Nat
  BY <1>1, <1>2, Induction DEF H
<1> QED BY <1>3 DEF H

\* A folding adds to the low limbs the high ones times what the order lacks.
LEMMA FoldedExact ==
  ASSUME NEW lo, AreLimbs(lo, L), NEW h \in 1 .. L, NEW hi, AreLimbs(hi, h),
         NEW n \in Nat, h + J <= n + 1, L <= n, Worth(lo, L) + Worth(hi, h) * C < 3 * Weight(n)
  PROVE  LET p == Folded(lo, hi, h, n)
         IN  /\ AreLimbs(p.limb, n) /\ p.top \in Nat
             /\ Worth(p.limb, n) + p.top * Weight(n) = Worth(lo, L) + Worth(hi, h) * C
<1> DEFINE column == [k \in 0 .. n |-> FoldedColumn(lo, hi, h, k)]
           low == [k \in 0 .. n |-> IF k < L THEN lo[k] ELSE 0]
           g == [j \in 0 .. J |-> NC(j)]
           row(k) == [i \in 0 .. h - 1 |-> IF k - i \in 0 .. J THEN hi[i] * NC(k - i) ELSE 0]
           high == [k \in 0 .. n |-> Total(row(k), h)]
           total == Worth(lo, L) + Worth(hi, h) * C
           e == Extracted(column, n, {0, n - 1})
           m == (Base - 1) * (Base - 1)
<1>1. /\ L \in Nat /\ L >= 2 /\ h \in Nat /\ h >= 1 /\ h <= L /\ J \in Nat /\ Base \in Nat \ {0} /\ Base >= 8
      /\ n + 1 \in Nat /\ n \in Nat \ {0} /\ 0 \in 0 .. h - 1 /\ 0 \in 0 .. J
  BY Shape
<1>2. /\ \A i \in 0 .. L - 1 : lo[i] \in 0 .. Base - 1 /\ lo[i] \in Int
      /\ \A i \in 0 .. h - 1 : hi[i] \in 0 .. Base - 1 /\ hi[i] \in Int
      /\ \A j \in 0 .. J : NC(j) \in 0 .. Base - 1 /\ NC(j) \in Int /\ g[j] = NC(j)
  BY <1>1, ShapeAssumption DEF AreLimbs
<1>3. /\ Folded(lo, hi, h, n) = [limb |-> e.limb, top |-> e.rest + column[n]]
      /\ \A k \in 0 .. n : column[k] = low[k] + high[k] /\ high[k] = Total(row(k), h)
                           /\ low[k] = (IF k < L THEN lo[k] ELSE 0)
  BY DEF Folded, FoldedColumn
<1> HIDE DEF column, low, high, g, e
<1>4. m \in Nat /\ m + (Base - 1) < Weight(2) /\ L * m + (Base - 1) = ColumnRoom
  BY ColumnSizes DEF ColumnRoom
<1>5. ASSUME NEW i \in 0 .. h - 1, NEW j \in 0 .. J PROVE hi[i] * NC(j) \in 0 .. m
  <2> DEFINE p == hi[i]
             q == NC(j)
             t == Base - 1
  <2>1. p \in Nat /\ q \in Nat /\ t \in Nat /\ p <= t /\ q <= t
    BY <1>1, <1>2
  <2> HIDE DEF p, q, t
  <2>2. p * q <= t * q /\ q * t <= t * t /\ p * q \in Nat /\ t * t \in Nat
    BY <2>1, Times
  <2>3. t * q = q * t /\ t * q \in Nat
    BY <2>1
  <2> DEFINE x1 == p * q
             x2 == t * q
             x3 == t * t
  <2>4. x1 <= x2 /\ x2 <= x3 /\ x1 \in Nat /\ x2 \in Nat /\ x3 \in Nat
    BY <2>2, <2>3
  <2> HIDE DEF x1, x2, x3
  <2>5. x1 \in 0 .. x3
    BY <2>4
  <2> QED BY <2>5 DEF x1, x3, p, q, t
<1> HIDE DEF m
<1>6. ASSUME NEW k \in 0 .. n PROVE high[k] \in 0 .. L * m
  <2> DEFINE f == row(k)
  <2>1. \A i \in 0 .. h - 1 : f[i] \in 0 .. m
    <3>1. 0 \in 0 .. m
      BY <1>4
    <3> QED BY <1>5, <3>1
  <2>2. high[k] = Total(f, h)
    BY <1>3
  <2> HIDE DEF f, row
  <2>3. Total(f, h) \in 0 .. h * m
    BY <1>1, <1>4, <2>1, TotalBelow
  <2>4. h * m <= L * m /\ h * m \in Nat /\ L * m \in Nat
    BY <1>1, <1>4, Times
  <2> DEFINE x1 == h * m
             x2 == L * m
  <2> HIDE DEF x1, x2
  <2>5. x1 <= x2 /\ x1 \in Nat /\ x2 \in Nat /\ high[k] \in 0 .. x1
    BY <2>2, <2>3, <2>4 DEF x1, x2
  <2>6. high[k] \in 0 .. x2
    BY <2>5
  <2> QED BY <2>6 DEF x2
<1>7. ASSUME NEW k \in 0 .. n
      PROVE  /\ low[k] \in 0 .. Base - 1 /\ low[k] \in Int /\ high[k] \in Int
             /\ column[k] \in Nat /\ column[k] <= ColumnRoom
  <2> DEFINE x2 == L * m
  <2>1. low[k] \in 0 .. Base - 1
    <3>1. CASE k < L
      <4>1. k \in 0 .. L - 1
        BY <1>1, <3>1
      <4> QED BY <1>2, <1>3, <3>1, <4>1
    <3>2. CASE ~(k < L)
      <4>1. 0 \in 0 .. Base - 1
        BY <1>1
      <4> QED BY <1>3, <3>2, <4>1
    <3> QED BY <3>1, <3>2
  <2>2. high[k] \in 0 .. x2 /\ x2 + (Base - 1) = ColumnRoom /\ x2 \in Int
    <3>1. x2 \in Int
      BY <1>1, <1>4
    <3> QED BY <1>4, <1>6, <3>1
  <2> HIDE DEF x2
  <2>3. column[k] = low[k] + high[k]
    BY <1>3
  <2> QED BY <1>1, <2>1, <2>2, <2>3
<1>8. column[0] < Weight(2)
  <2> DEFINE f == row(0)
             c == [i \in 0 .. 0 |-> hi[0] * NC(0)]
  <2>1. 0 \in 0 .. n /\ high[0] = Total(f, h)
    BY <1>1, <1>3
  <2>2. f[0] = hi[0] * NC(0) /\ \A i \in 1 .. h - 1 : f[i] = 0
    <3>1. 0 - 0 = 0 /\ \A i \in 1 .. h - 1 : i \in 0 .. h - 1 /\ 0 - i \notin 0 .. J
      BY <1>1
    <3> QED BY <1>1, <3>1
  <2>3. hi[0] * NC(0) \in 0 .. m
    BY <1>1, <1>5
  <2> HIDE DEF f, row
  <2>4. Total(f, h) = Total(c, 1)
    <3>1. \A i \in 0 .. 1 - 1 : c[i] \in Int /\ f[i] = c[i]
      <4>1. \A i \in 0 .. 1 - 1 : i = 0
        OBVIOUS
      <4>2. c[0] = hi[0] * NC(0)
        OBVIOUS
      <4> HIDE DEF c
      <4> QED BY <2>2, <2>3, <4>1, <4>2
    <3> HIDE DEF c
    <3>2. 1 \in Nat /\ 1 <= h
      BY <1>1
    <3> QED BY <1>1, <2>2, <3>1, <3>2, TotalPadded
  <2>5. Total(c, 1) = hi[0] * NC(0)
    <3>1. Total(c, 0 + 1) = Total(c, 0) + c[0] /\ Total(c, 0) = 0
      BY TotalStep
    <3>2. c[0] = hi[0] * NC(0)
      OBVIOUS
    <3> HIDE DEF c
    <3> QED BY <2>3, <3>1, <3>2
  <2>6. high[0] \in 0 .. m /\ low[0] \in 0 .. Base - 1 /\ column[0] = low[0] + high[0] /\ Weight(2) \in Nat
    BY <1>3, <1>7, <2>1, <2>3, <2>4, <2>5, ColumnSizes
  <2> QED BY <1>1, <1>4, <2>6
<1>9. Worth(low, n + 1) = Worth(lo, L) /\ Worth(lo, L) \in Nat
  <2>1. L \in 0 .. L /\ \A i \in 0 .. L - 1 : lo[i] \in Nat
    BY <1>1, <1>2
  <2>2. Worth(lo, L) \in Nat
    BY <1>1, <2>1, WorthInt
  <2>3. Worth(low, L) = Worth(lo, L)
    <3>1. \A i \in 0 .. L - 1 : low[i] = lo[i]
      <4>1. \A i \in 0 .. L - 1 : i \in 0 .. n /\ i < L
        BY <1>1
      <4> QED BY <1>3, <4>1
    <3> QED BY <1>1, <3>1, WorthSame
  <2>4. \A i \in L .. (n + 1) - 1 : low[i] = 0
    <3>1. \A i \in L .. (n + 1) - 1 : i \in 0 .. n /\ ~(i < L)
      BY <1>1
    <3> QED BY <1>3, <3>1
  <2> DEFINE k == n + 1
  <2>5. k \in Nat /\ L <= k /\ \A i \in L .. k - 1 : low[i] = 0
    BY <1>1, <2>4
  <2> HIDE DEF k
  <2>6. Worth(low, k) = Worth(low, L)
    BY <1>1, <2>2, <2>3, <2>5, WorthPadded
  <2> QED BY <2>2, <2>3, <2>6 DEF k
<1>10. Worth(high, n + 1) = Worth(hi, h) * C /\ Worth(hi, h) \in Nat
  <2>1. Worth(g, J + 1) = C
    <3>1. [i \in 0 .. (J + 1) - 1 |-> g[i] * Weight(i)] = [i \in 0 .. J |-> NC(i) * Weight(i)]
      <4>1. 0 .. (J + 1) - 1 = 0 .. J
        BY <1>1
      <4> QED BY <1>2, <4>1
    <3> QED BY <3>1 DEF Worth, C
  <2> DEFINE k == n + 1
             j == J + 1
  <2>2. ByRows(high, Products(hi, g, h, j), h, j, k)
    <3>1. ASSUME NEW i \in 0 .. k - 1 PROVE high[i] = Total(Cells(Products(hi, g, h, j), h, j, i), h)
      <4> DEFINE f == row(i)
                 c == Cells(Products(hi, g, h, j), h, j, i)
      <4>1. \A z \in 0 .. h - 1 : f[z] = c[z]
        <5>1. 0 .. j - 1 = 0 .. J
          BY <1>1
        <5> HIDE DEF j
        <5> QED BY <1>2, <5>1 DEF Cells, Products
      <4>2. i \in 0 .. n
        BY <1>1
      <4>3. high[i] = Total(f, h)
        BY <1>3, <4>2
      <4> HIDE DEF f, c, row
      <4>4. Total(f, h) = Total(c, h)
        BY <1>1, <4>1, TotalSame
      <4> QED BY <4>3, <4>4 DEF c
    <3> QED BY <3>1 DEF ByRows
  <2>3. j \in Nat /\ k \in Nat /\ h + j <= k + 1 /\ (\A i \in 0 .. j - 1 : g[i] \in Int)
    <3>1. \A i \in 0 .. j - 1 : i \in 0 .. J
      BY <1>1
    <3> QED BY <1>1, <1>2, <3>1
  <2> HIDE DEF j, k
  <2>4. Worth(high, k) = Worth(hi, h) * Worth(g, j)
    BY <1>1, <1>2, <2>2, <2>3, ProductColumns
  <2>5. Worth(hi, h) \in Nat
    <3>1. h \in 0 .. h /\ \A i \in 0 .. h - 1 : hi[i] \in Nat
      BY <1>1, <1>2
    <3> QED BY <1>1, <3>1, WorthInt
  <2> QED BY <2>1, <2>4, <2>5 DEF j, k
<1>11. Worth(column, n + 1) = total
  <2> DEFINE k == n + 1
  <2>1. \A i \in 0 .. k - 1 : low[i] \in Int /\ high[i] \in Int /\ column[i] = low[i] + high[i]
    <3>1. \A i \in 0 .. k - 1 : i \in 0 .. n
      BY <1>1
    <3> QED BY <1>3, <1>7, <3>1
  <2>2. k \in Nat
    BY <1>1
  <2> HIDE DEF k
  <2>3. Worth(column, k) = Worth(low, k) + Worth(high, k)
    BY <2>1, <2>2, WorthSum
  <2> QED BY <1>9, <1>10, <2>3 DEF k
<1>12. /\ Worth(column, n) \in Nat /\ column[n] \in Nat
       /\ total = Worth(column, n) + column[n] * Weight(n)
  <2>1. Worth(column, n + 1) = Worth(column, n) + column[n] * Weight(n)
    BY <1>1, WorthStep
  <2>2. n \in 0 .. n /\ \A i \in 0 .. n - 1 : column[i] \in Nat
    BY <1>1, <1>7
  <2>3. Worth(column, n) \in Nat
    BY <1>1, <2>2, WorthInt
  <2> QED BY <1>7, <1>11, <2>1, <2>2, <2>3
<1> HIDE DEF total
<1>13. total < 3 * Weight(n) /\ total \in Nat
  <2>1. Worth(hi, h) * C \in Nat
    <3>1. C \in Nat
      BY Sizes
    <3> QED BY <1>10, <3>1
  <2> QED BY <1>9, <2>1 DEF total
<1>14. NoWrap(column, n)
  <2> DEFINE w == Weight(n)
             p == column[n] * w
  <2>1. w \in Nat \ {0} /\ Weight(n + 1) = w * Base
    BY <1>1, WeightOf, WeightNext
  <2>2. p \in Nat
    BY <1>12, <2>1
  <2>3. 8 * w <= Base * w /\ Base * w = w * Base /\ Base * w \in Nat
    <3> HIDE DEF w
    <3> QED BY <1>1, <2>1, Times
  <2> DEFINE y1 == w * Base
  <2>4. Worth(column, n) + p < 3 * w /\ 8 * w <= y1 /\ y1 \in Nat
    BY <1>12, <1>13, <2>3
  <2> HIDE DEF p, w, y1
  <2>5. Worth(column, n) < y1
    BY <1>12, <2>1, <2>2, <2>4
  <2>6. \A k \in 0 .. n - 1 : k \in 0 .. n
    BY <1>1
  <2> QED BY <1>7, <1>8, <2>1, <2>5, <2>6 DEF NoWrap, y1
<1>15. /\ e.rest \in Nat /\ AreLimbs(e.limb, n)
       /\ Worth(e.limb, n) + e.rest * Weight(n) = Worth(column, n)
  BY <1>1, <1>14, ExtractedExact DEF e
<1> DEFINE p == Folded(lo, hi, h, n)
<1>16. p.limb = e.limb /\ p.top = e.rest + column[n]
  BY <1>3
<1> HIDE DEF p
<1>17. p.top \in Nat
  BY <1>12, <1>15, <1>16
<1>18. Worth(p.limb, n) + p.top * Weight(n) = total
  <2> DEFINE w == Weight(n)
             a == e.rest
             b == column[n]
             u == Worth(e.limb, n)
  <2>1. w \in Nat /\ a \in Nat /\ b \in Nat
    BY <1>12, <1>15, WeightOf
  <2>2. u \in Int
    <3>1. n \in 0 .. n /\ \A i \in 0 .. n - 1 : e.limb[i] \in Int
      BY <1>1, <1>15 DEF AreLimbs
    <3> QED BY <1>1, <3>1, WorthInt
  <2>3. u + a * w = Worth(column, n) /\ total = Worth(column, n) + b * w
    BY <1>12, <1>15
  <2> HIDE DEF w, a, b, u
  <2>4. (a + b) * w = a * w + b * w /\ a * w \in Nat /\ b * w \in Nat
    BY <2>1
  <2>5. u + (a + b) * w = total
    BY <2>2, <2>3, <2>4
  <2> QED BY <1>16, <2>5 DEF w, a, b, u
<1> QED BY <1>15, <1>16, <1>17, <1>18 DEF p, total

-----------------------------------------------------------------------------
(* The foldings. *)

\* The first folding: L + J limbs and 1 at most, a multiple of the order below the product.
LEMMA FoldedOnceExact ==
  ASSUME NEW l, AreLimbs(l, 2 * L)
  PROVE  LET m == FoldedOnce(l)
             total == Worth(m.limb, L + J) + m.top * Weight(L + J)
         IN  /\ AreLimbs(m.limb, L + J) /\ m.top \in {0, 1} /\ total < Weight(L) * (C + 1)
             /\ \E q \in Nat : Worth(l, 2 * L) = total + Order * q
<1> DEFINE hi == [i \in D |-> l[L + i]]
           n == L + J
           a == Worth(l, L)
           b == Worth(hi, L)
           w == Weight(L)
           v == Weight(J)
           c == C
           m == FoldedOnce(l)
<1>1. /\ L \in Nat /\ L >= 2 /\ J \in Nat /\ n \in Nat /\ L \in 1 .. L /\ L + J <= n + 1 /\ L <= n
      /\ D = 0 .. L - 1 /\ 2 * L = L + L /\ Base \in Nat
  BY Shape
<1>2. /\ w \in Nat \ {0} /\ v \in Nat \ {0} /\ c \in Nat /\ c <= 2 * v - 1 /\ Order \in Nat /\ w = Order + c
      /\ Weight(n) = w * v
  <2>1. Weight(L + J) = w * v
    BY <1>1, WeightSum
  <2> QED BY <2>1, Sizes
<1>3. /\ AreLimbs(l, L) /\ AreLimbs(hi, L) /\ \A i \in 0 .. L - 1 : hi[i] = l[L + i]
      /\ \A i \in 0 .. (L + L) - 1 : l[i] \in Int
  <2>1. \A i \in 0 .. (2 * L) - 1 : l[i] \in 0 .. Base - 1
    BY DEF AreLimbs
  <2>2. \A i \in 0 .. L - 1 : i \in 0 .. (2 * L) - 1 /\ L + i \in 0 .. (2 * L) - 1
    BY <1>1
  <2>3. \A i \in 0 .. L - 1 : hi[i] = l[L + i]
    BY <1>1
  <2> HIDE DEF hi
  <2> QED BY <1>1, <2>1, <2>2, <2>3 DEF AreLimbs
<1>4. FoldedOnce(l) = Folded(l, hi, L, n)
  BY DEF FoldedOnce
<1> HIDE DEF hi
<1>5. a \in 0 .. w - 1 /\ b \in 0 .. w - 1 /\ Worth(l, 2 * L) = a + w * b
  <2>1. L \in 0 .. L
    BY <1>1
  <2>2. \A i \in 0 .. L - 1 : l[i] \in 0 .. Base - 1 /\ hi[i] \in 0 .. Base - 1
    BY <1>3 DEF AreLimbs
  <2>3. Worth(l, L) \in 0 .. Weight(L) - 1 /\ Worth(hi, L) \in 0 .. Weight(L) - 1
    BY <1>1, <2>1, <2>2, WorthBelow
  <2>4. Worth(l, L + L) = Worth(l, L) + Weight(L) * Worth(hi, L)
    BY <1>1, <1>3, WorthSplit
  <2> QED BY <1>1, <2>3, <2>4
<1> HIDE DEF a, b, w, v, c
<1>6. a \in Nat /\ b \in Nat /\ a <= w - 1 /\ b <= w - 1 /\ b * c \in Nat
  BY <1>2, <1>5
<1>7. b * c <= (w - 1) * c /\ (w - 1) * c = w * c - c /\ w * c \in Nat
  <2>1. w - 1 \in Nat
    BY <1>2
  <2>2. b * c <= (w - 1) * c
    BY <1>2, <1>6, <2>1, Times
  <2>3. (w - 1) * c = w * c - c /\ w * c \in Nat
    BY <1>2
  <2> QED BY <2>2, <2>3
<1>8. a + b * c < w * (c + 1) /\ a + b * c \in Nat
  <2>1. w * (c + 1) = w * c + w
    BY <1>2
  <2> DEFINE y1 == w * c
             y2 == b * c
  <2>2. y1 \in Nat /\ y2 \in Nat /\ y2 <= y1 - c /\ w * (c + 1) = y1 + w
    BY <1>6, <1>7, <2>1
  <2> HIDE DEF y1, y2
  <2>3. a + y2 < y1 + w /\ a + y2 \in Nat
    BY <1>2, <1>6, <2>2
  <2> QED BY <2>2, <2>3 DEF y2
<1>9. w * (c + 1) <= 2 * (w * v) /\ w * v \in Nat \ {0}
  <2>1. (c + 1) * w <= (2 * v) * w
    <3>1. c + 1 \in Nat /\ 2 * v \in Nat /\ c + 1 <= 2 * v
      BY <1>2
    <3> QED BY <1>2, <3>1, Times
  <2>2. (c + 1) * w = w * (c + 1) /\ (2 * v) * w = 2 * (w * v) /\ w * v \in Nat \ {0}
    BY <1>2
  <2> QED BY <2>1, <2>2
<1>10. a + b * c < 2 * Weight(n)
  <2> DEFINE y1 == w * (c + 1)
             y2 == w * v
             y3 == b * c
  <2>1. y1 <= 2 * y2 /\ y2 \in Nat /\ y1 \in Nat /\ a + y3 < y1 /\ a + y3 \in Nat
    BY <1>2, <1>8, <1>9
  <2> HIDE DEF y1, y2, y3
  <2>2. a + y3 < 2 * y2
    BY <2>1
  <2> QED BY <1>2, <2>2 DEF y2, y3
<1>11. a + b * c < 3 * Weight(n)
  <2> DEFINE y2 == Weight(n)
             y3 == a + b * c
  <2>1. y2 \in Nat /\ y3 \in Nat /\ y3 < 2 * y2
    BY <1>2, <1>8, <1>9, <1>10
  <2> HIDE DEF y2, y3
  <2>2. y3 < 3 * y2
    BY <2>1
  <2> QED BY <2>2 DEF y2, y3
<1>12. AreLimbs(m.limb, n) /\ m.top \in Nat /\ Worth(m.limb, n) + m.top * Weight(n) = a + b * c
  <2> HIDE DEF n, m
  <2>1. Worth(l, L) + Worth(hi, L) * C < 3 * Weight(n)
    BY <1>11 DEF a, b, c
  <2> DEFINE p == Folded(l, hi, L, n)
  <2>2. /\ AreLimbs(p.limb, n) /\ p.top \in Nat
        /\ Worth(p.limb, n) + p.top * Weight(n) = Worth(l, L) + Worth(hi, L) * C
    BY <1>1, <1>3, <2>1, FoldedExact
  <2>3. m = p
    BY <1>4 DEF m
  <2> HIDE DEF p
  <2> QED BY <2>2, <2>3 DEF a, b, c
<1> HIDE DEF m
<1>13. m.top \in {0, 1}
  <2> DEFINE t == m.top
             y1 == Weight(n)
             u == Worth(m.limb, n)
             y3 == a + b * c
  <2>1. u \in Nat
    <3>1. n \in 0 .. n /\ \A i \in 0 .. n - 1 : m.limb[i] \in Nat
      BY <1>1, <1>12 DEF AreLimbs
    <3> HIDE DEF n
    <3> QED BY <1>1, <3>1, WorthInt
  <2>2. t \in Nat /\ y1 \in Nat \ {0} /\ u + t * y1 = y3 /\ y3 < 2 * y1 /\ y3 \in Nat
    BY <1>2, <1>8, <1>9, <1>10, <1>12
  <2> HIDE DEF t, y1, u, y3
  <2>3. 2 <= t => 2 * y1 <= t * y1
    BY <2>2, Times
  <2>4. t * y1 \in Nat
    BY <2>2
  <2>5. ~(2 <= t)
    BY <2>1, <2>2, <2>3, <2>4
  <2>6. t \in {0, 1}
    BY <2>2, <2>5
  <2> QED BY <2>6 DEF t
<1>14. a + w * b = (a + b * c) + Order * b
  <2> DEFINE o == Order
  <2>1. o \in Nat /\ w = o + c
    BY <1>2
  <2> HIDE DEF o
  <2>2. (o + c) * b = o * b + b * c /\ o * b \in Nat /\ b * c \in Nat
    BY <1>2, <1>6, <2>1
  <2>3. w * b = o * b + b * c
    BY <2>1, <2>2
  <2> QED BY <1>6, <2>2, <2>3 DEF o
<1> QED BY <1>5, <1>6, <1>8, <1>12, <1>13, <1>14 DEF m, n, w, c

\* The second: L limbs and 2 at most.
LEMMA FoldedTwiceExact ==
  ASSUME NEW l, AreLimbs(l, 2 * L)
  PROVE  LET p == FoldedTwice(l)
             total == Worth(p.limb, L) + Weight(L) * p.top
         IN  /\ AreLimbs(p.limb, L) /\ p.top \in {0, 1, 2}
             /\ \E q \in Nat : Worth(l, 2 * L) = total + Order * q
<1> DEFINE m == FoldedOnce(l)
           n == L + J
           h == J + 1
           hi == [i \in 0 .. J |-> IF i = J THEN m.top ELSE m.limb[L + i]]
           w == Weight(L)
           v == Weight(J)
           c == C
           a == Worth(m.limb, L)
           b == Worth(hi, h)
           first == Worth(m.limb, n) + m.top * Weight(n)
<1>1. /\ L \in Nat /\ L >= 2 /\ J \in Nat /\ n \in Nat /\ h \in Nat /\ h \in 1 .. L /\ h + J <= L + 1 /\ L <= L
      /\ Base \in Nat /\ Base >= 8
  BY Shape
<1>2. /\ w \in Nat \ {0} /\ v \in Nat \ {0} /\ c \in Nat /\ c * c <= 2 * w /\ Order \in Nat /\ w = Order + c
      /\ Weight(n) = w * v
  <2>1. Weight(L + J) = w * v
    BY <1>1, WeightSum
  <2> QED BY <2>1, Sizes
<1>3. /\ AreLimbs(m.limb, n) /\ m.top \in {0, 1} /\ first < w * (c + 1)
      /\ \E q \in Nat : Worth(l, 2 * L) = first + Order * q
  BY FoldedOnceExact
<1>4. FoldedTwice(l) = Folded(m.limb, hi, h, L)
  BY DEF FoldedTwice
<1> HIDE DEF m
<1>5. hi[J] = m.top /\ \A i \in 0 .. J - 1 : hi[i] = m.limb[L + i]
  <2>1. J \in 0 .. J /\ \A i \in 0 .. J - 1 : i \in 0 .. J /\ i # J
    BY <1>1
  <2> QED BY <2>1
<1> HIDE DEF hi
<1>6. \A i \in 0 .. n - 1 : m.limb[i] \in 0 .. Base - 1 /\ m.limb[i] \in Int
  BY <1>1, <1>3 DEF AreLimbs
<1>7. AreLimbs(m.limb, L) /\ AreLimbs(hi, h)
  <2>1. \A i \in 0 .. L - 1 : i \in 0 .. n - 1
    BY <1>1
  <2>2. ASSUME NEW i \in 0 .. h - 1 PROVE hi[i] \in 0 .. Base - 1
    <3>1. CASE i = J
      BY <1>1, <1>3, <1>5, <3>1
    <3>2. CASE i # J
      <4>1. i \in 0 .. J - 1 /\ L + i \in 0 .. n - 1
        BY <1>1, <3>2
      <4> QED BY <1>5, <1>6, <4>1
    <3> QED BY <3>1, <3>2
  <2> HIDE DEF n, h
  <2> QED BY <1>6, <2>1, <2>2 DEF AreLimbs
<1>8. first = a + w * b
  <2> DEFINE z == Worth(hi, J)
             t == m.top
  <2>1. Worth(m.limb, n) = a + w * z
    <3> DEFINE f == m.limb
    <3>1. /\ \A i \in 0 .. (L + J) - 1 : f[i] \in Int
          /\ \A i \in 0 .. J - 1 : hi[i] = f[L + i]
          /\ L \in Nat /\ J \in Nat
      BY <1>1, <1>5, <1>6
    <3> HIDE DEF f
    <3>2. Worth(f, L + J) = Worth(f, L) + Weight(L) * Worth(hi, J)
      BY <3>1, WorthSplit
    <3> QED BY <3>2 DEF f
  <2>2. b = z + t * v
    BY <1>1, <1>5, WorthStep
  <2>3. z \in Int /\ a \in Int /\ t \in Int
    <3>1. J \in 0 .. J /\ \A i \in 0 .. J - 1 : hi[i] \in Int
      <4>1. \A i \in 0 .. J - 1 : L + i \in 0 .. n - 1
        BY <1>1
      <4> HIDE DEF n
      <4> QED BY <1>1, <1>5, <1>6, <4>1
    <3>2. z \in Int
      BY <1>1, <3>1, WorthInt
    <3> DEFINE f == m.limb
    <3>3. L \in Nat /\ L \in 0 .. L /\ \A i \in 0 .. L - 1 : f[i] \in Int
      BY <1>1, <1>7 DEF AreLimbs
    <3> HIDE DEF f
    <3>4. Worth(f, L) \in Int
      BY <3>3, WorthInt
    <3> QED BY <1>3, <3>2, <3>4 DEF f
  <2> HIDE DEF a, b, w, v, z, t, first
  <2>4. w * (z + t * v) = w * z + t * (w * v) /\ w * z \in Int /\ t * (w * v) \in Int
    <3> DEFINE e == t * v
    <3>1. e \in Int /\ w * e = t * (w * v)
      BY <1>2, <2>3
    <3>2. w * (z + e) = w * z + w * e /\ w * z \in Int /\ w * e \in Int
      <4> HIDE DEF e
      <4> QED BY <1>2, <2>3, <3>1
    <3> QED BY <3>1, <3>2
  <2>5. first = (a + w * z) + t * (w * v)
    BY <1>2, <2>1 DEF first, t
  <2> DEFINE y1 == w * z
             y2 == t * (w * v)
  <2>6. y1 \in Int /\ y2 \in Int /\ first = (a + y1) + y2 /\ w * b = y1 + y2
    BY <2>2, <2>4, <2>5
  <2> HIDE DEF y1, y2
  <2> QED BY <2>3, <2>6
<1>9. a \in Nat /\ a <= w - 1 /\ b \in Nat
  <2>1. L \in 0 .. L /\ h \in 0 .. h /\ (\A i \in 0 .. L - 1 : m.limb[i] \in 0 .. Base - 1)
        /\ \A i \in 0 .. h - 1 : hi[i] \in Nat
    BY <1>1, <1>7 DEF AreLimbs
  <2>2. a \in 0 .. w - 1
    BY <1>1, <2>1, WorthBelow
  <2>3. b \in Nat
    <3> HIDE DEF h
    <3> QED BY <1>1, <2>1, WorthInt
  <2> QED BY <1>2, <2>2, <2>3
<1> HIDE DEF a, b, w, v, c, first
<1>10. b <= c
  <2>1. (c + 1) <= b => (c + 1) * w <= b * w
    <3>1. c + 1 \in Nat
      BY <1>2
    <3> QED BY <1>2, <1>9, <3>1, Times
  <2>2. (c + 1) * w = w * (c + 1) /\ b * w = w * b /\ w * b \in Nat /\ w * (c + 1) \in Nat
    BY <1>2, <1>9
  <2> DEFINE y1 == w * b
             y2 == w * (c + 1)
  <2>3. (c + 1 <= b => y2 <= y1) /\ a + y1 < y2 /\ y1 \in Nat /\ y2 \in Nat
    BY <1>3, <1>8, <2>1, <2>2
  <2> HIDE DEF y1, y2
  <2> QED BY <1>2, <1>9, <2>3
<1>11. b * c <= c * c /\ b * c \in Nat /\ c * c \in Nat
  BY <1>2, <1>9, <1>10, Times
<1>12. a + b * c < 3 * w /\ a + b * c \in Nat
  <2> DEFINE y1 == b * c
             y2 == c * c
  <2>1. y1 <= y2 /\ y1 \in Nat /\ y2 \in Nat /\ y2 <= 2 * w
    BY <1>2, <1>11
  <2> HIDE DEF y1, y2
  <2>2. a + y1 < 3 * w /\ a + y1 \in Nat
    BY <1>2, <1>9, <2>1
  <2> QED BY <2>2 DEF y1
<1> DEFINE p == FoldedTwice(l)
<1>13. AreLimbs(p.limb, L) /\ p.top \in Nat /\ Worth(p.limb, L) + p.top * w = a + b * c
  <2> DEFINE lo == m.limb
             r == Folded(lo, hi, h, L)
  <2>1. Worth(lo, L) + Worth(hi, h) * C < 3 * Weight(L)
    BY <1>12 DEF a, b, c, w
  <2>2. AreLimbs(lo, L)
    BY <1>7
  <2>4. p = r
    BY <1>4
  <2> HIDE DEF h, p, lo, r
  <2>3. /\ AreLimbs(r.limb, L) /\ r.top \in Nat
        /\ Worth(r.limb, L) + r.top * Weight(L) = Worth(lo, L) + Worth(hi, h) * C
    BY <1>1, <1>7, <2>1, <2>2, FoldedExact DEF r
  <2> QED BY <2>3, <2>4 DEF a, b, c, w, lo
<1> HIDE DEF p
<1> DEFINE t == p.top
           u == Worth(p.limb, L)
<1>14. u \in Nat
  <2>1. L \in 0 .. L /\ \A i \in 0 .. L - 1 : p.limb[i] \in Nat
    BY <1>1, <1>13 DEF AreLimbs
  <2> QED BY <1>1, <2>1, WorthInt
<1>15. t \in {0, 1, 2}
  <2> DEFINE y3 == a + b * c
  <2>1. t \in Nat /\ u + t * w = y3 /\ y3 < 3 * w /\ y3 \in Nat
    BY <1>12, <1>13
  <2> HIDE DEF t, u, y3
  <2>2. 3 <= t => 3 * w <= t * w
    BY <1>2, <2>1, Times
  <2>3. t * w \in Nat
    BY <1>2, <2>1
  <2>4. ~(3 <= t)
    BY <1>2, <1>14, <2>1, <2>2, <2>3
  <2> QED BY <2>1, <2>4
<1>16. u + w * t = a + b * c
  <2>1. t * w = w * t
    BY <1>2, <1>15
  <2> QED BY <1>13, <2>1
<1>17. PICK q \in Nat : Worth(l, 2 * L) = first + Order * q
  BY <1>3
<1>18. Worth(l, 2 * L) = (u + w * t) + Order * (b + q)
  <2> DEFINE o == Order
             z == Worth(l, 2 * L)
  <2>1. o \in Nat /\ w = o + c /\ z = first + o * q
    BY <1>2, <1>17
  <2> HIDE DEF o, z, u, t
  <2>2. (o + c) * b = o * b + b * c /\ o * b \in Nat /\ b * c \in Nat /\ o * q \in Nat
    BY <1>2, <1>9, <2>1
  <2>3. o * (b + q) = o * b + o * q
    BY <1>9, <2>1
  <2> DEFINE y1 == o * b
             y2 == o * q
             y3 == b * c
             y4 == w * b
  <2>4. y4 = y1 + y3 /\ y1 \in Nat /\ y2 \in Nat /\ y3 \in Nat /\ o * (b + q) = y1 + y2
        /\ z = (a + y4) + y2 /\ u + w * t = a + y3
    BY <1>8, <1>16, <2>1, <2>2, <2>3
  <2> HIDE DEF y1, y2, y3, y4
  <2>5. z = (a + y3) + (y1 + y2)
    BY <1>9, <2>4
  <2>6. z = (u + w * t) + o * (b + q)
    BY <2>4, <2>5
  <2> QED BY <2>6 DEF o, z
<1>19. b + q \in Nat
  BY <1>9
<1> QED BY <1>13, <1>15, <1>18, <1>19 DEF p, t, u, w

\* A number as large as the product of two scalars, reduced to a scalar.
LEMMA Reduce512Exact ==
  ASSUME NEW l, AreLimbs(l, 2 * L)
  PROVE  /\ IsScalar(Reduce512(l)) /\ Value(Reduce512(l)) = Worth(l, 2 * L) % Order
         /\ LET p == FoldedTwice(l) IN Worth(p.limb, L) + p.top * C < 2 * Order
<1> DEFINE p == FoldedTwice(l)
           t == p.top
           u == Worth(p.limb, L)
           term == [i \in D |-> p.limb[i] + (IF i <= J THEN NC(i) * p.top ELSE 0)]
           d == Ripple(term).d
           k == Ripple(term).carry
           w == Weight(L)
           c == C
           o == Order
           z == Worth(l, 2 * L)
<1>1. /\ AreLimbs(p.limb, L) /\ t \in {0, 1, 2} /\ \E q \in Nat : z = (u + w * t) + o * q
  BY FoldedTwiceExact
<1>2. Reduce512(l) = Reduce(d, k + CheckOverflow(d))
  BY DEF Reduce512
<1>3. /\ L \in Nat /\ D = 0 .. L - 1 /\ Base \in Nat /\ w \in Nat \ {0} /\ c \in Nat /\ o \in Nat \ {0}
      /\ w = o + c /\ 4 * c <= w
  BY Shape, Sizes
<1> HIDE DEF p
<1>4. ASSUME NEW i \in 0 .. L - 1
      PROVE  p.limb[i] \in Int /\ NCs[i] \in Int /\ term[i] = 1 * p.limb[i] + t * NCs[i] /\ term[i] \in Nat
  <2>1. p.limb[i] \in 0 .. Base - 1
    BY <1>1 DEF AreLimbs
  <2>2. NCs[i] \in Nat /\ NCs[i] = IF i <= J THEN NC(i) ELSE 0
    <3>1. NCs[i] \in Nat
      BY NCsOf, Limbs
    <3> QED BY <1>3, <3>1 DEF NCs
  <2>3. term[i] = p.limb[i] + (IF i <= J THEN NC(i) * t ELSE 0)
    BY <1>3
  <2> DEFINE e == NCs[i]
             f == p.limb[i]
  <2>4. e \in Nat /\ f \in Nat /\ t \in Nat
    BY <1>1, <1>3, <2>1, <2>2
  <2>5. (IF i <= J THEN NC(i) * t ELSE 0) = t * e
    <3>1. CASE i <= J
      <4>1. NC(i) = e
        BY <2>2, <3>1
      <4> HIDE DEF e, t
      <4>2. e * t = t * e
        BY <2>4
      <4> QED BY <3>1, <4>1, <4>2
    <3>2. CASE ~(i <= J)
      BY <2>2, <2>4, <3>2
    <3> QED BY <3>1, <3>2
  <2>6. term[i] = f + t * e
    BY <2>3, <2>5
  <2> HIDE DEF term, e, f, t
  <2>7. t * e \in Nat /\ 1 * f = f
    BY <2>4
  <2>8. f + t * e \in Nat
    BY <2>4, <2>7
  <2> QED BY <2>4, <2>6, <2>7, <2>8 DEF e, f
<1> HIDE DEF term
<1>5. Worth(term, L) = u + t * c /\ u \in 0 .. w - 1
  <2>1. Worth(term, L) = 1 * Worth(p.limb, L) + t * Worth(NCs, L)
    <3> DEFINE f == p.limb
    <3>1. 1 \in Int /\ t \in Int
      BY <1>1
    <3>2. \A i \in 0 .. L - 1 : f[i] \in Int /\ NCs[i] \in Int /\ term[i] = 1 * f[i] + t * NCs[i]
      BY <1>4
    <3> HIDE DEF f, t
    <3>3. L \in Nat
      BY <1>3
    <3>4. Worth(term, L) = 1 * Worth(f, L) + t * Worth(NCs, L)
      BY <3>1, <3>2, <3>3, WorthLinear
    <3> QED BY <3>4 DEF f
  <2>2. Worth(NCs, L) = c
    BY CIs
  <2>3. u \in 0 .. w - 1
    <3>1. L \in 0 .. L /\ \A i \in 0 .. L - 1 : p.limb[i] \in 0 .. Base - 1
      BY <1>1, <1>3 DEF AreLimbs
    <3> QED BY <1>3, <3>1, WorthBelow
  <2>4. 1 * u = u
    BY <1>3, <2>3
  <2> QED BY <2>1, <2>2, <2>3, <2>4
<1>6. IsLimbs(d) /\ k \in Nat /\ Value(d) + k * Weight(L) = Worth(term, L)
  BY <1>4, RippleWorth
<1> HIDE DEF d, k, u, t, w, c, o, z
<1>7. u + t * c < 2 * o /\ u + t * c \in Nat
  <2>1. t = 0 \/ t = 1 \/ t = 2
    BY <1>1
  <2>2. t * c <= 2 * c /\ t * c \in Nat
    BY <1>3, <2>1
  <2>3. u \in Nat /\ u <= w - 1
    BY <1>3, <1>5
  <2> DEFINE y1 == t * c
  <2>4. y1 <= 2 * c /\ y1 \in Nat
    BY <2>2
  <2> HIDE DEF y1
  <2>5. u + y1 < 2 * o /\ u + y1 \in Nat
    BY <1>3, <2>3, <2>4
  <2> QED BY <2>5 DEF y1
<1>8. Value(d) + k * Weight(L) < 2 * Order
  BY <1>5, <1>6, <1>7 DEF o
<1>9. LET v == Value(d) + k * Weight(L)
          overflow == k + CheckOverflow(d)
      IN  IsScalar(Reduce(d, overflow)) /\ Value(Reduce(d, overflow)) = v % Order
  BY <1>6, <1>8, ReduceOnce
<1>10. PICK q \in Nat : z = (u + w * t) + o * q
  BY <1>1
<1>11. z = (u + t * c) + o * (t + q) /\ t + q \in Nat
  <2>1. t \in Nat /\ u \in Nat
    BY <1>1, <1>5, <1>3
  <2>2. (o + c) * t = o * t + t * c /\ o * t \in Nat /\ t * c \in Nat /\ o * q \in Nat
    BY <1>3, <2>1
  <2>3. o * (t + q) = o * t + o * q
    BY <1>3, <2>1
  <2> DEFINE y1 == o * t
             y2 == o * q
             y3 == t * c
             y4 == w * t
  <2>4. y4 = y1 + y3 /\ y1 \in Nat /\ y2 \in Nat /\ y3 \in Nat /\ o * (t + q) = y1 + y2 /\ z = (u + y4) + y2
    BY <1>3, <1>10, <2>2, <2>3
  <2> HIDE DEF y1, y2, y3, y4
  <2>5. z = (u + y3) + (y1 + y2)
    BY <2>1, <2>4
  <2>6. z = (u + y3) + o * (t + q)
    BY <2>4, <2>5
  <2> QED BY <2>1, <2>6 DEF y3
<1>12. z % o = (u + t * c) % o
  <2> DEFINE y1 == u + t * c
             y2 == t + q
  <2>1. y1 \in Nat /\ y2 \in Nat /\ z = y1 + o * y2
    BY <1>7, <1>11
  <2> HIDE DEF y1, y2
  <2>2. (y1 + o * y2) % o = y1 % o
    <3>1. y1 \in Nat /\ y2 \in Nat /\ o \in Nat \ {0}
      BY <1>3, <2>1
    <3> QED BY <3>1, DivideSum, Zenon
  <2> QED BY <2>1, <2>2 DEF y1
<1>13. Reduce512(l) = Reduce(d, k + CheckOverflow(d))
  BY <1>2
<1>14. Value(d) + k * Weight(L) = u + t * c
  BY <1>5, <1>6
<1> QED BY <1>7, <1>9, <1>12, <1>13, <1>14 DEF z, o, u, t, c, p

\* The product and the square of scalars.
LEMMA MulExact ==
  ASSUME NEW a, IsScalar(a), NEW b, IsScalar(b)
  PROVE  /\ IsScalar(Mul(a, b)) /\ Value(Mul(a, b)) = (Value(a) * Value(b)) % Order
         /\ IsScalar(Sqr(a)) /\ Value(Sqr(a)) = (Value(a) * Value(a)) % Order
<1>1. IsLimbs(a) /\ IsLimbs(b)
  BY DEF IsScalar
<1>2. /\ AreLimbs(Mul512(a, b), 2 * L) /\ Worth(Mul512(a, b), 2 * L) = Value(a) * Value(b)
      /\ AreLimbs(Mul512(a, a), 2 * L) /\ Worth(Mul512(a, a), 2 * L) = Value(a) * Value(a)
      /\ Sqr512(a) = Mul512(a, a)
  BY <1>1, Mul512Exact, Sqr512Exact
<1>3. Mul(a, b) = Reduce512(Mul512(a, b)) /\ Sqr(a) = Reduce512(Sqr512(a))
  BY DEF Mul, Sqr
<1>4. IsScalar(Reduce512(Mul512(a, b))) /\ Value(Reduce512(Mul512(a, b))) = Worth(Mul512(a, b), 2 * L) % Order
  BY <1>2, Reduce512Exact
<1>5. IsScalar(Reduce512(Mul512(a, a))) /\ Value(Reduce512(Mul512(a, a))) = Worth(Mul512(a, a), 2 * L) % Order
  BY <1>2, Reduce512Exact
<1> QED BY <1>2, <1>3, <1>4, <1>5

-----------------------------------------------------------------------------
(* Products that are shifted, and bytes. *)

\* A bit of a number in limbs.
LEMMA BitOfLimbs ==
  ASSUME NEW n \in Nat, NEW f, AreLimbs(f, n), NEW bit \in Nat
  PROVE  (Digit(f, n, bit \div W) \div 2^(bit % W)) % 2 = (Worth(f, n) \div 2^bit) % 2
<1> DEFINE o == bit \div W
           p == bit % W
           v == Worth(f, n)
           lo == Digit(f, n, o)
           r == v \div Weight(o + 1)
           w == Weight(o)
           e == 2^p
           m == 2^(W - p - 1)
           u == lo \div e
<1>1. o \in Nat /\ p \in 0 .. W - 1 /\ 2^bit = w * e /\ e \in Nat \ {0} /\ w \in Nat \ {0}
  BY BitPlace, WeightOf
<1>2. v \div w = lo + Base * r /\ lo \in 0 .. Base - 1 /\ v \in Nat
  BY <1>1, DigitOf
<1>3. r \in Nat
  <2>1. o + 1 \in Nat
    BY <1>1
  <2> QED BY <2>1, DigitOf
<1>4. m \in Nat \ {0} /\ 2^(W - p) = 2 * m
  <2> DEFINE k == W - p - 1
  <2>1. k \in Nat /\ W - p = k + 1
    BY <1>1, Shape
  <2> HIDE DEF k
  <2>2. 2^(k + 1) = 2 * 2^k /\ 2^k \in Nat \ {0}
    BY <2>1, PowerNext, PowerIsNat
  <2> QED BY <2>1, <2>2 DEF k
<1> HIDE DEF o, p, v, lo, r, w, m
<1>5. (lo + Base * r) \div 2^p = (lo \div 2^p) + 2^(W - p) * r
  <2>1. p \in 0 .. W
    BY <1>1, Shape
  <2> QED BY <1>2, <1>3, <2>1, ShiftedPair
<1> HIDE DEF e
<1>6. v \div (w * e) = (v \div w) \div e
  BY <1>1, <1>2, QuotientByProduct
<1>7. u \in Nat
  <2>1. lo \in Nat
    BY <1>2
  <2> QED BY <1>1, <2>1, Division
<1> DEFINE g == m * r
<1>8. (2 * m) * r = 2 * g /\ g \in Nat
  BY <1>3, <1>4
<1>9. v \div 2^bit = u + 2 * g
  BY <1>1, <1>2, <1>4, <1>5, <1>6, <1>8 DEF e
<1> HIDE DEF u, g
<1>10. (u + 2 * g) % 2 = u % 2
  BY <1>7, <1>8
<1> QED BY <1>9, <1>10 DEF u, e, lo, v, o, p

\* Half of it is added before a division that rounds.
LEMMA Rounded ==
  ASSUME NEW z \in Nat, NEW h \in Nat \ {0}
  PROVE  /\ (z + h) \div (h * 2) = (z \div (h * 2)) + ((z \div h) % 2)
         /\ (z \div h) % 2 \in {0, 1} /\ z \div (h * 2) \in Nat
<1> DEFINE g == z \div h
           k == z + h
           k1 == k \div h
<1>1. k1 = g + 1 /\ g \in Nat
  <2>1. (z + h * 1) \div h = (z \div h) + 1
    <3>1. 1 \in Nat
      OBVIOUS
    <3> QED BY <3>1, DivideSum
  <2>2. h * 1 = h
    OBVIOUS
  <2> QED BY <2>1, <2>2, Division
<1>2. k \in Nat /\ 2 \in Nat \ {0}
  OBVIOUS
<1> HIDE DEF k
<1>3. k \div (h * 2) = (k \div h) \div 2 /\ z \div (h * 2) = (z \div h) \div 2
  BY <1>2, QuotientByProduct
<1> HIDE DEF g
<1>4. (g + 1) \div 2 = (g \div 2) + (g % 2) /\ g % 2 \in {0, 1} /\ g \div 2 \in Nat
  BY <1>1
<1> QED BY <1>1, <1>3, <1>4 DEF g, k

\* The product shifted right, rounded to the nearest.
LEMMA MulShiftExact ==
  ASSUME NEW a, IsScalar(a), NEW b, IsScalar(b), NEW s \in Nat, s >= L * W
  PROVE  /\ IsScalar(MulShiftVar(a, b, s))
         /\ Value(MulShiftVar(a, b, s)) = (Value(a) * Value(b) + 2^(s - 1)) \div 2^s
<1> DEFINE l == Mul512(a, b)
           At(k) == IF k < 2 * L THEN l[k] ELSE 0
           limbs == s \div W
           low == s % W
           r == [i \in D |-> At(i + limbs) \div 2^low + ((At(i + limbs + 1) * 2^(W - low)) % Base)]
           flag == (At((s - 1) \div W) \div 2^((s - 1) % W)) % 2 = 1
           z == Worth(l, 2 * L)
           w == Weight(L)
           o == Order
           h == 2^(s - 1)
           q == z \div 2^s
           bit == (z \div h) % 2
<1>1. MulShiftVar(a, b, s) = CaddBit(r, 0, flag)
  BY DEF MulShiftVar
<1>2. /\ L \in Nat /\ W \in Nat /\ D = 0 .. L - 1 /\ 2 * L \in Nat /\ s - 1 \in Nat /\ w \in Nat \ {0}
      /\ o \in Nat \ {0} /\ o <= w /\ L * W \in Nat /\ L * W >= 1
  <2>1. L \in Nat /\ L >= 2 /\ W \in Nat /\ W >= 3 /\ D = 0 .. L - 1
    BY Shape
  <2>2. 2 * W <= L * W /\ L * W \in Nat
    BY <2>1, Times
  <2>3. w \in Nat \ {0} /\ o \in Nat \ {0} /\ o <= w
    <3>1. w \in Nat \ {0} /\ o \in Nat \ {0} /\ w = o + C /\ C \in Nat
      BY Sizes
    <3> HIDE DEF w, o
    <3> QED BY <3>1
  <2>4. s - 1 \in Nat
    <3> DEFINE e == L * W
    <3>1. e \in Nat /\ e >= 6 /\ s >= e
      BY <2>1, <2>2
    <3> HIDE DEF e
    <3> QED BY <3>1
  <2> QED BY <2>1, <2>2, <2>3, <2>4
<1>3. AreLimbs(l, 2 * L) /\ z = Value(a) * Value(b)
  BY Mul512Exact DEF IsScalar
<1>4. \A k \in Nat : At(k) = Digit(l, 2 * L, k)
  BY DEF Digit
<1> HIDE DEF l, At
<1>5. z \in Nat
  <2> DEFINE n == 2 * L
  <2>1. n \in Nat /\ AreLimbs(l, n) /\ 0 \in Nat
    BY <1>2, <1>3
  <2> HIDE DEF n
  <2>2. Worth(l, n) \in Nat
    BY <2>1, DigitOf
  <2> QED BY <2>2 DEF n
<1>6. /\ limbs \in Nat /\ low \in 0 .. W - 1 /\ 2^s = Weight(limbs) * 2^low /\ low \in 0 .. W
      /\ 2^low \in Nat \ {0} /\ Weight(limbs) \in Nat \ {0}
  <2>1. limbs \in Nat /\ low \in 0 .. W - 1 /\ 2^s = Weight(limbs) * 2^low /\ 2^low \in Nat \ {0}
    BY BitPlace
  <2> HIDE DEF limbs, low
  <2>2. low \in 0 .. W
    <3>1. low \in 0 .. W - 1
      BY <2>1
    <3> QED BY <1>2, <3>1
  <2>3. Weight(limbs) \in Nat \ {0}
    BY <2>1, WeightOf
  <2> QED BY <2>1, <2>2, <2>3
<1>7. h \in Nat \ {0} /\ 2^s = h * 2 /\ w <= 2^s /\ 2^s \in Nat \ {0}
  <2> DEFINE t == s - 1
  <2>1. t \in Nat /\ s = t + 1
    BY <1>2
  <2> HIDE DEF t
  <2>2. 2^(t + 1) = 2 * 2^t /\ 2^t \in Nat \ {0} /\ 2^s \in Nat \ {0}
    BY <2>1, PowerNext, PowerIsNat
  <2>3. 2 * 2^t = 2^t * 2
    BY <2>2
  <2>4. 2^(L * W) <= 2^s
    BY <1>2, PowerMono
  <2>5. w = 2^(L * W)
    <3>1. W * L = L * W
      BY <1>2
    <3> QED BY <3>1 DEF Weight
  <2> QED BY <2>1, <2>2, <2>3, <2>4, <2>5 DEF t
<1> HIDE DEF limbs, low
<1>8. q = (z \div Weight(limbs)) \div 2^low
  <2> DEFINE y1 == Weight(limbs)
             y2 == 2^low
  <2>1. y1 \in Nat \ {0} /\ y2 \in Nat \ {0}
    BY <1>6
  <2> HIDE DEF y1, y2, z
  <2>2. z \div (y1 * y2) = (z \div y1) \div y2
    BY <1>5, <2>1, QuotientByProduct
  <2> QED BY <1>6, <2>2 DEF y1, y2
<1>9. (z + h) \div 2^s = q + bit /\ bit \in {0, 1} /\ q \in Nat
  <2> HIDE DEF z, h
  <2>1. (z + h) \div (h * 2) = (z \div (h * 2)) + ((z \div h) % 2) /\ (z \div h) % 2 \in {0, 1} /\ z \div (h * 2) \in Nat
    BY <1>5, <1>7, Rounded
  <2> QED BY <1>7, <2>1
<1>10. q + bit < o
  <2> DEFINE p == 2^s
             va == Value(a)
             vb == Value(b)
             k == z + h
  <2>1. va \in Nat /\ vb \in Nat /\ va <= o - 1 /\ vb <= o - 1 /\ z = va * vb /\ p \in Nat \ {0} /\ w <= p /\ o - 1 \in Nat
    <3>1. va \in Nat /\ vb \in Nat /\ va < o /\ vb < o
      BY Scalar
    <3> HIDE DEF va, vb, o, p
    <3> QED BY <1>2, <1>3, <1>7, <3>1 DEF p, va, vb
  <2>2. k \div p = q + bit
    BY <1>9
  <2> HIDE DEF va, vb, p, o, w, h, z, q, bit
  <2>3. vb <= p
    BY <1>2, <2>1
  <2>4. va * vb <= (o - 1) * vb /\ vb * (o - 1) <= p * (o - 1) /\ va * vb \in Nat /\ p * (o - 1) \in Nat
    BY <2>1, <2>3, Times
  <2>5. (o - 1) * vb = vb * (o - 1) /\ p * (o - 1) = o * p - p /\ o * p \in Nat
    BY <1>2, <2>1
  <2> DEFINE y1 == (o - 1) * vb
             y2 == p * (o - 1)
             y3 == o * p
  <2>6. z <= y1 /\ y1 <= y2 /\ y2 = y3 - p /\ y1 \in Int /\ y2 \in Nat /\ y3 \in Nat
    <3>1. y1 \in Int
      BY <1>2, <2>1
    <3> QED BY <2>1, <2>4, <2>5, <3>1
  <2>7. p = h * 2 /\ h \in Nat /\ h < p
    BY <1>7 DEF p
  <2> HIDE DEF y1, y2, y3
  <2>8. k < y3 /\ k \in Nat
    BY <1>5, <2>1, <2>6, <2>7
  <2> HIDE DEF k
  <2>9. k < o * p
    BY <2>8 DEF y3
  <2>10. k \div p < o
    BY <1>2, <2>1, <2>8, <2>9, DivBelow
  <2> QED BY <2>2, <2>10
<1>11. IsLimbs(r) /\ Value(r) = q
  <2>1. ASSUME NEW i \in 0 .. L - 1
        PROVE  r[i] = (Digit(l, 2 * L, limbs + i) \div 2^low) + ((Digit(l, 2 * L, limbs + i + 1) * 2^(W - low)) % Base)
    <3>1. i + limbs \in Nat /\ i + limbs + 1 \in Nat /\ i + limbs = limbs + i /\ i + limbs + 1 = limbs + i + 1
      BY <1>6
    <3>2. r[i] = (At(i + limbs) \div 2^low) + ((At(i + limbs + 1) * 2^(W - low)) % Base)
      BY <1>2
    <3>3. At(i + limbs) = Digit(l, 2 * L, i + limbs) /\ At(i + limbs + 1) = Digit(l, 2 * L, i + limbs + 1)
      BY <1>4, <3>1
    <3> HIDE DEF r
    <3> QED BY <3>1, <3>2, <3>3
  <2>2. r = [i \in D |-> r[i]]
    OBVIOUS
  <2> DEFINE n == 2 * L
  <2>3. ShiftedInto(r, L, l, n, limbs, low)
    <3> HIDE DEF r
    <3> QED BY <2>1 DEF ShiftedInto
  <2>4. n \in Nat /\ AreLimbs(l, n) /\ L \in Nat /\ D = 0 .. L - 1
    BY <1>2, <1>3
  <2> HIDE DEF r, n
  <2>5. Worth(r, L) = ((Worth(l, n) \div Weight(limbs)) \div 2^low) % Weight(L) /\ AreLimbs(r, L)
    BY <1>6, <2>3, <2>4, ShiftedWorth
  <2>6. Worth(r, L) = q % w
    BY <1>8, <2>5 DEF n
  <2>7. q < w
    <3> HIDE DEF q, w, o, bit
    <3> QED BY <1>2, <1>9, <1>10
  <2> HIDE DEF q, w
  <2>8. q % w = q
    BY <1>2, <1>9, <2>7, ModBelow
  <2>9. \A i \in D : r[i] \in 0 .. Base - 1
    BY <2>4, <2>5 DEF AreLimbs
  <2>10. IsLimbs(r)
    BY <2>2, <2>9 DEF IsLimbs
  <2> QED BY <2>6, <2>8, <2>10, ValueIsWorth
<1>12. flag <=> bit = 1
  <2> DEFINE n == 2 * L
             t == s - 1
  <2>1. n \in Nat /\ t \in Nat /\ AreLimbs(l, n) /\ t \div W \in Nat
    <3>1. t \in Nat
      BY <1>2
    <3> HIDE DEF t
    <3>2. t \div W \in Nat
      BY <3>1, BitPlace
    <3> QED BY <1>2, <1>3, <3>1, <3>2
  <2>2. At(t \div W) = Digit(l, n, t \div W)
    BY <1>4, <2>1
  <2>3. flag <=> (At(t \div W) \div 2^(t % W)) % 2 = 1
    OBVIOUS
  <2>4. bit = (Worth(l, n) \div 2^t) % 2
    OBVIOUS
  <2> HIDE DEF flag, bit, n, t
  <2>5. (Digit(l, n, t \div W) \div 2^(t % W)) % 2 = (Worth(l, n) \div 2^t) % 2
    BY <2>1, BitOfLimbs
  <2> QED BY <2>2, <2>3, <2>4, <2>5
<1> HIDE DEF r, flag, q, bit, z, w, h, o
<1>13. flag \in BOOLEAN
  BY DEF flag
<1>14. CASE flag
  <2>1. bit = 1 /\ flag = TRUE
    BY <1>12, <1>13, <1>14
  <2>2. 2^0 = 1 /\ 0 \in 0 .. L * W - 1
    <3> DEFINE e == L * W
    <3>1. e \in Nat /\ e >= 1
      BY <1>2
    <3> HIDE DEF e
    <3>2. 0 \in 0 .. e - 1
      BY <3>1
    <3> QED BY <3>2, PowerZero DEF e
  <2>3. Value(r) + 2^0 < Weight(L)
    BY <1>2, <1>9, <1>10, <1>11, <2>1, <2>2 DEF w
  <2>4. IsLimbs(CaddBit(r, 0, TRUE)) /\ Value(CaddBit(r, 0, TRUE)) = Value(r) + 2^0
    BY <1>11, <2>2, <2>3, CaddBitExact
  <2>5. Value(CaddBit(r, 0, TRUE)) = q + bit
    BY <1>11, <2>1, <2>2, <2>4
  <2> QED BY <1>1, <1>3, <1>9, <1>10, <2>1, <2>4, <2>5 DEF IsScalar, o, h
<1>15. CASE ~flag
  <2>1. bit = 0 /\ flag = FALSE
    BY <1>9, <1>12, <1>13, <1>15
  <2>2. CaddBit(r, 0, FALSE) = r
    BY <1>11, CaddNothing
  <2>3. q + bit = q
    BY <1>9, <2>1
  <2> QED BY <1>1, <1>3, <1>9, <1>10, <1>11, <2>1, <2>2, <2>3 DEF IsScalar, o, h
<1> QED BY <1>14, <1>15

-----------------------------------------------------------------------------
(* The registers of scalars: the invariant and the theorems. *)

\* The inductive invariant: both are scalars below the order.
IInv == IsScalar(x) /\ IsScalar(y)

\* What is loaded from bytes is a scalar, the number modulo the order.
LEMMA LoadedHave ==
  ASSUME NEW s \in Loaded
  PROVE  IsScalar(s) /\ \E v \in Values : Value(s) = v % Order
<1>1. PICK v \in Values : s = SetB32(BytesOf(v)).r
  BY DEF Loaded
<1>2. v \in 0 .. Weight(L) - 1
  BY UseAssumption
<1> QED BY <1>1, <1>2, SetBytesExact

\* The two start as scalars that ScalarOps starts with.
LEMMA InitHas ==
  ASSUME Init
  PROVE  IInv /\ Ops!Init
<1>1. x \in Loaded /\ y \in Loaded
  BY DEF Init
<1>2. IsScalar(x) /\ IsScalar(y)
  BY <1>1, LoadedHave
<1>3. (\E v \in Values : Value(x) = v % Order) /\ (\E v \in Values : Value(y) = v % Order)
  BY <1>1, LoadedHave
<1> QED BY <1>2, <1>3 DEF IInv, Ops!Init, Ops!Loaded

\* Each operation keeps the invariant and does what ScalarOps says of it.
LEMMA LoadHas ==
  ASSUME IInv, DoLoad
  PROVE  IInv' /\ Ops!DoLoad
<1>1. x' \in Loaded /\ y' = y
  BY DEF DoLoad
<1>2. IsScalar(x') /\ \E v \in Values : Value(x') = v % Order
  BY <1>1, LoadedHave
<1> QED BY <1>1, <1>2 DEF IInv, Ops!DoLoad, Ops!Loaded

\* A small number is itself.
LEMMA SetIntHas ==
  ASSUME IInv, DoSetInt
  PROVE  IInv' /\ Ops!DoSetInt
<1>1. PICK v \in Values : v < Base /\ x' = SetInt(v) /\ y' = y
  BY DEF DoSetInt
<1>2. v \in 0 .. Base - 1
  BY <1>1, UseAssumption, Shape
<1>3. IsScalar(x') /\ Value(x') = v
  BY <1>1, <1>2, SetIntExact
<1> QED BY <1>1, <1>3 DEF IInv, Ops!DoSetInt, Base

\* A sum.
LEMMA AddHas ==
  ASSUME IInv, DoAdd
  PROVE  IInv' /\ Ops!DoAdd
<1>1. x' = Add(x, y).r /\ y' = y
  BY DEF DoAdd
<1>2. IsScalar(x') /\ Value(x') = (Value(x) + Value(y)) % Order
  BY <1>1, AddExact DEF IInv
<1> QED BY <1>1, <1>2 DEF IInv, Ops!DoAdd

\* A product, the two foldings and the last subtraction.
LEMMA MulHas ==
  ASSUME IInv, DoMul
  PROVE  IInv' /\ Ops!DoMul
<1>1. x' = Mul(x, y) /\ y' = y
  BY DEF DoMul
<1>2. IsScalar(x') /\ Value(x') = (Value(x) * Value(y)) % Order
  BY <1>1, MulExact DEF IInv
<1> QED BY <1>1, <1>2 DEF IInv, Ops!DoMul

\* A square.
LEMMA SqrHas ==
  ASSUME IInv, DoSqr
  PROVE  IInv' /\ Ops!DoSqr
<1>1. x' = Sqr(x) /\ y' = y
  BY DEF DoSqr
<1>2. IsScalar(x') /\ Value(x') = (Value(x) * Value(x)) % Order
  BY <1>1, MulExact DEF IInv
<1> QED BY <1>1, <1>2 DEF IInv, Ops!DoSqr

\* A negation, zero's included.
LEMMA NegateHas ==
  ASSUME IInv, DoNegate
  PROVE  IInv' /\ Ops!DoNegate
<1>1. x' = Negate(x) /\ y' = y
  BY DEF DoNegate
<1>2. IsScalar(x') /\ Value(x') = (Order - Value(x)) % Order
  BY <1>1, NegateExact DEF IInv
<1> QED BY <1>1, <1>2 DEF IInv, Ops!DoNegate

\* The low one of the two.
LEMMA LowerHas ==
  ASSUME IInv, DoLower
  PROVE  IInv' /\ Ops!DoLower
<1>1. x' = CondNegate(x, IsHigh(x)).r /\ y' = y
  BY DEF DoLower
<1>2. IsScalar(x') /\ Value(x') = IF Value(x) > Order \div 2 THEN Order - Value(x) ELSE Value(x)
  BY <1>1, LowerExact DEF IInv
<1> QED BY <1>1, <1>2 DEF IInv, Ops!DoLower

\* A bit added to a scalar that leaves it one.
LEMMA CaddBitHas ==
  ASSUME IInv, DoCaddBit
  PROVE  IInv' /\ Ops!DoCaddBit
<1>1. PICK bit \in 0 .. L * W - 1 : Value(x) + 2^bit < Order /\ x' = CaddBit(x, bit, TRUE) /\ y' = y
  BY DEF DoCaddBit
<1>2. IsLimbs(x) /\ Value(x) + 2^bit < Weight(L)
  <2> DEFINE v == Value(x)
             e == 2^bit
             o == Order
             w == Weight(L)
  <2>1. v \in Nat /\ IsLimbs(x) /\ e \in Nat /\ o \in Nat /\ C \in Nat /\ w = o + C /\ v + e < o
    <3>1. bit \in Nat
      OBVIOUS
    <3> QED BY <1>1, <3>1, Scalar, Sizes, PowerIsNat DEF IInv
  <2> HIDE DEF v, e, o, w
  <2>2. v + e < w
    BY <2>1
  <2> QED BY <2>1, <2>2 DEF v, e, w
<1>3. IsLimbs(x') /\ Value(x') = Value(x) + 2^bit
  BY <1>1, <1>2, CaddBitExact
<1> QED BY <1>1, <1>3 DEF IInv, IsScalar, Ops!DoCaddBit

\* A shift right by less than a limb.
LEMMA ShrIntHas ==
  ASSUME IInv, DoShrInt
  PROVE  IInv' /\ Ops!DoShrInt
<1>1. PICK n \in 1 .. W - 1 : x' = ShrInt(x, n).r /\ y' = y
  BY DEF DoShrInt
<1>2. IsScalar(x') /\ Value(x') = Value(x) \div 2^n
  BY <1>1, ShrIntExact DEF IInv
<1> QED BY <1>1, <1>2 DEF IInv, Ops!DoShrInt

\* The product shifted and rounded.
LEMMA MulShiftHas ==
  ASSUME IInv, DoMulShiftVar
  PROVE  IInv' /\ Ops!DoMulShiftVar
<1>1. PICK s \in Shifts : x' = MulShiftVar(x, y, s) /\ y' = y
  BY DEF DoMulShiftVar
<1>2. s \in Nat /\ s >= L * W
  BY UseAssumption
<1>3. IsScalar(x') /\ Value(x') = (Value(x) * Value(y) + 2^(s - 1)) \div 2^s
  BY <1>1, <1>2, MulShiftExact DEF IInv
<1> QED BY <1>1, <1>3 DEF IInv, Ops!DoMulShiftVar

\* Every step keeps the invariant and is a step of ScalarOps.
LEMMA StepHas ==
  ASSUME IInv, [Next]_<<x, y>>
  PROVE  IInv' /\ [Ops!Next]_<<Value(x), Value(y)>>
<1>1. CASE Next
  <2>1. CASE DoLoad
    BY <2>1, LoadHas DEF Ops!Next
  <2>2. CASE DoSetInt
    BY <2>2, SetIntHas DEF Ops!Next
  <2>3. CASE DoAdd
    BY <2>3, AddHas DEF Ops!Next
  <2>4. CASE DoMul
    BY <2>4, MulHas DEF Ops!Next
  <2>5. CASE DoSqr
    BY <2>5, SqrHas DEF Ops!Next
  <2>6. CASE DoNegate
    BY <2>6, NegateHas DEF Ops!Next
  <2>7. CASE DoLower
    BY <2>7, LowerHas DEF Ops!Next
  <2>8. CASE DoCaddBit
    BY <2>8, CaddBitHas DEF Ops!Next
  <2>9. CASE DoShrInt
    BY <2>9, ShrIntHas DEF Ops!Next
  <2>10. CASE DoMulShiftVar
    BY <2>10, MulShiftHas DEF Ops!Next
  <2>11. CASE Copy
    BY <2>11 DEF Copy, IInv, Ops!Next, Ops!Copy
  <2> QED BY <1>1, <2>1, <2>2, <2>3, <2>4, <2>5, <2>6, <2>7, <2>8, <2>9, <2>10, <2>11 DEF Next
<1>2. CASE UNCHANGED <<x, y>>
  BY <1>2 DEF IInv
<1> QED BY <1>1, <1>2

\* The invariant holds throughout.
THEOREM Invariance ==
  Spec => []IInv
<1>1. Init => IInv
  BY InitHas
<1>2. IInv /\ [Next]_<<x, y>> => IInv'
  BY StepHas
<1> QED BY <1>1, <1>2, PTL DEF Spec

\* Every behaviour of the limbs is one of the numbers modulo the order.
THEOREM ScalarsImplement ==
  Spec => ImplementsScalars
<1>1. Init => Ops!Init
  BY InitHas
<1>2. IInv /\ [Next]_<<x, y>> => [Ops!Next]_<<Value(x), Value(y)>>
  BY StepHas
<1> QED BY <1>1, <1>2, Invariance, PTL DEF Spec, ImplementsScalars, Ops!Spec

-----------------------------------------------------------------------------
\* Bytes of a scalar give it back, those of a scalar and the order tell of the overflow.
LEMMA LoadedBack ==
  ASSUME NEW s, IsScalar(s)
  PROVE  /\ SetB32(BytesOf(Value(s))) = [r |-> s, overflow |-> 0]
         /\ Value(s) + Order < Weight(L) => SetB32(BytesOf(Value(s) + Order)) = [r |-> s, overflow |-> 1]
<1> DEFINE v == Value(s)
           o == Order
           w == Weight(L)
<1>1. v \in Nat /\ v < o /\ o \in Nat \ {0} /\ w \in Nat \ {0} /\ IsLimbs(s) /\ v \in 0 .. w - 1
  BY Scalar, Sizes
<1>2. ASSUME NEW q \in {0, 1}, v + q * o < w
      PROVE  SetB32(BytesOf(v + q * o)) = [r |-> s, overflow |-> q]
  <2> DEFINE u == v + q * o
             b == SetB32(BytesOf(u))
  <2> HIDE DEF v, o, w
  <2>1. u \in 0 .. w - 1
    BY <1>1, <1>2
  <2>2. u \div o = q /\ u % o = v
    <3>1. u = o * q + v /\ q \in Int /\ v \in 0 .. o - 1
      BY <1>1
    <3> HIDE DEF u
    <3> QED BY <1>1, <3>1, DivisionUnique
  <2> HIDE DEF u
  <2>3. IsScalar(b.r) /\ Value(b.r) = u % o /\ b.overflow = u \div o /\ b = [r |-> b.r, overflow |-> b.overflow]
    BY <2>1, SetBytesExact DEF o, w
  <2> HIDE DEF b
  <2>4. b.r = s
    BY <1>1, <2>2, <2>3, Scalar, ValueUnique DEF v
  <2>5. b = [r |-> s, overflow |-> q]
    BY <2>2, <2>3, <2>4
  <2> QED BY <2>5 DEF b, u
<1>3. v + 0 * o = v /\ v + 1 * o = v + o /\ v < w
  <2> HIDE DEF v, o, w
  <2> QED BY <1>1
<1>4. SetB32(BytesOf(v)) = [r |-> s, overflow |-> 0]
  BY <1>2, <1>3
<1>5. v + o < w => SetB32(BytesOf(v + o)) = [r |-> s, overflow |-> 1]
  BY <1>2, <1>3
<1> QED BY <1>4, <1>5

\* The functions that only read the scalars are right of them.
LEMMA ReadsExact ==
  ASSUME IInv
  PROVE  ReadersExact
<1>1. IsScalar(x) /\ IsScalar(y) /\ IsLimbs(x) /\ IsLimbs(y)
  BY Scalar DEF IInv
<1>2. GetB32(x) = BytesOf(Value(x))
  BY <1>1, BytesExact
<1>3. /\ SetB32(BytesOf(Value(x))) = [r |-> x, overflow |-> 0]
      /\ Value(x) + Order < Weight(L) => SetB32(BytesOf(Value(x) + Order)) = [r |-> x, overflow |-> 1]
  BY <1>1, LoadedBack
<1>4. Add(x, y).overflow = (Value(x) + Value(y)) \div Order
  BY <1>1, AddExact
<1>5. (IsZero(x) <=> Value(x) = 0) /\ (IsOne(x) <=> Value(x) = 1) /\ (Eq(x, y) <=> Value(x) = Value(y))
  BY <1>1, TestsExact
<1>6. IsEven(x) <=> Value(x) % 2 = 0
  BY <1>1, EvenExact
<1>7. IsHigh(x) <=> Value(x) > Order \div 2
  BY <1>1, HighExact
<1>8. Value(CondNegate(x, TRUE).r) = (Order - Value(x)) % Order /\ CondNegate(x, TRUE).sign = -1
  <2>2. CondNegate(x, TRUE).r = Negate(x) /\ CondNegate(x, TRUE).sign = -1
    BY DEF CondNegate
  <2> QED BY <1>1, <2>2, NegateExact
<1>9. CondNegate(x, FALSE) = [r |-> x, sign |-> 1]
  BY DEF CondNegate
<1>10. \A bit \in 0 .. L * W - 1 : CaddBit(x, bit, FALSE) = x
  BY <1>1, CaddNothing
<1>11. \A n \in 1 .. W - 1 : ShrInt(x, n).low = Value(x) % 2^n
  BY <1>1, ShrIntExact
<1>12. \A count \in 1 .. W - 1 : \A offset \in 0 .. L * W - count :
         GetBitsVar(x, offset, count) = (Value(x) \div 2^offset) % 2^count
  BY <1>1, BitsExact
<1> QED BY <1>1, <1>2, <1>3, <1>4, <1>5, <1>6, <1>7, <1>8, <1>9, <1>10, <1>11, <1>12, Zenon DEF ReadersExact

\* Products stay within what the VERIFY build checks.
LEMMA ProductsExact ==
  ASSUME IInv
  PROVE  ProductsWithinChecks
<1> DEFINE l == Mul512(x, y)
           p == FoldedTwice(l)
           total == Worth(p.limb, L) + Weight(L) * p.top
           product == Value(x) * Value(y)
           o == Order
           w == Weight(L)
           n == 2 * L
<1>1. IsScalar(x) /\ IsScalar(y) /\ IsLimbs(x) /\ IsLimbs(y) /\ Value(x) \in Nat /\ Value(y) \in Nat
  BY Scalar DEF IInv
<1>2. AreLimbs(l, n) /\ Worth(l, n) = product
  BY <1>1, Mul512Exact
<1>3. Total([k \in 0 .. n - 1 |-> l[k] * Weight(k)], n) = product
  BY <1>2 DEF Worth
<1>4. Sqr512(x) = Mul512(x, x)
  BY <1>1, Sqr512Exact
<1> HIDE DEF l
<1>5. FoldedOnce(l).top \in {0, 1}
  BY <1>2, FoldedOnceExact
<1>6. /\ AreLimbs(p.limb, L) /\ p.top \in {0, 1, 2}
      /\ \E q \in Nat : Worth(l, n) = total + o * q
  BY <1>2, FoldedTwiceExact
<1>7. Worth(p.limb, L) + p.top * C < 2 * o
  BY <1>2, Reduce512Exact
<1>8. Value(p.limb) + Weight(L) * p.top = total
  BY ValueIsWorth
<1>9. o \in Nat \ {0} /\ w \in Nat \ {0} /\ C \in Nat /\ w = o + C
  BY Sizes
<1>10. Worth(p.limb, L) \in Nat
  <2> DEFINE f == p.limb
  <2>1. \A i \in 0 .. L - 1 : f[i] \in 0 .. Base - 1
    BY <1>6 DEF AreLimbs
  <2>2. L \in Nat /\ L \in 0 .. L
    BY Shape
  <2> HIDE DEF f
  <2>3. Worth(f, L) \in 0 .. Weight(L) - 1
    BY <2>1, <2>2, WorthBelow
  <2>4. Worth(f, L) \in 0 .. w - 1
    BY <2>3
  <2> HIDE DEF w
  <2>5. Worth(f, L) \in Nat
    BY <1>9, <2>4
  <2> QED BY <2>5 DEF f
<1> DEFINE limbs == Worth(p.limb, L)
           top == p.top
<1>11. total = limbs + w * top /\ limbs \in Nat /\ top \in {0, 1, 2} /\ limbs + top * C < 2 * o
  BY <1>6, <1>7, <1>10
<1>12. product \in Nat
  BY <1>1
<1>13. PICK q \in Nat : product = total + o * q
  BY <1>2, <1>6
<1> HIDE DEF product, o, w, limbs, top, total, p
<1>14. (total - product) % o = 0
  <2> DEFINE a == total - product
             k == -q
  <2>1. k \in Int /\ a = o * k + 0 /\ 0 \in 0 .. o - 1
    BY <1>9, <1>11, <1>12, <1>13
  <2> HIDE DEF a, k
  <2>2. a % o = 0
    BY <1>9, <2>1, DivisionUnique
  <2> QED BY <2>2 DEF a
<1>15. total - o * top < 2 * o
  BY <1>9, <1>11
<1>16. Add(x, y).overflow \in {0, 1}
  BY <1>1, AddExact
<1>17. FoldedOnce(l).top <= 1 /\ top <= 2 /\ Add(x, y).overflow <= 1
  BY <1>5, <1>11, <1>16
<1> QED BY <1>3, <1>4, <1>8, <1>14, <1>15, <1>17, Zenon DEF ProductsWithinChecks, l, p, top, product, o, n

\* What is read of the scalars is always right.
THEOREM ScalarsAreExact ==
  Spec => []ScalarsExact
<1>1. IInv => ScalarsExact
  BY ReadsExact, ProductsExact DEF ScalarsExact
<1> QED BY <1>1, Invariance, PTL

\* Products stay within the checks, always.
THEOREM ProductsStayWithinChecks ==
  Spec => []ProductsWithinChecks
<1>1. IInv => ProductsWithinChecks
  BY ProductsExact
<1> QED BY <1>1, Invariance, PTL

-----------------------------------------------------------------------------
(* Powers in any set with an associative product. *)

\* A function given by recursion, each value from the one before it.
Recurs(s, E, a, G) == s \in [Nat -> E] /\ s[0] = a /\ \A k \in Nat : s[k + 1] = G[k][s[k]]

\* It exists.
LEMMA Recursion ==
  ASSUME NEW E, NEW a \in E, NEW G \in [Nat -> [E -> E]]
  PROVE  \E s : Recurs(s, E, a, G)
<1> DEFINE Is(s, n) == s[0] = a /\ \A k \in Nat : k < n => s[k + 1] = G[k][s[k]]
           H == {n \in Nat : \E s \in [Nat -> E] : Is(s, n)}
<1>1. 0 \in H
  <2> DEFINE s == [k \in Nat |-> a]
  <2>1. s \in [Nat -> E] /\ s[0] = a
    OBVIOUS
  <2> HIDE DEF s
  <2> QED BY <2>1
<1>2. ASSUME NEW n \in H PROVE n + 1 \in H
  <2>1. PICK s \in [Nat -> E] : Is(s, n)
    OBVIOUS
  <2> DEFINE d == [k \in Nat |-> IF k = n + 1 THEN G[n][s[n]] ELSE s[k]]
  <2>2. n \in Nat /\ G[n] \in [E -> E] /\ s[n] \in E
    OBVIOUS
  <2>3. d \in [Nat -> E]
    BY <2>2
  <2>4. d[0] = a
    BY <2>1, <2>2
  <2>5. ASSUME NEW k \in Nat, k < n + 1 PROVE d[k + 1] = G[k][d[k]]
    <3>1. k # n + 1 /\ d[k] = s[k] /\ k + 1 \in Nat
      BY <2>2, <2>5
    <3>2. CASE k = n
      <4>1. d[k + 1] = G[n][s[n]]
        BY <3>1, <3>2
      <4> HIDE DEF d
      <4> QED BY <3>1, <3>2, <4>1
    <3>3. CASE k # n
      <4>1. k < n /\ k + 1 # n + 1
        BY <2>2, <2>5, <3>3
      <4>2. d[k + 1] = s[k + 1] /\ s[k + 1] = G[k][s[k]]
        BY <2>1, <3>1, <4>1
      <4> HIDE DEF d
      <4> QED BY <3>1, <4>2
    <3> QED BY <3>2, <3>3
  <2> HIDE DEF d
  <2> QED BY <2>2, <2>3, <2>4, <2>5
<1> HIDE DEF H
<1>3. H = Nat
  BY <1>1, <1>2, Induction DEF H
<1> DEFINE At(n) == CHOOSE s \in [Nat -> E] : Is(s, n)
<1>4. ASSUME NEW n \in Nat PROVE At(n) \in [Nat -> E] /\ Is(At(n), n)
  <2>1. \E s \in [Nat -> E] : Is(s, n)
    BY <1>3 DEF H
  <2> HIDE DEF Is
  <2> QED BY <2>1
<1> HIDE DEF At
\* Two of them agree as far as both go.
<1>5. ASSUME NEW n \in Nat
      PROVE  \A j \in Nat : j <= n => At(n)[j] = At(n + 1)[j]
  <2> DEFINE K == {j \in Nat : j <= n => At(n)[j] = At(n + 1)[j]}
  <2>0. n + 1 \in Nat
    OBVIOUS
  <2>1. 0 \in K
    BY <1>4, <2>0
  <2>2. ASSUME NEW j \in K PROVE j + 1 \in K
    <3> SUFFICES ASSUME j + 1 <= n PROVE At(n)[j + 1] = At(n + 1)[j + 1]
      OBVIOUS
    <3>1. j \in Nat /\ j < n /\ j < n + 1 /\ j <= n
      OBVIOUS
    <3>2. At(n)[j + 1] = G[j][At(n)[j]] /\ At(n + 1)[j + 1] = G[j][At(n + 1)[j]]
      BY <1>4, <2>0, <3>1
    <3> QED BY <3>1, <3>2
  <2> HIDE DEF K
  <2>3. K = Nat
    BY <2>1, <2>2, Induction DEF K
  <2> QED BY <2>3 DEF K
<1> DEFINE r == [k \in Nat |-> At(k)[k]]
<1>6. r \in [Nat -> E]
  BY <1>4
<1>7. r[0] = a
  BY <1>4
<1>8. ASSUME NEW k \in Nat PROVE r[k + 1] = G[k][r[k]]
  <2>1. k + 1 \in Nat /\ k < k + 1
    OBVIOUS
  <2>2. At(k + 1)[k + 1] = G[k][At(k + 1)[k]]
    BY <1>4, <2>1
  <2>3. At(k)[k] = At(k + 1)[k]
    BY <1>5
  <2>4. r[k + 1] = At(k + 1)[k + 1] /\ r[k] = At(k)[k]
    BY <2>1
  <2> HIDE DEF r
  <2> QED BY <2>2, <2>3, <2>4
<1> HIDE DEF r
<1> QED BY <1>6, <1>7, <1>8 DEF Recurs

-----------------------------------------------------------------------------
\* The powers of x, from the first.
IsPowers(p, x0, Elements) ==
  p \in [Nat -> Elements] /\ p[1] = x0 /\ \A n \in Nat \ {0} : p[n + 1] = Product(p[n], x0)

\* They exist.
LEMMA PowersExist ==
  ASSUME NEW Elements, PowerLaw(Elements), NEW x0 \in Elements
  PROVE  \E p : IsPowers(p, x0, Elements)
<1> DEFINE G == [k \in Nat |-> [u \in Elements |-> Product(u, x0)]]
<1>1. G \in [Nat -> [Elements -> Elements]]
  BY DEF PowerLaw
<1>2. \A k \in Nat, u \in Elements : G[k][u] = Product(u, x0)
  OBVIOUS
<1> HIDE DEF G
<1>3. PICK s : s \in [Nat -> Elements] /\ s[0] = x0 /\ \A k \in Nat : s[k + 1] = G[k][s[k]]
  <2>1. \E s : Recurs(s, Elements, x0, G)
    BY <1>1, Recursion
  <2> QED BY <2>1 DEF Recurs
<1> DEFINE p == [n \in Nat |-> IF n = 0 THEN x0 ELSE s[n - 1]]
<1>4. p \in [Nat -> Elements]
  <2>1. \A n \in Nat : n # 0 => n - 1 \in Nat
    OBVIOUS
  <2> QED BY <1>3, <2>1
<1>5. p[1] = x0
  BY <1>3
<1>6. ASSUME NEW n \in Nat \ {0} PROVE p[n + 1] = Product(p[n], x0)
  <2>1. n - 1 \in Nat /\ (n - 1) + 1 = n /\ n + 1 \in Nat /\ n + 1 # 0 /\ (n + 1) - 1 = n
    OBVIOUS
  <2>2. s[(n - 1) + 1] = G[n - 1][s[n - 1]]
    BY <1>3, <2>1
  <2>3. s[n] = Product(s[n - 1], x0)
    BY <1>2, <1>3, <2>1, <2>2
  <2> QED BY <2>1, <2>3
<1> HIDE DEF p
<1> QED BY <1>4, <1>5, <1>6 DEF IsPowers

\* The law of powers: exponents add, and a square doubles the exponent.
LEMMA PowersAdd ==
  ASSUME NEW Elements, PowerLaw(Elements), NEW x0 \in Elements, NEW p, IsPowers(p, x0, Elements),
         NEW m \in Nat \ {0}, NEW n \in Nat \ {0}
  PROVE  p[m + n] = Product(p[m], p[n]) /\ p[2 * m] = Squared(p[m]) /\ p[m] \in Elements
<1> DEFINE H == {j \in Nat : \A i \in Nat \ {0} : p[i + (j + 1)] = Product(p[i], p[j + 1])}
<1>1. 0 \in H
  <2>1. \A i \in Nat \ {0} : i + (0 + 1) = i + 1 /\ 0 + 1 = 1
    OBVIOUS
  <2> QED BY <2>1 DEF IsPowers
<1>2. ASSUME NEW j \in H PROVE j + 1 \in H
  <2> SUFFICES ASSUME NEW i \in Nat \ {0} PROVE p[i + ((j + 1) + 1)] = Product(p[i], p[(j + 1) + 1])
    OBVIOUS
  <2> DEFINE k == j + 1
  <2>1. k \in Nat \ {0} /\ i + k \in Nat \ {0} /\ i + (k + 1) = (i + k) + 1
    OBVIOUS
  <2>2. p[i + k] = Product(p[i], p[k])
    OBVIOUS
  <2> HIDE DEF k
  <2>3. p[(i + k) + 1] = Product(p[i + k], x0) /\ p[k + 1] = Product(p[k], x0) /\ p[i] \in Elements /\ p[k] \in Elements
    BY <2>1 DEF IsPowers
  <2>4. Product(Product(p[i], p[k]), x0) = Product(p[i], Product(p[k], x0))
    <3> DEFINE a == p[i]
               b == p[k]
    <3>1. a \in Elements /\ b \in Elements
      BY <2>3
    <3> HIDE DEF a, b
    <3>2. Product(Product(a, b), x0) = Product(a, Product(b, x0))
      BY <3>1 DEF PowerLaw
    <3> QED BY <3>2 DEF a, b
  <2>5. p[i + (k + 1)] = Product(p[i], p[k + 1])
    BY <2>1, <2>2, <2>3, <2>4
  <2> QED BY <2>5 DEF k
<1> HIDE DEF H
<1>3. H = Nat
  BY <1>1, <1>2, Induction DEF H
<1>4. ASSUME NEW j \in Nat \ {0} PROVE p[m + j] = Product(p[m], p[j])
  <2>1. j - 1 \in H /\ (j - 1) + 1 = j
    BY <1>3
  <2> QED BY <2>1 DEF H
<1>5. p[m] \in Elements /\ m + m = 2 * m
  BY DEF IsPowers
<1>6. p[m + m] = Product(p[m], p[m])
  BY <1>4
<1>7. Squared(p[m]) = Product(p[m], p[m])
  BY <1>5 DEF PowerLaw
<1> QED BY <1>4, <1>5, <1>6, <1>7

-----------------------------------------------------------------------------
\* What digits number, as far as each of them.
IsNumber(h, digits) ==
  h \in [1 .. Len(digits) -> Nat] /\ h[1] = digits[1]
  /\ \A k \in 1 .. Len(digits) - 1 : h[k + 1] = 16 * h[k] + digits[k + 1]
AreDigits(digits) ==
  Len(digits) \in Nat \ {0} /\ digits[1] # 0 /\ \A k \in 1 .. Len(digits) : digits[k] \in 0 .. 15

\* Digits number something.
LEMMA NumberExists ==
  ASSUME NEW digits, AreDigits(digits)
  PROVE  \E h : IsNumber(h, digits)
<1> DEFINE n == Len(digits)
           d == [k \in Nat |-> IF k + 2 <= n THEN digits[k + 2] ELSE 0]
           G == [k \in Nat |-> [u \in Nat |-> 16 * u + d[k]]]
<1>0. n \in Nat \ {0} /\ \A k \in 1 .. n : digits[k] \in Nat
  BY DEF AreDigits
<1>1. \A k \in Nat : d[k] \in Nat
  <2> SUFFICES ASSUME NEW k \in Nat, k + 2 <= n PROVE digits[k + 2] \in Nat
    OBVIOUS
  <2>1. k + 2 \in 1 .. n
    BY <1>0
  <2> QED BY <1>0, <2>1
<1>2. \A k \in Nat : k + 2 <= n => d[k] = digits[k + 2]
  OBVIOUS
<1> HIDE DEF d
<1>3. G \in [Nat -> [Nat -> Nat]]
  BY <1>1
<1>4. \A k, u \in Nat : G[k][u] = 16 * u + d[k]
  OBVIOUS
<1> HIDE DEF G
<1>5. digits[1] \in Nat
  BY <1>0
<1>6. PICK s : s \in [Nat -> Nat] /\ s[0] = digits[1] /\ \A k \in Nat : s[k + 1] = G[k][s[k]]
  <2>1. \E s : Recurs(s, Nat, digits[1], G)
    BY <1>3, <1>5, Recursion
  <2> QED BY <2>1 DEF Recurs
<1> DEFINE h == [k \in 1 .. n |-> s[k - 1]]
<1>7. h \in [1 .. n -> Nat] /\ h[1] = digits[1]
  <2>1. \A k \in 1 .. n : s[k - 1] \in Nat
    <3>1. \A k \in 1 .. n : k - 1 \in Nat
      BY <1>0
    <3> HIDE DEF n
    <3> QED BY <1>6, <3>1
  <2>2. 1 \in 1 .. n /\ 1 - 1 = 0
    BY <1>0
  <2>3. h[1] = s[0]
    BY <2>2
  <2> QED BY <1>6, <2>1, <2>3
<1>8. ASSUME NEW k \in 1 .. n - 1 PROVE h[k + 1] = 16 * h[k] + digits[k + 1]
  <2>1. k - 1 \in Nat /\ (k - 1) + 1 = k /\ k \in 1 .. n /\ k + 1 \in 1 .. n /\ (k + 1) - 1 = k
        /\ (k - 1) + 2 = k + 1 /\ k + 1 <= n
    BY <1>0
  <2>2. s[(k - 1) + 1] = G[k - 1][s[k - 1]] /\ s[k - 1] \in Nat
    BY <1>6, <2>1
  <2>3. G[k - 1][s[k - 1]] = 16 * s[k - 1] + d[k - 1] /\ d[k - 1] = digits[k + 1]
    BY <1>2, <1>4, <2>1, <2>2
  <2>4. h[k + 1] = s[k] /\ h[k] = s[k - 1]
    BY <2>1
  <2> HIDE DEF h
  <2> QED BY <2>1, <2>2, <2>3, <2>4
<1> HIDE DEF h
<1> QED BY <1>7, <1>8 DEF IsNumber

-----------------------------------------------------------------------------
(* Powers by digits. *)

\* The powers for the digits, and those for the digits so far.
IsSmall(s, x0) == s = [d \in 1 .. 15 |-> IF d = 1 THEN x0 ELSE Product(s[d - 1], x0)]
IsPrefixes(r, s, digits) ==
  r = [k \in 1 .. Len(digits) |->
         IF k = 1 THEN s[digits[1]]
         ELSE LET v == Squared(Squared(Squared(Squared(r[k - 1]))))
              IN  IF digits[k] = 0 THEN v ELSE Product(v, s[digits[k]])]

\* What is done for a digit.
NextPower(v, s, d) ==
  LET w == Squared(Squared(Squared(Squared(v))))
  IN  IF d = 0 THEN w ELSE Product(w, s[d])

\* The power for a digit.
LEMMA SmallPowers ==
  ASSUME NEW Elements, PowerLaw(Elements), NEW x0 \in Elements, NEW p, IsPowers(p, x0, Elements)
  PROVE  /\ \E s : IsSmall(s, x0)
         /\ \A s : IsSmall(s, x0) => \A d \in 1 .. 15 : s[d] = p[d]
<1>1. \E s : IsSmall(s, x0)
  <2> DEFINE s == [d \in 1 .. 15 |-> p[d]]
  <2>1. ASSUME NEW d \in 1 .. 15 PROVE p[d] = IF d = 1 THEN x0 ELSE Product(s[d - 1], x0)
    <3>1. CASE d = 1
      BY <3>1 DEF IsPowers
    <3>2. CASE d # 1
      <4>1. d - 1 \in 1 .. 15 /\ d - 1 \in Nat \ {0} /\ (d - 1) + 1 = d
        BY <3>2
      <4>2. p[(d - 1) + 1] = Product(p[d - 1], x0)
        BY <4>1 DEF IsPowers
      <4>3. s[d - 1] = p[d - 1]
        BY <4>1
      <4> HIDE DEF s
      <4> QED BY <3>2, <4>1, <4>2, <4>3
    <3> QED BY <3>1, <3>2
  <2>2. s = [d \in 1 .. 15 |-> IF d = 1 THEN x0 ELSE Product(s[d - 1], x0)]
    BY <2>1
  <2> HIDE DEF s
  <2> QED BY <2>2 DEF IsSmall
<1>2. ASSUME NEW s, IsSmall(s, x0) PROVE \A d \in 1 .. 15 : s[d] = p[d]
  <2> DEFINE H == {j \in Nat : j + 1 \in 1 .. 15 => s[j + 1] = p[j + 1]}
  <2>1. 0 \in H
    <3>1. s[1] = x0
      BY <1>2 DEF IsSmall
    <3> QED BY <3>1 DEF IsPowers
  <2>2. ASSUME NEW j \in H PROVE j + 1 \in H
    <3> SUFFICES ASSUME (j + 1) + 1 \in 1 .. 15 PROVE s[(j + 1) + 1] = p[(j + 1) + 1]
      OBVIOUS
    <3> DEFINE k == j + 1
    <3>1. k \in 1 .. 15 /\ k \in Nat \ {0} /\ k + 1 \in 1 .. 15 /\ k + 1 # 1 /\ (k + 1) - 1 = k /\ s[k] = p[k]
      OBVIOUS
    <3> HIDE DEF k
    <3>2. s[k + 1] = Product(s[k], x0)
      BY <1>2, <3>1 DEF IsSmall
    <3>3. p[k + 1] = Product(p[k], x0)
      BY <3>1 DEF IsPowers
    <3>4. s[k + 1] = p[k + 1]
      BY <3>1, <3>2, <3>3
    <3> QED BY <3>4 DEF k
  <2> HIDE DEF H
  <2>3. H = Nat
    BY <2>1, <2>2, Induction DEF H
  <2> SUFFICES ASSUME NEW d \in 1 .. 15 PROVE s[d] = p[d]
    OBVIOUS
  <2>4. d - 1 \in Nat /\ (d - 1) + 1 = d
    OBVIOUS
  <2> QED BY <2>3, <2>4 DEF H
<1> QED BY <1>1, <1>2

\* Four squarings multiply the exponent by 16.
LEMMA FourSquarings ==
  ASSUME NEW Elements, PowerLaw(Elements), NEW x0 \in Elements, NEW p, IsPowers(p, x0, Elements),
         NEW m \in Nat \ {0}
  PROVE  Squared(Squared(Squared(Squared(p[m])))) = p[16 * m] /\ 16 * m \in Nat \ {0}
<1>1. 2 * m \in Nat \ {0} /\ 2 * (2 * m) \in Nat \ {0} /\ 2 * (2 * (2 * m)) \in Nat \ {0}
      /\ 16 * m \in Nat \ {0} /\ 2 * (2 * (2 * (2 * m))) = 16 * m /\ 1 \in Nat \ {0}
  OBVIOUS
<1> DEFINE n == 2 * m
           o == 2 * n
           q == 2 * o
           r == 16 * m
<1>2. n \in Nat \ {0} /\ o \in Nat \ {0} /\ q \in Nat \ {0} /\ r \in Nat \ {0} /\ 2 * q = r
  BY <1>1
<1>3. p[2 * m] = Squared(p[m])
  BY <1>1, PowersAdd
<1> HIDE DEF n
<1>4. p[2 * n] = Squared(p[n])
  BY <1>1, <1>2, PowersAdd
<1> HIDE DEF o
<1>5. p[2 * o] = Squared(p[o])
  BY <1>1, <1>2, PowersAdd
<1> HIDE DEF q, r
<1>6. p[2 * q] = Squared(p[q])
  BY <1>1, <1>2, PowersAdd
<1>7. Squared(Squared(Squared(Squared(p[m])))) = p[r]
  BY <1>2, <1>3, <1>4, <1>5, <1>6 DEF n, o, q
<1> QED BY <1>2, <1>7 DEF r

\* A power by digits is the power with the number they stand for.
LEMMA PowerOfNumber ==
  ASSUME NEW Elements, PowerLaw(Elements), NEW x0 \in Elements, NEW p, IsPowers(p, x0, Elements),
         NEW digits, AreDigits(digits), NEW h, IsNumber(h, digits)
  PROVE  Power(x0, digits) = p[h[Len(digits)]]
<1> DEFINE s == CHOOSE s : IsSmall(s, x0)
           n == Len(digits)
           r == CHOOSE r : IsPrefixes(r, s, digits)
<1>1. IsSmall(s, x0)
  <2>1. \E z : IsSmall(z, x0)
    BY SmallPowers
  <2> QED BY <2>1
<1>2. Power(x0, digits) = r[n]
  BY Zenon DEF Power, IsPrefixes, IsSmall
<1> HIDE DEF s, r
<1>3. n \in Nat \ {0} /\ digits[1] \in 1 .. 15 /\ \A k \in 1 .. n : digits[k] \in 0 .. 15
  BY DEF AreDigits
<1>4. h \in [1 .. n -> Nat] /\ h[1] = digits[1] /\ \A k \in 1 .. n - 1 : h[k + 1] = 16 * h[k] + digits[k + 1]
  BY DEF IsNumber
<1> HIDE DEF n
<1>5. \A k \in 1 .. n : h[k] \in Nat \ {0}
  <2> DEFINE H == {j \in Nat : j + 1 \in 1 .. n => h[j + 1] \in Nat \ {0}}
  <2>1. 0 \in H
    BY <1>3, <1>4
  <2>2. ASSUME NEW j \in H PROVE j + 1 \in H
    <3> SUFFICES ASSUME (j + 1) + 1 \in 1 .. n PROVE h[(j + 1) + 1] \in Nat \ {0}
      OBVIOUS
    <3> DEFINE k == j + 1
    <3>1. k \in 1 .. n - 1 /\ h[k] \in Nat \ {0} /\ k + 1 \in 1 .. n
      BY <1>3
    <3> HIDE DEF k
    <3>2. h[k + 1] = 16 * h[k] + digits[k + 1] /\ digits[k + 1] \in 0 .. 15
      BY <1>3, <1>4, <3>1
    <3>3. h[k + 1] \in Nat \ {0}
      BY <3>1, <3>2
    <3> QED BY <3>3 DEF k
  <2> HIDE DEF H
  <2>3. H = Nat
    BY <2>1, <2>2, Induction DEF H
  <2> SUFFICES ASSUME NEW k \in 1 .. n PROVE h[k] \in Nat \ {0}
    OBVIOUS
  <2>4. k - 1 \in Nat /\ (k - 1) + 1 = k
    BY <1>3
  <2>5. k - 1 \in H
    BY <2>3, <2>4
  <2>6. (k - 1) + 1 \in 1 .. n => h[(k - 1) + 1] \in Nat \ {0}
    BY <2>5 DEF H
  <2> HIDE DEF H
  <2> QED BY <2>4, <2>6
<1>6. ASSUME NEW k \in 1 .. n, k # 1
      PROVE  NextPower(p[h[k - 1]], s, digits[k]) = p[h[k]]
  <2> DEFINE m == h[k - 1]
             d == digits[k]
  <2>1. k - 1 \in 1 .. n - 1 /\ k - 1 \in 1 .. n /\ (k - 1) + 1 = k
    BY <1>3, <1>6
  <2>2. m \in Nat \ {0} /\ d \in 0 .. 15 /\ h[k] = 16 * m + d
    BY <1>3, <1>4, <1>5, <2>1
  <2> HIDE DEF m, d
  <2> DEFINE four == 16 * m
  <2>3. Squared(Squared(Squared(Squared(p[m])))) = p[four] /\ four \in Nat \ {0}
    BY <2>2, FourSquarings
  <2>4. h[k] = four + d
    BY <2>2
  <2> HIDE DEF four
  <2>5. NextPower(p[m], s, d) = p[h[k]]
    <3>1. CASE d = 0
      <4>1. four + d = four
        BY <2>3, <3>1
      <4> QED BY <2>3, <2>4, <3>1, <4>1 DEF NextPower
    <3>2. CASE d # 0
      <4>1. d \in 1 .. 15 /\ d \in Nat \ {0}
        BY <2>2, <3>2
      <4>2. p[four + d] = Product(p[four], p[d])
        BY <2>3, <4>1, PowersAdd
      <4>3. \A e \in 1 .. 15 : s[e] = p[e]
        BY <1>1, SmallPowers
      <4>4. s[d] = p[d]
        BY <4>1, <4>3
      <4> QED BY <2>3, <2>4, <3>2, <4>2, <4>4 DEF NextPower
    <3> QED BY <3>1, <3>2
  <2> QED BY <2>2, <2>5 DEF m, d
<1>7. s[digits[1]] = p[h[1]]
  <2>1. \A d \in 1 .. 15 : s[d] = p[d]
    BY <1>1, SmallPowers
  <2>2. digits[1] \in 1 .. 15
    BY <1>3
  <2>3. s[digits[1]] = p[digits[1]]
    BY <2>1, <2>2
  <2>4. h[1] = digits[1]
    BY <1>4
  <2> QED BY <2>3, <2>4
<1>8. IsPrefixes(r, s, digits)
  <2> DEFINE f == [k \in 1 .. n |-> p[h[k]]]
  <2>1. ASSUME NEW k \in 1 .. n
        PROVE  p[h[k]] = IF k = 1 THEN s[digits[1]]
                         ELSE NextPower(f[k - 1], s, digits[k])
    <3>1. CASE k = 1
      BY <1>7, <3>1
    <3>2. CASE k # 1
      <4>1. f[k - 1] = p[h[k - 1]]
        <5>1. k - 1 \in 1 .. n
          BY <1>3, <3>2
        <5> QED BY <5>1
      <4> HIDE DEF f
      <4> QED BY <1>6, <3>2, <4>1
    <3> QED BY <3>1, <3>2
  <2>2. f = [k \in 1 .. n |->
               IF k = 1 THEN s[digits[1]] ELSE NextPower(f[k - 1], s, digits[k])]
    BY <2>1
  <2> HIDE DEF f
  <2>3. IsPrefixes(f, s, digits)
    BY <2>2 DEF IsPrefixes, NextPower, n
  <2> QED BY <2>3 DEF r
<1>9. r = [k \in 1 .. n |->
             IF k = 1 THEN s[digits[1]] ELSE NextPower(r[k - 1], s, digits[k])]
  BY <1>8 DEF IsPrefixes, NextPower, n
<1>10. \A k \in 1 .. n : r[k] = p[h[k]]
  <2> DEFINE H == {j \in Nat : j + 1 \in 1 .. n => r[j + 1] = p[h[j + 1]]}
  <2>1. 0 \in H
    <3>1. 1 \in 1 .. n => r[1] = s[digits[1]]
      BY <1>9
    <3> QED BY <1>7, <3>1
  <2>2. ASSUME NEW j \in H PROVE j + 1 \in H
    <3> SUFFICES ASSUME (j + 1) + 1 \in 1 .. n PROVE r[(j + 1) + 1] = p[h[(j + 1) + 1]]
      OBVIOUS
    <3> DEFINE k == (j + 1) + 1
    <3>1. k \in 1 .. n /\ k # 1 /\ k - 1 = j + 1 /\ j + 1 \in 1 .. n
      BY <1>3
    <3>2. r[k - 1] = p[h[k - 1]]
      BY <3>1
    <3> HIDE DEF k
    <3>3. r[k] = NextPower(r[k - 1], s, digits[k])
      BY <1>9, <3>1
    <3>4. r[k] = p[h[k]]
      BY <1>6, <3>1, <3>2, <3>3
    <3> QED BY <3>4 DEF k
  <2> HIDE DEF H
  <2>3. H = Nat
    BY <2>1, <2>2, Induction DEF H
  <2> SUFFICES ASSUME NEW k \in 1 .. n PROVE r[k] = p[h[k]]
    OBVIOUS
  <2>4. k - 1 \in Nat /\ (k - 1) + 1 = k
    BY <1>3
  <2> QED BY <2>3, <2>4 DEF H
<1>11. n \in 1 .. n
  BY <1>3
<1> QED BY <1>2, <1>10, <1>11 DEF n

-----------------------------------------------------------------------------
(* The chains: what their registers hold. *)

\* The powers of 2, by a name of their own: the provers round 2^44.
Two(n) == 2^n

\* Their laws.
LEMMA TwoLaws ==
  /\ Two(0) = 1
  /\ \A n \in Nat : Two(n) \in Nat \ {0} /\ Two(n + 1) = 2 * Two(n)
  /\ \A m, n \in Nat : Two(m + n) = Two(m) * Two(n)
BY PowerZero, PowerIsNat, PowerNext, PowerSum DEF Two

\* Before instruction k of chain c register n holds what instruction a stored there, or the argument, for a = 0.
Kept(c, a, k, n) ==
  /\ a \in 0 .. k - 1
  /\ IF a = 0 THEN n = "x" ELSE c[a][1] = n
  /\ \A i \in a + 1 .. k - 1 : c[i][1] # n

\* Instruction k, from the powers that instructions a and b stored, gives the power e[k].
GivesFrom(c, e, k, a, b) ==
  /\ a \in 0 .. k - 1 /\ b \in 0 .. k - 1
  /\ Kept(c, a, k, c[k][2])
  /\ IF c[k][4] = "none" THEN e[k] = e[a] * Two(c[k][3])
     ELSE Kept(c, b, k, c[k][4]) /\ e[k] = e[a] * Two(c[k][3]) + e[b]
Gives(c, e, k) == \E a, b : GivesFrom(c, e, k, a, b)

\* The exponent of what each instruction of chain c stores.
AreExponents(e, c) ==
  /\ Len(c) \in Nat \ {0}
  /\ e \in [0 .. Len(c) -> Nat \ {0}] /\ e[0] = 1
  /\ \A k \in 1 .. Len(c) : c[k][3] \in Nat /\ c[k][1] # "x" /\ Gives(c, e, k)

\* The value u, squared l times, gives with the product the power e[k].
Reaches(u, l, c, p, e, k) ==
  \E v \in Nat \ {0} :
    /\ u = p[v]
    /\ IF c[k][4] = "none" THEN e[k] = v * Two(l)
       ELSE \E b \in 0 .. k - 1 : Kept(c, b, k, c[k][4]) /\ e[k] = v * Two(l) + e[b]

Nearing(p, e) == Reaches(value, left, chain, p, e, at)
Registers(p, e) == \A a, n : Kept(chain, a, at, n) => reg[n] = p[e[a]]

\* The inductive invariant.
ChainInv(Elements) ==
  /\ chain \in Chains /\ reg["x"] \in Arguments /\ reg = [n \in Names(chain) |-> reg[n]]
  /\ left \in Nat /\ at \in Nat \ {0}
  /\ \A p, e : IsPowers(p, reg["x"], Elements) /\ AreExponents(e, chain) =>
       /\ at <= Len(chain) + 1
       /\ Registers(p, e)
       /\ at <= Len(chain) => Nearing(p, e)

\* Every chain has exponents.
AllReady == \A c \in Chains : \E e : AreExponents(e, c)

\* Squaring the value halves what is left.
LEMMA Halved ==
  ASSUME NEW l \in Nat, l > 0, NEW v \in Nat
  PROVE  v * Two(l) = (2 * v) * Two(l - 1) /\ Two(l) \in Nat /\ Two(l - 1) \in Nat
<1> DEFINE w == Two(l - 1)
<1>1. l - 1 \in Nat /\ (l - 1) + 1 = l
  OBVIOUS
<1>2. Two((l - 1) + 1) = 2 * Two(l - 1) /\ w \in Nat /\ Two(l) \in Nat
  BY <1>1, TwoLaws
<1>3. Two(l) = 2 * w
  BY <1>1, <1>2
<1> HIDE DEF w
<1>4. v * (2 * w) = (2 * v) * w
  BY <1>2
<1> QED BY <1>2, <1>3, <1>4 DEF w

\* What register a chain's instruction reads is one it has, and the chain starts with the argument.
LEMMA Loads ==
  ASSUME NEW Elements, NEW c, NEW p, NEW e, AreExponents(e, c),
         NEW k \in 1 .. Len(c), NEW r,
         \A a, n : Kept(c, a, k, n) => r[n] = p[e[a]],
         NEW u, u = r[c[k][2]], NEW l, l = c[k][3]
  PROVE  Reaches(u, l, c, p, e, k)
<1>1. Gives(c, e, k)
  BY DEF AreExponents
<1>2. PICK a, b : GivesFrom(c, e, k, a, b)
  BY <1>1 DEF Gives
<1>3. /\ a \in 0 .. k - 1 /\ b \in 0 .. k - 1
      /\ Kept(c, a, k, c[k][2])
      /\ IF c[k][4] = "none" THEN e[k] = e[a] * Two(c[k][3])
         ELSE Kept(c, b, k, c[k][4]) /\ e[k] = e[a] * Two(c[k][3]) + e[b]
  BY <1>2 DEF GivesFrom
<1>4. e[a] \in Nat \ {0}
  <2>1. a \in 0 .. Len(c)
    BY <1>3 DEF AreExponents
  <2> QED BY <2>1 DEF AreExponents
<1>5. r[c[k][2]] = p[e[a]]
  BY <1>3
<1> QED BY <1>3, <1>4, <1>5 DEF Reaches

-----------------------------------------------------------------------------
(* A chain keeps the invariant. *)

\* The chain starts with the argument in its register and as the value.
LEMMA ChainStarts ==
  ASSUME NEW Elements, PowerLaw(Elements), AllReady, ChainInit
  PROVE  ChainInv(Elements)
<1>1. PICK c \in Chains, elem \in Arguments : Start(c, elem)
  BY DEF ChainInit
<1>2. chain = c /\ at = 1 /\ left = c[1][3] /\ value = elem
      /\ reg = [n \in Names(c) |-> IF n = "x" THEN elem ELSE <<>>]
  BY <1>1 DEF Start
<1>3. reg["x"] = elem /\ reg = [n \in Names(c) |-> reg[n]] /\ "x" \in Names(c)
  <2>1. "x" \in Names(c)
    BY DEF Names
  <2> QED BY <1>2, <2>1
<1>4. PICK e0 : AreExponents(e0, c)
  BY DEF AllReady
<1>5. 1 \in 1 .. Len(c) /\ c[1][3] \in Nat
  <2>1. 1 \in 1 .. Len(c)
    BY <1>4 DEF AreExponents
  <2> QED BY <1>4, <2>1 DEF AreExponents
<1>6. ASSUME NEW p, NEW e, IsPowers(p, reg["x"], Elements), AreExponents(e, chain)
      PROVE  at <= Len(chain) + 1 /\ Registers(p, e) /\ (at <= Len(chain) => Nearing(p, e))
  <2>1. ASSUME NEW a, NEW n, Kept(c, a, 1, n) PROVE reg[n] = p[e[a]]
    <3>1. a = 0 /\ n = "x"
      BY <2>1 DEF Kept
    <3>2. e[0] = 1 /\ p[1] = elem
      BY <1>2, <1>3, <1>6 DEF AreExponents, IsPowers
    <3> QED BY <1>3, <3>1, <3>2
  <2>2. Registers(p, e)
    BY <1>2, <2>1 DEF Registers
  <2>3. at <= Len(chain) + 1
    BY <1>2, <1>5
  <2>4. Nearing(p, e)
    <3>2. Gives(c, e, 1)
      BY <1>2, <1>5, <1>6 DEF AreExponents
    <3>3. PICK a, b : GivesFrom(c, e, 1, a, b)
      BY <3>2 DEF Gives
    <3>4. a = 0
      BY <3>3 DEF GivesFrom
    <3>5. e[0] = 1 /\ p[1] = elem
      BY <1>2, <1>3, <1>6 DEF AreExponents, IsPowers
    <3>6. e[a] \in Nat \ {0} /\ value = p[e[a]]
      BY <1>2, <3>4, <3>5
    <3> QED BY <1>2, <3>3, <3>6 DEF Nearing, Reaches, GivesFrom
  <2> QED BY <2>2, <2>3, <2>4
<1> QED BY <1>2, <1>3, <1>5, <1>6 DEF ChainInv

\* A squaring.
LEMMA SquareKeeps ==
  ASSUME NEW Elements, PowerLaw(Elements), AllReady,
         ChainInv(Elements), Square
  PROVE  ChainInv(Elements)'
<1>1. value' = Squared(value) /\ left' = left - 1 /\ chain' = chain /\ at' = at /\ reg' = reg
      /\ at <= Len(chain) /\ left > 0
  BY DEF Square
<1>2. left \in Nat /\ left' \in Nat /\ reg["x"] \in Arguments
  BY <1>1 DEF ChainInv
<1>3. ASSUME NEW p, NEW e, IsPowers(p, reg["x"], Elements), AreExponents(e, chain)
      PROVE  at <= Len(chain) + 1 /\ Registers(p, e)' /\ Nearing(p, e)'
  <2>1. at <= Len(chain) + 1 /\ Registers(p, e) /\ Nearing(p, e)
    BY <1>1, <1>3 DEF ChainInv
  <2>2. Registers(p, e)'
    BY <1>1, <2>1 DEF Registers
  <2>3. PICK v \in Nat \ {0} :
          /\ value = p[v]
          /\ IF chain[at][4] = "none" THEN e[at] = v * Two(left)
             ELSE \E b \in 0 .. at - 1 : Kept(chain, b, at, chain[at][4]) /\ e[at] = v * Two(left) + e[b]
    BY <2>1, Zenon DEF Nearing, Reaches
  <2>4. v * Two(left) = (2 * v) * Two(left - 1)
    BY <1>1, <1>2, Halved
  <2>5. 1 \in Nat \ {0} /\ reg["x"] \in Elements
    BY <1>2 DEF PowerLaw
  <2>6. p[2 * v] = Squared(p[v])
    <3> DEFINE a == reg["x"]
    <3>1. a \in Elements /\ IsPowers(p, a, Elements)
      BY <1>3, <2>5
    <3> HIDE DEF a
    <3> QED BY <3>1, PowersAdd
  <2> DEFINE w == 2 * v
  <2>7. w \in Nat \ {0} /\ value' = p[w] /\ v * Two(left) = w * Two(left')
    BY <1>1, <2>3, <2>4, <2>6
  <2> HIDE DEF w
  <2>8. Nearing(p, e)'
    BY <1>1, <2>3, <2>7 DEF Nearing, Reaches
  <2> QED BY <2>1, <2>2, <2>8
<1>4. chain \in Chains /\ reg = [n \in Names(chain) |-> reg[n]] /\ at \in Nat \ {0}
  BY DEF ChainInv
<1> QED BY <1>1, <1>2, <1>3, <1>4 DEF ChainInv

\* A product, and the next load.
LEMMA StoreKeeps ==
  ASSUME NEW Elements, PowerLaw(Elements), AllReady,
         ChainInv(Elements), Store
  PROVE  ChainInv(Elements)'
<1> DEFINE i == chain[at]
           v == IF i[4] = "none" THEN value ELSE Product(value, reg[i[4]])
<1>1. /\ reg' = [reg EXCEPT ![i[1]] = v]
      /\ at' = at + 1 /\ chain' = chain /\ left = 0 /\ at <= Len(chain)
      /\ IF at = Len(chain) THEN left' = 0 /\ value' = v
         ELSE left' = chain[at + 1][3] /\ value' = reg'[chain[at + 1][2]]
  BY DEF Store
<1>2. /\ chain \in Chains /\ reg["x"] \in Arguments /\ reg = [n \in Names(chain) |-> reg[n]]
      /\ at \in Nat \ {0}
  BY DEF ChainInv
<1>3. PICK e0 : AreExponents(e0, chain)
  BY <1>2 DEF AllReady
<1>4. Len(chain) \in Nat /\ at \in 1 .. Len(chain) /\ i[1] # "x"
  BY <1>1, <1>2, <1>3 DEF AreExponents
<1> HIDE DEF v
<1>5. i[1] \in Names(chain) /\ "x" \in Names(chain)
  BY <1>4 DEF Names
<1>6. /\ \A n \in Names(chain) : reg'[n] = IF n = i[1] THEN v ELSE reg[n]
      /\ reg' = [n \in Names(chain) |-> reg'[n]]
  <2> HIDE DEF i
  <2>1. reg' = [n \in Names(chain) |-> IF n = i[1] THEN v ELSE reg[n]]
    BY <1>1, <1>2
  <2> QED BY <2>1
<1>7. reg'["x"] = reg["x"]
  BY <1>4, <1>5, <1>6
<1>8. ASSUME NEW p, NEW e, IsPowers(p, reg["x"], Elements), AreExponents(e, chain)
      PROVE  at' <= Len(chain) + 1 /\ Registers(p, e)' /\ (at' <= Len(chain) => Nearing(p, e)')
  <2>1. Registers(p, e) /\ Nearing(p, e)
    BY <1>1, <1>8 DEF ChainInv
  <2>2. PICK u \in Nat \ {0} :
          /\ value = p[u]
          /\ IF chain[at][4] = "none" THEN e[at] = u * Two(left)
             ELSE \E b \in 0 .. at - 1 : Kept(chain, b, at, chain[at][4]) /\ e[at] = u * Two(left) + e[b]
    BY <2>1, Zenon DEF Nearing, Reaches
  <2>3. u * Two(left) = u
    BY <1>1, TwoLaws
  <2>4. v = p[e[at]]
    <3>1. CASE i[4] = "none"
      BY <2>2, <2>3, <3>1 DEF v
    <3>2. CASE i[4] # "none"
      <4>1. PICK b \in 0 .. at - 1 : Kept(chain, b, at, i[4]) /\ e[at] = u * Two(left) + e[b]
        BY <2>2, <3>2
      <4>2. reg[i[4]] = p[e[b]]
        BY <2>1, <4>1 DEF Registers
      <4>3. e[b] \in Nat \ {0}
        <5>1. b \in 0 .. Len(chain)
          BY <1>2, <1>4, <4>1
        <5> QED BY <1>8, <5>1 DEF AreExponents
      <4> DEFINE exp == e[b]
                 elem == reg["x"]
      <4>4. elem \in Elements /\ IsPowers(p, elem, Elements)
        BY <1>2, <1>8 DEF PowerLaw
      <4>5. exp \in Nat \ {0} /\ e[at] = u + exp
        BY <2>3, <4>1, <4>3
      <4> HIDE DEF exp, elem
      <4>6. p[u + exp] = Product(p[u], p[exp])
        BY <4>4, <4>5, PowersAdd
      <4> QED BY <2>2, <3>2, <4>2, <4>5, <4>6 DEF v, exp
    <3> QED BY <3>1, <3>2
  <2>5. ASSUME NEW a, NEW n, Kept(chain, a, at + 1, n) PROVE reg'[n] = p[e[a]]
    <3>1. a \in 0 .. at /\ (at + 1) - 1 = at /\ \A j \in a + 1 .. at : chain[j][1] # n
      BY <1>2, <2>5 DEF Kept
    <3>2. n \in Names(chain)
      <4>1. CASE a = 0
        BY <1>5, <2>5, <4>1 DEF Kept
      <4>2. CASE a # 0
        <5>1. a \in 1 .. Len(chain)
          BY <1>2, <1>4, <3>1, <4>2
        <5>2. n = chain[a][1]
          BY <2>5, <4>2 DEF Kept
        <5> QED BY <5>1, <5>2 DEF Names
      <4> QED BY <4>1, <4>2
    <3>3. CASE a = at
      <4>1. n = i[1]
        BY <1>2, <2>5, <3>3 DEF Kept
      <4> QED BY <1>6, <2>4, <3>2, <3>3, <4>1
    <3>4. CASE a # at
      <4>1. a \in 0 .. at - 1 /\ at \in a + 1 .. at
        BY <1>2, <3>1, <3>4
      <4>2. n # i[1]
        BY <3>1, <4>1
      <4>3. Kept(chain, a, at, n)
        <5>1. \A j \in a + 1 .. at - 1 : chain[j][1] # n
          BY <1>2, <3>1
        <5>2. IF a = 0 THEN n = "x" ELSE chain[a][1] = n
          BY <2>5 DEF Kept
        <5> QED BY <4>1, <5>1, <5>2 DEF Kept
      <4>4. reg[n] = p[e[a]]
        BY <2>1, <4>3 DEF Registers
      <4> QED BY <1>6, <3>2, <4>2, <4>4
    <3> QED BY <3>3, <3>4
  <2>6. Registers(p, e)'
    BY <1>1, <2>5 DEF Registers
  <2>7. ASSUME at' <= Len(chain) PROVE Nearing(p, e)'
    <3> DEFINE k == at + 1
    <3>1. k \in 1 .. Len(chain) /\ at # Len(chain) /\ at' = k
      BY <1>1, <1>2, <1>4, <2>7
    <3> DEFINE r == reg'
    <3>2. \A a, n : Kept(chain, a, k, n) => r[n] = p[e[a]]
      BY <2>5
    <3> HIDE DEF k, r
    <3>3. value' = r[chain[k][2]] /\ left' = chain[k][3]
      BY <1>1, <3>1 DEF k, r
    <3>4. Reaches(value', left', chain, p, e, k)
      BY <1>8, <3>1, <3>3, <3>2, Loads
    <3> QED BY <1>1, <3>1, <3>4 DEF Nearing
  <2> QED BY <1>1, <1>4, <2>6, <2>7
<1>9. left' \in Nat
  <2>1. CASE at = Len(chain)
    BY <1>1, <2>1
  <2>2. CASE at # Len(chain)
    <3>1. at + 1 \in 1 .. Len(chain)
      BY <1>4, <2>2
    <3>2. chain[at + 1][3] \in Nat
      BY <1>3, <3>1 DEF AreExponents
    <3> QED BY <1>1, <2>2, <3>2
  <2> QED BY <2>1, <2>2
<1>10. at' \in Nat \ {0}
  BY <1>1, <1>2
<1> QED BY <1>1, <1>2, <1>6, <1>7, <1>8, <1>9, <1>10 DEF ChainInv

-----------------------------------------------------------------------------
(* The exponents of the three chains. *)

\* n ones in a row.
AllOnes(n) == Two(n) - 1

\* They are a positive number.
LEMMA OnesPositive ==
  ASSUME NEW a \in Nat \ {0}
  PROVE  AllOnes(a) \in Nat \ {0}
<1>1. a - 1 \in Nat /\ (a - 1) + 1 = a
  OBVIOUS
<1>2. Two((a - 1) + 1) = 2 * Two(a - 1) /\ Two(a - 1) \in Nat \ {0}
  BY <1>1, TwoLaws
<1> QED BY <1>1, <1>2 DEF AllOnes

\* Two blocks of ones join to one.
LEMMA OnesJoin ==
  ASSUME NEW a \in Nat \ {0}, NEW b \in Nat \ {0}, NEW n, n = a + b
  PROVE  AllOnes(a) * Two(b) + AllOnes(b) = AllOnes(n)
<1> DEFINE s == Two(a)
           t == Two(b)
<1>1. Two(n) = s * t
  BY TwoLaws
<1>2. s \in Nat \ {0} /\ t \in Nat \ {0}
  BY TwoLaws
<1>3. AllOnes(a) = s - 1 /\ AllOnes(b) = t - 1 /\ AllOnes(n) = s * t - 1
  BY <1>1 DEF AllOnes
<1> HIDE DEF s, t
<1>4. (s - 1) * t + (t - 1) = s * t - 1
  <2>1. (s - 1) * t = s * t - t /\ s * t \in Nat
    BY <1>2
  <2> QED BY <1>2, <2>1
<1>5. AllOnes(a) * Two(b) = (s - 1) * t
  BY <1>3 DEF t
<1> QED BY <1>3, <1>4, <1>5

\* The small powers of 2.
LEMMA ShortPowers ==
  /\ Two(0) = 1
  /\ Two(1) = 2
  /\ Two(2) = 4
  /\ Two(3) = 8
  /\ Two(4) = 16
  /\ Two(5) = 32
  /\ Two(6) = 64
  /\ Two(7) = 128
  /\ Two(8) = 256
  /\ Two(9) = 512
  /\ Two(10) = 1024
  /\ Two(11) = 2048
  /\ Two(12) = 4096
  /\ Two(13) = 8192
  /\ Two(14) = 16384
  /\ Two(15) = 32768
  /\ Two(16) = 65536
  /\ Two(17) = 131072
  /\ Two(18) = 262144
  /\ Two(19) = 524288
  /\ Two(20) = 1048576
  /\ Two(21) = 2097152
  /\ Two(22) = 4194304
  /\ Two(23) = 8388608
<1>0. \A n \in Nat : Two(n + 1) = 2 * Two(n)
  BY TwoLaws
<1>1. Two(0) = 1
  BY TwoLaws
<1>2. Two(0 + 1) = 2 * Two(0) /\ Two(1 + 1) = 2 * Two(1) /\ Two(2 + 1) = 2 * Two(2) /\ Two(3 + 1) = 2 * Two(3)
  BY <1>0
<1>3. Two(1) = 2 /\ Two(2) = 4 /\ Two(3) = 8 /\ Two(4) = 16
  BY <1>1, <1>2
<1>4. Two(4 + 1) = 2 * Two(4) /\ Two(5 + 1) = 2 * Two(5) /\ Two(6 + 1) = 2 * Two(6) /\ Two(7 + 1) = 2 * Two(7)
  BY <1>0
<1>5. Two(5) = 32 /\ Two(6) = 64 /\ Two(7) = 128 /\ Two(8) = 256
  BY <1>3, <1>4
<1>6. Two(8 + 1) = 2 * Two(8) /\ Two(9 + 1) = 2 * Two(9) /\ Two(10 + 1) = 2 * Two(10) /\ Two(11 + 1) = 2 * Two(11)
  BY <1>0
<1>7. Two(9) = 512 /\ Two(10) = 1024 /\ Two(11) = 2048 /\ Two(12) = 4096
  BY <1>5, <1>6
<1>8. Two(12 + 1) = 2 * Two(12) /\ Two(13 + 1) = 2 * Two(13) /\ Two(14 + 1) = 2 * Two(14) /\ Two(15 + 1) = 2 * Two(15)
  BY <1>0
<1>9. Two(13) = 8192 /\ Two(14) = 16384 /\ Two(15) = 32768 /\ Two(16) = 65536
  BY <1>7, <1>8
<1>10. Two(16 + 1) = 2 * Two(16) /\ Two(17 + 1) = 2 * Two(17) /\ Two(18 + 1) = 2 * Two(18) /\ Two(19 + 1) = 2 * Two(19)
  BY <1>0
<1>11. Two(17) = 131072 /\ Two(18) = 262144 /\ Two(19) = 524288 /\ Two(20) = 1048576
  BY <1>9, <1>10
<1>12. Two(20 + 1) = 2 * Two(20) /\ Two(21 + 1) = 2 * Two(21) /\ Two(22 + 1) = 2 * Two(22)
  BY <1>0
<1>13. Two(21) = 2097152 /\ Two(22) = 4194304 /\ Two(23) = 8388608
  BY <1>11, <1>12
<1> QED BY <1>1, <1>3, <1>5, <1>7, <1>9, <1>11, <1>13

\* The short blocks.
LEMMA ShortOnes ==
  /\ AllOnes(1) = 1
  /\ AllOnes(2) = 3
  /\ AllOnes(3) = 7
  /\ AllOnes(4) = 15
  /\ AllOnes(6) = 63
  /\ AllOnes(8) = 255
  /\ AllOnes(14) = 16383
  /\ AllOnes(22) = 4194303
BY ShortPowers DEF AllOnes

\* The instructions of InverseChain.
LEMMA InverseInstructions ==
  ASSUME NEW c, c = InverseChain
  PROVE  /\ Len(c) = 15
         /\ c[1][1] = "x2" /\ c[1][2] = "x" /\ c[1][3] = 1 /\ c[1][4] = "x"
         /\ c[2][1] = "x3" /\ c[2][2] = "x2" /\ c[2][3] = 1 /\ c[2][4] = "x"
         /\ c[3][1] = "x6" /\ c[3][2] = "x3" /\ c[3][3] = 3 /\ c[3][4] = "x3"
         /\ c[4][1] = "x9" /\ c[4][2] = "x6" /\ c[4][3] = 3 /\ c[4][4] = "x3"
         /\ c[5][1] = "x11" /\ c[5][2] = "x9" /\ c[5][3] = 2 /\ c[5][4] = "x2"
         /\ c[6][1] = "x22" /\ c[6][2] = "x11" /\ c[6][3] = 11 /\ c[6][4] = "x11"
         /\ c[7][1] = "x44" /\ c[7][2] = "x22" /\ c[7][3] = 22 /\ c[7][4] = "x22"
         /\ c[8][1] = "x88" /\ c[8][2] = "x44" /\ c[8][3] = 44 /\ c[8][4] = "x44"
         /\ c[9][1] = "x176" /\ c[9][2] = "x88" /\ c[9][3] = 88 /\ c[9][4] = "x88"
         /\ c[10][1] = "x220" /\ c[10][2] = "x176" /\ c[10][3] = 44 /\ c[10][4] = "x44"
         /\ c[11][1] = "x223" /\ c[11][2] = "x220" /\ c[11][3] = 3 /\ c[11][4] = "x3"
         /\ c[12][1] = "t" /\ c[12][2] = "x223" /\ c[12][3] = 23 /\ c[12][4] = "x22"
         /\ c[13][1] = "t" /\ c[13][2] = "t" /\ c[13][3] = 5 /\ c[13][4] = "x"
         /\ c[14][1] = "t" /\ c[14][2] = "t" /\ c[14][3] = 3 /\ c[14][4] = "x2"
         /\ c[15][1] = "r" /\ c[15][2] = "t" /\ c[15][3] = 2 /\ c[15][4] = "x"
<1>1. /\ c[1] = <<"x2", "x", 1, "x">>
      /\ c[2] = <<"x3", "x2", 1, "x">>
      /\ c[3] = <<"x6", "x3", 3, "x3">>
      /\ c[4] = <<"x9", "x6", 3, "x3">>
      /\ c[5] = <<"x11", "x9", 2, "x2">>
  BY DEF Ones, InverseChain
<1>2. /\ c[6] = <<"x22", "x11", 11, "x11">>
      /\ c[7] = <<"x44", "x22", 22, "x22">>
      /\ c[8] = <<"x88", "x44", 44, "x44">>
      /\ c[9] = <<"x176", "x88", 88, "x88">>
      /\ c[10] = <<"x220", "x176", 44, "x44">>
  BY DEF Ones, InverseChain
<1>3. /\ c[11] = <<"x223", "x220", 3, "x3">>
      /\ c[12] = <<"t", "x223", 23, "x22">>
      /\ c[13] = <<"t", "t", 5, "x">>
      /\ c[14] = <<"t", "t", 3, "x2">>
      /\ c[15] = <<"r", "t", 2, "x">>
  BY DEF Ones, InverseChain
<1>4. Len(c) = 15
  BY DEF Ones, InverseChain
<1> QED BY <1>1, <1>2, <1>3, <1>4

\* The exponents of what InverseChain stores, after that of the argument.
InverseExponents ==
  <<
    1, AllOnes(2), AllOnes(3), AllOnes(6), AllOnes(9), AllOnes(11), AllOnes(22), AllOnes(44), AllOnes(88),
    AllOnes(176), AllOnes(220), AllOnes(223), 8388608 * AllOnes(223) + 4194303,
    268435456 * AllOnes(223) + 134217697, 2147483648 * AllOnes(223) + 1073741579,
    8589934592 * AllOnes(223) + 4294966317 >>

\* They are the exponents: every instruction finds the powers it needs.
LEMMA InverseReady ==
  ASSUME NEW c, c = InverseChain,
         NEW e, e = [k \in 0 .. 15 |-> InverseExponents[k + 1]]
  PROVE  AreExponents(e, c)
<1>1. /\ Len(c) = 15
      /\ c[1][1] = "x2" /\ c[1][2] = "x" /\ c[1][3] = 1 /\ c[1][4] = "x"
      /\ c[2][1] = "x3" /\ c[2][2] = "x2" /\ c[2][3] = 1 /\ c[2][4] = "x"
      /\ c[3][1] = "x6" /\ c[3][2] = "x3" /\ c[3][3] = 3 /\ c[3][4] = "x3"
      /\ c[4][1] = "x9" /\ c[4][2] = "x6" /\ c[4][3] = 3 /\ c[4][4] = "x3"
      /\ c[5][1] = "x11" /\ c[5][2] = "x9" /\ c[5][3] = 2 /\ c[5][4] = "x2"
      /\ c[6][1] = "x22" /\ c[6][2] = "x11" /\ c[6][3] = 11 /\ c[6][4] = "x11"
      /\ c[7][1] = "x44" /\ c[7][2] = "x22" /\ c[7][3] = 22 /\ c[7][4] = "x22"
      /\ c[8][1] = "x88" /\ c[8][2] = "x44" /\ c[8][3] = 44 /\ c[8][4] = "x44"
      /\ c[9][1] = "x176" /\ c[9][2] = "x88" /\ c[9][3] = 88 /\ c[9][4] = "x88"
      /\ c[10][1] = "x220" /\ c[10][2] = "x176" /\ c[10][3] = 44 /\ c[10][4] = "x44"
      /\ c[11][1] = "x223" /\ c[11][2] = "x220" /\ c[11][3] = 3 /\ c[11][4] = "x3"
      /\ c[12][1] = "t" /\ c[12][2] = "x223" /\ c[12][3] = 23 /\ c[12][4] = "x22"
      /\ c[13][1] = "t" /\ c[13][2] = "t" /\ c[13][3] = 5 /\ c[13][4] = "x"
      /\ c[14][1] = "t" /\ c[14][2] = "t" /\ c[14][3] = 3 /\ c[14][4] = "x2"
      /\ c[15][1] = "r" /\ c[15][2] = "t" /\ c[15][3] = 2 /\ c[15][4] = "x"
  BY InverseInstructions
<1>2. /\ e[0] = 1
      /\ e[1] = AllOnes(2)
      /\ e[2] = AllOnes(3)
      /\ e[3] = AllOnes(6)
      /\ e[4] = AllOnes(9)
      /\ e[5] = AllOnes(11)
      /\ e[6] = AllOnes(22)
      /\ e[7] = AllOnes(44)
  BY DEF InverseExponents
<1>3. /\ e[8] = AllOnes(88)
      /\ e[9] = AllOnes(176)
      /\ e[10] = AllOnes(220)
      /\ e[11] = AllOnes(223)
      /\ e[12] = 8388608 * AllOnes(223) + 4194303
      /\ e[13] = 268435456 * AllOnes(223) + 134217697
      /\ e[14] = 2147483648 * AllOnes(223) + 1073741579
      /\ e[15] = 8589934592 * AllOnes(223) + 4294966317
  BY DEF InverseExponents
<1>4. AllOnes(2) \in Nat \ {0} /\ AllOnes(3) \in Nat \ {0} /\ AllOnes(6) \in Nat \ {0} /\ AllOnes(9) \in Nat \ {0} /\ AllOnes(11) \in Nat \ {0} /\ AllOnes(22) \in Nat \ {0} /\ AllOnes(44) \in Nat \ {0} /\ AllOnes(88) \in Nat \ {0} /\ AllOnes(176) \in Nat \ {0} /\ AllOnes(220) \in Nat \ {0} /\ AllOnes(223) \in Nat \ {0}
  BY OnesPositive
<1>5. /\ e[0] \in Nat \ {0}
      /\ e[1] \in Nat \ {0}
      /\ e[2] \in Nat \ {0}
      /\ e[3] \in Nat \ {0}
      /\ e[4] \in Nat \ {0}
      /\ e[5] \in Nat \ {0}
      /\ e[6] \in Nat \ {0}
      /\ e[7] \in Nat \ {0}
      /\ e[8] \in Nat \ {0}
      /\ e[9] \in Nat \ {0}
      /\ e[10] \in Nat \ {0}
      /\ e[11] \in Nat \ {0}
      /\ e[12] \in Nat \ {0}
      /\ e[13] \in Nat \ {0}
      /\ e[14] \in Nat \ {0}
      /\ e[15] \in Nat \ {0}
  BY <1>2, <1>3, <1>4
<1>6. e = [k \in 0 .. 15 |-> e[k]]
  OBVIOUS
<1>7. Gives(c, e, 1)
  <2>1. c[1][2] = "x" /\ c[1][3] = 1 /\ c[1][4] = "x"
    BY <1>1
  <2>2. Kept(c, 0, 1, "x")
    BY <1>1 DEF Kept
  <2>3. Kept(c, 0, 1, "x")
    BY <1>1 DEF Kept
  <2>4. AllOnes(1) * Two(1) + AllOnes(1) = AllOnes(2)
    BY OnesJoin
  <2>5. e[1] = e[0] * Two(1) + e[0]
    BY <2>4, <1>2, ShortOnes
  <2>6. GivesFrom(c, e, 1, 0, 0)
    BY <2>1, <2>2, <2>3, <2>5 DEF GivesFrom
  <2> QED BY <2>6 DEF Gives
<1>8. Gives(c, e, 2)
  <2>1. c[2][2] = "x2" /\ c[2][3] = 1 /\ c[2][4] = "x"
    BY <1>1
  <2>2. Kept(c, 1, 2, "x2")
    BY <1>1 DEF Kept
  <2>3. Kept(c, 0, 2, "x")
    BY <1>1 DEF Kept
  <2>4. AllOnes(2) * Two(1) + AllOnes(1) = AllOnes(3)
    BY OnesJoin
  <2>5. e[2] = e[1] * Two(1) + e[0]
    BY <2>4, <1>2, ShortOnes
  <2>6. GivesFrom(c, e, 2, 1, 0)
    BY <2>1, <2>2, <2>3, <2>5 DEF GivesFrom
  <2> QED BY <2>6 DEF Gives
<1>9. Gives(c, e, 3)
  <2>1. c[3][2] = "x3" /\ c[3][3] = 3 /\ c[3][4] = "x3"
    BY <1>1
  <2>2. Kept(c, 2, 3, "x3")
    BY <1>1 DEF Kept
  <2>3. Kept(c, 2, 3, "x3")
    BY <1>1 DEF Kept
  <2>4. AllOnes(3) * Two(3) + AllOnes(3) = AllOnes(6)
    BY OnesJoin
  <2>5. e[3] = e[2] * Two(3) + e[2]
    BY <2>4, <1>2
  <2>6. GivesFrom(c, e, 3, 2, 2)
    BY <2>1, <2>2, <2>3, <2>5 DEF GivesFrom
  <2> QED BY <2>6 DEF Gives
<1>10. Gives(c, e, 4)
  <2>1. c[4][2] = "x6" /\ c[4][3] = 3 /\ c[4][4] = "x3"
    BY <1>1
  <2>2. Kept(c, 3, 4, "x6")
    BY <1>1 DEF Kept
  <2>3. Kept(c, 2, 4, "x3")
    BY <1>1 DEF Kept
  <2>4. AllOnes(6) * Two(3) + AllOnes(3) = AllOnes(9)
    BY OnesJoin
  <2>5. e[4] = e[3] * Two(3) + e[2]
    BY <2>4, <1>2
  <2>6. GivesFrom(c, e, 4, 3, 2)
    BY <2>1, <2>2, <2>3, <2>5 DEF GivesFrom
  <2> QED BY <2>6 DEF Gives
<1>11. Gives(c, e, 5)
  <2>1. c[5][2] = "x9" /\ c[5][3] = 2 /\ c[5][4] = "x2"
    BY <1>1
  <2>2. Kept(c, 4, 5, "x9")
    BY <1>1 DEF Kept
  <2>3. Kept(c, 1, 5, "x2")
    BY <1>1 DEF Kept
  <2>4. AllOnes(9) * Two(2) + AllOnes(2) = AllOnes(11)
    BY OnesJoin
  <2>5. e[5] = e[4] * Two(2) + e[1]
    BY <2>4, <1>2
  <2>6. GivesFrom(c, e, 5, 4, 1)
    BY <2>1, <2>2, <2>3, <2>5 DEF GivesFrom
  <2> QED BY <2>6 DEF Gives
<1>12. Gives(c, e, 6)
  <2>1. c[6][2] = "x11" /\ c[6][3] = 11 /\ c[6][4] = "x11"
    BY <1>1
  <2>2. Kept(c, 5, 6, "x11")
    BY <1>1 DEF Kept
  <2>3. Kept(c, 5, 6, "x11")
    BY <1>1 DEF Kept
  <2>4. AllOnes(11) * Two(11) + AllOnes(11) = AllOnes(22)
    BY OnesJoin
  <2>5. e[6] = e[5] * Two(11) + e[5]
    BY <2>4, <1>2
  <2>6. GivesFrom(c, e, 6, 5, 5)
    BY <2>1, <2>2, <2>3, <2>5 DEF GivesFrom
  <2> QED BY <2>6 DEF Gives
<1>13. Gives(c, e, 7)
  <2>1. c[7][2] = "x22" /\ c[7][3] = 22 /\ c[7][4] = "x22"
    BY <1>1
  <2>2. Kept(c, 6, 7, "x22")
    BY <1>1 DEF Kept
  <2>3. Kept(c, 6, 7, "x22")
    BY <1>1 DEF Kept
  <2>4. AllOnes(22) * Two(22) + AllOnes(22) = AllOnes(44)
    BY OnesJoin
  <2>5. e[7] = e[6] * Two(22) + e[6]
    BY <2>4, <1>2
  <2>6. GivesFrom(c, e, 7, 6, 6)
    BY <2>1, <2>2, <2>3, <2>5 DEF GivesFrom
  <2> QED BY <2>6 DEF Gives
<1>14. Gives(c, e, 8)
  <2>1. c[8][2] = "x44" /\ c[8][3] = 44 /\ c[8][4] = "x44"
    BY <1>1
  <2>2. Kept(c, 7, 8, "x44")
    BY <1>1 DEF Kept
  <2>3. Kept(c, 7, 8, "x44")
    BY <1>1 DEF Kept
  <2>4. AllOnes(44) * Two(44) + AllOnes(44) = AllOnes(88)
    BY OnesJoin
  <2>5. e[8] = e[7] * Two(44) + e[7]
    BY <2>4, <1>2, <1>3
  <2>6. GivesFrom(c, e, 8, 7, 7)
    BY <2>1, <2>2, <2>3, <2>5 DEF GivesFrom
  <2> QED BY <2>6 DEF Gives
<1>15. Gives(c, e, 9)
  <2>1. c[9][2] = "x88" /\ c[9][3] = 88 /\ c[9][4] = "x88"
    BY <1>1
  <2>2. Kept(c, 8, 9, "x88")
    BY <1>1 DEF Kept
  <2>3. Kept(c, 8, 9, "x88")
    BY <1>1 DEF Kept
  <2>4. AllOnes(88) * Two(88) + AllOnes(88) = AllOnes(176)
    BY OnesJoin
  <2>5. e[9] = e[8] * Two(88) + e[8]
    BY <2>4, <1>3
  <2>6. GivesFrom(c, e, 9, 8, 8)
    BY <2>1, <2>2, <2>3, <2>5 DEF GivesFrom
  <2> QED BY <2>6 DEF Gives
<1>16. Gives(c, e, 10)
  <2>1. c[10][2] = "x176" /\ c[10][3] = 44 /\ c[10][4] = "x44"
    BY <1>1
  <2>2. Kept(c, 9, 10, "x176")
    BY <1>1 DEF Kept
  <2>3. Kept(c, 7, 10, "x44")
    BY <1>1 DEF Kept
  <2>4. AllOnes(176) * Two(44) + AllOnes(44) = AllOnes(220)
    BY OnesJoin
  <2>5. e[10] = e[9] * Two(44) + e[7]
    BY <2>4, <1>2, <1>3
  <2>6. GivesFrom(c, e, 10, 9, 7)
    BY <2>1, <2>2, <2>3, <2>5 DEF GivesFrom
  <2> QED BY <2>6 DEF Gives
<1>17. Gives(c, e, 11)
  <2>1. c[11][2] = "x220" /\ c[11][3] = 3 /\ c[11][4] = "x3"
    BY <1>1
  <2>2. Kept(c, 10, 11, "x220")
    BY <1>1 DEF Kept
  <2>3. Kept(c, 2, 11, "x3")
    BY <1>1 DEF Kept
  <2>4. AllOnes(220) * Two(3) + AllOnes(3) = AllOnes(223)
    BY OnesJoin
  <2>5. e[11] = e[10] * Two(3) + e[2]
    BY <2>4, <1>2, <1>3
  <2>6. GivesFrom(c, e, 11, 10, 2)
    BY <2>1, <2>2, <2>3, <2>5 DEF GivesFrom
  <2> QED BY <2>6 DEF Gives
<1>18. Gives(c, e, 12)
  <2>1. c[12][2] = "x223" /\ c[12][3] = 23 /\ c[12][4] = "x22"
    BY <1>1
  <2>2. Kept(c, 11, 12, "x223")
    BY <1>1 DEF Kept
  <2>3. Kept(c, 6, 12, "x22")
    BY <1>1 DEF Kept
  <2>4. Two(23) = 8388608
    BY ShortPowers
  <2>5. e[12] = e[11] * Two(23) + e[6]
    BY <2>4, <1>2, <1>3, <1>4, ShortOnes
  <2>6. GivesFrom(c, e, 12, 11, 6)
    BY <2>1, <2>2, <2>3, <2>5 DEF GivesFrom
  <2> QED BY <2>6 DEF Gives
<1>19. Gives(c, e, 13)
  <2>1. c[13][2] = "t" /\ c[13][3] = 5 /\ c[13][4] = "x"
    BY <1>1
  <2>2. Kept(c, 12, 13, "t")
    BY <1>1 DEF Kept
  <2>3. Kept(c, 0, 13, "x")
    BY <1>1 DEF Kept
  <2>4. Two(5) = 32
    BY ShortPowers
  <2>5. e[13] = e[12] * Two(5) + e[0]
    BY <2>4, <1>2, <1>3, <1>4
  <2>6. GivesFrom(c, e, 13, 12, 0)
    BY <2>1, <2>2, <2>3, <2>5 DEF GivesFrom
  <2> QED BY <2>6 DEF Gives
<1>20. Gives(c, e, 14)
  <2>1. c[14][2] = "t" /\ c[14][3] = 3 /\ c[14][4] = "x2"
    BY <1>1
  <2>2. Kept(c, 13, 14, "t")
    BY <1>1 DEF Kept
  <2>3. Kept(c, 1, 14, "x2")
    BY <1>1 DEF Kept
  <2>4. Two(3) = 8
    BY ShortPowers
  <2>5. e[14] = e[13] * Two(3) + e[1]
    BY <2>4, <1>2, <1>3, <1>4, ShortOnes
  <2>6. GivesFrom(c, e, 14, 13, 1)
    BY <2>1, <2>2, <2>3, <2>5 DEF GivesFrom
  <2> QED BY <2>6 DEF Gives
<1>21. Gives(c, e, 15)
  <2>1. c[15][2] = "t" /\ c[15][3] = 2 /\ c[15][4] = "x"
    BY <1>1
  <2>2. Kept(c, 14, 15, "t")
    BY <1>1 DEF Kept
  <2>3. Kept(c, 0, 15, "x")
    BY <1>1 DEF Kept
  <2>4. Two(2) = 4
    BY ShortPowers
  <2>5. e[15] = e[14] * Two(2) + e[0]
    BY <2>4, <1>2, <1>3, <1>4
  <2>6. GivesFrom(c, e, 15, 14, 0)
    BY <2>1, <2>2, <2>3, <2>5 DEF GivesFrom
  <2> QED BY <2>6 DEF Gives
<1>22. \A k \in 1 .. 15 : Gives(c, e, k)
  BY <1>7, <1>8, <1>9, <1>10, <1>11, <1>12, <1>13, <1>14, <1>15, <1>16, <1>17, <1>18, <1>19, <1>20, <1>21
<1>23. \A k \in 1 .. 15 : c[k][3] \in Nat /\ c[k][1] # "x"
  BY <1>1
<1>24. e \in [0 .. 15 -> Nat \ {0}]
  <2>1. \A k \in 0 .. 15 : e[k] \in Nat \ {0}
    BY <1>5
  <2> QED BY <1>6, <2>1
<1>25. Len(c) = 15 /\ e[0] = 1
  BY <1>1, <1>2
<1>26. \A k \in 1 .. Len(c) : c[k][3] \in Nat /\ c[k][1] # "x" /\ Gives(c, e, k)
  BY <1>22, <1>23, <1>25
<1>27. Len(c) \in Nat \ {0} /\ e \in [0 .. Len(c) -> Nat \ {0}] /\ e[0] = 1
  BY <1>24, <1>25
<1> QED BY <1>26, <1>27, Zenon DEF AreExponents

\* The instructions of SqrtChain.
LEMMA SqrtInstructions ==
  ASSUME NEW c, c = SqrtChain
  PROVE  /\ Len(c) = 15
         /\ c[1][1] = "x2" /\ c[1][2] = "x" /\ c[1][3] = 1 /\ c[1][4] = "x"
         /\ c[2][1] = "x3" /\ c[2][2] = "x2" /\ c[2][3] = 1 /\ c[2][4] = "x"
         /\ c[3][1] = "x6" /\ c[3][2] = "x3" /\ c[3][3] = 3 /\ c[3][4] = "x3"
         /\ c[4][1] = "x9" /\ c[4][2] = "x6" /\ c[4][3] = 3 /\ c[4][4] = "x3"
         /\ c[5][1] = "x11" /\ c[5][2] = "x9" /\ c[5][3] = 2 /\ c[5][4] = "x2"
         /\ c[6][1] = "x22" /\ c[6][2] = "x11" /\ c[6][3] = 11 /\ c[6][4] = "x11"
         /\ c[7][1] = "x44" /\ c[7][2] = "x22" /\ c[7][3] = 22 /\ c[7][4] = "x22"
         /\ c[8][1] = "x88" /\ c[8][2] = "x44" /\ c[8][3] = 44 /\ c[8][4] = "x44"
         /\ c[9][1] = "x176" /\ c[9][2] = "x88" /\ c[9][3] = 88 /\ c[9][4] = "x88"
         /\ c[10][1] = "x220" /\ c[10][2] = "x176" /\ c[10][3] = 44 /\ c[10][4] = "x44"
         /\ c[11][1] = "x223" /\ c[11][2] = "x220" /\ c[11][3] = 3 /\ c[11][4] = "x3"
         /\ c[12][1] = "t" /\ c[12][2] = "x223" /\ c[12][3] = 23 /\ c[12][4] = "x22"
         /\ c[13][1] = "t" /\ c[13][2] = "t" /\ c[13][3] = 6 /\ c[13][4] = "x2"
         /\ c[14][1] = "r" /\ c[14][2] = "t" /\ c[14][3] = 2 /\ c[14][4] = "none"
         /\ c[15][1] = "check" /\ c[15][2] = "r" /\ c[15][3] = 1 /\ c[15][4] = "none"
<1>1. /\ c[1] = <<"x2", "x", 1, "x">>
      /\ c[2] = <<"x3", "x2", 1, "x">>
      /\ c[3] = <<"x6", "x3", 3, "x3">>
      /\ c[4] = <<"x9", "x6", 3, "x3">>
      /\ c[5] = <<"x11", "x9", 2, "x2">>
  BY DEF Ones, SqrtChain
<1>2. /\ c[6] = <<"x22", "x11", 11, "x11">>
      /\ c[7] = <<"x44", "x22", 22, "x22">>
      /\ c[8] = <<"x88", "x44", 44, "x44">>
      /\ c[9] = <<"x176", "x88", 88, "x88">>
      /\ c[10] = <<"x220", "x176", 44, "x44">>
  BY DEF Ones, SqrtChain
<1>3. /\ c[11] = <<"x223", "x220", 3, "x3">>
      /\ c[12] = <<"t", "x223", 23, "x22">>
      /\ c[13] = <<"t", "t", 6, "x2">>
      /\ c[14] = <<"r", "t", 2, "none">>
      /\ c[15] = <<"check", "r", 1, "none">>
  BY DEF Ones, SqrtChain
<1>4. Len(c) = 15
  BY DEF Ones, SqrtChain
<1> QED BY <1>1, <1>2, <1>3, <1>4

\* The exponents of what SqrtChain stores, after that of the argument.
SqrtExponents ==
  <<
    1, AllOnes(2), AllOnes(3), AllOnes(6), AllOnes(9), AllOnes(11), AllOnes(22), AllOnes(44), AllOnes(88),
    AllOnes(176), AllOnes(220), AllOnes(223), 8388608 * AllOnes(223) + 4194303,
    536870912 * AllOnes(223) + 268435395, 2147483648 * AllOnes(223) + 1073741580,
    4294967296 * AllOnes(223) + 2147483160 >>

\* They are the exponents: every instruction finds the powers it needs.
LEMMA SqrtReady ==
  ASSUME NEW c, c = SqrtChain,
         NEW e, e = [k \in 0 .. 15 |-> SqrtExponents[k + 1]]
  PROVE  AreExponents(e, c)
<1>1. /\ Len(c) = 15
      /\ c[1][1] = "x2" /\ c[1][2] = "x" /\ c[1][3] = 1 /\ c[1][4] = "x"
      /\ c[2][1] = "x3" /\ c[2][2] = "x2" /\ c[2][3] = 1 /\ c[2][4] = "x"
      /\ c[3][1] = "x6" /\ c[3][2] = "x3" /\ c[3][3] = 3 /\ c[3][4] = "x3"
      /\ c[4][1] = "x9" /\ c[4][2] = "x6" /\ c[4][3] = 3 /\ c[4][4] = "x3"
      /\ c[5][1] = "x11" /\ c[5][2] = "x9" /\ c[5][3] = 2 /\ c[5][4] = "x2"
      /\ c[6][1] = "x22" /\ c[6][2] = "x11" /\ c[6][3] = 11 /\ c[6][4] = "x11"
      /\ c[7][1] = "x44" /\ c[7][2] = "x22" /\ c[7][3] = 22 /\ c[7][4] = "x22"
      /\ c[8][1] = "x88" /\ c[8][2] = "x44" /\ c[8][3] = 44 /\ c[8][4] = "x44"
      /\ c[9][1] = "x176" /\ c[9][2] = "x88" /\ c[9][3] = 88 /\ c[9][4] = "x88"
      /\ c[10][1] = "x220" /\ c[10][2] = "x176" /\ c[10][3] = 44 /\ c[10][4] = "x44"
      /\ c[11][1] = "x223" /\ c[11][2] = "x220" /\ c[11][3] = 3 /\ c[11][4] = "x3"
      /\ c[12][1] = "t" /\ c[12][2] = "x223" /\ c[12][3] = 23 /\ c[12][4] = "x22"
      /\ c[13][1] = "t" /\ c[13][2] = "t" /\ c[13][3] = 6 /\ c[13][4] = "x2"
      /\ c[14][1] = "r" /\ c[14][2] = "t" /\ c[14][3] = 2 /\ c[14][4] = "none"
      /\ c[15][1] = "check" /\ c[15][2] = "r" /\ c[15][3] = 1 /\ c[15][4] = "none"
  BY SqrtInstructions
<1>2. /\ e[0] = 1
      /\ e[1] = AllOnes(2)
      /\ e[2] = AllOnes(3)
      /\ e[3] = AllOnes(6)
      /\ e[4] = AllOnes(9)
      /\ e[5] = AllOnes(11)
      /\ e[6] = AllOnes(22)
      /\ e[7] = AllOnes(44)
  BY DEF SqrtExponents
<1>3. /\ e[8] = AllOnes(88)
      /\ e[9] = AllOnes(176)
      /\ e[10] = AllOnes(220)
      /\ e[11] = AllOnes(223)
      /\ e[12] = 8388608 * AllOnes(223) + 4194303
      /\ e[13] = 536870912 * AllOnes(223) + 268435395
      /\ e[14] = 2147483648 * AllOnes(223) + 1073741580
      /\ e[15] = 4294967296 * AllOnes(223) + 2147483160
  BY DEF SqrtExponents
<1>4. AllOnes(2) \in Nat \ {0} /\ AllOnes(3) \in Nat \ {0} /\ AllOnes(6) \in Nat \ {0} /\ AllOnes(9) \in Nat \ {0} /\ AllOnes(11) \in Nat \ {0} /\ AllOnes(22) \in Nat \ {0} /\ AllOnes(44) \in Nat \ {0} /\ AllOnes(88) \in Nat \ {0} /\ AllOnes(176) \in Nat \ {0} /\ AllOnes(220) \in Nat \ {0} /\ AllOnes(223) \in Nat \ {0}
  BY OnesPositive
<1>5. /\ e[0] \in Nat \ {0}
      /\ e[1] \in Nat \ {0}
      /\ e[2] \in Nat \ {0}
      /\ e[3] \in Nat \ {0}
      /\ e[4] \in Nat \ {0}
      /\ e[5] \in Nat \ {0}
      /\ e[6] \in Nat \ {0}
      /\ e[7] \in Nat \ {0}
      /\ e[8] \in Nat \ {0}
      /\ e[9] \in Nat \ {0}
      /\ e[10] \in Nat \ {0}
      /\ e[11] \in Nat \ {0}
      /\ e[12] \in Nat \ {0}
      /\ e[13] \in Nat \ {0}
      /\ e[14] \in Nat \ {0}
      /\ e[15] \in Nat \ {0}
  BY <1>2, <1>3, <1>4
<1>6. e = [k \in 0 .. 15 |-> e[k]]
  OBVIOUS
<1>7. Gives(c, e, 1)
  <2>1. c[1][2] = "x" /\ c[1][3] = 1 /\ c[1][4] = "x"
    BY <1>1
  <2>2. Kept(c, 0, 1, "x")
    BY <1>1 DEF Kept
  <2>3. Kept(c, 0, 1, "x")
    BY <1>1 DEF Kept
  <2>4. AllOnes(1) * Two(1) + AllOnes(1) = AllOnes(2)
    BY OnesJoin
  <2>5. e[1] = e[0] * Two(1) + e[0]
    BY <2>4, <1>2, ShortOnes
  <2>6. GivesFrom(c, e, 1, 0, 0)
    BY <2>1, <2>2, <2>3, <2>5 DEF GivesFrom
  <2> QED BY <2>6 DEF Gives
<1>8. Gives(c, e, 2)
  <2>1. c[2][2] = "x2" /\ c[2][3] = 1 /\ c[2][4] = "x"
    BY <1>1
  <2>2. Kept(c, 1, 2, "x2")
    BY <1>1 DEF Kept
  <2>3. Kept(c, 0, 2, "x")
    BY <1>1 DEF Kept
  <2>4. AllOnes(2) * Two(1) + AllOnes(1) = AllOnes(3)
    BY OnesJoin
  <2>5. e[2] = e[1] * Two(1) + e[0]
    BY <2>4, <1>2, ShortOnes
  <2>6. GivesFrom(c, e, 2, 1, 0)
    BY <2>1, <2>2, <2>3, <2>5 DEF GivesFrom
  <2> QED BY <2>6 DEF Gives
<1>9. Gives(c, e, 3)
  <2>1. c[3][2] = "x3" /\ c[3][3] = 3 /\ c[3][4] = "x3"
    BY <1>1
  <2>2. Kept(c, 2, 3, "x3")
    BY <1>1 DEF Kept
  <2>3. Kept(c, 2, 3, "x3")
    BY <1>1 DEF Kept
  <2>4. AllOnes(3) * Two(3) + AllOnes(3) = AllOnes(6)
    BY OnesJoin
  <2>5. e[3] = e[2] * Two(3) + e[2]
    BY <2>4, <1>2
  <2>6. GivesFrom(c, e, 3, 2, 2)
    BY <2>1, <2>2, <2>3, <2>5 DEF GivesFrom
  <2> QED BY <2>6 DEF Gives
<1>10. Gives(c, e, 4)
  <2>1. c[4][2] = "x6" /\ c[4][3] = 3 /\ c[4][4] = "x3"
    BY <1>1
  <2>2. Kept(c, 3, 4, "x6")
    BY <1>1 DEF Kept
  <2>3. Kept(c, 2, 4, "x3")
    BY <1>1 DEF Kept
  <2>4. AllOnes(6) * Two(3) + AllOnes(3) = AllOnes(9)
    BY OnesJoin
  <2>5. e[4] = e[3] * Two(3) + e[2]
    BY <2>4, <1>2
  <2>6. GivesFrom(c, e, 4, 3, 2)
    BY <2>1, <2>2, <2>3, <2>5 DEF GivesFrom
  <2> QED BY <2>6 DEF Gives
<1>11. Gives(c, e, 5)
  <2>1. c[5][2] = "x9" /\ c[5][3] = 2 /\ c[5][4] = "x2"
    BY <1>1
  <2>2. Kept(c, 4, 5, "x9")
    BY <1>1 DEF Kept
  <2>3. Kept(c, 1, 5, "x2")
    BY <1>1 DEF Kept
  <2>4. AllOnes(9) * Two(2) + AllOnes(2) = AllOnes(11)
    BY OnesJoin
  <2>5. e[5] = e[4] * Two(2) + e[1]
    BY <2>4, <1>2
  <2>6. GivesFrom(c, e, 5, 4, 1)
    BY <2>1, <2>2, <2>3, <2>5 DEF GivesFrom
  <2> QED BY <2>6 DEF Gives
<1>12. Gives(c, e, 6)
  <2>1. c[6][2] = "x11" /\ c[6][3] = 11 /\ c[6][4] = "x11"
    BY <1>1
  <2>2. Kept(c, 5, 6, "x11")
    BY <1>1 DEF Kept
  <2>3. Kept(c, 5, 6, "x11")
    BY <1>1 DEF Kept
  <2>4. AllOnes(11) * Two(11) + AllOnes(11) = AllOnes(22)
    BY OnesJoin
  <2>5. e[6] = e[5] * Two(11) + e[5]
    BY <2>4, <1>2
  <2>6. GivesFrom(c, e, 6, 5, 5)
    BY <2>1, <2>2, <2>3, <2>5 DEF GivesFrom
  <2> QED BY <2>6 DEF Gives
<1>13. Gives(c, e, 7)
  <2>1. c[7][2] = "x22" /\ c[7][3] = 22 /\ c[7][4] = "x22"
    BY <1>1
  <2>2. Kept(c, 6, 7, "x22")
    BY <1>1 DEF Kept
  <2>3. Kept(c, 6, 7, "x22")
    BY <1>1 DEF Kept
  <2>4. AllOnes(22) * Two(22) + AllOnes(22) = AllOnes(44)
    BY OnesJoin
  <2>5. e[7] = e[6] * Two(22) + e[6]
    BY <2>4, <1>2
  <2>6. GivesFrom(c, e, 7, 6, 6)
    BY <2>1, <2>2, <2>3, <2>5 DEF GivesFrom
  <2> QED BY <2>6 DEF Gives
<1>14. Gives(c, e, 8)
  <2>1. c[8][2] = "x44" /\ c[8][3] = 44 /\ c[8][4] = "x44"
    BY <1>1
  <2>2. Kept(c, 7, 8, "x44")
    BY <1>1 DEF Kept
  <2>3. Kept(c, 7, 8, "x44")
    BY <1>1 DEF Kept
  <2>4. AllOnes(44) * Two(44) + AllOnes(44) = AllOnes(88)
    BY OnesJoin
  <2>5. e[8] = e[7] * Two(44) + e[7]
    BY <2>4, <1>2, <1>3
  <2>6. GivesFrom(c, e, 8, 7, 7)
    BY <2>1, <2>2, <2>3, <2>5 DEF GivesFrom
  <2> QED BY <2>6 DEF Gives
<1>15. Gives(c, e, 9)
  <2>1. c[9][2] = "x88" /\ c[9][3] = 88 /\ c[9][4] = "x88"
    BY <1>1
  <2>2. Kept(c, 8, 9, "x88")
    BY <1>1 DEF Kept
  <2>3. Kept(c, 8, 9, "x88")
    BY <1>1 DEF Kept
  <2>4. AllOnes(88) * Two(88) + AllOnes(88) = AllOnes(176)
    BY OnesJoin
  <2>5. e[9] = e[8] * Two(88) + e[8]
    BY <2>4, <1>3
  <2>6. GivesFrom(c, e, 9, 8, 8)
    BY <2>1, <2>2, <2>3, <2>5 DEF GivesFrom
  <2> QED BY <2>6 DEF Gives
<1>16. Gives(c, e, 10)
  <2>1. c[10][2] = "x176" /\ c[10][3] = 44 /\ c[10][4] = "x44"
    BY <1>1
  <2>2. Kept(c, 9, 10, "x176")
    BY <1>1 DEF Kept
  <2>3. Kept(c, 7, 10, "x44")
    BY <1>1 DEF Kept
  <2>4. AllOnes(176) * Two(44) + AllOnes(44) = AllOnes(220)
    BY OnesJoin
  <2>5. e[10] = e[9] * Two(44) + e[7]
    BY <2>4, <1>2, <1>3
  <2>6. GivesFrom(c, e, 10, 9, 7)
    BY <2>1, <2>2, <2>3, <2>5 DEF GivesFrom
  <2> QED BY <2>6 DEF Gives
<1>17. Gives(c, e, 11)
  <2>1. c[11][2] = "x220" /\ c[11][3] = 3 /\ c[11][4] = "x3"
    BY <1>1
  <2>2. Kept(c, 10, 11, "x220")
    BY <1>1 DEF Kept
  <2>3. Kept(c, 2, 11, "x3")
    BY <1>1 DEF Kept
  <2>4. AllOnes(220) * Two(3) + AllOnes(3) = AllOnes(223)
    BY OnesJoin
  <2>5. e[11] = e[10] * Two(3) + e[2]
    BY <2>4, <1>2, <1>3
  <2>6. GivesFrom(c, e, 11, 10, 2)
    BY <2>1, <2>2, <2>3, <2>5 DEF GivesFrom
  <2> QED BY <2>6 DEF Gives
<1>18. Gives(c, e, 12)
  <2>1. c[12][2] = "x223" /\ c[12][3] = 23 /\ c[12][4] = "x22"
    BY <1>1
  <2>2. Kept(c, 11, 12, "x223")
    BY <1>1 DEF Kept
  <2>3. Kept(c, 6, 12, "x22")
    BY <1>1 DEF Kept
  <2>4. Two(23) = 8388608
    BY ShortPowers
  <2>5. e[12] = e[11] * Two(23) + e[6]
    BY <2>4, <1>2, <1>3, <1>4, ShortOnes
  <2>6. GivesFrom(c, e, 12, 11, 6)
    BY <2>1, <2>2, <2>3, <2>5 DEF GivesFrom
  <2> QED BY <2>6 DEF Gives
<1>19. Gives(c, e, 13)
  <2>1. c[13][2] = "t" /\ c[13][3] = 6 /\ c[13][4] = "x2"
    BY <1>1
  <2>2. Kept(c, 12, 13, "t")
    BY <1>1 DEF Kept
  <2>3. Kept(c, 1, 13, "x2")
    BY <1>1 DEF Kept
  <2>4. Two(6) = 64
    BY ShortPowers
  <2>5. e[13] = e[12] * Two(6) + e[1]
    BY <2>4, <1>2, <1>3, <1>4, ShortOnes
  <2>6. GivesFrom(c, e, 13, 12, 1)
    BY <2>1, <2>2, <2>3, <2>5 DEF GivesFrom
  <2> QED BY <2>6 DEF Gives
<1>20. Gives(c, e, 14)
  <2>1. c[14][2] = "t" /\ c[14][3] = 2 /\ c[14][4] = "none"
    BY <1>1
  <2>2. Kept(c, 13, 14, "t")
    BY <1>1 DEF Kept
  <2>4. Two(2) = 4
    BY ShortPowers
  <2>5. e[14] = e[13] * Two(2)
    BY <2>4, <1>3, <1>4
  <2>6. GivesFrom(c, e, 14, 13, 0)
    BY <2>1, <2>2, <2>5 DEF GivesFrom
  <2> QED BY <2>6 DEF Gives
<1>21. Gives(c, e, 15)
  <2>1. c[15][2] = "r" /\ c[15][3] = 1 /\ c[15][4] = "none"
    BY <1>1
  <2>2. Kept(c, 14, 15, "r")
    BY <1>1 DEF Kept
  <2>4. Two(1) = 2
    BY ShortPowers
  <2>5. e[15] = e[14] * Two(1)
    BY <2>4, <1>3, <1>4
  <2>6. GivesFrom(c, e, 15, 14, 0)
    BY <2>1, <2>2, <2>5 DEF GivesFrom
  <2> QED BY <2>6 DEF Gives
<1>22. \A k \in 1 .. 15 : Gives(c, e, k)
  BY <1>7, <1>8, <1>9, <1>10, <1>11, <1>12, <1>13, <1>14, <1>15, <1>16, <1>17, <1>18, <1>19, <1>20, <1>21
<1>23. \A k \in 1 .. 15 : c[k][3] \in Nat /\ c[k][1] # "x"
  BY <1>1
<1>24. e \in [0 .. 15 -> Nat \ {0}]
  <2>1. \A k \in 0 .. 15 : e[k] \in Nat \ {0}
    BY <1>5
  <2> QED BY <1>6, <2>1
<1>25. Len(c) = 15 /\ e[0] = 1
  BY <1>1, <1>2
<1>26. \A k \in 1 .. Len(c) : c[k][3] \in Nat /\ c[k][1] # "x" /\ Gives(c, e, k)
  BY <1>22, <1>23, <1>25
<1>27. Len(c) \in Nat \ {0} /\ e \in [0 .. Len(c) -> Nat \ {0}] /\ e[0] = 1
  BY <1>24, <1>25
<1> QED BY <1>26, <1>27, Zenon DEF AreExponents

\* The instructions of ScalarInverseChain.
LEMMA ScalarInverseInstructions ==
  ASSUME NEW c, c = ScalarInverseChain
  PROVE  /\ Len(c) = 38
         /\ c[1][1] = "u2" /\ c[1][2] = "x" /\ c[1][3] = 1 /\ c[1][4] = "none"
         /\ c[2][1] = "x2" /\ c[2][2] = "u2" /\ c[2][3] = 0 /\ c[2][4] = "x"
         /\ c[3][1] = "u5" /\ c[3][2] = "u2" /\ c[3][3] = 0 /\ c[3][4] = "x2"
         /\ c[4][1] = "x3" /\ c[4][2] = "u5" /\ c[4][3] = 0 /\ c[4][4] = "u2"
         /\ c[5][1] = "u9" /\ c[5][2] = "x3" /\ c[5][3] = 0 /\ c[5][4] = "u2"
         /\ c[6][1] = "u11" /\ c[6][2] = "u9" /\ c[6][3] = 0 /\ c[6][4] = "u2"
         /\ c[7][1] = "u13" /\ c[7][2] = "u11" /\ c[7][3] = 0 /\ c[7][4] = "u2"
         /\ c[8][1] = "x6" /\ c[8][2] = "u13" /\ c[8][3] = 2 /\ c[8][4] = "u11"
         /\ c[9][1] = "x8" /\ c[9][2] = "x6" /\ c[9][3] = 2 /\ c[9][4] = "x2"
         /\ c[10][1] = "x14" /\ c[10][2] = "x8" /\ c[10][3] = 6 /\ c[10][4] = "x6"
         /\ c[11][1] = "x28" /\ c[11][2] = "x14" /\ c[11][3] = 14 /\ c[11][4] = "x14"
         /\ c[12][1] = "x56" /\ c[12][2] = "x28" /\ c[12][3] = 28 /\ c[12][4] = "x28"
         /\ c[13][1] = "x112" /\ c[13][2] = "x56" /\ c[13][3] = 56 /\ c[13][4] = "x56"
         /\ c[14][1] = "r" /\ c[14][2] = "x112" /\ c[14][3] = 14 /\ c[14][4] = "x14"
         /\ c[15][1] = "r" /\ c[15][2] = "r" /\ c[15][3] = 3 /\ c[15][4] = "u5"
         /\ c[16][1] = "r" /\ c[16][2] = "r" /\ c[16][3] = 4 /\ c[16][4] = "x3"
         /\ c[17][1] = "r" /\ c[17][2] = "r" /\ c[17][3] = 4 /\ c[17][4] = "u5"
         /\ c[18][1] = "r" /\ c[18][2] = "r" /\ c[18][3] = 5 /\ c[18][4] = "u11"
         /\ c[19][1] = "r" /\ c[19][2] = "r" /\ c[19][3] = 4 /\ c[19][4] = "u11"
         /\ c[20][1] = "r" /\ c[20][2] = "r" /\ c[20][3] = 4 /\ c[20][4] = "x3"
         /\ c[21][1] = "r" /\ c[21][2] = "r" /\ c[21][3] = 5 /\ c[21][4] = "x3"
         /\ c[22][1] = "r" /\ c[22][2] = "r" /\ c[22][3] = 6 /\ c[22][4] = "u13"
         /\ c[23][1] = "r" /\ c[23][2] = "r" /\ c[23][3] = 4 /\ c[23][4] = "u5"
         /\ c[24][1] = "r" /\ c[24][2] = "r" /\ c[24][3] = 3 /\ c[24][4] = "x3"
         /\ c[25][1] = "r" /\ c[25][2] = "r" /\ c[25][3] = 5 /\ c[25][4] = "u9"
         /\ c[26][1] = "r" /\ c[26][2] = "r" /\ c[26][3] = 6 /\ c[26][4] = "u5"
         /\ c[27][1] = "r" /\ c[27][2] = "r" /\ c[27][3] = 10 /\ c[27][4] = "x3"
         /\ c[28][1] = "r" /\ c[28][2] = "r" /\ c[28][3] = 4 /\ c[28][4] = "x3"
         /\ c[29][1] = "r" /\ c[29][2] = "r" /\ c[29][3] = 9 /\ c[29][4] = "x8"
         /\ c[30][1] = "r" /\ c[30][2] = "r" /\ c[30][3] = 5 /\ c[30][4] = "u9"
         /\ c[31][1] = "r" /\ c[31][2] = "r" /\ c[31][3] = 6 /\ c[31][4] = "u11"
         /\ c[32][1] = "r" /\ c[32][2] = "r" /\ c[32][3] = 4 /\ c[32][4] = "u13"
         /\ c[33][1] = "r" /\ c[33][2] = "r" /\ c[33][3] = 5 /\ c[33][4] = "x2"
         /\ c[34][1] = "r" /\ c[34][2] = "r" /\ c[34][3] = 6 /\ c[34][4] = "u13"
         /\ c[35][1] = "r" /\ c[35][2] = "r" /\ c[35][3] = 10 /\ c[35][4] = "u13"
         /\ c[36][1] = "r" /\ c[36][2] = "r" /\ c[36][3] = 4 /\ c[36][4] = "u9"
         /\ c[37][1] = "r" /\ c[37][2] = "r" /\ c[37][3] = 6 /\ c[37][4] = "x"
         /\ c[38][1] = "r" /\ c[38][2] = "r" /\ c[38][3] = 8 /\ c[38][4] = "x6"
<1>1. Len(Windows) = 24
  BY DEF Windows
<1>2. Len(c) = 38 /\ \A k \in 1 .. 24 : c[14 + k] = <<"r", "r", Windows[k][1], Windows[k][2]>>
  BY <1>1, SMTT(20) DEF ScalarInverseChain
<1>3. /\ c[1] = <<"u2", "x", 1, "none">>
      /\ c[2] = <<"x2", "u2", 0, "x">>
      /\ c[3] = <<"u5", "u2", 0, "x2">>
      /\ c[4] = <<"x3", "u5", 0, "u2">>
      /\ c[5] = <<"u9", "x3", 0, "u2">>
  BY <1>1 DEF ScalarInverseChain
<1>4. /\ c[6] = <<"u11", "u9", 0, "u2">>
      /\ c[7] = <<"u13", "u11", 0, "u2">>
      /\ c[8] = <<"x6", "u13", 2, "u11">>
      /\ c[9] = <<"x8", "x6", 2, "x2">>
      /\ c[10] = <<"x14", "x8", 6, "x6">>
  BY <1>1 DEF ScalarInverseChain
<1>5. /\ c[11] = <<"x28", "x14", 14, "x14">>
      /\ c[12] = <<"x56", "x28", 28, "x28">>
      /\ c[13] = <<"x112", "x56", 56, "x56">>
      /\ c[14] = <<"r", "x112", 14, "x14">>
  BY <1>1 DEF ScalarInverseChain
<1>6. /\ Windows[1] = <<3, "u5">>
      /\ Windows[2] = <<4, "x3">>
      /\ Windows[3] = <<4, "u5">>
      /\ Windows[4] = <<5, "u11">>
      /\ Windows[5] = <<4, "u11">>
      /\ Windows[6] = <<4, "x3">>
  BY DEF Windows
<1>7. /\ c[14 + 1] = <<"r", "r", Windows[1][1], Windows[1][2]>>
      /\ c[14 + 2] = <<"r", "r", Windows[2][1], Windows[2][2]>>
      /\ c[14 + 3] = <<"r", "r", Windows[3][1], Windows[3][2]>>
      /\ c[14 + 4] = <<"r", "r", Windows[4][1], Windows[4][2]>>
      /\ c[14 + 5] = <<"r", "r", Windows[5][1], Windows[5][2]>>
      /\ c[14 + 6] = <<"r", "r", Windows[6][1], Windows[6][2]>>
  BY <1>2
<1>8. /\ c[15] = <<"r", "r", 3, "u5">>
      /\ c[16] = <<"r", "r", 4, "x3">>
      /\ c[17] = <<"r", "r", 4, "u5">>
      /\ c[18] = <<"r", "r", 5, "u11">>
      /\ c[19] = <<"r", "r", 4, "u11">>
      /\ c[20] = <<"r", "r", 4, "x3">>
  BY <1>6, <1>7
<1>9. /\ Windows[7] = <<5, "x3">>
      /\ Windows[8] = <<6, "u13">>
      /\ Windows[9] = <<4, "u5">>
      /\ Windows[10] = <<3, "x3">>
      /\ Windows[11] = <<5, "u9">>
      /\ Windows[12] = <<6, "u5">>
  BY DEF Windows
<1>10. /\ c[14 + 7] = <<"r", "r", Windows[7][1], Windows[7][2]>>
      /\ c[14 + 8] = <<"r", "r", Windows[8][1], Windows[8][2]>>
      /\ c[14 + 9] = <<"r", "r", Windows[9][1], Windows[9][2]>>
      /\ c[14 + 10] = <<"r", "r", Windows[10][1], Windows[10][2]>>
      /\ c[14 + 11] = <<"r", "r", Windows[11][1], Windows[11][2]>>
      /\ c[14 + 12] = <<"r", "r", Windows[12][1], Windows[12][2]>>
  BY <1>2
<1>11. /\ c[21] = <<"r", "r", 5, "x3">>
      /\ c[22] = <<"r", "r", 6, "u13">>
      /\ c[23] = <<"r", "r", 4, "u5">>
      /\ c[24] = <<"r", "r", 3, "x3">>
      /\ c[25] = <<"r", "r", 5, "u9">>
      /\ c[26] = <<"r", "r", 6, "u5">>
  BY <1>9, <1>10
<1>12. /\ Windows[13] = <<10, "x3">>
      /\ Windows[14] = <<4, "x3">>
      /\ Windows[15] = <<9, "x8">>
      /\ Windows[16] = <<5, "u9">>
      /\ Windows[17] = <<6, "u11">>
      /\ Windows[18] = <<4, "u13">>
  BY DEF Windows
<1>13. /\ c[14 + 13] = <<"r", "r", Windows[13][1], Windows[13][2]>>
      /\ c[14 + 14] = <<"r", "r", Windows[14][1], Windows[14][2]>>
      /\ c[14 + 15] = <<"r", "r", Windows[15][1], Windows[15][2]>>
      /\ c[14 + 16] = <<"r", "r", Windows[16][1], Windows[16][2]>>
      /\ c[14 + 17] = <<"r", "r", Windows[17][1], Windows[17][2]>>
      /\ c[14 + 18] = <<"r", "r", Windows[18][1], Windows[18][2]>>
  BY <1>2
<1>14. /\ c[27] = <<"r", "r", 10, "x3">>
      /\ c[28] = <<"r", "r", 4, "x3">>
      /\ c[29] = <<"r", "r", 9, "x8">>
      /\ c[30] = <<"r", "r", 5, "u9">>
      /\ c[31] = <<"r", "r", 6, "u11">>
      /\ c[32] = <<"r", "r", 4, "u13">>
  BY <1>12, <1>13
<1>15. /\ Windows[19] = <<5, "x2">>
      /\ Windows[20] = <<6, "u13">>
      /\ Windows[21] = <<10, "u13">>
      /\ Windows[22] = <<4, "u9">>
      /\ Windows[23] = <<6, "x">>
      /\ Windows[24] = <<8, "x6">>
  BY DEF Windows
<1>16. /\ c[14 + 19] = <<"r", "r", Windows[19][1], Windows[19][2]>>
      /\ c[14 + 20] = <<"r", "r", Windows[20][1], Windows[20][2]>>
      /\ c[14 + 21] = <<"r", "r", Windows[21][1], Windows[21][2]>>
      /\ c[14 + 22] = <<"r", "r", Windows[22][1], Windows[22][2]>>
      /\ c[14 + 23] = <<"r", "r", Windows[23][1], Windows[23][2]>>
      /\ c[14 + 24] = <<"r", "r", Windows[24][1], Windows[24][2]>>
  BY <1>2
<1>17. /\ c[33] = <<"r", "r", 5, "x2">>
      /\ c[34] = <<"r", "r", 6, "u13">>
      /\ c[35] = <<"r", "r", 10, "u13">>
      /\ c[36] = <<"r", "r", 4, "u9">>
      /\ c[37] = <<"r", "r", 6, "x">>
      /\ c[38] = <<"r", "r", 8, "x6">>
  BY <1>15, <1>16
<1>18. Len(c) = 38
  BY <1>2
<1> QED BY <1>3, <1>4, <1>5, <1>8, <1>11, <1>14, <1>17, <1>18

\* The first 168 bits of its exponent.
Prefix168 == 4398046511104 * AllOnes(126) + 3000820885167
\* The first 207 bits of its exponent.
Prefix207 == 549755813888 * Prefix168 + 155962957801
\* The first 248 bits of its exponent.
Prefix248 == 2199023255552 * Prefix207 + 406089381441

\* The exponents of what ScalarInverseChain stores, after that of the argument.
ScalarInverseExponents ==
  <<
    1, 2, 3, 5, 7, 9, 11, 13, 63, AllOnes(8), AllOnes(14), AllOnes(28), AllOnes(56), AllOnes(112),
    AllOnes(126), 8 * AllOnes(126) + 5, 128 * AllOnes(126) + 87, 2048 * AllOnes(126) + 1397,
    65536 * AllOnes(126) + 44715, 1048576 * AllOnes(126) + 715451, 16777216 * AllOnes(126) + 11447223,
    536870912 * AllOnes(126) + 366311143, 34359738368 * AllOnes(126) + 23443913165,
    549755813888 * AllOnes(126) + 375102610645, Prefix168, 32 * Prefix168 + 9, 2048 * Prefix168 + 581,
    2097152 * Prefix168 + 594951, 33554432 * Prefix168 + 9519223, 17179869184 * Prefix168 + 4873842431,
    Prefix207, 64 * Prefix207 + 11, 1024 * Prefix207 + 189, 32768 * Prefix207 + 6051,
    2097152 * Prefix207 + 387277, 2147483648 * Prefix207 + 396571661, 34359738368 * Prefix207 + 6345146585,
    Prefix248, 256 * Prefix248 + 63 >>

\* They are the exponents: every instruction finds the powers it needs.
LEMMA ScalarInverseReady ==
  ASSUME NEW c, c = ScalarInverseChain,
         NEW e, e = [k \in 0 .. 38 |-> ScalarInverseExponents[k + 1]]
  PROVE  AreExponents(e, c)
<1>1. /\ Len(c) = 38
      /\ c[1][1] = "u2" /\ c[1][2] = "x" /\ c[1][3] = 1 /\ c[1][4] = "none"
      /\ c[2][1] = "x2" /\ c[2][2] = "u2" /\ c[2][3] = 0 /\ c[2][4] = "x"
      /\ c[3][1] = "u5" /\ c[3][2] = "u2" /\ c[3][3] = 0 /\ c[3][4] = "x2"
      /\ c[4][1] = "x3" /\ c[4][2] = "u5" /\ c[4][3] = 0 /\ c[4][4] = "u2"
      /\ c[5][1] = "u9" /\ c[5][2] = "x3" /\ c[5][3] = 0 /\ c[5][4] = "u2"
      /\ c[6][1] = "u11" /\ c[6][2] = "u9" /\ c[6][3] = 0 /\ c[6][4] = "u2"
      /\ c[7][1] = "u13" /\ c[7][2] = "u11" /\ c[7][3] = 0 /\ c[7][4] = "u2"
      /\ c[8][1] = "x6" /\ c[8][2] = "u13" /\ c[8][3] = 2 /\ c[8][4] = "u11"
      /\ c[9][1] = "x8" /\ c[9][2] = "x6" /\ c[9][3] = 2 /\ c[9][4] = "x2"
      /\ c[10][1] = "x14" /\ c[10][2] = "x8" /\ c[10][3] = 6 /\ c[10][4] = "x6"
      /\ c[11][1] = "x28" /\ c[11][2] = "x14" /\ c[11][3] = 14 /\ c[11][4] = "x14"
      /\ c[12][1] = "x56" /\ c[12][2] = "x28" /\ c[12][3] = 28 /\ c[12][4] = "x28"
      /\ c[13][1] = "x112" /\ c[13][2] = "x56" /\ c[13][3] = 56 /\ c[13][4] = "x56"
      /\ c[14][1] = "r" /\ c[14][2] = "x112" /\ c[14][3] = 14 /\ c[14][4] = "x14"
      /\ c[15][1] = "r" /\ c[15][2] = "r" /\ c[15][3] = 3 /\ c[15][4] = "u5"
      /\ c[16][1] = "r" /\ c[16][2] = "r" /\ c[16][3] = 4 /\ c[16][4] = "x3"
      /\ c[17][1] = "r" /\ c[17][2] = "r" /\ c[17][3] = 4 /\ c[17][4] = "u5"
      /\ c[18][1] = "r" /\ c[18][2] = "r" /\ c[18][3] = 5 /\ c[18][4] = "u11"
      /\ c[19][1] = "r" /\ c[19][2] = "r" /\ c[19][3] = 4 /\ c[19][4] = "u11"
      /\ c[20][1] = "r" /\ c[20][2] = "r" /\ c[20][3] = 4 /\ c[20][4] = "x3"
      /\ c[21][1] = "r" /\ c[21][2] = "r" /\ c[21][3] = 5 /\ c[21][4] = "x3"
      /\ c[22][1] = "r" /\ c[22][2] = "r" /\ c[22][3] = 6 /\ c[22][4] = "u13"
      /\ c[23][1] = "r" /\ c[23][2] = "r" /\ c[23][3] = 4 /\ c[23][4] = "u5"
      /\ c[24][1] = "r" /\ c[24][2] = "r" /\ c[24][3] = 3 /\ c[24][4] = "x3"
      /\ c[25][1] = "r" /\ c[25][2] = "r" /\ c[25][3] = 5 /\ c[25][4] = "u9"
      /\ c[26][1] = "r" /\ c[26][2] = "r" /\ c[26][3] = 6 /\ c[26][4] = "u5"
      /\ c[27][1] = "r" /\ c[27][2] = "r" /\ c[27][3] = 10 /\ c[27][4] = "x3"
      /\ c[28][1] = "r" /\ c[28][2] = "r" /\ c[28][3] = 4 /\ c[28][4] = "x3"
      /\ c[29][1] = "r" /\ c[29][2] = "r" /\ c[29][3] = 9 /\ c[29][4] = "x8"
      /\ c[30][1] = "r" /\ c[30][2] = "r" /\ c[30][3] = 5 /\ c[30][4] = "u9"
      /\ c[31][1] = "r" /\ c[31][2] = "r" /\ c[31][3] = 6 /\ c[31][4] = "u11"
      /\ c[32][1] = "r" /\ c[32][2] = "r" /\ c[32][3] = 4 /\ c[32][4] = "u13"
      /\ c[33][1] = "r" /\ c[33][2] = "r" /\ c[33][3] = 5 /\ c[33][4] = "x2"
      /\ c[34][1] = "r" /\ c[34][2] = "r" /\ c[34][3] = 6 /\ c[34][4] = "u13"
      /\ c[35][1] = "r" /\ c[35][2] = "r" /\ c[35][3] = 10 /\ c[35][4] = "u13"
      /\ c[36][1] = "r" /\ c[36][2] = "r" /\ c[36][3] = 4 /\ c[36][4] = "u9"
      /\ c[37][1] = "r" /\ c[37][2] = "r" /\ c[37][3] = 6 /\ c[37][4] = "x"
      /\ c[38][1] = "r" /\ c[38][2] = "r" /\ c[38][3] = 8 /\ c[38][4] = "x6"
  BY ScalarInverseInstructions
<1>2. /\ e[0] = 1
      /\ e[1] = 2
      /\ e[2] = 3
      /\ e[3] = 5
      /\ e[4] = 7
      /\ e[5] = 9
      /\ e[6] = 11
      /\ e[7] = 13
  BY DEF ScalarInverseExponents
<1>3. /\ e[8] = 63
      /\ e[9] = AllOnes(8)
      /\ e[10] = AllOnes(14)
      /\ e[11] = AllOnes(28)
      /\ e[12] = AllOnes(56)
      /\ e[13] = AllOnes(112)
      /\ e[14] = AllOnes(126)
      /\ e[15] = 8 * AllOnes(126) + 5
  BY DEF ScalarInverseExponents
<1>4. /\ e[16] = 128 * AllOnes(126) + 87
      /\ e[17] = 2048 * AllOnes(126) + 1397
      /\ e[18] = 65536 * AllOnes(126) + 44715
      /\ e[19] = 1048576 * AllOnes(126) + 715451
      /\ e[20] = 16777216 * AllOnes(126) + 11447223
      /\ e[21] = 536870912 * AllOnes(126) + 366311143
      /\ e[22] = 34359738368 * AllOnes(126) + 23443913165
      /\ e[23] = 549755813888 * AllOnes(126) + 375102610645
  BY DEF ScalarInverseExponents
<1>5. /\ e[24] = Prefix168
      /\ e[25] = 32 * Prefix168 + 9
      /\ e[26] = 2048 * Prefix168 + 581
      /\ e[27] = 2097152 * Prefix168 + 594951
      /\ e[28] = 33554432 * Prefix168 + 9519223
      /\ e[29] = 17179869184 * Prefix168 + 4873842431
      /\ e[30] = Prefix207
      /\ e[31] = 64 * Prefix207 + 11
  BY DEF ScalarInverseExponents
<1>6. /\ e[32] = 1024 * Prefix207 + 189
      /\ e[33] = 32768 * Prefix207 + 6051
      /\ e[34] = 2097152 * Prefix207 + 387277
      /\ e[35] = 2147483648 * Prefix207 + 396571661
      /\ e[36] = 34359738368 * Prefix207 + 6345146585
      /\ e[37] = Prefix248
      /\ e[38] = 256 * Prefix248 + 63
  BY DEF ScalarInverseExponents
<1>7. AllOnes(8) \in Nat \ {0} /\ AllOnes(14) \in Nat \ {0} /\ AllOnes(28) \in Nat \ {0} /\ AllOnes(56) \in Nat \ {0} /\ AllOnes(112) \in Nat \ {0} /\ AllOnes(126) \in Nat \ {0}
  BY OnesPositive
<1>8. Prefix168 \in Nat \ {0} /\ Prefix207 \in Nat \ {0} /\ Prefix248 \in Nat \ {0}
  BY <1>7 DEF Prefix168, Prefix207, Prefix248
<1>9. /\ e[0] \in Nat \ {0}
      /\ e[1] \in Nat \ {0}
      /\ e[2] \in Nat \ {0}
      /\ e[3] \in Nat \ {0}
      /\ e[4] \in Nat \ {0}
      /\ e[5] \in Nat \ {0}
      /\ e[6] \in Nat \ {0}
      /\ e[7] \in Nat \ {0}
      /\ e[8] \in Nat \ {0}
      /\ e[9] \in Nat \ {0}
      /\ e[10] \in Nat \ {0}
      /\ e[11] \in Nat \ {0}
      /\ e[12] \in Nat \ {0}
      /\ e[13] \in Nat \ {0}
      /\ e[14] \in Nat \ {0}
      /\ e[15] \in Nat \ {0}
      /\ e[16] \in Nat \ {0}
      /\ e[17] \in Nat \ {0}
      /\ e[18] \in Nat \ {0}
      /\ e[19] \in Nat \ {0}
      /\ e[20] \in Nat \ {0}
      /\ e[21] \in Nat \ {0}
      /\ e[22] \in Nat \ {0}
      /\ e[23] \in Nat \ {0}
      /\ e[24] \in Nat \ {0}
      /\ e[25] \in Nat \ {0}
      /\ e[26] \in Nat \ {0}
      /\ e[27] \in Nat \ {0}
      /\ e[28] \in Nat \ {0}
      /\ e[29] \in Nat \ {0}
      /\ e[30] \in Nat \ {0}
      /\ e[31] \in Nat \ {0}
      /\ e[32] \in Nat \ {0}
      /\ e[33] \in Nat \ {0}
      /\ e[34] \in Nat \ {0}
      /\ e[35] \in Nat \ {0}
      /\ e[36] \in Nat \ {0}
      /\ e[37] \in Nat \ {0}
      /\ e[38] \in Nat \ {0}
  BY <1>2, <1>3, <1>4, <1>5, <1>6, <1>7, <1>8
<1>10. e = [k \in 0 .. 38 |-> e[k]]
  OBVIOUS
<1>11. Gives(c, e, 1)
  <2>1. c[1][2] = "x" /\ c[1][3] = 1 /\ c[1][4] = "none"
    BY <1>1
  <2>2. Kept(c, 0, 1, "x")
    BY <1>1 DEF Kept
  <2>4. Two(1) = 2
    BY ShortPowers
  <2>5. e[1] = e[0] * Two(1)
    BY <2>4, <1>2, <1>7, <1>8
  <2>6. GivesFrom(c, e, 1, 0, 0)
    BY <2>1, <2>2, <2>5 DEF GivesFrom
  <2> QED BY <2>6 DEF Gives
<1>12. Gives(c, e, 2)
  <2>1. c[2][2] = "u2" /\ c[2][3] = 0 /\ c[2][4] = "x"
    BY <1>1
  <2>2. Kept(c, 1, 2, "u2")
    BY <1>1 DEF Kept
  <2>3. Kept(c, 0, 2, "x")
    BY <1>1 DEF Kept
  <2>4. Two(0) = 1
    BY ShortPowers
  <2>5. e[2] = e[1] * Two(0) + e[0]
    BY <2>4, <1>2, <1>7, <1>8
  <2>6. GivesFrom(c, e, 2, 1, 0)
    BY <2>1, <2>2, <2>3, <2>5 DEF GivesFrom
  <2> QED BY <2>6 DEF Gives
<1>13. Gives(c, e, 3)
  <2>1. c[3][2] = "u2" /\ c[3][3] = 0 /\ c[3][4] = "x2"
    BY <1>1
  <2>2. Kept(c, 1, 3, "u2")
    BY <1>1 DEF Kept
  <2>3. Kept(c, 2, 3, "x2")
    BY <1>1 DEF Kept
  <2>4. Two(0) = 1
    BY ShortPowers
  <2>5. e[3] = e[1] * Two(0) + e[2]
    BY <2>4, <1>2, <1>7, <1>8
  <2>6. GivesFrom(c, e, 3, 1, 2)
    BY <2>1, <2>2, <2>3, <2>5 DEF GivesFrom
  <2> QED BY <2>6 DEF Gives
<1>14. Gives(c, e, 4)
  <2>1. c[4][2] = "u5" /\ c[4][3] = 0 /\ c[4][4] = "u2"
    BY <1>1
  <2>2. Kept(c, 3, 4, "u5")
    BY <1>1 DEF Kept
  <2>3. Kept(c, 1, 4, "u2")
    BY <1>1 DEF Kept
  <2>4. Two(0) = 1
    BY ShortPowers
  <2>5. e[4] = e[3] * Two(0) + e[1]
    BY <2>4, <1>2, <1>7, <1>8
  <2>6. GivesFrom(c, e, 4, 3, 1)
    BY <2>1, <2>2, <2>3, <2>5 DEF GivesFrom
  <2> QED BY <2>6 DEF Gives
<1>15. Gives(c, e, 5)
  <2>1. c[5][2] = "x3" /\ c[5][3] = 0 /\ c[5][4] = "u2"
    BY <1>1
  <2>2. Kept(c, 4, 5, "x3")
    BY <1>1 DEF Kept
  <2>3. Kept(c, 1, 5, "u2")
    BY <1>1 DEF Kept
  <2>4. Two(0) = 1
    BY ShortPowers
  <2>5. e[5] = e[4] * Two(0) + e[1]
    BY <2>4, <1>2, <1>7, <1>8
  <2>6. GivesFrom(c, e, 5, 4, 1)
    BY <2>1, <2>2, <2>3, <2>5 DEF GivesFrom
  <2> QED BY <2>6 DEF Gives
<1>16. Gives(c, e, 6)
  <2>1. c[6][2] = "u9" /\ c[6][3] = 0 /\ c[6][4] = "u2"
    BY <1>1
  <2>2. Kept(c, 5, 6, "u9")
    BY <1>1 DEF Kept
  <2>3. Kept(c, 1, 6, "u2")
    BY <1>1 DEF Kept
  <2>4. Two(0) = 1
    BY ShortPowers
  <2>5. e[6] = e[5] * Two(0) + e[1]
    BY <2>4, <1>2, <1>7, <1>8
  <2>6. GivesFrom(c, e, 6, 5, 1)
    BY <2>1, <2>2, <2>3, <2>5 DEF GivesFrom
  <2> QED BY <2>6 DEF Gives
<1>17. Gives(c, e, 7)
  <2>1. c[7][2] = "u11" /\ c[7][3] = 0 /\ c[7][4] = "u2"
    BY <1>1
  <2>2. Kept(c, 6, 7, "u11")
    BY <1>1 DEF Kept
  <2>3. Kept(c, 1, 7, "u2")
    BY <1>1 DEF Kept
  <2>4. Two(0) = 1
    BY ShortPowers
  <2>5. e[7] = e[6] * Two(0) + e[1]
    BY <2>4, <1>2, <1>7, <1>8
  <2>6. GivesFrom(c, e, 7, 6, 1)
    BY <2>1, <2>2, <2>3, <2>5 DEF GivesFrom
  <2> QED BY <2>6 DEF Gives
<1>18. Gives(c, e, 8)
  <2>1. c[8][2] = "u13" /\ c[8][3] = 2 /\ c[8][4] = "u11"
    BY <1>1
  <2>2. Kept(c, 7, 8, "u13")
    BY <1>1 DEF Kept
  <2>3. Kept(c, 6, 8, "u11")
    BY <1>1 DEF Kept
  <2>4. Two(2) = 4
    BY ShortPowers
  <2>5. e[8] = e[7] * Two(2) + e[6]
    BY <2>4, <1>2, <1>3, <1>7, <1>8
  <2>6. GivesFrom(c, e, 8, 7, 6)
    BY <2>1, <2>2, <2>3, <2>5 DEF GivesFrom
  <2> QED BY <2>6 DEF Gives
<1>19. Gives(c, e, 9)
  <2>1. c[9][2] = "x6" /\ c[9][3] = 2 /\ c[9][4] = "x2"
    BY <1>1
  <2>2. Kept(c, 8, 9, "x6")
    BY <1>1 DEF Kept
  <2>3. Kept(c, 2, 9, "x2")
    BY <1>1 DEF Kept
  <2>4. AllOnes(6) * Two(2) + AllOnes(2) = AllOnes(8)
    BY OnesJoin
  <2>5. e[9] = e[8] * Two(2) + e[2]
    BY <2>4, <1>2, <1>3, ShortOnes
  <2>6. GivesFrom(c, e, 9, 8, 2)
    BY <2>1, <2>2, <2>3, <2>5 DEF GivesFrom
  <2> QED BY <2>6 DEF Gives
<1>20. Gives(c, e, 10)
  <2>1. c[10][2] = "x8" /\ c[10][3] = 6 /\ c[10][4] = "x6"
    BY <1>1
  <2>2. Kept(c, 9, 10, "x8")
    BY <1>1 DEF Kept
  <2>3. Kept(c, 8, 10, "x6")
    BY <1>1 DEF Kept
  <2>4. AllOnes(8) * Two(6) + AllOnes(6) = AllOnes(14)
    BY OnesJoin
  <2>5. e[10] = e[9] * Two(6) + e[8]
    BY <2>4, <1>3, ShortOnes
  <2>6. GivesFrom(c, e, 10, 9, 8)
    BY <2>1, <2>2, <2>3, <2>5 DEF GivesFrom
  <2> QED BY <2>6 DEF Gives
<1>21. Gives(c, e, 11)
  <2>1. c[11][2] = "x14" /\ c[11][3] = 14 /\ c[11][4] = "x14"
    BY <1>1
  <2>2. Kept(c, 10, 11, "x14")
    BY <1>1 DEF Kept
  <2>3. Kept(c, 10, 11, "x14")
    BY <1>1 DEF Kept
  <2>4. AllOnes(14) * Two(14) + AllOnes(14) = AllOnes(28)
    BY OnesJoin
  <2>5. e[11] = e[10] * Two(14) + e[10]
    BY <2>4, <1>3
  <2>6. GivesFrom(c, e, 11, 10, 10)
    BY <2>1, <2>2, <2>3, <2>5 DEF GivesFrom
  <2> QED BY <2>6 DEF Gives
<1>22. Gives(c, e, 12)
  <2>1. c[12][2] = "x28" /\ c[12][3] = 28 /\ c[12][4] = "x28"
    BY <1>1
  <2>2. Kept(c, 11, 12, "x28")
    BY <1>1 DEF Kept
  <2>3. Kept(c, 11, 12, "x28")
    BY <1>1 DEF Kept
  <2>4. AllOnes(28) * Two(28) + AllOnes(28) = AllOnes(56)
    BY OnesJoin
  <2>5. e[12] = e[11] * Two(28) + e[11]
    BY <2>4, <1>3
  <2>6. GivesFrom(c, e, 12, 11, 11)
    BY <2>1, <2>2, <2>3, <2>5 DEF GivesFrom
  <2> QED BY <2>6 DEF Gives
<1>23. Gives(c, e, 13)
  <2>1. c[13][2] = "x56" /\ c[13][3] = 56 /\ c[13][4] = "x56"
    BY <1>1
  <2>2. Kept(c, 12, 13, "x56")
    BY <1>1 DEF Kept
  <2>3. Kept(c, 12, 13, "x56")
    BY <1>1 DEF Kept
  <2>4. AllOnes(56) * Two(56) + AllOnes(56) = AllOnes(112)
    BY OnesJoin
  <2>5. e[13] = e[12] * Two(56) + e[12]
    BY <2>4, <1>3
  <2>6. GivesFrom(c, e, 13, 12, 12)
    BY <2>1, <2>2, <2>3, <2>5 DEF GivesFrom
  <2> QED BY <2>6 DEF Gives
<1>24. Gives(c, e, 14)
  <2>1. c[14][2] = "x112" /\ c[14][3] = 14 /\ c[14][4] = "x14"
    BY <1>1
  <2>2. Kept(c, 13, 14, "x112")
    BY <1>1 DEF Kept
  <2>3. Kept(c, 10, 14, "x14")
    BY <1>1 DEF Kept
  <2>4. AllOnes(112) * Two(14) + AllOnes(14) = AllOnes(126)
    BY OnesJoin
  <2>5. e[14] = e[13] * Two(14) + e[10]
    BY <2>4, <1>3
  <2>6. GivesFrom(c, e, 14, 13, 10)
    BY <2>1, <2>2, <2>3, <2>5 DEF GivesFrom
  <2> QED BY <2>6 DEF Gives
<1>25. Gives(c, e, 15)
  <2>1. c[15][2] = "r" /\ c[15][3] = 3 /\ c[15][4] = "u5"
    BY <1>1
  <2>2. Kept(c, 14, 15, "r")
    BY <1>1 DEF Kept
  <2>3. Kept(c, 3, 15, "u5")
    BY <1>1 DEF Kept
  <2>4. Two(3) = 8
    BY ShortPowers
  <2>5. e[15] = e[14] * Two(3) + e[3]
    BY <2>4, <1>2, <1>3, <1>7, <1>8
  <2>6. GivesFrom(c, e, 15, 14, 3)
    BY <2>1, <2>2, <2>3, <2>5 DEF GivesFrom
  <2> QED BY <2>6 DEF Gives
<1>26. Gives(c, e, 16)
  <2>1. c[16][2] = "r" /\ c[16][3] = 4 /\ c[16][4] = "x3"
    BY <1>1
  <2>2. Kept(c, 15, 16, "r")
    BY <1>1 DEF Kept
  <2>3. Kept(c, 4, 16, "x3")
    BY <1>1 DEF Kept
  <2>4. Two(4) = 16
    BY ShortPowers
  <2>5. e[16] = e[15] * Two(4) + e[4]
    BY <2>4, <1>2, <1>3, <1>4, <1>7, <1>8
  <2>6. GivesFrom(c, e, 16, 15, 4)
    BY <2>1, <2>2, <2>3, <2>5 DEF GivesFrom
  <2> QED BY <2>6 DEF Gives
<1>27. Gives(c, e, 17)
  <2>1. c[17][2] = "r" /\ c[17][3] = 4 /\ c[17][4] = "u5"
    BY <1>1
  <2>2. Kept(c, 16, 17, "r")
    BY <1>1 DEF Kept
  <2>3. Kept(c, 3, 17, "u5")
    BY <1>1 DEF Kept
  <2>4. Two(4) = 16
    BY ShortPowers
  <2>5. e[17] = e[16] * Two(4) + e[3]
    BY <2>4, <1>2, <1>4, <1>7, <1>8
  <2>6. GivesFrom(c, e, 17, 16, 3)
    BY <2>1, <2>2, <2>3, <2>5 DEF GivesFrom
  <2> QED BY <2>6 DEF Gives
<1>28. Gives(c, e, 18)
  <2>1. c[18][2] = "r" /\ c[18][3] = 5 /\ c[18][4] = "u11"
    BY <1>1
  <2>2. Kept(c, 17, 18, "r")
    BY <1>1 DEF Kept
  <2>3. Kept(c, 6, 18, "u11")
    BY <1>1 DEF Kept
  <2>4. Two(5) = 32
    BY ShortPowers
  <2>5. e[18] = e[17] * Two(5) + e[6]
    BY <2>4, <1>2, <1>4, <1>7, <1>8
  <2>6. GivesFrom(c, e, 18, 17, 6)
    BY <2>1, <2>2, <2>3, <2>5 DEF GivesFrom
  <2> QED BY <2>6 DEF Gives
<1>29. Gives(c, e, 19)
  <2>1. c[19][2] = "r" /\ c[19][3] = 4 /\ c[19][4] = "u11"
    BY <1>1
  <2>2. Kept(c, 18, 19, "r")
    BY <1>1 DEF Kept
  <2>3. Kept(c, 6, 19, "u11")
    BY <1>1 DEF Kept
  <2>4. Two(4) = 16
    BY ShortPowers
  <2>5. e[19] = e[18] * Two(4) + e[6]
    BY <2>4, <1>2, <1>4, <1>7, <1>8
  <2>6. GivesFrom(c, e, 19, 18, 6)
    BY <2>1, <2>2, <2>3, <2>5 DEF GivesFrom
  <2> QED BY <2>6 DEF Gives
<1>30. Gives(c, e, 20)
  <2>1. c[20][2] = "r" /\ c[20][3] = 4 /\ c[20][4] = "x3"
    BY <1>1
  <2>2. Kept(c, 19, 20, "r")
    BY <1>1 DEF Kept
  <2>3. Kept(c, 4, 20, "x3")
    BY <1>1 DEF Kept
  <2>4. Two(4) = 16
    BY ShortPowers
  <2>5. e[20] = e[19] * Two(4) + e[4]
    BY <2>4, <1>2, <1>4, <1>7, <1>8
  <2>6. GivesFrom(c, e, 20, 19, 4)
    BY <2>1, <2>2, <2>3, <2>5 DEF GivesFrom
  <2> QED BY <2>6 DEF Gives
<1>31. Gives(c, e, 21)
  <2>1. c[21][2] = "r" /\ c[21][3] = 5 /\ c[21][4] = "x3"
    BY <1>1
  <2>2. Kept(c, 20, 21, "r")
    BY <1>1 DEF Kept
  <2>3. Kept(c, 4, 21, "x3")
    BY <1>1 DEF Kept
  <2>4. Two(5) = 32
    BY ShortPowers
  <2>5. e[21] = e[20] * Two(5) + e[4]
    BY <2>4, <1>2, <1>4, <1>7, <1>8
  <2>6. GivesFrom(c, e, 21, 20, 4)
    BY <2>1, <2>2, <2>3, <2>5 DEF GivesFrom
  <2> QED BY <2>6 DEF Gives
<1>32. Gives(c, e, 22)
  <2>1. c[22][2] = "r" /\ c[22][3] = 6 /\ c[22][4] = "u13"
    BY <1>1
  <2>2. Kept(c, 21, 22, "r")
    BY <1>1 DEF Kept
  <2>3. Kept(c, 7, 22, "u13")
    BY <1>1 DEF Kept
  <2>4. Two(6) = 64
    BY ShortPowers
  <2>5. e[22] = e[21] * Two(6) + e[7]
    BY <2>4, <1>2, <1>4, <1>7, <1>8
  <2>6. GivesFrom(c, e, 22, 21, 7)
    BY <2>1, <2>2, <2>3, <2>5 DEF GivesFrom
  <2> QED BY <2>6 DEF Gives
<1>33. Gives(c, e, 23)
  <2>1. c[23][2] = "r" /\ c[23][3] = 4 /\ c[23][4] = "u5"
    BY <1>1
  <2>2. Kept(c, 22, 23, "r")
    BY <1>1 DEF Kept
  <2>3. Kept(c, 3, 23, "u5")
    BY <1>1 DEF Kept
  <2>4. Two(4) = 16
    BY ShortPowers
  <2>5. e[23] = e[22] * Two(4) + e[3]
    BY <2>4, <1>2, <1>4, <1>7, <1>8
  <2>6. GivesFrom(c, e, 23, 22, 3)
    BY <2>1, <2>2, <2>3, <2>5 DEF GivesFrom
  <2> QED BY <2>6 DEF Gives
<1>34. Gives(c, e, 24)
  <2>1. c[24][2] = "r" /\ c[24][3] = 3 /\ c[24][4] = "x3"
    BY <1>1
  <2>2. Kept(c, 23, 24, "r")
    BY <1>1 DEF Kept
  <2>3. Kept(c, 4, 24, "x3")
    BY <1>1 DEF Kept
  <2>4. Two(3) = 8
    BY ShortPowers
  <2>5. e[24] = e[23] * Two(3) + e[4]
    BY <2>4, <1>2, <1>4, <1>5, <1>7, <1>8 DEF Prefix168
  <2>6. GivesFrom(c, e, 24, 23, 4)
    BY <2>1, <2>2, <2>3, <2>5 DEF GivesFrom
  <2> QED BY <2>6 DEF Gives
<1>35. Gives(c, e, 25)
  <2>1. c[25][2] = "r" /\ c[25][3] = 5 /\ c[25][4] = "u9"
    BY <1>1
  <2>2. Kept(c, 24, 25, "r")
    BY <1>1 DEF Kept
  <2>3. Kept(c, 5, 25, "u9")
    BY <1>1 DEF Kept
  <2>4. Two(5) = 32
    BY ShortPowers
  <2>5. e[25] = e[24] * Two(5) + e[5]
    BY <2>4, <1>2, <1>5, <1>7, <1>8
  <2>6. GivesFrom(c, e, 25, 24, 5)
    BY <2>1, <2>2, <2>3, <2>5 DEF GivesFrom
  <2> QED BY <2>6 DEF Gives
<1>36. Gives(c, e, 26)
  <2>1. c[26][2] = "r" /\ c[26][3] = 6 /\ c[26][4] = "u5"
    BY <1>1
  <2>2. Kept(c, 25, 26, "r")
    BY <1>1 DEF Kept
  <2>3. Kept(c, 3, 26, "u5")
    BY <1>1 DEF Kept
  <2>4. Two(6) = 64
    BY ShortPowers
  <2>5. e[26] = e[25] * Two(6) + e[3]
    BY <2>4, <1>2, <1>5, <1>7, <1>8
  <2>6. GivesFrom(c, e, 26, 25, 3)
    BY <2>1, <2>2, <2>3, <2>5 DEF GivesFrom
  <2> QED BY <2>6 DEF Gives
<1>37. Gives(c, e, 27)
  <2>1. c[27][2] = "r" /\ c[27][3] = 10 /\ c[27][4] = "x3"
    BY <1>1
  <2>2. Kept(c, 26, 27, "r")
    BY <1>1 DEF Kept
  <2>3. Kept(c, 4, 27, "x3")
    BY <1>1 DEF Kept
  <2>4. Two(10) = 1024
    BY ShortPowers
  <2>5. e[27] = e[26] * Two(10) + e[4]
    BY <2>4, <1>2, <1>5, <1>7, <1>8
  <2>6. GivesFrom(c, e, 27, 26, 4)
    BY <2>1, <2>2, <2>3, <2>5 DEF GivesFrom
  <2> QED BY <2>6 DEF Gives
<1>38. Gives(c, e, 28)
  <2>1. c[28][2] = "r" /\ c[28][3] = 4 /\ c[28][4] = "x3"
    BY <1>1
  <2>2. Kept(c, 27, 28, "r")
    BY <1>1 DEF Kept
  <2>3. Kept(c, 4, 28, "x3")
    BY <1>1 DEF Kept
  <2>4. Two(4) = 16
    BY ShortPowers
  <2>5. e[28] = e[27] * Two(4) + e[4]
    BY <2>4, <1>2, <1>5, <1>7, <1>8
  <2>6. GivesFrom(c, e, 28, 27, 4)
    BY <2>1, <2>2, <2>3, <2>5 DEF GivesFrom
  <2> QED BY <2>6 DEF Gives
<1>39. Gives(c, e, 29)
  <2>1. c[29][2] = "r" /\ c[29][3] = 9 /\ c[29][4] = "x8"
    BY <1>1
  <2>2. Kept(c, 28, 29, "r")
    BY <1>1 DEF Kept
  <2>3. Kept(c, 9, 29, "x8")
    BY <1>1 DEF Kept
  <2>4. Two(9) = 512
    BY ShortPowers
  <2>5. e[29] = e[28] * Two(9) + e[9]
    BY <2>4, <1>3, <1>5, <1>7, <1>8, ShortOnes
  <2>6. GivesFrom(c, e, 29, 28, 9)
    BY <2>1, <2>2, <2>3, <2>5 DEF GivesFrom
  <2> QED BY <2>6 DEF Gives
<1>40. Gives(c, e, 30)
  <2>1. c[30][2] = "r" /\ c[30][3] = 5 /\ c[30][4] = "u9"
    BY <1>1
  <2>2. Kept(c, 29, 30, "r")
    BY <1>1 DEF Kept
  <2>3. Kept(c, 5, 30, "u9")
    BY <1>1 DEF Kept
  <2>4. Two(5) = 32
    BY ShortPowers
  <2>5. e[30] = e[29] * Two(5) + e[5]
    BY <2>4, <1>2, <1>5, <1>7, <1>8 DEF Prefix207
  <2>6. GivesFrom(c, e, 30, 29, 5)
    BY <2>1, <2>2, <2>3, <2>5 DEF GivesFrom
  <2> QED BY <2>6 DEF Gives
<1>41. Gives(c, e, 31)
  <2>1. c[31][2] = "r" /\ c[31][3] = 6 /\ c[31][4] = "u11"
    BY <1>1
  <2>2. Kept(c, 30, 31, "r")
    BY <1>1 DEF Kept
  <2>3. Kept(c, 6, 31, "u11")
    BY <1>1 DEF Kept
  <2>4. Two(6) = 64
    BY ShortPowers
  <2>5. e[31] = e[30] * Two(6) + e[6]
    BY <2>4, <1>2, <1>5, <1>7, <1>8
  <2>6. GivesFrom(c, e, 31, 30, 6)
    BY <2>1, <2>2, <2>3, <2>5 DEF GivesFrom
  <2> QED BY <2>6 DEF Gives
<1>42. Gives(c, e, 32)
  <2>1. c[32][2] = "r" /\ c[32][3] = 4 /\ c[32][4] = "u13"
    BY <1>1
  <2>2. Kept(c, 31, 32, "r")
    BY <1>1 DEF Kept
  <2>3. Kept(c, 7, 32, "u13")
    BY <1>1 DEF Kept
  <2>4. Two(4) = 16
    BY ShortPowers
  <2>5. e[32] = e[31] * Two(4) + e[7]
    BY <2>4, <1>2, <1>5, <1>6, <1>7, <1>8
  <2>6. GivesFrom(c, e, 32, 31, 7)
    BY <2>1, <2>2, <2>3, <2>5 DEF GivesFrom
  <2> QED BY <2>6 DEF Gives
<1>43. Gives(c, e, 33)
  <2>1. c[33][2] = "r" /\ c[33][3] = 5 /\ c[33][4] = "x2"
    BY <1>1
  <2>2. Kept(c, 32, 33, "r")
    BY <1>1 DEF Kept
  <2>3. Kept(c, 2, 33, "x2")
    BY <1>1 DEF Kept
  <2>4. Two(5) = 32
    BY ShortPowers
  <2>5. e[33] = e[32] * Two(5) + e[2]
    BY <2>4, <1>2, <1>6, <1>7, <1>8
  <2>6. GivesFrom(c, e, 33, 32, 2)
    BY <2>1, <2>2, <2>3, <2>5 DEF GivesFrom
  <2> QED BY <2>6 DEF Gives
<1>44. Gives(c, e, 34)
  <2>1. c[34][2] = "r" /\ c[34][3] = 6 /\ c[34][4] = "u13"
    BY <1>1
  <2>2. Kept(c, 33, 34, "r")
    BY <1>1 DEF Kept
  <2>3. Kept(c, 7, 34, "u13")
    BY <1>1 DEF Kept
  <2>4. Two(6) = 64
    BY ShortPowers
  <2>5. e[34] = e[33] * Two(6) + e[7]
    BY <2>4, <1>2, <1>6, <1>7, <1>8
  <2>6. GivesFrom(c, e, 34, 33, 7)
    BY <2>1, <2>2, <2>3, <2>5 DEF GivesFrom
  <2> QED BY <2>6 DEF Gives
<1>45. Gives(c, e, 35)
  <2>1. c[35][2] = "r" /\ c[35][3] = 10 /\ c[35][4] = "u13"
    BY <1>1
  <2>2. Kept(c, 34, 35, "r")
    BY <1>1 DEF Kept
  <2>3. Kept(c, 7, 35, "u13")
    BY <1>1 DEF Kept
  <2>4. Two(10) = 1024
    BY ShortPowers
  <2>5. e[35] = e[34] * Two(10) + e[7]
    BY <2>4, <1>2, <1>6, <1>7, <1>8
  <2>6. GivesFrom(c, e, 35, 34, 7)
    BY <2>1, <2>2, <2>3, <2>5 DEF GivesFrom
  <2> QED BY <2>6 DEF Gives
<1>46. Gives(c, e, 36)
  <2>1. c[36][2] = "r" /\ c[36][3] = 4 /\ c[36][4] = "u9"
    BY <1>1
  <2>2. Kept(c, 35, 36, "r")
    BY <1>1 DEF Kept
  <2>3. Kept(c, 5, 36, "u9")
    BY <1>1 DEF Kept
  <2>4. Two(4) = 16
    BY ShortPowers
  <2>5. e[36] = e[35] * Two(4) + e[5]
    BY <2>4, <1>2, <1>6, <1>7, <1>8
  <2>6. GivesFrom(c, e, 36, 35, 5)
    BY <2>1, <2>2, <2>3, <2>5 DEF GivesFrom
  <2> QED BY <2>6 DEF Gives
<1>47. Gives(c, e, 37)
  <2>1. c[37][2] = "r" /\ c[37][3] = 6 /\ c[37][4] = "x"
    BY <1>1
  <2>2. Kept(c, 36, 37, "r")
    BY <1>1 DEF Kept
  <2>3. Kept(c, 0, 37, "x")
    BY <1>1 DEF Kept
  <2>4. Two(6) = 64
    BY ShortPowers
  <2>5. e[37] = e[36] * Two(6) + e[0]
    BY <2>4, <1>2, <1>6, <1>7, <1>8 DEF Prefix248
  <2>6. GivesFrom(c, e, 37, 36, 0)
    BY <2>1, <2>2, <2>3, <2>5 DEF GivesFrom
  <2> QED BY <2>6 DEF Gives
<1>48. Gives(c, e, 38)
  <2>1. c[38][2] = "r" /\ c[38][3] = 8 /\ c[38][4] = "x6"
    BY <1>1
  <2>2. Kept(c, 37, 38, "r")
    BY <1>1 DEF Kept
  <2>3. Kept(c, 8, 38, "x6")
    BY <1>1 DEF Kept
  <2>4. Two(8) = 256
    BY ShortPowers
  <2>5. e[38] = e[37] * Two(8) + e[8]
    BY <2>4, <1>3, <1>6, <1>7, <1>8
  <2>6. GivesFrom(c, e, 38, 37, 8)
    BY <2>1, <2>2, <2>3, <2>5 DEF GivesFrom
  <2> QED BY <2>6 DEF Gives
<1>49. \A k \in 1 .. 38 : Gives(c, e, k)
  BY <1>11, <1>12, <1>13, <1>14, <1>15, <1>16, <1>17, <1>18, <1>19, <1>20, <1>21, <1>22, <1>23, <1>24, <1>25, <1>26, <1>27, <1>28, <1>29, <1>30, <1>31, <1>32, <1>33, <1>34, <1>35, <1>36, <1>37, <1>38, <1>39, <1>40, <1>41, <1>42, <1>43, <1>44, <1>45, <1>46, <1>47, <1>48
<1>50. \A k \in 1 .. 38 : c[k][3] \in Nat /\ c[k][1] # "x"
  BY <1>1
<1>51. e \in [0 .. 38 -> Nat \ {0}]
  <2>1. \A k \in 0 .. 38 : e[k] \in Nat \ {0}
    BY <1>9
  <2> QED BY <1>10, <2>1
<1>52. Len(c) = 38 /\ e[0] = 1
  BY <1>1, <1>2
<1>53. \A k \in 1 .. Len(c) : c[k][3] \in Nat /\ c[k][1] # "x" /\ Gives(c, e, k)
  BY <1>49, <1>50, <1>52
<1>54. Len(c) \in Nat \ {0} /\ e \in [0 .. Len(c) -> Nat \ {0}] /\ e[0] = 1
  BY <1>51, <1>52
<1> QED BY <1>53, <1>54, Zenon DEF AreExponents

-----------------------------------------------------------------------------
(* The numbers that the digits stand for. *)

\* Digits that are all 15, after the first.
Fifteens(d, m) == \A k \in 2 .. m : d[k] = 15

\* Digits that are all 15 number a block of ones, after a first digit that is one.
LEMMA DigitRun ==
  ASSUME NEW d, AreDigits(d), NEW h, IsNumber(h, d), NEW s \in Nat \ {0}, h[1] = AllOnes(s),
         NEW m \in 1 .. Len(d), Fifteens(d, m),
         NEW n, n = s + 4 * (m - 1)
  PROVE  h[m] = AllOnes(n)
<1> DEFINE H == {j \in Nat : j + 1 <= m => h[j + 1] = AllOnes(s + 4 * j)}
<1>0. Len(d) \in Nat /\ m \in Nat /\ m <= Len(d)
  BY DEF AreDigits
<1>1. 0 \in H
  BY <1>0
<1>2. ASSUME NEW j \in H PROVE j + 1 \in H
  <2> SUFFICES ASSUME (j + 1) + 1 <= m PROVE h[(j + 1) + 1] = AllOnes(s + 4 * (j + 1))
    OBVIOUS
  <2> DEFINE k == j + 1
             a == s + 4 * j
             b == s + 4 * (j + 1)
  <2>1. k \in 1 .. Len(d) - 1 /\ k + 1 \in 2 .. m /\ a \in Nat \ {0} /\ b = a + 4 /\ 4 \in Nat \ {0}
    BY <1>0
  <2>2. h[k] = AllOnes(a)
    BY <1>0
  <2> HIDE DEF k, a, b
  <2>3. h[k + 1] = 16 * h[k] + 15
    BY <2>1 DEF IsNumber, Fifteens
  <2>4. AllOnes(a) * Two(4) + AllOnes(4) = AllOnes(b)
    BY <2>1, OnesJoin
  <2>5. AllOnes(a) \in Nat /\ Two(4) = 16 /\ AllOnes(4) = 15
    <3>1. AllOnes(a) \in Nat
      BY <2>1, OnesPositive
    <3> QED BY <3>1, ShortPowers, ShortOnes
  <2>6. h[k + 1] = AllOnes(b)
    BY <2>2, <2>3, <2>4, <2>5
  <2> QED BY <2>6 DEF k, b
<1> HIDE DEF H
<1>3. H = Nat
  BY <1>1, <1>2, Induction DEF H
<1>4. m - 1 \in Nat /\ (m - 1) + 1 = m /\ (m - 1) + 1 <= m
  BY <1>0
<1>5. m - 1 \in H
  BY <1>3, <1>4
<1>6. h[(m - 1) + 1] = AllOnes(s + 4 * (m - 1))
  BY <1>4, <1>5 DEF H
<1> QED BY <1>4, <1>6

\* The number that InverseDigits stand for is the exponent of InverseChain.
LEMMA InverseNumber ==
  ASSUME NEW d, d = InverseDigits
  PROVE  /\ AreDigits(d) /\ Len(d) = 64
         /\ \A h : IsNumber(h, d) => h[64] = 8589934592 * AllOnes(223) + 4294966317
<1>1. Len(d) = 64
  BY DEF InverseDigits
<1>2. d[1] = 15 /\ \A k \in 2 .. 55 : d[k] = 15
  BY DEF InverseDigits
<1>3. d[56] = 14 /\ d[57] = 15 /\ d[58] = 15 /\ d[59] = 15 /\ d[60] = 15 /\ d[61] = 15 /\ d[62] = 12 /\ d[63] = 2
  BY DEF InverseDigits
<1>4. d[64] = 13
  BY DEF InverseDigits
<1>5. AreDigits(d)
  <2>1. \A k \in 1 .. 64 : d[k] \in 0 .. 15
    BY <1>2, <1>3, <1>4
  <2> QED BY <1>1, <1>2, <2>1 DEF AreDigits
<1>6. ASSUME NEW h, IsNumber(h, d) PROVE h[64] = 8589934592 * AllOnes(223) + 4294966317
  <2>1. h[1] = d[1] /\ \A k \in 1 .. 63 : h[k + 1] = 16 * h[k] + d[k + 1]
    BY <1>1, <1>6 DEF IsNumber
  <2>2. h[55] = AllOnes(220)
    <3>1. h[1] = AllOnes(4)
      BY <1>2, <2>1, ShortOnes
    <3>2. 55 \in 1 .. Len(d) /\ 220 = 4 + 4 * (55 - 1)
      BY <1>1
    <3>3. Fifteens(d, 55)
      BY <1>2 DEF Fifteens
    <3> QED BY <1>5, <1>6, <3>1, <3>2, <3>3, DigitRun
  <2>3. AllOnes(220) \in Nat
    BY OnesPositive
  <2>4. /\ h[56] = 16 * h[55] + 14
        /\ h[57] = 16 * h[56] + 15
        /\ h[58] = 16 * h[57] + 15
        /\ h[59] = 16 * h[58] + 15
    BY <2>1, <1>3
  <2>5. h[59] = 65536 * AllOnes(220) + 61439
    BY <2>3, <2>2, <2>4
  <2>6. /\ h[60] = 16 * h[59] + 15
        /\ h[61] = 16 * h[60] + 15
        /\ h[62] = 16 * h[61] + 12
        /\ h[63] = 16 * h[62] + 2
    BY <2>1, <1>3
  <2>7. h[63] = 4294967296 * AllOnes(220) + 4026531778
    BY <2>3, <2>5, <2>6
  <2>8. /\ h[64] = 16 * h[63] + 13
    BY <2>1, <1>4
  <2>9. h[64] = 68719476736 * AllOnes(220) + 64424508461
    BY <2>3, <2>7, <2>8
  <2>10. AllOnes(220) * Two(3) + AllOnes(3) = AllOnes(223) /\ Two(3) = 8 /\ AllOnes(3) = 7
    BY OnesJoin, ShortPowers, ShortOnes
  <2>11. h[64] = 8589934592 * AllOnes(223) + 4294966317
    BY <2>9, <2>3, <2>10
  <2> QED BY <2>11
<1> QED BY <1>1, <1>5, <1>6

\* The number that SqrtDigits stand for is the exponent of SqrtChain.
LEMMA SqrtNumber ==
  ASSUME NEW d, d = SqrtDigits
  PROVE  /\ AreDigits(d) /\ Len(d) = 64
         /\ \A h : IsNumber(h, d) => h[64] = 2147483648 * AllOnes(223) + 1073741580
<1>1. Len(d) = 64
  BY DEF SqrtDigits
<1>2. d[1] = 3 /\ \A k \in 2 .. 56 : d[k] = 15
  BY DEF SqrtDigits
<1>3. d[57] = 11 /\ d[58] = 15 /\ d[59] = 15 /\ d[60] = 15 /\ d[61] = 15 /\ d[62] = 15 /\ d[63] = 0 /\ d[64] = 12
  BY DEF SqrtDigits
<1>4. AreDigits(d)
  <2>1. \A k \in 1 .. 64 : d[k] \in 0 .. 15
    BY <1>2, <1>3
  <2> QED BY <1>1, <1>2, <2>1 DEF AreDigits
<1>5. ASSUME NEW h, IsNumber(h, d) PROVE h[64] = 2147483648 * AllOnes(223) + 1073741580
  <2>1. h[1] = d[1] /\ \A k \in 1 .. 63 : h[k + 1] = 16 * h[k] + d[k + 1]
    BY <1>1, <1>5 DEF IsNumber
  <2>2. h[56] = AllOnes(222)
    <3>1. h[1] = AllOnes(2)
      BY <1>2, <2>1, ShortOnes
    <3>2. 56 \in 1 .. Len(d) /\ 222 = 2 + 4 * (56 - 1)
      BY <1>1
    <3>3. Fifteens(d, 56)
      BY <1>2 DEF Fifteens
    <3> QED BY <1>4, <1>5, <3>1, <3>2, <3>3, DigitRun
  <2>3. AllOnes(222) \in Nat
    BY OnesPositive
  <2>4. /\ h[57] = 16 * h[56] + 11
        /\ h[58] = 16 * h[57] + 15
        /\ h[59] = 16 * h[58] + 15
        /\ h[60] = 16 * h[59] + 15
    BY <2>1, <1>3
  <2>5. h[60] = 65536 * AllOnes(222) + 49151
    BY <2>3, <2>2, <2>4
  <2>6. /\ h[61] = 16 * h[60] + 15
        /\ h[62] = 16 * h[61] + 15
        /\ h[63] = 16 * h[62] + 0
        /\ h[64] = 16 * h[63] + 12
    BY <2>1, <1>3
  <2>7. h[64] = 4294967296 * AllOnes(222) + 3221225228
    BY <2>3, <2>5, <2>6
  <2>8. AllOnes(222) * Two(1) + AllOnes(1) = AllOnes(223) /\ Two(1) = 2 /\ AllOnes(1) = 1
    BY OnesJoin, ShortPowers, ShortOnes
  <2>9. h[64] = 2147483648 * AllOnes(223) + 1073741580
    BY <2>7, <2>3, <2>8
  <2> QED BY <2>9
<1> QED BY <1>1, <1>4, <1>5

\* The number that ScalarInverseDigits stand for is the exponent of ScalarInverseChain.
LEMMA ScalarInverseNumber ==
  ASSUME NEW d, d = ScalarInverseDigits
  PROVE  /\ AreDigits(d) /\ Len(d) = 64
         /\ \A h : IsNumber(h, d) => h[64] = 256 * Prefix248 + 63
<1>1. Len(d) = 64
  BY DEF ScalarInverseDigits
<1>2. d[1] = 15 /\ \A k \in 2 .. 31 : d[k] = 15
  BY DEF ScalarInverseDigits
<1>3. d[32] = 14 /\ d[33] = 11 /\ d[34] = 10 /\ d[35] = 10 /\ d[36] = 14 /\ d[37] = 13 /\ d[38] = 12 /\ d[39] = 14
  BY DEF ScalarInverseDigits
<1>4. d[40] = 6 /\ d[41] = 10 /\ d[42] = 15 /\ d[43] = 4 /\ d[44] = 8 /\ d[45] = 10 /\ d[46] = 0 /\ d[47] = 3
  BY DEF ScalarInverseDigits
<1>5. d[48] = 11 /\ d[49] = 11 /\ d[50] = 15 /\ d[51] = 13 /\ d[52] = 2 /\ d[53] = 5 /\ d[54] = 14 /\ d[55] = 8
  BY DEF ScalarInverseDigits
<1>6. d[56] = 12 /\ d[57] = 13 /\ d[58] = 0 /\ d[59] = 3 /\ d[60] = 6 /\ d[61] = 4 /\ d[62] = 1 /\ d[63] = 3
  BY DEF ScalarInverseDigits
<1>7. d[64] = 15
  BY DEF ScalarInverseDigits
<1>8. AreDigits(d)
  <2>1. \A k \in 1 .. 64 : d[k] \in 0 .. 15
    BY <1>2, <1>3, <1>4, <1>5, <1>6, <1>7
  <2> QED BY <1>1, <1>2, <2>1 DEF AreDigits
<1>9. ASSUME NEW h, IsNumber(h, d) PROVE h[64] = 256 * Prefix248 + 63
  <2>1. h[1] = d[1] /\ \A k \in 1 .. 63 : h[k + 1] = 16 * h[k] + d[k + 1]
    BY <1>1, <1>9 DEF IsNumber
  <2>2. h[31] = AllOnes(124)
    <3>1. h[1] = AllOnes(4)
      BY <1>2, <2>1, ShortOnes
    <3>2. 31 \in 1 .. Len(d) /\ 124 = 4 + 4 * (31 - 1)
      BY <1>1
    <3>3. Fifteens(d, 31)
      BY <1>2 DEF Fifteens
    <3> QED BY <1>8, <1>9, <3>1, <3>2, <3>3, DigitRun
  <2>3. AllOnes(124) \in Nat
    BY OnesPositive
  <2>4. /\ h[32] = 16 * h[31] + 14
        /\ h[33] = 16 * h[32] + 11
        /\ h[34] = 16 * h[33] + 10
        /\ h[35] = 16 * h[34] + 10
    BY <2>1, <1>3
  <2>5. h[35] = 65536 * AllOnes(124) + 60330
    BY <2>3, <2>2, <2>4
  <2>6. /\ h[36] = 16 * h[35] + 14
        /\ h[37] = 16 * h[36] + 13
        /\ h[38] = 16 * h[37] + 12
        /\ h[39] = 16 * h[38] + 14
    BY <2>1, <1>3
  <2>7. h[39] = 4294967296 * AllOnes(124) + 3953847758
    BY <2>3, <2>5, <2>6
  <2>8. /\ h[40] = 16 * h[39] + 6
        /\ h[41] = 16 * h[40] + 10
        /\ h[42] = 16 * h[41] + 15
    BY <2>1, <1>4
  <2>9. h[42] = 17592186044416 * AllOnes(124) + 16194960418479
    BY <2>3, <2>7, <2>8
  <2>10. AllOnes(124) * Two(2) + AllOnes(2) = AllOnes(126) /\ Two(2) = 4 /\ AllOnes(2) = 3
    BY OnesJoin, ShortPowers, ShortOnes
  <2>11. h[42] = Prefix168
    BY <2>9, <2>3, <2>10 DEF Prefix168
  <2>12. Prefix168 \in Nat
    BY OnesPositive DEF Prefix168
  <2>13. /\ h[43] = 16 * h[42] + 4
        /\ h[44] = 16 * h[43] + 8
        /\ h[45] = 16 * h[44] + 10
        /\ h[46] = 16 * h[45] + 0
    BY <2>1, <1>4
  <2>14. h[46] = 65536 * Prefix168 + 18592
    BY <2>12, <2>11, <2>13
  <2>15. /\ h[47] = 16 * h[46] + 3
        /\ h[48] = 16 * h[47] + 11
        /\ h[49] = 16 * h[48] + 11
        /\ h[50] = 16 * h[49] + 15
    BY <2>1, <1>4, <1>5
  <2>16. h[50] = 4294967296 * Prefix168 + 1218460607
    BY <2>12, <2>14, <2>15
  <2>17. /\ h[51] = 16 * h[50] + 13
    BY <2>1, <1>5
  <2>18. h[51] = 68719476736 * Prefix168 + 19495369725
    BY <2>12, <2>16, <2>17
  <2>20. h[51] = 68719476736 * Prefix168 + 19495369725
    BY <2>18, <2>12
  <2>21. h[51] \in Nat /\ Prefix207 = 8 * h[51] + 1 /\ Prefix168 \in Nat
    <3>1. Prefix168 \in Nat
      BY OnesPositive DEF Prefix168
    <3> QED BY <2>20, <3>1 DEF Prefix207
  <2>22. /\ h[52] = 16 * h[51] + 2
        /\ h[53] = 16 * h[52] + 5
        /\ h[54] = 16 * h[53] + 14
        /\ h[55] = 16 * h[54] + 8
    BY <2>1, <1>5
  <2>23. h[55] = 65536 * h[51] + 9704
    BY <2>21, <2>20, <2>22
  <2>24. /\ h[56] = 16 * h[55] + 12
        /\ h[57] = 16 * h[56] + 13
        /\ h[58] = 16 * h[57] + 0
        /\ h[59] = 16 * h[58] + 3
    BY <2>1, <1>6
  <2>25. h[59] = 4294967296 * h[51] + 636013827
    BY <2>21, <2>23, <2>24
  <2>26. /\ h[60] = 16 * h[59] + 6
        /\ h[61] = 16 * h[60] + 4
        /\ h[62] = 16 * h[61] + 1
    BY <2>1, <1>6
  <2>27. h[62] = 17592186044416 * h[51] + 2605112636993
    BY <2>21, <2>25, <2>26
  <2>29. h[62] = Prefix248
    BY <2>27, <2>21 DEF Prefix248
  <2>30. Prefix248 \in Nat
    BY OnesPositive DEF Prefix248, Prefix207, Prefix168
  <2>31. /\ h[63] = 16 * h[62] + 3
        /\ h[64] = 16 * h[63] + 15
    BY <2>1, <1>6, <1>7
  <2>32. h[64] = 256 * Prefix248 + 63
    BY <2>30, <2>29, <2>31
  <2>34. h[64] = 256 * Prefix248 + 63
    BY <2>32, <2>30
  <2> QED BY <2>34
<1> QED BY <1>1, <1>8, <1>9

-----------------------------------------------------------------------------
(* The chains are exact. *)

\* Every chain has its exponents.
LEMMA ChainsReady == AllReady
<1> SUFFICES ASSUME NEW c \in Chains PROVE \E e : AreExponents(e, c)
  BY DEF AllReady
<1>1. CASE c = InverseChain
  <2> DEFINE e == [k \in 0 .. 15 |-> InverseExponents[k + 1]]
  <2> HIDE DEF e
  <2>1. AreExponents(e, c)
    BY <1>1, InverseReady DEF e
  <2> QED BY <2>1
<1>2. CASE c = SqrtChain
  <2> DEFINE e == [k \in 0 .. 15 |-> SqrtExponents[k + 1]]
  <2> HIDE DEF e
  <2>1. AreExponents(e, c)
    BY <1>2, SqrtReady DEF e
  <2> QED BY <2>1
<1>3. CASE c = ScalarInverseChain
  <2> DEFINE e == [k \in 0 .. 38 |-> ScalarInverseExponents[k + 1]]
  <2> HIDE DEF e
  <2>1. AreExponents(e, c)
    BY <1>3, ScalarInverseReady DEF e
  <2> QED BY <2>1
<1> QED BY <1>1, <1>2, <1>3 DEF Chains

\* A finished chain holds in each register the power that was last stored there.
LEMMA Finished ==
  ASSUME NEW Elements, ChainInv(Elements), at > Len(chain),
         NEW e, AreExponents(e, chain), NEW p, IsPowers(p, reg["x"], Elements)
  PROVE  \A a, n : Kept(chain, a, Len(chain) + 1, n) => reg[n] = p[e[a]]
<1>1. at <= Len(chain) + 1 /\ Registers(p, e) /\ at \in Nat
  BY DEF ChainInv
<1>2. at = Len(chain) + 1
  BY <1>1 DEF AreExponents
<1> QED BY <1>1, <1>2 DEF Registers

\* A power by digits, by the number they stand for.
LEMMA PowerFor ==
  ASSUME NEW Elements, PowerLaw(Elements), NEW elem \in Elements, NEW p, IsPowers(p, elem, Elements),
         NEW d, AreDigits(d), NEW m, \A h : IsNumber(h, d) => h[Len(d)] = m
  PROVE  Power(elem, d) = p[m]
<1>1. PICK h : IsNumber(h, d)
  BY NumberExists
<1>2. Power(elem, d) = p[h[Len(d)]]
  BY <1>1, PowerOfNumber
<1> QED BY <1>1, <1>2

\* What the invariant says of a finished chain.
LEMMA FinishedExact ==
  ASSUME NEW Elements, PowerLaw(Elements), ChainInv(Elements)
  PROVE  ChainsExact
<1> SUFFICES ASSUME at > Len(chain)
             PROVE  /\ chain = InverseChain => reg["r"] = Power(reg["x"], InverseDigits)
                    /\ chain = SqrtChain => /\ reg["r"] = Power(reg["x"], SqrtDigits)
                                            /\ reg["check"] = Squared(reg["r"])
                    /\ chain = ScalarInverseChain => reg["r"] = Power(reg["x"], ScalarInverseDigits)
  BY DEF ChainsExact
<1> DEFINE elem == reg["x"]
<1>1. elem \in Elements
  BY DEF ChainInv, PowerLaw
<1>2. PICK p : IsPowers(p, elem, Elements)
  BY <1>1, PowersExist
<1>3. ASSUME NEW e, AreExponents(e, chain)
      PROVE  \A a, n : Kept(chain, a, Len(chain) + 1, n) => reg[n] = p[e[a]]
  BY <1>2, <1>3, Finished
<1>4. ASSUME chain = InverseChain PROVE reg["r"] = Power(elem, InverseDigits)
  <2> DEFINE e == [k \in 0 .. 15 |-> InverseExponents[k + 1]]
             m == 8589934592 * AllOnes(223) + 4294966317
             d == InverseDigits
  <2>1. e[15] = m
    BY DEF InverseExponents
  <2> HIDE DEF e
  <2>2. AreExponents(e, chain)
    BY <1>4, InverseReady DEF e
  <2>3. Len(chain) + 1 = 16 /\ Kept(chain, 15, 16, "r")
    <3>1. Len(chain) = 15 /\ chain[15][1] = "r"
      BY <1>4, InverseInstructions
    <3> QED BY <3>1 DEF Kept
  <2>4. reg["r"] = p[e[15]]
    BY <1>3, <2>2, <2>3
  <2> HIDE DEF d, m
  <2>5. AreDigits(d) /\ \A h : IsNumber(h, d) => h[Len(d)] = m
    <3>1. AreDigits(d) /\ Len(d) = 64 /\ \A h : IsNumber(h, d) => h[64] = m
      BY InverseNumber DEF d, m
    <3> QED BY <3>1
  <2> HIDE DEF elem
  <2>6. Power(elem, d) = p[m]
    BY <1>1, <1>2, <2>5, PowerFor
  <2> QED BY <2>1, <2>4, <2>6 DEF d
<1>5. ASSUME chain = SqrtChain
      PROVE  reg["r"] = Power(elem, SqrtDigits) /\ reg["check"] = Squared(reg["r"])
  <2> DEFINE e == [k \in 0 .. 15 |-> SqrtExponents[k + 1]]
             m == 2147483648 * AllOnes(223) + 1073741580
             d == SqrtDigits
  <2>1. e[14] = m /\ e[15] = 2 * m /\ m \in Nat \ {0}
    <3>1. AllOnes(223) \in Nat
      BY OnesPositive
    <3>2. e[14] = m /\ e[15] = 4294967296 * AllOnes(223) + 2147483160
      BY DEF SqrtExponents
    <3>3. m \in Nat \ {0} /\ 2 * m = 4294967296 * AllOnes(223) + 2147483160
      BY <3>1
    <3> HIDE DEF m, e
    <3> QED BY <3>2, <3>3
  <2> HIDE DEF e
  <2>2. AreExponents(e, chain)
    BY <1>5, SqrtReady DEF e
  <2>3. Len(chain) + 1 = 16 /\ Kept(chain, 14, 16, "r") /\ Kept(chain, 15, 16, "check")
    <3>1. Len(chain) = 15 /\ chain[14][1] = "r" /\ chain[15][1] = "check"
      BY <1>5, SqrtInstructions
    <3> QED BY <3>1 DEF Kept
  <2>4. reg["r"] = p[e[14]] /\ reg["check"] = p[e[15]]
    BY <1>3, <2>2, <2>3
  <2> HIDE DEF d, m
  <2>5. AreDigits(d) /\ \A h : IsNumber(h, d) => h[Len(d)] = m
    <3>1. AreDigits(d) /\ Len(d) = 64 /\ \A h : IsNumber(h, d) => h[64] = m
      BY SqrtNumber DEF d, m
    <3> QED BY <3>1
  <2> HIDE DEF elem
  <2>6. Power(elem, d) = p[m]
    BY <1>1, <1>2, <2>5, PowerFor
  <2>7. p[2 * m] = Squared(p[m])
    <3>1. 1 \in Nat \ {0}
      OBVIOUS
    <3> QED BY <1>1, <1>2, <2>1, <3>1, PowersAdd
  <2> QED BY <2>1, <2>4, <2>6, <2>7 DEF d
<1>6. ASSUME chain = ScalarInverseChain PROVE reg["r"] = Power(elem, ScalarInverseDigits)
  <2> DEFINE e == [k \in 0 .. 38 |-> ScalarInverseExponents[k + 1]]
             m == 256 * Prefix248 + 63
             d == ScalarInverseDigits
  <2>1. e[38] = m
    BY DEF ScalarInverseExponents
  <2> HIDE DEF e
  <2>2. AreExponents(e, chain)
    BY <1>6, ScalarInverseReady DEF e
  <2>3. Len(chain) + 1 = 39 /\ Kept(chain, 38, 39, "r")
    <3>1. Len(chain) = 38 /\ chain[38][1] = "r"
      BY <1>6, ScalarInverseInstructions
    <3> QED BY <3>1 DEF Kept
  <2>4. reg["r"] = p[e[38]]
    BY <1>3, <2>2, <2>3
  <2> HIDE DEF d, m
  <2>5. AreDigits(d) /\ \A h : IsNumber(h, d) => h[Len(d)] = m
    <3>1. AreDigits(d) /\ Len(d) = 64 /\ \A h : IsNumber(h, d) => h[64] = m
      BY ScalarInverseNumber DEF d, m
    <3> QED BY <3>1
  <2> HIDE DEF elem
  <2>6. Power(elem, d) = p[m]
    BY <1>1, <1>2, <2>5, PowerFor
  <2> QED BY <2>1, <2>4, <2>6 DEF d
<1> QED BY <1>4, <1>5, <1>6

\* The three chains compute the powers they are for, over any elements with an associative product:
\* field_inv the power p - 2, field_sqrt the power (p + 1) / 4 and its square, and the inverse of a
\* scalar the power n - 2.
THEOREM ChainsAreExact ==
  ASSUME NEW Elements, PowerLaw(Elements)
  PROVE  ChainSpec => []ChainsExact
<1>1. ChainInit => ChainInv(Elements)
  BY ChainsReady, ChainStarts
<1>2. ChainInv(Elements) /\ [ChainNext]_chainVars => ChainInv(Elements)'
  <2> SUFFICES ASSUME ChainInv(Elements), [ChainNext]_chainVars PROVE ChainInv(Elements)'
    OBVIOUS
  <2>1. CASE Square
    BY <2>1, ChainsReady, SquareKeeps
  <2>2. CASE Store
    BY <2>2, ChainsReady, StoreKeeps
  <2>3. CASE UNCHANGED chainVars
    <3>1. chain' = chain /\ at' = at /\ left' = left /\ value' = value /\ reg' = reg
      BY <2>3 DEF chainVars
    <3>2. /\ chain \in Chains /\ reg["x"] \in Arguments /\ reg = [n \in Names(chain) |-> reg[n]]
          /\ left \in Nat /\ at \in Nat \ {0}
      BY DEF ChainInv
    <3>3. ASSUME NEW p, NEW e, IsPowers(p, reg["x"], Elements), AreExponents(e, chain)
          PROVE  at <= Len(chain) + 1 /\ Registers(p, e)' /\ (at <= Len(chain) => Nearing(p, e)')
      <4>1. at <= Len(chain) + 1 /\ Registers(p, e) /\ (at <= Len(chain) => Nearing(p, e))
        BY <3>3 DEF ChainInv
      <4> QED BY <3>1, <4>1 DEF Registers, Nearing
    <3> QED BY <3>1, <3>2, <3>3 DEF ChainInv
  <2> QED BY <2>1, <2>2, <2>3 DEF ChainNext
<1>3. ChainInv(Elements) => ChainsExact
  BY FinishedExact
<1> QED BY <1>1, <1>2, <1>3, PTL DEF ChainSpec

-----------------------------------------------------------------------------
(* The scratch space: sums, frames and objects. *)

\* A space, with any frames in use.
Frames == [size : Nat, offset : Nat]
Spaces == [max_size : Nat, frames : Seq(Frames)]

\* Sums so far.
AreSums(t, s) ==
  /\ t \in [0 .. Len(s) -> Nat] /\ t[0] = 0
  /\ \A k \in 1 .. Len(s) : t[k] = t[k - 1] + s[k]

\* The sum of a sequence is the last of them.
LEMMA SumsExist ==
  ASSUME NEW s \in Seq(Nat)
  PROVE  \E t : AreSums(t, s) /\ SumOf(s) = t[Len(s)] /\ t[Len(s)] \in Nat
<1> DEFINE n == Len(s)
           d == [k \in Nat |-> IF k + 1 <= n THEN s[k + 1] ELSE 0]
           G == [k \in Nat |-> [u \in Nat |-> u + d[k]]]
           Is(t) == t = [i \in 0 .. n |-> IF i = 0 THEN 0 ELSE t[i - 1] + s[i]]
<1>1. n \in Nat /\ \A k \in 1 .. n : s[k] \in Nat
  OBVIOUS
<1>2. \A k \in Nat : d[k] \in Nat
  <2> SUFFICES ASSUME NEW k \in Nat, k + 1 <= n PROVE s[k + 1] \in Nat
    OBVIOUS
  <2>1. k + 1 \in 1 .. n
    BY <1>1
  <2> QED BY <1>1, <2>1
<1>3. \A k \in Nat : k + 1 <= n => d[k] = s[k + 1]
  OBVIOUS
<1> HIDE DEF d
<1>4. G \in [Nat -> [Nat -> Nat]]
  BY <1>2
<1>5. \A k, u \in Nat : G[k][u] = u + d[k]
  OBVIOUS
<1> HIDE DEF G, n
<1>6. PICK r : r \in [Nat -> Nat] /\ r[0] = 0 /\ \A k \in Nat : r[k + 1] = G[k][r[k]]
  <2>1. \E r : Recurs(r, Nat, 0, G)
    BY <1>4, Recursion
  <2> QED BY <2>1 DEF Recurs
<1>7. \E t : Is(t)
  <2> DEFINE t == [i \in 0 .. n |-> r[i]]
  <2>1. ASSUME NEW i \in 0 .. n PROVE t[i] = IF i = 0 THEN 0 ELSE t[i - 1] + s[i]
    <3>1. CASE i = 0
      BY <1>6, <3>1
    <3>2. CASE i # 0
      <4>1. i - 1 \in Nat /\ i - 1 \in 0 .. n /\ (i - 1) + 1 = i /\ i <= n
        BY <1>1, <3>2
      <4>2. r[i] = r[i - 1] + d[i - 1] /\ d[i - 1] = s[i]
        <5>1. r[i] = G[i - 1][r[i - 1]] /\ r[i - 1] \in Nat
          BY <1>6, <4>1
        <5>2. d[i - 1] = s[i]
          BY <1>3, <4>1
        <5> QED BY <1>5, <4>1, <5>1, <5>2
      <4> QED BY <3>2, <4>1, <4>2
    <3> QED BY <3>1, <3>2
  <2>2. t = [i \in 0 .. n |-> IF i = 0 THEN 0 ELSE t[i - 1] + s[i]]
    BY <2>1
  <2> QED BY <2>2
<1> DEFINE t == CHOOSE u : Is(u)
<1>8. Is(t)
  <2> HIDE DEF Is
  <2> QED BY <1>7
<1>9. SumOf(s) = t[n]
  BY DEF SumOf, n
<1> HIDE DEF t
<1> DEFINE H == {k \in Nat : k <= n => t[k] \in Nat}
<1>10. 0 \in H
  <2>1. 0 \in 0 .. n
    BY <1>1
  <2> QED BY <1>8, <2>1
<1>11. ASSUME NEW k \in H PROVE k + 1 \in H
  <2> SUFFICES ASSUME k + 1 <= n PROVE t[k + 1] \in Nat
    OBVIOUS
  <2>1. k + 1 \in 0 .. n /\ k + 1 # 0 /\ (k + 1) - 1 = k /\ k <= n /\ k + 1 \in 1 .. n
    BY <1>1
  <2>2. t[k + 1] = t[k] + s[k + 1]
    BY <1>8, <2>1
  <2>3. t[k] \in Nat /\ s[k + 1] \in Nat
    BY <1>1, <2>1
  <2> QED BY <2>2, <2>3
<1> HIDE DEF H
<1>12. H = Nat
  BY <1>10, <1>11, Induction DEF H
<1>13. \A k \in 0 .. n : t[k] \in Nat
  <2> SUFFICES ASSUME NEW k \in 0 .. n PROVE t[k] \in Nat
    OBVIOUS
  <2>1. k \in H /\ k <= n
    BY <1>1, <1>12
  <2> QED BY <2>1 DEF H
<1>14. DOMAIN t = 0 .. n /\ t = [i \in 0 .. n |-> t[i]]
  BY <1>8
<1>15. t[0] = 0 /\ \A k \in 1 .. n : t[k] = t[k - 1] + s[k]
  BY <1>1, <1>8
<1>16. t \in [0 .. n -> Nat]
  BY <1>13, <1>14
<1>17. n \in 0 .. n
  BY <1>1
<1> QED BY <1>9, <1>13, <1>15, <1>16, <1>17 DEF AreSums, n

\* What is left of a space is a number of bytes.
LEMMA LeftIsNat ==
  ASSUME NEW s \in Spaces, NEW objects \in Nat
  PROVE  MaxAllocation(s, objects) \in Nat
<1> DEFINE sizes == [i \in 1 .. Len(s.frames) |-> s.frames[i].size]
           used == SumOf(sizes)
<1>1. s.max_size \in Nat /\ s.frames \in Seq(Frames)
  BY DEF Spaces
<1>2. sizes \in Seq(Nat)
  <2>1. \A i \in 1 .. Len(s.frames) : s.frames[i].size \in Nat
    <3>1. \A i \in 1 .. Len(s.frames) : s.frames[i] \in Frames
      BY <1>1
    <3> QED BY <3>1 DEF Frames
  <2>2. Len(s.frames) \in Nat
    BY <1>1
  <2> QED BY <2>1, <2>2
<1>3. used \in Nat
  BY <1>2, SumsExist
<1>4. MaxAllocation(s, objects)
        = IF s.max_size - used <= objects * 16 THEN 0 ELSE (s.max_size - used) - objects * 16
  BY DEF MaxAllocation, ALIGNMENT
<1> HIDE DEF used
<1>5. objects * 16 \in Nat
  OBVIOUS
<1> QED BY <1>1, <1>3, <1>4, <1>5

\* What an object takes of its frame.
Aligned(size) == ((size + 15) \div 16) * 16

\* Rounding adds 15 bytes at most.
LEMMA AlignedBelow ==
  ASSUME NEW size \in Nat
  PROVE  Aligned(size) \in Nat /\ Aligned(size) <= size + 15
BY DEF Aligned

\* A space with one more frame.
InFrame(s, size, offset) ==
  [max_size |-> s.max_size, frames |-> Append(s.frames, [size |-> size, offset |-> offset])]

\* It is a space, the one the allocation gives, and without that frame the one it was.
LEMMA FrameOnTop ==
  ASSUME NEW s \in Spaces, NEW size \in Nat, NEW offset \in Nat
  PROVE  /\ InFrame(s, size, offset) \in Spaces
         /\ Len(InFrame(s, size, offset).frames) = Len(s.frames) + 1
         /\ InFrame(s, size, offset).frames[Len(s.frames) + 1] = [size |-> size, offset |-> offset]
         /\ [s EXCEPT !.frames = Append(@, [size |-> size, offset |-> offset])] = InFrame(s, size, offset)
         /\ DeallocateFrame(InFrame(s, size, offset)) = s
<1> DEFINE f == [size |-> size, offset |-> offset]
           u == InFrame(s, size, offset)
           all == Append(s.frames, f)
<1>1. s.max_size \in Nat /\ s.frames \in Seq(Frames) /\ f \in Frames
  BY DEF Spaces, Frames
<1>2. s = [max_size |-> s.max_size, frames |-> s.frames]
  BY DEF Spaces
<1>3. u = [max_size |-> s.max_size, frames |-> all]
  BY DEF InFrame
<1>4. all \in Seq(Frames) /\ Len(all) = Len(s.frames) + 1 /\ all[Len(s.frames) + 1] = f
  BY <1>1
<1>5. SubSeq(all, 1, Len(all) - 1) = s.frames
  <2>1. Len(all) - 1 = Len(s.frames) /\ Len(s.frames) \in Nat
    BY <1>1, <1>4
  <2>2. SubSeq(all, 1, Len(s.frames)) = s.frames
    BY <1>1
  <2> QED BY <2>1, <2>2
<1>6. [s EXCEPT !.frames = Append(@, f)] = u
  <2>1. [s EXCEPT !.frames = Append(@, f)] = [s EXCEPT !.frames = all]
    BY Zenon
  <2> HIDE DEF f, all, u
  <2>2. [s EXCEPT !.frames = all] = [max_size |-> s.max_size, frames |-> all]
    BY DEF Spaces
  <2> QED BY <1>3, <2>1, <2>2
<1> HIDE DEF all, f, u
<1>7. u \in Spaces /\ u.frames = all /\ u.max_size = s.max_size
  BY <1>1, <1>3, <1>4 DEF Spaces
<1>8. [u EXCEPT !.frames = s.frames] = s
  BY <1>2, <1>7 DEF Spaces
<1>9. DeallocateFrame(u) = [u EXCEPT !.frames = s.frames]
  BY <1>5, <1>7 DEF DeallocateFrame
<1> QED BY <1>3, <1>4, <1>6, <1>7, <1>8, <1>9 DEF u, f

\* What is needed of that.
LEMMA FrameIs ==
  ASSUME NEW s \in Spaces, NEW size \in Nat, NEW offset \in Nat
  PROVE  /\ InFrame(s, size, offset) \in Spaces
         /\ Len(InFrame(s, size, offset).frames) = Len(s.frames) + 1
         /\ InFrame(s, size, offset).frames[Len(s.frames) + 1] = [size |-> size, offset |-> offset]
<1> DEFINE f == [size |-> size, offset |-> offset]
           u == InFrame(s, size, offset)
           all == Append(s.frames, f)
<1>1. s.max_size \in Nat /\ s.frames \in Seq(Frames) /\ f \in Frames
  BY DEF Spaces, Frames
<1>2. u = [max_size |-> s.max_size, frames |-> all]
  BY DEF InFrame
<1>3. all \in Seq(Frames) /\ Len(all) = Len(s.frames) + 1 /\ all[Len(s.frames) + 1] = f
  BY <1>1
<1> HIDE DEF all, f, u
<1>4. u \in Spaces /\ u.frames = all
  BY <1>1, <1>2, <1>3 DEF Spaces
<1>5. Len(u.frames) = Len(s.frames) + 1 /\ u.frames[Len(s.frames) + 1] = f
  BY <1>3, <1>4
<1> QED BY <1>4, <1>5 DEF u, f

\* The offset of the frame that was put last, moved.
LEMMA OffsetMoved ==
  ASSUME NEW s \in Spaces, NEW size \in Nat, NEW offset \in Nat, NEW step \in Nat
  PROVE  [InFrame(s, size, offset) EXCEPT !.frames[Len(s.frames) + 1].offset = @ + step]
           = InFrame(s, size, offset + step)
<1> DEFINE f == [size |-> size, offset |-> offset]
           g == [size |-> size, offset |-> offset + step]
           n == Len(s.frames)
           u == InFrame(s, size, offset)
           a == u.frames
           b == Append(s.frames, g)
           c == [a EXCEPT ![n + 1].offset = @ + step]
<1>1. s.frames \in Seq(Frames) /\ f \in Frames /\ g \in Frames /\ n \in Nat
  BY DEF Spaces, Frames
<1>2. u \in Spaces /\ a = Append(s.frames, f) /\ u.max_size = s.max_size
  BY FrameOnTop DEF InFrame
<1>3. /\ a \in Seq(Frames) /\ b \in Seq(Frames) /\ Len(a) = n + 1 /\ Len(b) = n + 1
      /\ a[n + 1] = f /\ b[n + 1] = g /\ \A i \in 1 .. n : a[i] = s.frames[i] /\ b[i] = s.frames[i]
  BY <1>1, <1>2
<1>4. InFrame(s, size, offset + step) = [max_size |-> s.max_size, frames |-> b]
  BY DEF InFrame
<1>5. [f EXCEPT !.offset = @ + step] = g
  OBVIOUS
<1>6. [a EXCEPT ![n + 1].offset = @ + step] = [a EXCEPT ![n + 1] = g]
  <2> HIDE DEF a, n, f, g
  <2>1. [a EXCEPT ![n + 1].offset = @ + step] = [a EXCEPT ![n + 1] = [a[n + 1] EXCEPT !.offset = @ + step]]
    OBVIOUS
  <2> QED BY <2>1, <1>3, <1>5
<1> HIDE DEF a, b, u, f, g
<1>7. c \in Seq(Frames) /\ Len(c) = n + 1 /\ \A i \in 1 .. n + 1 : c[i] = b[i]
  <2>1. c = [a EXCEPT ![n + 1] = g]
    BY <1>6
  <2> HIDE DEF c, n
  <2>2. c \in Seq(Frames) /\ Len(c) = n + 1 /\ c[n + 1] = g /\ \A i \in 1 .. n : c[i] = a[i]
    BY <1>1, <1>3, <2>1
  <2> QED BY <1>1, <1>3, <2>2
<1> HIDE DEF n
<1>8. [u EXCEPT !.frames[n + 1].offset = @ + step] = [max_size |-> s.max_size, frames |-> c]
  <2>1. [u EXCEPT !.frames[n + 1].offset = @ + step] = [u EXCEPT !.frames = c]
    BY DEF a
  <2> HIDE DEF c
  <2>2. [u EXCEPT !.frames = c] = [max_size |-> u.max_size, frames |-> c]
    BY <1>2 DEF Spaces
  <2> QED BY <1>2, <2>1, <2>2
<1> HIDE DEF c
<1>9. c = b
  BY <1>1, <1>3, <1>7
<1> QED BY <1>4, <1>8, <1>9 DEF u, n

\* An object that fits is granted.
LEMMA AllocFits ==
  ASSUME NEW s \in Spaces, NEW size \in Nat, NEW offset \in Nat, NEW object \in Nat,
         Aligned(object) + offset <= size
  PROVE  Alloc(InFrame(s, size, offset), object)
           = [ok |-> TRUE, s |-> InFrame(s, size, offset + Aligned(object))]
<1> DEFINE u == InFrame(s, size, offset)
           n == Len(s.frames) + 1
           r == Aligned(object)
<1>1. /\ u \in Spaces /\ Len(u.frames) = n /\ u.frames[n] = [size |-> size, offset |-> offset]
      /\ n \in Nat /\ n # 0 /\ r \in Nat
  <2>1. s.frames \in Seq(Frames)
    BY DEF Spaces
  <2>2. n \in Nat /\ n # 0
    BY <2>1
  <2>3. u \in Spaces /\ Len(u.frames) = n /\ u.frames[n] = [size |-> size, offset |-> offset]
    <3>1. u \in Spaces
      BY FrameIs, Zenon
    <3>2. Len(u.frames) = n
      BY FrameIs, Zenon
    <3>3. u.frames[n] = [size |-> size, offset |-> offset]
      BY FrameIs, Zenon
    <3> QED BY <3>1, <3>2, <3>3, Zenon
  <2>4. r \in Nat
    BY AlignedBelow, Zenon
  <2> QED BY <2>2, <2>3, <2>4, Zenon
<1>2. ((object + ALIGNMENT - 1) \div ALIGNMENT) * ALIGNMENT = r
  BY DEF ALIGNMENT, Aligned
<1>3. [u EXCEPT !.frames[n].offset = @ + r] = InFrame(s, size, offset + r)
  <2>1. r \in Nat
    BY <1>1
  <2> HIDE DEF r
  <2> QED BY <2>1, OffsetMoved, SMTT(30)
<1> HIDE DEF u, n, r
<1>4. u.frames[n].offset = offset /\ u.frames[n].size = size /\ ~(r + offset > size)
  BY <1>1 DEF r
<1> DEFINE v == [u EXCEPT !.frames[n].offset = @ + r]
<1>5. Alloc(u, object) = [ok |-> TRUE, s |-> v]
  BY <1>1, <1>2, <1>4 DEF Alloc
<1> QED BY <1>3, <1>5 DEF u, r

\* Sums of numbers only grow.
LEMMA SumsGrow ==
  ASSUME NEW s \in Seq(Nat), NEW t, AreSums(t, s), NEW k \in 0 .. Len(s)
  PROVE  t[k] <= t[Len(s)]
<1> DEFINE n == Len(s)
           H == {j \in Nat : j <= n => t[n - j] <= t[n]}
<1>1. n \in Nat /\ t \in [0 .. n -> Nat] /\ \A i \in 1 .. n : t[i] = t[i - 1] + s[i] /\ s[i] \in Nat
  BY DEF AreSums
<1> HIDE DEF n
<1>2. 0 \in H
  <2>1. n - 0 = n /\ n \in 0 .. n
    BY <1>1
  <2>2. t[n] \in Nat
    BY <1>1, <2>1
  <2> QED BY <2>1, <2>2
<1>3. ASSUME NEW j \in H PROVE j + 1 \in H
  <2> SUFFICES ASSUME j + 1 <= n PROVE t[n - (j + 1)] <= t[n]
    OBVIOUS
  <2>1. j \in Nat /\ j <= n /\ n - j \in 1 .. n /\ (n - j) - 1 = n - (j + 1) /\ n - (j + 1) \in 0 .. n
    BY <1>1
  <2>2. t[n - j] <= t[n] /\ n \in 0 .. n /\ n - j \in 0 .. n
    BY <1>1, <2>1
  <2>3. t[n - j] = t[n - (j + 1)] + s[n - j] /\ s[n - j] \in Nat
    BY <1>1, <2>1
  <2>4. t[n - (j + 1)] \in Nat /\ t[n] \in Nat
    BY <1>1, <2>1, <2>2
  <2> QED BY <2>2, <2>3, <2>4
<1> HIDE DEF H
<1>4. H = Nat
  BY <1>2, <1>3, Induction DEF H
<1>5. n - k \in H /\ n - k <= n /\ n - (n - k) = k
  BY <1>1, <1>4 DEF n
<1> QED BY <1>5 DEF H, n

\* Up to six objects that together need no more than the frame are all granted: the frame has 16
\* bytes more for each, which is what the rounding can take.  Then the space is as it was.
LEMMA GrantedFits ==
  ASSUME NEW s \in Spaces, NEW objects \in Seq(Nat), Len(objects) <= OBJECTS,
         NEW size \in Nat, size <= MaxAllocation(s, OBJECTS), SumOf(objects) <= size
  PROVE  Granted(s, size, objects) = [frame |-> TRUE, objects |-> TRUE, s |-> s]
<1> DEFINE n == Len(objects)
           room == size + 96
           rounded == [i \in 1 .. n |-> Aligned(objects[i])]
           Is(u) == u = [k \in 0 .. n |->
                           IF k = 0 THEN [ok |-> TRUE, s |-> AllocateFrame(s, size, OBJECTS).s]
                           ELSE [ok |-> u[k - 1].ok /\ Alloc(u[k - 1].s, objects[k]).ok,
                                 s |-> Alloc(u[k - 1].s, objects[k]).s]]
           taken == CHOOSE u : Is(u)
<1>1. n \in Nat /\ n <= 6 /\ room \in Nat /\ \A i \in 1 .. n : objects[i] \in Nat
  BY DEF OBJECTS
<1>2. AllocateFrame(s, size, OBJECTS) = [ok |-> TRUE, s |-> InFrame(s, room, 0)]
  <2>1. size + OBJECTS * ALIGNMENT = room
    BY DEF OBJECTS, ALIGNMENT
  <2>2. [s EXCEPT !.frames = Append(@, [size |-> room, offset |-> 0])] = InFrame(s, room, 0)
    BY <1>1, FrameOnTop
  <2> HIDE DEF room
  <2> QED BY <2>1, <2>2 DEF AllocateFrame
<1>3. Granted(s, size, objects)
        = [frame |-> TRUE, objects |-> taken[n].ok, s |-> DeallocateFrame(taken[n].s)]
  <2>1. Granted(s, size, objects)
          = IF ~AllocateFrame(s, size, OBJECTS).ok THEN [frame |-> FALSE, objects |-> FALSE, s |-> s]
            ELSE [frame |-> TRUE, objects |-> taken[n].ok, s |-> DeallocateFrame(taken[n].s)]
    BY Zenon DEF Granted, taken, Is, n
  <2>2. AllocateFrame(s, size, OBJECTS).ok
    BY <1>2
  <2> QED BY <2>1, <2>2
<1>4. rounded \in Seq(Nat) /\ Len(rounded) = n /\ \A i \in 1 .. n : rounded[i] = Aligned(objects[i])
  <2>1. \A i \in 1 .. n : Aligned(objects[i]) \in Nat
    BY <1>1, AlignedBelow
  <2> HIDE DEF n
  <2> QED BY <1>1, <2>1
<1> HIDE DEF rounded, room
<1>5. PICK r : AreSums(r, rounded)
  BY <1>4, SumsExist
<1>6. PICK t : AreSums(t, objects) /\ SumOf(objects) = t[n]
  BY SumsExist
<1>7. ASSUME NEW k \in 0 .. n PROVE r[k] \in Nat /\ r[k] <= room
  <2> DEFINE H == {j \in Nat : j <= n => r[j] <= t[j] + 15 * j}
  <2>1. 0 \in H
    BY <1>5, <1>6 DEF AreSums
  <2>2. ASSUME NEW j \in H PROVE j + 1 \in H
    <3> SUFFICES ASSUME j + 1 <= n PROVE r[j + 1] <= t[j + 1] + 15 * (j + 1)
      OBVIOUS
    <3>1. j \in Nat /\ j <= n /\ j + 1 \in 1 .. n /\ (j + 1) - 1 = j /\ j \in 0 .. n
      BY <1>1
    <3>2. r[j + 1] = r[j] + rounded[j + 1] /\ t[j + 1] = t[j] + objects[j + 1]
      BY <1>4, <1>5, <1>6, <3>1 DEF AreSums
    <3>3. objects[j + 1] \in Nat /\ rounded[j + 1] \in Nat /\ rounded[j + 1] <= objects[j + 1] + 15
      BY <1>1, <1>4, <3>1, AlignedBelow
    <3>4. r[j] \in Nat /\ t[j] \in Nat /\ r[j] <= t[j] + 15 * j
      BY <1>4, <1>5, <1>6, <3>1 DEF AreSums
    <3> DEFINE a == r[j]
               b == t[j]
               c == rounded[j + 1]
               d == objects[j + 1]
    <3>5. a \in Nat /\ b \in Nat /\ c \in Nat /\ d \in Nat /\ a <= b + 15 * j /\ c <= d + 15
      BY <3>3, <3>4
    <3> HIDE DEF a, b, c, d
    <3>6. a + c <= (b + d) + 15 * (j + 1)
      BY <3>1, <3>5
    <3> QED BY <3>2, <3>6 DEF a, b, c, d
  <2> HIDE DEF H
  <2>3. H = Nat
    BY <2>1, <2>2, Induction DEF H
  <2>4. k \in H /\ k <= n /\ k <= 6 /\ k \in Nat
    BY <1>1, <2>3
  <2>5. r[k] \in Nat /\ t[k] \in Nat /\ t[k] <= t[n] /\ t[n] <= size
    <3>1. t[k] <= t[n]
      BY <1>6, SumsGrow
    <3>2. r[k] \in Nat /\ t[k] \in Nat
      BY <1>4, <1>5, <1>6 DEF AreSums
    <3> QED BY <1>6, <3>1, <3>2
  <2>6. t[n] \in Nat
    <3>1. n \in 0 .. n /\ t \in [0 .. n -> Nat]
      BY <1>1, <1>6 DEF AreSums
    <3> HIDE DEF n
    <3> QED BY <3>1
  <2>7. r[k] <= t[k] + 15 * k
    BY <2>4 DEF H
  <2> HIDE DEF n
  <2> QED BY <2>4, <2>5, <2>6, <2>7 DEF room
<1> DEFINE At(k) == [ok |-> TRUE, s |-> InFrame(s, room, r[k])]
<1>8. ASSUME NEW k \in 1 .. n
      PROVE  Alloc(InFrame(s, room, r[k - 1]), objects[k]) = At(k) /\ k - 1 \in 0 .. n
  <2>1. k - 1 \in 0 .. n /\ k \in 0 .. n /\ objects[k] \in Nat
    BY <1>1
  <2>2. r[k] = r[k - 1] + Aligned(objects[k])
    BY <1>4, <1>5 DEF AreSums
  <2>3. r[k - 1] \in Nat /\ r[k] <= room /\ Aligned(objects[k]) \in Nat
    BY <1>7, <2>1, AlignedBelow
  <2>4. Aligned(objects[k]) + r[k - 1] <= room /\ r[k - 1] + Aligned(objects[k]) = r[k]
    BY <2>2, <2>3
  <2> HIDE DEF n
  <2>5. Alloc(InFrame(s, room, r[k - 1]), objects[k])
          = [ok |-> TRUE, s |-> InFrame(s, room, r[k - 1] + Aligned(objects[k]))]
    <3> DEFINE a == r[k - 1]
               o == objects[k]
    <3>1. a \in Nat /\ o \in Nat /\ room \in Nat /\ Aligned(o) + a <= room
      BY <1>1, <2>1, <2>3, <2>4
    <3> HIDE DEF a, o
    <3>2. Alloc(InFrame(s, room, a), o) = [ok |-> TRUE, s |-> InFrame(s, room, a + Aligned(o))]
      BY <3>1, AllocFits, ZenonT(60)
    <3> QED BY <3>2 DEF a, o
  <2> QED BY <2>1, <2>4, <2>5
<1>9. r[0] = 0
  BY <1>5 DEF AreSums
<1>10. Is([k \in 0 .. n |-> At(k)])
  <2> DEFINE u == [k \in 0 .. n |-> At(k)]
  <2>1. ASSUME NEW k \in 0 .. n
        PROVE  u[k] = IF k = 0 THEN [ok |-> TRUE, s |-> AllocateFrame(s, size, OBJECTS).s]
                      ELSE [ok |-> u[k - 1].ok /\ Alloc(u[k - 1].s, objects[k]).ok,
                            s |-> Alloc(u[k - 1].s, objects[k]).s]
    <3>1. CASE k = 0
      <4>1. u[k] = At(k) /\ At(k) = [ok |-> TRUE, s |-> InFrame(s, room, 0)]
        BY <1>9, <3>1
      <4> HIDE DEF u, At
      <4> QED BY <1>2, <3>1, <4>1
    <3>2. CASE k # 0
      <4>1. k \in 1 .. n
        BY <1>1, <3>2
      <4>2. u[k] = At(k) /\ u[k - 1] = At(k - 1)
        BY <1>8, <4>1
      <4>3. Alloc(InFrame(s, room, r[k - 1]), objects[k]) = At(k)
        BY <1>8, <4>1
      <4>4. u[k - 1].ok = TRUE /\ u[k - 1].s = InFrame(s, room, r[k - 1])
        BY <4>2
      <4>5. At(k).ok = TRUE /\ At(k) = [ok |-> At(k).ok, s |-> At(k).s]
        OBVIOUS
      <4> HIDE DEF u, n, At
      <4> QED BY <3>2, <4>2, <4>3, <4>4, <4>5
    <3> QED BY <3>1, <3>2
  <2>2. u = [k \in 0 .. n |->
               IF k = 0 THEN [ok |-> TRUE, s |-> AllocateFrame(s, size, OBJECTS).s]
               ELSE [ok |-> u[k - 1].ok /\ Alloc(u[k - 1].s, objects[k]).ok,
                     s |-> Alloc(u[k - 1].s, objects[k]).s]]
    BY <2>1
  <2> QED BY <2>2
<1>11. Is(taken)
  <2> HIDE DEF Is
  <2> QED BY <1>10
<1> HIDE DEF taken
<1> DEFINE H == {k \in Nat : k <= n => taken[k] = At(k)}
<1>12. 0 \in H
  <2>1. 0 \in 0 .. n
    BY <1>1
  <2>2. taken[0] = [ok |-> TRUE, s |-> AllocateFrame(s, size, OBJECTS).s]
    BY <1>11, <2>1
  <2>3. At(0) = [ok |-> TRUE, s |-> InFrame(s, room, 0)]
    BY <1>9
  <2> HIDE DEF At, n, Is
  <2>4. taken[0] = At(0)
    BY <1>2, <2>2, <2>3
  <2> QED BY <2>4
<1>13. ASSUME NEW k \in H PROVE k + 1 \in H
  <2> SUFFICES ASSUME k + 1 <= n PROVE taken[k + 1] = At(k + 1)
    OBVIOUS
  <2>1. k \in Nat /\ k + 1 \in 0 .. n /\ k + 1 \in 1 .. n /\ k + 1 # 0 /\ (k + 1) - 1 = k /\ k <= n
    BY <1>1
  <2>2. taken[k] = At(k)
    BY <2>1
  <2>3. taken[k + 1] = [ok |-> taken[k].ok /\ Alloc(taken[k].s, objects[k + 1]).ok,
                        s |-> Alloc(taken[k].s, objects[k + 1]).s]
    BY <1>11, <2>1
  <2>4. Alloc(InFrame(s, room, r[k]), objects[k + 1]) = At(k + 1)
    BY <1>8, <2>1
  <2>5. /\ At(k).ok = TRUE /\ At(k).s = InFrame(s, room, r[k])
        /\ At(k + 1).ok = TRUE /\ At(k + 1) = [ok |-> At(k + 1).ok, s |-> At(k + 1).s]
    OBVIOUS
  <2> HIDE DEF n, At, Is
  <2> QED BY <2>2, <2>3, <2>4, <2>5
<1> HIDE DEF H
<1>14. H = Nat
  BY <1>12, <1>13, Induction DEF H
<1>15. taken[n] = At(n)
  <2>1. n \in H /\ n <= n
    BY <1>1, <1>14
  <2> QED BY <2>1 DEF H
<1>16. r[n] \in Nat
  <2>1. n \in 0 .. n
    BY <1>1
  <2> QED BY <1>7, <2>1
<1>17. DeallocateFrame(InFrame(s, room, r[n])) = s
  BY <1>1, <1>16, FrameOnTop
<1>18. At(n).ok = TRUE /\ At(n).s = InFrame(s, room, r[n])
  OBVIOUS
<1> HIDE DEF At, n
<1> QED BY <1>3, <1>15, <1>17, <1>18

-----------------------------------------------------------------------------
(* The batches of the method of Strauss. *)

\* What is in a sequence of numbers.
LEMMA Members ==
  ASSUME NEW s \in Seq(Nat)
  PROVE  \A k \in 1 .. Len(s) : s[k] \in Nat
OBVIOUS

\* The sum of six.
LEMMA SumOfSix ==
  ASSUME NEW s \in Seq(Nat), Len(s) = 6
  PROVE  SumOf(s) = s[1] + s[2] + s[3] + s[4] + s[5] + s[6]
<1>1. \A k \in 1 .. 6 : s[k] \in Nat
  <2>1. \A k \in 1 .. Len(s) : s[k] \in Nat
    BY Members
  <2> QED BY <2>1
<1>3. PICK t : AreSums(t, s) /\ SumOf(s) = t[6]
  BY SumsExist
<1>4. t[0] = 0 /\ \A k \in 1 .. 6 : t[k] = t[k - 1] + s[k]
  BY <1>3 DEF AreSums
<1>5. /\ t[1] = t[0] + s[1] /\ t[2] = t[1] + s[2] /\ t[3] = t[2] + s[3]
      /\ t[4] = t[3] + s[4] /\ t[5] = t[4] + s[5] /\ t[6] = t[5] + s[6]
  <2>1. 1 - 1 = 0 /\ 2 - 1 = 1 /\ 3 - 1 = 2 /\ 4 - 1 = 3 /\ 5 - 1 = 4 /\ 6 - 1 = 5
    OBVIOUS
  <2>2. 1 \in 1 .. 6 /\ 2 \in 1 .. 6 /\ 3 \in 1 .. 6 /\ 4 \in 1 .. 6 /\ 5 \in 1 .. 6 /\ 6 \in 1 .. 6
    OBVIOUS
  <2> QED BY <1>4, <2>1, <2>2
<1>6. t[6] = s[1] + s[2] + s[3] + s[4] + s[5] + s[6]
  BY <1>1, <1>4, <1>5
<1> QED BY <1>3, <1>6

\* The sizes of the C structures.
LEMMA StructSizes ==
  /\ Sizeof.gej = 124 /\ Sizeof.ge = 84 /\ Sizeof.fe = 40 /\ Sizeof.scalar = 32 /\ Sizeof.int = 4
  /\ Sizeof.strauss_point = 1040 /\ Sizeof.pippenger_point = 16 /\ Sizeof.pippenger = 16
BY DEF Sizeof

\* What the widths of windows must be: in the code 256 bits and windows of 5 bits.
Widths == WNAF_BITS \in Nat /\ WINDOW_A \in Nat /\ WINDOW_A >= 2

\* As many points as strauss_max_points says, or fewer, find room for all their objects, and the
\* space is left as it was.
THEOREM StraussFits ==
  ASSUME Widths, NEW s \in Spaces, NEW n \in Nat, n <= StraussMaxPoints(s)
  PROVE  StraussGranted(s, n) = [frame |-> TRUE, objects |-> TRUE, s |-> s]
<1> DEFINE table == 2^(WINDOW_A - 2)
           each == StraussScratchSize(1)
           size == StraussScratchSize(n)
           most == MaxAllocation(s, OBJECTS)
           total == n * table
<1>1. table \in Nat \ {0}
  <2>1. WINDOW_A - 2 \in Nat
    BY DEF Widths
  <2> QED BY <2>1, PowerIsNat
<1>2. most \in Nat
  BY LeftIsNat DEF OBJECTS
<1> HIDE DEF table
<1>3. each = 248 * table + 1196 /\ size = n * (248 * table + 1196)
  <2>1. \A k \in Nat : StraussScratchSize(k) = k * (248 * table + 1196)
    BY <1>1, StructSizes DEF StraussScratchSize, table
  <2>2. 1 * (248 * table + 1196) = 248 * table + 1196
    BY <1>1
  <2> QED BY <2>1, <2>2
<1>4. total \in Nat
  BY <1>1
<1>5. size = 248 * total + 1196 * n /\ size \in Nat
  <2>1. n * (248 * table + 1196) = 248 * (n * table) + 1196 * n
    BY <1>1
  <2>2. size = 248 * total + 1196 * n
    BY <1>3, <2>1
  <2> HIDE DEF total, size
  <2> QED BY <1>4, <2>2
<1>6. size <= most
  <2>1. each \in Nat \ {0} /\ n <= most \div each
    BY <1>1, <1>3 DEF StraussMaxPoints
  <2>2. size = each * n
    BY <1>1, <1>3
  <2> HIDE DEF each, most, size
  <2>3. most \div each \in Nat /\ each * (most \div each) <= most
    <3>1. most \in Nat /\ each \in Nat \ {0}
      BY <1>2, <2>1
    <3> DEFINE q == most \div each
               r == most % each
    <3>2. q \in Nat /\ r \in 0 .. each - 1 /\ most = (each * q) + r
      BY <3>1, Division, Zenon
    <3> HIDE DEF q, r
    <3>3. each * q \in Nat
      BY <3>1, <3>2
    <3>4. each * q <= most
      BY <3>1, <3>2, <3>3
    <3> QED BY <3>2, <3>4 DEF q
  <2>4. each * n <= each * (most \div each)
    BY <2>1, <2>3
  <2> QED BY <1>2, <2>1, <2>2, <2>3, <2>4
<1> DEFINE objects == StraussObjects(n)
<1>7. objects = <<n * 124, n * 32, total * 124, total * 40, total * 84, n * 1040>>
  BY StructSizes DEF StraussObjects, table
<1>8. n * 124 \in Nat /\ n * 32 \in Nat /\ total * 124 \in Nat /\ total * 40 \in Nat
      /\ total * 84 \in Nat /\ n * 1040 \in Nat
  BY <1>4
<1> HIDE DEF total, objects
<1>9. /\ objects \in Seq(Nat) /\ Len(objects) <= OBJECTS
      /\ SumOf(objects) = n * 124 + n * 32 + total * 124 + total * 40 + total * 84 + n * 1040
  <2> DEFINE a == n * 124
             b == n * 32
             c == total * 124
             d == total * 40
             e == total * 84
             f == n * 1040
  <2>1. a \in Nat /\ b \in Nat /\ c \in Nat /\ d \in Nat /\ e \in Nat /\ f \in Nat
    BY <1>8
  <2>2. objects = <<a, b, c, d, e, f>>
    BY <1>7
  <2> HIDE DEF a, b, c, d, e, f
  <2>3. objects \in Seq(Nat) /\ Len(objects) = 6
    BY <2>1, <2>2
  <2>4. /\ objects[1] = a /\ objects[2] = b /\ objects[3] = c
        /\ objects[4] = d /\ objects[5] = e /\ objects[6] = f
    BY <2>2
  <2>5. SumOf(objects) = a + b + c + d + e + f
    BY <2>3, <2>4, SumOfSix
  <2> QED BY <2>3, <2>5 DEF a, b, c, d, e, f, OBJECTS
<1>10. SumOf(objects) <= size
  <2>1. n * 124 + n * 32 + total * 124 + total * 40 + total * 84 + n * 1040 = 248 * total + 1196 * n
    BY <1>4
  <2> QED BY <1>5, <1>9, <2>1
<1> HIDE DEF size, most
<1>11. Granted(s, size, objects) = [frame |-> TRUE, objects |-> TRUE, s |-> s]
  <2>1. size \in Nat /\ size <= MaxAllocation(s, OBJECTS)
    BY <1>5, <1>6 DEF most
  <2>2. objects \in Seq(Nat) /\ Len(objects) <= OBJECTS /\ SumOf(objects) <= size
    BY <1>9, <1>10
  <2> QED BY <2>1, <2>2, GrantedFits, Zenon
<1> QED BY <1>11 DEF StraussGranted, size, objects

-----------------------------------------------------------------------------
(* The batches of the method of Pippenger. *)

\* The windows, the sizes of an entry and of what comes once.
WindowSizes == 1 .. 12

\* They are numbers of bytes.
LEMMA Entries ==
  ASSUME Widths, NEW w \in WindowSizes
  PROVE  /\ WNAF_SIZE(w + 1) \in Nat /\ 2^w \in Nat
         /\ EntrySize(w) = 136 + 4 * WNAF_SIZE(w + 1) /\ EntrySize(w) \in Nat \ {0}
         /\ Overhead(w) = 124 * 2^w + EntrySize(w) + 16 /\ Overhead(w) \in Nat
<1>1. w \in Nat /\ w + 1 \in Nat \ {0} /\ WNAF_BITS \in Nat
  BY DEF WindowSizes, Widths
<1>2. WNAF_SIZE(w + 1) \in Nat
  <2> DEFINE a == WNAF_BITS + (w + 1) - 1
             d == w + 1
  <2>1. a \in Nat /\ d \in Nat \ {0}
    BY <1>1
  <2>2. WNAF_SIZE(w + 1) = a \div d
    BY DEF WNAF_SIZE
  <2> HIDE DEF a, d
  <2> QED BY <2>1, <2>2, Division
<1>3. 2^w \in Nat
  BY <1>1, PowerIsNat
<1>4. EntrySize(w) = 136 + 4 * WNAF_SIZE(w + 1)
  BY <1>2, StructSizes DEF EntrySize
<1>5. EntrySize(w) \in Nat \ {0}
  BY <1>2, <1>4
<1>6. Overhead(w) = 124 * 2^w + EntrySize(w) + 16
  BY StructSizes DEF Overhead
<1> QED BY <1>2, <1>3, <1>4, <1>5, <1>6

\* A batch of n points finds room when what comes once and n entries do.
LEMMA EntriesFit ==
  ASSUME Widths, NEW s \in Spaces, NEW w \in WindowSizes, NEW n \in Nat,
         Overhead(w) + n * EntrySize(w) <= MaxAllocation(s, OBJECTS)
  PROVE  Granted(s, PippengerScratchSize(n, w), PippengerObjects(n, w))
           = [frame |-> TRUE, objects |-> TRUE, s |-> s]
<1> DEFINE wide == WNAF_SIZE(w + 1)
           power == 2^w
           entry == EntrySize(w)
           size == PippengerScratchSize(n, w)
           objects == PippengerObjects(n, w)
           entries == n + 1
           all == entries * wide
<1>1. /\ wide \in Nat /\ power \in Nat /\ entry = 136 + 4 * wide
      /\ Overhead(w) = 124 * power + entry + 16
  BY Entries
<1>2. size = 124 * power + 16 + entries * entry
  BY StructSizes DEF PippengerScratchSize
<1>3. objects = <<entries * 84, entries * 32, 16, entries * 16, all * 4, 124 * power>>
  BY StructSizes DEF PippengerObjects
<1>4. entries \in Nat /\ all \in Nat
  BY <1>1
<1>5. entries * entry = 136 * entries + 4 * all /\ entries * entry = n * entry + entry
  <2> HIDE DEF wide, entry
  <2>1. entries * (136 + 4 * wide) = 136 * entries + 4 * (entries * wide)
    BY <1>1
  <2>2. (n + 1) * entry = n * entry + entry
    BY <1>1
  <2> QED BY <1>1, <2>1, <2>2
<1> DEFINE some == n * entry
<1>6. some \in Nat /\ entry \in Nat
  BY <1>1
<1>7. size \in Nat /\ size <= MaxAllocation(s, OBJECTS)
  <2>1. Overhead(w) + some <= MaxAllocation(s, OBJECTS)
    OBVIOUS
  <2> HIDE DEF size, some, entry, power, entries, all, wide
  <2>2. entries * entry = some + entry
    BY <1>5 DEF some
  <2>3. size = Overhead(w) + some
    BY <1>1, <1>2, <1>6, <2>2
  <2>4. Overhead(w) \in Nat
    BY <1>1, <1>6
  <2> QED BY <1>6, <2>1, <2>3, <2>4
<1>8. objects \in Seq(Nat) /\ Len(objects) = 6 /\ SumOf(objects) = 132 * entries + 16 + 4 * all + 124 * power
  <2> DEFINE a == entries * 84
             b == entries * 32
             d == entries * 16
             e == all * 4
             f == 124 * power
  <2>1. a \in Nat /\ b \in Nat /\ d \in Nat /\ e \in Nat /\ f \in Nat
    BY <1>1, <1>4
  <2>2. objects = <<a, b, 16, d, e, f>>
    BY <1>3
  <2>3. a + b + 16 + d + e + f = 132 * entries + 16 + 4 * all + 124 * power
    <3> HIDE DEF entries, all, power
    <3> QED BY <1>1, <1>4
  <2> HIDE DEF a, b, d, e, f, objects
  <2>4. objects \in Seq(Nat) /\ Len(objects) = 6
    BY <2>1, <2>2
  <2>5. /\ objects[1] = a /\ objects[2] = b /\ objects[3] = 16
        /\ objects[4] = d /\ objects[5] = e /\ objects[6] = f
    BY <2>2
  <2>6. SumOf(objects) = a + b + 16 + d + e + f
    BY <2>4, <2>5, SumOfSix
  <2> QED BY <2>3, <2>4, <2>6
<1>9. SumOf(objects) <= size
  <2> HIDE DEF size, entry, power, entries, all, wide, objects
  <2> QED BY <1>1, <1>2, <1>4, <1>5, <1>8
<1> HIDE DEF size, objects
<1>10. Len(objects) <= OBJECTS
  BY <1>8 DEF OBJECTS
<1>11. Granted(s, size, objects) = [frame |-> TRUE, objects |-> TRUE, s |-> s]
  BY <1>7, <1>8, <1>9, <1>10, GrantedFits, Zenon
<1> QED BY <1>11 DEF size, objects

\* The limits of the windows but the last.
LEMMA Limits ==
  /\ Len(WindowLimits) = 11
  /\ \A w \in 1 .. 11 : WindowLimits[w] \in Nat
<1>1. WindowLimits \in Seq(Nat) /\ Len(WindowLimits) = 11
  BY DEF WindowLimits
<1>2. \A w \in 1 .. Len(WindowLimits) : WindowLimits[w] \in Nat
  BY <1>1, Members
<1> QED BY <1>1, <1>2

\* The window for a number of points: its limit is high enough, and no lower one's is.
LEMMA BestWindow ==
  ASSUME NEW n \in Nat
  PROVE  /\ BucketWindow(n) \in WindowSizes
         /\ BucketWindow(n) <= 11 => n <= WindowLimits[BucketWindow(n)]
         /\ \A v \in 1 .. 11 : n <= WindowLimits[v] => BucketWindow(n) <= v
<1> DEFINE X == {w \in 1 .. Len(WindowLimits) : n <= WindowLimits[w]} \cup {PIPPENGER_MAX_BUCKET_WINDOW}
           m == BucketWindow(n)
<1>1. X = {w \in 1 .. 11 : n <= WindowLimits[w]} \cup {12}
  BY Limits DEF PIPPENGER_MAX_BUCKET_WINDOW
<1>2. m = CHOOSE a \in X : \A b \in X : a <= b
  BY DEF BucketWindow, Min
<1> HIDE DEF X, m
<1>3. X \in SUBSET Nat /\ X # {}
  BY <1>1
<1>4. \E a \in X : \A b \in X : a <= b
  BY <1>3, LeastNatural
<1>5. m \in X /\ \A b \in X : m <= b
  BY <1>2, <1>4
<1>6. m \in WindowSizes
  BY <1>1, <1>5 DEF WindowSizes
<1>7. m <= 11 => n <= WindowLimits[m]
  BY <1>1, <1>5
<1>8. \A v \in 1 .. 11 : n <= WindowLimits[v] => m <= v
  BY <1>1, <1>5
<1> QED BY <1>6, <1>7, <1>8 DEF m

\* The points that fit are no more than the window's limit, nor than there is memory for.
LEMMA FittingBelow ==
  ASSUME Widths, NEW most \in Nat, NEW w \in WindowSizes, Overhead(w) <= most
  PROVE  /\ Fitting(most, w) \in Nat
         /\ w <= 11 => Fitting(most, w) <= WindowLimits[w]
         /\ \A n \in Nat : n <= Fitting(most, w) => Overhead(w) + n * EntrySize(w) <= most
<1> DEFINE entry == EntrySize(w)
           over == Overhead(w)
           rest == most - over
           q == rest \div entry
           f == Fitting(most, w)
<1>1. entry \in Nat \ {0} /\ over \in Nat /\ rest \in Nat
  BY Entries
<1>2. q \in Nat /\ entry * q <= rest
  <2> DEFINE r == rest % entry
  <2> HIDE DEF entry, rest
  <2>1. q \in Nat /\ r \in 0 .. entry - 1 /\ rest = (entry * q) + r
    BY <1>1, Division, Zenon
  <2> HIDE DEF q, r
  <2>2. entry * q \in Nat
    BY <1>1, <2>1
  <2> QED BY <1>1, <2>1, <2>2
<1>3. f = IF w <= 11 /\ q > WindowLimits[w] THEN WindowLimits[w] ELSE q
  BY Limits DEF Fitting, BucketWindowInv
<1>4. w \in Nat /\ (w <= 11 => WindowLimits[w] \in Nat)
  BY Limits DEF WindowSizes
<1> HIDE DEF entry, over, rest, q, f
<1>5. f \in Nat /\ f <= q /\ (w <= 11 => f <= WindowLimits[w])
  BY <1>2, <1>3, <1>4
<1>6. ASSUME NEW n \in Nat, n <= f PROVE over + n * entry <= most
  <2>1. n <= q
    BY <1>2, <1>5, <1>6
  <2>2. n * entry <= entry * q /\ n * entry \in Nat /\ entry * q \in Nat
    BY <1>1, <1>2, <2>1
  <2> DEFINE a == n * entry
             b == entry * q
  <2>3. a <= b /\ a \in Nat /\ b \in Nat /\ b <= rest
    BY <1>2, <2>2
  <2> HIDE DEF a, b
  <2>4. over + a <= most
    BY <1>1, <2>3 DEF rest
  <2> QED BY <2>4 DEF a
<1> QED BY <1>5, <1>6 DEF f, over, entry

\* What the loop over the windows has found, when it has tried the windows up to w: the points of
\* a window that fit, all windows before which have memory up to their limits.
Tried(most, w, l) ==
  /\ l \in [res : Nat, over : BOOLEAN]
  /\ l.res # 0 =>
       \E v \in 1 .. w :
          /\ Overhead(v) <= most /\ l.res <= Fitting(most, v)
          /\ \A u \in 1 .. v - 1 : Overhead(u) <= most /\ WindowLimits[u] <= Fitting(most, u)
  /\ ~l.over => \A u \in 1 .. w : u <= 11 /\ Overhead(u) <= most /\ WindowLimits[u] <= Fitting(most, u)

\* One turn of it.
TurnOf(most, w, before) ==
  LET n == Fitting(most, w)
  IN  IF before.over \/ Overhead(w) > most THEN [res |-> before.res, over |-> TRUE]
      ELSE [res |-> IF n > before.res THEN n ELSE before.res,
            over |-> w > Len(WindowLimits) \/ n < WindowLimits[w]]

\* Each turn keeps that.
LEMMA TurnTries ==
  ASSUME Widths, NEW most \in Nat, NEW w \in WindowSizes, NEW before, Tried(most, w - 1, before)
  PROVE  Tried(most, w, TurnOf(most, w, before))
<1> DEFINE l == TurnOf(most, w, before)
           n == Fitting(most, w)
<1>1. /\ w \in Nat /\ w \in 1 .. w /\ \A u \in 1 .. w : u = w \/ u \in 1 .. w - 1
      /\ \A u \in 1 .. w - 1 : u \in 1 .. w
  BY DEF WindowSizes
<1>2. before.res \in Nat /\ before.over \in BOOLEAN
  BY DEF Tried
<1>3. before.res # 0 =>
       \E v \in 1 .. w - 1 :
          /\ Overhead(v) <= most /\ before.res <= Fitting(most, v)
          /\ \A u \in 1 .. v - 1 : Overhead(u) <= most /\ WindowLimits[u] <= Fitting(most, u)
  BY Zenon DEF Tried
<1>4. CASE before.over \/ Overhead(w) > most
  <2>1. l = [res |-> before.res, over |-> TRUE]
    BY <1>4 DEF TurnOf
  <2>2. l.res = before.res /\ l.over = TRUE /\ l \in [res : Nat, over : BOOLEAN]
    BY <1>2, <2>1
  <2> HIDE DEF l
  <2>3. l.res # 0 =>
       \E v \in 1 .. w :
          /\ Overhead(v) <= most /\ l.res <= Fitting(most, v)
          /\ \A u \in 1 .. v - 1 : Overhead(u) <= most /\ WindowLimits[u] <= Fitting(most, u)
    BY <1>1, <1>3, <2>2, Zenon
  <2>4. Tried(most, w, l)
    BY <2>2, <2>3, Zenon DEF Tried
  <2> QED BY <2>4, Zenon DEF l
<1>5. CASE ~before.over /\ ~(Overhead(w) > most)
  <2>1. l = [res |-> IF n > before.res THEN n ELSE before.res, over |-> w > 11 \/ n < WindowLimits[w]]
    BY <1>5, Limits DEF TurnOf
  <2>2. Overhead(w) <= most
    BY <1>5, Entries
  <2>3. n \in Nat
    BY <2>2, FittingBelow
  <2>4. /\ l.res = IF n > before.res THEN n ELSE before.res
        /\ l.over = (w > 11 \/ n < WindowLimits[w])
        /\ l \in [res : Nat, over : BOOLEAN]
    BY <1>2, <2>1, <2>3
  <2> HIDE DEF l
  <2>5. \A u \in 1 .. w - 1 : u <= 11 /\ Overhead(u) <= most /\ WindowLimits[u] <= Fitting(most, u)
    BY <1>5, Zenon DEF Tried
  <2>6. l.res # 0 =>
       \E v \in 1 .. w :
          /\ Overhead(v) <= most /\ l.res <= Fitting(most, v)
          /\ \A u \in 1 .. v - 1 : Overhead(u) <= most /\ WindowLimits[u] <= Fitting(most, u)
    <3>1. CASE n > before.res
      <4>1. l.res = n /\ n <= n
        BY <2>3, <2>4, <3>1
      <4>2. l.res <= Fitting(most, w)
        BY <4>1
      <4> QED BY <1>1, <2>2, <2>5, <4>2, Zenon
    <3>2. CASE ~(n > before.res)
      <4>1. l.res = before.res
        BY <2>4, <3>2
      <4> QED BY <1>1, <1>3, <4>1, Zenon
    <3> QED BY <3>1, <3>2
  <2>7. ASSUME ~l.over, NEW u \in 1 .. w
        PROVE  u <= 11 /\ Overhead(u) <= most /\ WindowLimits[u] <= Fitting(most, u)
    <3>1. CASE u = w
      <4>1. w <= 11 /\ ~(n < WindowLimits[w])
        BY <1>1, <2>4, <2>7
      <4>2. WindowLimits[w] \in Nat
        BY <1>1, <4>1, Limits
      <4>3. WindowLimits[w] <= n
        BY <2>3, <4>1, <4>2
      <4> QED BY <2>2, <3>1, <4>1, <4>3
    <3>2. CASE u \in 1 .. w - 1
      BY <2>5, <3>2, Zenon
    <3> QED BY <1>1, <3>1, <3>2
  <2>8. Tried(most, w, l)
    BY <2>4, <2>6, <2>7, Zenon DEF Tried
  <2> QED BY <2>8, Zenon DEF l
<1> QED BY <1>4, <1>5, Zenon DEF l

\* What the loop ends with, and the number of points it is for.
LEMMA MaxPointsTried ==
  ASSUME Widths, NEW s \in Spaces
  PROVE  \E l : Tried(MaxAllocation(s, OBJECTS), 12, l) /\ PippengerMaxPoints(s) = l.res
<1> DEFINE most == MaxAllocation(s, OBJECTS)
           E == [res : Nat, over : BOOLEAN]
           G == [k \in Nat |-> [u \in E |-> IF k + 1 \in WindowSizes THEN TurnOf(most, k + 1, u) ELSE u]]
           start == [res |-> 0, over |-> FALSE]
           Is(f) == f = [w \in 0 .. PIPPENGER_MAX_BUCKET_WINDOW |->
                           IF w = 0 THEN [res |-> 0, over |-> FALSE] ELSE TurnOf(most, w, f[w - 1])]
           loop == CHOOSE f : Is(f)
<1>1. most \in Nat
  BY LeftIsNat DEF OBJECTS
<1>2. PippengerMaxPoints(s) = loop[12].res
  BY Zenon DEF PippengerMaxPoints, PIPPENGER_MAX_BUCKET_WINDOW, TurnOf
<1> HIDE DEF most, loop
<1>3. start \in E
  OBVIOUS
<1>4. ASSUME NEW w \in WindowSizes, NEW u \in E PROVE TurnOf(most, w, u) \in E
  <2> DEFINE n == Fitting(most, w)
  <2>1. CASE u.over \/ Overhead(w) > most
    BY <2>1 DEF TurnOf
  <2>2. CASE ~u.over /\ ~(Overhead(w) > most)
    <3>1. Overhead(w) <= most
      BY <1>1, <2>2, Entries
    <3>2. n \in Nat
      BY <1>1, <3>1, FittingBelow
    <3>3. (w > Len(WindowLimits) \/ n < WindowLimits[w]) \in BOOLEAN
      OBVIOUS
    <3>4. TurnOf(most, w, u) = [res |-> IF n > u.res THEN n ELSE u.res,
                                over |-> w > Len(WindowLimits) \/ n < WindowLimits[w]]
      BY <2>2 DEF TurnOf
    <3> HIDE DEF n
    <3> QED BY <3>2, <3>3, <3>4
  <2> QED BY <2>1, <2>2
<1>5. G \in [Nat -> [E -> E]]
  BY <1>4
<1>6. \A k \in Nat, u \in E : k + 1 \in WindowSizes => G[k][u] = TurnOf(most, k + 1, u)
  OBVIOUS
<1> HIDE DEF G, E, start
<1>7. PICK r : r \in [Nat -> E] /\ r[0] = start /\ \A k \in Nat : r[k + 1] = G[k][r[k]]
  <2>1. \E r : Recurs(r, E, start, G)
    BY <1>3, <1>5, Recursion
  <2> QED BY <2>1 DEF Recurs
<1>8. \E f : Is(f)
  <2> DEFINE f == [w \in 0 .. PIPPENGER_MAX_BUCKET_WINDOW |-> r[w]]
  <2>1. ASSUME NEW w \in 0 .. PIPPENGER_MAX_BUCKET_WINDOW
        PROVE  f[w] = IF w = 0 THEN [res |-> 0, over |-> FALSE] ELSE TurnOf(most, w, f[w - 1])
    <3>1. CASE w = 0
      BY <1>7, <3>1 DEF start
    <3>2. CASE w # 0
      <4>1. w - 1 \in Nat /\ w - 1 \in 0 .. PIPPENGER_MAX_BUCKET_WINDOW /\ (w - 1) + 1 = w /\ w \in WindowSizes
        BY <3>2 DEF WindowSizes, PIPPENGER_MAX_BUCKET_WINDOW
      <4>2. r[w] = G[w - 1][r[w - 1]] /\ r[w - 1] \in E
        BY <1>7, <4>1
      <4>3. r[w] = TurnOf(most, w, r[w - 1])
        BY <1>6, <4>1, <4>2
      <4>4. f[w] = r[w] /\ f[w - 1] = r[w - 1]
        BY <4>1
      <4> QED BY <3>2, <4>3, <4>4
    <3> QED BY <3>1, <3>2
  <2>2. f = [w \in 0 .. PIPPENGER_MAX_BUCKET_WINDOW |->
               IF w = 0 THEN [res |-> 0, over |-> FALSE] ELSE TurnOf(most, w, f[w - 1])]
    BY <2>1
  <2> QED BY <2>2
<1>9. Is(loop)
  <2> HIDE DEF Is
  <2> QED BY <1>8 DEF loop
<1>10. \A w \in 0 .. 12 : loop[w] = IF w = 0 THEN [res |-> 0, over |-> FALSE] ELSE TurnOf(most, w, loop[w - 1])
  BY <1>9 DEF PIPPENGER_MAX_BUCKET_WINDOW
<1> HIDE DEF Is
<1> DEFINE H == {w \in Nat : w <= 12 => Tried(most, w, loop[w])}
<1>11. 0 \in H
  <2>1. loop[0] = [res |-> 0, over |-> FALSE]
    BY <1>10
  <2>2. loop[0].res = 0 /\ loop[0] \in [res : Nat, over : BOOLEAN] /\ \A u \in 1 .. 0 : FALSE
    BY <2>1
  <2> QED BY <2>2 DEF Tried
<1>12. ASSUME NEW w \in H PROVE w + 1 \in H
  <2> SUFFICES ASSUME w + 1 <= 12 PROVE Tried(most, w + 1, loop[w + 1])
    OBVIOUS
  <2>1. w \in Nat /\ w <= 12 /\ w + 1 \in WindowSizes /\ w + 1 # 0 /\ (w + 1) - 1 = w /\ w + 1 \in 0 .. 12
    BY DEF WindowSizes
  <2>2. loop[w + 1] = TurnOf(most, w + 1, loop[w])
    BY <1>10, <2>1
  <2>3. Tried(most, (w + 1) - 1, loop[w])
    BY <2>1
  <2>4. Tried(most, w + 1, TurnOf(most, w + 1, loop[w]))
    BY <1>1, <2>1, <2>3, TurnTries
  <2> QED BY <2>2, <2>4
<1> HIDE DEF H
<1>13. H = Nat
  BY <1>11, <1>12, Induction DEF H
<1>14. Tried(most, 12, loop[12])
  <2>1. 12 \in H
    BY <1>13
  <2> QED BY <2>1 DEF H
<1> QED BY <1>2, <1>14 DEF most

\* As many points as pippenger_max_points says, or fewer, find room for all their objects, and the
\* space is left as it was.
THEOREM PippengerFits ==
  ASSUME Widths, NEW s \in Spaces, NEW n \in 1 .. PippengerMaxPoints(s)
  PROVE  PippengerGranted(s, n) = [frame |-> TRUE, objects |-> TRUE, s |-> s]
<1> DEFINE most == MaxAllocation(s, OBJECTS)
           w == BucketWindow(n)
<1>1. PICK l : Tried(most, 12, l) /\ PippengerMaxPoints(s) = l.res
  BY MaxPointsTried
<1>2. l.res \in Nat /\ n \in Nat /\ n <= l.res /\ l.res # 0
  <2>1. l.res \in Nat
    BY <1>1 DEF Tried
  <2> QED BY <1>1, <2>1
<1>3. PICK v \in 1 .. 12 :
         /\ Overhead(v) <= most /\ l.res <= Fitting(most, v)
         /\ \A u \in 1 .. v - 1 : Overhead(u) <= most /\ WindowLimits[u] <= Fitting(most, u)
  BY <1>1, <1>2, Zenon DEF Tried
<1>4. most \in Nat
  BY LeftIsNat DEF OBJECTS
<1>5. v \in WindowSizes /\ w \in WindowSizes
  BY <1>2, BestWindow DEF WindowSizes
<1> HIDE DEF most, w
<1>6. n <= Fitting(most, v) /\ Fitting(most, v) \in Nat /\ (v <= 11 => n <= WindowLimits[v])
  <2>1. Fitting(most, v) \in Nat /\ (v <= 11 => Fitting(most, v) <= WindowLimits[v])
    BY <1>3, <1>4, <1>5, FittingBelow
  <2>2. n <= Fitting(most, v)
    BY <1>2, <1>3, <2>1
  <2>3. v \in Nat /\ (v <= 11 => WindowLimits[v] \in Nat)
    BY Limits
  <2> QED BY <1>2, <2>1, <2>2, <2>3
<1>7. w <= v
  <2>1. CASE v <= 11
    <3>1. v \in 1 .. 11
      BY <2>1
    <3> QED BY <1>2, <1>6, <2>1, <3>1, BestWindow DEF w
  <2>2. CASE ~(v <= 11)
    BY <1>5, <2>2 DEF WindowSizes
  <2> QED BY <2>1, <2>2
<1>8. Overhead(w) <= most /\ n <= Fitting(most, w)
  <2>1. CASE w = v
    BY <1>3, <1>6, <2>1
  <2>2. CASE w # v
    <3>1. w \in 1 .. v - 1 /\ w <= 11 /\ w \in 1 .. 11
      BY <1>5, <1>7, <2>2 DEF WindowSizes
    <3>2. Overhead(w) <= most /\ WindowLimits[w] <= Fitting(most, w)
      BY <1>3, <3>1
    <3>3. n <= WindowLimits[w]
      BY <1>2, <3>1, BestWindow DEF w
    <3>4. WindowLimits[w] \in Nat /\ Fitting(most, w) \in Nat
      BY <1>4, <1>5, <3>1, <3>2, FittingBelow, Limits
    <3> QED BY <1>2, <3>2, <3>3, <3>4
  <2> QED BY <2>1, <2>2
<1>9. Overhead(w) + n * EntrySize(w) <= most
  BY <1>2, <1>4, <1>5, <1>8, FittingBelow
<1>10. Granted(s, PippengerScratchSize(n, w), PippengerObjects(n, w))
         = [frame |-> TRUE, objects |-> TRUE, s |-> s]
  BY <1>2, <1>5, <1>9, EntriesFit DEF most
<1> QED BY <1>10 DEF PippengerGranted, w

\* The batches a number of points is taken in hold them all, none has more than fits, and without
\* the last one they would not do: no batch is empty.
THEOREM BatchesSuffice ==
  ASSUME NEW max \in Nat \ {0}, NEW limit \in Nat \ {0}, NEW n \in Nat \ {0}
  PROVE  LET b == BatchSize(max, limit, n)
         IN  /\ b.ok /\ b.points \in 1 .. max /\ b.points <= limit
             /\ n <= b.batches * b.points /\ (b.batches - 1) * b.points < n
<1> DEFINE m == IF max > limit THEN limit ELSE max
           k == n - 1
           c == k \div m
           batches == 1 + c
           d == k \div batches
           points == 1 + d
<1>1. m \in Nat \ {0} /\ m <= max /\ m <= limit /\ k \in Nat
  OBVIOUS
<1>2. BatchSize(max, limit, n) = [ok |-> TRUE, batches |-> batches, points |-> points]
  BY <1>1 DEF BatchSize
<1> HIDE DEF m, k
<1>3. c \in Nat /\ k < m * batches /\ m * c \in Nat /\ m * c <= k
  <2> DEFINE r == k % m
  <2>1. c \in Nat /\ r \in 0 .. m - 1 /\ k = (m * c) + r
    BY <1>1, Division, Zenon
  <2> HIDE DEF c, r
  <2>2. m * (1 + c) = m * c + m /\ m * c \in Nat
    BY <1>1, <2>1
  <2> QED BY <1>1, <2>1, <2>2
<1>4. batches \in Nat \ {0}
  BY <1>3
<1> HIDE DEF batches
<1> DEFINE r == k % batches
<1>5. d \in Nat /\ r \in 0 .. batches - 1 /\ k = (batches * d) + r
  BY <1>1, <1>4, Division, Zenon
<1> HIDE DEF d, r
<1>6. n <= batches * points
  <2>1. batches * (1 + d) = batches * d + batches /\ batches * d \in Nat
    BY <1>4, <1>5
  <2>2. n = k + 1
    BY DEF k
  <2> QED BY <1>4, <1>5, <2>1, <2>2
<1>7. d < m
  <2> SUFFICES ASSUME m <= d PROVE FALSE
    BY <1>1, <1>5
  <2>1. batches * m <= batches * d /\ batches * m = m * batches
    BY <1>1, <1>4, <1>5
  <2>2. batches * d \in Nat /\ m * batches \in Nat
    BY <1>1, <1>4, <1>5
  <2> QED BY <1>1, <1>3, <1>5, <2>1, <2>2
<1>8. points \in 1 .. max /\ points <= limit
  BY <1>1, <1>5, <1>7
<1>9. (batches - 1) * points < n
  <2>1. batches - 1 = c
    BY <1>3 DEF batches
  <2>2. points \in Nat /\ points <= m
    BY <1>1, <1>5, <1>7
  <2> HIDE DEF points, c
  <2>3. c * points <= m * c /\ c * points \in Nat
    BY <1>1, <1>3, <2>2
  <2> DEFINE a == c * points
             b == m * c
  <2>4. a \in Nat /\ b \in Nat /\ a <= b /\ b <= k
    BY <1>3, <2>3
  <2> HIDE DEF a, b
  <2>5. a < n
    BY <1>1, <2>4 DEF k
  <2> QED BY <2>1, <2>5 DEF a
<1> QED BY <1>2, <1>6, <1>8, <1>9
=============================================================================
