------------------------------ MODULE FieldProofs ------------------------------
(***************************************************************************)
(* Proofs about FieldRegisters, for every number and width of limbs, every *)
(* prime of the shape 2^Bits - C0 - 2^(B+S) and every width of words and   *)
(* accumulators that its assumptions allow: no operation, in any order     *)
(* that keeps the preconditions, ever exceeds a word or an accumulator.    *)
(* This is said by comparing the registers with those of a second machine, *)
(* Wide, whose words and accumulators are as wide as one likes: it does    *)
(* the same.  The inductive invariant is stricter than fe_verify, under    *)
(* which normalize_weak could still wrap at the largest magnitude.         *)
(* The second half is about what limbs are worth: what the operations say  *)
(* of an element is true of its number (LimbsFaithful), and each of them   *)
(* is the operation of FieldOps on residues (ImplementsField).  Wider only *)
(* says that Wide has room; these two theorems do not mention Wide.        *)
(***************************************************************************)
EXTENDS FieldRegisters, FiniteSetTheorems, WellFoundedInduction, TLAPS

CONSTANTS WideWord, WideAcc   \* the widths of the second machine
Wide == INSTANCE FieldRegisters WITH WordBits <- WideWord, AccBits <- WideAcc

\* Quotient and remainder.
LEMMA Division ==
  ASSUME NEW a \in Nat, NEW d \in Nat \ {0}
  PROVE  /\ a \div d \in Nat /\ a % d \in 0 .. d - 1
         /\ a = (d * (a \div d)) + (a % d)
OBVIOUS

\* A remainder is no larger than what is divided.
LEMMA Remainder ==
  ASSUME NEW a \in Nat, NEW d \in Nat \ {0}
  PROVE  a % d \in 0 .. d - 1 /\ a % d <= a
<1>1. CASE a < d
  BY <1>1
<1>2. CASE ~(a < d)
  BY <1>2
<1> QED BY <1>1, <1>2

\* What a quotient is below.
LEMMA DivBelow ==
  ASSUME NEW a \in Nat, NEW q \in Nat, NEW d \in Nat \ {0}, a < q * d
  PROVE  a \div d < q
OBVIOUS

\* A quotient grows with what is divided.
LEMMA DivMono ==
  ASSUME NEW a \in Nat, NEW b \in Nat, a <= b, NEW d \in Nat \ {0}
  PROVE  a \div d <= b \div d
OBVIOUS

\* A number below the divisor is its own remainder: it does not wrap.
LEMMA ModBelow ==
  ASSUME NEW a \in Nat, NEW d \in Nat \ {0}, a < d
  PROVE  a % d = a
OBVIOUS

\* A product grows with its factors.
LEMMA Times ==
  ASSUME NEW a \in Nat, NEW b \in Nat, a <= b, NEW c \in Nat
  PROVE  a * c \in Nat /\ b * c \in Nat /\ a * c <= b * c
OBVIOUS

\* A power of two is a positive number: it counts the subsets of 1 .. n.
LEMMA PowerIsNat ==
  ASSUME NEW n \in Nat
  PROVE  2^n \in Nat \ {0}
<1> DEFINE D == 1 .. n
<1>1. IsFiniteSet(D) /\ Cardinality(D) = n
  <2>1. 1 \in Int /\ n \in Int
    OBVIOUS
  <2>2. Cardinality(D) = IF 1 > n THEN 0 ELSE n - 1 + 1
    BY <2>1, FS_Interval
  <2> QED BY <2>1, <2>2, FS_Interval
<1>2. IsFiniteSet(SUBSET D) /\ Cardinality(SUBSET D) = 2^Cardinality(D)
  BY <1>1, FS_SUBSET
<1>3. SUBSET D # {}
  OBVIOUS
<1>4. Cardinality(SUBSET D) \in Nat /\ Cardinality(SUBSET D) # 0
  BY <1>2, <1>3, FS_CardinalityType, FS_EmptySet
<1> HIDE DEF D
<1> QED BY <1>1, <1>2, <1>4

\* A larger exponent gives a larger power.
LEMMA PowerMono ==
  ASSUME NEW m \in Nat, NEW n \in Nat, m <= n
  PROVE  2^m <= 2^n
<1> DEFINE D(k) == 1 .. k
<1>1. ASSUME NEW k \in Nat
      PROVE  IsFiniteSet(SUBSET D(k)) /\ Cardinality(SUBSET D(k)) = 2^k
  <2>1. 1 \in Int /\ k \in Int
    OBVIOUS
  <2>2. Cardinality(D(k)) = IF 1 > k THEN 0 ELSE k - 1 + 1
    BY <2>1, FS_Interval
  <2>3. IsFiniteSet(D(k)) /\ Cardinality(D(k)) = k
    BY <2>1, <2>2, FS_Interval
  <2> HIDE DEF D
  <2> QED BY <2>3, FS_SUBSET
<1>2. SUBSET D(m) \subseteq SUBSET D(n)
  OBVIOUS
<1> HIDE DEF D
<1>3. Cardinality(SUBSET D(m)) <= Cardinality(SUBSET D(n))
  BY <1>1, <1>2, FS_Subset
<1> QED BY <1>1, <1>3

\* Every set of numbers that is not empty has a least member.
LEMMA LeastNatural ==
  ASSUME NEW X \in SUBSET Nat, X # {}
  PROVE  \E m \in X : \A k \in X : m <= k
<1> DEFINE R == OpToRel(<, Nat)
<1>1. IsWellFoundedOn(R, Nat)
  BY NatLessThanWellFounded
<1>2. R = {ss \in Nat \X Nat : ss[1] < ss[2]}
  BY Zenon DEF OpToRel
<1> HIDE DEF R
<1>3. PICK m \in X : \A k \in X : <<k, m>> \notin R
  BY <1>1, WFMin
<1>4. ASSUME NEW k \in X PROVE m <= k
  <2>1. ~(<<k, m>> \in Nat \X Nat /\ <<k, m>>[1] < <<k, m>>[2])
    BY <1>2, <1>3
  <2> QED BY <2>1
<1> QED
  BY <1>4

\* Induction over a set of numbers.
LEMMA Induction ==
  ASSUME NEW H \in SUBSET Nat, 0 \in H, \A n \in H : n + 1 \in H
  PROVE  H = Nat
<1> SUFFICES ASSUME H # Nat PROVE FALSE
  OBVIOUS
<1>1. PICK m \in Nat \ H : \A k \in Nat \ H : m <= k
  <2>1. Nat \ H \in SUBSET Nat /\ Nat \ H # {}
    OBVIOUS
  <2> QED BY <2>1, LeastNatural
<1>2. m # 0 /\ m - 1 \in Nat
  BY <1>1
<1>3. m - 1 \in H
  BY <1>1, <1>2
<1>4. (m - 1) + 1 = m
  BY <1>1
<1> QED
  BY <1>1, <1>3, <1>4

-----------------------------------------------------------------------------
\* The powers of two in the code are positive numbers.
LEMMA Sizes ==
  /\ 2^B \in Nat \ {0} /\ 2^T \in Nat \ {0} /\ 2^S \in Nat \ {0} /\ 2^(B - T) \in Nat \ {0}
  /\ 2^WordBits \in Nat \ {0} /\ 2^AccBits \in Nat \ {0}
  /\ 2^T <= 2^B /\ MaxMagnitude >= 2 /\ 2^T >= 5
<1>1. B - T \in Nat /\ WordBits \in Nat /\ AccBits \in Nat
  BY ShapeAssumption, WordAssumption, ProductAssumption
<1>2. MaxMagnitude >= 2 /\ MaxMagnitude \in Nat
  BY UseAssumption
<1>3. 2^T \in Nat \ {0}
  BY ShapeAssumption, PowerIsNat
<1>4. 2^T >= 5
  BY <1>2, <1>3, WordAssumption
<1> QED
  BY <1>1, <1>2, <1>4, ShapeAssumption, PowerIsNat, PowerMono

\* A limb of the prime is at most the largest one, and at least half of it; with its share of C
\* it is a full one.
LEMMA LimbSizes ==
  ASSUME NEW i \in Limb
  PROVE  /\ PLimb(i) \in Nat /\ Full(i) \in Nat /\ C(i) \in Nat
         /\ PLimb(i) <= Full(i) /\ Full(i) <= 2 * PLimb(i) /\ Full(i) < 2^B
         /\ PLimb(i) + C(i) <= 2^B
         /\ i \notin {0, N - 1} => PLimb(i) + C(i) = 2^B - 1
<1>1. i \in Nat /\ N >= 4 /\ N \in Nat /\ C0 \in Nat \ {0} /\ 2 * C0 <= 2^B /\ 2 * 2^S < 2^B
  BY ShapeAssumption DEF Limb
<1> QED
  BY <1>1, Sizes DEF PLimb, Full, C

-----------------------------------------------------------------------------
\* The carries of a pass, in words of size w.
IsCarry(c, t, w) ==
  c = [i \in Limb |-> IF i = 0 THEN 0 ELSE ((t[i-1] + c[i-1]) % w) \div 2^B]

\* The carries, a recursive function, exist for all limbs and words.
LEMMA CarryExists ==
  ASSUME NEW t, NEW w
  PROVE  \E c : IsCarry(c, t, w)
<1> DEFINE G(c, i) == IF i = 0 THEN 0 ELSE ((t[i-1] + c[i-1]) % w) \div 2^B
           H == {n \in Nat : \E c : c = [i \in 0 .. n |-> G(c, i)]}
<1>1. 0 \in H
  <2> DEFINE c == [i \in 0 .. 0 |-> 0]
  <2>1. c = [i \in 0 .. 0 |-> G(c, i)]
    OBVIOUS
  <2> QED BY <2>1
<1>2. ASSUME NEW n \in H PROVE n + 1 \in H
  <2>1. PICK c : c = [i \in 0 .. n |-> G(c, i)]
    OBVIOUS
  <2> DEFINE d == [i \in 0 .. n + 1 |-> IF i <= n THEN c[i] ELSE G(c, i)]
  <2>2. ASSUME NEW i \in 0 .. n + 1 PROVE d[i] = G(d, i)
    <3>1. d[i] = G(c, i)
      BY <2>1
    <3>2. CASE i = 0
      BY <3>1, <3>2
    <3>3. CASE i # 0
      <4>1. i - 1 \in 0 .. n + 1 /\ i - 1 <= n
        BY <3>3
      <4>2. d[i - 1] = c[i - 1]
        BY <4>1
      <4> QED BY <3>1, <3>3, <4>2
    <3> QED BY <3>2, <3>3
  <2>3. d = [i \in 0 .. n + 1 |-> d[i]]
    OBVIOUS
  <2> HIDE DEF G, d
  <2>4. d = [i \in 0 .. n + 1 |-> G(d, i)]
    BY <2>2, <2>3
  <2>5. n + 1 \in Nat
    OBVIOUS
  <2> QED BY <2>4, <2>5
<1> HIDE DEF H
<1>3. H = Nat
  BY <1>1, <1>2, Induction DEF H
<1>4. N - 1 \in Nat
  BY ShapeAssumption
<1> QED
  BY <1>3, <1>4 DEF H, IsCarry, Limb

\* How much a limb with its carry may be.
Carries(t, q) ==
  /\ t \in [Limb -> Nat] /\ q \in Nat \ {0}
  /\ \A i \in Limb : t[i] + (IF i = 0 THEN 0 ELSE q - 1) < q * 2^B

\* With room for the carries no limb wraps, and no carry reaches q.
LEMMA CarryBounds ==
  ASSUME NEW t, NEW q, Carries(t, q), NEW w \in Nat \ {0}, q * 2^B <= w,
         NEW c, IsCarry(c, t, w)
  PROVE  /\ c[0] = 0
         /\ \A i \in Limb : /\ c[i] \in 0 .. q - 1
                            /\ t[i] + c[i] < q * 2^B
                            /\ (t[i] + c[i]) % w = t[i] + c[i]
<1> DEFINE H == {i \in Nat : i \in Limb => c[i] \in 0 .. q - 1}
<1>0. /\ t \in [Limb -> Nat] /\ q \in Nat \ {0} /\ 2^B \in Nat \ {0} /\ N \in Nat /\ N >= 4
      /\ Limb = 0 .. N - 1 /\ q * 2^B \in Nat
  BY Sizes, ShapeAssumption DEF Carries, Limb
<1>1. c[0] = 0
  BY <1>0 DEF IsCarry
<1>2. ASSUME NEW i \in Limb, c[i] \in 0 .. q - 1
      PROVE  t[i] + c[i] \in Nat /\ t[i] + c[i] < q * 2^B /\ (t[i] + c[i]) % w = t[i] + c[i]
  <2> DEFINE a == t[i]
             b == c[i]
             k == IF i = 0 THEN 0 ELSE q - 1
             m == q * 2^B
  <2>1. a \in Nat /\ b \in Nat /\ b <= k /\ k \in Nat
    <3>1. a \in Nat /\ b \in 0 .. q - 1
      BY <1>0, <1>2
    <3>2. i = 0 => b = 0
      BY <1>1
    <3> HIDE DEF a, b
    <3> QED BY <1>0, <3>1, <3>2
  <2>2. m \in Nat /\ m <= w /\ a + k < m
    <3>1. a + k < m
      BY DEF Carries
    <3> QED BY <1>0, <3>1
  <2> HIDE DEF a, b, k, m
  <2>3. a + b \in Nat /\ a + b < m /\ a + b < w
    BY <2>1, <2>2
  <2>4. (a + b) % w = a + b
    BY <2>3, ModBelow
  <2> QED BY <2>3, <2>4 DEF a, b, m
<1>3. 0 \in H
  BY <1>0, <1>1
<1>4. ASSUME NEW i \in H PROVE i + 1 \in H
  <2> SUFFICES ASSUME i + 1 \in Limb PROVE c[i + 1] \in 0 .. q - 1
    OBVIOUS
  <2>1. i \in Limb /\ c[i] \in 0 .. q - 1 /\ (i + 1) - 1 = i /\ i + 1 # 0
    BY <1>0
  <2>2. c[i + 1] = ((t[i] + c[i]) % w) \div 2^B
    BY <2>1 DEF IsCarry
  <2>3. c[i + 1] = (t[i] + c[i]) \div 2^B
    BY <1>2, <2>1, <2>2
  <2> DEFINE a == t[i] + c[i]
  <2>4. a \in Nat /\ a < q * 2^B
    BY <1>2, <2>1
  <2> HIDE DEF a
  <2>5. a \div 2^B \in Nat /\ a \div 2^B < q
    BY <1>0, <2>4, Division, DivBelow
  <2> QED BY <1>0, <2>3, <2>5 DEF a
<1>5. H = Nat
  <2> HIDE DEF H
  <2> QED BY <1>3, <1>4, Induction DEF H
<1>6. ASSUME NEW i \in Limb PROVE c[i] \in 0 .. q - 1
  <2>1. i \in Nat
    BY <1>0
  <2>2. i \in H
    BY <1>5, <2>1
  <2> QED BY <2>2
<1> QED
  BY <1>1, <1>2, <1>6

\* So the carries are the same in words of any size that is large enough.
LEMMA CarriesAgree ==
  ASSUME NEW t, NEW q, Carries(t, q), NEW v \in Nat \ {0}, NEW w \in Nat \ {0},
         q * 2^B <= v, q * 2^B <= w, NEW c, IsCarry(c, t, v), NEW d, IsCarry(d, t, w)
  PROVE  c = d
<1> DEFINE H == {i \in Nat : i \in Limb => c[i] = d[i]}
<1>0. N \in Nat /\ Limb = 0 .. N - 1
  BY ShapeAssumption DEF Limb
<1>1. /\ c[0] = 0 /\ \A i \in Limb : (t[i] + c[i]) % v = t[i] + c[i]
      /\ d[0] = 0 /\ \A i \in Limb : (t[i] + d[i]) % w = t[i] + d[i]
  BY CarryBounds
<1>2. 0 \in H
  BY <1>1
<1>3. ASSUME NEW i \in H PROVE i + 1 \in H
  <2> SUFFICES ASSUME i + 1 \in Limb PROVE c[i + 1] = d[i + 1]
    OBVIOUS
  <2>1. i \in Limb /\ c[i] = d[i] /\ (i + 1) - 1 = i /\ i + 1 # 0
    BY <1>0
  <2>2. /\ c[i + 1] = ((t[i] + c[i]) % v) \div 2^B
        /\ d[i + 1] = ((t[i] + d[i]) % w) \div 2^B
    BY <2>1 DEF IsCarry
  <2> QED BY <1>1, <2>1, <2>2
<1>4. H = Nat
  <2> HIDE DEF H
  <2> QED BY <1>2, <1>3, Induction DEF H
<1>5. \A i \in Limb : c[i] = d[i]
  BY <1>0, <1>4
<1>6. c = [i \in Limb |-> c[i]] /\ d = [i \in Limb |-> d[i]]
  BY DEF IsCarry
<1> QED
  BY <1>5, <1>6

-----------------------------------------------------------------------------
\* AddC over words of size w.
Passed(t, z, w) ==
  LET s == [i \in Limb |-> (t[i] + z * C(i)) % w]
      c == CHOOSE c : IsCarry(c, s, w)
  IN  [i \in Limb |-> IF i = N - 1 THEN (s[i] + c[i]) % w ELSE ((s[i] + c[i]) % w) % 2^B]

\* What it comes to if nothing wraps.
Exactly(r, s, c) ==
  /\ c[0] = 0
  /\ \A i \in Limb \ {0} : c[i] = (s[i-1] + c[i-1]) \div 2^B
  /\ r = [i \in Limb |-> IF i = N - 1 THEN s[i] + c[i] ELSE (s[i] + c[i]) % 2^B]

\* With that room AddC is what it would be without words.
LEMMA PassedExactly ==
  ASSUME NEW t, NEW z, NEW s, s = [i \in Limb |-> t[i] + z * C(i)],
         NEW q, Carries(s, q), NEW w \in Nat \ {0}, q * 2^B <= w
  PROVE  \E c : IsCarry(c, s, w) /\ Exactly(Passed(t, z, w), s, c)
<1> DEFINE u == [i \in Limb |-> (t[i] + z * C(i)) % w]
           c == CHOOSE c : IsCarry(c, u, w)
<1>0. /\ s \in [Limb -> Nat] /\ q \in Nat \ {0} /\ 2^B \in Nat \ {0} /\ N \in Nat /\ N >= 4
      /\ Limb = 0 .. N - 1 /\ q * 2^B \in Nat
  BY Sizes, ShapeAssumption DEF Carries, Limb
<1>1. u = s
  <2>1. ASSUME NEW i \in Limb PROVE (t[i] + z * C(i)) % w = s[i]
    <3>1. s[i] \in Nat /\ s[i] = t[i] + z * C(i)
      BY <1>0
    <3>2. s[i] <= s[i] + (IF i = 0 THEN 0 ELSE q - 1)
      BY <1>0, <3>1
    <3>3. s[i] < w
      BY <1>0, <3>1, <3>2 DEF Carries
    <3> QED BY <3>1, <3>3, ModBelow
  <2>2. s = [i \in Limb |-> s[i]]
    BY <1>0
  <2> QED BY <2>1, <2>2
<1> HIDE DEF u
<1>2. IsCarry(c, s, w)
  <2>1. \E d : IsCarry(d, u, w)
    BY CarryExists
  <2>2. IsCarry(c, u, w)
    BY <2>1
  <2> QED BY <1>1, <2>2
<1> HIDE DEF c
<1>3. /\ c[0] = 0
      /\ \A i \in Limb : c[i] \in 0 .. q - 1 /\ s[i] + c[i] < q * 2^B /\ (s[i] + c[i]) % w = s[i] + c[i]
  BY <1>2, CarryBounds
<1>4. \A i \in Limb \ {0} : c[i] = (s[i-1] + c[i-1]) \div 2^B
  <2> TAKE i \in Limb \ {0}
  <2>1. i - 1 \in Limb
    BY <1>0
  <2>2. c[i] = ((s[i-1] + c[i-1]) % w) \div 2^B
    BY <1>2 DEF IsCarry
  <2> QED BY <1>3, <2>1, <2>2
<1>5. Passed(t, z, w) = [i \in Limb |-> IF i = N - 1 THEN (u[i] + c[i]) % w ELSE ((u[i] + c[i]) % w) % 2^B]
  BY Zenon DEF Passed, u, c
<1>6. Passed(t, z, w) = [i \in Limb |-> IF i = N - 1 THEN s[i] + c[i] ELSE (s[i] + c[i]) % 2^B]
  BY <1>1, <1>3, <1>5
<1> QED
  BY <1>2, <1>3, <1>4, <1>6 DEF Exactly

\* The wider machine: nothing else is known of it.
Wider == WideWord \in Nat /\ WideAcc \in Nat /\ WordBits <= WideWord /\ AccBits <= WideAcc

\* The powers of two of the wider machine.
LEMMA WiderSizes ==
  ASSUME Wider
  PROVE  /\ 2^WideWord \in Nat \ {0} /\ 2^WordBits <= 2^WideWord
         /\ 2^WideAcc \in Nat \ {0} /\ 2^AccBits <= 2^WideAcc
BY WordAssumption, ProductAssumption, PowerIsNat, PowerMono DEF Wider

\* A word has room for q times 2^B, up to the largest magnitude.
LEMMA WordRoom ==
  ASSUME NEW q \in Nat, q <= 2 * MaxMagnitude
  PROVE  q * 2^B \in Nat /\ q * 2^B <= 2^WordBits
<1>1. 2 * MaxMagnitude \in Nat /\ 2^B \in Nat
  BY Sizes, UseAssumption
<1>2. q * 2^B \in Nat /\ (2 * MaxMagnitude) * 2^B \in Nat /\ q * 2^B <= (2 * MaxMagnitude) * 2^B
  <2> DEFINE p == 2 * MaxMagnitude
  <2> HIDE DEF p
  <2>1. p \in Nat /\ q <= p
    BY <1>1 DEF p
  <2>2. q * 2^B \in Nat /\ p * 2^B \in Nat /\ q * 2^B <= p * 2^B
    BY <1>1, <2>1, Times
  <2> QED BY <2>2 DEF p
<1> QED BY <1>2, Sizes, WordAssumption

\* AddC does the same in wider words, whenever there is room for its carries.
LEMMA AddCAgrees ==
  ASSUME Wider, NEW t, NEW z, NEW s, s = [i \in Limb |-> t[i] + z * C(i)],
         NEW q, Carries(s, q), q <= 2 * MaxMagnitude
  PROVE  /\ Wide!AddC(t, z) = AddC(t, z)
         /\ \E c : /\ Exactly(AddC(t, z), s, c)
                   /\ \A i \in Limb : c[i] \in 0 .. q - 1 /\ s[i] + c[i] < q * 2^B
<1> DEFINE w == 2^WordBits
           v == 2^WideWord
<1>1. /\ q \in Nat \ {0} /\ w \in Nat \ {0} /\ v \in Nat \ {0} /\ q * 2^B <= w /\ q * 2^B <= v
      /\ q * 2^B \in Nat
  BY Sizes, WiderSizes, WordRoom DEF Carries
<1>2. AddC(t, z) = Passed(t, z, w)
  BY Zenon DEF AddC, Carry, Word, Passed, IsCarry
<1>3. Wide!AddC(t, z) = Passed(t, z, v)
  BY Zenon DEF Wide!AddC, Wide!Carry, Wide!Word, Wide!Limb, Wide!C, Limb, C, Passed, IsCarry
<1> HIDE DEF w, v
<1>4. PICK c : IsCarry(c, s, w) /\ Exactly(Passed(t, z, w), s, c)
  BY <1>1, PassedExactly
<1>5. PICK d : IsCarry(d, s, v) /\ Exactly(Passed(t, z, v), s, d)
  BY <1>1, PassedExactly
<1>6. c = d
  BY <1>1, <1>4, <1>5, CarriesAgree
<1>7. \A i \in Limb : c[i] \in 0 .. q - 1 /\ s[i] + c[i] < q * 2^B
  BY <1>1, <1>4, CarryBounds
<1>8. Passed(t, z, w) = Passed(t, z, v)
  BY <1>4, <1>5, <1>6 DEF Exactly
<1> QED
  BY <1>2, <1>3, <1>4, <1>7, <1>8, Zenon

-----------------------------------------------------------------------------
\* The arithmetic of one limb, of a bound p, that takes in z times c.
LEMMA RoomForC ==
  ASSUME NEW p \in Nat \ {0}, NEW f \in Nat, NEW c \in Nat, NEW a \in Nat, NEW z \in Nat,
         a <= p * f, z <= p - 1
  PROVE  z * c \in Nat /\ a + z * c + c <= p * (f + c)
<1>1. z * c \in Nat /\ z * c + c <= p * c
  <2>1. z + 1 \in Nat /\ z + 1 <= p
    OBVIOUS
  <2>2. (z + 1) * c <= p * c
    BY <2>1, Times
  <2>3. (z + 1) * c = z * c + c /\ z * c \in Nat
    OBVIOUS
  <2> QED BY <2>2, <2>3
<1>2. p * (f + c) = p * f + p * c /\ p * f \in Nat /\ p * c \in Nat
  OBVIOUS
<1> QED BY <1>1, <1>2

\* A product with one less.
LEMMA ProductOf ==
  ASSUME NEW a \in Nat, NEW b \in Nat
  PROVE  a * b \in Nat /\ a * (b - 1) = a * b - a
OBVIOUS

\* What add, negate and their like keep of an element of magnitude m.  It is stricter than
\* fe_verify, where the two lowest limbs may be larger than those of twice the prime.
Bounded(l, m) == l \in [Limb -> Nat] /\ \A i \in Limb : l[i] <= (2 * m) * PLimb(i)
\* Limbs with nothing to spare.
Reduced(l) == l \in [Limb -> Nat] /\ \A i \in Limb : l[i] <= Full(i)

\* Reduced limbs are within magnitude 1.
LEMMA ReducedBounded ==
  ASSUME NEW l, Reduced(l)
  PROVE  Bounded(l, 1)
<1>1. ASSUME NEW i \in Limb PROVE l[i] <= (2 * 1) * PLimb(i)
  <2>1. l[i] \in Nat /\ l[i] <= Full(i)
    BY DEF Reduced
  <2> QED BY <2>1, LimbSizes
<1> QED BY <1>1 DEF Bounded, Reduced

\* A pass over reduced limbs changes nothing.
LEMMA ReducedCarriesNothing ==
  ASSUME Wider, NEW t, Reduced(t)
  PROVE  AddC(t, 0) = t /\ Wide!AddC(t, 0) = t
<1> DEFINE s == [i \in Limb |-> t[i] + 0 * C(i)]
<1>0. /\ t \in [Limb -> Nat] /\ 2^B \in Nat \ {0} /\ N \in Nat /\ N >= 4 /\ Limb = 0 .. N - 1
      /\ \A i \in Limb : t[i] < 2^B
  <2>1. ASSUME NEW i \in Limb PROVE t[i] < 2^B
    <3>1. t[i] \in Nat /\ t[i] <= Full(i)
      BY DEF Reduced
    <3> QED BY <3>1, LimbSizes, Sizes
  <2> QED BY <2>1, Sizes, ShapeAssumption DEF Reduced, Limb
<1>1. s = t
  <2>1. ASSUME NEW i \in Limb PROVE t[i] + 0 * C(i) = t[i]
    <3>1. C(i) \in Nat /\ t[i] \in Nat
      BY <1>0, LimbSizes
    <3> QED BY <3>1
  <2>2. t = [i \in Limb |-> t[i]]
    BY <1>0
  <2> QED BY <2>1, <2>2
<1>2. Carries(t, 1)
  <2>1. ASSUME NEW i \in Limb PROVE t[i] + (IF i = 0 THEN 0 ELSE 1 - 1) < 1 * 2^B
    <3>1. t[i] \in Nat /\ t[i] < 2^B
      BY <1>0
    <3> QED BY <1>0, <3>1
  <2> QED BY <1>0, <2>1 DEF Carries
<1>3. 1 <= 2 * MaxMagnitude
  BY Sizes, UseAssumption
<1>4. /\ Wide!AddC(t, 0) = AddC(t, 0)
      /\ \E c : /\ Exactly(AddC(t, 0), t, c)
                /\ \A i \in Limb : c[i] \in 0 .. 1 - 1 /\ t[i] + c[i] < 1 * 2^B
  BY <1>1, <1>2, <1>3, AddCAgrees
<1>5. PICK c : /\ Exactly(AddC(t, 0), t, c)
               /\ \A i \in Limb : c[i] \in 0 .. 1 - 1 /\ t[i] + c[i] < 1 * 2^B
  BY <1>4
<1>6. ASSUME NEW i \in Limb PROVE (IF i = N - 1 THEN t[i] + c[i] ELSE (t[i] + c[i]) % 2^B) = t[i]
  <2>1. c[i] = 0 /\ t[i] \in Nat /\ t[i] < 2^B
    BY <1>0, <1>5
  <2>2. t[i] % 2^B = t[i]
    BY <1>0, <2>1, ModBelow
  <2> QED BY <2>1, <2>2
<1>7. AddC(t, 0) = [i \in Limb |-> t[i]]
  BY <1>5, <1>6 DEF Exactly
<1> QED BY <1>0, <1>4, <1>7

\* The limbs after one pass of carries.
Passing(r, top) ==
  /\ r \in [Limb -> Nat]
  /\ \A i \in Limb \ {N - 1} : r[i] < 2^B
  /\ r[N - 1] <= top

\* After a pass all limbs but the top one are reduced.
LEMMA ExactlyPasses ==
  ASSUME NEW s, NEW q, Carries(s, q), NEW c, NEW r, Exactly(r, s, c), \A i \in Limb : c[i] \in 0 .. q - 1
  PROVE  Passing(r, s[N - 1] + (q - 1))
<1>0. /\ s \in [Limb -> Nat] /\ q \in Nat \ {0} /\ 2^B \in Nat \ {0} /\ N \in Nat /\ N >= 4
      /\ Limb = 0 .. N - 1 /\ N - 1 \in Limb
  BY Sizes, ShapeAssumption DEF Carries, Limb
<1>1. r = [i \in Limb |-> IF i = N - 1 THEN s[i] + c[i] ELSE (s[i] + c[i]) % 2^B]
  BY DEF Exactly
<1>2. ASSUME NEW i \in Limb
      PROVE  /\ s[i] + c[i] \in Nat /\ s[i] + c[i] <= s[i] + (q - 1)
             /\ (s[i] + c[i]) % 2^B \in 0 .. 2^B - 1
  <2>1. s[i] \in Nat /\ c[i] \in 0 .. q - 1
    BY <1>0
  <2> DEFINE a == s[i] + c[i]
  <2>2. a \in Nat /\ a <= s[i] + (q - 1)
    BY <1>0, <2>1
  <2> HIDE DEF a
  <2>3. a % 2^B \in 0 .. 2^B - 1
    BY <1>0, <2>2, Division
  <2> QED BY <2>2, <2>3 DEF a
<1>3. r \in [Limb -> Nat]
  <2>1. ASSUME NEW i \in Limb PROVE r[i] \in Nat
    <3>1. r[i] = s[i] + c[i] \/ r[i] = (s[i] + c[i]) % 2^B
      BY <1>1
    <3>2. (s[i] + c[i]) % 2^B \in Nat
      <4> DEFINE a == (s[i] + c[i]) % 2^B
      <4>1. a \in 0 .. 2^B - 1
        BY <1>2
      <4> HIDE DEF a
      <4> QED BY <1>0, <4>1 DEF a
    <3> QED BY <1>2, <3>1, <3>2
  <2>2. r = [i \in Limb |-> r[i]]
    BY <1>1
  <2> QED BY <2>1, <2>2
<1>4. ASSUME NEW i \in Limb \ {N - 1} PROVE r[i] < 2^B
  <2>1. r[i] = (s[i] + c[i]) % 2^B
    BY <1>1
  <2> QED BY <1>0, <1>2, <2>1
<1>5. r[N - 1] <= s[N - 1] + (q - 1)
  BY <1>0, <1>1, <1>2
<1> QED BY <1>3, <1>4, <1>5 DEF Passing

-----------------------------------------------------------------------------
\* The limbs, the top one and the two lowest ones.
LEMMA TopIsLimb ==
  /\ N \in Nat /\ N >= 4 /\ Limb = 0 .. N - 1
  /\ N - 1 \in Limb /\ N - 1 # 0 /\ 0 \in Limb /\ 1 \in Limb /\ 1 # N - 1
  /\ Full(N - 1) = 2^T - 1 /\ PLimb(N - 1) = 2^T - 1 /\ C(N - 1) = 0
  /\ C(0) = C0 /\ C(1) = 2^S /\ Full(0) = 2^B - 1 /\ Full(1) = 2^B - 1
  /\ \A i \in 2 .. N - 2 : C(i) = 0 /\ Full(i) = 2^B - 1
<1>1. N \in Nat /\ N >= 4
  BY ShapeAssumption
<1> QED BY <1>1 DEF Limb, Full, PLimb, C

\* What normalize_weak adds at the bottom leaves room for the carries, at every magnitude up to
\* the largest.
LEMMA WeakCarries ==
  ASSUME NEW m \in 1 .. MaxMagnitude, NEW l, Bounded(l, m),
         NEW s, s = [i \in Limb |-> DropTop(l)[i] + (l[N-1] \div 2^T) * C(i)]
  PROVE  Carries(s, 2 * m) /\ s[N - 1] <= 2^T - 1
<1> DEFINE p == 2 * m
           t == DropTop(l)
           z == l[N-1] \div 2^T
<1>0. /\ p \in Nat \ {0} /\ p >= 2 /\ p < 2^T /\ 2^B \in Nat \ {0} /\ 2^T \in Nat \ {0} /\ 2^T <= 2^B
      /\ N \in Nat /\ N >= 4 /\ Limb = 0 .. N - 1 /\ N - 1 \in Limb
      /\ l \in [Limb -> Nat] /\ \A i \in Limb : l[i] <= p * PLimb(i)
  <2>1. MaxMagnitude \in Nat /\ 2 * MaxMagnitude < 2^T
    BY UseAssumption, WordAssumption
  <2>2. p \in Nat \ {0} /\ p >= 2 /\ p < 2^T
    BY <2>1, Sizes
  <2>3. l \in [Limb -> Nat] /\ \A i \in Limb : l[i] <= p * PLimb(i)
    BY DEF Bounded
  <2> QED BY <2>2, <2>3, Sizes, TopIsLimb
<1> HIDE DEF p
<1>1. /\ t \in [Limb -> Nat] /\ \A i \in Limb : t[i] <= l[i]
      /\ t[N - 1] <= 2^T - 1
  <2>1. l[N - 1] \in Nat
    BY <1>0
  <2> DEFINE a == l[N - 1]
             d == 2^T
  <2>4. a \in Nat /\ d \in Nat \ {0}
    BY <1>0, <2>1
  <2> HIDE DEF a, d
  <2>5. a % d \in 0 .. d - 1 /\ a % d <= a
    BY <2>4, Remainder
  <2>2. l[N - 1] % 2^T \in 0 .. 2^T - 1 /\ l[N - 1] % 2^T <= l[N - 1]
    BY <2>5 DEF a, d
  <2>3. t = [l EXCEPT ![N-1] = l[N-1] % 2^T]
    BY DEF DropTop
  <2> QED BY <1>0, <2>2, <2>3
<1>2. z \in Nat /\ z <= p - 1
  <2>1. l[N - 1] \in Nat /\ l[N - 1] <= p * (2^T - 1)
    BY <1>0, TopIsLimb
  <2>2. p * 2^T \in Nat /\ p * (2^T - 1) = p * 2^T - p
    BY <1>0, ProductOf
  <2>3. l[N - 1] < p * 2^T
    BY <1>0, <2>1, <2>2
  <2>4. z \in Nat /\ z < p
    BY <1>0, <2>1, <2>3, Division, DivBelow
  <2> QED BY <1>0, <2>4
<1> HIDE DEF t, z
<1>3. p * 2^B \in Nat /\ p * (2^B - 1) = p * 2^B - p /\ p * 2^B >= 2 * 2^B
  <2>1. 2 * 2^B <= p * 2^B
    BY <1>0, Times
  <2> QED BY <1>0, <2>1, ProductOf
<1>4. s = [i \in Limb |-> t[i] + z * C(i)]
  BY DEF t, z
<1>5. s[N - 1] = t[N - 1]
  <2>1. s[N - 1] = t[N - 1] + z * 0
    BY <1>0, <1>4, TopIsLimb
  <2> QED BY <1>0, <1>1, <1>2, <2>1
<1>6. ASSUME NEW i \in Limb
      PROVE  s[i] \in Nat /\ s[i] + (IF i = 0 THEN 0 ELSE p - 1) < p * 2^B
  <2> DEFINE f == PLimb(i)
             c == C(i)
             a == t[i]
  <2>1. f \in Nat /\ c \in Nat /\ a \in Nat /\ a <= p * f /\ p * f \in Nat
    <3>1. f \in Nat /\ c \in Nat /\ t[i] \in Nat /\ l[i] \in Nat /\ t[i] <= l[i] /\ l[i] <= p * PLimb(i)
      BY <1>0, <1>1, LimbSizes
    <3> DEFINE b == l[i]
    <3>2. f \in Nat /\ c \in Nat /\ a \in Nat /\ b \in Nat /\ a <= b /\ b <= p * f
      BY <3>1
    <3> HIDE DEF f, c, a, b
    <3>3. p * f \in Nat
      BY <1>0, <3>2
    <3> QED BY <3>2, <3>3
  <2>2. s[i] = a + z * c
    BY <1>4
  <2>3. /\ i = 0 => c \in Nat \ {0} /\ f + c = 2^B
        /\ i # 0 /\ i # N - 1 => f + c = 2^B - 1
    <3>1. CASE i = 0
      <4>1. C(0) = C0 /\ PLimb(0) = 2^B - C0 /\ C0 \in Nat \ {0} /\ 2^B \in Nat
        BY <1>0, ShapeAssumption DEF PLimb, C
      <4>2. PLimb(0) + C(0) = 2^B
        BY <4>1
      <4> QED BY <3>1, <4>1, <4>2
    <3>2. CASE i # 0
      BY <1>0, <3>2, LimbSizes
    <3> QED BY <3>1, <3>2
  <2> HIDE DEF f, c, a
  <2>4. z * c \in Nat /\ a + z * c + c <= p * (f + c)
    BY <1>0, <1>2, <2>1, RoomForC
  <2> DEFINE zc == z * c
             pb == p * 2^B
  <2>8. zc \in Nat /\ pb \in Nat /\ s[i] = a + zc /\ a \in Nat /\ p \in Nat /\ pb >= 2
    <3>1. pb \in Nat /\ pb >= 2 * 2^B
      BY <1>3
    <3>2. s[i] = a + zc /\ zc \in Nat
      BY <2>2, <2>4
    <3> HIDE DEF zc, pb
    <3> QED BY <1>0, <2>1, <3>1, <3>2
  <2>5. CASE i = 0
    <3>1. a + zc + c <= pb /\ c \in Nat \ {0}
      BY <2>3, <2>4, <2>5
    <3> HIDE DEF zc, pb
    <3>2. s[i] \in Nat /\ s[i] < pb
      BY <2>8, <3>1
    <3> QED BY <2>5, <2>8, <3>2 DEF pb
  <2>6. CASE i # 0 /\ i # N - 1
    <3>1. a + zc + c <= pb - p
      BY <1>3, <2>3, <2>4, <2>6
    <3> HIDE DEF zc, pb
    <3>2. s[i] \in Nat /\ s[i] + (p - 1) < pb
      BY <2>1, <2>8, <3>1
    <3> QED BY <2>6, <3>2 DEF pb
  <2>7. CASE i = N - 1
    <3>1. s[i] \in Nat /\ s[i] <= 2^T - 1
      BY <1>0, <1>1, <1>5, <2>7
    <3>2. 2 * 2^B <= pb /\ i # 0
      BY <1>0, <1>3, <2>7
    <3> HIDE DEF zc, pb
    <3> DEFINE bt == 2^T
               bb == 2^B
    <3>4. bt \in Nat /\ bb \in Nat /\ bt <= bb /\ p < bt /\ s[i] <= bt - 1 /\ 2 * bb <= pb
      BY <1>0, <3>1, <3>2
    <3> HIDE DEF bt, bb
    <3>3. s[i] + (p - 1) < pb
      BY <2>8, <3>1, <3>4
    <3> QED BY <3>1, <3>2, <3>3 DEF pb
  <2> QED BY <2>5, <2>6, <2>7
<1>7. s \in [Limb -> Nat]
  BY <1>4, <1>6
<1> QED BY <1>0, <1>1, <1>5, <1>6, <1>7 DEF Carries, p

\* normalize_weak never wraps, and leaves the top limb with less than another full one.
LEMMA NormalizeWeakAgrees ==
  ASSUME Wider, NEW m \in 1 .. MaxMagnitude, NEW l, Bounded(l, m)
  PROVE  /\ Wide!NormalizeWeak(l) = NormalizeWeak(l)
         /\ Passing(NormalizeWeak(l), 2^T - 1 + (2 * m - 1))
<1> DEFINE t == DropTop(l)
           z == l[N-1] \div 2^T
           s == [i \in Limb |-> t[i] + z * C(i)]
<1>1. Carries(s, 2 * m) /\ s[N - 1] <= 2^T - 1
  BY WeakCarries
<1>2. 2 * m <= 2 * MaxMagnitude
  BY UseAssumption
<1>3. NormalizeWeak(l) = AddC(t, z) /\ Wide!NormalizeWeak(l) = Wide!AddC(t, z)
  BY Zenon DEF NormalizeWeak, Wide!NormalizeWeak, DropTop, Wide!DropTop
<1> HIDE DEF t, z
<1>4. /\ Wide!AddC(t, z) = AddC(t, z)
      /\ \E c : /\ Exactly(AddC(t, z), s, c)
                /\ \A i \in Limb : c[i] \in 0 .. 2 * m - 1 /\ s[i] + c[i] < (2 * m) * 2^B
  BY <1>1, <1>2, AddCAgrees
<1> HIDE DEF s
<1>5. Passing(AddC(t, z), s[N - 1] + (2 * m - 1))
  BY <1>1, <1>4, ExactlyPasses
<1>6. s[N - 1] \in Nat /\ 2^T \in Nat
  BY <1>1, TopIsLimb, Sizes DEF Carries
<1>7. Passing(AddC(t, z), 2^T - 1 + (2 * m - 1))
  BY <1>1, <1>5, <1>6, TopIsLimb DEF Passing
<1> QED BY <1>3, <1>4, <1>7

\* normalize_weak leaves reduced limbs alone.
LEMMA NormalizeWeakOfReduced ==
  ASSUME Wider, NEW l, Reduced(l)
  PROVE  NormalizeWeak(l) = l /\ Wide!NormalizeWeak(l) = l
<1>1. l \in [Limb -> Nat] /\ N - 1 \in Limb /\ l[N-1] \in Nat /\ l[N-1] < 2^T /\ 2^T \in Nat \ {0}
  <2>1. l[N-1] \in Nat /\ l[N-1] <= 2^T - 1
    BY TopIsLimb DEF Reduced
  <2> QED BY <2>1, Sizes, TopIsLimb DEF Reduced
<1>2. l[N-1] % 2^T = l[N-1] /\ l[N-1] \div 2^T = 0
  BY <1>1
<1>3. DropTop(l) = l
  BY <1>1, <1>2 DEF DropTop
<1>4. NormalizeWeak(l) = AddC(l, 0) /\ Wide!NormalizeWeak(l) = Wide!AddC(l, 0)
  BY <1>2, <1>3, Zenon DEF NormalizeWeak, Wide!NormalizeWeak, DropTop, Wide!DropTop
<1> QED BY <1>4, ReducedCarriesNothing

-----------------------------------------------------------------------------
\* The pass that adds C once more, after a first one has left t.
LEMMA SecondPass ==
  ASSUME Wider, NEW m \in 1 .. MaxMagnitude, NEW t, Passing(t, 2^T - 1 + (2 * m - 1)), NEW z \in {0, 1}
  PROVE  /\ Wide!AddC(t, z) = AddC(t, z)
         /\ \E c : /\ Exactly(AddC(t, z), [i \in Limb |-> t[i] + z * C(i)], c)
                   /\ \A i \in Limb : c[i] \in 0 .. 1
         /\ Passing(AddC(t, z), 2^T - 1 + 2 * m)
<1> DEFINE s == [i \in Limb |-> t[i] + z * C(i)]
<1>0. /\ t \in [Limb -> Nat] /\ 2^B \in Nat \ {0} /\ 2^T \in Nat /\ 2^T <= 2^B /\ 2 * m < 2^T
      /\ \A i \in Limb \ {N - 1} : t[i] < 2^B
      /\ t[N - 1] <= 2^T - 1 + (2 * m - 1)
  <2>1. MaxMagnitude \in Nat /\ 2 * MaxMagnitude < 2^T
    BY UseAssumption, WordAssumption
  <2>2. 2 * m < 2^T
    BY <2>1, Sizes
  <2> QED BY <2>2, Sizes DEF Passing
<1>1. ASSUME NEW i \in Limb PROVE s[i] \in Nat /\ s[i] + (IF i = 0 THEN 0 ELSE 2 - 1) < 2 * 2^B
  <2>1. t[i] \in Nat /\ C(i) \in Nat /\ (z * C(i) = 0 \/ z * C(i) = C(i)) /\ s[i] = t[i] + z * C(i)
    <3>1. C(i) \in Nat
      BY LimbSizes
    <3> QED BY <1>0, <3>1
  <2>2. 2 * C(i) <= 2^B /\ (i # 0 => 2 * C(i) < 2^B) /\ (i = N - 1 => C(i) = 0)
    BY <1>0, ShapeAssumption, TopIsLimb DEF C
  <2>3. CASE i = N - 1
    <3>1. s[i] = t[i] /\ t[i] <= 2^T - 1 + (2 * m - 1)
      BY <1>0, <2>1, <2>2, <2>3
    <3> HIDE DEF s
    <3> DEFINE bt == 2^T
               bb == 2^B
    <3>2. bt \in Nat /\ bb \in Nat /\ bt <= bb /\ 2 * m < bt /\ t[i] <= bt - 1 + (2 * m - 1) /\ t[i] \in Nat
      BY <1>0, <2>1, <3>1
    <3> HIDE DEF bt, bb
    <3>3. t[i] + 1 < 2 * bb
      BY <3>2
    <3>4. i # 0 /\ s[i] = t[i] /\ t[i] \in Nat
      BY <2>1, <2>3, <3>1, TopIsLimb
    <3>5. s[i] + 1 < 2 * bb
      BY <3>3, <3>4
    <3> QED BY <3>4, <3>5 DEF bb
  <2>4. CASE i # N - 1
    <3>1. t[i] < 2^B
      BY <1>0, <2>4
    <3> HIDE DEF s
    <3> DEFINE bb == 2^B
               k == C(i)
               a == t[i]
    <3>2. bb \in Nat \ {0} /\ k \in Nat /\ a \in Nat /\ a < bb /\ 2 * k <= bb /\ (i # 0 => 2 * k < bb)
      BY <1>0, <2>1, <2>2, <3>1
    <3>3. s[i] = a \/ s[i] = a + k
      BY <1>0, <2>1
    <3> DEFINE si == s[i]
    <3>5. si = a \/ si = a + k
      BY <3>3
    <3> HIDE DEF bb, k, a, si
    <3>6. si \in Nat /\ si < 2 * bb /\ (i # 0 => si + 1 < 2 * bb)
      <4>1. CASE si = a
        BY <3>2, <4>1
      <4>2. CASE si = a + k
        BY <3>2, <4>2
      <4> QED BY <3>5, <4>1, <4>2
    <3>4. s[i] \in Nat /\ s[i] + (IF i = 0 THEN 0 ELSE 2 - 1) < 2 * bb
      <4>1. CASE i = 0
        BY <3>6, <4>1 DEF si
      <4>2. CASE i # 0
        BY <3>6, <4>2 DEF si
      <4> QED BY <4>1, <4>2
    <3> QED BY <3>4 DEF bb
  <2> QED BY <2>3, <2>4
<1>2. Carries(s, 2)
  <2>1. s \in [Limb -> Nat]
    BY <1>1
  <2> QED BY <1>1, <2>1 DEF Carries
<1>3. /\ Wide!AddC(t, z) = AddC(t, z)
      /\ \E c : /\ Exactly(AddC(t, z), s, c)
                /\ \A i \in Limb : c[i] \in 0 .. 2 - 1 /\ s[i] + c[i] < 2 * 2^B
  <2>1. 2 <= 2 * MaxMagnitude
    BY Sizes, UseAssumption
  <2> HIDE DEF s
  <2>2. s = [i \in Limb |-> t[i] + z * C(i)]
    BY DEF s
  <2> QED BY <1>2, <2>1, <2>2, AddCAgrees
<1>4. s[N - 1] <= 2^T - 1 + (2 * m - 1) /\ s[N - 1] \in Nat
  <2>1. s[N - 1] = t[N - 1] + z * 0
    BY TopIsLimb
  <2>2. s[N - 1] = t[N - 1]
    BY <1>0, <2>1, TopIsLimb
  <2> QED BY <1>0, <2>2, TopIsLimb
<1> HIDE DEF s
<1>5. Passing(AddC(t, z), s[N - 1] + (2 - 1))
  BY <1>2, <1>3, ExactlyPasses
<1>6. Passing(AddC(t, z), 2^T - 1 + 2 * m)
  <2> DEFINE r == AddC(t, z)
             a == s[N - 1]
             d == 2^T
  <2>1. r \in [Limb -> Nat] /\ (\A i \in Limb \ {N - 1} : r[i] < 2^B) /\ r[N - 1] <= a + (2 - 1)
    BY <1>5 DEF Passing
  <2>2. a \in Nat /\ d \in Nat /\ a <= d - 1 + (2 * m - 1) /\ m \in Nat /\ r[N - 1] \in Nat
    BY <1>0, <1>4, <2>1, UseAssumption, TopIsLimb
  <2> HIDE DEF r, a, d
  <2>3. r[N - 1] <= d - 1 + 2 * m
    BY <2>1, <2>2
  <2> QED BY <2>1, <2>3 DEF Passing, r, d
<1>7. \E c : Exactly(AddC(t, z), s, c) /\ \A i \in Limb : c[i] \in 0 .. 1
  BY <1>3
<1> QED BY <1>3, <1>6, <1>7 DEF s

\* Without its overflow the top limb is reduced too.
LEMMA DropTopReduces ==
  ASSUME NEW r, NEW top, Passing(r, top)
  PROVE  Reduced(DropTop(r)) /\ DropTop(r) = [r EXCEPT ![N-1] = r[N-1] % 2^T]
<1>1. DropTop(r) = [r EXCEPT ![N-1] = r[N-1] % 2^T]
  BY DEF DropTop
<1>2. r \in [Limb -> Nat] /\ 2^B \in Nat \ {0} /\ 2^T \in Nat \ {0} /\ r[N - 1] \in Nat
  BY Sizes, TopIsLimb DEF Passing
<1>3. r[N-1] % 2^T \in 0 .. 2^T - 1
  <2> DEFINE a == r[N-1]
             d == 2^T
  <2>1. a \in Nat /\ d \in Nat \ {0}
    BY <1>2
  <2> HIDE DEF a, d
  <2>2. a % d \in 0 .. d - 1
    BY <2>1, Remainder
  <2> QED BY <2>2 DEF a, d
<1>4. ASSUME NEW i \in Limb PROVE DropTop(r)[i] \in Nat /\ DropTop(r)[i] <= Full(i)
  <2>1. CASE i = N - 1
    BY <1>1, <1>2, <1>3, <2>1, TopIsLimb
  <2>2. CASE i # N - 1
    <3>1. r[i] < 2^B /\ r[i] \in Nat /\ Full(i) = 2^B - 1
      BY <1>2, <2>2 DEF Passing, Full
    <3> QED BY <1>1, <1>2, <2>2, <3>1
  <2> QED BY <2>1, <2>2
<1>5. DropTop(r) \in [Limb -> Nat]
  <2>1. r[N-1] % 2^T \in Nat
    BY <1>2, <1>3
  <2> QED BY <1>1, <1>2, <2>1
<1> QED BY <1>1, <1>4, <1>5 DEF Reduced

\* normalize never wraps, and one conditional subtraction of the prime is enough: its result is
\* reduced and below the prime.  normalize_var, which leaves out the second pass when it can,
\* has the same result.
LEMMA NormalizeAgrees ==
  ASSUME Wider, NEW m \in 1 .. MaxMagnitude, NEW l, Bounded(l, m)
  PROVE  /\ Wide!Normalize(l) = Normalize(l)
         /\ Reduced(Normalize(l)) /\ ~AtLeastP(Normalize(l))
         /\ NormalizeVar(l) = Normalize(l)
<1> DEFINE t == NormalizeWeak(l)
           x1 == t[N-1] \div 2^T = 1 \/ AtLeastP(t)
           z == IF x1 THEN 1 ELSE 0
           r == AddC(t, z)
<1>1. Wide!NormalizeWeak(l) = t /\ Passing(t, 2^T - 1 + (2 * m - 1))
  BY NormalizeWeakAgrees
<1>2. Normalize(l) = DropTop(r)
  BY Zenon DEF Normalize
<1>3. Wide!Normalize(l) = DropTop(Wide!AddC(t, z))
  <2>1. Wide!AtLeastP(t) = AtLeastP(t)
    BY Zenon DEF AtLeastP, Wide!AtLeastP, Full, Wide!Full
  <2>2. Wide!DropTop(Wide!AddC(t, z)) = DropTop(Wide!AddC(t, z))
    BY Zenon DEF DropTop, Wide!DropTop
  <2> HIDE DEF t
  <2> QED BY <1>1, <2>1, <2>2, Zenon DEF Wide!Normalize
<1>10. /\ NormalizeVar(l) = IF x1 THEN DropTop(AddC(t, 1)) ELSE t
       /\ x1 => r = AddC(t, 1)
  BY DEF NormalizeVar
<1> HIDE DEF t
<1>4. z \in {0, 1}
  OBVIOUS
<1>5. /\ Wide!AddC(t, z) = r /\ Passing(r, 2^T - 1 + 2 * m)
      /\ \E c : /\ Exactly(r, [i \in Limb |-> t[i] + z * C(i)], c)
                /\ \A i \in Limb : c[i] \in 0 .. 1
  <2> HIDE DEF z
  <2> QED BY <1>1, <1>4, SecondPass
<1>6. Reduced(DropTop(r)) /\ DropTop(r) = [r EXCEPT ![N-1] = r[N-1] % 2^T]
  <2> HIDE DEF r
  <2> QED BY <1>5, DropTopReduces
<1>0. /\ t \in [Limb -> Nat] /\ 2^B \in Nat \ {0} /\ 2^T \in Nat \ {0} /\ 2^T <= 2^B /\ 2 * m < 2^T
      /\ \A i \in Limb \ {N - 1} : t[i] < 2^B
      /\ t[N - 1] <= 2^T - 1 + (2 * m - 1) /\ t[N - 1] \in Nat /\ 2^T >= 5
  <2>1. MaxMagnitude \in Nat /\ 2 * MaxMagnitude < 2^T
    BY UseAssumption, WordAssumption
  <2>2. 2 * m < 2^T
    BY <2>1, Sizes
  <2> QED BY <1>1, <2>2, Sizes, TopIsLimb DEF Passing
<1>9. ASSUME ~x1 PROVE DropTop(r) = t
  <2>1. t[N - 1] < 2^T
    <3> DEFINE a == t[N - 1]
               d == 2^T
    <3>1. a \in Nat /\ d \in Nat \ {0} /\ a < 2 * d /\ a \div d # 1
      BY <1>0, <1>9
    <3> HIDE DEF a, d
    <3>2. a \div d \in Nat /\ a \div d < 2
      BY <3>1, Division, DivBelow
    <3>3. a \div d = 0
      BY <3>1, <3>2
    <3>4. a = (d * (a \div d)) + (a % d) /\ a % d \in 0 .. d - 1
      BY <3>1, Division
    <3>5. a < d
      BY <3>1, <3>3, <3>4
    <3> QED BY <3>5 DEF a, d
  <2>2. Reduced(t)
    <3>1. ASSUME NEW i \in Limb PROVE t[i] <= Full(i)
      <4>1. CASE i = N - 1
        BY <1>0, <2>1, <4>1, TopIsLimb
      <4>2. CASE i # N - 1
        <5>1. t[i] < 2^B /\ t[i] \in Nat /\ Full(i) = 2^B - 1
          BY <1>0, <4>2 DEF Full
        <5> QED BY <1>0, <5>1
      <4> QED BY <4>1, <4>2
    <3> QED BY <1>0, <3>1 DEF Reduced
  <2>3. r = t
    BY <1>9, <2>2, ReducedCarriesNothing
  <2>4. DropTop(r) = t
    <3>1. r[N-1] % 2^T = r[N-1]
      BY <1>0, <2>1, <2>3, ModBelow
    <3> QED BY <1>6, <2>3, <3>1, <1>0
  <2> QED BY <2>4
<1>7. ~AtLeastP(DropTop(r))
  <2>1. CASE ~x1
    BY <1>9, <2>1
  <2>2. PICK c : /\ Exactly(r, [i \in Limb |-> t[i] + z * C(i)], c)
                 /\ \A i \in Limb : c[i] \in 0 .. 1
    BY <1>5
  <2> DEFINE s == [i \in Limb |-> t[i] + z * C(i)]
  <2>3. /\ c[0] = 0
        /\ \A i \in Limb \ {0} : c[i] = (s[i-1] + c[i-1]) \div 2^B
        /\ r = [i \in Limb |-> IF i = N - 1 THEN s[i] + c[i] ELSE (s[i] + c[i]) % 2^B]
    BY <2>2 DEF Exactly
  <2>4. CASE x1 /\ t[N-1] \div 2^T = 1
    <3>1. s[N - 1] = t[N - 1]
      <4>1. s[N - 1] = t[N - 1] + z * 0
        BY TopIsLimb
      <4> QED BY <1>0, <4>1, <1>4
    <3>2. r[N - 1] = t[N - 1] + c[N - 1] /\ c[N - 1] \in 0 .. 1
      BY <2>2, <2>3, <3>1, TopIsLimb
    <3>3. r[N - 1] % 2^T < 2^T - 1
      <4> DEFINE a == t[N - 1]
                 d == 2^T
                 b == r[N - 1]
      <4>1. a \in Nat /\ d \in Nat \ {0} /\ a \div d = 1 /\ a <= d - 1 + (2 * m - 1) /\ 2 * m < d /\ b \in Nat
            /\ a <= b /\ b <= a + 1
        BY <1>0, <2>4, <3>2
      <4> HIDE DEF a, b, d
      <4>2. a = (d * (a \div d)) + (a % d) /\ a % d \in 0 .. d - 1
        BY <4>1, Division
      <4>3. d <= a
        BY <4>1, <4>2
      <4>4. b < 2 * d - 1 /\ d <= b
        BY <4>1, <4>3
      <4>5. b % d = b - d
        <5>4. b < 2 * d
          BY <4>1, <4>4
        <5>1. b \div d \in Nat /\ b \div d < 2 /\ b = (d * (b \div d)) + (b % d) /\ b % d \in 0 .. d - 1
          BY <4>1, <5>4, Division, DivBelow
        <5>2. b \div d # 0
          BY <4>1, <4>4, <5>1
        <5>3. b \div d = 1
          BY <5>1, <5>2
        <5> QED BY <4>1, <5>1, <5>3
      <4>6. b % d < d - 1
        BY <4>1, <4>4, <4>5
      <4> QED BY <4>6 DEF b, d
    <3>4. r \in [Limb -> Nat]
      BY <1>5 DEF Passing
    <3>5. DropTop(r)[N - 1] # Full(N - 1)
      <4>1. DropTop(r)[N - 1] = r[N - 1] % 2^T
        BY <1>6, <3>4, TopIsLimb
      <4> QED BY <1>0, <3>3, <4>1, TopIsLimb
    <3>6. N - 1 \in 2 .. N - 1
      BY TopIsLimb
    <3> QED BY <3>5, <3>6 DEF AtLeastP
  <2>5. CASE x1 /\ AtLeastP(t)
    <3>0. /\ N \in Nat /\ N >= 4 /\ Limb = 0 .. N - 1 /\ 0 \in Limb /\ 1 \in Limb /\ 2 \in Limb
          /\ C(0) = C0 /\ C(1) = 2^S /\ C(2) = 0 /\ Full(1) = 2^B - 1 /\ Full(2) = 2^B - 1
          /\ C0 \in Nat /\ 2^S \in Nat /\ 2 # N - 1
      BY TopIsLimb, ShapeAssumption, Sizes
    <3>1. t[2] = Full(2) /\ t[1] + 2^S + (t[0] + C0) \div 2^B > Full(1)
      BY <2>5, <3>0 DEF AtLeastP
    <3>2. s[0] = t[0] + C0 /\ s[1] = t[1] + 2^S /\ s[2] = 2^B - 1
      <4>1. z = 1
        BY <2>5
      <4>2. t[0] \in Nat /\ t[1] \in Nat /\ t[2] \in Nat
        BY <1>0, <3>0
      <4> HIDE DEF z
      <4>3. s[0] = t[0] + 1 * C0 /\ s[1] = t[1] + 1 * 2^S /\ s[2] = t[2] + 1 * 0
        BY <3>0, <4>1
      <4> QED BY <1>0, <3>0, <3>1, <4>2, <4>3
    <3>3. c[1] = (t[0] + C0) \div 2^B
      <4>1. 1 \in Limb \ {0} /\ 1 - 1 = 0
        BY <3>0
      <4>2. c[1] = (s[0] + c[0]) \div 2^B
        BY <2>3, <4>1
      <4>3. s[0] + 0 = t[0] + C0
        <5>2. t[0] \in Nat /\ C0 \in Nat
          BY <1>0, <3>0
        <5>1. t[0] + C0 \in Nat
          BY <5>2
        <5> QED BY <3>2, <5>1
      <4> QED BY <2>3, <4>2, <4>3
    <3>4. c[2] = (t[1] + 2^S + c[1]) \div 2^B
      <4>1. 2 \in Limb \ {0} /\ 2 - 1 = 1
        BY <3>0
      <4>2. c[2] = (s[1] + c[1]) \div 2^B
        BY <2>3, <4>1
      <4> QED BY <3>2, <4>2
    <3>5. c[2] = 1
      <4> DEFINE a == t[1] + 2^S + c[1]
                 d == 2^B
      <4>1. a \in Nat /\ d \in Nat \ {0} /\ a >= d /\ c[2] = a \div d /\ c[2] \in 0 .. 1
        <5>1. t[1] \in Nat /\ c[1] \in 0 .. 1 /\ c[2] \in 0 .. 1
          BY <1>0, <2>2, <3>0
        <5>2. a > 2^B - 1
          BY <3>0, <3>1, <3>3
        <5>3. a \in Nat
          BY <3>0, <5>1
        <5>4. c[2] = a \div d
          BY <3>4
        <5> HIDE DEF a
        <5> QED BY <1>0, <5>1, <5>2, <5>3, <5>4
      <4> HIDE DEF a, d
      <4>2. a = (d * (a \div d)) + (a % d) /\ a % d \in 0 .. d - 1 /\ a \div d \in Nat
        BY <4>1, Division
      <4>3. a \div d # 0
        BY <4>1, <4>2
      <4> QED BY <4>1, <4>2, <4>3
    <3>6. r[2] = 0
      <4>1. r[2] = (s[2] + c[2]) % 2^B
        BY <2>3, <3>0
      <4>2. s[2] + c[2] = 2^B
        BY <1>0, <3>2, <3>5
      <4> QED BY <1>0, <4>1, <4>2
    <3>7. DropTop(r)[2] = 0
      <4>1. r \in [Limb -> Nat]
        BY <1>5 DEF Passing
      <4> QED BY <1>6, <3>0, <3>6, <4>1
    <3>8. Full(2) # 0
      BY <1>0, <3>0
    <3>9. 2 \in 2 .. N - 1
      BY <3>0
    <3> QED BY <3>7, <3>8, <3>9 DEF AtLeastP
  <2> QED BY <2>1, <2>4, <2>5
<1> HIDE DEF r, z
<1>8. Wide!Normalize(l) = DropTop(r)
  BY <1>3, <1>5
<1>11. NormalizeVar(l) = DropTop(r)
  <2>1. x1 => NormalizeVar(l) = DropTop(r)
    BY <1>10
  <2> QED BY <1>9, <1>10, <2>1
<1> QED BY <1>2, <1>6, <1>7, <1>8, <1>11

-----------------------------------------------------------------------------
\* A limb of an element within the largest magnitude is a word.
LEMMA LimbFits ==
  ASSUME Wider, NEW q \in 1 .. MaxMagnitude, NEW i \in Limb, NEW v \in Nat, v <= (2 * q) * PLimb(i)
  PROVE  v % 2^WordBits = v /\ v % 2^WideWord = v
<1> DEFINE p == 2 * q
           f == PLimb(i)
           b == 2^B
<1>1. p \in Nat \ {0} /\ f \in Nat /\ b \in Nat /\ f + 1 <= b /\ p <= 2 * MaxMagnitude
  <2>1. PLimb(i) \in Nat /\ PLimb(i) <= Full(i) /\ Full(i) < 2^B /\ 2^B \in Nat /\ Full(i) \in Nat
    BY LimbSizes, Sizes
  <2> QED BY <2>1, UseAssumption
<1>2. p * b \in Nat /\ p * b <= 2^WordBits
  BY <1>1, WordRoom
<1>3. v <= p * f
  OBVIOUS
<1> HIDE DEF p, f, b
<1>4. p * (f + 1) <= p * b /\ p * (f + 1) = p * f + p /\ p * f \in Nat
  BY <1>1
<1>5. v < p * b
  BY <1>1, <1>2, <1>3, <1>4
<1>6. v < 2^WordBits /\ v < 2^WideWord
  BY <1>2, <1>5, Sizes, WiderSizes
<1> QED BY <1>6, Sizes, WiderSizes, ModBelow

\* One limb of an element within its magnitude.
LEMMA BoundedLimb ==
  ASSUME NEW m \in Nat, NEW l, Bounded(l, m), NEW i \in Limb
  PROVE  l[i] \in Nat /\ l[i] <= (2 * m) * PLimb(i) /\ PLimb(i) \in Nat
BY LimbSizes DEF Bounded

\* Limb by limb: nothing wraps, in words of either size.
LEMMA NothingWraps ==
  ASSUME Wider, NEW q \in 1 .. MaxMagnitude, NEW v, v \in [Limb -> Nat],
         \A i \in Limb : v[i] <= (2 * q) * PLimb(i)
  PROVE  /\ [i \in Limb |-> v[i] % 2^WordBits] = v
         /\ [i \in Limb |-> v[i] % 2^WideWord] = v
         /\ Bounded(v, q)
<1>1. \A i \in Limb : v[i] % 2^WordBits = v[i] /\ v[i] % 2^WideWord = v[i]
  BY LimbFits
<1>2. v = [i \in Limb |-> v[i]]
  OBVIOUS
<1>3. [i \in Limb |-> v[i] % 2^WordBits] = [i \in Limb |-> v[i]]
  BY <1>1
<1>4. [i \in Limb |-> v[i] % 2^WideWord] = [i \in Limb |-> v[i]]
  BY <1>1
<1> QED BY <1>2, <1>3, <1>4 DEF Bounded

\* negate never goes below zero, never wraps, and adds 1 to the magnitude.
LEMMA NegateAgrees ==
  ASSUME Wider, NEW m \in 1 .. MaxMagnitude, m < MaxMagnitude, NEW l, Bounded(l, m)
  PROVE  /\ Wide!Negate(l, m) = Negate(l, m) /\ Bounded(Negate(l, m), m + 1)
         /\ \A i \in Limb : Negate(l, m)[i] = PLimb(i) * 2 * (m + 1) - l[i]
<1> DEFINE v == [i \in Limb |-> PLimb(i) * 2 * (m + 1) - l[i]]
<1>1. m + 1 \in 1 .. MaxMagnitude /\ m \in Nat
  BY UseAssumption
<1>2. ASSUME NEW i \in Limb PROVE v[i] \in Nat /\ v[i] <= (2 * (m + 1)) * PLimb(i)
  <2> DEFINE a == l[i]
             f == PLimb(i)
  <2>1. a \in Nat /\ f \in Nat /\ a <= (2 * m) * f
    BY <1>1, BoundedLimb
  <2>2. v[i] = f * 2 * (m + 1) - a
    OBVIOUS
  <2> HIDE DEF a, f, v
  <2>3. f * 2 * (m + 1) = (2 * m) * f + 2 * f /\ (2 * (m + 1)) * f = (2 * m) * f + 2 * f /\ (2 * m) * f \in Nat
    BY <1>1, <2>1
  <2>4. v[i] \in Nat /\ v[i] <= (2 * (m + 1)) * f
    BY <2>1, <2>2, <2>3
  <2> QED BY <2>4 DEF f
<1>3. v \in [Limb -> Nat]
  BY <1>2
<1>4. \A i \in Limb : v[i] = PLimb(i) * 2 * (m + 1) - l[i]
  OBVIOUS
<1> HIDE DEF v
<1>5. /\ [i \in Limb |-> v[i] % 2^WordBits] = v /\ [i \in Limb |-> v[i] % 2^WideWord] = v
      /\ Bounded(v, m + 1)
  BY <1>1, <1>2, <1>3, NothingWraps
<1>6. Negate(l, m) = [i \in Limb |-> v[i] % 2^WordBits]
  BY <1>4, Zenon DEF Negate, Word
<1>7. Wide!Negate(l, m) = [i \in Limb |-> v[i] % 2^WideWord]
  BY <1>4, Zenon DEF Wide!Negate, Wide!Word, Wide!Limb, Limb, Wide!PLimb, PLimb, Wide!Full, Full
<1> QED BY <1>4, <1>5, <1>6, <1>7

\* mul_int never wraps, and multiplies the magnitude.
LEMMA MulIntAgrees ==
  ASSUME Wider, NEW m \in 1 .. MaxMagnitude, NEW k \in Nat \ {0}, m * k <= MaxMagnitude,
         NEW l, Bounded(l, m)
  PROVE  /\ Wide!MulInt(l, k) = MulInt(l, k) /\ Bounded(MulInt(l, k), m * k) /\ m * k \in 1 .. MaxMagnitude
         /\ \A i \in Limb : MulInt(l, k)[i] = l[i] * k
<1> DEFINE v == [i \in Limb |-> l[i] * k]
<1>1. m * k \in 1 .. MaxMagnitude /\ m \in Nat
  <2>1. 1 * k <= m * k /\ m * k \in Nat
    BY Times, UseAssumption
  <2> QED BY <2>1, UseAssumption
<1>2. ASSUME NEW i \in Limb PROVE v[i] \in Nat /\ v[i] <= (2 * (m * k)) * PLimb(i)
  <2> DEFINE a == l[i]
             f == PLimb(i)
  <2>1. a \in Nat /\ f \in Nat /\ a <= (2 * m) * f
    BY <1>1, BoundedLimb
  <2>2. v[i] = a * k
    OBVIOUS
  <2> HIDE DEF a, f, v
  <2>3. (2 * m) * f \in Nat /\ a * k \in Nat /\ a * k <= ((2 * m) * f) * k
    <3> DEFINE g == (2 * m) * f
    <3>1. g \in Nat /\ a <= g
      BY <1>1, <2>1
    <3> HIDE DEF g
    <3>2. a * k \in Nat /\ a * k <= g * k
      BY <2>1, <3>1, Times
    <3> QED BY <3>1, <3>2 DEF g
  <2>4. ((2 * m) * f) * k = (2 * (m * k)) * f
    BY <1>1, <2>1
  <2> QED BY <2>2, <2>3, <2>4 DEF f
<1>3. v \in [Limb -> Nat]
  BY <1>2
<1>4. \A i \in Limb : v[i] = l[i] * k
  OBVIOUS
<1> HIDE DEF v
<1>5. /\ [i \in Limb |-> v[i] % 2^WordBits] = v /\ [i \in Limb |-> v[i] % 2^WideWord] = v
      /\ Bounded(v, m * k)
  BY <1>1, <1>2, <1>3, NothingWraps
<1>6. MulInt(l, k) = [i \in Limb |-> v[i] % 2^WordBits]
  BY <1>4, Zenon DEF MulInt, Word
<1>7. Wide!MulInt(l, k) = [i \in Limb |-> v[i] % 2^WideWord]
  BY <1>4, Zenon DEF Wide!MulInt, Wide!Word, Wide!Limb, Limb
<1> QED BY <1>1, <1>4, <1>5, <1>6, <1>7

\* add never wraps, and adds the magnitudes.
LEMMA AddAgrees ==
  ASSUME Wider, NEW m \in 1 .. MaxMagnitude, NEW n \in 1 .. MaxMagnitude, m + n <= MaxMagnitude,
         NEW l, Bounded(l, m), NEW h, Bounded(h, n)
  PROVE  /\ Wide!Add(l, h) = Add(l, h) /\ Bounded(Add(l, h), m + n)
         /\ \A i \in Limb : Add(l, h)[i] = l[i] + h[i]
<1> DEFINE v == [i \in Limb |-> l[i] + h[i]]
<1>1. m + n \in 1 .. MaxMagnitude /\ m \in Nat /\ n \in Nat
  BY UseAssumption
<1>2. ASSUME NEW i \in Limb PROVE v[i] \in Nat /\ v[i] <= (2 * (m + n)) * PLimb(i)
  <2> DEFINE a == l[i]
             b == h[i]
             f == PLimb(i)
  <2>1. a \in Nat /\ b \in Nat /\ f \in Nat /\ a <= (2 * m) * f /\ b <= (2 * n) * f
    BY <1>1, BoundedLimb
  <2>2. v[i] = a + b
    OBVIOUS
  <2> HIDE DEF a, b, f, v
  <2>3. (2 * (m + n)) * f = (2 * m) * f + (2 * n) * f /\ (2 * m) * f \in Nat /\ (2 * n) * f \in Nat
    BY <1>1, <2>1
  <2>4. v[i] \in Nat /\ v[i] <= (2 * (m + n)) * f
    BY <2>1, <2>2, <2>3
  <2> QED BY <2>4 DEF f
<1>3. v \in [Limb -> Nat]
  BY <1>2
<1>4. \A i \in Limb : v[i] = l[i] + h[i]
  OBVIOUS
<1> HIDE DEF v
<1>5. /\ [i \in Limb |-> v[i] % 2^WordBits] = v /\ [i \in Limb |-> v[i] % 2^WideWord] = v
      /\ Bounded(v, m + n)
  BY <1>1, <1>2, <1>3, NothingWraps
<1>6. Add(l, h) = [i \in Limb |-> v[i] % 2^WordBits]
  BY <1>4, Zenon DEF Add, Word
<1>7. Wide!Add(l, h) = [i \in Limb |-> v[i] % 2^WideWord]
  BY <1>4, Zenon DEF Wide!Add, Wide!Word, Wide!Limb, Limb
<1> QED BY <1>4, <1>5, <1>6, <1>7

\* A larger magnitude allows more.
LEMMA BoundedMore ==
  ASSUME NEW m \in Nat, NEW n \in Nat, m <= n, NEW l, Bounded(l, m)
  PROVE  Bounded(l, n)
<1>1. ASSUME NEW i \in Limb PROVE l[i] <= (2 * n) * PLimb(i)
  <2> DEFINE a == l[i]
             f == PLimb(i)
             p == 2 * m
             q == 2 * n
  <2>1. a \in Nat /\ f \in Nat /\ a <= p * f
    BY BoundedLimb
  <2>2. p \in Nat /\ q \in Nat /\ p <= q
    OBVIOUS
  <2> HIDE DEF a, f, p, q
  <2>3. p * f \in Nat /\ q * f \in Nat /\ p * f <= q * f
    BY <2>1, <2>2, Times
  <2>4. a <= q * f
    BY <2>1, <2>3
  <2> QED BY <2>4 DEF a, f, q
<1> QED BY <1>1 DEF Bounded

\* normalize_weak leaves magnitude 1.
LEMMA NormalizeWeakBounded ==
  ASSUME Wider, NEW m \in 1 .. MaxMagnitude, NEW l, Bounded(l, m)
  PROVE  Bounded(NormalizeWeak(l), 1)
<1> DEFINE r == NormalizeWeak(l)
<1>1. Passing(r, 2^T - 1 + (2 * m - 1))
  BY NormalizeWeakAgrees
<1> HIDE DEF r
<1>2. ASSUME NEW i \in Limb PROVE r[i] <= (2 * 1) * PLimb(i)
  <2>1. CASE i = N - 1
    <3> DEFINE d == 2^T
               a == r[i]
    <3>1. a \in Nat /\ d \in Nat /\ 2 * MaxMagnitude < d /\ a <= d - 1 + (2 * m - 1) /\ PLimb(i) = d - 1
      BY <1>1, <2>1, WordAssumption, Sizes, TopIsLimb DEF Passing
    <3>2. MaxMagnitude \in Nat
      BY UseAssumption
    <3> HIDE DEF d, a
    <3>3. a <= 2 * (d - 1)
      BY <3>1, <3>2
    <3> QED BY <3>1, <3>3 DEF a
  <2>2. CASE i # N - 1
    <3>1. r[i] \in Nat /\ r[i] < 2^B /\ Full(i) = 2^B - 1 /\ 2^B \in Nat
      BY <1>1, <2>2, Sizes DEF Passing, Full
    <3>2. PLimb(i) \in Nat /\ Full(i) <= 2 * PLimb(i)
      BY LimbSizes
    <3> QED BY <3>1, <3>2
  <2> QED BY <2>1, <2>2
<1> QED BY <1>1, <1>2 DEF Bounded, Passing, r

-----------------------------------------------------------------------------
\* The partial sums.
IsTotal(s, f, n) == s = [k \in 0 .. n |-> IF k = 0 THEN 0 ELSE s[k - 1] + f[k - 1]]

\* A sum, a recursive function, exists for all terms.
LEMMA TotalExists ==
  ASSUME NEW f, NEW n \in Nat
  PROVE  \E s : IsTotal(s, f, n) /\ Total(f, n) = s[n]
<1> DEFINE H == {j \in Nat : \E s : IsTotal(s, f, j)}
<1>1. 0 \in H
  <2> DEFINE s == [k \in 0 .. 0 |-> 0]
  <2>1. s = [k \in 0 .. 0 |-> IF k = 0 THEN 0 ELSE s[k - 1] + f[k - 1]]
    OBVIOUS
  <2> HIDE DEF s
  <2> QED BY <2>1 DEF IsTotal
<1>2. ASSUME NEW j \in H PROVE j + 1 \in H
  <2>1. PICK s : IsTotal(s, f, j)
    OBVIOUS
  <2> DEFINE d == [k \in 0 .. j + 1 |-> IF k <= j THEN s[k] ELSE s[j] + f[j]]
  <2>2. ASSUME NEW k \in 0 .. j + 1 PROVE d[k] = IF k = 0 THEN 0 ELSE d[k - 1] + f[k - 1]
    <3>1. CASE k = 0
      BY <2>1, <3>1 DEF IsTotal
    <3>2. CASE k # 0 /\ k <= j
      <4>1. k \in 0 .. j /\ k - 1 \in 0 .. j + 1 /\ k - 1 <= j
        BY <3>2
      <4>2. d[k] = s[k] /\ d[k - 1] = s[k - 1] /\ s[k] = s[k - 1] + f[k - 1]
        BY <2>1, <3>2, <4>1 DEF IsTotal
      <4> HIDE DEF d
      <4> QED BY <3>2, <4>2
    <3>3. CASE k = j + 1
      <4>1. k - 1 = j /\ k # 0 /\ j \in 0 .. j + 1 /\ ~(k <= j)
        BY <3>3
      <4>2. d[k] = s[j] + f[j] /\ d[k - 1] = s[j]
        BY <4>1
      <4> HIDE DEF d
      <4> QED BY <4>1, <4>2
    <3> QED BY <3>1, <3>2, <3>3
  <2>3. d = [k \in 0 .. j + 1 |-> d[k]]
    OBVIOUS
  <2> HIDE DEF d
  <2>4. IsTotal(d, f, j + 1)
    BY <2>2, <2>3 DEF IsTotal
  <2>5. j + 1 \in Nat
    OBVIOUS
  <2> QED BY <2>4, <2>5
<1> HIDE DEF H
<1>3. H = Nat
  BY <1>1, <1>2, Induction DEF H
<1> DEFINE s == CHOOSE s : IsTotal(s, f, n)
<1>4. \E r : IsTotal(r, f, n)
  BY <1>3 DEF H
<1>5. IsTotal(s, f, n)
  BY <1>4
<1>6. Total(f, n) = s[n]
  BY Zenon DEF Total, IsTotal
<1> HIDE DEF s
<1> QED BY <1>5, <1>6

\* A sum whose terms are at most so many times g, by the weights h gives them.
LEMMA TotalBelow ==
  ASSUME NEW n \in Nat, NEW f, NEW h, NEW g \in Nat,
         \A j \in 0 .. n : h[j] \in Nat, h[0] = 0,
         \A j \in 0 .. n - 1 : f[j] \in Nat /\ h[j] <= h[j + 1] /\ f[j] <= (h[j + 1] - h[j]) * g
  PROVE  Total(f, n) \in Nat /\ Total(f, n) <= h[n] * g
<1>1. PICK s : IsTotal(s, f, n) /\ Total(f, n) = s[n]
  BY TotalExists
<1> DEFINE H == {j \in Nat : j \in 0 .. n => s[j] \in Nat /\ s[j] <= h[j] * g}
<1>2. 0 \in H
  BY <1>1 DEF IsTotal
<1>3. ASSUME NEW j \in H PROVE j + 1 \in H
  <2> SUFFICES ASSUME j + 1 \in 0 .. n PROVE s[j + 1] \in Nat /\ s[j + 1] <= h[j + 1] * g
    OBVIOUS
  <2>1. j \in 0 .. n /\ j \in 0 .. n - 1 /\ j + 1 # 0 /\ (j + 1) - 1 = j
    OBVIOUS
  <2>2. s[j + 1] = s[j] + f[j]
    BY <1>1, <2>1 DEF IsTotal
  <2> DEFINE a == s[j]
             t == f[j]
             u == h[j]
             v == h[j + 1]
  <2>3. a \in Nat /\ a <= u * g /\ t \in Nat /\ u \in Nat /\ v \in Nat /\ u <= v /\ t <= (v - u) * g
    BY <2>1
  <2> HIDE DEF a, t, u, v
  <2>4. (v - u) * g = v * g - u * g /\ u * g \in Nat /\ v * g \in Nat
    BY <2>3
  <2>5. a + t \in Nat /\ a + t <= v * g
    BY <2>3, <2>4
  <2> QED BY <2>2, <2>5 DEF a, t, v
<1>4. H = Nat
  <2> HIDE DEF H
  <2> QED BY <1>2, <1>3, Induction DEF H
<1>5. n \in H
  BY <1>4
<1> QED BY <1>1, <1>5

\* A bound on every limb of an element that may be multiplied, and on the top one.
FactorLimb == 2 * MaxFactor * (2^B - 1)
FactorTop == 2 * MaxFactor * (2^T - 1)

\* These bounds are numbers.
LEMMA FactorSizes ==
  /\ FactorLimb \in Nat /\ FactorTop \in Nat
  /\ FactorLimb * FactorLimb \in Nat /\ FactorTop * FactorTop \in Nat
  /\ MaxColumn = N * (FactorLimb * FactorLimb) /\ MaxColumn \in Nat
<1>1. 2^B - 1 \in Nat /\ 2^T - 1 \in Nat /\ MaxFactor \in Nat /\ N \in Nat
  BY Sizes, UseAssumption, ShapeAssumption
<1>2. FactorLimb \in Nat /\ FactorTop \in Nat
  BY <1>1 DEF FactorLimb, FactorTop
<1>3. MaxColumn = N * (FactorLimb * FactorLimb)
  BY Zenon DEF MaxColumn, FactorLimb
<1>4. FactorLimb * FactorLimb \in Nat /\ FactorTop * FactorTop \in Nat
  BY <1>2
<1>5. N * (FactorLimb * FactorLimb) \in Nat
  <2> DEFINE g == FactorLimb * FactorLimb
  <2>1. g \in Nat
    BY <1>4
  <2> HIDE DEF g
  <2>2. N * g \in Nat
    BY <1>1, <2>1
  <2> QED BY <2>2 DEF g
<1> QED BY <1>2, <1>3, <1>4, <1>5

\* They hold of every element that may be multiplied.
LEMMA FactorLimbs ==
  ASSUME NEW m \in 1 .. MaxFactor, NEW l, Bounded(l, m)
  PROVE  /\ \A i \in Limb : l[i] \in Nat /\ l[i] <= FactorLimb
         /\ l[N - 1] <= FactorTop
<1>0. MaxFactor \in Nat /\ 2^B - 1 \in Nat /\ 2^T - 1 \in Nat
  BY UseAssumption, Sizes
<1>1. ASSUME NEW i \in Limb, NEW b \in Nat, PLimb(i) <= b
      PROVE  l[i] \in Nat /\ l[i] <= (2 * MaxFactor) * b
  <2> DEFINE a == l[i]
             f == PLimb(i)
             p == 2 * m
             q == 2 * MaxFactor
  <2>1. a \in Nat /\ f \in Nat /\ a <= p * f /\ f <= b
    BY <1>0, <1>1, BoundedLimb
  <2>2. p \in Nat /\ q \in Nat /\ p <= q
    BY <1>0
  <2> HIDE DEF a, f, p, q
  <2>3. p * f \in Nat /\ q * f \in Nat /\ p * f <= q * f
    BY <2>1, <2>2, Times
  <2>4. f * q \in Nat /\ b * q \in Nat /\ f * q <= b * q
    BY <2>1, <2>2, Times
  <2>5. f * q = q * f /\ b * q = q * b
    BY <2>1, <2>2
  <2>6. a <= q * b
    BY <2>1, <2>3, <2>4, <2>5
  <2> QED BY <2>1, <2>6 DEF a, q
<1>2. ASSUME NEW i \in Limb PROVE l[i] \in Nat /\ l[i] <= FactorLimb
  <2>1. PLimb(i) <= 2^B - 1
    <3>1. PLimb(i) \in Nat /\ Full(i) \in Nat /\ PLimb(i) <= Full(i) /\ Full(i) < 2^B /\ 2^B \in Nat
      BY LimbSizes, Sizes
    <3> QED BY <3>1
  <2>2. l[i] \in Nat /\ l[i] <= (2 * MaxFactor) * (2^B - 1)
    BY <1>0, <1>1, <2>1
  <2> QED BY <2>2 DEF FactorLimb
<1>3. l[N - 1] <= FactorTop
  <2>1. N - 1 \in Limb /\ PLimb(N - 1) <= 2^T - 1
    BY <1>0, TopIsLimb
  <2>2. l[N - 1] <= (2 * MaxFactor) * (2^T - 1)
    BY <1>0, <1>1, <2>1
  <2> QED BY <2>2 DEF FactorTop
<1> QED BY <1>2, <1>3

\* A product of two numbers below a bound.
LEMMA ProductBelow ==
  ASSUME NEW a \in Nat, NEW b \in Nat, NEW g \in Nat, a <= g, b <= g
  PROVE  a * b \in Nat /\ a * b <= g * g
<1>1. a * b \in Nat /\ g * b \in Nat /\ a * b <= g * b
  BY Times
<1>2. b * g \in Nat /\ g * g \in Nat /\ b * g <= g * g
  BY Times
<1>3. g * b = b * g
  OBVIOUS
<1> QED BY <1>1, <1>2, <1>3

-----------------------------------------------------------------------------
\* The elements of a product, by what multiplication may find in their limbs.
Factor(l) ==
  /\ \A i \in Limb : l[i] \in Nat /\ l[i] <= FactorLimb
  /\ l[N - 1] <= FactorTop

\* A column of a product adds N terms at most, the last column only the top limbs' product.
LEMMA MulColumnBelow ==
  ASSUME NEW a, Factor(a), NEW b, Factor(b), NEW k \in 0 .. 2 * N - 2
  PROVE  /\ MulColumn(a, b, k) \in Nat /\ MulColumn(a, b, k) <= MaxColumn
         /\ k = 2 * N - 2 => MulColumn(a, b, k) <= FactorTop * FactorTop
<1> DEFINE f == [i \in Limb |-> IF k - i \in Limb THEN a[i] * b[k - i] ELSE 0]
<1>0. N \in Nat /\ N >= 4 /\ Limb = 0 .. N - 1 /\ N - 1 \in Limb
  BY TopIsLimb
<1>1. MulColumn(a, b, k) = Total(f, N)
  BY Zenon DEF MulColumn
<1>2. ASSUME NEW i \in Limb PROVE f[i] \in Nat /\ f[i] <= FactorLimb * FactorLimb
  <2>1. CASE k - i \in Limb
    <3>1. f[i] = a[i] * b[k - i]
      BY <2>1
    <3>2. a[i] \in Nat /\ a[i] <= FactorLimb /\ b[k - i] \in Nat /\ b[k - i] <= FactorLimb
      BY <2>1 DEF Factor
    <3> QED BY <3>1, <3>2, FactorSizes, ProductBelow
  <2>2. CASE k - i \notin Limb
    BY <2>2, FactorSizes
  <2> QED BY <2>1, <2>2
<1>3. k = 2 * N - 2 =>
        /\ \A i \in Limb \ {N - 1} : f[i] = 0
        /\ f[N - 1] <= FactorTop * FactorTop
  <2> SUFFICES ASSUME k = 2 * N - 2
               PROVE  (\A i \in Limb \ {N - 1} : f[i] = 0) /\ f[N - 1] <= FactorTop * FactorTop
    OBVIOUS
  <2>1. \A i \in Limb \ {N - 1} : k - i \notin Limb
    BY <1>0
  <2>2. k - (N - 1) = N - 1
    BY <1>0
  <2>3. f[N - 1] = a[N - 1] * b[N - 1]
    BY <1>0, <2>2
  <2>4. a[N - 1] \in Nat /\ a[N - 1] <= FactorTop /\ b[N - 1] \in Nat /\ b[N - 1] <= FactorTop
    BY <1>0 DEF Factor
  <2> QED BY <2>1, <2>3, <2>4, FactorSizes, ProductBelow
<1> HIDE DEF f
<1>4. Total(f, N) \in Nat /\ Total(f, N) <= MaxColumn
  <2> DEFINE h == [j \in 0 .. N |-> j]
             g == FactorLimb * FactorLimb
  <2>1. g \in Nat /\ \A j \in 0 .. N : h[j] \in Nat
    BY FactorSizes
  <2>2. h[0] = 0 /\ h[N] = N
    BY <1>0
  <2>3. \A i \in 0 .. N - 1 : f[i] \in Nat /\ f[i] <= g
    BY <1>0, <1>2
  <2> HIDE DEF g
  <2>4. \A j \in 0 .. N - 1 : f[j] \in Nat /\ h[j] <= h[j + 1] /\ f[j] <= (h[j + 1] - h[j]) * g
    <3> TAKE j \in 0 .. N - 1
    <3>1. h[j] = j /\ h[j + 1] = j + 1 /\ (j + 1) - j = 1
      BY <1>0
    <3>2. 1 * g = g
      BY <2>1
    <3> QED BY <2>3, <3>1, <3>2
  <2> HIDE DEF h
  <2>5. Total(f, N) \in Nat /\ Total(f, N) <= h[N] * g
    BY <1>0, <2>1, <2>2, <2>4, TotalBelow
  <2> QED BY <2>2, <2>5, FactorSizes DEF g
<1>5. k = 2 * N - 2 => Total(f, N) <= FactorTop * FactorTop
  <2> DEFINE h == [j \in 0 .. N |-> IF j = N THEN 1 ELSE 0]
             g == FactorTop * FactorTop
  <2> SUFFICES ASSUME k = 2 * N - 2 PROVE Total(f, N) <= g
    OBVIOUS
  <2>1. g \in Nat /\ \A j \in 0 .. N : h[j] \in Nat
    BY FactorSizes
  <2>2. h[0] = 0 /\ h[N] = 1
    BY <1>0
  <2>3. \A j \in 0 .. N - 1 : f[j] \in Nat /\ (IF j = N - 1 THEN f[j] <= g ELSE f[j] = 0)
    BY <1>0, <1>2, <1>3
  <2> HIDE DEF g
  <2>4. \A j \in 0 .. N - 1 : f[j] \in Nat /\ h[j] <= h[j + 1] /\ f[j] <= (h[j + 1] - h[j]) * g
    <3> TAKE j \in 0 .. N - 1
    <3>1. CASE j = N - 1
      <4>1. h[j] = 0 /\ h[j + 1] = 1
        BY <1>0, <3>1
      <4>2. (1 - 0) * g = g
        BY <2>1
      <4> QED BY <2>3, <3>1, <4>1, <4>2
    <3>2. CASE j # N - 1
      <4>1. h[j] = 0 /\ h[j + 1] = 0
        BY <1>0, <3>2
      <4>2. (0 - 0) * g = 0
        BY <2>1
      <4> QED BY <2>3, <3>2, <4>1, <4>2
    <3> QED BY <3>1, <3>2
  <2> HIDE DEF h
  <2>5. Total(f, N) \in Nat /\ Total(f, N) <= h[N] * g
    BY <1>0, <2>1, <2>2, <2>4, TotalBelow
  <2> QED BY <2>1, <2>2, <2>5
<1> QED BY <1>1, <1>4, <1>5

\* sqr_inner's columns, where a[i]*2 wraps at w.
Squares(a, k, w) ==
  [i \in Limb |-> CASE 2 * i = k                   -> a[i] * a[i]
                    [] 2 * i < k /\ k - i \in Limb -> ((a[i] * 2) % w) * a[k - i]
                    [] OTHER                        -> 0]

\* The terms of a column of a square: one that is not doubled, those that are, and nothing.
LEMMA SquareTerms ==
  ASSUME NEW a, Factor(a), NEW k \in 0 .. 2 * N - 2, NEW w,
         \A i \in Limb : (a[i] * 2) % w = a[i] * 2,
         NEW i \in Limb
  PROVE  LET f == Squares(a, k, w)[i]
             g == FactorLimb * FactorLimb
         IN  /\ 2 * i = k => f \in Nat /\ f <= g
             /\ 2 * i < k /\ k - i \in Limb => f \in Nat /\ f <= 2 * g
             /\ 2 * i # k /\ ~(2 * i < k /\ k - i \in Limb) => f = 0
<1> DEFINE f == Squares(a, k, w)[i]
           g == FactorLimb * FactorLimb
<1>1. f = CASE 2 * i = k                   -> a[i] * a[i]
            [] 2 * i < k /\ k - i \in Limb -> ((a[i] * 2) % w) * a[k - i]
            [] OTHER                        -> 0
  BY DEF Squares
<1>2. a[i] \in Nat /\ a[i] <= FactorLimb /\ FactorLimb \in Nat /\ g \in Nat
  BY FactorSizes DEF Factor
<1>3. N \in Nat /\ Limb = 0 .. N - 1 /\ i \in Nat
  BY TopIsLimb
<1> HIDE DEF f
<1>4. ASSUME 2 * i = k PROVE f \in Nat /\ f <= g
  <2>1. f = a[i] * a[i]
    BY <1>1, <1>4
  <2> QED BY <1>2, <2>1, ProductBelow
<1>5. ASSUME 2 * i < k, k - i \in Limb PROVE f \in Nat /\ f <= 2 * g
  <2>1. 2 * i # k
    BY <1>3, <1>5
  <2>2. f = (a[i] * 2) * a[k - i]
    BY <1>1, <1>5, <2>1
  <2> DEFINE b == a[k - i]
             e == a[i]
  <2>3. b \in Nat /\ b <= FactorLimb
    BY <1>5 DEF Factor
  <2>4. e * b \in Nat /\ e * b <= g
    BY <1>2, <2>3, ProductBelow
  <2>5. e \in Nat /\ f = (e * 2) * b
    BY <1>2, <2>2
  <2> HIDE DEF b, e, g
  <2>6. (e * 2) * b = 2 * (e * b)
    BY <2>3, <2>5
  <2>7. f = 2 * (e * b)
    BY <2>5, <2>6
  <2> DEFINE eb == e * b
  <2>8. eb \in Nat /\ eb <= g /\ f = 2 * eb
    BY <2>4, <2>7
  <2> HIDE DEF eb
  <2> QED BY <1>2, <2>8
<1>6. ASSUME 2 * i # k, ~(2 * i < k /\ k - i \in Limb) PROVE f = 0
  BY <1>1, <1>6
<1> QED BY <1>4, <1>5, <1>6 DEF f

\* A column of a square is no larger than that of a product: half the terms, doubled.
LEMMA SqrColumnBelow ==
  ASSUME NEW a, Factor(a), NEW k \in 0 .. 2 * N - 2, NEW w,
         \A i \in Limb : (a[i] * 2) % w = a[i] * 2
  PROVE  LET t == Total(Squares(a, k, w), N)
         IN  /\ t \in Nat /\ t <= MaxColumn
             /\ k = 2 * N - 2 => t <= FactorTop * FactorTop
<1> DEFINE f == Squares(a, k, w)
           g == FactorLimb * FactorLimb
           lo == IF k <= N - 1 THEN 0 ELSE k - (N - 1)
           h == [j \in 0 .. N |-> IF j <= lo THEN 0 ELSE IF 2 * j <= k + 1 THEN 2 * (j - lo) ELSE k + 1 - 2 * lo]
<1>0. N \in Nat /\ N >= 4 /\ Limb = 0 .. N - 1 /\ N - 1 \in Limb /\ k \in Nat /\ k <= 2 * N - 2
  BY TopIsLimb
<1>1. /\ lo \in Nat /\ 2 * lo <= k /\ k - (N - 1) <= lo /\ k + 1 - 2 * lo \in 0 .. N /\ lo <= N - 1
      /\ (lo = 0 \/ lo = k - (N - 1))
  BY <1>0
<1>2. ASSUME NEW i \in Limb
      PROVE  /\ 2 * i = k => f[i] \in Nat /\ f[i] <= g
             /\ 2 * i < k /\ k - i \in Limb => f[i] \in Nat /\ f[i] <= 2 * g
             /\ 2 * i # k /\ ~(2 * i < k /\ k - i \in Limb) => f[i] = 0
  BY SquareTerms
<1>3. g \in Nat
  BY FactorSizes
<1> HIDE DEF f, g, lo
<1>4. \A j \in 0 .. N : h[j] \in Nat
  <2> TAKE j \in 0 .. N
  <2>1. h[j] = IF j <= lo THEN 0 ELSE IF 2 * j <= k + 1 THEN 2 * (j - lo) ELSE k + 1 - 2 * lo
    OBVIOUS
  <2> QED BY <1>0, <1>1, <2>1
<1>5. h[0] = 0 /\ h[N] = k + 1 - 2 * lo
  <2>1. 0 \in 0 .. N /\ N \in 0 .. N /\ ~(N <= lo) /\ ~(2 * N <= k + 1) /\ 0 <= lo
    BY <1>0, <1>1
  <2> QED BY <2>1
<1>6. \A j \in 0 .. N - 1 : f[j] \in Nat /\ h[j] <= h[j + 1] /\ f[j] <= (h[j + 1] - h[j]) * g
  <2> TAKE j \in 0 .. N - 1
  <2>1. /\ h[j] = IF j <= lo THEN 0 ELSE IF 2 * j <= k + 1 THEN 2 * (j - lo) ELSE k + 1 - 2 * lo
        /\ h[j + 1] = IF j + 1 <= lo THEN 0 ELSE IF 2 * (j + 1) <= k + 1 THEN 2 * ((j + 1) - lo) ELSE k + 1 - 2 * lo
    <3>1. j \in 0 .. N /\ j + 1 \in 0 .. N
      BY <1>0
    <3> QED BY <3>1
  <2>2. j \in Limb
    BY <1>0
  <2> HIDE DEF h
  <2>3. CASE 2 * j = k
    <3>1. h[j + 1] - h[j] = 1 /\ h[j] <= h[j + 1]
      BY <1>0, <1>1, <2>1, <2>3
    <3>2. 1 * g = g
      BY <1>3
    <3> QED BY <1>2, <2>2, <2>3, <3>1, <3>2
  <2>4. CASE 2 * j < k /\ k - j \in Limb
    <3>2. lo <= j /\ 2 * (j + 1) <= k + 1 /\ 2 * j <= k + 1
      <4>1. k - j <= N - 1 /\ k - j \in Nat
        BY <1>0, <2>4
      <4> QED BY <1>0, <1>1, <2>4, <4>1
    <3>3. h[j + 1] = 2 * ((j + 1) - lo) /\ h[j] = 2 * (j - lo)
      BY <1>0, <1>1, <2>1, <3>2
    <3>1. h[j + 1] - h[j] = 2 /\ h[j] <= h[j + 1]
      BY <1>0, <1>1, <3>2, <3>3
    <3> QED BY <1>2, <2>2, <2>4, <3>1
  <2>5. CASE 2 * j # k /\ ~(2 * j < k /\ k - j \in Limb)
    <3>1. h[j] <= h[j + 1] /\ h[j] \in Nat /\ h[j + 1] \in Nat
      <4>1. h[j] \in Nat /\ h[j + 1] \in Nat
        BY <1>0, <1>4
      <4>2. h[j] <= h[j + 1]
        <5>1. CASE 2 * j < k
          <6>1. k - j > N - 1
            BY <1>0, <2>5, <5>1
          <6> QED BY <1>0, <1>1, <2>1, <5>1, <6>1
        <5>2. CASE 2 * j > k
          BY <1>0, <1>1, <2>1, <5>2
        <5> QED BY <1>0, <2>5, <5>1, <5>2
      <4> QED BY <4>1, <4>2
    <3> DEFINE v == h[j + 1] - h[j]
    <3>2. v \in Nat
      BY <3>1
    <3> HIDE DEF v
    <3>3. v * g \in Nat
      BY <1>3, <3>2
    <3> QED BY <1>2, <2>2, <2>5, <3>1, <3>3 DEF v
  <2> QED BY <2>3, <2>4, <2>5
<1> HIDE DEF h
<1>7. Total(f, N) \in Nat /\ Total(f, N) <= h[N] * g
  BY <1>0, <1>3, <1>4, <1>5, <1>6, TotalBelow
<1>8. Total(f, N) <= MaxColumn
  <2> DEFINE v == h[N]
  <2>1. v \in Nat /\ v <= N
    BY <1>1, <1>5
  <2> HIDE DEF v
  <2>2. v * g <= N * g /\ v * g \in Nat /\ N * g \in Nat
    BY <1>0, <1>3, <2>1, Times
  <2>3. MaxColumn = N * g
    BY FactorSizes DEF g
  <2> QED BY <1>7, <2>2, <2>3 DEF v
<1>9. ASSUME k = 2 * N - 2 PROVE Total(f, N) <= FactorTop * FactorTop
  <2> DEFINE hh == [j \in 0 .. N |-> IF j = N THEN 1 ELSE 0]
             gg == FactorTop * FactorTop
  <2>1. gg \in Nat /\ \A j \in 0 .. N : hh[j] \in Nat
    BY FactorSizes
  <2>2. hh[0] = 0 /\ hh[N] = 1
    BY <1>0
  <2>3. \A j \in 0 .. N - 1 : f[j] \in Nat /\ (IF j = N - 1 THEN f[j] <= gg ELSE f[j] = 0)
    <3> TAKE j \in 0 .. N - 1
    <3>1. CASE j = N - 1
      <4>1. 2 * j = k /\ j \in Limb
        BY <1>0, <1>9, <3>1
      <4>2. f[j] = a[j] * a[j]
        BY <4>1 DEF f, Squares
      <4>3. a[j] \in Nat /\ a[j] <= FactorTop
        BY <3>1, <4>1 DEF Factor
      <4>4. f[j] \in Nat /\ f[j] <= gg
        BY <4>2, <4>3, FactorSizes, ProductBelow
      <4> QED BY <3>1, <4>4
    <3>2. CASE j # N - 1
      <4>1. j \in Limb /\ 2 * j # k /\ k - j \notin Limb
        BY <1>0, <1>9, <3>2
      <4>2. f[j] = 0
        BY <1>2, <4>1
      <4> QED BY <3>2, <4>2
    <3> QED BY <3>1, <3>2
  <2> HIDE DEF gg
  <2>4. \A j \in 0 .. N - 1 : f[j] \in Nat /\ hh[j] <= hh[j + 1] /\ f[j] <= (hh[j + 1] - hh[j]) * gg
    <3> TAKE j \in 0 .. N - 1
    <3>1. CASE j = N - 1
      <4>1. hh[j] = 0 /\ hh[j + 1] = 1
        BY <1>0, <3>1
      <4>2. (1 - 0) * gg = gg
        BY <2>1
      <4> QED BY <2>3, <3>1, <4>1, <4>2
    <3>2. CASE j # N - 1
      <4>1. hh[j] = 0 /\ hh[j + 1] = 0
        BY <1>0, <3>2
      <4>2. (0 - 0) * gg = 0
        BY <2>1
      <4> QED BY <2>3, <3>2, <4>1, <4>2
    <3> QED BY <3>1, <3>2
  <2> HIDE DEF hh
  <2>5. Total(f, N) \in Nat /\ Total(f, N) <= hh[N] * gg
    BY <1>0, <2>1, <2>2, <2>4, TotalBelow
  <2>6. Total(f, N) <= gg
    BY <2>1, <2>2, <2>5
  <2> QED BY <2>6 DEF gg
<1> QED BY <1>7, <1>8, <1>9 DEF f

-----------------------------------------------------------------------------
\* The steps of Reduce over accumulators of size w.
Start(top, w) == [c |-> 0, d |-> (top % w) \div 2^B, t |-> <<>>]
Step(g, p, q, w) ==
  LET d == (g.d + p) % w
      u == d % 2^B
      c == (g.c + q + u * R0) % w
  IN  [c |-> ((c \div 2^B) + u * R1) % w, d |-> d \div 2^B, t |-> Append(g.t, c % 2^B)]
\* All of them, from the columns.
IsReduction(f, column, w) ==
  f = [k \in 0 .. N - 1 |->
         IF k = 0 THEN Start(column[N - 1], w)
         ELSE Step(f[k - 1], column[N + k - 1], column[k - 1], w)]

\* The steps, a recursive function, exist for all columns.
LEMMA ReductionExists ==
  ASSUME NEW column, NEW w
  PROVE  \E f : IsReduction(f, column, w)
<1> DEFINE G(f, k) == IF k = 0 THEN Start(column[N - 1], w)
                      ELSE Step(f[k - 1], column[N + k - 1], column[k - 1], w)
           H == {n \in Nat : \E f : f = [k \in 0 .. n |-> G(f, k)]}
<1>1. 0 \in H
  <2> DEFINE f == [k \in 0 .. 0 |-> Start(column[N - 1], w)]
  <2>1. f = [k \in 0 .. 0 |-> G(f, k)]
    OBVIOUS
  <2> HIDE DEF f, G
  <2> QED BY <2>1
<1>2. ASSUME NEW n \in H PROVE n + 1 \in H
  <2>1. PICK f : f = [k \in 0 .. n |-> G(f, k)]
    BY Zenon
  <2> DEFINE d == [k \in 0 .. n + 1 |-> IF k <= n THEN f[k] ELSE G(f, k)]
  <2>2. ASSUME NEW k \in 0 .. n + 1 PROVE d[k] = G(d, k)
    <3>1. d[k] = G(f, k)
      <4>1. CASE k <= n
        <5> HIDE DEF G
        <5>1. k \in 0 .. n
          BY <4>1
        <5>2. f[k] = G(f, k)
          BY <2>1, <5>1
        <5> QED BY <4>1, <5>2
      <4>2. CASE ~(k <= n)
        <5> HIDE DEF G
        <5> QED BY <4>2
      <4> QED BY <4>1, <4>2
    <3>2. CASE k = 0
      BY <3>1, <3>2
    <3>3. CASE k # 0
      <4>1. k - 1 \in 0 .. n + 1 /\ k - 1 <= n
        BY <3>3
      <4> HIDE DEF G
      <4>2. d[k - 1] = f[k - 1]
        BY <4>1
      <4> HIDE DEF d
      <4>3. G(d, k) = Step(d[k - 1], column[N + k - 1], column[k - 1], w)
        BY <3>3 DEF G
      <4>4. G(f, k) = Step(f[k - 1], column[N + k - 1], column[k - 1], w)
        BY <3>3 DEF G
      <4> QED BY <3>1, <4>2, <4>3, <4>4
    <3> QED BY <3>2, <3>3
  <2> HIDE DEF G
  <2>3. d = [k \in 0 .. n + 1 |-> d[k]]
    OBVIOUS
  <2> HIDE DEF d
  <2>4. d = [k \in 0 .. n + 1 |-> G(d, k)]
    BY <2>2, <2>3
  <2>5. n + 1 \in Nat
    OBVIOUS
  <2> QED BY <2>4, <2>5
<1> HIDE DEF H
<1>3. H = Nat
  BY <1>1, <1>2, Induction DEF H
<1>4. N - 1 \in Nat
  BY ShapeAssumption
<1> QED
  BY <1>3, <1>4 DEF H, IsReduction

\* The bounds in the reduction are numbers, and a column with what is carried into it is an
\* accumulator.
LEMMA ReductionSizes ==
  /\ R0 \in Nat /\ R1 \in Nat /\ 2^B * R0 \in Nat /\ 2^B * R1 \in Nat
  /\ MaxCarried \in Nat /\ MaxColumn \in Nat
  /\ MaxColumn + MaxCarried + 2^B * R0 + 2^B * R1 < 2^AccBits
  /\ FactorTop * FactorTop \in Nat
  /\ MaxD = (FactorTop * FactorTop + MaxCarried) \div 2^B /\ MaxD \in Nat
<1>1. R0 \in Nat /\ R1 \in Nat /\ 2^B * R0 \in Nat /\ 2^B * R1 \in Nat
  <2>1. C0 \in Nat /\ 2^S \in Nat /\ 2^(B - T) \in Nat /\ 2^B \in Nat
    BY Sizes, ShapeAssumption
  <2>2. R0 \in Nat /\ R1 \in Nat
    BY <2>1 DEF R0, R1
  <2> QED BY <2>1, <2>2
<1>2. MaxCarried \in Nat
  BY Sizes, Division DEF MaxCarried
<1>3. MaxD = (FactorTop * FactorTop + MaxCarried) \div 2^B
  BY Zenon DEF MaxD, FactorTop
<1>4. FactorTop * FactorTop + MaxCarried \in Nat
  BY <1>2, FactorSizes
<1>5. MaxD \in Nat
  BY <1>3, <1>4, Sizes, Division
<1> QED BY <1>1, <1>2, <1>3, <1>5, FactorSizes, ProductAssumption

\* What holds of c, d and t after k steps.
Going(g, k) ==
  /\ g.c \in Nat /\ g.c <= MaxCarried + 2^B * R1
  /\ g.d \in Nat /\ g.d <= MaxCarried
  /\ g.t \in Seq(0 .. 2^B - 1) /\ Len(g.t) = k

\* What an accumulator carries.
LEMMA CarriedBelow ==
  ASSUME NEW a \in Nat, a < 2^AccBits
  PROVE  a \div 2^B \in Nat /\ a \div 2^B <= MaxCarried
<1> DEFINE b == 2^B
           m == 2^AccBits
<1>1. b \in Nat \ {0} /\ m \in Nat /\ a <= m
  BY Sizes
<1>2. MaxCarried = m \div b
  BY Zenon DEF MaxCarried
<1> HIDE DEF b, m
<1>3. a \div b \in Nat /\ a \div b <= m \div b
  BY <1>1, Division, DivMono
<1> QED BY <1>2, <1>3 DEF b

\* The first column.
LEMMA StartGoes ==
  ASSUME NEW top \in Nat, top <= MaxColumn, NEW w \in Nat \ {0}, 2^AccBits <= w
  PROVE  top % w = top /\ Start(top, w) = [c |-> 0, d |-> top \div 2^B, t |-> <<>>] /\ Going(Start(top, w), 0)
<1>1. top < 2^AccBits /\ top < w /\ 2^AccBits \in Nat /\ 2^B \in Nat \ {0}
  BY ReductionSizes, Sizes
<1>2. top % w = top
  BY <1>1, ModBelow
<1>3. top \div 2^B \in Nat /\ top \div 2^B <= MaxCarried
  BY <1>1, CarriedBelow
<1>4. Start(top, w) = [c |-> 0, d |-> top \div 2^B, t |-> <<>>]
  BY <1>2 DEF Start
<1>5. <<>> \in Seq(0 .. 2^B - 1) /\ Len(<<>>) = 0
  OBVIOUS
<1> QED BY <1>2, <1>3, <1>4, <1>5, ReductionSizes DEF Going

\* No step exceeds an accumulator, and what it leaves in c and d is bounded for the next.
LEMMA StepGoes ==
  ASSUME NEW g, NEW k \in Nat, Going(g, k), NEW p \in Nat, p <= MaxColumn, NEW q \in Nat, q <= MaxColumn,
         NEW w \in Nat \ {0}, 2^AccBits <= w
  PROVE  LET d == g.d + p
             u == d % 2^B
             c == g.c + q + u * R0
         IN  /\ Step(g, p, q, w) = [c |-> (c \div 2^B) + u * R1, d |-> d \div 2^B, t |-> Append(g.t, c % 2^B)]
             /\ Going(Step(g, p, q, w), k + 1)
             /\ Step(g, p, q, w).d = (g.d + p) \div 2^B
<1> DEFINE d == g.d + p
           u == d % 2^B
           c == g.c + q + u * R0
           e == (c \div 2^B) + u * R1
           r == [c |-> e, d |-> d \div 2^B, t |-> Append(g.t, c % 2^B)]
<1>0. /\ 2^B \in Nat \ {0} /\ 2^AccBits \in Nat
      /\ R0 \in Nat /\ R1 \in Nat /\ 2^B * R0 \in Nat /\ 2^B * R1 \in Nat
      /\ MaxCarried \in Nat /\ MaxColumn \in Nat
      /\ MaxColumn + MaxCarried + 2^B * R0 + 2^B * R1 < 2^AccBits
      /\ g.c \in Nat /\ g.c <= MaxCarried + 2^B * R1 /\ g.d \in Nat /\ g.d <= MaxCarried
  BY Sizes, ReductionSizes DEF Going
<1>1. d \in Nat /\ d < 2^AccBits
  BY <1>0
<1> HIDE DEF d
<1>2. d % w = d
  <2>1. d < w
    BY <1>0, <1>1
  <2> QED BY <1>1, <2>1, ModBelow
<1>3. u \in Nat /\ u <= 2^B /\ u \in 0 .. 2^B - 1
  <2>1. d % 2^B \in 0 .. 2^B - 1
    BY <1>0, <1>1, Division
  <2> QED BY <1>0, <2>1
<1> HIDE DEF u
<1>4. u * R0 \in Nat /\ u * R0 <= 2^B * R0 /\ u * R1 \in Nat /\ u * R1 <= 2^B * R1
  BY <1>0, <1>3, Times
<1>5. c \in Nat /\ c < 2^AccBits
  <2> DEFINE a == u * R0
             m == 2^B * R0
             n == 2^B * R1
  <2>1. a \in Nat /\ m \in Nat /\ n \in Nat /\ a <= m /\ g.c <= MaxCarried + n /\ MaxColumn + MaxCarried + m + n < 2^AccBits
        /\ c = g.c + q + a
    BY <1>0, <1>4
  <2> HIDE DEF a, m, n, c
  <2> QED BY <1>0, <2>1
<1> HIDE DEF c
<1>6. c % w = c
  <2>1. c < w
    BY <1>0, <1>5
  <2> QED BY <1>5, <2>1, ModBelow
<1>7. c \div 2^B \in Nat /\ c \div 2^B <= MaxCarried /\ d \div 2^B \in Nat /\ d \div 2^B <= MaxCarried
  BY <1>1, <1>5, CarriedBelow
<1>8. e \in Nat /\ e <= MaxCarried + 2^B * R1 /\ e < 2^AccBits
  <2> DEFINE a == u * R1
             m == 2^B * R0
             n == 2^B * R1
             o == c \div 2^B
  <2>1. a \in Nat /\ m \in Nat /\ n \in Nat /\ a <= n /\ o \in Nat /\ o <= MaxCarried /\ MaxColumn + MaxCarried + m + n < 2^AccBits
        /\ e = o + a
    BY <1>0, <1>4, <1>7
  <2> HIDE DEF a, m, o, e
  <2>2. e \in Nat /\ e <= MaxCarried + n /\ e < 2^AccBits
    <3> HIDE DEF n
    <3> QED BY <1>0, <2>1
  <2> QED BY <2>2
<1>9. e % w = e
  BY <1>8, <1>0, ModBelow
<1>10. Step(g, p, q, w) = r
  <2>1. Step(g, p, q, w) =
          [c |-> ((((g.c + q + (((g.d + p) % w) % 2^B) * R0) % w) \div 2^B) + (((g.d + p) % w) % 2^B) * R1) % w,
           d |-> ((g.d + p) % w) \div 2^B,
           t |-> Append(g.t, ((g.c + q + (((g.d + p) % w) % 2^B) * R0) % w) % 2^B)]
    BY Zenon DEF Step
  <2>2. (g.d + p) % w = d
    BY <1>2 DEF d
  <2>3. (g.c + q + u * R0) % w = c
    BY <1>6 DEF c
  <2>4. Step(g, p, q, w) =
          [c |-> ((((g.c + q + u * R0) % w) \div 2^B) + u * R1) % w,
           d |-> d \div 2^B,
           t |-> Append(g.t, ((g.c + q + u * R0) % w) % 2^B)]
    BY <2>1, <2>2, Zenon DEF u
  <2>5. Step(g, p, q, w) = [c |-> e % w, d |-> d \div 2^B, t |-> Append(g.t, c % 2^B)]
    BY <2>3, <2>4, Zenon
  <2> HIDE DEF e
  <2> QED BY <1>9, <2>5, Zenon
<1>11. Append(g.t, c % 2^B) \in Seq(0 .. 2^B - 1) /\ Len(Append(g.t, c % 2^B)) = k + 1
  <2> DEFINE V == 0 .. 2^B - 1
             o == c % 2^B
             s == g.t
  <2>1. o \in V /\ s \in Seq(V) /\ Len(s) = k
    BY <1>0, <1>5, Division DEF Going
  <2> HIDE DEF V, o, s
  <2>2. Append(s, o) \in Seq(V) /\ Len(Append(s, o)) = k + 1
    BY <2>1
  <2> QED BY <2>2 DEF V, o, s
<1> HIDE DEF e
<1>12. Going(r, k + 1)
  BY <1>7, <1>8, <1>11 DEF Going
<1>13. r.d = d \div 2^B
  OBVIOUS
<1> HIDE DEF r
<1>14. Step(g, p, q, w).d = d \div 2^B
  BY <1>10, <1>13
<1>15. Going(Step(g, p, q, w), k + 1)
  BY <1>10, <1>12
<1> QED BY <1>10, <1>14, <1>15, Zenon DEF d, u, c, e, r

-----------------------------------------------------------------------------
\* What Reduce may find in the columns.
Columns(column) ==
  /\ \A k \in 0 .. 2 * N - 2 : column[k] \in Nat /\ column[k] <= MaxColumn
  /\ column[2 * N - 2] <= FactorTop * FactorTop

\* So the steps are the same in accumulators of any size that is large enough.
LEMMA ReductionsAgree ==
  ASSUME NEW column, Columns(column), NEW v \in Nat \ {0}, NEW w \in Nat \ {0}, 2^AccBits <= v, 2^AccBits <= w,
         NEW f, IsReduction(f, column, v), NEW g, IsReduction(g, column, w)
  PROVE  f[N - 1] = g[N - 1] /\ Going(f[N - 1], N - 1) /\ f[N - 1].d <= MaxD
<1> DEFINE H == {k \in Nat : k \in 0 .. N - 1 => f[k] = g[k] /\ Going(f[k], k)}
<1>0. N \in Nat /\ N >= 4 /\ column[N - 1] \in Nat /\ column[N - 1] <= MaxColumn
  <2>1. N - 1 \in 0 .. 2 * N - 2
    BY TopIsLimb
  <2> QED BY <2>1, TopIsLimb DEF Columns
<1>1. f[0] = Start(column[N - 1], v) /\ g[0] = Start(column[N - 1], w)
  <2>1. 0 \in 0 .. N - 1
    BY <1>0
  <2> QED BY <2>1 DEF IsReduction
<1>2. ASSUME NEW k \in 1 .. N - 1
      PROVE  /\ f[k] = Step(f[k - 1], column[N + k - 1], column[k - 1], v)
             /\ g[k] = Step(g[k - 1], column[N + k - 1], column[k - 1], w)
             /\ column[N + k - 1] \in Nat /\ column[N + k - 1] <= MaxColumn
             /\ column[k - 1] \in Nat /\ column[k - 1] <= MaxColumn
  <2>1. k \in 0 .. N - 1 /\ k # 0
    BY <1>0
  <2>2. N + k - 1 \in 0 .. 2 * N - 2 /\ k - 1 \in 0 .. 2 * N - 2
    BY <1>0
  <2> QED BY <2>1, <2>2 DEF IsReduction, Columns
<1>3. 0 \in H
  <2>1. Start(column[N - 1], v) = Start(column[N - 1], w) /\ Going(Start(column[N - 1], v), 0)
    BY <1>0, StartGoes
  <2> QED BY <1>1, <2>1
<1>4. ASSUME NEW j \in H PROVE j + 1 \in H
  <2> SUFFICES ASSUME j + 1 \in 0 .. N - 1 PROVE f[j + 1] = g[j + 1] /\ Going(f[j + 1], j + 1)
    OBVIOUS
  <2> DEFINE k == j + 1
             p == column[N + k - 1]
             q == column[k - 1]
  <2>1. j \in 0 .. N - 1 /\ k \in 1 .. N - 1 /\ k - 1 = j /\ j \in Nat
    BY <1>0
  <2>2. f[j] = g[j] /\ Going(f[j], j)
    BY <2>1
  <2>3. /\ f[k] = Step(f[j], p, q, v) /\ g[k] = Step(f[j], p, q, w)
        /\ p \in Nat /\ p <= MaxColumn /\ q \in Nat /\ q <= MaxColumn
    BY <1>2, <2>1, <2>2
  <2> HIDE DEF p, q
  <2>4. Step(f[j], p, q, v) = Step(f[j], p, q, w) /\ Going(Step(f[j], p, q, v), j + 1)
    <3> DEFINE e == f[j]
               d == e.d + p
               u == d % 2^B
               c == e.c + q + u * R0
               r == [c |-> (c \div 2^B) + u * R1, d |-> d \div 2^B, t |-> Append(e.t, c % 2^B)]
    <3>1. Going(e, j)
      BY <2>2
    <3> HIDE DEF e
    <3>2. Step(e, p, q, v) = r /\ Going(Step(e, p, q, v), j + 1)
      BY <2>1, <2>3, <3>1, StepGoes
    <3>3. Step(e, p, q, w) = r
      BY <2>1, <2>3, <3>1, StepGoes
    <3> HIDE DEF r
    <3>4. Step(e, p, q, v) = Step(e, p, q, w) /\ Going(Step(e, p, q, v), j + 1)
      BY <3>2, <3>3
    <3> QED BY <3>4 DEF e
  <2> QED BY <2>3, <2>4
<1>5. H = Nat
  <2> HIDE DEF H
  <2> QED BY <1>3, <1>4, Induction DEF H
<1>6. f[N - 1] = g[N - 1] /\ Going(f[N - 1], N - 1)
  <2>1. N - 1 \in Nat /\ N - 1 \in 0 .. N - 1
    BY <1>0
  <2> QED BY <1>5, <2>1
<1>7. f[N - 1].d <= MaxD
  <2> DEFINE e == f[N - 2]
             p == column[2 * N - 2]
             q == column[N - 2]
  <2>1. N - 2 \in Nat /\ N - 2 \in 0 .. N - 1 /\ N - 1 \in 1 .. N - 1 /\ (N - 1) - 1 = N - 2 /\ N + (N - 1) - 1 = 2 * N - 2
    BY <1>0
  <2>2. Going(e, N - 2)
    BY <1>5, <2>1
  <2>3. f[N - 1] = Step(e, p, q, v) /\ p \in Nat /\ p <= MaxColumn /\ q \in Nat /\ q <= MaxColumn
    <3>1. /\ f[N - 1] = Step(f[(N - 1) - 1], column[N + (N - 1) - 1], column[(N - 1) - 1], v)
          /\ column[N + (N - 1) - 1] \in Nat /\ column[N + (N - 1) - 1] <= MaxColumn
          /\ column[(N - 1) - 1] \in Nat /\ column[(N - 1) - 1] <= MaxColumn
      BY <1>2, <2>1
    <3> QED BY <2>1, <3>1
  <2>4. p <= FactorTop * FactorTop
    BY DEF Columns
  <2> HIDE DEF e, p, q
  <2>5. f[N - 1].d = (e.d + p) \div 2^B
    BY <2>1, <2>2, <2>3, StepGoes
  <2> DEFINE a == e.d + p
             m == FactorTop * FactorTop + MaxCarried
             b == 2^B
  <2>6. a \in Nat /\ m \in Nat /\ a <= m /\ b \in Nat \ {0}
    <3> DEFINE n == FactorTop * FactorTop
               o == e.d
    <3>1. n \in Nat /\ p <= n /\ o \in Nat /\ o <= MaxCarried /\ MaxCarried \in Nat
      BY <2>2, <2>4, ReductionSizes DEF Going
    <3> HIDE DEF n, o
    <3>2. o + p \in Nat /\ n + MaxCarried \in Nat /\ o + p <= n + MaxCarried
      BY <2>3, <3>1
    <3> QED BY <3>2, Sizes DEF n, o
  <2>7. MaxD = m \div b
    BY ReductionSizes
  <2> HIDE DEF a, m, b
  <2>8. a \div b <= m \div b
    BY <2>6, DivMono
  <2>9. f[N - 1].d = a \div b
    BY <2>5 DEF a, b
  <2> QED BY <2>7, <2>8, <2>9
<1> QED BY <1>6, <1>7

\* What is left to do with c and d, in accumulators of size w and words of size v.
Finished(e, top, w, v) ==
  LET c9 == (e.c + e.d * R0 + ((top % w) % 2^B)) % w
      c  == ((c9 \div 2^T) + e.d * R1 * 2^(B - T)) % w
      d0 == (c * C0 + e.t[1]) % w
      d1 == ((d0 \div 2^B) + c * 2^S + e.t[2]) % w
  IN  [i \in Limb |-> CASE i = 0     -> d0 % 2^B
                        [] i = 1     -> d1 % 2^B
                        [] i = 2     -> ((d1 \div 2^B) + e.t[3]) % v
                        [] i = N - 1 -> c9 % 2^T
                        [] OTHER     -> e.t[i + 1]]

\* mul_inner and sqr_inner are these steps and that end.
LEMMA ReduceIsFinished ==
  ASSUME NEW column
  PROVE  /\ Reduce(column) = Finished((CHOOSE f : IsReduction(f, column, 2^AccBits))[N - 1],
                                      column[N - 1], 2^AccBits, 2^WordBits)
         /\ Wide!Reduce(column) = Finished((CHOOSE f : IsReduction(f, column, 2^WideAcc))[N - 1],
                                           column[N - 1], 2^WideAcc, 2^WideWord)
<1>1. Reduce(column) = Finished((CHOOSE f : IsReduction(f, column, 2^AccBits))[N - 1],
                                      column[N - 1], 2^AccBits, 2^WordBits)
  BY Zenon DEF Reduce, Acc, Word, Finished, IsReduction, Start, Step
<1>2. Wide!Reduce(column) = Finished((CHOOSE f : IsReduction(f, column, 2^WideAcc))[N - 1],
                                           column[N - 1], 2^WideAcc, 2^WideWord)
  BY Zenon DEF Wide!Reduce, Wide!Acc, Wide!Word, Wide!R0, Wide!R1, R0, R1, Wide!Limb, Limb,
               Finished, IsReduction, Start, Step
<1> QED BY <1>1, <1>2

\* The same where nothing wraps.
Closed(e, top) ==
  LET c9 == e.c + e.d * R0 + (top % 2^B)
      c  == (c9 \div 2^T) + e.d * R1 * 2^(B - T)
      d0 == c * C0 + e.t[1]
      d1 == (d0 \div 2^B) + c * 2^S + e.t[2]
  IN  [i \in Limb |-> CASE i = 0     -> d0 % 2^B
                        [] i = 1     -> d1 % 2^B
                        [] i = 2     -> (d1 \div 2^B) + e.t[3]
                        [] i = N - 1 -> c9 % 2^T
                        [] OTHER     -> e.t[i + 1]]

\* The bounds at the end of the reduction are numbers that an accumulator holds.
LEMMA ClosingSizes ==
  /\ MaxC9 \in Nat /\ MaxC \in Nat /\ MaxD0 \in Nat /\ MaxD1 \in Nat
  /\ MaxC9 = MaxCarried + 2^B * R1 + MaxD * R0 + 2^B
  /\ MaxC = (MaxC9 \div 2^T) + MaxD * R1 * 2^(B - T)
  /\ MaxD0 = MaxC * C0 + 2^B
  /\ MaxD1 = (MaxD0 \div 2^B) + MaxC * 2^S + 2^B
  /\ MaxC9 < 2^AccBits /\ MaxC < 2^AccBits /\ MaxD0 < 2^AccBits
  /\ MaxD1 < 2^AccBits /\ MaxD1 < 2^B * 2^B
<1>1. /\ MaxC9 = MaxCarried + 2^B * R1 + MaxD * R0 + 2^B
      /\ MaxC = (MaxC9 \div 2^T) + MaxD * R1 * 2^(B - T)
      /\ MaxD0 = MaxC * C0 + 2^B
      /\ MaxD1 = (MaxD0 \div 2^B) + MaxC * 2^S + 2^B
  BY Zenon DEF MaxC9, MaxC, MaxD0, MaxD1
<1>2. /\ 2^B \in Nat \ {0} /\ 2^T \in Nat \ {0} /\ 2^S \in Nat /\ 2^(B - T) \in Nat /\ C0 \in Nat
      /\ R0 \in Nat /\ R1 \in Nat /\ MaxCarried \in Nat /\ MaxD \in Nat
  BY Sizes, ReductionSizes, ShapeAssumption
<1>3. MaxC9 \in Nat
  <2> DEFINE a == 2^B * R1
             b == MaxD * R0
  <2>1. a \in Nat /\ b \in Nat
    BY <1>2
  <2> QED BY <1>1, <1>2, <2>1
<1>4. MaxC \in Nat
  <2> DEFINE a == MaxC9 \div 2^T
             b == MaxD * R1 * 2^(B - T)
  <2>1. a \in Nat
    BY <1>2, <1>3, Division
  <2>2. MaxD * R1 \in Nat
    BY <1>2
  <2>3. b \in Nat
    <3> DEFINE m == MaxD * R1
    <3> HIDE DEF m
    <3>1. m * 2^(B - T) \in Nat
      BY <1>2, <2>2 DEF m
    <3> QED BY <3>1 DEF m
  <2>4. MaxC = a + b
    BY <1>1
  <2> HIDE DEF a, b
  <2> QED BY <2>1, <2>3, <2>4
<1>5. MaxD0 \in Nat
  BY <1>1, <1>2, <1>4
<1>6. MaxD1 \in Nat
  <2> DEFINE a == MaxD0 \div 2^B
             b == MaxC * 2^S
  <2>1. a \in Nat
    BY <1>2, <1>5, Division
  <2>2. b \in Nat
    BY <1>2, <1>4
  <2>3. MaxD1 = a + b + 2^B
    BY <1>1
  <2> HIDE DEF a, b
  <2> QED BY <1>2, <2>1, <2>2, <2>3
<1> QED BY <1>1, <1>3, <1>4, <1>5, <1>6, ProductAssumption

\* What is within a bound that fits does not wrap.
LEMMA Below ==
  ASSUME NEW a, NEW m \in Nat, a \in Nat, a <= m, NEW b \in Nat, m < b, NEW w \in Nat \ {0}, b <= w
  PROVE  a % w = a
<1>1. a < w
  OBVIOUS
<1> QED BY <1>1, ModBelow

\* A product of three grows with its first factor.
LEMMA TripleBelow ==
  ASSUME NEW a \in Nat, NEW m \in Nat, a <= m, NEW b \in Nat, NEW c \in Nat
  PROVE  a * b * c \in Nat /\ a * b * c <= m * b * c
<1>1. a * b \in Nat /\ m * b \in Nat /\ a * b <= m * b
  BY Times
<1> DEFINE p == a * b
           q == m * b
<1>2. p \in Nat /\ q \in Nat /\ p <= q
  BY <1>1
<1> HIDE DEF p, q
<1>3. p * c \in Nat /\ q * c \in Nat /\ p * c <= q * c
  BY <1>2, Times
<1> QED BY <1>3 DEF p, q

\* The end of the reduction exceeds nothing, and leaves magnitude 1.
LEMMA FinishedIsClosed ==
  ASSUME NEW e, Going(e, N - 1), e.d <= MaxD, NEW top \in Nat, top <= MaxColumn,
         NEW w \in Nat \ {0}, 2^AccBits <= w, NEW v \in Nat \ {0}, 2^WordBits <= v
  PROVE  Finished(e, top, w, v) = Closed(e, top) /\ Bounded(Closed(e, top), 1)
<1> DEFINE tb == top % 2^B
           c9 == e.c + e.d * R0 + tb
           c  == (c9 \div 2^T) + e.d * R1 * 2^(B - T)
           d0 == c * C0 + e.t[1]
           d1 == (d0 \div 2^B) + c * 2^S + e.t[2]
           l2 == (d1 \div 2^B) + e.t[3]
<1>0. /\ 2^B \in Nat \ {0} /\ 2^T \in Nat \ {0} /\ 2^S \in Nat /\ 2^(B - T) \in Nat /\ C0 \in Nat
      /\ R0 \in Nat /\ R1 \in Nat /\ MaxCarried \in Nat /\ MaxD \in Nat /\ 2^AccBits \in Nat /\ 2^B * R1 \in Nat
      /\ e.c \in Nat /\ e.c <= MaxCarried + 2^B * R1 /\ e.d \in Nat /\ e.d <= MaxD
      /\ N \in Nat /\ N >= 4
  BY Sizes, ReductionSizes, ShapeAssumption DEF Going
<1>1. ASSUME NEW k \in 1 .. N - 1 PROVE e.t[k] \in Nat /\ e.t[k] <= 2^B - 1
  <2> DEFINE V == 0 .. 2^B - 1
             s == e.t
  <2>1. s \in Seq(V) /\ Len(s) = N - 1
    BY DEF Going
  <2> HIDE DEF V, s
  <2>2. s[k] \in V
    BY <2>1
  <2> QED BY <1>0, <2>2 DEF V, s
<1>2. e.t[1] \in Nat /\ e.t[1] <= 2^B /\ e.t[2] \in Nat /\ e.t[2] <= 2^B /\ e.t[3] \in Nat /\ e.t[3] <= 2^B - 1
  <2>1. 1 \in 1 .. N - 1 /\ 2 \in 1 .. N - 1 /\ 3 \in 1 .. N - 1
    BY <1>0
  <2> QED BY <1>0, <1>1, <2>1
<1>3. tb \in Nat /\ tb <= 2^B /\ top % w = top
  <2>1. tb \in 0 .. 2^B - 1
    BY <1>0, Division
  <2>2. top % w = top
    BY StartGoes
  <2> QED BY <1>0, <2>1, <2>2
<1> HIDE DEF tb
<1>4. c9 \in Nat /\ c9 <= MaxC9
  <2> DEFINE a == e.d * R0
             b == MaxD * R0
             m == 2^B * R1
  <2>1. a \in Nat /\ b \in Nat /\ a <= b
    BY <1>0, Times
  <2>2. MaxC9 = MaxCarried + m + b + 2^B /\ m \in Nat /\ e.c <= MaxCarried + m
    BY <1>0, ClosingSizes
  <2>3. c9 = e.c + a + tb
    OBVIOUS
  <2> HIDE DEF a, b, m, c9
  <2> QED BY <1>0, <1>3, <2>1, <2>2, <2>3
<1>5. c9 % w = c9
  <2> HIDE DEF c9
  <2> QED BY <1>0, <1>4, ClosingSizes, Below
<1> HIDE DEF c9
<1>6. c \in Nat /\ c <= MaxC
  <2> DEFINE a == c9 \div 2^T
             b == MaxC9 \div 2^T
             p == e.d * R1 * 2^(B - T)
             q == MaxD * R1 * 2^(B - T)
  <2>1. a \in Nat /\ b \in Nat /\ a <= b
    BY <1>0, <1>4, ClosingSizes, Division, DivMono
  <2>2. p \in Nat /\ p <= q
    BY <1>0, TripleBelow
  <2>3. MaxC = b + q /\ MaxC \in Nat /\ c = a + p
    BY ClosingSizes
  <2>4. q \in Nat
    BY <1>0, TripleBelow
  <2> HIDE DEF a, b, p, q, c
  <2> QED BY <2>1, <2>2, <2>3, <2>4
<1>7. c % w = c
  <2> HIDE DEF c
  <2> QED BY <1>0, <1>6, ClosingSizes, Below
<1> HIDE DEF c
<1>8. d0 \in Nat /\ d0 <= MaxD0
  <2> DEFINE a == c * C0
             b == MaxC * C0
  <2>1. a \in Nat /\ b \in Nat /\ a <= b
    BY <1>0, <1>6, ClosingSizes, Times
  <2>2. MaxD0 = b + 2^B /\ d0 = a + e.t[1]
    BY ClosingSizes
  <2> HIDE DEF a, b, d0
  <2> QED BY <1>0, <1>2, <2>1, <2>2
<1>9. d0 % w = d0
  <2> HIDE DEF d0
  <2> QED BY <1>0, <1>8, ClosingSizes, Below
<1> HIDE DEF d0
<1>10. d1 \in Nat /\ d1 <= MaxD1
  <2> DEFINE a == d0 \div 2^B
             b == MaxD0 \div 2^B
             p == c * 2^S
             q == MaxC * 2^S
  <2>1. a \in Nat /\ b \in Nat /\ a <= b
    BY <1>0, <1>8, ClosingSizes, Division, DivMono
  <2>2. p \in Nat /\ q \in Nat /\ p <= q
    BY <1>0, <1>6, ClosingSizes, Times
  <2>3. MaxD1 = b + q + 2^B /\ d1 = a + p + e.t[2]
    BY ClosingSizes
  <2> HIDE DEF a, b, p, q, d1
  <2> QED BY <1>0, <1>2, <2>1, <2>2, <2>3
<1>11. d1 % w = d1
  <2> HIDE DEF d1
  <2> QED BY <1>0, <1>10, ClosingSizes, Below
<1> HIDE DEF d1
<1>12. l2 \in Nat /\ l2 <= 2 * (2^B - 1)
  <2> DEFINE b == 2^B
             a == d1 \div b
  <2>1. d1 < b * b /\ b \in Nat \ {0} /\ d1 \in Nat
    <3>1. d1 \in Nat /\ MaxD1 \in Nat /\ d1 <= MaxD1 /\ MaxD1 < b * b /\ b * b \in Nat
      BY <1>0, <1>10, ClosingSizes
    <3> DEFINE bb == b * b
    <3>2. bb \in Nat /\ MaxD1 < bb
      BY <3>1
    <3> HIDE DEF bb, b
    <3>3. d1 < bb
      BY <3>1, <3>2
    <3> QED BY <1>0, <3>1, <3>3 DEF bb, b
  <2> HIDE DEF b
  <2>2. a \in Nat /\ a < b
    BY <2>1, Division, DivBelow
  <2>3. l2 = a + e.t[3] /\ e.t[3] \in Nat /\ e.t[3] <= b - 1
    BY <1>2 DEF b
  <2> HIDE DEF a, l2
  <2>4. l2 \in Nat /\ l2 <= 2 * (b - 1)
    BY <2>1, <2>2, <2>3
  <2> QED BY <2>4 DEF b
<1>13. l2 % v = l2
  <2> DEFINE b == 2^B
             m == 2^WordBits
  <2>1. b \in Nat \ {0} /\ m \in Nat /\ l2 <= 2 * (b - 1) /\ m <= v /\ 2 * b <= m
    <3>1. 2 \in Nat /\ 2 <= 2 * MaxMagnitude
      BY UseAssumption
    <3>2. 2 * b <= m
      BY <3>1, WordRoom
    <3> QED BY <1>0, <1>12, <3>2, Sizes
  <2> HIDE DEF b, m, l2
  <2>2. l2 < v
    BY <1>12, <2>1
  <2> QED BY <1>12, <2>2, ModBelow
<1> HIDE DEF l2
<1>14. Closed(e, top) = [i \in Limb |-> CASE i = 0     -> d0 % 2^B
                                          [] i = 1     -> d1 % 2^B
                                          [] i = 2     -> l2
                                          [] i = N - 1 -> c9 % 2^T
                                          [] OTHER     -> e.t[i + 1]]
  BY Zenon DEF Closed, l2, d1, d0, c, c9, tb
<1>15. Finished(e, top, w, v) = [i \in Limb |-> CASE i = 0     -> d0 % 2^B
                                                  [] i = 1     -> d1 % 2^B
                                                  [] i = 2     -> l2
                                                  [] i = N - 1 -> c9 % 2^T
                                                  [] OTHER     -> e.t[i + 1]]
  <2> DEFINE C9 == (e.c + e.d * R0 + ((top % w) % 2^B)) % w
             CC == ((C9 \div 2^T) + e.d * R1 * 2^(B - T)) % w
             D0 == (CC * C0 + e.t[1]) % w
             D1 == ((D0 \div 2^B) + CC * 2^S + e.t[2]) % w
             L2 == ((D1 \div 2^B) + e.t[3]) % v
  <2>1. Finished(e, top, w, v) = [i \in Limb |-> CASE i = 0     -> D0 % 2^B
                                                  [] i = 1     -> D1 % 2^B
                                                  [] i = 2     -> L2
                                                  [] i = N - 1 -> C9 % 2^T
                                                  [] OTHER     -> e.t[i + 1]]
    BY Zenon DEF Finished
  <2>2. C9 = c9
    BY <1>3, <1>5, Zenon DEF c9, tb
  <2> HIDE DEF C9
  <2>3. CC = c
    BY <1>7, <2>2, Zenon DEF c
  <2> HIDE DEF CC
  <2>4. D0 = d0
    BY <1>9, <2>3, Zenon DEF d0
  <2> HIDE DEF D0
  <2>5. D1 = d1
    BY <1>11, <2>3, <2>4, Zenon DEF d1
  <2> HIDE DEF D1
  <2>6. L2 = l2
    BY <1>13, <2>5, Zenon DEF l2
  <2> HIDE DEF L2
  <2> QED BY <2>1, <2>2, <2>4, <2>5, <2>6, Zenon
<1> DEFINE r == [i \in Limb |-> CASE i = 0     -> d0 % 2^B
                                  [] i = 1     -> d1 % 2^B
                                  [] i = 2     -> l2
                                  [] i = N - 1 -> c9 % 2^T
                                  [] OTHER     -> e.t[i + 1]]
<1>16. ASSUME NEW i \in Limb PROVE r[i] \in Nat /\ r[i] <= (2 * 1) * PLimb(i)
  <2>0. /\ i \in Nat /\ i <= N - 1 /\ PLimb(i) \in Nat /\ Full(i) \in Nat /\ Full(i) <= 2 * PLimb(i)
        /\ (i # N - 1 => Full(i) = 2^B - 1)
        /\ Full(N - 1) = 2^T - 1 /\ PLimb(N - 1) = 2^T - 1
    <3>1. i \in Nat /\ i <= N - 1
      BY TopIsLimb
    <3>2. PLimb(i) \in Nat /\ Full(i) \in Nat /\ Full(i) <= 2 * PLimb(i)
      BY LimbSizes
    <3>3. i # N - 1 => Full(i) = 2^B - 1
      BY DEF Full
    <3>4. Full(N - 1) = 2^T - 1 /\ PLimb(N - 1) = 2^T - 1
      BY TopIsLimb
    <3> QED BY <3>1, <3>2, <3>3, <3>4
  <2>1. d0 % 2^B \in 0 .. 2^B - 1 /\ d1 % 2^B \in 0 .. 2^B - 1 /\ c9 % 2^T \in 0 .. 2^T - 1
    BY <1>0, <1>4, <1>8, <1>10, Division
  <2>2. CASE i = 2
    <3>1. r[i] = l2 /\ PLimb(i) = 2^B - 1
      BY <1>0, <2>2 DEF PLimb, Full
    <3> HIDE DEF r
    <3> QED BY <1>12, <3>1
  <2>3. CASE i # 2 /\ i # N - 1
    <3>1. r[i] \in Nat /\ r[i] <= 2^B - 1
      <4>1. CASE i = 0
        BY <1>0, <2>1, <4>1
      <4>2. CASE i = 1
        BY <1>0, <2>1, <4>2
      <4>3. CASE i # 0 /\ i # 1
        <5>2. i + 1 \in 1 .. N - 1
          BY <1>0, <2>0, <2>3, <4>3
        <5>3. r[i] = e.t[i + 1]
          BY <2>3, <4>3
        <5>1. i + 1 \in 1 .. N - 1 /\ r[i] = e.t[i + 1]
          BY <5>2, <5>3
        <5> HIDE DEF r
        <5> QED BY <1>1, <5>1
      <4> QED BY <4>1, <4>2, <4>3
    <3> HIDE DEF r
    <3>2. Full(i) = 2^B - 1
      BY <2>0, <2>3
    <3> QED BY <1>0, <2>0, <3>1, <3>2
  <2>4. CASE i = N - 1
    <3>1. r[i] = c9 % 2^T
      BY <1>0, <2>4
    <3> HIDE DEF r
    <3>2. PLimb(i) = 2^T - 1
      BY <2>0, <2>4
    <3> QED BY <1>0, <2>1, <3>1, <3>2
  <2> QED BY <2>2, <2>3, <2>4
<1>17. r \in [Limb -> Nat]
  <2> DEFINE s == [i \in Limb |-> r[i]]
  <2>1. r = s
    OBVIOUS
  <2> HIDE DEF r
  <2>2. s \in [Limb -> Nat]
    BY <1>16
  <2> QED BY <2>1, <2>2
<1>18. Closed(e, top) = r /\ Finished(e, top, w, v) = r
  BY <1>14, <1>15
<1> HIDE DEF r
<1>19. Bounded(r, 1)
  BY <1>16, <1>17 DEF Bounded
<1> QED BY <1>18, <1>19

\* mul_inner's reduction does the same in wider accumulators and words.
LEMMA ReduceAgrees ==
  ASSUME Wider, NEW column, Columns(column)
  PROVE  Wide!Reduce(column) = Reduce(column) /\ Bounded(Reduce(column), 1)
<1> DEFINE f == CHOOSE f : IsReduction(f, column, 2^AccBits)
           g == CHOOSE g : IsReduction(g, column, 2^WideAcc)
           top == column[N - 1]
<1>1. /\ 2^AccBits \in Nat \ {0} /\ 2^WideAcc \in Nat \ {0} /\ 2^AccBits <= 2^WideAcc /\ 2^AccBits <= 2^AccBits
      /\ 2^WordBits \in Nat \ {0} /\ 2^WideWord \in Nat \ {0} /\ 2^WordBits <= 2^WideWord
      /\ 2^WordBits <= 2^WordBits
  BY Sizes, WiderSizes
<1>2. top \in Nat /\ top <= MaxColumn
  <2>1. N - 1 \in 0 .. 2 * N - 2
    BY TopIsLimb
  <2> QED BY <2>1 DEF Columns
<1>3. IsReduction(f, column, 2^AccBits) /\ IsReduction(g, column, 2^WideAcc)
  BY ReductionExists
<1>4. /\ Reduce(column) = Finished(f[N - 1], top, 2^AccBits, 2^WordBits)
      /\ Wide!Reduce(column) = Finished(g[N - 1], top, 2^WideAcc, 2^WideWord)
  BY ReduceIsFinished
<1> HIDE DEF f, g, top
<1>5. f[N - 1] = g[N - 1] /\ Going(f[N - 1], N - 1) /\ f[N - 1].d <= MaxD
  BY <1>1, <1>3, ReductionsAgree
<1> DEFINE e == f[N - 1]
<1>6. Going(e, N - 1) /\ e.d <= MaxD
  BY <1>5
<1> HIDE DEF e
<1>7. Finished(e, top, 2^AccBits, 2^WordBits) = Closed(e, top) /\ Bounded(Closed(e, top), 1)
  BY <1>1, <1>2, <1>6, FinishedIsClosed
<1>8. Finished(e, top, 2^WideAcc, 2^WideWord) = Closed(e, top)
  BY <1>1, <1>2, <1>6, FinishedIsClosed
<1> QED BY <1>4, <1>5, <1>7, <1>8 DEF e

\* The columns of a product are what the reduction may be given.
LEMMA MulColumnsFit ==
  ASSUME NEW m \in 1 .. MaxFactor, NEW n \in 1 .. MaxFactor, NEW l, Bounded(l, m), NEW h, Bounded(h, n)
  PROVE  Columns([k \in 0 .. 2 * N - 2 |-> MulColumn(l, h, k)])
<1> DEFINE column == [k \in 0 .. 2 * N - 2 |-> MulColumn(l, h, k)]
<1>1. Factor(l) /\ Factor(h)
  BY FactorLimbs DEF Factor
<1>2. Columns(column)
  <2>1. \A k \in 0 .. 2 * N - 2 : column[k] = MulColumn(l, h, k)
    OBVIOUS
  <2>2. 2 * N - 2 \in 0 .. 2 * N - 2
    BY TopIsLimb
  <2> HIDE DEF column
  <2> QED BY <1>1, <2>1, <2>2, MulColumnBelow DEF Columns
<1> QED BY <1>2

\* mul never exceeds an accumulator when its factors have the magnitude it asks for, and leaves
\* magnitude 1.
LEMMA MulAgrees ==
  ASSUME Wider, NEW m \in 1 .. MaxFactor, NEW n \in 1 .. MaxFactor, NEW l, Bounded(l, m), NEW h, Bounded(h, n)
  PROVE  Wide!Mul(l, h) = Mul(l, h) /\ Bounded(Mul(l, h), 1)
<1> DEFINE column == [k \in 0 .. 2 * N - 2 |-> MulColumn(l, h, k)]
<1>1. Columns(column)
  BY MulColumnsFit
<1>2. Mul(l, h) = Reduce(column)
  BY Zenon DEF Mul
<1>3. Wide!Mul(l, h) = Wide!Reduce(column)
  BY Zenon DEF Wide!Mul, Wide!MulColumn, MulColumn, Wide!Total, Total, Wide!Limb, Limb
<1> HIDE DEF column
<1> QED BY <1>1, <1>2, <1>3, ReduceAgrees

\* The same of sqr, which doubles a limb in a word first.
LEMMA SqrAgrees ==
  ASSUME Wider, NEW m \in 1 .. MaxFactor, NEW l, Bounded(l, m)
  PROVE  /\ Wide!Sqr(l) = Sqr(l) /\ Bounded(Sqr(l), 1)
         /\ Columns([k \in 0 .. 2 * N - 2 |-> SqrColumn(l, k)])
         /\ \A i \in Limb : (l[i] * 2) % 2^WordBits = l[i] * 2
<1> DEFINE column == [k \in 0 .. 2 * N - 2 |-> SqrColumn(l, k)]
           wide == [k \in 0 .. 2 * N - 2 |-> Wide!SqrColumn(l, k)]
<1>0. MaxFactor \in Nat /\ m \in Nat /\ 2 * m \in 1 .. MaxMagnitude
  BY UseAssumption
<1>1. Factor(l)
  BY FactorLimbs DEF Factor
<1>2. \A i \in Limb : (l[i] * 2) % 2^WordBits = l[i] * 2 /\ (l[i] * 2) % 2^WideWord = l[i] * 2
  <2> TAKE i \in Limb
  <2> DEFINE a == l[i]
             f == PLimb(i)
             q == 2 * m
  <2>1. a \in Nat /\ f \in Nat /\ a <= (2 * m) * f
    BY <1>0, BoundedLimb
  <2>2. a * 2 \in Nat /\ a * 2 <= (2 * q) * f
    <3> DEFINE p == m * f
    <3>1. p \in Nat /\ (2 * m) * f = 2 * p /\ (2 * q) * f = 4 * p
      BY <1>0, <2>1
    <3> HIDE DEF p, a, f, q
    <3> QED BY <2>1, <3>1
  <2>3. q \in 1 .. MaxMagnitude
    BY <1>0
  <2> HIDE DEF q, a
  <2>4. (a * 2) % 2^WordBits = a * 2 /\ (a * 2) % 2^WideWord = a * 2
    BY <2>2, <2>3, LimbFits
  <2> QED BY <2>4 DEF a
<1>3. ASSUME NEW k \in 0 .. 2 * N - 2
      PROVE  /\ SqrColumn(l, k) = Total(Squares(l, k, 2^WordBits), N)
             /\ Wide!SqrColumn(l, k) = Total(Squares(l, k, 2^WideWord), N)
             /\ Squares(l, k, 2^WordBits) = Squares(l, k, 2^WideWord)
  <2>1. SqrColumn(l, k) = Total(Squares(l, k, 2^WordBits), N)
    BY Zenon DEF SqrColumn, Squares, Word
  <2>2. Wide!SqrColumn(l, k) = Total(Squares(l, k, 2^WideWord), N)
    BY Zenon DEF Wide!SqrColumn, Squares, Wide!Word, Wide!Limb, Limb, Wide!Total, Total
  <2>3. Squares(l, k, 2^WordBits) = Squares(l, k, 2^WideWord)
    <3> DEFINE v == 2^WordBits
               w == 2^WideWord
    <3>1. \A i \in Limb : (l[i] * 2) % v = (l[i] * 2) % w
      BY <1>2
    <3> HIDE DEF v, w
    <3>2. \A i \in Limb : Squares(l, k, v)[i] = Squares(l, k, w)[i]
      BY <3>1 DEF Squares
    <3>3. /\ Squares(l, k, v) = [i \in Limb |-> Squares(l, k, v)[i]]
          /\ Squares(l, k, w) = [i \in Limb |-> Squares(l, k, w)[i]]
      BY DEF Squares
    <3>4. Squares(l, k, v) = Squares(l, k, w)
      BY <3>2, <3>3
    <3> QED BY <3>4 DEF v, w
  <2> QED BY <2>1, <2>2, <2>3
<1>4. column = wide
  BY <1>3
<1>5. Columns(column)
  <2>1. ASSUME NEW k \in 0 .. 2 * N - 2
        PROVE  /\ column[k] \in Nat /\ column[k] <= MaxColumn
               /\ k = 2 * N - 2 => column[k] <= FactorTop * FactorTop
    <3> DEFINE t == Total(Squares(l, k, 2^WordBits), N)
    <3>1. column[k] = t
      BY <1>3
    <3>2. t \in Nat /\ t <= MaxColumn /\ (k = 2 * N - 2 => t <= FactorTop * FactorTop)
      <4>1. \A i \in Limb : (l[i] * 2) % 2^WordBits = l[i] * 2
        BY <1>2
      <4> QED BY <1>1, <4>1, SqrColumnBelow
    <3> HIDE DEF t, column
    <3> QED BY <3>1, <3>2
  <2>2. 2 * N - 2 \in 0 .. 2 * N - 2
    BY TopIsLimb
  <2> HIDE DEF column
  <2> QED BY <2>1, <2>2 DEF Columns
<1>6. Sqr(l) = Reduce(column)
  BY Zenon DEF Sqr
<1>7. Wide!Sqr(l) = Wide!Reduce(wide)
  BY Zenon DEF Wide!Sqr
<1> HIDE DEF column, wide
<1>8. Wide!Sqr(l) = Sqr(l) /\ Bounded(Sqr(l), 1)
  BY <1>4, <1>5, <1>6, <1>7, ReduceAgrees
<1> QED BY <1>2, <1>5, <1>8, Zenon DEF column

-----------------------------------------------------------------------------
\* The early test of normalizes_to_zero_var, on the lowest limb alone, never turns a zero away.
LEMMA ZeroVarAgrees ==
  ASSUME Wider, NEW m \in 1 .. MaxMagnitude, NEW l, Bounded(l, m)
  PROVE  NormalizesToZeroVar(l) = NormalizesToZero(l)
<1> DEFINE t == NormalizeWeak(l)
           z == l[N-1] \div 2^T
           d == DropTop(l)
           s == [i \in Limb |-> d[i] + z * C(i)]
           t0 == Word(l[0] + z * C0) % 2^B
<1>1. t[0] = t0
  <2>1. Carries(s, 2 * m)
    BY WeakCarries
  <2>2. t = AddC(d, z)
    BY Zenon DEF NormalizeWeak
  <2>3. 2 * m <= 2 * MaxMagnitude
    BY UseAssumption
  <2> HIDE DEF t, d, z
  <2>4. PICK c : Exactly(AddC(d, z), s, c) /\ \A i \in Limb : c[i] \in 0 .. 2 * m - 1 /\ s[i] + c[i] < (2 * m) * 2^B
    BY <2>1, <2>3, AddCAgrees
  <2>5. t[0] = (s[0] + c[0]) % 2^B /\ c[0] = 0
    BY <2>2, <2>4, TopIsLimb DEF Exactly
  <2>6. s[0] \in Nat /\ s[0] < (2 * m) * 2^B
    <3>1. s[0] \in Nat
      BY <2>1, TopIsLimb DEF Carries
    <3>2. c[0] = 0 /\ s[0] + c[0] < (2 * m) * 2^B
      BY <2>4, <2>5, TopIsLimb
    <3> QED BY <3>1, <3>2
  <2>7. s[0] = d[0] + z * C0 /\ d[0] = l[0]
    <3>1. s[0] = d[0] + z * C0
      BY TopIsLimb
    <3>2. l \in [Limb -> Nat]
      BY DEF Bounded
    <3>3. d[0] = l[0]
      BY <3>2, TopIsLimb DEF d, DropTop
    <3> QED BY <3>1, <3>3
  <2>8. (2 * m) * 2^B \in Nat /\ (2 * m) * 2^B <= 2^WordBits
    <3>1. 2 * m \in Nat /\ 2 * m <= 2 * MaxMagnitude
      BY UseAssumption
    <3> QED BY <3>1, WordRoom
  <2> HIDE DEF s
  <2>9. Word(s[0]) = s[0]
    <3>1. s[0] < 2^WordBits
      BY <2>6, <2>8, Sizes
    <3> QED BY <2>6, <3>1, Sizes, ModBelow DEF Word
  <2>10. t[0] = s[0] % 2^B
    BY <2>5, <2>6
  <2> QED BY <2>7, <2>9, <2>10
<1>2. NormalizesToZeroVar(l) = (t0 \in {0, PLimb(0)} /\ NormalizesToZero(l))
  BY Zenon DEF NormalizesToZeroVar
<1>3. NormalizesToZero(l) => t[0] \in {0, PLimb(0)}
  BY TopIsLimb DEF NormalizesToZero, IsZero, IsP
<1> HIDE DEF t, t0
<1>4. NormalizesToZero(l) \in BOOLEAN
  BY DEF NormalizesToZero, IsZero, IsP
<1> QED BY <1>1, <1>2, <1>3, <1>4

-----------------------------------------------------------------------------
\* An element that the operations may meet.
Fits(e) ==
  /\ e.m \in 1 .. MaxMagnitude /\ e.n \in BOOLEAN
  /\ Bounded(e.l, e.m)
  /\ e.n => e.m = 1 /\ Reduced(e.l) /\ ~AtLeastP(e.l)

\* The inductive invariant.
IInv == Fits(x) /\ Fits(y)

\* The parts of an element.
LEMMA ElemParts ==
  ASSUME NEW l, NEW m, NEW n
  PROVE  Elem(l, m, n).l = l /\ Elem(l, m, n).m = m /\ Elem(l, m, n).n = n
BY DEF Elem

\* What an operation has to show of its result.
LEMMA FitsElem ==
  ASSUME NEW l, NEW m \in 1 .. MaxMagnitude, NEW n \in BOOLEAN, Bounded(l, m),
         n => m = 1 /\ Reduced(l) /\ ~AtLeastP(l)
  PROVE  Fits(Elem(l, m, n))
<1> DEFINE e == Elem(l, m, n)
<1>1. e.l = l /\ e.m = m /\ e.n = n
  BY ElemParts
<1> HIDE DEF e
<1>2. Fits(e)
  BY <1>1 DEF Fits
<1> QED BY <1>2 DEF e

\* The limbs of a number are reduced.
LEMMA LimbsOfReduced ==
  ASSUME NEW v \in Nat
  PROVE  Reduced(LimbsOf(v))
<1>1. ASSUME NEW i \in Limb PROVE LimbsOf(v)[i] \in Nat /\ LimbsOf(v)[i] <= Full(i)
  <2> DEFINE d == 2^(B * i)
             b == 2^(IF i = N - 1 THEN T ELSE B)
             a == v \div d
  <2>1. LimbsOf(v)[i] = a % b
    BY DEF LimbsOf
  <2>2. B * i \in Nat
    <3>1. i \in Nat /\ B \in Nat
      BY TopIsLimb, ShapeAssumption
    <3> QED BY <3>1
  <2>3. d \in Nat \ {0}
    BY <2>2, PowerIsNat
  <2>4. b \in Nat \ {0} /\ Full(i) = b - 1
    BY Sizes DEF Full
  <2> HIDE DEF d, b
  <2>5. a \in Nat
    BY <2>3, Division
  <2> HIDE DEF a
  <2>6. a % b \in 0 .. b - 1
    BY <2>4, <2>5, Division
  <2> QED BY <2>1, <2>4, <2>6
<1>2. LimbsOf(v) = [i \in Limb |-> LimbsOf(v)[i]]
  BY DEF LimbsOf
<1>3. LimbsOf(v) \in [Limb -> Nat]
  BY <1>1, <1>2
<1> QED BY <1>1, <1>3 DEF Reduced

\* Every element that set_b32 accepts may be met.
LEMMA FreshFits ==
  ASSUME NEW e \in Fresh
  PROVE  Fits(e)
<1>1. PICK v \in Values : e = Elem(LimbsOf(v), 1, TRUE) /\ ~AtLeastP(e.l)
  BY DEF Fresh
<1>2. Reduced(LimbsOf(v)) /\ v \in Nat
  BY LimbsOfReduced, UseAssumption
<1>3. e.l = LimbsOf(v)
  <2> DEFINE l == LimbsOf(v)
  <2>1. e = [l |-> l, m |-> 1, n |-> TRUE]
    BY <1>1 DEF Elem
  <2> HIDE DEF l
  <2>2. e.l = l
    BY <2>1
  <2> QED BY <2>2 DEF l
<1>4. 1 \in 1 .. MaxMagnitude /\ Bounded(LimbsOf(v), 1)
  BY <1>2, Sizes, UseAssumption, ReducedBounded
<1>5. Fits(Elem(LimbsOf(v), 1, TRUE))
  BY <1>1, <1>2, <1>3, <1>4, FitsElem
<1> QED BY <1>1, <1>5

\* Each operation keeps the invariant and is the same operation of the wider machine:
\* normalize_weak.
LEMMA NormalizeWeakKeeps ==
  ASSUME Wider, IInv, DoNormalizeWeak
  PROVE  IInv' /\ Wide!DoNormalizeWeak
<1>1. x.m \in 1 .. MaxMagnitude /\ x.n \in BOOLEAN /\ Bounded(x.l, x.m) /\ Fits(y)
      /\ (x.n => Reduced(x.l) /\ ~AtLeastP(x.l))
  BY DEF IInv, Fits
<1>2. Wide!NormalizeWeak(x.l) = NormalizeWeak(x.l) /\ Bounded(NormalizeWeak(x.l), 1)
  BY <1>1, NormalizeWeakAgrees, NormalizeWeakBounded
<1>3. x.n => NormalizeWeak(x.l) = x.l
  BY <1>1, NormalizeWeakOfReduced
<1>4. Fits(Elem(NormalizeWeak(x.l), 1, x.n))
  <2>1. 1 \in 1 .. MaxMagnitude
    BY Sizes, UseAssumption
  <2> QED BY <1>1, <1>2, <1>3, <2>1, FitsElem
<1>5. x' = Elem(NormalizeWeak(x.l), 1, x.n) /\ y' = y
  BY DEF DoNormalizeWeak
<1>6. IInv'
  BY <1>1, <1>4, <1>5 DEF IInv, Fits
<1>7. Wide!DoNormalizeWeak
  BY <1>2, <1>5 DEF Wide!DoNormalizeWeak, Wide!Elem, Elem
<1> QED BY <1>6, <1>7

\* The same of normalize.
LEMMA NormalizeKeeps ==
  ASSUME Wider, IInv, DoNormalize
  PROVE  IInv' /\ Wide!DoNormalize
<1>1. x.m \in 1 .. MaxMagnitude /\ Bounded(x.l, x.m) /\ Fits(y)
  BY DEF IInv, Fits
<1>2. Wide!Normalize(x.l) = Normalize(x.l) /\ Reduced(Normalize(x.l)) /\ ~AtLeastP(Normalize(x.l))
  BY <1>1, NormalizeAgrees
<1>3. Fits(Elem(Normalize(x.l), 1, TRUE))
  <2>1. 1 \in 1 .. MaxMagnitude
    BY Sizes, UseAssumption
  <2> QED BY <1>2, <2>1, ReducedBounded, FitsElem
<1>4. x' = Elem(Normalize(x.l), 1, TRUE) /\ y' = y
  BY DEF DoNormalize
<1>5. IInv'
  BY <1>1, <1>3, <1>4 DEF IInv, Fits
<1>6. Wide!DoNormalize
  BY <1>2, <1>4 DEF Wide!DoNormalize, Wide!Elem, Elem
<1> QED BY <1>5, <1>6

\* The same of negate.
LEMMA NegateKeeps ==
  ASSUME Wider, IInv, DoNegate
  PROVE  IInv' /\ Wide!DoNegate
<1>1. x.m \in 1 .. MaxMagnitude /\ Bounded(x.l, x.m) /\ Fits(y)
  BY DEF IInv, Fits
<1>2. x.m < MaxMagnitude /\ x' = Elem(Negate(x.l, x.m), x.m + 1, FALSE) /\ y' = y
  BY DEF DoNegate
<1>3. Wide!Negate(x.l, x.m) = Negate(x.l, x.m) /\ Bounded(Negate(x.l, x.m), x.m + 1)
  BY <1>1, <1>2, NegateAgrees
<1>4. Fits(Elem(Negate(x.l, x.m), x.m + 1, FALSE))
  <2>1. x.m + 1 \in 1 .. MaxMagnitude
    BY <1>1, <1>2, UseAssumption
  <2> QED BY <1>3, <2>1, FitsElem
<1>5. IInv'
  BY <1>1, <1>2, <1>4 DEF IInv, Fits
<1>6. Wide!DoNegate
  BY <1>2, <1>3 DEF Wide!DoNegate, Wide!Elem, Elem
<1> QED BY <1>5, <1>6

\* The same of mul_int.
LEMMA MulIntKeeps ==
  ASSUME Wider, IInv, DoMulInt
  PROVE  IInv' /\ Wide!DoMulInt
<1>1. x.m \in 1 .. MaxMagnitude /\ Bounded(x.l, x.m) /\ Fits(y)
  BY DEF IInv, Fits
<1>2. PICK k \in Factors : x.m * k <= MaxMagnitude /\ x' = Elem(MulInt(x.l, k), x.m * k, FALSE) /\ y' = y
  BY DEF DoMulInt
<1>3. k \in Nat \ {0}
  BY UseAssumption
<1>4. /\ Wide!MulInt(x.l, k) = MulInt(x.l, k) /\ Bounded(MulInt(x.l, k), x.m * k)
      /\ x.m * k \in 1 .. MaxMagnitude
  BY <1>1, <1>2, <1>3, MulIntAgrees
<1>5. Fits(Elem(MulInt(x.l, k), x.m * k, FALSE))
  BY <1>4, FitsElem
<1>6. IInv'
  BY <1>1, <1>2, <1>5 DEF IInv, Fits
<1>7. Wide!DoMulInt
  BY <1>2, <1>4, Zenon DEF Wide!DoMulInt, Wide!Elem, Elem
<1> QED BY <1>6, <1>7

\* The same of add.
LEMMA AddKeeps ==
  ASSUME Wider, IInv, DoAdd
  PROVE  IInv' /\ Wide!DoAdd
<1>1. /\ x.m \in 1 .. MaxMagnitude /\ Bounded(x.l, x.m) /\ Fits(y)
      /\ y.m \in 1 .. MaxMagnitude /\ Bounded(y.l, y.m)
  BY DEF IInv, Fits
<1>2. x.m + y.m <= MaxMagnitude /\ x' = Elem(Add(x.l, y.l), x.m + y.m, FALSE) /\ y' = y
  BY DEF DoAdd
<1>3. Wide!Add(x.l, y.l) = Add(x.l, y.l) /\ Bounded(Add(x.l, y.l), x.m + y.m)
  BY <1>1, <1>2, AddAgrees
<1>4. Fits(Elem(Add(x.l, y.l), x.m + y.m, FALSE))
  <2>1. x.m + y.m \in 1 .. MaxMagnitude
    BY <1>1, <1>2, UseAssumption
  <2> QED BY <1>3, <2>1, FitsElem
<1>5. IInv'
  BY <1>1, <1>2, <1>4 DEF IInv, Fits
<1>6. Wide!DoAdd
  BY <1>2, <1>3 DEF Wide!DoAdd, Wide!Elem, Elem
<1> QED BY <1>5, <1>6

\* The same of mul.
LEMMA MulKeeps ==
  ASSUME Wider, IInv, DoMul
  PROVE  IInv' /\ Wide!DoMul
<1>1. /\ x.m \in 1 .. MaxMagnitude /\ Bounded(x.l, x.m) /\ Fits(y)
      /\ y.m \in 1 .. MaxMagnitude /\ Bounded(y.l, y.m)
  BY DEF IInv, Fits
<1>2. x.m <= MaxFactor /\ y.m <= MaxFactor /\ x' = Elem(Mul(x.l, y.l), 1, FALSE) /\ y' = y
  BY DEF DoMul
<1>3. x.m \in 1 .. MaxFactor /\ y.m \in 1 .. MaxFactor /\ 1 \in 1 .. MaxMagnitude
  BY <1>1, <1>2, UseAssumption
<1>4. Wide!Mul(x.l, y.l) = Mul(x.l, y.l) /\ Bounded(Mul(x.l, y.l), 1)
  BY <1>1, <1>3, MulAgrees
<1>5. Fits(Elem(Mul(x.l, y.l), 1, FALSE))
  BY <1>3, <1>4, FitsElem
<1>6. IInv'
  BY <1>1, <1>2, <1>5 DEF IInv, Fits
<1>7. Wide!DoMul
  BY <1>2, <1>4 DEF Wide!DoMul, Wide!Elem, Elem
<1> QED BY <1>6, <1>7

\* The same of sqr.
LEMMA SqrKeeps ==
  ASSUME Wider, IInv, DoSqr
  PROVE  IInv' /\ Wide!DoSqr
<1>1. x.m \in 1 .. MaxMagnitude /\ Bounded(x.l, x.m) /\ Fits(y)
  BY DEF IInv, Fits
<1>2. x.m <= MaxFactor /\ x' = Elem(Sqr(x.l), 1, FALSE) /\ y' = y
  BY DEF DoSqr
<1>3. x.m \in 1 .. MaxFactor /\ 1 \in 1 .. MaxMagnitude
  BY <1>1, <1>2, UseAssumption
<1>4. Wide!Sqr(x.l) = Sqr(x.l) /\ Bounded(Sqr(x.l), 1)
  BY <1>1, <1>3, SqrAgrees
<1>5. Fits(Elem(Sqr(x.l), 1, FALSE))
  BY <1>3, <1>4, FitsElem
<1>6. IInv'
  BY <1>1, <1>2, <1>5 DEF IInv, Fits
<1>7. Wide!DoSqr
  BY <1>2, <1>4 DEF Wide!DoSqr, Wide!Elem, Elem
<1> QED BY <1>6, <1>7

\* The same of cmov, which moves limbs and takes the larger magnitude.
LEMMA CmovKeeps ==
  ASSUME IInv, DoCmov
  PROVE  IInv' /\ Wide!DoCmov
<1> DEFINE m == IF y.m > x.m THEN y.m ELSE x.m
<1>1. Fits(x) /\ Fits(y)
  BY DEF IInv
<1>2. PICK flag \in BOOLEAN : x' = Elem(Cmov(x.l, y.l, flag), m, x.n /\ y.n) /\ y' = y
  BY DEF DoCmov
<1>3. x.m \in Nat /\ y.m \in Nat /\ m \in Nat /\ m \in 1 .. MaxMagnitude /\ x.m <= m /\ y.m <= m
  BY <1>1, UseAssumption DEF Fits
<1>4. (x.n /\ y.n) \in BOOLEAN /\ (x.n /\ y.n => m = 1)
  BY <1>1 DEF Fits
<1> HIDE DEF m
<1>5. Bounded(x.l, m) /\ Bounded(y.l, m)
  BY <1>1, <1>3, BoundedMore DEF Fits
<1>6. Cmov(x.l, y.l, flag) = x.l \/ Cmov(x.l, y.l, flag) = y.l
  BY DEF Cmov
<1> DEFINE l == Cmov(x.l, y.l, flag)
<1>7. Bounded(l, m) /\ (x.n /\ y.n => Reduced(l) /\ ~AtLeastP(l))
  BY <1>1, <1>5, <1>6 DEF Fits
<1> HIDE DEF l
<1>8. Fits(Elem(l, m, x.n /\ y.n))
  BY <1>3, <1>4, <1>7, FitsElem
<1>9. IInv'
  BY <1>1, <1>2, <1>8 DEF IInv, Fits, l
<1>10. Wide!DoCmov
  BY <1>2, Zenon DEF Wide!DoCmov, Wide!Elem, Elem, Wide!Cmov, Cmov, m
<1> QED BY <1>9, <1>10

\* Every step keeps the invariant and is a step of the wider machine.
LEMMA StepKeeps ==
  ASSUME Wider, IInv, [Next]_<<x, y>>
  PROVE  IInv' /\ [Wide!Next]_<<x, y>>
<1>1. CASE Copy
  <2>1. IInv'
    BY <1>1 DEF IInv, Fits, Copy
  <2>2. Wide!Copy
    BY <1>1 DEF Wide!Copy, Copy
  <2> QED BY <2>1, <2>2 DEF Wide!Next
<1>2. CASE UNCHANGED <<x, y>>
  BY <1>2 DEF IInv, Fits
<1>3. CASE DoNormalizeWeak
  BY <1>3, NormalizeWeakKeeps DEF Wide!Next
<1>4. CASE DoNormalize
  BY <1>4, NormalizeKeeps DEF Wide!Next
<1>5. CASE DoNegate
  BY <1>5, NegateKeeps DEF Wide!Next
<1>6. CASE DoMulInt
  BY <1>6, MulIntKeeps DEF Wide!Next
<1>7. CASE DoAdd
  BY <1>7, AddKeeps DEF Wide!Next
<1>8. CASE DoMul
  BY <1>8, MulKeeps DEF Wide!Next
<1>9. CASE DoSqr
  BY <1>9, SqrKeeps DEF Wide!Next
<1>10. CASE DoCmov
  BY <1>10, CmovKeeps DEF Wide!Next
<1> QED BY <1>1, <1>2, <1>3, <1>4, <1>5, <1>6, <1>7, <1>8, <1>9, <1>10 DEF Next

\* The initial states are among the wider machine's.
LEMMA InitFits ==
  ASSUME Init
  PROVE  IInv /\ Wide!Init
<1>1. x \in Fresh /\ y \in Fresh
  BY DEF Init
<1>2. Wide!Fresh = Fresh
  BY Zenon DEF Wide!Fresh, Fresh, Wide!Elem, Elem, Wide!LimbsOf, LimbsOf, Wide!Limb, Limb,
               Wide!AtLeastP, AtLeastP, Wide!Full, Full
<1> QED BY <1>1, <1>2, FreshFits DEF IInv, Wide!Init

\* No sequence of operations of field_10x26_impl.h, each within its precondition on magnitudes,
\* ever wraps round a word or exceeds an accumulator: with words and accumulators of any larger
\* width every step is the same.
THEOREM NoWrap ==
  ASSUME Wider
  PROVE  Spec => Wide!Spec
<1>1. Init => IInv /\ Wide!Init
  BY InitFits
<1>2. IInv /\ [Next]_<<x, y>> => IInv' /\ [Wide!Next]_<<x, y>>
  BY StepKeeps
<1> QED BY <1>1, <1>2, PTL DEF Spec, Wide!Spec

\* The inductive invariant: both elements always have limbs within their magnitude, and one
\* that is marked normalized is below the prime.  (Wider is about the second machine alone, and
\* holds when it is no wider.)
THEOREM Invariance ==
  ASSUME Wider
  PROVE  Spec => []IInv
<1>1. Init => IInv
  BY InitFits
<1>2. IInv /\ [Next]_<<x, y>> => IInv'
  BY StepKeeps
<1> QED BY <1>1, <1>2, PTL DEF Spec

\* The invariant implies what fe_verify tests.
LEMMA FitsVerifies ==
  ASSUME NEW e, Fits(e)
  PROVE  Verify(e)
<1>1. /\ e.m \in 1 .. MaxMagnitude /\ e.n \in BOOLEAN /\ Bounded(e.l, e.m) /\ MaxMagnitude \in Nat
      /\ (e.n => e.m = 1 /\ Reduced(e.l) /\ ~AtLeastP(e.l))
  BY UseAssumption DEF Fits
<1>2. ASSUME NEW i \in Limb PROVE e.l[i] \in 0 .. (IF e.n THEN 1 ELSE 2 * e.m) * Full(i)
  <2>1. e.l[i] \in Nat /\ e.l[i] <= (2 * e.m) * PLimb(i)
    BY <1>1, BoundedLimb
  <2>2. PLimb(i) \in Nat /\ Full(i) \in Nat /\ PLimb(i) <= Full(i)
    BY LimbSizes
  <2>3. CASE e.n
    <3>1. e.l[i] <= Full(i)
      BY <1>1, <2>3 DEF Reduced
    <3>2. e.l[i] \in 0 .. 1 * Full(i)
      BY <2>1, <2>2, <3>1
    <3> QED BY <2>3, <3>2
  <2>4. CASE ~e.n
    <3> DEFINE p == 2 * e.m
               a == e.l[i]
               f == PLimb(i)
               g == Full(i)
    <3>1. p \in Nat /\ a \in Nat /\ f \in Nat /\ g \in Nat /\ f <= g /\ a <= p * f
      BY <1>1, <2>1, <2>2
    <3> HIDE DEF p, a, f, g
    <3>2. f * p \in Nat /\ g * p \in Nat /\ f * p <= g * p
      BY <3>1, Times
    <3>3. f * p = p * f /\ g * p = p * g
      BY <3>1
    <3>4. a \in 0 .. p * g
      BY <3>1, <3>2, <3>3
    <3> QED BY <2>4, <3>4 DEF p, a, g
  <2> QED BY <2>3, <2>4
<1>3. e.m \in 0 .. MaxMagnitude /\ (e.n => e.m <= 1 /\ ~AtLeastP(e.l))
  BY <1>1
<1> QED BY <1>2, <1>3 DEF Verify

\* The checks of the VERIFY build, secp256k1_fe_verify, never fail: the magnitudes and the flag
\* that the code would keep always say what the limbs are.
THEOREM VerifyHolds ==
  ASSUME Wider
  PROVE  Spec => [](\A e \in {x, y} : Verify(e))
<1>1. IInv => \A e \in {x, y} : Verify(e)
  BY FitsVerifies DEF IInv
<1> QED BY <1>1, Invariance, PTL

\* The two forms of an operation agree on elements within the invariant.
LEMMA FormsAgree ==
  ASSUME Wider, IInv
  PROVE  /\ NormalizeVar(x.l) = Normalize(x.l)
         /\ NormalizesToZeroVar(x.l) = NormalizesToZero(x.l)
         /\ x.m = 1 /\ y.m + 2 <= MaxMagnitude => EqualVar(x.l, y.l) = Equal(x.l, y.l)
<1>1. /\ x.m \in 1 .. MaxMagnitude /\ Bounded(x.l, x.m)
      /\ y.m \in 1 .. MaxMagnitude /\ Bounded(y.l, y.m)
  BY DEF IInv, Fits
<1>2. NormalizeVar(x.l) = Normalize(x.l) /\ NormalizesToZeroVar(x.l) = NormalizesToZero(x.l)
  BY <1>1, NormalizeAgrees, ZeroVarAgrees
<1>3. ASSUME x.m = 1, y.m + 2 <= MaxMagnitude
      PROVE  EqualVar(x.l, y.l) = Equal(x.l, y.l)
  <2> DEFINE l == Negate(x.l, 1)
             h == Add(l, y.l)
  <2>0. y.m \in Nat /\ MaxMagnitude \in Nat
    BY <1>1, UseAssumption
  <2>1. Bounded(l, 2)
    <3>1. 1 \in 1 .. MaxMagnitude /\ 1 < MaxMagnitude /\ Bounded(x.l, 1) /\ 1 + 1 = 2
      BY <1>1, <1>3, <2>0
    <3>2. Bounded(Negate(x.l, 1), 1 + 1)
      BY <3>1, NegateAgrees
    <3> QED BY <3>1, <3>2
  <2> HIDE DEF l
  <2>2. 2 \in 1 .. MaxMagnitude /\ 2 + y.m <= MaxMagnitude /\ 2 + y.m \in 1 .. MaxMagnitude
    BY <1>1, <1>3, <2>0
  <2>3. Bounded(h, 2 + y.m)
    BY <1>1, <2>1, <2>2, AddAgrees
  <2> HIDE DEF h
  <2>4. NormalizesToZeroVar(h) = NormalizesToZero(h)
    BY <2>2, <2>3, ZeroVarAgrees
  <2> QED BY <2>4 DEF EqualVar, Equal, h, l
<1> QED BY <1>2, <1>3

\* In every reachable state the variable-time forms, normalize_var, normalizes_to_zero_var and
\* equal_var, give what the constant-time ones give.
THEOREM VariableTimeAgrees ==
  ASSUME Wider
  PROVE  Spec => [](/\ NormalizeVar(x.l) = Normalize(x.l)
                    /\ NormalizesToZeroVar(x.l) = NormalizesToZero(x.l)
                    /\ x.m = 1 /\ y.m + 2 <= MaxMagnitude => EqualVar(x.l, y.l) = Equal(x.l, y.l))
<1>1. IInv => /\ NormalizeVar(x.l) = Normalize(x.l)
              /\ NormalizesToZeroVar(x.l) = NormalizesToZero(x.l)
              /\ x.m = 1 /\ y.m + 2 <= MaxMagnitude => EqualVar(x.l, y.l) = Equal(x.l, y.l)
  BY FormsAgree
<1> QED BY <1>1, Invariance, PTL

-----------------------------------------------------------------------------
\* Numbers: powers of two, and sums of terms.

\* 2^0 = 1: the empty set has one subset.
LEMMA PowerZero == 2^0 = 1
<1>1. IsFiniteSet({}) /\ Cardinality({}) = 0
  BY FS_EmptySet
<1>2. Cardinality(SUBSET {}) = 2^0
  BY <1>1, FS_SUBSET
<1>3. SUBSET {} = {{}}
  OBVIOUS
<1>4. Cardinality({{}}) = 1
  BY FS_Singleton
<1> QED BY <1>2, <1>3, <1>4

\* 2^(n+1) = 2 * 2^n: the subsets of 1 .. n + 1 without n + 1 and with it.
LEMMA PowerNext ==
  ASSUME NEW n \in Nat
  PROVE  2^(n + 1) = 2 * 2^n
<1> DEFINE D == 1 .. n
           E == 1 .. n + 1
           X == SUBSET D
           Y == {s \cup {n + 1} : s \in X}
<1>1. IsFiniteSet(X) /\ Cardinality(X) = 2^n
  <2>1. IsFiniteSet(D) /\ Cardinality(D) = n
    <3>1. 1 \in Int /\ n \in Int
      OBVIOUS
    <3>2. Cardinality(D) = IF 1 > n THEN 0 ELSE n - 1 + 1
      BY <3>1, FS_Interval
    <3> QED BY <3>1, <3>2, FS_Interval
  <2> HIDE DEF D
  <2> QED BY <2>1, FS_SUBSET
<1>2. Cardinality(SUBSET E) = 2^(n + 1)
  <2>1. IsFiniteSet(E) /\ Cardinality(E) = n + 1
    <3>1. 1 \in Int /\ n + 1 \in Int
      OBVIOUS
    <3>2. Cardinality(E) = IF 1 > n + 1 THEN 0 ELSE (n + 1) - 1 + 1
      BY <3>1, FS_Interval
    <3> QED BY <3>1, <3>2, FS_Interval
  <2> HIDE DEF E
  <2> QED BY <2>1, FS_SUBSET
<1>3. E = D \cup {n + 1} /\ n + 1 \notin D
  OBVIOUS
<1> HIDE DEF D, E
<1>4. SUBSET E = X \cup Y
  <2>1. ASSUME NEW s \in SUBSET E PROVE s \in X \cup Y
    <3>1. CASE n + 1 \in s
      <4>1. s \ {n + 1} \in X /\ s = (s \ {n + 1}) \cup {n + 1}
        BY <1>3, <3>1
      <4> QED BY <4>1
    <3>2. CASE n + 1 \notin s
      BY <1>3, <3>2
    <3> QED BY <3>1, <3>2
  <2>2. X \cup Y \subseteq SUBSET E
    BY <1>3
  <2> QED BY <2>1, <2>2
<1>5. X \cap Y = {}
  BY <1>3
<1>6. ExistsBijection(X, Y)
  <2> DEFINE f == [s \in X |-> s \cup {n + 1}]
  <2>1. f \in [X -> Y]
    OBVIOUS
  <2>2. \A s, t \in X : f[s] = f[t] => s = t
    BY <1>3
  <2>3. \A r \in Y : \E s \in X : f[s] = r
    OBVIOUS
  <2> HIDE DEF f
  <2>4. f \in Injection(X, Y)
    <3>1. DOMAIN f = X
      BY <2>1
    <3> QED BY <2>1, <2>2, <3>1, Zenon DEF Injection, IsInjective
  <2>5. f \in Surjection(X, Y)
    BY <2>1, <2>3, Zenon DEF Surjection
  <2>6. f \in Bijection(X, Y)
    BY <2>4, <2>5, Zenon DEF Bijection
  <2> QED BY <2>6, Zenon DEF ExistsBijection
<1>7. IsFiniteSet(Y) /\ Cardinality(Y) = 2^n
  BY <1>1, <1>6, FS_Bijection
<1> HIDE DEF X, Y
<1>8. Cardinality(X \cup Y) = Cardinality(X) + Cardinality(Y) - Cardinality(X \cap Y)
  BY <1>1, <1>7, FS_Union
<1>9. Cardinality(X \cap Y) = 0
  BY <1>5, FS_EmptySet
<1>10. 2^n \in Nat
  BY PowerIsNat
<1> DEFINE a == 2^n
           b == 2^(n + 1)
           z == Cardinality(X \cap Y)
<1>11. a \in Nat /\ z = 0 /\ b = a + a - z
  BY <1>1, <1>2, <1>4, <1>7, <1>8, <1>9, <1>10
<1> HIDE DEF a, b, z
<1>12. b = 2 * a
  BY <1>11
<1> QED BY <1>12 DEF a, b

\* The law of exponents.
LEMMA PowerSum ==
  ASSUME NEW m \in Nat, NEW n \in Nat
  PROVE  2^(m + n) = 2^m * 2^n
<1> DEFINE H == {k \in Nat : 2^(m + k) = 2^m * 2^k}
<1>1. 0 \in H
  <2>1. m + 0 = m /\ 2^m \in Nat
    BY PowerIsNat
  <2> QED BY <2>1, PowerZero
<1>2. ASSUME NEW k \in H PROVE k + 1 \in H
  <2>1. m + (k + 1) = (m + k) + 1 /\ m + k \in Nat
    OBVIOUS
  <2>2. 2^((m + k) + 1) = 2 * 2^(m + k) /\ 2^(k + 1) = 2 * 2^k
    BY <2>1, PowerNext
  <2> DEFINE a == 2^m
             b == 2^k
  <2>3. a \in Nat /\ b \in Nat /\ 2^(m + k) = a * b
    BY PowerIsNat
  <2> HIDE DEF a, b
  <2>4. 2 * (a * b) = a * (2 * b)
    BY <2>3
  <2>5. 2^(m + (k + 1)) = 2^m * 2^(k + 1)
    BY <2>1, <2>2, <2>3, <2>4 DEF a, b
  <2> QED BY <2>5
<1> HIDE DEF H
<1>3. H = Nat
  BY <1>1, <1>2, Induction DEF H
<1> QED BY <1>3 DEF H

-----------------------------------------------------------------------------
\* The partial sums are the same whatever the length.
LEMMA TotalUnique ==
  ASSUME NEW f, NEW n \in Nat, NEW m \in Nat, NEW s, IsTotal(s, f, n), NEW r, IsTotal(r, f, m)
  PROVE  \A j \in Nat : j <= n /\ j <= m => s[j] = r[j]
<1> DEFINE H == {j \in Nat : j <= n /\ j <= m => s[j] = r[j]}
<1>1. 0 \in H
  BY DEF IsTotal
<1>2. ASSUME NEW j \in H PROVE j + 1 \in H
  <2> SUFFICES ASSUME j + 1 <= n, j + 1 <= m PROVE s[j + 1] = r[j + 1]
    OBVIOUS
  <2>1. j + 1 \in 0 .. n /\ j + 1 \in 0 .. m /\ (j + 1) - 1 = j /\ j + 1 # 0 /\ j <= n /\ j <= m
    OBVIOUS
  <2>2. s[j + 1] = s[j] + f[j] /\ r[j + 1] = r[j] + f[j]
    BY <2>1 DEF IsTotal
  <2> QED BY <2>1, <2>2
<1> HIDE DEF H
<1>3. H = Nat
  BY <1>1, <1>2, Induction DEF H
<1> QED BY <1>3 DEF H

\* A sum, term by term.
LEMMA TotalStep ==
  ASSUME NEW f, NEW n \in Nat
  PROVE  Total(f, 0) = 0 /\ Total(f, n + 1) = Total(f, n) + f[n]
<1>1. PICK s : IsTotal(s, f, n) /\ Total(f, n) = s[n]
  BY TotalExists
<1>2. PICK r : IsTotal(r, f, n + 1) /\ Total(f, n + 1) = r[n + 1]
  <2>1. n + 1 \in Nat
    OBVIOUS
  <2> QED BY <2>1, TotalExists
<1>3. PICK z : IsTotal(z, f, 0) /\ Total(f, 0) = z[0]
  BY TotalExists
<1>4. z[0] = 0
  BY <1>3 DEF IsTotal
<1>5. n + 1 \in 0 .. n + 1 /\ (n + 1) - 1 = n /\ n + 1 # 0 /\ n <= n /\ n <= n + 1 /\ n + 1 \in Nat
  OBVIOUS
<1>6. r[n + 1] = r[n] + f[n]
  BY <1>2, <1>5 DEF IsTotal
<1>7. s[n] = r[n]
  BY <1>1, <1>2, <1>5, TotalUnique
<1> QED BY <1>1, <1>2, <1>3, <1>4, <1>6, <1>7

\* What grows by the terms is the sum.
LEMMA TotalIs ==
  ASSUME NEW n \in Nat, NEW f, NEW h, h[0] = 0, \A j \in 0 .. n - 1 : h[j + 1] = h[j] + f[j]
  PROVE  \A j \in 0 .. n : Total(f, j) = h[j]
<1> DEFINE H == {j \in Nat : j <= n => Total(f, j) = h[j]}
<1>1. 0 \in H
  BY TotalStep
<1>2. ASSUME NEW j \in H PROVE j + 1 \in H
  <2> SUFFICES ASSUME j + 1 <= n PROVE Total(f, j + 1) = h[j + 1]
    OBVIOUS
  <2>1. j \in 0 .. n - 1 /\ j <= n
    OBVIOUS
  <2> QED BY <2>1, TotalStep
<1> HIDE DEF H
<1>3. H = Nat
  BY <1>1, <1>2, Induction DEF H
<1> QED BY <1>3 DEF H

\* A sum of integers is one.
LEMMA TotalInt ==
  ASSUME NEW n \in Nat, NEW f, \A j \in 0 .. n - 1 : f[j] \in Int
  PROVE  \A j \in 0 .. n : Total(f, j) \in Int
<1> DEFINE H == {j \in Nat : j <= n => Total(f, j) \in Int}
<1>1. 0 \in H
  BY TotalStep
<1>2. ASSUME NEW j \in H PROVE j + 1 \in H
  <2> SUFFICES ASSUME j + 1 <= n PROVE Total(f, j + 1) \in Int
    OBVIOUS
  <2>1. j \in 0 .. n - 1 /\ j <= n
    OBVIOUS
  <2> QED BY <2>1, TotalStep
<1> HIDE DEF H
<1>3. H = Nat
  BY <1>1, <1>2, Induction DEF H
<1> QED BY <1>3 DEF H

\* Sums of as many equal terms are equal.
LEMMA TotalSame ==
  ASSUME NEW n \in Nat, NEW f, NEW g, \A j \in 0 .. n - 1 : f[j] = g[j]
  PROVE  Total(f, n) = Total(g, n)
<1> DEFINE h == [j \in 0 .. n |-> Total(g, j)]
<1>1. h[0] = 0
  BY TotalStep
<1>2. ASSUME NEW j \in 0 .. n - 1 PROVE h[j + 1] = h[j] + f[j]
  <2>1. j \in 0 .. n /\ j + 1 \in 0 .. n /\ j \in Nat
    OBVIOUS
  <2>2. h[j + 1] = Total(g, j + 1) /\ h[j] = Total(g, j) /\ f[j] = g[j]
    BY <2>1
  <2> HIDE DEF h
  <2> QED BY <2>1, <2>2, TotalStep
<1>3. h[n] = Total(g, n) /\ n \in 0 .. n
  OBVIOUS
<1> HIDE DEF h
<1> QED BY <1>1, <1>2, <1>3, TotalIs

\* Sums are linear.
LEMMA TotalLinear ==
  ASSUME NEW n \in Nat, NEW f, NEW g, NEW h, NEW p \in Int, NEW q \in Int,
         \A j \in 0 .. n - 1 : f[j] \in Int /\ g[j] \in Int /\ h[j] = p * f[j] + q * g[j]
  PROVE  Total(h, n) = p * Total(f, n) + q * Total(g, n)
<1> DEFINE r == [j \in 0 .. n |-> p * Total(f, j) + q * Total(g, j)]
<1>1. \A j \in 0 .. n : Total(f, j) \in Int /\ Total(g, j) \in Int
  BY TotalInt
<1>2. r[0] = 0
  BY TotalStep
<1>3. ASSUME NEW j \in 0 .. n - 1 PROVE r[j + 1] = r[j] + h[j]
  <2>1. j \in 0 .. n /\ j + 1 \in 0 .. n /\ j \in Nat
    OBVIOUS
  <2>2. Total(f, j + 1) = Total(f, j) + f[j] /\ Total(g, j + 1) = Total(g, j) + g[j]
    BY <2>1, TotalStep
  <2> DEFINE a == Total(f, j)
             b == Total(g, j)
             c == f[j]
             d == g[j]
  <2>3. a \in Int /\ b \in Int /\ c \in Int /\ d \in Int /\ h[j] = p * c + q * d
    BY <1>1, <2>1
  <2>4. r[j + 1] = p * (a + c) + q * (b + d) /\ r[j] = p * a + q * b
    BY <2>1, <2>2
  <2> HIDE DEF a, b, c, d, r
  <2>5. p * (a + c) = p * a + p * c /\ q * (b + d) = q * b + q * d
    BY <2>3
  <2>6. p * a \in Int /\ p * c \in Int /\ q * b \in Int /\ q * d \in Int
    BY <2>3
  <2> QED BY <2>3, <2>4, <2>5, <2>6
<1>4. r[n] = p * Total(f, n) + q * Total(g, n) /\ n \in 0 .. n
  OBVIOUS
<1> HIDE DEF r
<1> QED BY <1>2, <1>3, <1>4, TotalIs

\* A sum of terms that are not negative is at least each of them.
LEMMA TotalNat ==
  ASSUME NEW n \in Nat, NEW f, \A j \in 0 .. n - 1 : f[j] \in Nat
  PROVE  /\ \A j \in 0 .. n : Total(f, j) \in Nat
         /\ \A i \in 0 .. n - 1 : f[i] <= Total(f, n)
<1>1. \A j \in 0 .. n : Total(f, j) \in Nat
  <2> DEFINE H == {j \in Nat : j <= n => Total(f, j) \in Nat}
  <2>1. 0 \in H
    BY TotalStep
  <2>2. ASSUME NEW j \in H PROVE j + 1 \in H
    <3> SUFFICES ASSUME j + 1 <= n PROVE Total(f, j + 1) \in Nat
      OBVIOUS
    <3>1. j \in 0 .. n - 1 /\ j <= n
      OBVIOUS
    <3> QED BY <3>1, TotalStep
  <2> HIDE DEF H
  <2>3. H = Nat
    BY <2>1, <2>2, Induction DEF H
  <2> QED BY <2>3 DEF H
<1>2. ASSUME NEW i \in 0 .. n - 1 PROVE f[i] <= Total(f, n)
  <2> DEFINE H == {j \in Nat : i < j /\ j <= n => f[i] <= Total(f, j)}
  <2>1. 0 \in H
    OBVIOUS
  <2>2. ASSUME NEW j \in H PROVE j + 1 \in H
    <3> SUFFICES ASSUME i < j + 1, j + 1 <= n PROVE f[i] <= Total(f, j + 1)
      OBVIOUS
    <3>1. j \in 0 .. n - 1 /\ j <= n /\ j \in 0 .. n
      OBVIOUS
    <3>2. Total(f, j + 1) = Total(f, j) + f[j] /\ Total(f, j) \in Nat /\ f[j] \in Nat /\ f[i] \in Nat
      BY <1>1, <3>1, TotalStep
    <3>3. CASE i = j
      BY <3>2, <3>3
    <3>4. CASE i < j
      BY <3>1, <3>2, <3>4
    <3> QED BY <3>3, <3>4
  <2> HIDE DEF H
  <2>3. H = Nat
    BY <2>1, <2>2, Induction DEF H
  <2> QED BY <2>3 DEF H
<1> QED BY <1>1, <1>2

-----------------------------------------------------------------------------
\* What the limbs are worth, and what a pass of carries leaves of it.

\* Quotient and remainder are determined.
LEMMA DivisionUnique ==
  ASSUME NEW d \in Nat \ {0}, NEW q \in Int, NEW r \in 0 .. d - 1, NEW a, a = d * q + r
  PROVE  a \div d = q /\ a % d = r
<1> DEFINE p == a \div d
           s == a % d
<1>1. a \in Int
  OBVIOUS
<1>2. p \in Int /\ s \in 0 .. d - 1 /\ a = d * p + s
  BY <1>1
<1> HIDE DEF p, s
<1>3. d * (q - p) = s - r
  <2>1. d * (q - p) = d * q - d * p
    BY <1>2
  <2> QED BY <1>2, <2>1
<1>4. CASE q > p
  <2>1. q - p \in Nat /\ 1 <= q - p
    BY <1>2, <1>4
  <2>2. 1 * d <= (q - p) * d
    BY <2>1, Times
  <2> QED BY <1>2, <1>3, <2>1, <2>2
<1>5. CASE q < p
  <2>1. p - q \in Nat /\ 1 <= p - q
    BY <1>2, <1>5
  <2>2. 1 * d <= (p - q) * d
    BY <2>1, Times
  <2>3. (p - q) * d = 0 - d * (q - p)
    BY <1>2
  <2> QED BY <1>2, <1>3, <2>1, <2>2, <2>3
<1>6. CASE q = p
  BY <1>2, <1>3, <1>6
<1>7. q = p /\ r = s
  BY <1>2, <1>3, <1>4, <1>5, <1>6
<1> QED BY <1>7 DEF p, s

\* Numbers that differ by a multiple of the prime.
Cong(a, b) == \E k \in Int : a = b + k * Prime

\* The weight of a limb, and the share of the sum that the limbs below k have in the value.
W(i) == 2^(B * i)
Part(a, k) == Total([i \in Limb |-> a[i] * W(i)], k)
\* What 2^Bits is worth modulo the prime.
CC == C0 + 2^S * 2^B

\* The weights are the powers of 2^B.
LEMMA Weights ==
  /\ \A i \in Nat : W(i) \in Nat \ {0} /\ W(i + 1) = W(i) * 2^B
  /\ \A i, j \in Nat : W(i + j) = W(i) * W(j)
  /\ W(0) = 1 /\ W(1) = 2^B /\ W(2) = 2^B * 2^B
  /\ 2^Bits = W(N - 1) * 2^T /\ W(N) = 2^Bits * 2^(B - T)
  /\ 2^Bits \in Nat \ {0} /\ 2^B = 2^T * 2^(B - T)
<1>0. /\ B \in Nat /\ T \in Nat /\ T <= B /\ N \in Nat /\ N >= 4
  BY ShapeAssumption
<1>1. ASSUME NEW i \in Nat, NEW j \in Nat
      PROVE  W(i + j) = W(i) * W(j) /\ W(i) \in Nat \ {0}
  <2>1. B * (i + j) = B * i + B * j /\ B * i \in Nat /\ B * j \in Nat
    BY <1>0
  <2>2. 2^(B * (i + j)) = 2^(B * i) * 2^(B * j)
    BY <2>1, PowerSum
  <2>3. 2^(B * i) \in Nat \ {0}
    BY <2>1, PowerIsNat
  <2> QED BY <2>2, <2>3 DEF W
<1>2. W(0) = 1 /\ W(1) = 2^B
  <2>1. B * 0 = 0 /\ B * 1 = B
    BY <1>0
  <2> QED BY <2>1, PowerZero DEF W
<1>3. \A i \in Nat : W(i + 1) = W(i) * 2^B
  BY <1>1, <1>2
<1>4. W(2) = 2^B * 2^B
  <2>1. 2 = 1 + 1 /\ 1 \in Nat
    OBVIOUS
  <2> QED BY <1>2, <1>3, <2>1
<1>5. 2^Bits = W(N - 1) * 2^T /\ 2^Bits \in Nat \ {0}
  <2>1. B * (N - 1) \in Nat /\ T \in Nat
    BY <1>0
  <2> DEFINE b == B * (N - 1)
  <2>2. b + T \in Nat /\ b \in Nat /\ Bits = b + T
    BY <1>0, <2>1 DEF Bits
  <2> HIDE DEF b
  <2>3. 2^(b + T) = 2^b * 2^T /\ 2^(b + T) \in Nat \ {0}
    BY <1>0, <2>2, PowerSum, PowerIsNat
  <2> QED BY <2>2, <2>3 DEF b, W
<1>6. 2^B = 2^T * 2^(B - T)
  <2>1. B - T \in Nat /\ B = T + (B - T)
    BY <1>0
  <2>2. 2^(T + (B - T)) = 2^T * 2^(B - T)
    BY <1>0, <2>1, PowerSum
  <2> QED BY <2>1, <2>2
<1>7. W(N) = 2^Bits * 2^(B - T)
  <2>1. N - 1 \in Nat /\ N = (N - 1) + 1
    BY <1>0
  <2>2. W((N - 1) + 1) = W(N - 1) * 2^B
    BY <1>3, <2>1
  <2> DEFINE w == W(N - 1)
             t == 2^T
             u == 2^(B - T)
  <2>3. w \in Nat /\ t \in Nat /\ u \in Nat
    BY <1>1, <2>1, Sizes
  <2>4. W(N) = w * (t * u) /\ 2^Bits = w * t
    BY <1>5, <1>6, <2>1, <2>2
  <2> HIDE DEF w, t, u
  <2>5. w * (t * u) = (w * t) * u
    BY <2>3
  <2>6. W(N) = 2^Bits * u
    BY <2>4, <2>5
  <2> QED BY <2>6 DEF u
<1> QED BY <1>1, <1>2, <1>3, <1>4, <1>5, <1>6, <1>7

\* The weight of a limb is a positive number.
LEMMA WeightOfLimb ==
  ASSUME NEW i \in Limb
  PROVE  i \in Nat /\ W(i) \in Nat /\ W(i) \in Int /\ W(i) # 0
<1>1. i \in Nat
  BY TopIsLimb
<1>2. W(i) \in Nat \ {0}
  BY <1>1, Weights
<1> QED BY <1>1, <1>2

\* Larger limbs weigh more.
LEMMA WeightMono ==
  ASSUME NEW i \in Nat, NEW j \in Nat, i <= j
  PROVE  W(i) <= W(j) /\ W(i) \in Nat /\ W(j) \in Nat
<1>1. B * i \in Nat /\ B * j \in Nat /\ B * i <= B * j
  BY ShapeAssumption, Times
<1> QED BY <1>1, PowerMono, PowerIsNat DEF W

\* A value, limb by limb.
LEMMA Parts ==
  ASSUME NEW a, \A i \in Limb : a[i] \in Int
  PROVE  /\ Value(a) = Part(a, N) /\ Value(a) \in Int /\ Part(a, 0) = 0
         /\ \A k \in 0 .. N : Part(a, k) \in Int
         /\ \A k \in Limb : Part(a, k + 1) = Part(a, k) + a[k] * W(k)
         /\ Part(a, N) = Part(a, N - 1) + a[N - 1] * W(N - 1)
<1> DEFINE f == [i \in Limb |-> a[i] * W(i)]
<1>0. N \in Nat /\ N >= 4 /\ Limb = 0 .. N - 1
  BY TopIsLimb
<1>1. \A i \in 0 .. N - 1 : f[i] \in Int
  <2> TAKE i \in 0 .. N - 1
  <2>1. a[i] \in Int /\ W(i) \in Int /\ f[i] = a[i] * W(i)
    BY <1>0, WeightOfLimb
  <2> QED BY <2>1
<1>2. \A k \in Nat : Part(a, k) = Total(f, k)
  BY DEF Part
<1>3. Value(a) = Part(a, N)
  BY DEF Value, Part, W
<1>4. ASSUME NEW k \in Limb PROVE Part(a, k + 1) = Part(a, k) + a[k] * W(k)
  <2>1. f[k] = a[k] * W(k) /\ k \in Nat
    BY <1>0
  <2> HIDE DEF f
  <2>2. k + 1 \in Nat
    BY <2>1
  <2> QED BY <1>2, <2>1, <2>2, TotalStep
<1> HIDE DEF f
<1>5. Part(a, 0) = 0 /\ \A k \in 0 .. N : Part(a, k) \in Int
  <2>1. \A k \in 0 .. N : Total(f, k) \in Int
    BY <1>0, <1>1, TotalInt, Zenon
  <2>2. \A k \in 0 .. N : k \in Nat
    BY <1>0
  <2>3. 0 \in Nat /\ Total(f, 0) = 0
    BY TotalStep
  <2> QED BY <1>2, <2>1, <2>2, <2>3
<1>6. (N - 1) + 1 = N /\ N - 1 \in Limb /\ N \in 0 .. N
  BY <1>0
<1> QED BY <1>3, <1>4, <1>5, <1>6

\* The value is linear in the limbs.
LEMMA ValueLinear ==
  ASSUME NEW f, NEW g, NEW h, NEW p \in Int, NEW q \in Int,
         \A i \in Limb : f[i] \in Int /\ g[i] \in Int /\ h[i] = p * f[i] + q * g[i]
  PROVE  Value(h) = p * Value(f) + q * Value(g)
<1> DEFINE ff == [i \in Limb |-> f[i] * W(i)]
           gg == [i \in Limb |-> g[i] * W(i)]
           hh == [i \in Limb |-> h[i] * W(i)]
<1>0. N \in Nat /\ Limb = 0 .. N - 1
  BY TopIsLimb
<1>1. ASSUME NEW i \in 0 .. N - 1 PROVE ff[i] \in Int /\ gg[i] \in Int /\ hh[i] = p * ff[i] + q * gg[i]
  <2> DEFINE a == f[i]
             b == g[i]
             w == W(i)
  <2>1. a \in Int /\ b \in Int /\ w \in Int /\ h[i] = p * a + q * b
    BY <1>0, WeightOfLimb
  <2>2. ff[i] = a * w /\ gg[i] = b * w /\ hh[i] = h[i] * w
    BY <1>0
  <2> HIDE DEF a, b, w, ff, gg, hh
  <2>3. (p * a + q * b) * w = p * (a * w) + q * (b * w)
    BY <2>1
  <2>4. a * w \in Int /\ b * w \in Int
    BY <2>1
  <2> QED BY <2>1, <2>2, <2>3, <2>4
<1>2. Value(f) = Total(ff, N) /\ Value(g) = Total(gg, N) /\ Value(h) = Total(hh, N)
  BY DEF Value, W
<1> HIDE DEF ff, gg, hh
<1>3. Total(hh, N) = p * Total(ff, N) + q * Total(gg, N)
  <2>1. \A i \in 0 .. N - 1 : ff[i] \in Int /\ gg[i] \in Int /\ hh[i] = p * ff[i] + q * gg[i]
    BY <1>1
  <2>2. N \in Nat
    BY <1>0
  <2> QED BY <2>1, <2>2, TotalLinear
<1> QED BY <1>2, <1>3

\* The same limbs are worth the same.
LEMMA ValueSame ==
  ASSUME NEW f, NEW g, \A i \in Limb : f[i] = g[i]
  PROVE  Value(f) = Value(g)
<1>1. [i \in Limb |-> f[i] * 2^(B * i)] = [i \in Limb |-> g[i] * 2^(B * i)]
  OBVIOUS
<1> QED BY <1>1 DEF Value

\* What grows by the limbs is the value.
LEMMA ValueIs ==
  ASSUME NEW a, NEW h, h[0] = 0, \A i \in Limb : h[i + 1] = h[i] + a[i] * W(i)
  PROVE  Value(a) = h[N]
<1> DEFINE f == [i \in Limb |-> a[i] * W(i)]
<1>0. N \in Nat /\ Limb = 0 .. N - 1 /\ N \in 0 .. N
  BY TopIsLimb
<1>1. \A j \in 0 .. N - 1 : h[j + 1] = h[j] + f[j]
  BY <1>0
<1>2. Value(a) = Total(f, N)
  BY DEF Value, W
<1> HIDE DEF f
<1>3. \A j \in 0 .. N : Total(f, j) = h[j]
  <2>1. N \in Nat
    BY <1>0
  <2> QED BY <1>1, <2>1, TotalIs
<1> QED BY <1>0, <1>2, <1>3

\* The limbs of C are worth C0 + 2^S * 2^B.
LEMMA ValueOfC ==
  Value([i \in Limb |-> C(i)]) = CC
<1> DEFINE c == [i \in Limb |-> C(i)]
           h == [j \in 0 .. N |-> IF j = 0 THEN 0 ELSE IF j = 1 THEN C0 ELSE CC]
<1>0. /\ N \in Nat /\ N >= 4 /\ Limb = 0 .. N - 1 /\ C0 \in Nat /\ 2^S \in Nat /\ 2^B \in Nat
      /\ C(0) = C0 /\ C(1) = 2^S /\ \A i \in Limb : i >= 2 => C(i) = 0
  BY TopIsLimb, Sizes, ShapeAssumption
<1>1. ASSUME NEW i \in Limb PROVE h[i + 1] = h[i] + c[i] * W(i)
  <2>1. CASE i = 0
    BY <1>0, <2>1, Weights
  <2>2. CASE i = 1
    <3>1. h[i + 1] = CC /\ h[i] = C0 /\ c[i] = 2^S /\ W(i) = 2^B
      BY <1>0, <2>2, Weights
    <3> HIDE DEF h, c
    <3> QED BY <3>1 DEF CC
  <2>3. CASE i >= 2
    <3>1. h[i + 1] = CC /\ h[i] = CC /\ c[i] = 0 /\ W(i) \in Nat
      BY <1>0, <2>3, WeightOfLimb
    <3> HIDE DEF h, c
    <3>2. CC \in Int
      BY <1>0 DEF CC
    <3> QED BY <3>1, <3>2
  <2> QED BY <1>0, <2>1, <2>2, <2>3
<1>2. h[0] = 0 /\ h[N] = CC
  BY <1>0
<1> HIDE DEF h, c
<1>3. Value(c) = CC
  BY <1>1, <1>2, ValueIs
<1> QED BY <1>3 DEF c

\* Limbs that are full make 2^Bits - 1, and the limbs that negate subtracts from make the prime.
LEMMA ValueOfFull ==
  /\ Value([i \in Limb |-> Full(i)]) = 2^Bits - 1
  /\ Value([i \in Limb |-> PLimb(i)]) = Prime
  /\ Prime = 2^Bits - CC /\ CC \in Nat
<1> DEFINE c == [i \in Limb |-> Full(i)]
           h == [j \in 0 .. N |-> IF j = N THEN 2^Bits - 1 ELSE W(j) - 1]
           u == [i \in Limb |-> IF i = 0 THEN 1 ELSE 0]
           v == [j \in 0 .. N |-> IF j = 0 THEN 0 ELSE 1]
           d == [i \in Limb |-> C(i)]
           b == [i \in Limb |-> c[i] + u[i]]
           p == [i \in Limb |-> PLimb(i)]
<1>0. /\ N \in Nat /\ N >= 4 /\ Limb = 0 .. N - 1 /\ 2^T \in Nat /\ 2^B \in Nat /\ 2^Bits \in Nat
      /\ \A i \in Limb : Full(i) = IF i = N - 1 THEN 2^T - 1 ELSE 2^B - 1
      /\ \A i \in Limb : Full(i) \in Nat /\ C(i) \in Nat
      /\ \A i \in Limb : PLimb(i) = Full(i) + (IF i = 0 THEN 1 ELSE 0) - C(i)
  <2>1. \A i \in Limb : PLimb(i) = Full(i) + (IF i = 0 THEN 1 ELSE 0) - C(i)
    BY TopIsLimb, Sizes, ShapeAssumption DEF PLimb, Full, C
  <2> QED BY <2>1, TopIsLimb, Sizes, Weights, LimbSizes DEF Full
<1>1. ASSUME NEW i \in Limb PROVE h[i + 1] = h[i] + c[i] * W(i)
  <2> DEFINE w == W(i)
             k == IF i = N - 1 THEN 2^T ELSE 2^B
  <2>1. w \in Nat /\ k \in Nat
    BY <1>0, WeightOfLimb
  <2>2. h[i] = w - 1 /\ c[i] = k - 1
    <3>1. i \in 0 .. N /\ i # N
      BY <1>0
    <3>2. Full(i) = k - 1
      BY <1>0
    <3> QED BY <3>1, <3>2
  <2>3. h[i + 1] = w * k - 1
    <3>1. CASE i = N - 1
      BY <1>0, <3>1, Weights
    <3>2. CASE i # N - 1
      <4>1. i + 1 \in 0 .. N /\ i + 1 # N /\ i \in Nat
        BY <1>0, <3>2
      <4> QED BY <3>2, <4>1, Weights
    <3> QED BY <3>1, <3>2
  <2> HIDE DEF w, k, h, c
  <2>4. (k - 1) * w = w * k - w
    BY <2>1
  <2>5. w * k \in Nat
    BY <2>1
  <2>6. h[i + 1] = h[i] + c[i] * w
    BY <2>1, <2>2, <2>3, <2>4, <2>5
  <2> QED BY <2>6 DEF w
<1>2. h[0] = 0 /\ h[N] = 2^Bits - 1
  BY <1>0, Weights
<1>3. Value(c) = 2^Bits - 1
  <2> HIDE DEF h, c
  <2> QED BY <1>1, <1>2, ValueIs
<1>4. Value(u) = 1
  <2>1. ASSUME NEW i \in Limb PROVE v[i + 1] = v[i] + u[i] * W(i)
    <3>1. CASE i = 0
      BY <1>0, <3>1, Weights
    <3>2. CASE i # 0
      <4>1. u[i] = 0 /\ v[i] = 1 /\ v[i + 1] = 1
        BY <1>0, <3>2
      <4> HIDE DEF u, v
      <4> QED BY <4>1, WeightOfLimb
    <3> QED BY <3>1, <3>2
  <2>2. v[0] = 0 /\ v[N] = 1
    BY <1>0
  <2> HIDE DEF u, v
  <2> QED BY <2>1, <2>2, ValueIs
<1>5. Value(b) = 1 * Value(c) + 1 * Value(u)
  <2>1. \A i \in Limb : c[i] \in Int /\ u[i] \in Int /\ b[i] = 1 * c[i] + 1 * u[i]
    <3> TAKE i \in Limb
    <3>1. c[i] = Full(i) /\ Full(i) \in Nat /\ u[i] \in {0, 1} /\ b[i] = c[i] + u[i]
      BY <1>0
    <3> HIDE DEF b, c, u
    <3> QED BY <3>1
  <2>2. 1 \in Int
    OBVIOUS
  <2> HIDE DEF b, c, u
  <2> QED BY <2>1, <2>2, ValueLinear
<1>6. Value(p) = 1 * Value(b) + (-1) * Value(d)
  <2>1. \A i \in Limb : b[i] \in Int /\ d[i] \in Int /\ p[i] = 1 * b[i] + (-1) * d[i]
    <3> TAKE i \in Limb
    <3> DEFINE e == IF i = 0 THEN 1 ELSE 0
    <3>1. /\ Full(i) \in Nat /\ C(i) \in Nat /\ e \in Nat /\ PLimb(i) = Full(i) + e - C(i)
          /\ b[i] = Full(i) + e /\ d[i] = C(i) /\ p[i] = PLimb(i)
      BY <1>0
    <3> HIDE DEF b, d, p, e
    <3> QED BY <3>1
  <2>2. 1 \in Int /\ -1 \in Int
    OBVIOUS
  <2> HIDE DEF b, d, p
  <2> QED BY <2>1, <2>2, ValueLinear
<1>7. Value(d) = CC
  BY ValueOfC
<1>8. CC \in Nat /\ Prime = 2^Bits - CC
  <2>1. B \in Nat /\ S \in Nat /\ C0 \in Nat
    BY ShapeAssumption
  <2>2. 2^(B + S) = 2^S * 2^B
    <3>1. B + S = S + B
      BY <2>1
    <3> QED BY <2>1, <3>1, PowerSum
  <2>3. 2^S * 2^B \in Nat /\ 2^Bits \in Nat
    <3> DEFINE a == 2^S
               e == 2^B
    <3>1. a \in Nat /\ e \in Nat /\ 2^Bits \in Nat
      BY <1>0, Sizes
    <3> HIDE DEF a, e
    <3>2. a * e \in Nat
      BY <3>1
    <3> QED BY <3>1, <3>2 DEF a, e
  <2> QED BY <2>1, <2>2, <2>3 DEF CC, Prime
<1> HIDE DEF b, c, d, p, u, v, h
<1>9. Value(p) = Prime
  <2>1. Value(b) = 2^Bits
    BY <1>0, <1>3, <1>4, <1>5
  <2> DEFINE e == 2^Bits
  <2>2. e \in Nat /\ Value(b) = e /\ Prime = e - CC
    BY <1>0, <1>8, <2>1
  <2> HIDE DEF e
  <2> QED BY <1>6, <1>7, <1>8, <2>2
<1> QED BY <1>3, <1>8, <1>9 DEF c, p

-----------------------------------------------------------------------------
\* The prime, and the value of what normalize_weak and normalize give.

\* The prime is close to 2^Bits, in which the top limb has room to spare.
LEMMA PrimeSizes ==
  /\ CC \in Nat \ {0} /\ 2 * CC <= W(2) /\ W(2) \in Nat /\ W(2) <= W(N - 1) /\ W(N - 1) \in Nat \ {0}
  /\ 2^Bits \in Nat /\ 5 * W(N - 1) <= 2^Bits
  /\ Prime \in Nat \ {0} /\ Prime = 2^Bits - CC /\ 8 * CC <= Prime
<1> DEFINE b == 2^B
           s == 2^S
<1>1. b \in Nat \ {0} /\ s \in Nat \ {0} /\ C0 \in Nat \ {0} /\ 2 * C0 <= b /\ 2 * s < b /\ W(2) = b * b /\ CC = C0 + s * b
  BY Sizes, ShapeAssumption, Weights DEF CC
<1> HIDE DEF b, s
<1>2. CC \in Nat \ {0} /\ 2 * CC <= W(2) /\ W(2) \in Nat
  <2>1. (2 * s) * b <= (b - 1) * b /\ s * b \in Nat /\ (2 * s) * b = 2 * (s * b)
    <3>1. 2 * s \in Nat /\ b - 1 \in Nat /\ 2 * s <= b - 1
      BY <1>1
    <3>2. (2 * s) * b <= (b - 1) * b
      BY <1>1, <3>1, Times
    <3> QED BY <1>1, <3>2
  <2>2. (b - 1) * b = b * b - b /\ b * b \in Nat
    BY <1>1
  <2> QED BY <1>1, <2>1, <2>2
<1>3. W(2) <= W(N - 1) /\ W(N - 1) \in Nat \ {0}
  <2>1. 2 \in Nat /\ N - 1 \in Nat /\ 2 <= N - 1 /\ N - 1 \in Limb
    BY TopIsLimb
  <2> QED BY <2>1, WeightMono, WeightOfLimb
<1>4. 2^Bits \in Nat /\ 5 * W(N - 1) <= 2^Bits
  <2> DEFINE w == W(N - 1)
             t == 2^T
  <2>1. w \in Nat /\ t \in Nat /\ 5 <= t /\ 2^Bits = w * t
    BY <1>3, Sizes, Weights
  <2> HIDE DEF w, t
  <2>2. 5 * w <= t * w /\ t * w = w * t /\ t * w \in Nat
    BY <2>1, Times
  <2> QED BY <2>1, <2>2 DEF w
<1>5. Prime = 2^Bits - CC
  BY ValueOfFull
<1> QED BY <1>2, <1>3, <1>4, <1>5

\* A pass of carries keeps the value.
LEMMA ExactlyKeepsValue ==
  ASSUME NEW s, \A i \in Limb : s[i] \in Nat, NEW c, \A i \in Limb : c[i] \in Nat, NEW r, Exactly(r, s, c)
  PROVE  Value(r) = Value(s) /\ \A i \in Limb : r[i] \in Nat
<1>0. N \in Nat /\ N >= 4 /\ Limb = 0 .. N - 1 /\ N - 1 \in Limb /\ 2^B \in Nat \ {0}
  BY TopIsLimb, Sizes
<1>1. ASSUME NEW i \in Limb
      PROVE  /\ s[i] \in Nat /\ c[i] \in Nat /\ W(i) \in Nat /\ r[i] \in Nat
             /\ i = N - 1 => r[i] = s[i] + c[i]
             /\ i # N - 1 => i + 1 \in Limb /\ c[i + 1] \in Nat /\ r[i] + 2^B * c[i + 1] = s[i] + c[i]
  <2>1. s[i] \in Nat /\ c[i] \in Nat /\ W(i) \in Nat
    BY WeightOfLimb
  <2>2. CASE i = N - 1
    BY <2>1, <2>2 DEF Exactly
  <2>3. CASE i # N - 1
    <3>1. i + 1 \in Limb /\ i + 1 \in Limb \ {0} /\ (i + 1) - 1 = i
      BY <1>0, <2>3
    <3> DEFINE a == s[i] + c[i]
    <3>2. c[i + 1] = a \div 2^B /\ r[i] = a % 2^B
      BY <2>3, <3>1 DEF Exactly
    <3>3. a \in Nat
      BY <2>1
    <3> DEFINE b == 2^B
    <3>4. b \in Nat \ {0} /\ c[i + 1] = a \div b /\ r[i] = a % b
      BY <1>0, <3>2
    <3> HIDE DEF a, b
    <3>5. a \div b \in Nat /\ a % b \in 0 .. b - 1 /\ a = (b * (a \div b)) + (a % b)
      BY <3>3, <3>4, Division
    <3> DEFINE q == a \div b
               u == a % b
    <3>6. q \in Nat /\ u \in Nat /\ a = b * q + u /\ c[i + 1] = q /\ r[i] = u
      BY <3>4, <3>5
    <3> HIDE DEF q, u
    <3>7. c[i + 1] \in Nat /\ r[i] \in Nat /\ r[i] + b * c[i + 1] = a
      BY <3>4, <3>6
    <3> QED BY <2>1, <2>3, <3>1, <3>7 DEF a, b
  <2> QED BY <2>2, <2>3
<1>2. \A i \in Limb : s[i] \in Int /\ r[i] \in Int
  BY <1>1
<1> DEFINE H == {k \in Nat : k \in Limb => Part(r, k) + c[k] * W(k) = Part(s, k)}
<1>3. 0 \in H
  <2>1. c[0] = 0 /\ W(0) = 1 /\ Part(r, 0) = 0 /\ Part(s, 0) = 0
    BY <1>2, Parts, Weights DEF Exactly
  <2> QED BY <2>1
<1>4. ASSUME NEW k \in H PROVE k + 1 \in H
  <2> SUFFICES ASSUME k + 1 \in Limb PROVE Part(r, k + 1) + c[k + 1] * W(k + 1) = Part(s, k + 1)
    OBVIOUS
  <2>1. k \in Limb /\ k # N - 1 /\ k \in Nat /\ k \in 0 .. N
    BY <1>0
  <2>2. Part(r, k + 1) = Part(r, k) + r[k] * W(k) /\ Part(s, k + 1) = Part(s, k) + s[k] * W(k)
    BY <1>2, <2>1, Parts
  <2>3. Part(r, k) \in Int /\ Part(s, k) \in Int
    BY <1>2, <2>1, Parts
  <2>4. W(k + 1) = W(k) * 2^B
    BY <2>1, Weights
  <2>5. Part(r, k) + c[k] * W(k) = Part(s, k)
    BY <2>1
  <2> DEFINE w == W(k)
             b == 2^B
             d == c[k + 1]
             e == c[k]
             p == r[k]
             q == s[k]
  <2>6. w \in Nat /\ b \in Nat /\ d \in Nat /\ e \in Nat /\ p \in Nat /\ q \in Nat /\ p + b * d = q + e
    BY <1>0, <1>1, <2>1
  <2>7. /\ Part(r, k + 1) = Part(r, k) + p * w /\ Part(s, k + 1) = Part(s, k) + q * w
        /\ Part(r, k) + e * w = Part(s, k) /\ W(k + 1) = w * b
    BY <2>2, <2>4, <2>5
  <2> HIDE DEF w, b, d, e, p, q
  <2>8. (p + b * d) * w = p * w + d * (w * b) /\ (q + e) * w = q * w + e * w
    BY <2>6
  <2>9. p * w \in Int /\ q * w \in Int /\ e * w \in Int /\ d * (w * b) \in Int
    BY <2>6
  <2>10. Part(r, k + 1) + d * (w * b) = Part(s, k + 1)
    <3> DEFINE y1 == p * w
               y2 == q * w
               y3 == e * w
               y4 == d * (w * b)
    <3>1. y1 + y4 = y2 + y3 /\ y1 \in Int /\ y2 \in Int /\ y3 \in Int /\ y4 \in Int
      BY <2>6, <2>8, <2>9
    <3>2. Part(r, k + 1) = Part(r, k) + y1 /\ Part(s, k + 1) = Part(s, k) + y2 /\ Part(r, k) + y3 = Part(s, k)
      BY <2>7
    <3> HIDE DEF y1, y2, y3, y4
    <3>3. Part(r, k + 1) + y4 = Part(s, k + 1)
      BY <2>3, <3>1, <3>2
    <3> QED BY <3>3 DEF y4
  <2> QED BY <2>7, <2>10 DEF d
<1> HIDE DEF H
<1>5. H = Nat
  BY <1>3, <1>4, Induction DEF H
<1>6. Part(r, N - 1) + c[N - 1] * W(N - 1) = Part(s, N - 1)
  <2> DEFINE q == N - 1
  <2>1. q \in Limb /\ q \in H
    BY <1>0, <1>5
  <2> HIDE DEF q
  <2>2. Part(r, q) + c[q] * W(q) = Part(s, q)
    BY <2>1 DEF H
  <2> QED BY <2>2 DEF q
<1>7. /\ Value(r) = Part(r, N - 1) + r[N - 1] * W(N - 1) /\ Value(s) = Part(s, N - 1) + s[N - 1] * W(N - 1)
      /\ Part(r, N - 1) \in Int /\ Part(s, N - 1) \in Int
  <2>1. N - 1 \in 0 .. N
    BY <1>0
  <2> QED BY <1>2, <2>1, Parts
<1> DEFINE w == W(N - 1)
           d == c[N - 1]
           e == s[N - 1]
<1>8. w \in Nat /\ d \in Nat /\ e \in Nat /\ r[N - 1] = e + d
  BY <1>0, <1>1
<1>9. Part(r, N - 1) + d * w = Part(s, N - 1) /\ Value(r) = Part(r, N - 1) + (e + d) * w /\ Value(s) = Part(s, N - 1) + e * w
  BY <1>6, <1>7, <1>8
<1> HIDE DEF w, d, e
<1>10. (e + d) * w = e * w + d * w /\ e * w \in Int /\ d * w \in Int
  BY <1>8
<1> QED BY <1>1, <1>7, <1>9, <1>10

\* Limbs below the top one that are the same are worth the same.
LEMMA PartSame ==
  ASSUME NEW a, NEW b, NEW k \in 0 .. N, \A i \in 0 .. k - 1 : a[i] = b[i]
  PROVE  Part(a, k) = Part(b, k)
<1> DEFINE f == [i \in Limb |-> a[i] * W(i)]
           g == [i \in Limb |-> b[i] * W(i)]
<1>1. k \in Nat /\ \A i \in 0 .. k - 1 : i \in Limb
  BY TopIsLimb
<1>2. \A i \in 0 .. k - 1 : f[i] = g[i]
  BY <1>1
<1> HIDE DEF f, g
<1>3. Total(f, k) = Total(g, k)
  BY <1>1, <1>2, TotalSame
<1> QED BY <1>3 DEF Part, f, g

\* Forgetting what exceeds the top limb takes so many times 2^Bits.
LEMMA ValueOfDropTop ==
  ASSUME NEW l \in [Limb -> Nat]
  PROVE  /\ Value(DropTop(l)) = Value(l) - (l[N - 1] \div 2^T) * 2^Bits
         /\ DropTop(l) \in [Limb -> Nat]
<1> DEFINE t == DropTop(l)
           a == l[N - 1]
           q == a \div 2^T
           u == a % 2^T
<1>0. N \in Nat /\ N >= 4 /\ Limb = 0 .. N - 1 /\ N - 1 \in Limb /\ 2^T \in Nat \ {0}
  BY TopIsLimb, Sizes
<1>1. a \in Nat /\ q \in Nat /\ u \in Nat /\ a = (2^T * q) + u
  <2>1. a \in Nat
    BY <1>0
  <2> DEFINE d == 2^T
  <2>2. d \in Nat \ {0}
    BY <1>0
  <2> HIDE DEF a, d
  <2>3. a \div d \in Nat /\ a % d \in 0 .. d - 1 /\ a = (d * (a \div d)) + (a % d)
    BY <2>1, <2>2, Division
  <2>4. a % d \in Nat
    BY <2>2, <2>3
  <2> QED BY <2>1, <2>3, <2>4 DEF d
<1>2. t = [l EXCEPT ![N-1] = u]
  BY DEF DropTop
<1> HIDE DEF a, q, u, t
<1>3. t \in [Limb -> Nat] /\ t[N - 1] = u /\ l[N - 1] = a /\ \A i \in 0 .. (N - 1) - 1 : t[i] = l[i]
  <2>1. l[N - 1] = a
    BY DEF a
  <2>2. t \in [Limb -> Nat] /\ t[N - 1] = u
    BY <1>0, <1>1, <1>2
  <2>3. \A i \in 0 .. (N - 1) - 1 : t[i] = l[i]
    BY <1>0, <1>2
  <2> QED BY <2>1, <2>2, <2>3
<1>4. Part(t, N - 1) = Part(l, N - 1)
  <2>1. N - 1 \in 0 .. N
    BY <1>0
  <2> QED BY <1>3, <2>1, PartSame
<1>5. \A i \in Limb : t[i] \in Int /\ l[i] \in Int
  BY <1>3
<1>6. /\ Value(t) = Part(t, N - 1) + u * W(N - 1) /\ Value(l) = Part(l, N - 1) + a * W(N - 1)
      /\ Part(l, N - 1) \in Int
  <2>1. N - 1 \in 0 .. N
    BY <1>0
  <2> QED BY <1>3, <1>5, <2>1, Parts
<1> DEFINE w == W(N - 1)
           d == 2^T
<1>7. w \in Nat /\ d \in Nat /\ 2^Bits = w * d /\ a = d * q + u
  BY <1>0, <1>1, WeightOfLimb, Weights
<1>8. Value(t) = Part(l, N - 1) + u * w /\ Value(l) = Part(l, N - 1) + a * w
  BY <1>4, <1>6
<1> HIDE DEF w, d
<1>9. (d * q + u) * w = q * (w * d) + u * w /\ u * w \in Int /\ q * (w * d) \in Int
  BY <1>1, <1>7
<1>10. Value(t) = Value(l) - q * 2^Bits
  BY <1>6, <1>7, <1>8, <1>9
<1> QED BY <1>3, <1>10 DEF t, q, a

\* AddC adds so many times C.
LEMMA ValueOfAddC ==
  ASSUME NEW t \in [Limb -> Nat], NEW z \in Nat, NEW s, s = [i \in Limb |-> t[i] + z * C(i)]
  PROVE  Value(s) = Value(t) + z * CC /\ \A i \in Limb : s[i] \in Nat
<1> DEFINE c == [i \in Limb |-> C(i)]
<1>1. ASSUME NEW i \in Limb PROVE t[i] \in Int /\ c[i] \in Int /\ s[i] = 1 * t[i] + z * c[i] /\ s[i] \in Nat
  <2> DEFINE a == t[i]
             b == C(i)
  <2>1. a \in Nat /\ b \in Nat /\ c[i] = b /\ s[i] = a + z * b
    BY LimbSizes
  <2> HIDE DEF a, b, c
  <2>2. z * b \in Nat
    BY <2>1
  <2> QED BY <2>1, <2>2 DEF a
<1>2. 1 \in Int /\ z \in Int
  OBVIOUS
<1>3. Value(c) = CC
  BY ValueOfC
<1> HIDE DEF c
<1>4. Value(s) = 1 * Value(t) + z * Value(c)
  BY <1>1, <1>2, ValueLinear
<1>5. Value(t) \in Int
  BY <1>1, Parts
<1> QED BY <1>1, <1>3, <1>4, <1>5

\* normalize_weak takes so many times the prime.
LEMMA NormalizeWeakValue ==
  ASSUME Wider, NEW m \in 1 .. MaxMagnitude, NEW l, Bounded(l, m)
  PROVE  Value(NormalizeWeak(l)) = Value(l) - (l[N - 1] \div 2^T) * Prime
<1> DEFINE t == DropTop(l)
           z == l[N - 1] \div 2^T
           s == [i \in Limb |-> t[i] + z * C(i)]
<1>1. l \in [Limb -> Nat] /\ m \in Nat
  BY UseAssumption DEF Bounded
<1>2. z \in Nat
  <2> DEFINE a == l[N - 1]
  <2>1. a \in Nat /\ 2^T \in Nat \ {0}
    BY <1>1, TopIsLimb, Sizes
  <2> HIDE DEF a
  <2>2. a \div 2^T \in Nat
    BY <2>1, Division
  <2> QED BY <2>2 DEF a
<1>3. t \in [Limb -> Nat] /\ Value(t) = Value(l) - z * 2^Bits
  BY <1>1, ValueOfDropTop
<1>4. Carries(s, 2 * m) /\ 2 * m <= 2 * MaxMagnitude
  <2>1. 2 * m <= 2 * MaxMagnitude
    BY UseAssumption
  <2> QED BY <2>1, WeakCarries
<1>5. NormalizeWeak(l) = AddC(t, z)
  BY Zenon DEF NormalizeWeak
<1> HIDE DEF t, z
<1>6. Value(s) = Value(t) + z * CC /\ \A i \in Limb : s[i] \in Nat
  BY <1>2, <1>3, ValueOfAddC
<1>7. PICK c : Exactly(AddC(t, z), s, c) /\ \A i \in Limb : c[i] \in 0 .. 2 * m - 1
  <2> DEFINE q == 2 * m
  <2>1. Carries(s, q) /\ q <= 2 * MaxMagnitude
    BY <1>4
  <2> HIDE DEF q, s
  <2>2. s = [i \in Limb |-> t[i] + z * C(i)]
    BY DEF s
  <2>3. \E c : Exactly(AddC(t, z), s, c) /\ \A i \in Limb : c[i] \in 0 .. q - 1 /\ s[i] + c[i] < q * 2^B
    BY <2>1, <2>2, AddCAgrees
  <2> QED BY <2>3 DEF q
<1> HIDE DEF s
<1>8. Value(AddC(t, z)) = Value(s)
  <2>1. \A i \in Limb : c[i] \in Nat
    BY <1>1, <1>7
  <2> QED BY <1>6, <1>7, <2>1, ExactlyKeepsValue
<1>9. Value(l) \in Int
  <2>1. \A i \in Limb : l[i] \in Int
    BY <1>1
  <2> QED BY <2>1, Parts
<1> DEFINE p == 2^Bits
<1>10. Prime = p - CC /\ p \in Nat /\ CC \in Nat
  BY PrimeSizes
<1>11. Value(AddC(t, z)) = Value(l) - z * p + z * CC
  BY <1>3, <1>6, <1>8
<1> HIDE DEF p
<1>12. z * (p - CC) = z * p - z * CC /\ z * p \in Int /\ z * CC \in Int
  BY <1>2, <1>10
<1>13. Value(AddC(t, z)) = Value(l) - z * Prime
  BY <1>9, <1>10, <1>11, <1>12
<1> QED BY <1>5, <1>13 DEF z

-----------------------------------------------------------------------------
\* The limbs below limb k are worth less than it.
LEMMA PartBelow ==
  ASSUME NEW l, NEW k \in 0 .. N, \A i \in Limb : l[i] \in Nat, \A i \in 0 .. k - 1 : l[i] < 2^B
  PROVE  Part(l, k) \in 0 .. W(k) - 1
<1>0. N \in Nat /\ Limb = 0 .. N - 1 /\ 2^B \in Nat \ {0} /\ \A i \in Limb : l[i] \in Int
  BY TopIsLimb, Sizes
<1> DEFINE H == {j \in Nat : j <= k => Part(l, j) \in 0 .. W(j) - 1}
<1>1. 0 \in H
  <2>1. Part(l, 0) = 0 /\ W(0) = 1
    BY <1>0, Parts, Weights
  <2> QED BY <2>1
<1>2. ASSUME NEW j \in H PROVE j + 1 \in H
  <2> SUFFICES ASSUME j + 1 <= k PROVE Part(l, j + 1) \in 0 .. W(j + 1) - 1
    OBVIOUS
  <2>1. j \in Limb /\ j \in 0 .. k - 1 /\ j \in Nat /\ j <= k
    BY <1>0
  <2> DEFINE a == l[j]
             p == Part(l, j)
             w == W(j)
             b == 2^B
  <2>2. a \in Nat /\ a <= b - 1 /\ b \in Nat \ {0} /\ w \in Nat \ {0} /\ p \in 0 .. w - 1
    BY <1>0, <2>1, WeightOfLimb
  <2>3. Part(l, j + 1) = p + a * w /\ W(j + 1) = w * b
    BY <1>0, <2>1, Parts, Weights
  <2> HIDE DEF a, p, w, b
  <2>4. a * w <= (b - 1) * w /\ a * w \in Nat
    <3>1. b - 1 \in Nat
      BY <2>2
    <3> QED BY <2>2, <3>1, Times
  <2>5. (b - 1) * w = w * b - w /\ w * b \in Nat
    BY <2>2
  <2>6. p + a * w \in 0 .. w * b - 1
    BY <2>2, <2>4, <2>5
  <2> QED BY <2>3, <2>6
<1> HIDE DEF H
<1>3. H = Nat
  BY <1>1, <1>2, Induction DEF H
<1>4. k \in Nat /\ k <= k
  BY TopIsLimb
<1> QED BY <1>3, <1>4 DEF H

\* Below its top limb, what a pass of carries leaves is worth less than 1 in the top limb.
LEMMA PassingValue ==
  ASSUME NEW r, NEW top, Passing(r, top)
  PROVE  /\ Value(r) = Part(r, N - 1) + r[N - 1] * W(N - 1) /\ Part(r, N - 1) \in 0 .. W(N - 1) - 1
         /\ Value(r) \in Nat /\ r[N - 1] \in Nat /\ W(N - 1) \in Nat \ {0}
         /\ r[N - 1] \div 2^T = Value(r) \div 2^Bits
<1>0. N \in Nat /\ N >= 4 /\ Limb = 0 .. N - 1 /\ N - 1 \in Limb /\ N - 1 \in 0 .. N /\ 2^T \in Nat \ {0}
  BY TopIsLimb, Sizes
<1>1. \A i \in Limb : r[i] \in Nat /\ r[i] \in Int
  BY DEF Passing
<1>2. \A i \in 0 .. (N - 1) - 1 : r[i] < 2^B
  BY <1>0 DEF Passing
<1>3. Part(r, N - 1) \in 0 .. W(N - 1) - 1
  BY <1>0, <1>1, <1>2, PartBelow
<1>4. Value(r) = Part(r, N - 1) + r[N - 1] * W(N - 1)
  BY <1>1, Parts
<1> DEFINE p == Part(r, N - 1)
           w == W(N - 1)
           d == 2^T
           a == r[N - 1]
           q == a \div d
           u == a % d
<1>5. w \in Nat \ {0} /\ d \in Nat \ {0} /\ a \in Nat /\ p \in 0 .. w - 1 /\ Value(r) = p + a * w /\ 2^Bits = w * d
  <2>1. w \in Nat \ {0}
    BY <1>0, WeightOfLimb
  <2> QED BY <1>0, <1>1, <1>3, <1>4, <2>1, Weights
<1> HIDE DEF p, w, d, a
<1>6. q \in Nat /\ u \in 0 .. d - 1 /\ a = (d * q) + u
  BY <1>5, Division
<1> HIDE DEF q, u
<1>7. a * w = (w * d) * q + u * w /\ a * w \in Nat /\ w * d \in Nat \ {0}
  BY <1>5, <1>6
<1>8. p + u * w \in 0 .. w * d - 1
  <2>1. u * w <= (d - 1) * w /\ u * w \in Nat
    <3>1. d - 1 \in Nat /\ u \in Nat /\ u <= d - 1
      BY <1>5, <1>6
    <3> QED BY <1>5, <3>1, Times
  <2>2. (d - 1) * w = w * d - w
    BY <1>5
  <2> QED BY <1>5, <1>7, <2>1, <2>2
<1> DEFINE e == w * d
           v == p + u * w
<1>9. e \in Nat \ {0} /\ v \in 0 .. e - 1 /\ Value(r) = e * q + v
  <2>1. Value(r) = p + (e * q + u * w)
    BY <1>5, <1>7
  <2>2. p \in Int /\ u * w \in Int /\ e * q \in Int
    <3>1. e \in Nat \ {0}
      BY <1>7
    <3> HIDE DEF e
    <3> QED BY <1>5, <1>6, <3>1
  <2> QED BY <1>7, <1>8, <2>1, <2>2
<1> HIDE DEF e, v
<1>10. Value(r) \div e = q
  <2>1. q \in Int
    BY <1>6
  <2> QED BY <1>9, <2>1, DivisionUnique, Zenon
<1>11. Value(r) \in Nat
  BY <1>5, <1>7
<1> QED BY <1>5, <1>10, <1>11 DEF p, w, a, e, q, d

\* Reduced limbs are worth less than 2^Bits.
LEMMA ReducedPassing ==
  ASSUME NEW t, Reduced(t)
  PROVE  Passing(t, 2^T - 1) /\ Value(t) \in 0 .. 2^Bits - 1
<1>0. N \in Nat /\ N >= 4 /\ Limb = 0 .. N - 1 /\ N - 1 \in Limb /\ 2^T \in Nat \ {0} /\ 2^B \in Nat
  BY TopIsLimb, Sizes
<1>1. Passing(t, 2^T - 1)
  <2>1. t \in [Limb -> Nat] /\ \A i \in Limb : t[i] <= Full(i)
    BY DEF Reduced
  <2>2. ASSUME NEW i \in Limb \ {N - 1} PROVE t[i] < 2^B
    <3>1. i \in Limb /\ i # N - 1
      OBVIOUS
    <3>2. Full(i) \in Nat /\ Full(i) < 2^B
      BY <3>1, LimbSizes
    <3>3. t[i] \in Nat /\ t[i] <= Full(i)
      BY <2>1, <3>1
    <3> QED BY <1>0, <3>2, <3>3
  <2>3. t[N - 1] <= 2^T - 1
    BY <1>0, <2>1, TopIsLimb
  <2> QED BY <2>1, <2>2, <2>3 DEF Passing
<1> DEFINE p == Part(t, N - 1)
           w == W(N - 1)
           d == 2^T
           a == t[N - 1]
<1>2. /\ w \in Nat \ {0} /\ d \in Nat \ {0} /\ a \in Nat /\ a <= d - 1 /\ p \in 0 .. w - 1
      /\ Value(t) = p + a * w /\ 2^Bits = w * d
  <2>1. a <= d - 1
    BY <1>1 DEF Passing
  <2> QED BY <1>0, <1>1, <2>1, PassingValue, Weights
<1> HIDE DEF p, w, d, a
<1>3. a * w <= (d - 1) * w /\ a * w \in Nat /\ (d - 1) * w = w * d - w
  <2>1. d - 1 \in Nat
    BY <1>2
  <2>2. a * w <= (d - 1) * w /\ a * w \in Nat
    BY <1>2, <2>1, Times
  <2> QED BY <1>2, <2>2
<1>4. Value(t) \in 0 .. 2^Bits - 1
  <2>1. w * d \in Nat
    BY <1>2
  <2> QED BY <1>2, <1>3, <2>1
<1> QED BY <1>1, <1>4

-----------------------------------------------------------------------------
\* Comparing with the prime, and the ways to normalize.

\* Reduced limbs are at least the prime just when they are worth that.
LEMMA AtLeastPValue ==
  ASSUME NEW t, Reduced(t)
  PROVE  AtLeastP(t) <=> Value(t) >= Prime
<1> DEFINE d == [i \in Limb |-> Full(i) - t[i]]
           f == [i \in Limb |-> Full(i)]
           g == [i \in Limb |-> d[i] * W(i)]
           b == 2^B
           s == 2^S
<1>0. /\ N \in Nat /\ N >= 4 /\ Limb = 0 .. N - 1 /\ 0 \in Limb /\ 1 \in Limb
      /\ b \in Nat \ {0} /\ s \in Nat \ {0} /\ C0 \in Nat \ {0} /\ 2 * C0 <= b
      /\ Full(0) = b - 1 /\ Full(1) = b - 1 /\ W(2) = b * b /\ W(1) = b /\ W(0) = 1 /\ CC = C0 + s * b
  BY TopIsLimb, Sizes, ShapeAssumption, Weights DEF CC
<1>1. ASSUME NEW i \in Limb PROVE t[i] \in Nat /\ t[i] \in Int /\ f[i] \in Int /\ d[i] \in Nat /\ d[i] = 1 * f[i] + (-1) * t[i]
                                  /\ t[i] = Full(i) - d[i]
  <2>1. t[i] \in Nat /\ t[i] <= Full(i)
    BY DEF Reduced
  <2>2. Full(i) \in Nat
    BY LimbSizes
  <2> QED BY <2>1, <2>2
<1>2. Value(d) = 1 * Value(f) + (-1) * Value(t)
  <2>1. 1 \in Int /\ -1 \in Int /\ \A i \in Limb : f[i] \in Int /\ t[i] \in Int /\ d[i] = 1 * f[i] + (-1) * t[i]
    BY <1>1
  <2> HIDE DEF d, f
  <2> QED BY <2>1, ValueLinear
<1>3. Value(f) = 2^Bits - 1
  BY ValueOfFull
<1>4. Value(t) \in Nat
  BY ReducedPassing
<1>5. (Value(t) >= Prime) <=> (Value(d) < CC)
  BY <1>2, <1>3, <1>4, PrimeSizes
<1>6. AtLeastP(t) <=> /\ \A i \in 2 .. N - 1 : d[i] = 0
                      /\ s + ((b - 1 - d[0]) + C0) \div b > d[1]
  <2>1. \A i \in 2 .. N - 1 : t[i] = Full(i) <=> d[i] = 0
    <3> TAKE i \in 2 .. N - 1
    <3>1. i \in Limb
      BY <1>0
    <3>2. Full(i) \in Nat /\ t[i] \in Nat /\ d[i] = Full(i) - t[i]
      BY <1>1, <3>1, LimbSizes
    <3> QED BY <3>2
  <2>2. t[1] = b - 1 - d[1] /\ t[0] = b - 1 - d[0] /\ d[1] \in Nat /\ d[0] \in Nat
    BY <1>0, <1>1
  <2>3. t[1] + s + (t[0] + C0) \div b > Full(1) <=> s + ((b - 1 - d[0]) + C0) \div b > d[1]
    <3> DEFINE q == ((b - 1 - d[0]) + C0) \div b
    <3>1. t[0] + C0 = (b - 1 - d[0]) + C0 /\ q \in Int
      BY <1>0, <2>2
    <3> HIDE DEF q, d, b, s
    <3>2. (b - 1 - d[1]) + s + q > b - 1 <=> s + q > d[1]
      BY <1>0, <2>2, <3>1
    <3> QED BY <1>0, <2>2, <3>1, <3>2 DEF q
  <2>4. AtLeastP(t) <=> (\A i \in 2 .. N - 1 : t[i] = Full(i)) /\ t[1] + s + (t[0] + C0) \div b > Full(1)
    BY DEF AtLeastP
  <2> HIDE DEF d, b, s
  <2> QED BY <2>1, <2>3, <2>4
<1> HIDE DEF f
<1>7. CASE \A i \in 2 .. N - 1 : d[i] = 0
  <2> DEFINE a == d[0]
             e == d[1]
             h == [j \in 0 .. N |-> IF j = 0 THEN 0 ELSE IF j = 1 THEN a ELSE a + e * b]
  <2>1. a \in Nat /\ e \in Nat /\ a <= b - 1
    <3>1. d[0] \in Nat /\ d[1] \in Nat /\ t[0] \in Nat /\ t[0] = Full(0) - d[0]
      BY <1>0, <1>1
    <3> QED BY <1>0, <3>1
  <2> HIDE DEF a, e, d, b
  <2>2. ASSUME NEW i \in Limb PROVE h[i + 1] = h[i] + d[i] * W(i)
    <3>1. CASE i = 0
      BY <1>0, <2>1, <3>1 DEF a
    <3>2. CASE i = 1
      <4>1. h[i + 1] = a + e * b /\ h[i] = a /\ d[i] = e /\ W(i) = b
        BY <1>0, <3>2 DEF e
      <4> HIDE DEF h
      <4> QED BY <4>1
    <3>3. CASE i \notin {0, 1}
      <4>1. i \in 2 .. N - 1
        BY <1>0, <3>3
      <4>2. h[i + 1] = a + e * b /\ h[i] = a + e * b /\ d[i] = 0 /\ W(i) \in Nat
        BY <1>0, <1>7, <4>1, WeightOfLimb
      <4>3. a + e * b \in Nat
        BY <1>0, <2>1
      <4> HIDE DEF h
      <4> QED BY <4>2, <4>3
    <3> QED BY <3>1, <3>2, <3>3
  <2>3. h[0] = 0 /\ h[N] = a + e * b
    BY <1>0
  <2> HIDE DEF h
  <2>4. Value(d) = a + e * b
    BY <2>2, <2>3, ValueIs
  <2>5. (a + e * b < C0 + s * b) <=> (s + ((b - 1 - a) + C0) \div b > e)
    <3> DEFINE k == ((b - 1 - a) + C0) \div b
    <3> HIDE DEF s
    <3>1. (a < C0 => k = 1) /\ (a >= C0 => k = 0)
      <4>1. CASE a < C0
        <5> DEFINE v == (b - 1 - a) + C0
                   q == C0 - 1 - a
        <5>1. v = b * 1 + q /\ q \in 0 .. b - 1 /\ 1 \in Int /\ b \in Nat \ {0}
          BY <1>0, <2>1, <4>1
        <5>2. k = 1
          <6>1. k = v \div b
            OBVIOUS
          <6> HIDE DEF v, q, k, b
          <6> QED BY <5>1, <6>1, DivisionUnique
        <5> QED BY <1>0, <2>1, <4>1, <5>2
      <4>2. CASE a >= C0
        <5> DEFINE v == (b - 1 - a) + C0
        <5>1. v \in Nat /\ v < 1 * b /\ 1 \in Nat
          BY <1>0, <2>1, <4>2
        <5>2. k = v \div b
          OBVIOUS
        <5> HIDE DEF v, k
        <5>3. v \div b \in Nat /\ v \div b < 1
          BY <1>0, <5>1, Division, DivBelow
        <5>4. k = 0
          BY <5>2, <5>3
        <5> QED BY <1>0, <2>1, <4>2, <5>4
      <4> QED BY <1>0, <2>1, <4>1, <4>2
    <3> HIDE DEF k
    <3>2. s * b \in Nat /\ e * b \in Nat
      BY <1>0, <2>1
    <3>3. CASE e < s
      <4>1. (e + 1) * b <= s * b /\ (e + 1) * b = e * b + b
        <5>1. e + 1 <= s /\ e + 1 \in Nat
          BY <1>0, <2>1, <3>3
        <5> QED BY <1>0, <2>1, <5>1, Times
      <4>2. s + k > e
        BY <1>0, <2>1, <3>1, <3>3
      <4>3. a + e * b < C0 + s * b
        BY <1>0, <2>1, <3>2, <4>1
      <4> QED BY <4>2, <4>3 DEF k
    <3>4. CASE e = s
      <4>1. s + k > e <=> a < C0
        BY <1>0, <2>1, <3>1, <3>4
      <4>2. (a + e * b < C0 + s * b) <=> a < C0
        <5> DEFINE p == s * b
        <5>1. p \in Nat /\ e * b = p
          BY <3>2, <3>4
        <5> HIDE DEF p
        <5>2. (a + p < C0 + p) <=> a < C0
          BY <1>0, <2>1, <5>1
        <5> QED BY <5>1, <5>2 DEF p
      <4> QED BY <4>1, <4>2 DEF k
    <3>5. CASE e > s
      <4>1. (s + 1) * b <= e * b /\ (s + 1) * b = s * b + b
        <5>1. s + 1 <= e /\ s + 1 \in Nat
          BY <1>0, <2>1, <3>5
        <5> QED BY <1>0, <2>1, <5>1, Times
      <4>2. ~(s + k > e)
        BY <1>0, <2>1, <3>1, <3>5
      <4>3. ~(a + e * b < C0 + s * b)
        BY <1>0, <2>1, <3>2, <4>1
      <4> QED BY <4>2, <4>3 DEF k
    <3> QED BY <1>0, <2>1, <3>3, <3>4, <3>5
  <2> QED BY <1>0, <1>5, <1>6, <1>7, <2>4, <2>5 DEF a, e
<1>8. CASE ~\A i \in 2 .. N - 1 : d[i] = 0
  <2>1. PICK i \in 2 .. N - 1 : d[i] # 0
    BY <1>8
  <2>2. i \in Limb /\ i \in Nat /\ i \in 0 .. N - 1 /\ 2 <= i /\ 2 \in Nat
    BY <1>0
  <2>3. \A j \in 0 .. N - 1 : g[j] \in Nat
    <3> TAKE j \in 0 .. N - 1
    <3>1. j \in Limb
      BY <1>0
    <3> DEFINE u == d[j]
               w == W(j)
    <3>2. u \in Nat /\ w \in Nat /\ g[j] = u * w
      BY <1>1, <3>1, WeightOfLimb
    <3> HIDE DEF u, w, g
    <3> QED BY <3>2
  <2>4. Value(d) = Total(g, N)
    BY DEF Value, W
  <2>5. g[i] = d[i] * W(i)
    BY <2>2
  <2>6. d[i] \in Nat /\ 1 <= d[i] /\ W(i) \in Nat /\ W(2) <= W(i)
    <3>1. d[i] \in Nat
      BY <1>1, <2>2
    <3> HIDE DEF d
    <3> QED BY <2>1, <2>2, <3>1, WeightMono
  <2> HIDE DEF g, d
  <2>7. g[i] <= Total(g, N)
    BY <1>0, <2>2, <2>3, TotalNat
  <2>8. 1 * W(i) <= d[i] * W(i) /\ 1 * W(i) = W(i)
    BY <2>6, Times
  <2>9. g[i] \in Nat /\ Total(g, N) \in Nat
    <3>1. N \in 0 .. N
      BY <1>0
    <3> QED BY <1>0, <2>2, <2>3, <3>1, TotalNat
  <2>10. ~(Value(d) < CC)
    BY <2>4, <2>5, <2>6, <2>7, <2>8, <2>9, PrimeSizes
  <2> QED BY <1>5, <1>6, <1>8, <2>10
<1> QED BY <1>7, <1>8

\* What normalize_weak leaves is worth less than twice 2^Bits, with room for C.
LEMMA NormalizeWeakBelow ==
  ASSUME Wider, NEW m \in 1 .. MaxMagnitude, NEW l, Bounded(l, m), NEW t, t = NormalizeWeak(l)
  PROVE  /\ Passing(t, 2^T - 1 + (2 * m - 1)) /\ Value(t) \in Nat /\ Value(t) + 2 * CC < 2 * 2^Bits
         /\ t[N - 1] \div 2^T = Value(t) \div 2^Bits /\ t[N - 1] \div 2^T \in {0, 1}
         /\ t[N - 1] \div 2^T = 0 => Reduced(t)
<1> DEFINE top == 2^T - 1 + (2 * m - 1)
           w == W(N - 1)
           d == 2^T
           a == t[N - 1]
           p == Part(t, N - 1)
<1>1. Passing(t, top)
  BY NormalizeWeakAgrees
<1>2. m \in Nat /\ m <= MaxMagnitude /\ MaxMagnitude \in Nat /\ 2 * MaxMagnitude < d
  BY UseAssumption, WordAssumption
<1>3. /\ Value(t) = p + a * w /\ p \in 0 .. w - 1 /\ Value(t) \in Nat /\ a \in Nat /\ w \in Nat \ {0}
      /\ a \div d = Value(t) \div 2^Bits
  BY <1>1, PassingValue
<1>4. a <= top /\ d \in Nat \ {0} /\ 2^Bits = w * d /\ 2 * CC <= w /\ CC \in Nat
  <2>1. a <= top
    BY <1>1 DEF Passing
  <2> QED BY <1>3, <2>1, Sizes, Weights, PrimeSizes
<1>5. top = d - 1 + (2 * m - 1)
  OBVIOUS
<1> HIDE DEF w, d, a, p, top
<1>6. a + 2 <= 2 * d
  BY <1>2, <1>3, <1>4, <1>5
<1>7. Value(t) + 2 * CC < 2 * 2^Bits
  <2>1. (a + 2) * w <= (2 * d) * w
    <3>1. a + 2 \in Nat /\ 2 * d \in Nat
      BY <1>3, <1>4
    <3> QED BY <1>3, <1>6, <3>1, Times
  <2>2. (a + 2) * w = a * w + 2 * w /\ (2 * d) * w = 2 * (w * d) /\ a * w \in Nat /\ w * d \in Nat
    BY <1>3, <1>4
  <2> QED BY <1>3, <1>4, <2>1, <2>2
<1>8. a \div d \in {0, 1}
  <2>1. a < 2 * d /\ 2 \in Nat
    BY <1>3, <1>4, <1>6
  <2>2. a \div d \in Nat /\ a \div d < 2
    BY <1>3, <1>4, <2>1, Division, DivBelow
  <2> QED BY <2>2
<1>9. ASSUME a \div d = 0 PROVE Reduced(t)
  <2>1. a = (d * (a \div d)) + (a % d) /\ a % d \in 0 .. d - 1
    BY <1>3, <1>4, Division
  <2>2. a <= d - 1
    BY <1>3, <1>4, <1>9, <2>1
  <2>3. t \in [Limb -> Nat] /\ \A i \in Limb \ {N - 1} : t[i] < 2^B
    BY <1>1 DEF Passing
  <2>4. ASSUME NEW i \in Limb PROVE t[i] <= Full(i)
    <3>1. CASE i = N - 1
      BY <2>2, <3>1, TopIsLimb DEF a, d
    <3>2. CASE i # N - 1
      <4>1. Full(i) = 2^B - 1 /\ 2^B \in Nat
        BY <3>2, Sizes DEF Full
      <4>2. t[i] \in Nat /\ t[i] < 2^B
        BY <2>3, <3>2
      <4> QED BY <4>1, <4>2
    <3> QED BY <3>1, <3>2
  <2> QED BY <2>3, <2>4 DEF Reduced
<1> QED BY <1>1, <1>3, <1>7, <1>8, <1>9 DEF top, a, d

\* normalize keeps the value modulo the prime, and leaves less than the prime.
LEMMA NormalizeValue ==
  ASSUME Wider, NEW m \in 1 .. MaxMagnitude, NEW l, Bounded(l, m)
  PROVE  /\ Value(Normalize(l)) \in 0 .. Prime - 1
         /\ \/ Value(Normalize(l)) = Value(NormalizeWeak(l))
            \/ Value(Normalize(l)) = Value(NormalizeWeak(l)) - Prime
<1> DEFINE t == NormalizeWeak(l)
           over == t[N - 1] \div 2^T = 1 \/ AtLeastP(t)
           z == IF over THEN 1 ELSE 0
           s == [i \in Limb |-> t[i] + z * C(i)]
           r == AddC(t, z)
<1>1. Normalize(l) = DropTop(r)
  BY Zenon DEF Normalize
<1>2. /\ Passing(t, 2^T - 1 + (2 * m - 1)) /\ Value(t) \in Nat /\ Value(t) + 2 * CC < 2 * 2^Bits
      /\ t[N - 1] \div 2^T = Value(t) \div 2^Bits /\ t[N - 1] \div 2^T \in {0, 1}
      /\ t[N - 1] \div 2^T = 0 => Reduced(t)
  BY NormalizeWeakBelow
<1>3. z \in {0, 1} /\ z \in Nat
  OBVIOUS
<1> HIDE DEF t
<1>4. t \in [Limb -> Nat]
  BY <1>2 DEF Passing
<1>5. CASE ~over
  <2>1. Reduced(t)
    BY <1>2, <1>5
  <2>2. r = t
    BY <1>5, <2>1, ReducedCarriesNothing
  <2>3. Value(DropTop(t)) = Value(t) - (t[N - 1] \div 2^T) * 2^Bits
    BY <1>4, ValueOfDropTop
  <2>4. t[N - 1] \div 2^T = 0
    BY <1>2, <1>5
  <2>5. Value(DropTop(r)) = Value(t)
    BY <1>2, <2>2, <2>3, <2>4, PrimeSizes
  <2>6. ~(Value(t) >= Prime)
    BY <1>5, <2>1, AtLeastPValue
  <2>7. Value(t) \in 0 .. Prime - 1
    BY <1>2, <2>6, PrimeSizes
  <2> QED BY <1>1, <2>5, <2>7 DEF t
<1>6. CASE over
  <2>1. z = 1
    BY <1>6
  <2>2. Value(s) = Value(t) + z * CC /\ \A i \in Limb : s[i] \in Nat
    BY <1>3, <1>4, ValueOfAddC
  <2> HIDE DEF z, over, s
  <2>3. PICK c : Exactly(r, s, c) /\ \A i \in Limb : c[i] \in 0 .. 1
    BY <1>2, <1>3, SecondPass DEF s
  <2>4. Passing(r, 2^T - 1 + 2 * m)
    BY <1>2, <1>3, SecondPass
  <2> HIDE DEF r
  <2>5. Value(r) = Value(s)
    <3>1. \A i \in Limb : c[i] \in Nat
      BY <2>3
    <3> QED BY <2>2, <2>3, <3>1, ExactlyKeepsValue
  <2>6. Value(r) = Value(t) + CC
    BY <2>1, <2>2, <2>5, PrimeSizes
  <2>7. Value(t) >= Prime
    <3>1. CASE t[N - 1] \div 2^T = 1
      <4> DEFINE v == Value(t)
                 e == 2^Bits
      <4>1. v \in Nat /\ e \in Nat \ {0} /\ v \div e = 1
        BY <1>2, <3>1, Weights
      <4> HIDE DEF v, e
      <4>2. v = (e * (v \div e)) + (v % e) /\ v % e \in 0 .. e - 1
        BY <4>1, Division
      <4>3. v >= e
        BY <4>1, <4>2
      <4> QED BY <4>1, <4>3, PrimeSizes DEF v, e
    <3>2. CASE t[N - 1] \div 2^T = 0
      <4>1. AtLeastP(t) /\ Reduced(t)
        BY <1>2, <1>6, <3>2 DEF over
      <4> QED BY <4>1, AtLeastPValue
    <3> QED BY <1>2, <3>1, <3>2
  <2>8. r[N - 1] \div 2^T = 1
    <3>1. r[N - 1] \div 2^T = Value(r) \div 2^Bits
      BY <2>4, PassingValue
    <3> DEFINE v == Value(r)
               e == 2^Bits
    <3>2. v \in Nat /\ e \in Nat \ {0} /\ e <= v /\ v < 2 * e
      <4> DEFINE u == Value(t)
      <4>1. u \in Nat /\ u + 2 * CC < 2 * e /\ v = u + CC /\ u >= Prime
        BY <1>2, <2>6, <2>7
      <4>2. e \in Nat \ {0} /\ CC \in Nat /\ Prime = e - CC
        BY PrimeSizes, Weights
      <4> HIDE DEF u, v, e
      <4> QED BY <4>1, <4>2
    <3> HIDE DEF v, e
    <3>3. v = e * 1 + (v - e) /\ v - e \in 0 .. e - 1 /\ 1 \in Int
      BY <3>2
    <3>4. v \div e = 1
      BY <3>2, <3>3, DivisionUnique
    <3> QED BY <3>1, <3>4 DEF v, e
  <2>9. Value(DropTop(r)) = Value(r) - (r[N - 1] \div 2^T) * 2^Bits
    <3>1. r \in [Limb -> Nat]
      BY <2>4 DEF Passing
    <3> QED BY <3>1, ValueOfDropTop
  <2>10. Value(DropTop(r)) = Value(t) - Prime
    BY <1>2, <2>6, <2>8, <2>9, PrimeSizes
  <2>11. Value(t) - Prime \in 0 .. Prime - 1
    BY <1>2, <2>7, PrimeSizes
  <2> QED BY <1>1, <2>10, <2>11 DEF t, r
<1> QED BY <1>5, <1>6

-----------------------------------------------------------------------------
\* The limbs of a number are worth it.

\* A remainder by a product, from the remainders by its factors.
LEMMA RemainderByProduct ==
  ASSUME NEW v \in Nat, NEW w \in Nat \ {0}, NEW b \in Nat \ {0}
  PROVE  /\ w * b \in Nat \ {0}
         /\ v % (w * b) = (v % w) + ((v \div w) % b) * w
         /\ v \div (w * b) = (v \div w) \div b
<1> DEFINE q == v \div w
           r == v % w
<1>1. q \in Nat /\ r \in 0 .. w - 1 /\ v = (w * q) + r
  BY Division
<1> HIDE DEF q, r
<1> DEFINE p == q \div b
           s == q % b
<1>2. p \in Nat /\ s \in 0 .. b - 1 /\ q = (b * p) + s
  BY <1>1, Division
<1> HIDE DEF p, s
<1>3. w * b \in Nat \ {0} /\ v = (w * b) * p + (r + s * w)
  <2>1. w * (b * p + s) = (w * b) * p + s * w /\ w * b \in Nat \ {0}
    BY <1>2
  <2>2. (w * b) * p \in Int /\ s * w \in Int
    <3> DEFINE e == w * b
    <3>1. e \in Nat
      BY <2>1
    <3> HIDE DEF e
    <3>2. e * p \in Int /\ s * w \in Int
      BY <1>2, <3>1
    <3> QED BY <3>2 DEF e
  <2> QED BY <1>1, <1>2, <2>1, <2>2
<1>4. r + s * w \in 0 .. (w * b) - 1
  <2>1. s * w <= (b - 1) * w /\ s * w \in Nat
    <3>1. s \in Nat /\ b - 1 \in Nat /\ s <= b - 1
      BY <1>2
    <3> QED BY <3>1, Times
  <2>2. (b - 1) * w = w * b - w
    OBVIOUS
  <2> QED BY <1>1, <1>3, <2>1, <2>2
<1> DEFINE e == w * b
           k == r + s * w
<1>5. e \in Nat \ {0} /\ k \in 0 .. e - 1 /\ v = e * p + k /\ p \in Int
  BY <1>2, <1>3, <1>4
<1> HIDE DEF e, k
<1>6. v \div e = p /\ v % e = k
  BY <1>5, DivisionUnique
<1> QED BY <1>3, <1>6 DEF e, k, p, q, r, s

\* The limbs of a number below 2^Bits are worth it.
LEMMA ValueOfLimbsOf ==
  ASSUME NEW v \in 0 .. 2^Bits - 1
  PROVE  Value(LimbsOf(v)) = v
<1> DEFINE l == LimbsOf(v)
<1>0. /\ N \in Nat /\ N >= 4 /\ Limb = 0 .. N - 1 /\ N - 1 \in Limb /\ 2^B \in Nat \ {0} /\ 2^T \in Nat \ {0}
      /\ v \in Nat /\ 2^Bits \in Nat \ {0} /\ v < 2^Bits
  <2>1. 2^Bits \in Nat \ {0}
    BY Weights
  <2>2. v \in Nat /\ v < 2^Bits
    BY <2>1
  <2> QED BY <2>1, <2>2, TopIsLimb, Sizes
<1>1. /\ \A i \in Limb : l[i] \in Int
      /\ \A i \in Limb \ {N - 1} : l[i] = (v \div W(i)) % 2^B
      /\ l[N - 1] = (v \div W(N - 1)) % 2^T
  <2>1. Reduced(l)
    BY <1>0, LimbsOfReduced
  <2>2. \A i \in Limb : l[i] \in Int
    BY <2>1 DEF Reduced
  <2>3. /\ \A i \in Limb \ {N - 1} : l[i] = (v \div W(i)) % 2^B
        /\ l[N - 1] = (v \div W(N - 1)) % 2^T
    BY <1>0 DEF LimbsOf, W
  <2> QED BY <2>2, <2>3
<1> HIDE DEF l
<1> DEFINE H == {k \in Nat : k \in Limb => Part(l, k) = v % W(k)}
<1>2. 0 \in H
  <2>1. v % 1 = 0
    BY <1>0
  <2>2. Part(l, 0) = 0 /\ W(0) = 1
    BY <1>1, Parts, Weights
  <2> QED BY <2>1, <2>2
<1>3. ASSUME NEW k \in H PROVE k + 1 \in H
  <2> SUFFICES ASSUME k + 1 \in Limb PROVE Part(l, k + 1) = v % W(k + 1)
    OBVIOUS
  <2>1. k \in Limb /\ k # N - 1 /\ k \in Nat
    BY <1>0
  <2> DEFINE w == W(k)
             b == 2^B
  <2>2. w \in Nat \ {0} /\ b \in Nat \ {0} /\ Part(l, k) = v % w /\ W(k + 1) = w * b /\ l[k] = (v \div w) % b
    BY <1>0, <1>1, <2>1, WeightOfLimb, Weights
  <2>3. Part(l, k + 1) = Part(l, k) + l[k] * w
    BY <1>1, <2>1, Parts
  <2> HIDE DEF w, b
  <2>4. v % (w * b) = (v % w) + ((v \div w) % b) * w
    BY <1>0, <2>2, RemainderByProduct
  <2> QED BY <2>2, <2>3, <2>4
<1> HIDE DEF H
<1>4. H = Nat
  BY <1>2, <1>3, Induction DEF H
<1>5. N - 1 \in Nat
  BY <1>0
<1> DEFINE w == W(N - 1)
           d == 2^T
<1>6. /\ w \in Nat \ {0} /\ d \in Nat \ {0} /\ Part(l, N - 1) = v % w /\ l[N - 1] = (v \div w) % d
      /\ 2^Bits = w * d /\ Value(l) = Part(l, N - 1) + l[N - 1] * w
  <2>1. w \in Nat \ {0}
    BY <1>0, WeightOfLimb
  <2>2. Part(l, N - 1) = v % w
    BY <1>0, <1>4, <1>5 DEF H
  <2> QED BY <1>0, <1>1, <2>1, <2>2, Parts, Weights
<1> HIDE DEF w, d
<1>7. v % (w * d) = (v % w) + ((v \div w) % d) * w
  BY <1>0, <1>6, RemainderByProduct
<1>8. v % 2^Bits = v
  BY <1>0, ModBelow
<1> QED BY <1>6, <1>7, <1>8 DEF l

\* Limbs that differ have a highest difference.
LEMMA TopDifference ==
  ASSUME NEW f, NEW g, \E i \in Limb : f[i] # g[i]
  PROVE  \E i \in Limb : f[i] # g[i] /\ \A j \in i + 1 .. N - 1 : f[j] = g[j]
<1>0. N \in Nat /\ Limb = 0 .. N - 1
  BY TopIsLimb
<1> DEFINE X == {k \in Nat : N - 1 - k \in Limb /\ f[N - 1 - k] # g[N - 1 - k]}
<1>1. PICK i \in Limb : f[i] # g[i]
  OBVIOUS
<1>2. N - 1 - (N - 1 - i) = i /\ N - 1 - i \in Nat
  BY <1>0
<1>3. X \in SUBSET Nat /\ X # {}
  BY <1>1, <1>2
<1>4. PICK m \in X : \A k \in X : m <= k
  BY <1>3, LeastNatural
<1> DEFINE t == N - 1 - m
<1>5. t \in Limb /\ f[t] # g[t] /\ m \in Nat
  BY <1>4
<1>6. ASSUME NEW j \in t + 1 .. N - 1, f[j] # g[j] PROVE FALSE
  <2>1. j \in Limb /\ N - 1 - j \in Nat /\ N - 1 - (N - 1 - j) = j /\ N - 1 - j < m
    BY <1>0, <1>5
  <2>2. N - 1 - j \in X
    BY <1>6, <2>1
  <2>3. m <= N - 1 - j
    BY <1>4, <2>2
  <2> QED BY <1>0, <1>5, <2>1, <2>3
<1> HIDE DEF X, t
<1> QED BY <1>5, <1>6

\* The highest difference says which is worth more.
LEMMA ValueOrder ==
  ASSUME NEW f \in [Limb -> Nat], NEW g \in [Limb -> Nat], \A i \in Limb \ {N - 1} : g[i] < 2^B,
         NEW i \in Limb, f[i] > g[i], \A j \in i + 1 .. N - 1 : f[j] = g[j]
  PROVE  Value(f) > Value(g)
<1>0. N \in Nat /\ N >= 4 /\ Limb = 0 .. N - 1 /\ i \in Nat /\ 2^B \in Nat
  BY TopIsLimb, Sizes
<1>1. \A j \in Limb : f[j] \in Nat /\ f[j] \in Int /\ g[j] \in Nat /\ g[j] \in Int
  OBVIOUS
<1>2. Part(f, i + 1) > Part(g, i + 1)
  <2>1. Part(g, i) \in 0 .. W(i) - 1
    <3>1. i \in 0 .. N /\ \A j \in 0 .. i - 1 : g[j] < 2^B
      BY <1>0
    <3> QED BY <1>1, <3>1, PartBelow
  <2>2. Part(f, i) \in Nat
    <3> DEFINE ff == [j \in Limb |-> f[j] * W(j)]
    <3>1. \A j \in 0 .. i - 1 : ff[j] \in Nat
      <4> TAKE j \in 0 .. i - 1
      <4>1. j \in Limb
        BY <1>0
      <4> DEFINE a == f[j]
                 w == W(j)
      <4>2. a \in Nat /\ w \in Nat /\ ff[j] = a * w
        BY <1>1, <4>1, WeightOfLimb
      <4> HIDE DEF a, w, ff
      <4> QED BY <4>2
    <3>2. i \in 0 .. i
      BY <1>0
    <3> HIDE DEF ff
    <3>3. Total(ff, i) \in Nat
      BY <1>0, <3>1, <3>2, TotalNat
    <3> QED BY <3>3 DEF Part, ff
  <2>3. Part(f, i + 1) = Part(f, i) + f[i] * W(i) /\ Part(g, i + 1) = Part(g, i) + g[i] * W(i)
    BY <1>1, Parts
  <2> DEFINE a == f[i]
             b == g[i]
             w == W(i)
  <2>4. a \in Nat /\ b \in Nat /\ b + 1 <= a /\ w \in Nat
    <3>1. a \in Nat /\ b \in Nat /\ a > b /\ w \in Nat
      BY <1>1, WeightOfLimb
    <3> HIDE DEF a, b
    <3> QED BY <3>1
  <2>5. Part(g, i) \in 0 .. w - 1 /\ Part(f, i + 1) = Part(f, i) + a * w /\ Part(g, i + 1) = Part(g, i) + b * w
    BY <2>1, <2>3
  <2> HIDE DEF a, b, w
  <2>6. (b + 1) * w <= a * w /\ (b + 1) * w = b * w + w /\ b * w \in Nat /\ a * w \in Nat
    <3>1. b + 1 \in Nat
      BY <2>4
    <3> QED BY <2>4, <3>1, Times
  <2> QED BY <2>2, <2>4, <2>5, <2>6
<1> DEFINE H == {j \in Nat : i < j /\ j <= N => Part(f, j) > Part(g, j)}
<1>3. 0 \in H
  BY <1>0
<1>4. ASSUME NEW j \in H PROVE j + 1 \in H
  <2> SUFFICES ASSUME i < j + 1, j + 1 <= N PROVE Part(f, j + 1) > Part(g, j + 1)
    OBVIOUS
  <2>1. CASE i = j
    BY <1>2, <2>1
  <2>2. CASE i # j
    <3>1. j \in Limb /\ i < j /\ j \in i + 1 .. N - 1 /\ j \in 0 .. N
      BY <1>0, <2>2
    <3> DEFINE p == f[j] * W(j)
    <3>2. Part(f, j + 1) = Part(f, j) + p /\ Part(g, j + 1) = Part(g, j) + p
      BY <1>1, <3>1, Parts
    <3>3. p \in Int
      <4> DEFINE a == f[j]
                 w == W(j)
      <4>1. a \in Nat /\ w \in Nat
        BY <1>1, <3>1, WeightOfLimb
      <4> HIDE DEF a, w
      <4>2. a * w \in Int
        BY <4>1
      <4> QED BY <4>2 DEF a, w
    <3>4. Part(f, j) \in Int /\ Part(g, j) \in Int /\ Part(f, j) > Part(g, j)
      BY <1>1, <3>1, Parts
    <3> HIDE DEF p
    <3> QED BY <3>2, <3>3, <3>4
  <2> QED BY <2>1, <2>2
<1> HIDE DEF H
<1>5. H = Nat
  BY <1>3, <1>4, Induction DEF H
<1>6. N \in Nat /\ i < N /\ N <= N
  BY <1>0
<1>7. N \in H
  BY <1>5, <1>6
<1>8. Part(f, N) > Part(g, N)
  BY <1>6, <1>7 DEF H
<1> QED BY <1>1, <1>8, Parts

\* Limbs, all but the top one below 2^B, are determined by their value.
LEMMA ValueUnique ==
  ASSUME NEW f \in [Limb -> Nat], NEW g \in [Limb -> Nat],
         \A i \in Limb \ {N - 1} : f[i] < 2^B /\ g[i] < 2^B, Value(f) = Value(g)
  PROVE  f = g
<1> SUFFICES ASSUME f # g PROVE FALSE
  OBVIOUS
<1>1. \E i \in Limb : f[i] # g[i]
  OBVIOUS
<1>2. PICK i \in Limb : f[i] # g[i] /\ \A j \in i + 1 .. N - 1 : f[j] = g[j]
  BY <1>1, TopDifference
<1>3. f[i] \in Nat /\ g[i] \in Nat /\ \A j \in i + 1 .. N - 1 : g[j] = f[j]
  BY <1>2
<1>4. \A j \in Limb : f[j] \in Int
  OBVIOUS
<1>5. Value(f) \in Int
  BY <1>4, Parts
<1>6. CASE f[i] > g[i]
  <2>1. Value(f) > Value(g)
    BY <1>2, <1>6, ValueOrder
  <2> QED BY <1>5, <2>1
<1>7. CASE g[i] > f[i]
  <2>1. Value(g) > Value(f)
    BY <1>2, <1>3, <1>7, ValueOrder
  <2> QED BY <1>5, <2>1
<1> QED BY <1>2, <1>3, <1>6, <1>7

\* Reduced limbs are the limbs of their value.
LEMMA LimbsOfValue ==
  ASSUME NEW l, Reduced(l)
  PROVE  LimbsOf(Value(l)) = l
<1> DEFINE h == LimbsOf(Value(l))
<1>1. Value(l) \in 0 .. 2^Bits - 1 /\ Passing(l, 2^T - 1)
  BY ReducedPassing
<1>2. Value(l) \in Nat /\ Value(h) = Value(l)
  BY <1>1, ValueOfLimbsOf, PrimeSizes
<1>3. Reduced(h)
  BY <1>2, LimbsOfReduced
<1> HIDE DEF h
<1>4. Passing(h, 2^T - 1)
  BY <1>3, ReducedPassing
<1>5. h = l
  BY <1>1, <1>2, <1>4, ValueUnique DEF Passing
<1> QED BY <1>5 DEF h

\* cmp_var compares the values.
LEMMA CmpVarValue ==
  ASSUME NEW a, Reduced(a), NEW b, Reduced(b)
  PROVE  CmpVar(a, b) = IF Value(a) > Value(b) THEN 1 ELSE IF Value(a) < Value(b) THEN -1 ELSE 0
<1>1. /\ a \in [Limb -> Nat] /\ b \in [Limb -> Nat] /\ Value(a) \in Int /\ Value(b) \in Int
      /\ \A i \in Limb \ {N - 1} : a[i] < 2^B /\ b[i] < 2^B
  <2>1. Passing(a, 2^T - 1) /\ Passing(b, 2^T - 1) /\ Value(a) \in 0 .. 2^Bits - 1 /\ Value(b) \in 0 .. 2^Bits - 1
    BY ReducedPassing
  <2> QED BY <2>1, PrimeSizes DEF Passing
<1>2. CASE a = b
  BY <1>1, <1>2 DEF CmpVar
<1>3. CASE a # b
  <2> DEFINE Top(i) == a[i] # b[i] /\ \A j \in i + 1 .. N - 1 : a[j] = b[j]
             i == CHOOSE i \in Limb : Top(i)
  <2>1. \E k \in Limb : a[k] # b[k]
    BY <1>1, <1>3
  <2>2. \E k \in Limb : Top(k)
    BY <2>1, TopDifference
  <2>3. i \in Limb /\ Top(i)
    BY <2>2
  <2>4. CmpVar(a, b) = IF a[i] > b[i] THEN 1 ELSE -1
    BY <1>3, Zenon DEF CmpVar
  <2>5. a[i] \in Nat /\ b[i] \in Nat /\ a[i] # b[i] /\ \A j \in i + 1 .. N - 1 : a[j] = b[j] /\ b[j] = a[j]
    BY <1>1, <2>3
  <2> HIDE DEF i, Top
  <2>6. CASE a[i] > b[i]
    <3>1. Value(a) > Value(b)
      BY <1>1, <2>3, <2>5, <2>6, ValueOrder
    <3> QED BY <2>4, <2>6, <3>1
  <2>7. CASE b[i] > a[i]
    <3>1. Value(b) > Value(a)
      BY <1>1, <2>3, <2>5, <2>7, ValueOrder
    <3> QED BY <1>1, <2>4, <2>5, <2>7, <3>1
  <2> QED BY <2>5, <2>6, <2>7
<1> QED BY <1>2, <1>3

-----------------------------------------------------------------------------
\* Residues, and the values of negate, mul_int and add.

\* Congruence modulo the prime: remainders, sums and products.
LEMMA CongMod ==
  ASSUME NEW a \in Int, NEW b \in Int
  PROVE  /\ Cong(a, b) <=> a % Prime = b % Prime
         /\ a % Prime \in 0 .. Prime - 1 /\ Cong(a % Prime, a)
<1> DEFINE p == Prime
           u == a \div p
           r == a % p
           v == b \div p
           s == b % p
<1>1. p \in Nat \ {0}
  BY PrimeSizes
<1> HIDE DEF p
<1>2. u \in Int /\ r \in 0 .. p - 1 /\ a = p * u + r /\ v \in Int /\ s \in 0 .. p - 1 /\ b = p * v + s
  BY <1>1
<1> HIDE DEF u, v, r, s
<1>3. ASSUME NEW k \in Int, a = b + k * p PROVE r = s
  <2>1. a = p * (v + k) + s
    <3>1. p * (v + k) = p * v + k * p /\ p * v \in Int /\ k * p \in Int
      BY <1>1, <1>2
    <3> QED BY <1>2, <1>3, <3>1
  <2>2. v + k \in Int
    BY <1>2
  <2>3. a % p = s
    BY <1>1, <1>2, <2>1, <2>2, DivisionUnique
  <2> QED BY <2>3 DEF r
<1>4. ASSUME r = s PROVE \E k \in Int : a = b + k * p
  <2>1. a = b + (u - v) * p
    <3>1. (u - v) * p = p * u - p * v /\ p * u \in Int /\ p * v \in Int
      BY <1>1, <1>2
    <3> QED BY <1>2, <1>4, <3>1
  <2>2. u - v \in Int
    BY <1>2
  <2> QED BY <2>1, <2>2
<1>5. r = a + (0 - u) * p /\ 0 - u \in Int
  BY <1>1, <1>2
<1>6. Cong(a, b) <=> \E k \in Int : a = b + k * p
  BY DEF Cong, p
<1>7. Cong(r, a)
  BY <1>5 DEF Cong, p
<1> QED BY <1>2, <1>3, <1>4, <1>6, <1>7 DEF p, r, s

\* Congruence is symmetric and transitive, and sums and products keep it.
LEMMA CongArithmetic ==
  ASSUME NEW a \in Int, NEW b \in Int, Cong(a, b)
  PROVE  /\ Cong(b, a)
         /\ \A c, d \in Int : Cong(c, d) => Cong(a + c, b + d) /\ Cong(a * c, b * d)
         /\ \A c \in Int : Cong(b, c) => Cong(a, c)
<1> DEFINE p == Prime
<1>1. p \in Nat
  BY PrimeSizes
<1>2. PICK k \in Int : a = b + k * p
  BY DEF Cong
<1>3. Cong(b, a)
  <2>1. b = a + (0 - k) * p /\ 0 - k \in Int
    BY <1>1, <1>2
  <2> QED BY <2>1 DEF Cong
<1>4. ASSUME NEW c \in Int, NEW d \in Int, Cong(c, d)
      PROVE  Cong(a + c, b + d) /\ Cong(a * c, b * d)
  <2>1. PICK j \in Int : c = d + j * p
    BY <1>4 DEF Cong
  <2>2. a + c = (b + d) + (k + j) * p /\ k + j \in Int
    BY <1>1, <1>2, <2>1
  <2>3. a * c = (b * d) + (b * j + k * d + k * j * p) * p /\ b * j + k * d + k * j * p \in Int
    BY <1>1, <1>2, <2>1
  <2> QED BY <2>2, <2>3 DEF Cong
<1>5. ASSUME NEW c \in Int, Cong(b, c) PROVE Cong(a, c)
  <2>1. PICK j \in Int : b = c + j * p
    BY <1>5 DEF Cong
  <2>2. a = c + (k + j) * p /\ k + j \in Int
    BY <1>1, <1>2, <2>1
  <2> QED BY <2>2 DEF Cong
<1> QED BY <1>3, <1>4, <1>5

\* A multiple of the prime makes no difference.
LEMMA CongBy ==
  ASSUME NEW a \in Int, NEW b \in Int, NEW k \in Int, a = b + k * Prime
  PROVE  a % Prime = b % Prime
<1>1. Cong(a, b)
  BY DEF Cong
<1> QED BY <1>1, CongMod

-----------------------------------------------------------------------------
\* The limbs of an element are numbers, and so is its value.
LEMMA BoundedValue ==
  ASSUME NEW m \in 1 .. MaxMagnitude, NEW l, Bounded(l, m)
  PROVE  /\ l \in [Limb -> Nat] /\ Value(l) \in Int
         /\ \A i \in Limb : l[i] \in Nat /\ l[i] \in Int
<1>1. l \in [Limb -> Nat]
  BY DEF Bounded
<1>2. \A i \in Limb : l[i] \in Nat /\ l[i] \in Int
  BY <1>1
<1> QED BY <1>1, <1>2, Parts

\* normalize_weak and normalize keep the residue.
LEMMA NormalizeResidue ==
  ASSUME Wider, NEW m \in 1 .. MaxMagnitude, NEW l, Bounded(l, m)
  PROVE  /\ Value(NormalizeWeak(l)) % Prime = Value(l) % Prime
         /\ Value(Normalize(l)) = Value(l) % Prime
<1> DEFINE t == NormalizeWeak(l)
           z == l[N - 1] \div 2^T
<1>1. Value(l) \in Int /\ Value(t) = Value(l) - z * Prime
  BY BoundedValue, NormalizeWeakValue
<1>2. z \in Nat
  <2> DEFINE a == l[N - 1]
  <2>1. a \in Nat /\ 2^T \in Nat \ {0}
    BY TopIsLimb, Sizes, BoundedValue
  <2> HIDE DEF a
  <2>2. a \div 2^T \in Nat
    BY <2>1, Division
  <2> QED BY <2>2 DEF a
<1>3. Value(t) \in Nat
  BY NormalizeWeakBelow
<1> HIDE DEF t, z
<1>4. Value(t) % Prime = Value(l) % Prime
  <2> DEFINE p == Prime
  <2>1. p \in Nat
    BY PrimeSizes
  <2> HIDE DEF p
  <2>2. (0 - z) * p = 0 - z * p /\ 0 - z \in Int /\ z * p \in Int
    BY <1>2, <2>1
  <2>3. Value(t) = Value(l) + (0 - z) * p
    BY <1>1, <2>2 DEF p
  <2>4. Value(t) \in Int
    BY <1>3
  <2> QED BY <1>1, <2>2, <2>3, <2>4, CongBy DEF p
<1>5. /\ Value(Normalize(l)) \in 0 .. Prime - 1
      /\ Value(Normalize(l)) = Value(t) \/ Value(Normalize(l)) = Value(t) - Prime
  BY NormalizeValue DEF t
<1> DEFINE n == Value(Normalize(l))
           p == Prime
<1>6. n \in Nat /\ n < p /\ p \in Nat \ {0} /\ (n = Value(t) \/ n = Value(t) - p)
  <2>1. Prime \in Nat \ {0}
    BY PrimeSizes
  <2> QED BY <1>5, <2>1
<1> HIDE DEF n, p
<1>7. n % p = n
  BY <1>6, ModBelow
<1>8. n % p = Value(t) % p
  <2>1. n = Value(t) + 0 * p \/ n = Value(t) + (-1) * p
    BY <1>3, <1>6
  <2>2. n \in Int /\ Value(t) \in Int /\ 0 \in Int /\ -1 \in Int
    BY <1>3, <1>6
  <2> QED BY <2>1, <2>2, CongBy DEF p
<1> QED BY <1>4, <1>7, <1>8 DEF n, p, t

\* negate takes the value from a multiple of the prime.
LEMMA NegateValue ==
  ASSUME Wider, NEW m \in 1 .. MaxMagnitude, m < MaxMagnitude, NEW l, Bounded(l, m)
  PROVE  Value(Negate(l, m)) = (2 * (m + 1)) * Prime - Value(l)
<1> DEFINE h == Negate(l, m)
           g == [i \in Limb |-> PLimb(i)]
           k == 2 * (m + 1)
<1>1. \A i \in Limb : h[i] = PLimb(i) * 2 * (m + 1) - l[i]
  BY NegateAgrees
<1>2. k \in Int /\ -1 \in Int /\ m \in Nat
  BY UseAssumption
<1>3. ASSUME NEW i \in Limb PROVE g[i] \in Int /\ l[i] \in Int /\ h[i] = k * g[i] + (-1) * l[i]
  <2> DEFINE a == l[i]
             f == PLimb(i)
  <2>1. a \in Nat /\ f \in Nat /\ g[i] = f /\ h[i] = f * 2 * (m + 1) - a
    BY <1>1, BoundedValue, LimbSizes
  <2> HIDE DEF a, f, g, h
  <2>2. f * 2 * (m + 1) = k * f /\ k * f \in Int
    BY <1>2, <2>1
  <2> HIDE DEF k
  <2> QED BY <2>1, <2>2 DEF a
<1> HIDE DEF g, h, k
<1>4. Value(h) = k * Value(g) + (-1) * Value(l)
  BY <1>2, <1>3, ValueLinear
<1>5. Value(g) = Prime
  BY ValueOfFull DEF g
<1> DEFINE p == k * Prime
<1>6. p \in Int
  BY <1>2, PrimeSizes
<1> HIDE DEF p
<1>7. Value(h) = p - Value(l)
  BY <1>4, <1>5, <1>6, BoundedValue DEF p
<1> QED BY <1>7 DEF h, k, p

\* mul_int multiplies the value.
LEMMA MulIntValue ==
  ASSUME Wider, NEW m \in 1 .. MaxMagnitude, NEW k \in Nat \ {0}, m * k <= MaxMagnitude,
         NEW l, Bounded(l, m)
  PROVE  Value(MulInt(l, k)) = Value(l) * k
<1> DEFINE h == MulInt(l, k)
<1>1. \A i \in Limb : h[i] = l[i] * k
  BY MulIntAgrees
<1>2. k \in Int /\ 0 \in Int
  OBVIOUS
<1>3. ASSUME NEW i \in Limb PROVE l[i] \in Int /\ l[i] \in Int /\ h[i] = k * l[i] + 0 * l[i]
  <2> DEFINE a == l[i]
  <2>1. a \in Nat /\ h[i] = a * k
    BY <1>1, BoundedValue
  <2> HIDE DEF a, h
  <2> QED BY <2>1 DEF a
<1> HIDE DEF h
<1>4. Value(h) = k * Value(l) + 0 * Value(l)
  BY <1>2, <1>3, ValueLinear
<1>5. Value(l) \in Int
  BY BoundedValue
<1>6. Value(h) = Value(l) * k
  BY <1>4, <1>5
<1> QED BY <1>6 DEF h

\* add adds the values.
LEMMA AddValue ==
  ASSUME Wider, NEW m \in 1 .. MaxMagnitude, NEW n \in 1 .. MaxMagnitude, m + n <= MaxMagnitude,
         NEW l, Bounded(l, m), NEW h, Bounded(h, n)
  PROVE  Value(Add(l, h)) = Value(l) + Value(h)
<1> DEFINE r == Add(l, h)
<1>1. \A i \in Limb : r[i] = l[i] + h[i]
  BY AddAgrees
<1>2. ASSUME NEW i \in Limb PROVE l[i] \in Int /\ h[i] \in Int /\ r[i] = 1 * l[i] + 1 * h[i]
  <2>1. l[i] \in Nat /\ h[i] \in Nat
    BY BoundedValue
  <2> HIDE DEF r
  <2> QED BY <1>1, <2>1
<1>3. 1 \in Int
  OBVIOUS
<1> HIDE DEF r
<1>4. Value(r) = 1 * Value(l) + 1 * Value(h)
  BY <1>2, <1>3, ValueLinear
<1>5. Value(l) \in Int /\ Value(h) \in Int
  BY BoundedValue
<1>6. Value(r) = Value(l) + Value(h)
  BY <1>4, <1>5
<1> QED BY <1>6 DEF r

\* The test for zero, after a pass of normalize_weak, is one of the value.
LEMMA NormalizesToZeroValue ==
  ASSUME Wider, NEW m \in 1 .. MaxMagnitude, NEW l, Bounded(l, m)
  PROVE  NormalizesToZero(l) <=> Value(l) % Prime = 0
<1> DEFINE t == NormalizeWeak(l)
           o == [i \in Limb |-> 0]
           g == [i \in Limb |-> PLimb(i)]
           p == Prime
<1>1. /\ t \in [Limb -> Nat] /\ \A i \in Limb \ {N - 1} : t[i] < 2^B
      /\ Value(t) \in Nat /\ Value(t) + 2 * CC < 2 * 2^Bits
  BY NormalizeWeakBelow DEF Passing
<1>2. Value(t) % p = Value(l) % p
  BY NormalizeResidue
<1>3. NormalizesToZero(l) <=> t = o \/ t = g
  <2>1. IsZero(t) <=> t = o
    BY <1>1 DEF IsZero
  <2>2. IsP(t) <=> t = g
    BY <1>1 DEF IsP
  <2>3. NormalizesToZero(l) <=> IsZero(t) \/ IsP(t)
    BY DEF NormalizesToZero
  <2> HIDE DEF t, o, g
  <2> QED BY <2>1, <2>2, <2>3
<1> HIDE DEF t
<1>4. o \in [Limb -> Nat] /\ \A i \in Limb \ {N - 1} : o[i] < 2^B
  BY Sizes
<1>5. Value(o) = 0
  <2> DEFINE h == [j \in 0 .. N |-> 0]
  <2>1. ASSUME NEW i \in Limb PROVE h[i + 1] = h[i] + o[i] * W(i)
    <3>1. i \in 0 .. N /\ i + 1 \in 0 .. N /\ W(i) \in Nat
      BY TopIsLimb, WeightOfLimb
    <3>2. h[i] = 0 /\ h[i + 1] = 0 /\ o[i] = 0
      BY <3>1
    <3> HIDE DEF h, o
    <3> QED BY <3>1, <3>2
  <2>2. h[0] = 0 /\ h[N] = 0
    BY TopIsLimb
  <2> HIDE DEF h, o
  <2> QED BY <2>1, <2>2, ValueIs
<1>6. g \in [Limb -> Nat] /\ \A i \in Limb \ {N - 1} : g[i] < 2^B
  <2>1. ASSUME NEW i \in Limb PROVE PLimb(i) \in Nat /\ PLimb(i) < 2^B
    <3>1. PLimb(i) \in Nat /\ Full(i) \in Nat /\ PLimb(i) <= Full(i) /\ Full(i) < 2^B /\ 2^B \in Nat
      BY LimbSizes, Sizes
    <3> QED BY <3>1
  <2> QED BY <2>1
<1>7. Value(g) = p
  BY ValueOfFull
<1> HIDE DEF o, g
<1>8. t = o <=> Value(t) = 0
  <2>1. ASSUME Value(t) = 0 PROVE t = o
    <3>1. \A i \in Limb \ {N - 1} : t[i] < 2^B /\ o[i] < 2^B
      BY <1>1, <1>4
    <3>2. Value(t) = Value(o)
      BY <1>5, <2>1
    <3> QED BY <1>1, <1>4, <3>1, <3>2, ValueUnique
  <2> QED BY <1>5, <2>1
<1>9. t = g <=> Value(t) = p
  <2>1. ASSUME Value(t) = p PROVE t = g
    <3>1. \A i \in Limb \ {N - 1} : t[i] < 2^B /\ g[i] < 2^B
      BY <1>1, <1>6
    <3>2. Value(t) = Value(g)
      BY <1>7, <2>1
    <3> QED BY <1>1, <1>6, <3>1, <3>2, ValueUnique
  <2> QED BY <1>7, <2>1
<1>10. Value(t) = 0 \/ Value(t) = p <=> Value(t) % p = 0
  <2> DEFINE v == Value(t)
             q == v \div p
  <2>1. v \in Nat /\ p \in Nat \ {0} /\ v < 2 * p /\ 2 \in Nat
    BY <1>1, PrimeSizes
  <2> HIDE DEF v, p
  <2>2. v = (p * q) + (v % p) /\ q \in Nat /\ q < 2
    BY <2>1, Division, DivBelow
  <2>3. v % p = 0 => v = 0 \/ v = p
    <3>1. q = 0 \/ q = 1
      BY <2>2
    <3> HIDE DEF q
    <3> QED BY <2>1, <2>2, <3>1
  <2>4. v = 0 => v % p = 0
    BY <2>1
  <2>5. v = p => v % p = 0
    <3>1. p % p = 0
      <4>1. 0 \in 0 .. p - 1 /\ 1 \in Int /\ p = p * 1 + 0
        BY <2>1
      <4> QED BY <2>1, <4>1, DivisionUnique
    <3> QED BY <3>1
  <2> QED BY <2>3, <2>4, <2>5 DEF v
<1> QED BY <1>2, <1>3, <1>8, <1>9, <1>10 DEF p

-----------------------------------------------------------------------------
\* Bits of numbers.

\* A number is the sum of its bits.
LEMMA SumOfBits ==
  ASSUME NEW w \in Nat, NEW v \in Nat, v < 2^w, NEW f, \A j \in 0 .. w - 1 : f[j] = ((v \div 2^j) % 2) * 2^j
  PROVE  Total(f, w) = v
<1> DEFINE h == [j \in 0 .. w |-> v % 2^j]
<1>1. h[0] = 0
  BY PowerZero
<1>2. ASSUME NEW j \in 0 .. w - 1 PROVE h[j + 1] = h[j] + f[j]
  <2>1. j \in Nat /\ j \in 0 .. w /\ j + 1 \in 0 .. w
    OBVIOUS
  <2>2. h[j] = v % 2^j /\ h[j + 1] = v % 2^(j + 1)
    BY <2>1
  <2> HIDE DEF h
  <2>3. 2^(j + 1) = 2^j * 2 /\ 2^j \in Nat \ {0}
    BY <2>1, PowerNext, PowerIsNat
  <2>4. v % (2^j * 2) = (v % 2^j) + ((v \div 2^j) % 2) * 2^j
    <3> DEFINE e == 2^j
    <3>1. e \in Nat \ {0} /\ 2 \in Nat \ {0}
      BY <2>3
    <3> HIDE DEF e
    <3>2. v % (e * 2) = (v % e) + ((v \div e) % 2) * e
      BY <3>1, RemainderByProduct
    <3> QED BY <3>2 DEF e
  <2> QED BY <2>2, <2>3, <2>4
<1>3. h[w] = v
  <2>1. h[w] = v % 2^w
    OBVIOUS
  <2> QED BY <2>1, PowerIsNat, ModBelow
<1> HIDE DEF h
<1>4. \A j \in 0 .. w : Total(f, j) = h[j]
  BY <1>1, <1>2, TotalIs
<1> QED BY <1>3, <1>4

\* A sum of bits is below the next power of two.
LEMMA BitsBelow ==
  ASSUME NEW n \in Nat, NEW f, NEW b, \A j \in 0 .. n - 1 : b[j] \in {0, 1} /\ f[j] = b[j] * 2^j
  PROVE  \A j \in 0 .. n : Total(f, j) \in 0 .. 2^j - 1
<1> DEFINE H == {j \in Nat : j <= n => Total(f, j) \in 0 .. 2^j - 1}
<1>1. 0 \in H
  BY TotalStep, PowerZero
<1>2. ASSUME NEW j \in H PROVE j + 1 \in H
  <2> SUFFICES ASSUME j + 1 <= n PROVE Total(f, j + 1) \in 0 .. 2^(j + 1) - 1
    OBVIOUS
  <2>1. j \in Nat /\ j \in 0 .. n - 1 /\ j <= n
    OBVIOUS
  <2>2. Total(f, j + 1) = Total(f, j) + f[j] /\ Total(f, j) \in 0 .. 2^j - 1
    BY <2>1, TotalStep
  <2>3. 2^(j + 1) = 2 * 2^j /\ 2^j \in Nat \ {0}
    BY <2>1, PowerNext, PowerIsNat
  <2>4. f[j] = 0 \/ f[j] = 2^j
    BY <2>1, <2>3
  <2> QED BY <2>2, <2>3, <2>4
<1> HIDE DEF H
<1>3. H = Nat
  BY <1>1, <1>2, Induction DEF H
<1> QED BY <1>3 DEF H

\* A bit of a sum of bits is the one that was added there.
LEMMA BitOfSum ==
  ASSUME NEW n \in Nat, NEW f, NEW b, \A j \in 0 .. n - 1 : b[j] \in {0, 1} /\ f[j] = b[j] * 2^j,
         NEW m \in 0 .. n - 1
  PROVE  (Total(f, n) \div 2^m) % 2 = b[m]
<1> DEFINE r == Total(f, m)
           e == 2^m
           Above(j, q) == Total(f, j) = e * (2 * q + b[m]) + r
           H == {j \in Nat : m < j /\ j <= n => \E q \in Nat : Above(j, q)}
<1>0. m \in Nat /\ m \in 0 .. n /\ m + 1 <= n /\ b[m] \in {0, 1} /\ f[m] = b[m] * e
  OBVIOUS
<1>1. r \in 0 .. e - 1 /\ e \in Nat \ {0}
  BY <1>0, BitsBelow, PowerIsNat
<1>2. Total(f, m + 1) = r + b[m] * e
  BY <1>0, TotalStep
<1> HIDE DEF r, e
<1>3. 0 \in H
  BY <1>0
<1>4. ASSUME NEW j \in H PROVE j + 1 \in H
  <2> SUFFICES ASSUME m < j + 1, j + 1 <= n PROVE \E q \in Nat : Above(j + 1, q)
    OBVIOUS
  <2>1. j \in Nat /\ j \in 0 .. n - 1 /\ j <= n
    OBVIOUS
  <2>2. CASE j = m
    <3>1. Above(j + 1, 0)
      BY <1>0, <1>1, <1>2, <2>2
    <3> QED BY <3>1
  <2>3. CASE m < j
    <3>1. PICK q \in Nat : Above(j, q)
      BY <2>1, <2>3
    <3> DEFINE k == j - (m + 1)
               g == 2^k
    <3>2. k \in Nat /\ j = (m + 1) + k
      BY <1>0, <2>1, <2>3
    <3> HIDE DEF k
    <3>3. 2^j = (2 * e) * g /\ g \in Nat
      <4>1. 2^((m + 1) + k) = 2^(m + 1) * 2^k
        <5>1. m + 1 \in Nat
          BY <1>0
        <5> QED BY <3>2, <5>1, PowerSum
      <4>2. 2^(m + 1) = 2 * e
        BY <1>0, PowerNext DEF e
      <4> QED BY <3>2, <4>1, <4>2, PowerIsNat DEF g
    <3> HIDE DEF g
    <3>4. Total(f, j + 1) = Total(f, j) + b[j] * 2^j /\ b[j] \in {0, 1}
      BY <2>1, TotalStep
    <3>5. CASE b[j] = 0
      <4>1. 0 * 2^j = 0
        BY <2>1, PowerIsNat
      <4>2. Total(f, j) \in Int
        BY <1>0, <1>1, <3>1
      <4>3. Above(j + 1, q)
        BY <3>1, <3>4, <3>5, <4>1, <4>2
      <4> QED BY <4>3
    <3>6. CASE b[j] = 1
      <4>1. Total(f, j + 1) = (e * (2 * q + b[m]) + r) + (2 * e) * g
        <5>1. (2 * e) * g \in Nat
          <6>1. 2 * e \in Nat
            BY <1>1
          <6> QED BY <3>3, <6>1, ProductOf
        <5> QED BY <3>1, <3>3, <3>4, <3>6, <5>1
      <4>2. e * (2 * (q + g) + b[m]) = e * (2 * q + b[m]) + (2 * e) * g
        BY <1>0, <1>1, <3>3
      <4>3. e * (2 * q + b[m]) \in Int /\ (2 * e) * g \in Int
        BY <1>0, <1>1, <3>3
      <4>4. Above(j + 1, q + g)
        BY <1>1, <4>1, <4>2, <4>3
      <4>5. q + g \in Nat
        BY <3>3
      <4> HIDE DEF Above
      <4> QED BY <4>4, <4>5
    <3> QED BY <3>4, <3>5, <3>6
  <2> QED BY <1>0, <2>1, <2>2, <2>3
<1> HIDE DEF H
<1>5. H = Nat
  BY <1>3, <1>4, Induction DEF H
<1>6. PICK q \in Nat : Above(n, q)
  BY <1>0, <1>5 DEF H
<1>7. Total(f, n) \div e = 2 * q + b[m]
  <2>1. 2 * q + b[m] \in Int
    BY <1>0
  <2> QED BY <1>1, <1>6, <2>1, DivisionUnique
<1>8. (2 * q + b[m]) % 2 = b[m]
  BY <1>0
<1> QED BY <1>7, <1>8 DEF e

\* A digit and a place in it make a place in the number, and back.
LEMMA PlaceOf ==
  ASSUME NEW w \in Nat \ {0}, NEW i \in Nat, NEW j \in 0 .. w - 1
  PROVE  (w * i + j) \div w = i /\ (w * i + j) % w = j /\ w * i + j \in Nat
<1>1. w * i \in Nat /\ i \in Int
  BY ProductOf
<1>2. w * i + j \in Nat
  BY <1>1
<1> DEFINE k == w * i + j
<1>3. k = w * i + j
  OBVIOUS
<1> HIDE DEF k
<1>4. k \div w = i /\ k % w = j
  BY <1>1, <1>3, DivisionUnique
<1> QED BY <1>2, <1>4 DEF k

\* Every bit of an element has its digit.
LEMMA DigitOfBit ==
  ASSUME NEW w \in Nat \ {0}, NEW n \in Nat, NEW k \in 0 .. n - 1
  PROVE  /\ k \div w \in 0 .. ((n + w - 1) \div w) - 1 /\ k % w \in 0 .. w - 1
         /\ k = w * (k \div w) + (k % w) /\ k \div w \in Nat
<1> DEFINE i == k \div w
           j == k % w
<1>1. i \in Nat /\ j \in 0 .. w - 1 /\ k = w * i + j
  <2>1. k \in Nat
    OBVIOUS
  <2> QED BY <2>1, Division
<1> HIDE DEF i, j
<1>2. w * (i + 1) = w * i + w /\ w * i \in Nat
  BY <1>1
<1>3. w * (i + 1) <= n + w - 1 /\ w * (i + 1) \in Nat /\ n + w - 1 \in Nat
  BY <1>1, <1>2
<1>4. (w * (i + 1)) \div w = i + 1
  <2>1. 0 \in 0 .. w - 1 /\ i + 1 \in Nat
    BY <1>1
  <2>2. (w * (i + 1) + 0) \div w = i + 1
    BY <2>1, PlaceOf
  <2> QED BY <1>3, <2>2
<1>5. i + 1 <= (n + w - 1) \div w /\ (n + w - 1) \div w \in Nat
  <2>1. (w * (i + 1)) \div w <= (n + w - 1) \div w
    BY <1>3, DivMono
  <2>2. (n + w - 1) \div w \in Nat
    BY <1>3, Division
  <2> QED BY <1>4, <2>1, <2>2
<1> QED BY <1>1, <1>5 DEF i, j

-----------------------------------------------------------------------------
\* The byte and the storage form: the bits of a number grouped anew.

\* The term of bit j in digit i of the digits of w bits that v groups anew.
BitTerm(f, v, w, i, j) == IF w * i + j < Bits THEN BitOf(f, v, w * i + j) * 2^j ELSE 0

\* Digit i of the digits of w bits is the sum of its bits.
LEMMA RegroupIs ==
  ASSUME NEW f, NEW v, NEW w
  PROVE  Regroup(f, v, w) = [i \in 0 .. ((Bits + w - 1) \div w) - 1 |->
                              Total([j \in 0 .. w - 1 |-> BitTerm(f, v, w, i, j)], w)]
BY DEF Regroup, Digit, BitTerm

\* A bit is zero or one.
LEMMA BitIsBit ==
  ASSUME NEW f, NEW v, NEW k, f[k \div v] \in Nat, k % v \in Nat
  PROVE  BitOf(f, v, k) \in {0, 1}
<1> DEFINE e == 2^(k % v)
           a == f[k \div v]
<1>1. e \in Nat \ {0} /\ a \in Nat
  BY PowerIsNat
<1> HIDE DEF e, a
<1>2. a \div e \in Nat
  BY <1>1, Division
<1>3. (a \div e) % 2 \in {0, 1}
  BY <1>2
<1> QED BY <1>3 DEF BitOf, e, a

\* The number of bits.
LEMMA BitsIsNat == Bits \in Nat /\ Bits = B * (N - 1) + T /\ B \in Nat \ {0} /\ T \in 1 .. B
<1>1. B \in Nat /\ T \in Nat /\ T <= B /\ N - 1 \in Nat
  BY ShapeAssumption
<1>2. B * (N - 1) \in Nat
  BY <1>1, ProductOf
<1>3. T # 0
  <2>1. 2^T >= 5 /\ 2^T \in Nat
    BY Sizes
  <2>2. T = 0 => 2^T = 1
    BY PowerZero
  <2> QED BY <2>1, <2>2
<1> QED BY <1>1, <1>2, <1>3 DEF Bits

\* To regroup bits changes none of them.
LEMMA RegroupKeepsBits ==
  ASSUME NEW f, NEW v, NEW w \in Nat \ {0}, \A k \in 0 .. Bits - 1 : BitOf(f, v, k) \in {0, 1},
         NEW k \in 0 .. Bits - 1
  PROVE  BitOf(Regroup(f, v, w), w, k) = BitOf(f, v, k)
<1> DEFINE i == k \div w
           m == k % w
           g == [j \in 0 .. w - 1 |-> BitTerm(f, v, w, i, j)]
           b == [j \in 0 .. w - 1 |-> IF w * i + j < Bits THEN BitOf(f, v, w * i + j) ELSE 0]
<1>1. /\ i \in 0 .. ((Bits + w - 1) \div w) - 1 /\ m \in 0 .. w - 1
      /\ k = w * i + m /\ i \in Nat
  BY BitsIsNat, DigitOfBit
<1> HIDE DEF i, m
<1>2. Regroup(f, v, w)[i] = Total(g, w)
  BY <1>1, RegroupIs
<1>3. ASSUME NEW j \in 0 .. w - 1 PROVE b[j] \in {0, 1} /\ g[j] = b[j] * 2^j
  <2>1. w * i + j \in Nat
    BY <1>1, PlaceOf
  <2>2. 2^j \in Nat
    BY PowerIsNat
  <2>3. CASE w * i + j < Bits
    <3>1. w * i + j \in 0 .. Bits - 1
      BY <2>1, <2>3, BitsIsNat
    <3> QED BY <2>3, <3>1 DEF BitTerm
  <2>4. CASE ~(w * i + j < Bits)
    <3>1. b[j] = 0 /\ g[j] = 0
      BY <2>4 DEF BitTerm
    <3> HIDE DEF b, g
    <3> QED BY <2>2, <3>1
  <2> QED BY <2>3, <2>4
<1>4. b[m] = BitOf(f, v, k)
  BY <1>1, BitsIsNat
<1> HIDE DEF g, b
<1>5. (Total(g, w) \div 2^m) % 2 = b[m]
  BY <1>1, <1>3, BitOfSum
<1>6. BitOf(Regroup(f, v, w), w, k) = (Total(g, w) \div 2^m) % 2
  BY <1>2 DEF BitOf, i, m
<1> QED BY <1>4, <1>5, <1>6

\* A place below the top of the top limb is below the number of bits.
LEMMA PlaceOfLimb ==
  ASSUME NEW i \in Limb, NEW j \in 0 .. B - 1
  PROVE  /\ (B * i + j < Bits) <=> (i # N - 1 \/ j < T)
         /\ (B * i + j) \div B = i /\ (B * i + j) % B = j /\ B * i + j \in Nat
<1>1. i \in Nat /\ i <= N - 1 /\ N - 1 \in Nat /\ B \in Nat \ {0} /\ T \in 1 .. B
  BY TopIsLimb, BitsIsNat
<1>2. (B * i + j) \div B = i /\ (B * i + j) % B = j /\ B * i + j \in Nat
  BY <1>1, PlaceOf
<1>3. Bits = B * (N - 1) + T /\ B * (N - 1) \in Nat /\ B * i \in Nat
  BY <1>1, BitsIsNat, ProductOf
<1>4. CASE i = N - 1
  <2> DEFINE q == B * (N - 1)
  <2>1. B * i = q /\ q \in Nat /\ Bits = q + T /\ j \in Int /\ T \in Int
    BY <1>1, <1>3, <1>4
  <2>2. B * i + j < Bits <=> j < T
    <3> HIDE DEF q
    <3> QED BY <2>1
  <2> QED BY <1>2, <1>4, <2>2
<1>5. CASE i # N - 1
  <2>1. i + 1 <= N - 1 /\ i + 1 \in Nat
    BY <1>1, <1>5
  <2>2. (i + 1) * B <= (N - 1) * B
    BY <1>1, <2>1, Times
  <2>3. (i + 1) * B = B * i + B /\ (N - 1) * B = B * (N - 1)
    BY <1>1
  <2> DEFINE p == B * i
             q == B * (N - 1)
  <2>4. p + B <= q /\ p \in Nat /\ q \in Nat /\ Bits = q + T /\ B \in Nat /\ T \in Nat
    BY <1>1, <1>3, <2>2, <2>3
  <2>5. p + j < Bits
    <3> HIDE DEF p, q
    <3> QED BY <2>4
  <2> QED BY <1>2, <1>5, <2>5
<1> QED BY <1>2, <1>4, <1>5

\* The number of limbs is what the bits need.
LEMMA LimbsNeeded == ((Bits + B - 1) \div B) - 1 = N - 1
<1>1. B \in Nat \ {0} /\ T \in 1 .. B /\ Bits = B * (N - 1) + T /\ N \in Nat /\ N >= 4
  BY BitsIsNat, TopIsLimb
<1> DEFINE q == N - 1
           a == Bits + B - 1
           r == T - 1
<1>2. q \in Nat /\ r \in 0 .. B - 1 /\ q + 1 = N
  BY <1>1
<1>3. B * (q + 1) = B * q + B /\ B * q \in Nat
  BY <1>1, <1>2
<1>4. a = B * (q + 1) + r
  BY <1>1, <1>3
<1> HIDE DEF q, a, r
<1>5. a \div B = q + 1
  <2>1. q + 1 \in Int /\ B \in Nat \ {0} /\ r \in 0 .. B - 1
    BY <1>1, <1>2
  <2> QED BY <1>4, <2>1, DivisionUnique
<1> QED BY <1>2, <1>5 DEF q, a

\* What has the bits of a reduced element gives its limbs.
LEMMA RegroupBack ==
  ASSUME NEW l, Reduced(l), NEW f, NEW v, \A k \in 0 .. Bits - 1 : BitOf(f, v, k) = BitOf(l, B, k)
  PROVE  Regroup(f, v, B) = l
<1>1. Regroup(f, v, B) = [i \in Limb |-> Total([j \in 0 .. B - 1 |-> BitTerm(f, v, B, i, j)], B)]
  BY RegroupIs, LimbsNeeded DEF Limb
<1>2. ASSUME NEW i \in Limb
      PROVE  Total([j \in 0 .. B - 1 |-> BitTerm(f, v, B, i, j)], B) = l[i]
  <2> DEFINE g == [j \in 0 .. B - 1 |-> BitTerm(f, v, B, i, j)]
             a == l[i]
  <2>1. B \in Nat /\ a \in Nat /\ a < 2^B /\ (i = N - 1 => a < 2^T)
    <3>1. l[i] \in Nat /\ l[i] <= Full(i) /\ Full(i) \in Nat /\ Full(i) < 2^B
      BY LimbSizes DEF Reduced
    <3>2. 2^B \in Nat /\ 2^T \in Nat /\ Full(N - 1) = 2^T - 1
      BY Sizes, TopIsLimb
    <3> QED BY <3>1, <3>2, BitsIsNat
  <2>2. ASSUME NEW j \in 0 .. B - 1 PROVE g[j] = ((a \div 2^j) % 2) * 2^j
    <3>1. /\ (B * i + j < Bits) <=> (i # N - 1 \/ j < T)
          /\ (B * i + j) \div B = i /\ (B * i + j) % B = j /\ B * i + j \in Nat
      BY PlaceOfLimb
    <3>2. CASE B * i + j < Bits
      <4>1. B * i + j \in 0 .. Bits - 1
        BY <3>1, <3>2, BitsIsNat
      <4>2. BitOf(f, v, B * i + j) = (a \div 2^j) % 2
        BY <3>1, <4>1 DEF BitOf
      <4> QED BY <3>2, <4>2 DEF BitTerm
    <3>3. CASE ~(B * i + j < Bits)
      <4>1. g[j] = 0 /\ i = N - 1 /\ T <= j
        BY <3>1, <3>3, BitsIsNat DEF BitTerm
      <4> DEFINE e == 2^j
      <4>2. e \in Nat \ {0} /\ a < e
        <5>1. 2^T <= 2^j /\ 2^j \in Nat \ {0} /\ 2^T \in Nat
          BY <4>1, BitsIsNat, PowerMono, PowerIsNat
        <5> QED BY <2>1, <4>1, <5>1
      <4> HIDE DEF e, a, g
      <4>3. a \div e = 0
        <5>1. a = e * 0 + a /\ a \in 0 .. e - 1 /\ 0 \in Int
          BY <2>1, <4>2
        <5> QED BY <4>2, <5>1, DivisionUnique
      <4>4. (0 % 2) * e = 0
        BY <4>2
      <4> QED BY <4>1, <4>3, <4>4 DEF e
    <3> QED BY <3>2, <3>3
  <2> HIDE DEF g, a
  <2>3. Total(g, B) = a
    BY <2>1, <2>2, SumOfBits
  <2> QED BY <2>3 DEF g, a
<1>3. l \in [Limb -> Nat]
  BY DEF Reduced
<1> QED BY <1>1, <1>2, <1>3

\* Two changes of the byte order are none.
LEMMA TwiceBigEndian ==
  ASSUME NEW f, NEW k \in 0 .. Bits - 1
  PROVE  BitOf(BigEndian(BigEndian(f)), ByteBits, k) = BitOf(f, ByteBits, k)
<1> DEFINE i == k \div ByteBits
<1>0. ByteBits \in Nat \ {0} /\ Bits % ByteBits = 0 /\ Bits \in Nat
  BY FormAssumption, BitsIsNat
<1>1. i \in 0 .. Bytes - 1 /\ Bytes \in Nat
  <2>1. k \in Nat /\ k < Bits
    BY <1>0
  <2>2. Bits = ByteBits * (Bits \div ByteBits) + (Bits % ByteBits) /\ Bits \div ByteBits \in Nat
    BY <1>0, Division
  <2>3. Bytes \in Nat /\ Bits = Bytes * ByteBits
    BY <1>0, <2>2 DEF Bytes
  <2>4. k \div ByteBits < Bytes /\ k \div ByteBits \in Nat
    BY <1>0, <2>1, <2>3, DivBelow, Division
  <2> QED BY <2>3, <2>4
<1> HIDE DEF i
<1>2. Bytes - 1 - i \in 0 .. Bytes - 1 /\ Bytes - 1 - (Bytes - 1 - i) = i
  BY <1>1
<1>3. BigEndian(BigEndian(f))[i] = f[i]
  BY <1>1, <1>2 DEF BigEndian
<1> QED BY <1>3 DEF BitOf, i

\* The bits of a reduced element.
LEMMA BitsOfReduced ==
  ASSUME NEW l, Reduced(l), NEW k \in 0 .. Bits - 1
  PROVE  BitOf(l, B, k) \in {0, 1}
<1>1. B \in Nat \ {0} /\ Bits \in Nat /\ k \in Nat
  BY BitsIsNat
<1>2. k \div B \in Limb /\ k % B \in Nat
  BY <1>1, DigitOfBit, LimbsNeeded DEF Limb
<1>3. l[k \div B] \in Nat
  BY <1>2 DEF Reduced
<1> QED BY <1>2, <1>3, BitIsBit

\* An element that is reduced comes back from the storage form, and from bytes.
LEMMA FormsGiveBack ==
  ASSUME NEW l, Reduced(l)
  PROVE  FromStorage(ToStorage(l)) = l /\ SetB32(GetB32(l)).r = l /\ SetB32(GetB32(l)).ok = ~AtLeastP(l)
<1>0. ByteBits \in Nat \ {0} /\ StoreBits \in Nat \ {0}
  BY FormAssumption
<1>1. \A k \in 0 .. Bits - 1 : BitOf(l, B, k) \in {0, 1}
  BY BitsOfReduced
<1>2. \A k \in 0 .. Bits - 1 : BitOf(Regroup(l, B, StoreBits), StoreBits, k) = BitOf(l, B, k)
  BY <1>0, <1>1, RegroupKeepsBits
<1>3. FromStorage(ToStorage(l)) = l
  BY <1>2, RegroupBack DEF FromStorage, ToStorage
<1> DEFINE g == Regroup(l, B, ByteBits)
<1>4. \A k \in 0 .. Bits - 1 : BitOf(g, ByteBits, k) = BitOf(l, B, k)
  BY <1>0, <1>1, RegroupKeepsBits
<1> HIDE DEF g
<1>5. \A k \in 0 .. Bits - 1 : BitOf(BigEndian(BigEndian(g)), ByteBits, k) = BitOf(l, B, k)
  BY <1>4, TwiceBigEndian
<1>6. Regroup(BigEndian(BigEndian(g)), ByteBits, B) = l
  BY <1>5, RegroupBack
<1>7. GetB32(l) = BigEndian(g)
  BY DEF GetB32, g
<1> QED BY <1>3, <1>6, <1>7 DEF SetB32

-----------------------------------------------------------------------------
\* LimbsFaithful: what the code says of an element is what its number says.

\* An element of zeros is worth nothing, and is the only one that is reduced and below the prime.
LEMMA ZeroValue ==
  ASSUME NEW l, Reduced(l)
  PROVE  IsZero(l) <=> Value(l) = 0
<1> DEFINE z == [i \in Limb |-> 0]
           h == [j \in 0 .. N |-> 0]
<1>0. N \in Nat /\ N >= 4 /\ Limb = 0 .. N - 1 /\ 2^B \in Nat \ {0}
  BY TopIsLimb, Sizes
<1>1. Value(z) = 0
  <2>1. h[0] = 0 /\ h[N] = 0
    BY <1>0
  <2>2. ASSUME NEW i \in Limb PROVE h[i + 1] = h[i] + z[i] * W(i)
    <3>1. i \in 0 .. N /\ i + 1 \in 0 .. N
      BY <1>0
    <3>2. h[i + 1] = 0 /\ h[i] = 0 /\ z[i] = 0
      BY <3>1
    <3>3. 0 * W(i) = 0
      BY WeightOfLimb
    <3> HIDE DEF h, z
    <3> QED BY <3>2, <3>3
  <2> HIDE DEF h, z
  <2> QED BY <2>1, <2>2, ValueIs
<1>2. IsZero(l) => Value(l) = 0
  <2> SUFFICES ASSUME IsZero(l) PROVE Value(l) = 0
    OBVIOUS
  <2>1. \A i \in Limb : l[i] = z[i]
    BY DEF IsZero
  <2> HIDE DEF z
  <2> QED BY <1>1, <2>1, ValueSame
<1>3. Value(l) = 0 => IsZero(l)
  <2> SUFFICES ASSUME Value(l) = 0 PROVE IsZero(l)
    OBVIOUS
  <2>1. l \in [Limb -> Nat] /\ z \in [Limb -> Nat]
    BY DEF Reduced
  <2>2. \A i \in Limb \ {N - 1} : l[i] < 2^B /\ z[i] < 2^B
    <3>1. ASSUME NEW i \in Limb \ {N - 1} PROVE l[i] < 2^B /\ z[i] < 2^B
      <4>1. l[i] \in Nat /\ l[i] <= Full(i) /\ Full(i) \in Nat /\ Full(i) < 2^B
        BY LimbSizes DEF Reduced
      <4>2. z[i] = 0
        OBVIOUS
      <4> QED BY <1>0, <4>1, <4>2
    <3> QED BY <3>1
  <2>3. l = z
    <3> HIDE DEF z
    <3> QED BY <1>1, <2>1, <2>2, ValueUnique
  <2> QED BY <2>3 DEF IsZero
<1> QED BY <1>2, <1>3

\* A reduced element is odd when its lowest limb is.
LEMMA OddValue ==
  ASSUME NEW l, Reduced(l)
  PROVE  IsOdd(l) <=> Value(l) % 2 = 1
<1> DEFINE v == Value(l)
           b == 2^(B - 1)
<1>1. v \in Nat
  BY ReducedPassing, Weights
<1>2. b \in Nat \ {0} /\ 2^B = 2 * b
  <2>1. B - 1 \in Nat /\ B = (B - 1) + 1
    BY BitsIsNat
  <2>2. 2^((B - 1) + 1) = 2 * 2^(B - 1)
    BY <2>1, PowerNext
  <2> QED BY <2>1, <2>2, PowerIsNat
<1>3. l[0] = v % 2^B
  <2>1. l[0] = LimbsOf(v)[0]
    BY LimbsOfValue
  <2>2. 0 \in Limb /\ 0 # N - 1 /\ B * 0 = 0
    BY TopIsLimb, BitsIsNat
  <2>3. LimbsOf(v)[0] = (v \div 2^0) % 2^B
    BY <2>2 DEF LimbsOf
  <2>4. v \div 2^0 = v
    <3> HIDE DEF v
    <3> QED BY <1>1, PowerZero
  <2> QED BY <2>1, <2>3, <2>4
<1> HIDE DEF v, b
<1>4. v % (2 * b) = (v % 2) + ((v \div 2) % b) * 2
  <2>1. 2 \in Nat \ {0}
    OBVIOUS
  <2> QED BY <1>1, <1>2, <2>1, RemainderByProduct
<1>5. (v \div 2) % b \in Nat /\ v % 2 \in {0, 1}
  BY <1>1, <1>2
<1> DEFINE q == (v \div 2) % b
           r == v % 2
<1>6. q \in Nat /\ r \in {0, 1} /\ l[0] = r + q * 2
  BY <1>2, <1>3, <1>4, <1>5
<1>7. l[0] % 2 = r
  <2> HIDE DEF q, r
  <2> QED BY <1>6
<1> QED BY <1>7 DEF IsOdd, v

\* A normalized element has the limbs of its value, which is below the prime.
LEMMA NormalizedValue ==
  ASSUME NEW e, Fits(e), e.n
  PROVE  /\ Reduced(e.l) /\ ~AtLeastP(e.l) /\ Value(e.l) \in Nat
         /\ Value(e.l) % Prime = Value(e.l) /\ e.l = LimbsOf(Value(e.l) % Prime)
<1>1. Reduced(e.l) /\ ~AtLeastP(e.l)
  BY DEF Fits
<1> DEFINE v == Value(e.l)
           p == Prime
<1>2. v \in Nat /\ v < p /\ p \in Nat \ {0}
  <2>1. Value(e.l) \in 0 .. 2^Bits - 1 /\ 2^Bits \in Nat
    BY <1>1, ReducedPassing, Weights
  <2>2. ~(Value(e.l) >= Prime)
    BY <1>1, AtLeastPValue
  <2>3. Prime \in Nat \ {0}
    BY PrimeSizes
  <2> QED BY <2>1, <2>2, <2>3
<1>3. LimbsOf(v) = e.l
  BY <1>1, LimbsOfValue
<1>4. v % p = v
  <2> HIDE DEF v, p
  <2> QED BY <1>2, ModBelow
<1> QED BY <1>1, <1>2, <1>3, <1>4

\* To test two elements for equality tells whether they are worth the same.
LEMMA EqualValue ==
  ASSUME Wider, NEW l, Bounded(l, 1), NEW n \in 1 .. MaxMagnitude, n + 2 <= MaxMagnitude, NEW h, Bounded(h, n)
  PROVE  Equal(l, h) <=> Value(l) % Prime = Value(h) % Prime
<1> DEFINE g == Negate(l, 1)
           s == Add(g, h)
<1>0. /\ MaxMagnitude \in Nat /\ 1 \in 1 .. MaxMagnitude /\ 1 < MaxMagnitude /\ 1 + 1 = 2
      /\ 2 \in 1 .. MaxMagnitude /\ 2 + n \in 1 .. MaxMagnitude /\ 2 + n <= MaxMagnitude
  BY UseAssumption
<1>1. Bounded(g, 2) /\ Value(g) = (2 * (1 + 1)) * Prime - Value(l)
  BY <1>0, NegateAgrees, NegateValue
<1> HIDE DEF g
<1>2. Bounded(s, 2 + n) /\ Value(s) = Value(g) + Value(h)
  BY <1>0, <1>1, AddAgrees, AddValue
<1> HIDE DEF s
<1>3. NormalizesToZero(s) <=> Value(s) % Prime = 0
  BY <1>0, <1>2, NormalizesToZeroValue
<1>4. Value(l) \in Int /\ Value(h) \in Int /\ Value(s) \in Int /\ Prime \in Nat \ {0}
  BY <1>0, <1>2, BoundedValue, PrimeSizes
<1> DEFINE p == Prime
           a == Value(l)
           b == Value(h)
           c == Value(s)
<1>5. a \in Int /\ b \in Int /\ c \in Int /\ p \in Nat \ {0} /\ c = (4 * p - a) + b
  BY <1>1, <1>2, <1>4
<1>6. c % p = 0 <=> a % p = b % p
  <2> HIDE DEF a, b, c
  <2>1. ASSUME c % p = 0 PROVE a % p = b % p
    <3> DEFINE k == c \div p
    <3>1. k \in Int /\ c = p * k + 0
      <4>1. c = p * (c \div p) + (c % p) /\ c \div p \in Int
        BY <1>5
      <4> QED BY <2>1, <4>1
    <3> HIDE DEF k
    <3>2. b = a + (k - 4) * p
      <4>1. (k - 4) * p = p * k - 4 * p /\ p * k \in Int
        BY <1>5, <3>1
      <4> HIDE DEF p
      <4> QED BY <1>5, <3>1, <4>1
    <3>3. k - 4 \in Int
      BY <3>1
    <3>4. a \in Int /\ b \in Int
      BY <1>5
    <3> DEFINE i == k - 4
    <3>5. i \in Int /\ b = a + i * Prime
      BY <3>2, <3>3
    <3> HIDE DEF i
    <3>6. b % Prime = a % Prime
      BY <3>4, <3>5, CongBy
    <3> QED BY <3>6
  <2>2. ASSUME a % p = b % p PROVE c % p = 0
    <3> HIDE DEF p
    <3> DEFINE i == a \div p
               j == b \div p
               r == a % p
    <3>1. a = p * i + r /\ b = p * j + r /\ i \in Int /\ j \in Int /\ r \in Int
      BY <1>5, <2>2
    <3> HIDE DEF i, j, r
    <3>2. p * (4 - i + j) = 4 * p - p * i + p * j /\ p * i \in Int /\ p * j \in Int
      BY <1>5, <3>1
    <3>3. c = p * (4 - i + j) + 0
      BY <1>5, <3>1, <3>2
    <3> DEFINE q == 4 - i + j
    <3>4. q \in Int /\ 0 \in 0 .. p - 1 /\ c = p * q + 0 /\ p \in Nat \ {0}
      BY <1>5, <3>1, <3>3
    <3> HIDE DEF q
    <3> QED BY <3>4, DivisionUnique
  <2> QED BY <2>1, <2>2
<1>7. Equal(l, h) <=> NormalizesToZero(s)
  BY DEF Equal, s, g
<1> QED BY <1>3, <1>6, <1>7

\* The limbs say the same as the value, in every state that satisfies the invariant.
LEMMA InvariantFaithful ==
  ASSUME Wider, IInv
  PROVE  LimbsFaithful
<1> DEFINE v == Value(x.l) % Prime
           w == Value(y.l) % Prime
           r == SetB32(GetB32(x.l))
<1>1. /\ x.m \in 1 .. MaxMagnitude /\ Bounded(x.l, x.m) /\ Fits(x)
      /\ y.m \in 1 .. MaxMagnitude /\ Bounded(y.l, y.m) /\ Fits(y)
  BY DEF IInv, Fits
<1>2. LimbsWithin
  <2>1. ASSUME NEW e \in {x, y} PROVE Verify(e) /\ (e.n => e.l = LimbsOf(Value(e.l) % Prime))
    <3>1. Fits(e)
      BY <1>1
    <3> QED BY <3>1, FitsVerifies, NormalizedValue
  <2> QED BY <2>1 DEF LimbsWithin
<1>3. NormalizesToZero(x.l) <=> v = 0
  BY <1>1, NormalizesToZeroValue
<1>4. NormalizesToZeroVar(x.l) = NormalizesToZero(x.l) /\ NormalizeVar(x.l) = Normalize(x.l)
  BY FormsAgree
<1>5. ASSUME x.m = 1, y.m + 2 <= MaxMagnitude
      PROVE  (Equal(x.l, y.l) <=> v = w) /\ EqualVar(x.l, y.l) = Equal(x.l, y.l)
  <2>1. Bounded(x.l, 1)
    BY <1>1, <1>5
  <2> QED BY <1>1, <1>5, <2>1, EqualValue, FormsAgree
<1>6. ASSUME x.n
      PROVE  /\ IsZero(x.l) <=> v = 0
             /\ IsOdd(x.l) <=> v % 2 = 1
             /\ r.ok /\ r.r = x.l /\ FromStorage(ToStorage(x.l)) = x.l
  <2>1. /\ Reduced(x.l) /\ ~AtLeastP(x.l) /\ v = Value(x.l)
    BY <1>1, <1>6, NormalizedValue
  <2>2. IsZero(x.l) <=> v = 0
    BY <2>1, ZeroValue
  <2>3. IsOdd(x.l) <=> v % 2 = 1
    BY <2>1, OddValue
  <2>4. r.ok = ~AtLeastP(x.l) /\ r.r = x.l /\ FromStorage(ToStorage(x.l)) = x.l
    BY <2>1, FormsGiveBack
  <2> QED BY <2>1, <2>2, <2>3, <2>4
<1>7. ASSUME x.n, y.n
      PROVE  CmpVar(x.l, y.l) = (IF v > w THEN 1 ELSE IF v < w THEN -1 ELSE 0)
  <2>1. Reduced(x.l) /\ v = Value(x.l) /\ Reduced(y.l) /\ w = Value(y.l)
    BY <1>1, <1>7, NormalizedValue
  <2> QED BY <2>1, CmpVarValue
<1>8. /\ NormalizesToZero(x.l) = (v = 0) /\ NormalizesToZeroVar(x.l) = (v = 0)
      /\ NormalizeVar(x.l) = Normalize(x.l)
  BY <1>3, <1>4 DEF NormalizesToZero, NormalizesToZeroVar
<1>9. x.m = 1 /\ y.m + 2 <= MaxMagnitude => Equal(x.l, y.l) = (v = w) /\ EqualVar(x.l, y.l) = (v = w)
  BY <1>5 DEF Equal, EqualVar, NormalizesToZero, NormalizesToZeroVar
<1>10. x.n => /\ IsZero(x.l) = (v = 0) /\ IsOdd(x.l) = (v % 2 = 1)
              /\ r.ok /\ r.r = x.l /\ FromStorage(ToStorage(x.l)) = x.l
  BY <1>6 DEF IsZero, IsOdd
<1>11. x.n /\ y.n => CmpVar(x.l, y.l) = (IF v > w THEN 1 ELSE IF v < w THEN -1 ELSE 0)
  BY <1>7
<1> QED BY <1>2, <1>8, <1>9, <1>10, <1>11 DEF LimbsFaithful

\* For every number and width of limbs that the assumptions allow, in every reachable state of
\* field_10x26_impl.h the limbs say of their number what is true of it: whatever way it is
\* normalized the value is the residue, zero, odd and equal are those of the residues, comparing
\* orders numbers, and the byte and storage forms give the element back.
THEOREM Faithful ==
  ASSUME Wider
  PROVE  Spec => []LimbsFaithful
<1>1. IInv => LimbsFaithful
  BY InvariantFaithful
<1> QED BY <1>1, Invariance, PTL

-----------------------------------------------------------------------------
\* The columns of a product are worth the product.

\* What the columns of a product are worth.
Worths(column) == Total([k \in 0 .. 2 * N - 2 |-> column[k] * W(k)], 2 * N - 1)

\* A multiple of every term makes a multiple of the sum.
LEMMA TotalScaled ==
  ASSUME NEW n \in Nat, NEW f, NEW h, NEW p \in Int, \A j \in 0 .. n - 1 : f[j] \in Int /\ h[j] = p * f[j]
  PROVE  Total(h, n) = p * Total(f, n)
<1> DEFINE r == [j \in 0 .. n |-> p * Total(f, j)]
<1>1. \A j \in 0 .. n : Total(f, j) \in Int
  BY TotalInt
<1>2. r[0] = 0
  BY TotalStep
<1>3. ASSUME NEW j \in 0 .. n - 1 PROVE r[j + 1] = r[j] + h[j]
  <2>1. j \in 0 .. n /\ j + 1 \in 0 .. n /\ j \in Nat
    OBVIOUS
  <2>2. Total(f, j + 1) = Total(f, j) + f[j]
    BY <2>1, TotalStep
  <2> DEFINE a == Total(f, j)
             c == f[j]
  <2>3. a \in Int /\ c \in Int /\ h[j] = p * c
    BY <1>1, <2>1
  <2>4. r[j + 1] = p * (a + c) /\ r[j] = p * a
    BY <2>1, <2>2
  <2> HIDE DEF a, c, r
  <2>5. p * (a + c) = p * a + p * c
    BY <2>3
  <2> QED BY <2>3, <2>4, <2>5
<1>4. r[n] = p * Total(f, n) /\ n \in 0 .. n
  OBVIOUS
<1> HIDE DEF r
<1>5. \A j \in 0 .. n : Total(h, j) = r[j]
  BY <1>2, <1>3, TotalIs
<1> QED BY <1>4, <1>5

\* A multiple of every limb makes a multiple of the value.
LEMMA ValueScaled ==
  ASSUME NEW f, NEW h, NEW p \in Int, \A i \in Limb : f[i] \in Int /\ h[i] = p * f[i]
  PROVE  Value(h) = p * Value(f)
<1> DEFINE u == [i \in Limb |-> f[i] * W(i)]
           v == [i \in Limb |-> h[i] * W(i)]
<1>1. N \in Nat /\ Limb = 0 .. N - 1
  BY TopIsLimb
<1>2. ASSUME NEW j \in 0 .. N - 1 PROVE u[j] \in Int /\ v[j] = p * u[j]
  <2>1. j \in Limb
    BY <1>1
  <2> DEFINE a == f[j]
             w == W(j)
  <2>2. a \in Int /\ w \in Int /\ u[j] = a * w /\ v[j] = (p * a) * w
    BY <2>1, WeightOfLimb
  <2> HIDE DEF a, w, u, v
  <2>3. (p * a) * w = p * (a * w) /\ a * w \in Int
    BY <2>2
  <2> QED BY <2>2, <2>3
<1> HIDE DEF u, v
<1>3. Total(v, N) = p * Total(u, N)
  <2>1. N \in Nat
    BY <1>1
  <2> QED BY <1>2, <2>1, TotalScaled
<1> QED BY <1>3 DEF u, v, Value, W

\* A row of products, moved up by n limbs.
LEMMA ShiftedRow ==
  ASSUME NEW n \in Limb, NEW g, \A j \in Limb : g[j] \in Int
  PROVE  Worths([k \in 0 .. 2 * N - 2 |-> IF k - n \in Limb THEN g[k - n] ELSE 0]) = W(n) * Value(g)
<1> DEFINE s == [k \in 0 .. 2 * N - 2 |-> IF k - n \in Limb THEN g[k - n] ELSE 0]
           f == [k \in 0 .. 2 * N - 2 |-> s[k] * W(k)]
           h == [m \in 0 .. 2 * N - 1 |-> IF m <= n THEN 0 ELSE IF m <= n + N THEN W(n) * Part(g, m - n) ELSE W(n) * Part(g, N)]
<1>0. N \in Nat /\ N >= 4 /\ Limb = 0 .. N - 1 /\ n \in Nat /\ n <= N - 1 /\ W(n) \in Nat
  BY TopIsLimb, WeightOfLimb
<1>1. h[0] = 0 /\ h[2 * N - 1] = W(n) * Part(g, N)
  <2>1. 0 \in 0 .. 2 * N - 1 /\ 2 * N - 1 \in 0 .. 2 * N - 1 /\ ~(2 * N - 1 <= n) /\ 0 <= n
    BY <1>0
  <2>2. 2 * N - 1 <= n + N => (2 * N - 1) - n = N
    BY <1>0
  <2> QED BY <2>1, <2>2
<1>2. ASSUME NEW m \in 0 .. (2 * N - 1) - 1 PROVE h[m + 1] = h[m] + f[m]
  <2>0. m \in 0 .. 2 * N - 2 /\ m \in Nat /\ m \in 0 .. 2 * N - 1 /\ m + 1 \in 0 .. 2 * N - 1 /\ W(m) \in Nat
    <3>1. m \in Nat
      BY <1>0
    <3>2. W(m) \in Nat
      BY <3>1, Weights
    <3> QED BY <1>0, <3>1, <3>2
  <2>1. f[m] = s[m] * W(m)
    BY <2>0
  <2>2. CASE m < n
    <3>1. h[m + 1] = 0 /\ h[m] = 0 /\ s[m] = 0
      BY <1>0, <2>0, <2>2
    <3> HIDE DEF f, h, s
    <3> QED BY <2>0, <2>1, <3>1
  <2>3. CASE m >= n /\ m < n + N
    <3>1. m - n \in Limb /\ m - n \in Nat /\ (m + 1) - n = (m - n) + 1 /\ m = n + (m - n) /\ m - n \in 0 .. N
      BY <1>0, <2>0, <2>3
    <3>2. s[m] = g[m - n]
      BY <2>0, <3>1
    <3>3. h[m + 1] = W(n) * Part(g, m + 1 - n) /\ h[m] = W(n) * Part(g, m - n)
      <4>1. CASE m = n
        <5>1. Part(g, m - n) = 0
          <6>1. m - n = 0
            BY <1>0, <4>1
          <6> QED BY <6>1, Parts
        <5>2. h[m] = 0 /\ h[m + 1] = W(n) * Part(g, m + 1 - n)
          BY <1>0, <2>0, <4>1
        <5> HIDE DEF h
        <5> QED BY <1>0, <5>1, <5>2
      <4>2. CASE m # n
        BY <1>0, <2>0, <2>3, <4>2
      <4> QED BY <4>1, <4>2
    <3>4. W(m) = W(n) * W(m - n)
      BY <1>0, <3>1, Weights
    <3> DEFINE j == m - n
               a == g[j]
               w == W(j)
               v == W(n)
               p == Part(g, j)
    <3>5. Part(g, j + 1) = p + a * w /\ p \in Int
      BY <3>1, Parts
    <3>6. a \in Int /\ w \in Nat /\ v \in Nat
      BY <1>0, <3>1, WeightOfLimb
    <3>7. h[m + 1] = v * (p + a * w) /\ h[m] = v * p /\ f[m] = a * (v * w)
      <4>1. h[m + 1] = v * Part(g, j + 1) /\ h[m] = v * p
        <5>1. m + 1 - n = j + 1
          BY <1>0, <2>0
        <5> HIDE DEF h
        <5> QED BY <3>3, <5>1
      <4>2. f[m] = a * (v * w)
        <5> HIDE DEF f, s
        <5> QED BY <2>1, <3>2, <3>4
      <4> QED BY <3>5, <4>1, <4>2
    <3> HIDE DEF j, a, w, v, p, h, f, s
    <3>8. v * (p + a * w) = v * p + a * (v * w)
      BY <3>5, <3>6
    <3> QED BY <3>7, <3>8
  <2>4. CASE m >= n + N
    <3>1. m - n \notin Limb /\ ~(m <= n) /\ ~(m + 1 <= n) /\ ~(m + 1 <= n + N)
      BY <1>0, <2>0, <2>4
    <3>2. s[m] = 0
      BY <2>0, <3>1
    <3> DEFINE e == W(n) * Part(g, N)
    <3>3. h[m + 1] = e
      BY <2>0, <3>1
    <3>4. h[m] = e
      <4>1. m <= n + N => m - n = N
        BY <1>0, <2>0, <2>4
      <4> QED BY <2>0, <3>1, <4>1
    <3>5. e \in Int
      <4>1. Part(g, N) \in Int
        BY Parts
      <4> QED BY <1>0, <4>1
    <3> HIDE DEF h, f, s, e
    <3> QED BY <2>0, <2>1, <3>2, <3>3, <3>4, <3>5
  <2> QED BY <1>0, <2>0, <2>2, <2>3, <2>4
<1>3. Worths(s) = Total(f, 2 * N - 1)
  BY DEF Worths
<1> HIDE DEF f, h
<1> DEFINE e == 2 * N - 1
<1>4. e \in Nat /\ h[0] = 0 /\ \A m \in 0 .. e - 1 : h[m + 1] = h[m] + f[m]
  BY <1>0, <1>1, <1>2
<1>5. Total(f, e) = h[e]
  <2> HIDE DEF e, s
  <2>1. \A m \in 0 .. e : Total(f, m) = h[m]
    BY <1>4, TotalIs
  <2>2. e \in 0 .. e
    BY <1>4
  <2> QED BY <2>1, <2>2
<1>6. Value(g) = Part(g, N)
  BY Parts
<1> HIDE DEF s
<1>7. Worths(s) = W(n) * Value(g)
  BY <1>1, <1>3, <1>5, <1>6
<1> QED BY <1>7 DEF s

\* The columns of a table of products, one row for each limb of the first factor.
Column(rows, k) == Total([i \in Limb |-> IF k - i \in Limb THEN rows[i][k - i] ELSE 0], N)

\* Adding up by columns gives what adding up by rows gives.
LEMMA ColumnsByRows ==
  ASSUME NEW rows, \A i, j \in Limb : rows[i][j] \in Int
  PROVE  Worths([k \in 0 .. 2 * N - 2 |-> Column(rows, k)])
           = Total([i \in Limb |-> W(i) * Value(rows[i])], N)
<1> DEFINE t(k) == [i \in Limb |-> IF k - i \in Limb THEN rows[i][k - i] ELSE 0]
           col(n) == [k \in 0 .. 2 * N - 2 |-> Total(t(k), n)]
           row(n) == [k \in 0 .. 2 * N - 2 |-> IF k - n \in Limb THEN rows[n][k - n] ELSE 0]
           r == [i \in Limb |-> W(i) * Value(rows[i])]
           h == [n \in 0 .. N |-> Worths(col(n))]
           M == 2 * N - 1
<1>0. N \in Nat /\ N >= 4 /\ Limb = 0 .. N - 1 /\ M \in Nat /\ M - 1 = 2 * N - 2
  BY TopIsLimb
<1>1. ASSUME NEW k \in 0 .. 2 * N - 2, NEW i \in 0 .. N - 1 PROVE t(k)[i] \in Int
  <2>1. i \in Limb
    BY <1>0
  <2>2. t(k)[i] = IF k - i \in Limb THEN rows[i][k - i] ELSE 0
    BY <2>1
  <2> HIDE DEF t
  <2> QED BY <2>1, <2>2
<1>2. \A k \in 0 .. 2 * N - 2 : \A n \in 0 .. N : Total(t(k), n) \in Int
  <2> TAKE k \in 0 .. 2 * N - 2
  <2> DEFINE u == t(k)
  <2>1. \A i \in 0 .. N - 1 : u[i] \in Int
    BY <1>1
  <2>2. N \in Nat
    BY <1>0
  <2> HIDE DEF u
  <2>3. \A n \in 0 .. N : Total(u, n) \in Int
    BY <2>1, <2>2, TotalInt
  <2> QED BY <2>3 DEF u
<1>3. h[0] = 0
  <2> DEFINE f == [k \in 0 .. 2 * N - 2 |-> col(0)[k] * W(k)]
             z == [m \in 0 .. M |-> 0]
  <2>1. h[0] = Total(f, M)
    BY <1>0 DEF Worths
  <2>2. ASSUME NEW m \in 0 .. M - 1 PROVE z[m + 1] = z[m] + f[m]
    <3>1. m \in 0 .. 2 * N - 2 /\ m \in 0 .. M /\ m + 1 \in 0 .. M /\ m \in Nat
      BY <1>0
    <3>2. col(0)[m] = 0
      BY <3>1, TotalStep
    <3>3. f[m] = 0 * W(m) /\ W(m) \in Nat
      BY <3>1, <3>2, Weights
    <3>4. z[m + 1] = 0 /\ z[m] = 0
      BY <3>1
    <3> HIDE DEF f, z, M
    <3> QED BY <3>3, <3>4
  <2>3. z[0] = 0 /\ z[M] = 0 /\ M \in 0 .. M
    BY <1>0
  <2> HIDE DEF f, z, M
  <2>4. Total(f, M) = z[M]
    <3>1. M \in Nat
      BY <1>0
    <3>2. \A j \in 0 .. M : Total(f, j) = z[j]
      BY <2>2, <2>3, <3>1, TotalIs
    <3> QED BY <2>3, <3>2
  <2> QED BY <2>1, <2>3, <2>4
<1>4. ASSUME NEW n \in 0 .. N - 1 PROVE h[n + 1] = h[n] + r[n]
  <2>0. n \in Limb /\ n \in Nat /\ n \in 0 .. N /\ n + 1 \in 0 .. N
    BY <1>0
  <2> DEFINE f == [k \in 0 .. 2 * N - 2 |-> col(n)[k] * W(k)]
             g == [k \in 0 .. 2 * N - 2 |-> row(n)[k] * W(k)]
             e == [k \in 0 .. 2 * N - 2 |-> col(n + 1)[k] * W(k)]
  <2>1. h[n + 1] = Total(e, M) /\ h[n] = Total(f, M) /\ Worths(row(n)) = Total(g, M)
    BY <2>0 DEF Worths
  <2>2. ASSUME NEW k \in 0 .. M - 1 PROVE f[k] \in Int /\ g[k] \in Int /\ e[k] = 1 * f[k] + 1 * g[k]
    <3> DEFINE a == Total(t(k), n)
               b == t(k)[n]
               w == W(k)
    <3>1. k \in 0 .. 2 * N - 2 /\ k \in Nat
      BY <1>0
    <3>2. a \in Int /\ b \in Int /\ w \in Nat
      BY <1>1, <1>2, <2>0, <3>1, Weights
    <3>3. f[k] = a * w
      BY <3>1
    <3>4. g[k] = b * w
      BY <2>0, <3>1
    <3>5. e[k] = (a + b) * w
      <4>1. Total(t(k), n + 1) = a + b
        <5> DEFINE u == t(k)
        <5> HIDE DEF u
        <5>1. Total(u, n + 1) = Total(u, n) + u[n]
          BY <2>0, TotalStep
        <5> QED BY <5>1 DEF u
      <4>2. e[k] = Total(t(k), n + 1) * w
        BY <3>1
      <4> QED BY <4>1, <4>2
    <3> HIDE DEF a, b, w, e, f, g
    <3>6. (a + b) * w = a * w + b * w /\ a * w \in Int /\ b * w \in Int
      BY <3>2
    <3> QED BY <3>3, <3>4, <3>5, <3>6
  <2>3. 1 \in Int
    OBVIOUS
  <2> HIDE DEF e, f, g, M
  <2>4. Total(e, M) = 1 * Total(f, M) + 1 * Total(g, M)
    BY <1>0, <2>2, <2>3, TotalLinear
  <2>5. Total(f, M) \in Int /\ Total(g, M) \in Int
    <3>1. M \in 0 .. M /\ \A k \in 0 .. M - 1 : f[k] \in Int /\ g[k] \in Int
      BY <1>0, <2>2
    <3> QED BY <1>0, <3>1, TotalInt
  <2>6. Worths(row(n)) = W(n) * Value(rows[n])
    <3> DEFINE q == rows[n]
    <3>1. \A j \in Limb : q[j] \in Int
      BY <2>0
    <3>2. row(n) = [k \in 0 .. 2 * N - 2 |-> IF k - n \in Limb THEN q[k - n] ELSE 0]
      OBVIOUS
    <3> HIDE DEF q, row
    <3>3. Worths(row(n)) = W(n) * Value(q)
      BY <2>0, <3>1, <3>2, ShiftedRow
    <3> QED BY <3>3 DEF q
  <2>7. r[n] = W(n) * Value(rows[n])
    BY <2>0
  <2> HIDE DEF h, r
  <2>8. h[n + 1] = h[n] + r[n]
    BY <2>1, <2>4, <2>5, <2>6, <2>7
  <2> QED BY <2>8
<1>5. h[N] = Worths([k \in 0 .. 2 * N - 2 |-> Column(rows, k)])
  <2>1. N \in 0 .. N
    BY <1>0
  <2>2. col(N) = [k \in 0 .. 2 * N - 2 |-> Column(rows, k)]
    BY DEF Column
  <2> QED BY <2>1, <2>2
<1> HIDE DEF h, r
<1>6. Total(r, N) = h[N]
  <2>1. N \in Nat /\ N \in 0 .. N
    BY <1>0
  <2> QED BY <1>3, <1>4, <2>1, TotalIs
<1> QED BY <1>5, <1>6 DEF r

\* The columns of mul_inner are worth the product.
LEMMA MulColumnsValue ==
  ASSUME NEW a, NEW b, \A i \in Limb : a[i] \in Int /\ b[i] \in Int
  PROVE  Worths([k \in 0 .. 2 * N - 2 |-> MulColumn(a, b, k)]) = Value(a) * Value(b)
<1> DEFINE rows == [i \in Limb |-> [j \in Limb |-> a[i] * b[j]]]
           r == [i \in Limb |-> W(i) * Value(rows[i])]
           s == [i \in Limb |-> a[i] * W(i)]
           V == Value(b)
<1>0. N \in Nat /\ Limb = 0 .. N - 1 /\ V \in Int /\ 0 \in Int
  BY TopIsLimb, Parts
<1>1. ASSUME NEW k \in 0 .. 2 * N - 2 PROVE MulColumn(a, b, k) = Column(rows, k)
  <2>1. [i \in Limb |-> IF k - i \in Limb THEN a[i] * b[k - i] ELSE 0]
          = [i \in Limb |-> IF k - i \in Limb THEN rows[i][k - i] ELSE 0]
    OBVIOUS
  <2> QED BY <2>1 DEF MulColumn, Column
<1>2. [k \in 0 .. 2 * N - 2 |-> MulColumn(a, b, k)] = [k \in 0 .. 2 * N - 2 |-> Column(rows, k)]
  BY <1>1
<1>3. \A i, j \in Limb : rows[i][j] \in Int
  <2> TAKE i, j \in Limb
  <2>1. rows[i][j] = a[i] * b[j] /\ a[i] \in Int /\ b[j] \in Int
    OBVIOUS
  <2> DEFINE p == a[i]
             q == b[j]
  <2>2. rows[i][j] = p * q /\ p \in Int /\ q \in Int
    BY <2>1
  <2> HIDE DEF p, q, rows
  <2> QED BY <2>2
<1>4. ASSUME NEW i \in 0 .. N - 1 PROVE s[i] \in Int /\ r[i] = V * s[i]
  <2>1. i \in Limb
    BY <1>0
  <2> DEFINE p == a[i]
             w == W(i)
             g == rows[i]
  <2>2. p \in Int /\ w \in Nat /\ s[i] = p * w /\ r[i] = w * Value(g)
    BY <2>1, WeightOfLimb
  <2>3. \A j \in Limb : b[j] \in Int /\ g[j] = p * b[j]
    BY <2>1
  <2> HIDE DEF p, w, g, s, r
  <2>4. Value(g) = p * Value(b)
    <3>1. p \in Int
      BY <2>2
    <3> QED BY <2>3, <3>1, ValueScaled
  <2> HIDE DEF V
  <2>5. Value(g) = p * V
    BY <2>4 DEF V
  <2>6. w * (p * V) = V * (p * w) /\ p * w \in Int
    BY <1>0, <2>2
  <2> QED BY <2>2, <2>5, <2>6
<1> HIDE DEF V, r, s, rows
<1>5. Total(r, N) = V * Total(s, N)
  <2>1. N \in Nat /\ V \in Int
    BY <1>0
  <2> QED BY <1>4, <2>1, TotalScaled
<1>6. Total(s, N) = Value(a) /\ Value(a) \in Int
  BY Parts DEF s, Part
<1>7. Total(r, N) = Value(a) * V
  BY <1>0, <1>5, <1>6
<1>8. Worths([k \in 0 .. 2 * N - 2 |-> Column(rows, k)]) = Total(r, N)
  BY <1>3, ColumnsByRows DEF r
<1> QED BY <1>2, <1>7, <1>8 DEF V

-----------------------------------------------------------------------------
\* The columns of a square are worth the square.

\* What sqr_inner adds up in the row of limb i: the square of it, and twice its products with
\* the limbs above it.
SquareRows(a) == [i \in Limb |-> [j \in Limb |-> IF i = j THEN a[i] * a[i]
                                                 ELSE IF i < j THEN (a[i] * 2) * a[j] ELSE 0]]

\* A row of a square.
LEMMA SquareRowValue ==
  ASSUME NEW a, \A i \in Limb : a[i] \in Int, NEW i \in Limb
  PROVE  /\ Value(SquareRows(a)[i]) = a[i] * (a[i] * W(i) + 2 * (Value(a) - Part(a, i + 1)))
         /\ \A j \in Limb : SquareRows(a)[i][j] \in Int
<1> DEFINE g == SquareRows(a)[i]
           u == a[i]
           w == W(i)
           E(j) == u * (u * w + 2 * (Part(a, j) - Part(a, i + 1)))
           h == [j \in 0 .. N |-> IF j <= i THEN 0 ELSE E(j)]
<1>0. N \in Nat /\ N >= 4 /\ Limb = 0 .. N - 1 /\ i \in Nat /\ i < N /\ u \in Int /\ w \in Nat
  BY TopIsLimb, WeightOfLimb
<1>1. /\ Value(a) = Part(a, N) /\ \A k \in 0 .. N : Part(a, k) \in Int
      /\ \A k \in Limb : Part(a, k + 1) = Part(a, k) + a[k] * W(k)
  BY Parts
<1>2. h[0] = 0 /\ h[N] = E(N)
  <2>1. 0 \in 0 .. N /\ N \in 0 .. N /\ 0 <= i /\ ~(N <= i)
    BY <1>0
  <2> HIDE DEF E
  <2> QED BY <2>1
<1>3. ASSUME NEW j \in Limb PROVE h[j + 1] = h[j] + g[j] * W(j) /\ g[j] \in Int
  <2> DEFINE v == a[j]
             z == W(j)
             p == Part(a, j)
             q == Part(a, i + 1)
  <2>1. j \in 0 .. N /\ j + 1 \in 0 .. N /\ j \in Nat /\ i + 1 \in 0 .. N
    BY <1>0
  <2>2. v \in Int /\ z \in Nat /\ p \in Int /\ q \in Int /\ Part(a, j + 1) = p + v * z
    BY <1>1, <2>1, WeightOfLimb
  <2>3. CASE j < i
    <3>1. h[j + 1] = 0 /\ h[j] = 0
      BY <1>0, <2>1, <2>3
    <3>2. g[j] = 0
      BY <1>0, <2>1, <2>3 DEF SquareRows
    <3> HIDE DEF g, h
    <3> QED BY <2>2, <3>1, <3>2
  <2>4. CASE j = i
    <3>1. h[j + 1] = E(j + 1) /\ h[j] = 0
      <4>1. ~(j + 1 <= i) /\ j <= i
        BY <1>0, <2>4
      <4> HIDE DEF E
      <4> QED BY <2>1, <4>1
    <3>2. E(j + 1) = u * (u * w + 2 * (q - q))
      BY <2>4
    <3>3. g[j] = u * u /\ z = w
      BY <2>4 DEF SquareRows
    <3> HIDE DEF g, h, E, u, w, z, q
    <3>4. u * (u * w + 2 * (q - q)) = (u * u) * w /\ u * u \in Int /\ (u * u) * w \in Int
      BY <1>0, <2>2
    <3>5. h[j + 1] = h[j] + g[j] * z /\ g[j] \in Int
      BY <3>1, <3>2, <3>3, <3>4
    <3> QED BY <3>5 DEF z
  <2>5. CASE i < j
    <3>1. h[j + 1] = E(j + 1) /\ h[j] = E(j)
      <4>1. ~(j + 1 <= i) /\ ~(j <= i)
        BY <1>0, <2>1, <2>5
      <4> HIDE DEF E
      <4> QED BY <2>1, <4>1
    <3>2. E(j + 1) = u * (u * w + 2 * ((p + v * z) - q)) /\ E(j) = u * (u * w + 2 * (p - q))
      BY <2>2
    <3>3. g[j] = (u * 2) * v
      <4>1. i # j /\ i < j
        BY <1>0, <2>1, <2>5
      <4> QED BY <4>1 DEF SquareRows
    <3> HIDE DEF g, h, E, u, w, v, z, p, q
    <3>4. u * (u * w + 2 * ((p + v * z) - q)) = u * (u * w + 2 * (p - q)) + ((u * 2) * v) * z
      BY <1>0, <2>2
    <3>5. (u * 2) * v \in Int
      BY <1>0, <2>2
    <3>6. E(j + 1) = E(j) + ((u * 2) * v) * z
      BY <3>2, <3>4
    <3>7. h[j + 1] = h[j] + g[j] * z /\ g[j] \in Int
      BY <3>1, <3>3, <3>5, <3>6
    <3> QED BY <3>7 DEF z
  <2> QED BY <1>0, <2>1, <2>3, <2>4, <2>5
<1>4. E(N) = u * (u * w + 2 * (Value(a) - Part(a, i + 1)))
  BY <1>1
<1>5. Value(g) = h[N]
  <2> HIDE DEF g, h, E
  <2> QED BY <1>2, <1>3, ValueIs
<1> QED BY <1>2, <1>3, <1>4, <1>5

\* The columns of sqr_inner are worth the square.
LEMMA SqrColumnsValue ==
  ASSUME NEW a, \A i \in Limb : a[i] \in Int, \A i \in Limb : (a[i] * 2) % 2^WordBits = a[i] * 2
  PROVE  Worths([k \in 0 .. 2 * N - 2 |-> SqrColumn(a, k)]) = Value(a) * Value(a)
<1> DEFINE rows == SquareRows(a)
           r == [i \in Limb |-> W(i) * Value(rows[i])]
           V == Value(a)
           h == [n \in 0 .. N |-> V * V - (V - Part(a, n)) * (V - Part(a, n))]
<1>0. N \in Nat /\ N >= 4 /\ Limb = 0 .. N - 1 /\ V \in Int /\ V = Part(a, N) /\ Part(a, 0) = 0
  BY TopIsLimb, Parts
<1>1. ASSUME NEW k \in 0 .. 2 * N - 2 PROVE SqrColumn(a, k) = Column(rows, k)
  <2> DEFINE f == [i \in Limb |-> CASE 2 * i = k                   -> a[i] * a[i]
                                    [] 2 * i < k /\ k - i \in Limb -> Word(a[i] * 2) * a[k - i]
                                    [] OTHER                        -> 0]
             g == [i \in Limb |-> IF k - i \in Limb THEN rows[i][k - i] ELSE 0]
  <2>1. ASSUME NEW i \in 0 .. N - 1 PROVE f[i] = g[i]
    <3>1. i \in Limb /\ i \in Nat /\ k \in Nat
      BY <1>0
    <3>2. CASE 2 * i = k
      <4>1. k - i = i
        BY <3>1, <3>2
      <4>2. g[i] = a[i] * a[i]
        BY <3>1, <4>1 DEF SquareRows
      <4>3. f[i] = a[i] * a[i]
        BY <3>1, <3>2
      <4> QED BY <4>2, <4>3
    <3>3. CASE 2 * i < k /\ k - i \in Limb
      <4>1. k - i # i /\ i < k - i /\ 2 * i # k
        BY <3>1, <3>3
      <4>2. g[i] = (a[i] * 2) * a[k - i]
        BY <3>1, <3>3, <4>1 DEF SquareRows
      <4>3. f[i] = Word(a[i] * 2) * a[k - i]
        BY <3>1, <3>3, <4>1
      <4> QED BY <3>1, <4>2, <4>3 DEF Word
    <3>4. CASE 2 * i # k /\ ~(2 * i < k /\ k - i \in Limb)
      <4>1. f[i] = 0
        BY <3>1, <3>4
      <4>2. CASE k - i \in Limb
        <5>1. i # k - i /\ ~(i < k - i)
          BY <3>1, <3>4, <4>2
        <5> QED BY <3>1, <4>1, <4>2, <5>1 DEF SquareRows
      <4>3. CASE k - i \notin Limb
        BY <3>1, <4>1, <4>3
      <4> QED BY <4>2, <4>3
    <3> QED BY <3>2, <3>3, <3>4
  <2>2. SqrColumn(a, k) = Total(f, N) /\ Column(rows, k) = Total(g, N)
    BY DEF SqrColumn, Column
  <2> HIDE DEF f, g
  <2>3. N \in Nat
    BY <1>0
  <2>4. Total(f, N) = Total(g, N)
    BY <2>1, <2>3, TotalSame
  <2> QED BY <2>2, <2>4
<1>2. [k \in 0 .. 2 * N - 2 |-> SqrColumn(a, k)] = [k \in 0 .. 2 * N - 2 |-> Column(rows, k)]
  BY <1>1
<1>3. \A i, j \in Limb : rows[i][j] \in Int
  BY SquareRowValue
<1> HIDE DEF rows
<1>4. ASSUME NEW n \in 0 .. N - 1 PROVE h[n + 1] = h[n] + r[n]
  <2> DEFINE p == Part(a, n)
             u == a[n]
             w == W(n)
  <2>1. n \in Limb /\ n \in 0 .. N /\ n + 1 \in 0 .. N
    BY <1>0
  <2>2. p \in Int /\ u \in Int /\ w \in Nat /\ Part(a, n + 1) = p + u * w
    BY <2>1, Parts, WeightOfLimb
  <2>3. r[n] = w * (u * (u * w + 2 * (V - (p + u * w))))
    <3>1. Value(rows[n]) = u * (u * w + 2 * (V - Part(a, n + 1)))
      BY <2>1, SquareRowValue DEF rows
    <3>2. r[n] = w * Value(rows[n])
      BY <2>1
    <3> QED BY <2>2, <3>1, <3>2
  <2>4. h[n + 1] = V * V - (V - (p + u * w)) * (V - (p + u * w)) /\ h[n] = V * V - (V - p) * (V - p)
    BY <2>1, <2>2
  <2> HIDE DEF h, r, V, p, u, w
  <2> DEFINE s == u * w
             t == V - p
  <2>5. s \in Int /\ t \in Int /\ V \in Int
    BY <1>0, <2>2
  <2>6. w * (u * (u * w + 2 * (V - (p + u * w)))) = s * (s + 2 * (t - s))
    <3> DEFINE e == u * w + 2 * (V - (p + u * w))
    <3>1. e \in Int /\ e = s + 2 * (t - s)
      <4>1. e = s + 2 * (V - (p + s)) /\ V - (p + s) = t - s
        <5>1. e = s + 2 * (V - (p + s)) /\ t = V - p
          OBVIOUS
        <5> HIDE DEF e, s, t
        <5> QED BY <2>2, <2>5, <5>1
      <4> HIDE DEF e, s, t
      <4> QED BY <2>5, <4>1
    <3>2. w * (u * e) = (u * w) * e
      <4> HIDE DEF e
      <4> QED BY <2>2, <3>1
    <3> QED BY <3>1, <3>2
  <2>7. V - (p + u * w) = t - s
    BY <1>0, <2>2, <2>5
  <2> HIDE DEF s, t
  <2>8. (t - s) * (t - s) = t * t - 2 * (s * t) + s * s /\ s * (s + 2 * (t - s)) = 2 * (s * t) - s * s
    BY <2>5
  <2>9. s * t \in Int /\ s * s \in Int /\ t * t \in Int /\ V * V \in Int
    BY <2>5
  <2>10. h[n + 1] = V * V - (t - s) * (t - s) /\ h[n] = V * V - t * t /\ r[n] = s * (s + 2 * (t - s))
    BY <2>3, <2>4, <2>6, <2>7 DEF t
  <2> QED BY <2>8, <2>9, <2>10
<1>5. h[0] = 0 /\ h[N] = V * V
  <2>1. 0 \in 0 .. N /\ N \in 0 .. N
    BY <1>0
  <2>2. h[0] = V * V - (V - 0) * (V - 0) /\ h[N] = V * V - (V - V) * (V - V)
    BY <1>0, <2>1
  <2> HIDE DEF h, V
  <2>3. (V - V) * (V - V) = 0 /\ (V - 0) * (V - 0) = V * V /\ V * V \in Int
    BY <1>0
  <2> QED BY <2>2, <2>3
<1> HIDE DEF h, r, V
<1>6. Total(r, N) = h[N]
  <2>1. N \in Nat /\ N \in 0 .. N
    BY <1>0
  <2>2. \A j \in 0 .. N : Total(r, j) = h[j]
    <3>1. h[0] = 0
      BY <1>5
    <3> QED BY <1>4, <2>1, <3>1, TotalIs
  <2> QED BY <2>1, <2>2
<1>7. Worths([k \in 0 .. 2 * N - 2 |-> Column(rows, k)]) = Total(r, N)
  BY <1>3, ColumnsByRows DEF r
<1> QED BY <1>2, <1>5, <1>6, <1>7 DEF V

-----------------------------------------------------------------------------
\* What a limb above the top is worth, and what a step of the reduction adds.

\* What is above the top limb is worth R0 and, one limb up, R1: the sizes of the reduction.
LEMMA Fold ==
  /\ W(N) = (R0 + R1 * 2^B) + Prime * 2^(B - T)
  /\ R0 \in Nat /\ R1 \in Nat /\ Prime \in Nat \ {0} /\ 2^(B - T) \in Nat
<1> DEFINE b == 2^B
           e == 2^(B - T)
           s == 2^S
           p == Prime
           h == 2^Bits
<1>1. b \in Nat /\ e \in Nat /\ s \in Nat /\ p \in Nat \ {0} /\ h \in Nat /\ C0 \in Nat
  BY Sizes, PrimeSizes, ShapeAssumption
<1>2. W(N) = h * e /\ h = p + (C0 + s * b)
  <2>1. Prime = 2^Bits - CC /\ CC = C0 + 2^S * 2^B /\ 2^Bits \in Nat /\ CC \in Nat
    BY PrimeSizes DEF CC
  <2>2. 2^Bits = Prime + CC
    BY <2>1
  <2> QED BY <2>1, <2>2, Weights
<1>3. R0 = C0 * e /\ R1 = s * e
  BY DEF R0, R1
<1> HIDE DEF b, e, s, p, h
<1>4. (p + (C0 + s * b)) * e = (C0 * e + (s * e) * b) + p * e
  BY <1>1
<1>5. C0 * e \in Nat /\ s * e \in Nat
  BY <1>1, ProductOf
<1> QED BY <1>1, <1>2, <1>3, <1>4, <1>5 DEF b, e, s, p

\* One step of the reduction keeps what the accumulators and the limbs are worth, up to a
\* multiple of the prime.
LEMMA StepWorth ==
  ASSUME NEW low \in Int, NEW c \in Int, NEW d \in Int, NEW p \in Int, NEW q \in Int,
         NEW w \in Int, NEW z \in Int, NEW b \in Int, NEW r0 \in Int, NEW r1 \in Int, NEW m \in Int,
         NEW u \in Int, NEW e \in Int, NEW h \in Int, NEW t \in Int,
         d + p = b * e + u, c + q + u * r0 = b * h + t, z = w * ((r0 + r1 * b) + m)
  PROVE  (low + t * w) + (h + u * r1) * (w * b) + e * (z * b)
           = ((low + c * w + d * z) + (q * w + p * z)) - (u * w) * m
<1>1. t * w + (h + u * r1) * (w * b) = (c + q) * w + u * (w * (r0 + r1 * b))
  <2>1. t = (c + q + u * r0) - b * h
    OBVIOUS
  <2>2. ((c + q + u * r0) - b * h) * w = (c + q + u * r0) * w - (b * h) * w
    OBVIOUS
  <2>3. (h + u * r1) * (w * b) = (b * h) * w + (u * r1) * (w * b)
    OBVIOUS
  <2>4. (c + q + u * r0) * w + (u * r1) * (w * b) = (c + q) * w + u * (w * (r0 + r1 * b))
    OBVIOUS
  <2>5. (b * h) * w \in Int /\ (c + q + u * r0) * w \in Int /\ (u * r1) * (w * b) \in Int
    OBVIOUS
  <2> QED BY <2>1, <2>2, <2>3, <2>4, <2>5
<1>2. e * (z * b) = (d + p) * z - u * z
  <2>1. e * (z * b) = (b * e) * z
    OBVIOUS
  <2>2. b * e = (d + p) - u
    OBVIOUS
  <2>3. ((d + p) - u) * z = (d + p) * z - u * z
    OBVIOUS
  <2> QED BY <2>1, <2>2, <2>3
<1>3. u * z = u * (w * (r0 + r1 * b)) + (u * w) * m
  <2>1. u * (w * ((r0 + r1 * b) + m)) = u * (w * (r0 + r1 * b)) + (u * w) * m
    OBVIOUS
  <2> QED BY <2>1
<1>4. (c + q) * w = c * w + q * w /\ (d + p) * z = d * z + p * z
  OBVIOUS
<1>5. /\ c * w \in Int /\ q * w \in Int /\ d * z \in Int /\ p * z \in Int
      /\ u * (w * (r0 + r1 * b)) \in Int /\ (u * w) * m \in Int /\ t * w \in Int
      /\ (h + u * r1) * (w * b) \in Int
  OBVIOUS
<1> QED BY <1>1, <1>2, <1>3, <1>4, <1>5

\* The limbs that the reduction has given up so far.
Lows(t) == [i \in Limb |-> IF i < Len(t) THEN t[i + 1] ELSE 0]

\* They are numbers.
LEMMA LowsAre ==
  ASSUME NEW t, t \in Seq(0 .. 2^B - 1)
  PROVE  \A i \in Limb : Lows(t)[i] \in Nat /\ Lows(t)[i] \in Int
<1>1. Len(t) \in Nat /\ 2^B \in Nat /\ Limb = 0 .. N - 1 /\ N \in Nat
  BY Sizes, TopIsLimb
<1> TAKE i \in Limb
<1>2. CASE i < Len(t)
  <2>1. i + 1 \in 1 .. Len(t)
    BY <1>1, <1>2
  <2>2. t[i + 1] \in 0 .. 2^B - 1
    <3> DEFINE R == 0 .. 2^B - 1
    <3>1. t \in Seq(R)
      OBVIOUS
    <3> HIDE DEF R
    <3>2. t[i + 1] \in R
      BY <2>1, <3>1
    <3> QED BY <3>2 DEF R
  <2>3. Lows(t)[i] = t[i + 1]
    BY <1>2 DEF Lows
  <2> QED BY <1>1, <2>2, <2>3
<1>3. CASE ~(i < Len(t))
  BY <1>3 DEF Lows
<1> QED BY <1>2, <1>3

\* One more of them.
LEMMA LowsNext ==
  ASSUME NEW t, t \in Seq(0 .. 2^B - 1), NEW k \in Limb, Len(t) = k, NEW v \in 0 .. 2^B - 1
  PROVE  Part(Lows(Append(t, v)), k + 1) = Part(Lows(t), k) + v * W(k) /\ Part(Lows(t), k) \in Int
<1> DEFINE s == Append(t, v)
           f == Lows(t)
           g == Lows(s)
<1>0. k \in Nat /\ k \in 0 .. N /\ Limb = 0 .. N - 1 /\ N \in Nat
  BY TopIsLimb
<1>1. s \in Seq(0 .. 2^B - 1) /\ Len(s) = k + 1 /\ s[k + 1] = v /\ \A i \in 1 .. k : s[i] = t[i]
  OBVIOUS
<1>2. \A i \in 0 .. k - 1 : f[i] = g[i]
  <2> TAKE i \in 0 .. k - 1
  <2>1. i \in Limb /\ i < k /\ i < k + 1 /\ i + 1 \in 1 .. k
    BY <1>0
  <2>2. f[i] = t[i + 1]
    BY <2>1 DEF Lows
  <2>3. g[i] = s[i + 1]
    <3> HIDE DEF s
    <3> QED BY <1>1, <2>1 DEF Lows
  <2> HIDE DEF s, f, g
  <2> QED BY <1>1, <2>1, <2>2, <2>3
<1>3. g[k] = v
  <2>1. k < k + 1
    BY <1>0
  <2> HIDE DEF s
  <2> QED BY <1>1, <2>1 DEF Lows
<1>4. (\A i \in Limb : f[i] \in Int) /\ (\A i \in Limb : g[i] \in Int)
  <2> HIDE DEF s
  <2> QED BY <1>1, LowsAre
<1> HIDE DEF f, g, s
<1>5. Part(f, k) = Part(g, k) /\ Part(f, k) \in Int
  BY <1>0, <1>2, <1>4, PartSame, Parts
<1>6. Part(g, k + 1) = Part(g, k) + g[k] * W(k)
  BY <1>4, Parts
<1> QED BY <1>3, <1>5, <1>6 DEF f, g, s

\* What the columns below k are worth.
Upto(column, k) == Total([j \in 0 .. 2 * N - 2 |-> column[j] * W(j)], k)

\* The columns are taken one by one, up to all of them.
LEMMA UptoNext ==
  ASSUME NEW column, \A k \in 0 .. 2 * N - 2 : column[k] \in Nat
  PROVE  /\ Upto(column, 0) = 0 /\ Worths(column) = Upto(column, 2 * N - 1)
         /\ \A k \in 0 .. 2 * N - 1 : Upto(column, k) \in Int
         /\ \A k \in 0 .. 2 * N - 2 : Upto(column, k + 1) = Upto(column, k) + column[k] * W(k)
<1> DEFINE f == [j \in 0 .. 2 * N - 2 |-> column[j] * W(j)]
           n == 2 * N - 1
<1>0. N \in Nat /\ N >= 4 /\ n \in Nat /\ n - 1 = 2 * N - 2
  BY TopIsLimb
<1>1. ASSUME NEW j \in 0 .. n - 1 PROVE f[j] \in Int /\ f[j] = column[j] * W(j)
  <2>1. j \in 0 .. 2 * N - 2 /\ j \in Nat
    BY <1>0
  <2> DEFINE a == column[j]
             w == W(j)
  <2>2. a \in Nat /\ w \in Nat /\ f[j] = a * w
    BY <2>1, Weights
  <2> HIDE DEF a, w, f
  <2>3. f[j] \in Int
    BY <2>2
  <2> QED BY <2>2, <2>3 DEF a, w
<1> HIDE DEF f
<1>2. \A k \in 0 .. n : Total(f, k) \in Int
  <2> HIDE DEF n
  <2> QED BY <1>0, <1>1, TotalInt
<1>3. ASSUME NEW k \in 0 .. 2 * N - 2 PROVE Total(f, k + 1) = Total(f, k) + column[k] * W(k)
  <2>1. k \in Nat /\ k \in 0 .. n - 1
    BY <1>0
  <2>2. Total(f, k + 1) = Total(f, k) + f[k]
    BY <2>1, TotalStep
  <2> QED BY <1>1, <2>1, <2>2
<1>4. Total(f, 0) = 0
  BY TotalStep
<1> QED BY <1>0, <1>2, <1>3, <1>4 DEF f, n, Upto, Worths

-----------------------------------------------------------------------------
\* The reduction: what is held is always worth what was taken, modulo the prime.

\* What the reduction has after k steps: the limbs given up, and what the accumulators carry.
Holds(g, k) == Part(Lows(g.t), k) + g.c * W(k) + g.d * W(N + k)
\* What it has taken: the columns below k, those of the upper half, and of the middle one what
\* is above a limb.
Taken(column, k) ==
  (column[N - 1] \div 2^B) * W(N) + Upto(column, k) + (Upto(column, N + k) - Upto(column, N))

\* A step of Reduce, without the accumulators' size.
StepOf(g, p, q) ==
  LET d == g.d + p
      u == d % 2^B
      c == g.c + q + u * R0
  IN  [c |-> (c \div 2^B) + u * R1, d |-> d \div 2^B, t |-> Append(g.t, c % 2^B)]

\* In an accumulator that is wide enough it is the step of the code.
LEMMA StepIs ==
  ASSUME NEW g, NEW k \in Nat, Going(g, k), NEW p \in Nat, p <= MaxColumn, NEW q \in Nat, q <= MaxColumn
  PROVE  Step(g, p, q, 2^AccBits) = StepOf(g, p, q) /\ Going(Step(g, p, q, 2^AccBits), k + 1)
<1> DEFINE d == g.d + p
           u == d % 2^B
           c == g.c + q + u * R0
           r == [c |-> (c \div 2^B) + u * R1, d |-> d \div 2^B, t |-> Append(g.t, c % 2^B)]
<1> DEFINE w == 2^AccBits
<1>1. w \in Nat \ {0} /\ 2^AccBits <= w
  BY Sizes
<1>2. Step(g, p, q, w) = r /\ Going(Step(g, p, q, w), k + 1)
  <2> HIDE DEF w
  <2> QED BY <1>1, StepGoes
<1> QED BY <1>2 DEF StepOf

\* A step of Reduce.
LEMMA StepHolds ==
  ASSUME NEW column, Columns(column), NEW k \in 0 .. N - 2, NEW g, Going(g, k),
         NEW s, s = Step(g, column[N + k], column[k], 2^AccBits), NEW z \in Int, Holds(g, k) = Taken(column, k) - z * Prime
  PROVE  Going(s, k + 1) /\ \E y1 \in Int : Holds(s, k + 1) = Taken(column, k + 1) - y1 * Prime
<1> DEFINE p == column[N + k]
           q == column[k]
           b == 2^B
           d == g.d + p
           u == d % b
           e == d \div b
           a == g.c + q + u * R0
           h == a \div b
           v == a % b
           w == W(k)
           m == W(N + k)
           x2 == 2^(B - T)
<1>0. N \in Nat /\ N >= 4 /\ Limb = 0 .. N - 1 /\ k \in Nat /\ k \in Limb /\ N + k \in Nat /\ k + 1 \in Nat
      /\ N + k \in 0 .. 2 * N - 2 /\ k \in 0 .. 2 * N - 2 /\ N + (k + 1) = (N + k) + 1
  BY TopIsLimb
<1>1. p \in Nat /\ p <= MaxColumn /\ q \in Nat /\ q <= MaxColumn
  BY <1>0 DEF Columns
<1>2. g.c \in Nat /\ g.d \in Nat /\ g.t \in Seq(0 .. 2^B - 1) /\ Len(g.t) = k
  BY DEF Going
<1>3. /\ s = [c |-> h + u * R1, d |-> e, t |-> Append(g.t, v)]
      /\ Going(s, k + 1)
  <2>2. s = Step(g, p, q, 2^AccBits)
    OBVIOUS
  <2>3. k \in Nat /\ Going(g, k) /\ p \in Nat /\ p <= MaxColumn /\ q \in Nat /\ q <= MaxColumn
    BY <1>0, <1>1
  <2> HIDE DEF p, q
  <2>4. Step(g, p, q, 2^AccBits) = StepOf(g, p, q) /\ Going(Step(g, p, q, 2^AccBits), k + 1)
    BY <2>3, StepIs
  <2>5. StepOf(g, p, q) = [c |-> h + u * R1, d |-> e, t |-> Append(g.t, v)]
    BY DEF StepOf
  <2> QED BY <2>2, <2>4, <2>5
<1>4. b \in Nat \ {0} /\ R0 \in Nat /\ R1 \in Nat /\ x2 \in Nat /\ Prime \in Nat
  BY Sizes, Fold
<1>5. d = b * e + u /\ e \in Nat /\ u \in 0 .. b - 1
  <2>1. d \in Nat
    BY <1>1, <1>2
  <2> HIDE DEF d, b
  <2> QED BY <1>4, <2>1, Division
<1> HIDE DEF p, q, e, u
<1>6. a = b * h + v /\ h \in Nat /\ v \in 0 .. b - 1
  <2>1. a \in Nat
    <3>1. u * R0 \in Nat
      BY <1>4, <1>5
    <3> QED BY <1>1, <1>2, <3>1
  <2> HIDE DEF a, b
  <2> QED BY <1>4, <2>1, Division
<1>7. w \in Nat /\ m \in Nat /\ W(k + 1) = w * b /\ W(N + (k + 1)) = m * b /\ m = w * ((R0 + R1 * b) + Prime * x2)
  <2>1. W(N + k) = W(k) * W(N) /\ W(N) = (R0 + R1 * 2^B) + Prime * 2^(B - T)
    <3>1. W(N + k) = W(N) * W(k) /\ W(N) \in Nat /\ W(k) \in Nat
      BY <1>0, Weights
    <3>2. W(N) * W(k) = W(k) * W(N)
      BY <3>1
    <3> QED BY <3>1, <3>2, Fold
  <2> QED BY <1>0, <2>1, Weights
<1>8. Part(Lows(s.t), k + 1) = Part(Lows(g.t), k) + v * w /\ Part(Lows(g.t), k) \in Int
  <2>1. s.t = Append(g.t, v) /\ v \in 0 .. 2^B - 1
    BY <1>3, <1>6
  <2> HIDE DEF v
  <2> QED BY <1>0, <1>2, <2>1, LowsNext
<1>9. /\ Upto(column, k + 1) = Upto(column, k) + q * w
      /\ Upto(column, N + (k + 1)) = Upto(column, N + k) + p * m
      /\ Upto(column, k) \in Int /\ Upto(column, N + k) \in Int /\ Upto(column, N) \in Int
  <2>1. \A j \in 0 .. 2 * N - 2 : column[j] \in Nat
    BY DEF Columns
  <2>2. N \in 0 .. 2 * N - 1 /\ k \in 0 .. 2 * N - 1 /\ N + k \in 0 .. 2 * N - 1
    BY <1>0
  <2> QED BY <1>0, <2>1, <2>2, UptoNext DEF p, q
<1> DEFINE low == Part(Lows(g.t), k)
           c0 == g.c
           e0 == g.d
           n == Prime * x2
           r0 == R0
           r1 == R1
<1>10. /\ low \in Int /\ c0 \in Int /\ e0 \in Int /\ p \in Int /\ q \in Int /\ w \in Int /\ m \in Int /\ b \in Int
       /\ r0 \in Int /\ r1 \in Int /\ n \in Int /\ u \in Int /\ e \in Int /\ h \in Int /\ v \in Int
       /\ e0 + p = b * e + u /\ c0 + q + u * r0 = b * h + v /\ m = w * ((r0 + r1 * b) + n)
  <2>1. Prime * x2 \in Nat
    BY <1>4
  <2>2. low \in Int /\ c0 \in Int /\ e0 \in Int /\ p \in Int /\ q \in Int
    BY <1>1, <1>2, <1>8
  <2>3. b \in Int /\ r0 \in Int /\ r1 \in Int /\ n \in Int
    BY <1>4, <2>1
  <2>4. u \in Int /\ e \in Int /\ e0 + p = b * e + u
    BY <1>4, <1>5
  <2>5. h \in Int /\ v \in Int /\ c0 + q + u * r0 = b * h + v
    <3> HIDE DEF h, v, b
    <3> QED BY <1>4, <1>6
  <2>6. w \in Int /\ m \in Int /\ m = w * ((r0 + r1 * b) + n)
    <3> HIDE DEF w, m
    <3> QED BY <1>7
  <2> QED BY <2>2, <2>3, <2>4, <2>5, <2>6
<1>11. Holds(g, k) = low + c0 * w + e0 * m
  BY DEF Holds
<1>12. Holds(s, k + 1) = (low + v * w) + (h + u * r1) * (w * b) + e * (m * b)
  BY <1>3, <1>7, <1>8 DEF Holds
<1> DEFINE t0 == column[N - 1] \div 2^B
           f == t0 * W(N)
           i == Upto(column, k)
           j == Upto(column, N + k)
           l == Upto(column, N)
<1>13. Taken(column, k) = f + i + (j - l) /\ Taken(column, k + 1) = f + (i + q * w) + ((j + p * m) - l)
  BY <1>9 DEF Taken
<1>14. f \in Int /\ i \in Int /\ j \in Int /\ l \in Int
  <2>1. column[N - 1] \in Nat
    <3>1. N - 1 \in 0 .. 2 * N - 2
      BY <1>0
    <3> QED BY <3>1 DEF Columns
  <2>2. t0 \in Nat /\ W(N) \in Nat
    BY <1>0, <1>4, <2>1, Division, Weights
  <2>3. t0 * W(N) \in Int
    <3> HIDE DEF t0
    <3> QED BY <2>2
  <2> QED BY <1>9, <2>3
<1> HIDE DEF low, c0, e0, n, r0, r1, f, i, j, l, p, q, b, e, u, h, v, w, m, d, a
<1>15. (low + v * w) + (h + u * r1) * (w * b) + e * (m * b)
         = ((low + c0 * w + e0 * m) + (q * w + p * m)) - (u * w) * n
  BY <1>10, StepWorth
<1>16. (u * w) * n = ((u * w) * x2) * Prime /\ (u * w) * x2 \in Int
  <2> DEFINE o == Prime
  <2>1. o \in Int /\ x2 \in Int /\ n = o * x2
    BY <1>4 DEF n
  <2> HIDE DEF o, x2
  <2>2. (u * w) * (o * x2) = ((u * w) * x2) * o /\ (u * w) * x2 \in Int
    BY <1>10, <2>1
  <2> QED BY <2>1, <2>2 DEF o
<1> DEFINE y0 == (u * w) * x2
           o == Prime
<1>17. Holds(s, k + 1) = Taken(column, k + 1) - (z + y0) * o
  <2>1. q * w \in Int /\ p * m \in Int
    BY <1>10
  <2>2. y0 \in Int /\ o \in Int /\ (u * w) * n = y0 * o
    BY <1>4, <1>16
  <2> HIDE DEF y0, o
  <2>3. (z + y0) * o = z * o + y0 * o /\ z * o \in Int /\ y0 * o \in Int
    BY <2>2
  <2>4. low + c0 * w + e0 * m = (f + i + (j - l)) - z * o
    BY <1>11, <1>13 DEF o
  <2>5. Holds(s, k + 1) = (((f + i + (j - l)) - z * o) + (q * w + p * m)) - y0 * o
    BY <1>12, <1>15, <2>2, <2>4
  <2>6. Taken(column, k + 1) = (f + i + (j - l)) + (q * w + p * m)
    BY <1>13, <1>14, <2>1
  <2> QED BY <1>14, <2>1, <2>3, <2>5, <2>6
<1>18. z + y0 \in Int
  BY <1>16
<1> QED BY <1>3, <1>17, <1>18

\* All steps of Reduce.
LEMMA ReductionHolds ==
  ASSUME NEW column, Columns(column), NEW f, IsReduction(f, column, 2^AccBits)
  PROVE  \E z \in Int : Holds(f[N - 1], N - 1) = Taken(column, N - 1) - z * Prime
<1> DEFINE H == {k \in Nat : k \in 0 .. N - 1 => /\ Going(f[k], k)
                                                 /\ \E z \in Int : Holds(f[k], k) = Taken(column, k) - z * Prime}
           top == column[N - 1]
<1>0. N \in Nat /\ N >= 4 /\ top \in Nat /\ top <= MaxColumn /\ 2^AccBits \in Nat \ {0} /\ 2^AccBits <= 2^AccBits
  <2>1. N - 1 \in 0 .. 2 * N - 2
    BY TopIsLimb
  <2> QED BY <2>1, TopIsLimb, Sizes DEF Columns
<1>1. 0 \in H
  <2>1. 0 \in 0 .. N - 1
    BY <1>0
  <2>2. f[0] = Start(top, 2^AccBits)
    BY <2>1 DEF IsReduction
  <2>3. f[0] = [c |-> 0, d |-> top \div 2^B, t |-> <<>>] /\ Going(f[0], 0)
    <3> HIDE DEF top
    <3> QED BY <1>0, <2>2, StartGoes
  <2> DEFINE e == top \div 2^B
             m == W(N)
             l == Upto(column, N)
  <2>4. e \in Nat /\ m \in Nat
    BY <1>0, Sizes, Division, Weights
  <2>5. Upto(column, 0) = 0 /\ l \in Int
    <3>1. \A j \in 0 .. 2 * N - 2 : column[j] \in Nat
      BY DEF Columns
    <3>2. N \in 0 .. 2 * N - 1
      BY <1>0
    <3> QED BY <3>1, <3>2, UptoNext
  <2>6. Part(Lows(f[0].t), 0) = 0
    <3>1. f[0].t \in Seq(0 .. 2^B - 1)
      BY <2>3 DEF Going
    <3> QED BY <3>1, LowsAre, Parts
  <2>7. Holds(f[0], 0) = 0 + 0 * W(0) + e * m
    <3>1. N + 0 = N /\ f[0].c = 0 /\ f[0].d = e
      BY <1>0, <2>3
    <3> QED BY <2>6, <3>1 DEF Holds
  <2>8. Taken(column, 0) = e * m + 0 + (l - l)
    <3>1. N + 0 = N
      BY <1>0
    <3> QED BY <2>5, <3>1 DEF Taken
  <2>9. 0 * W(0) = 0 /\ W(0) \in Nat
    BY Weights
  <2> HIDE DEF e, m, l, top
  <2>10. e * m \in Int
    BY <2>4
  <2>11. Holds(f[0], 0) = Taken(column, 0) - 0 * Prime
    <3>1. 0 * Prime = 0
      BY Fold
    <3> QED BY <2>5, <2>7, <2>8, <2>9, <2>10, <3>1
  <2> QED BY <2>3, <2>11
<1>2. ASSUME NEW k \in H PROVE k + 1 \in H
  <2> SUFFICES ASSUME k + 1 \in 0 .. N - 1
               PROVE  /\ Going(f[k + 1], k + 1)
                      /\ \E z \in Int : Holds(f[k + 1], k + 1) = Taken(column, k + 1) - z * Prime
    OBVIOUS
  <2>1. k \in 0 .. N - 2 /\ k \in 0 .. N - 1 /\ (k + 1) - 1 = k /\ N + (k + 1) - 1 = N + k /\ k + 1 # 0
    BY <1>0
  <2>2. Going(f[k], k) /\ \E z \in Int : Holds(f[k], k) = Taken(column, k) - z * Prime
    BY <2>1
  <2>3. PICK z \in Int : Holds(f[k], k) = Taken(column, k) - z * Prime
    BY <2>2
  <2>4. f[k + 1] = Step(f[k], column[N + k], column[k], 2^AccBits)
    BY <2>1 DEF IsReduction
  <2> HIDE DEF H
  <2> QED BY <2>1, <2>2, <2>3, <2>4, StepHolds
<1> HIDE DEF H
<1>3. H = Nat
  BY <1>1, <1>2, Induction DEF H
<1>4. N - 1 \in Nat /\ N - 1 \in 0 .. N - 1
  BY <1>0
<1> QED BY <1>3, <1>4 DEF H

-----------------------------------------------------------------------------
\* The end of the reduction stays within its sizes.

\* The last accumulators of the lower columns.
EndC9(e, top) == e.c + e.d * R0 + (top % 2^B)
EndC(e, top) == (EndC9(e, top) \div 2^T) + e.d * R1 * 2^(B - T)

\* They are numbers, of which the first is split at the top of the top limb.
LEMMA EndIsNat ==
  ASSUME NEW e, Going(e, N - 1), NEW top \in Nat
  PROVE  /\ EndC9(e, top) \in Nat /\ EndC(e, top) \in Nat /\ e.d * R1 * 2^(B - T) \in Nat
         /\ EndC9(e, top) \div 2^T \in Nat /\ EndC9(e, top) % 2^T \in Nat
         /\ EndC9(e, top) = 2^T * (EndC9(e, top) \div 2^T) + (EndC9(e, top) % 2^T)
<1> DEFINE c9 == EndC9(e, top)
           d == e.d
           x2 == 2^(B - T)
           b == 2^B
           t == 2^T
<1>1. e.c \in Nat /\ d \in Nat /\ R0 \in Nat /\ R1 \in Nat /\ x2 \in Nat /\ b \in Nat \ {0} /\ t \in Nat \ {0}
  BY Fold, Sizes DEF Going
<1> HIDE DEF d, x2, b, t
<1>2. d * R0 \in Nat /\ top % b \in Nat
  BY <1>1, Division
<1>3. c9 \in Nat
  BY <1>1, <1>2 DEF EndC9, d, b
<1> HIDE DEF c9
<1>4. c9 \div t \in Nat /\ c9 % t \in Nat /\ c9 = t * (c9 \div t) + (c9 % t)
  BY <1>1, <1>3, Division
<1>5. d * R1 * x2 \in Nat
  BY <1>1
<1>6. EndC(e, top) = (c9 \div t) + d * R1 * x2
  BY DEF EndC, c9, t, d, x2
<1>7. EndC(e, top) \in Nat
  BY <1>4, <1>5, <1>6
<1> QED BY <1>3, <1>4, <1>5, <1>7 DEF c9, t, d, x2

\* What the end of Reduce makes of the limbs and the accumulators is worth: the fold of what
\* exceeds the top limb adds CC for each 2^Bits.
LEMMA ClosedValue ==
  ASSUME NEW e, Going(e, N - 1), NEW top \in Nat
  PROVE  Value(Closed(e, top)) = Part(Lows(e.t), N - 1) + EndC(e, top) * CC
                                   + (EndC9(e, top) % 2^T) * W(N - 1)
<1> DEFINE l == Closed(e, top)
           t == Lows(e.t)
           c == EndC(e, top)
           r == EndC9(e, top) % 2^T
           b == 2^B
           d0 == c * C0 + e.t[1]
           d1 == (d0 \div b) + c * 2^S + e.t[2]
<1>0. N \in Nat /\ N >= 4 /\ Limb = 0 .. N - 1 /\ N - 1 \in Limb /\ b \in Nat \ {0} /\ 2^S \in Nat /\ C0 \in Nat
  BY TopIsLimb, Sizes, ShapeAssumption
<1>1. /\ l[0] = d0 % b /\ l[1] = d1 % b /\ l[2] = (d1 \div b) + e.t[3] /\ l[N - 1] = r
      /\ \A i \in 3 .. N - 2 : l[i] = e.t[i + 1]
  <2>1. /\ 0 \in Limb /\ 1 \in Limb /\ 2 \in Limb /\ N - 1 \in Limb
        /\ N - 1 # 0 /\ N - 1 # 1 /\ N - 1 # 2
    BY <1>0
  <2>2. \A i \in 3 .. N - 2 : i \in Limb /\ i # 0 /\ i # 1 /\ i # 2 /\ i # N - 1
    BY <1>0
  <2>3. l[0] = d0 % b /\ l[1] = d1 % b /\ l[2] = (d1 \div b) + e.t[3]
    BY <2>1 DEF Closed, EndC, EndC9
  <2>4. l[N - 1] = r
    BY <2>1 DEF Closed, EndC, EndC9
  <2>5. \A i \in 3 .. N - 2 : l[i] = e.t[i + 1]
    BY <2>2 DEF Closed
  <2> QED BY <2>3, <2>4, <2>5
<1>2. /\ e.t \in Seq(0 .. 2^B - 1) /\ Len(e.t) = N - 1
      /\ \A i \in 0 .. N - 2 : t[i] = e.t[i + 1] /\ t[i] \in Nat
      /\ \A i \in Limb : t[i] \in Int
  <2>1. e.t \in Seq(0 .. 2^B - 1) /\ Len(e.t) = N - 1
    BY DEF Going
  <2>2. \A i \in 0 .. N - 2 : i \in Limb /\ i < N - 1
    BY <1>0
  <2>3. \A i \in 0 .. N - 2 : t[i] = e.t[i + 1]
    BY <2>1, <2>2 DEF Lows
  <2> HIDE DEF t
  <2> QED BY <2>1, <2>2, <2>3, LowsAre DEF t
<1>3. c \in Nat /\ r \in Nat
  BY EndIsNat
<1> HIDE DEF l, t, c, r
<1>4. /\ d0 = c * C0 + t[0] /\ t[0] \in Nat /\ t[1] \in Nat /\ t[2] \in Nat
      /\ d1 = (d0 \div b) + c * 2^S + t[1] /\ l[2] = (d1 \div b) + t[2]
  <2>1. 0 \in 0 .. N - 2 /\ 1 \in 0 .. N - 2 /\ 2 \in 0 .. N - 2 /\ 0 + 1 = 1 /\ 1 + 1 = 2 /\ 2 + 1 = 3
    BY <1>0
  <2>2. t[0] = e.t[1] /\ t[1] = e.t[2] /\ t[2] = e.t[3]
    BY <1>2, <2>1
  <2> QED BY <1>1, <1>2, <2>1, <2>2
<1>5. d0 \in Nat /\ d0 \div b \in Nat /\ d0 % b \in Nat /\ d0 = b * (d0 \div b) + (d0 % b)
  <2>1. d0 \in Nat
    <3>1. c * C0 \in Nat
      BY <1>0, <1>3
    <3> HIDE DEF d0
    <3> QED BY <1>4, <3>1
  <2>2. b \in Nat \ {0}
    BY <1>0
  <2> HIDE DEF d0, b
  <2> QED BY <2>1, <2>2, Division
<1>6. d1 \in Nat /\ d1 \div b \in Nat /\ d1 % b \in Nat /\ d1 = b * (d1 \div b) + (d1 % b)
  <2>1. d1 \in Nat
    <3>1. c * 2^S \in Nat
      BY <1>0, <1>3
    <3> HIDE DEF d1
    <3> QED BY <1>4, <1>5, <3>1
  <2>2. b \in Nat \ {0}
    BY <1>0
  <2> HIDE DEF d1, b
  <2> QED BY <2>1, <2>2, Division
<1> HIDE DEF d0, d1
<1>7. \A i \in Limb : l[i] \in Int
  <2> TAKE i \in Limb
  <2>1. i = 0 \/ i = 1 \/ i = 2 \/ i = N - 1 \/ i \in 3 .. N - 2
    BY <1>0
  <2>2. l[0] \in Int /\ l[1] \in Int /\ l[2] \in Int /\ l[N - 1] \in Int
    BY <1>1, <1>3, <1>4, <1>5, <1>6
  <2>3. i \in 3 .. N - 2 => l[i] \in Int
    <3> SUFFICES ASSUME i \in 3 .. N - 2 PROVE l[i] \in Int
      OBVIOUS
    <3>1. i \in 0 .. N - 2
      BY <1>0
    <3> QED BY <1>1, <1>2, <3>1
  <2> QED BY <2>1, <2>2, <2>3
<1>8. Part(l, 3) = c * CC + Part(t, 3)
  <2>1. /\ 0 \in Limb /\ 1 \in Limb /\ 2 \in Limb /\ 0 + 1 = 1 /\ 1 + 1 = 2 /\ 2 + 1 = 3
    BY <1>0
  <2>2. /\ Part(l, 0) = 0 /\ Part(l, 1) = Part(l, 0) + l[0] * W(0) /\ Part(l, 2) = Part(l, 1) + l[1] * W(1)
        /\ Part(l, 3) = Part(l, 2) + l[2] * W(2)
    BY <1>7, <2>1, Parts
  <2>3. /\ Part(t, 0) = 0 /\ Part(t, 1) = Part(t, 0) + t[0] * W(0) /\ Part(t, 2) = Part(t, 1) + t[1] * W(1)
        /\ Part(t, 3) = Part(t, 2) + t[2] * W(2)
    BY <1>2, <2>1, Parts
  <2>4. W(0) = 1 /\ W(1) = b /\ W(2) = b * b
    BY Weights
  <2> DEFINE u0 == d0 % b
             q0 == d0 \div b
             u1 == d1 % b
             q1 == d1 \div b
             t0 == t[0]
             t1 == t[1]
             t2 == t[2]
             s == 2^S
  <2>5. /\ u0 \in Nat /\ q0 \in Nat /\ u1 \in Nat /\ q1 \in Nat /\ t0 \in Nat /\ t1 \in Nat /\ t2 \in Nat
        /\ s \in Nat /\ b \in Nat /\ c \in Nat /\ C0 \in Nat
        /\ c * C0 + t0 = b * q0 + u0 /\ q0 + c * s + t1 = b * q1 + u1
    BY <1>0, <1>3, <1>4, <1>5, <1>6
  <2>6. Part(l, 3) = (u0 + u1 * b) + (q1 + t2) * (b * b)
    <3>1. l[0] = u0 /\ l[1] = u1 /\ l[2] = q1 + t2
      BY <1>1, <1>4
    <3> HIDE DEF u0, u1, q1, t2, q0, t0, t1, s, b
    <3>2. u0 * 1 = u0 /\ u1 * b \in Int /\ (q1 + t2) * (b * b) \in Int
      BY <2>5
    <3> QED BY <2>2, <2>4, <2>5, <3>1, <3>2
  <2>7. Part(t, 3) = (t0 + t1 * b) + t2 * (b * b)
    <3> HIDE DEF u0, u1, q1, t2, q0, t0, t1, s, b
    <3>1. t0 * 1 = t0 /\ t1 * b \in Int /\ t2 * (b * b) \in Int
      BY <2>5
    <3> QED BY <2>3, <2>4, <2>5, <3>1 DEF t0, t1, t2
  <2>8. CC = C0 + s * b
    BY DEF CC
  <2> HIDE DEF u0, u1, q1, t2, q0, t0, t1, s, b
  <2>9. (u0 + u1 * b) + (q1 + t2) * (b * b) = c * (C0 + s * b) + ((t0 + t1 * b) + t2 * (b * b))
    <3>1. u0 = (c * C0 + t0) - b * q0
      BY <2>5
    <3>2. (q1 + t2) * (b * b) = (b * q1) * b + t2 * (b * b)
      BY <2>5
    <3>3. (b * q1) * b = ((q0 + c * s + t1) - u1) * b
      BY <2>5
    <3>4. ((q0 + c * s + t1) - u1) * b = b * q0 + (c * s) * b + t1 * b - u1 * b
      BY <2>5
    <3>5. c * (C0 + s * b) = c * C0 + (c * s) * b
      BY <2>5
    <3>6. /\ c * C0 \in Int /\ b * q0 \in Int /\ (c * s) * b \in Int /\ t1 * b \in Int /\ u1 * b \in Int
          /\ t2 * (b * b) \in Int
      BY <2>5
    <3> QED BY <2>5, <3>1, <3>2, <3>3, <3>4, <3>5, <3>6
  <2> QED BY <2>6, <2>7, <2>8, <2>9
<1> DEFINE H == {k \in Nat : 3 <= k /\ k <= N - 1 => Part(l, k) = c * CC + Part(t, k)}
<1>9. 0 \in H
  OBVIOUS
<1>10. ASSUME NEW k \in H PROVE k + 1 \in H
  <2> SUFFICES ASSUME 3 <= k + 1, k + 1 <= N - 1 PROVE Part(l, k + 1) = c * CC + Part(t, k + 1)
    OBVIOUS
  <2>1. CASE k + 1 = 3
    BY <1>8, <2>1
  <2>2. CASE k + 1 # 3
    <3>1. k \in Nat /\ 3 <= k /\ k <= N - 1 /\ k \in 3 .. N - 2 /\ k \in Limb /\ k \in 0 .. N - 2 /\ k \in 0 .. N
      BY <1>0, <2>2
    <3>2. Part(l, k) = c * CC + Part(t, k) /\ l[k] = t[k]
      BY <1>1, <1>2, <3>1
    <3>3. Part(l, k + 1) = Part(l, k) + l[k] * W(k) /\ Part(l, k) \in Int
      BY <1>7, <3>1, Parts
    <3>4. Part(t, k + 1) = Part(t, k) + t[k] * W(k) /\ Part(t, k) \in Int
      BY <1>2, <3>1, Parts
    <3>5. t[k] * W(k) \in Int /\ c * CC \in Int
      <4> DEFINE a == t[k]
                 w == W(k)
      <4>1. a \in Int /\ w \in Int /\ CC \in Int
        BY <1>2, <3>1, WeightOfLimb, PrimeSizes
      <4> HIDE DEF a, w
      <4>2. a * w \in Int /\ c * CC \in Int
        BY <1>3, <4>1
      <4> QED BY <4>2 DEF a, w
    <3> HIDE DEF H
    <3> QED BY <3>2, <3>3, <3>4, <3>5
  <2> QED BY <2>1, <2>2
<1> HIDE DEF H
<1>11. H = Nat
  BY <1>9, <1>10, Induction DEF H
<1>12. Part(l, N - 1) = c * CC + Part(t, N - 1)
  <2>1. N - 1 \in Nat /\ 3 <= N - 1 /\ N - 1 <= N - 1
    BY <1>0
  <2> QED BY <1>11, <2>1 DEF H
<1>13. Value(l) = Part(l, N - 1) + r * W(N - 1)
  <2>1. Value(l) = Part(l, N) /\ Part(l, N) = Part(l, N - 1) + l[N - 1] * W(N - 1)
    BY <1>7, Parts
  <2> QED BY <1>1, <2>1
<1>14. Part(t, N - 1) \in Int /\ c * CC \in Int
  <2>1. N - 1 \in 0 .. N
    BY <1>0
  <2>2. CC \in Int
    BY PrimeSizes
  <2> QED BY <1>2, <1>3, <2>1, <2>2, Parts
<1>15. Value(l) = Part(t, N - 1) + c * CC + r * W(N - 1)
  BY <1>12, <1>13, <1>14
<1> QED BY <1>15 DEF l, t, c, r

-----------------------------------------------------------------------------
\* The end of the reduction: the result is worth the columns, modulo the prime.

\* The arithmetic of the end of Reduce.
LEMMA EndWorth ==
  ASSUME NEW low \in Int, NEW a \in Int, NEW d \in Int, NEW v \in Int, NEW w \in Int, NEW b \in Int,
         NEW r0 \in Int, NEW r1 \in Int, NEW x2 \in Int, NEW p \in Int, NEW z \in Int, NEW t \in Int,
         NEW h \in Int, NEW r \in Int, NEW q \in Int, NEW s \in Int,
         b = t * x2, w * t = p + q, a + d * r0 + v = t * h + r,
         low + a * w + d * (w * ((r0 + r1 * b) + p * x2)) = (s - v * w) - z * p
  PROVE  s = (low + (h + d * r1 * x2) * q + r * w) + (z + (h + d * r1 * x2) + d * w * x2) * p
<1> DEFINE c == h + d * r1 * x2
<1>1. d * (w * ((r0 + r1 * b) + p * x2)) = (d * r0) * w + (d * r1 * x2) * (w * t) + (d * w * x2) * p
  <2>1. d * (w * ((r0 + r1 * b) + p * x2)) = (d * r0) * w + (d * r1) * (w * b) + (d * w * x2) * p
    OBVIOUS
  <2>2. (d * r1) * (w * (t * x2)) = (d * r1 * x2) * (w * t)
    OBVIOUS
  <2> QED BY <2>1, <2>2
<1>2. (a + d * r0 + v) * w = h * (w * t) + r * w
  <2>1. (t * h + r) * w = h * (w * t) + r * w
    OBVIOUS
  <2> QED BY <2>1
<1>3. (a + d * r0 + v) * w = a * w + (d * r0) * w + v * w
  OBVIOUS
<1>4. h * (w * t) + (d * r1 * x2) * (w * t) = c * p + c * q /\ c \in Int
  <2>1. h * (w * t) + (d * r1 * x2) * (w * t) = c * (w * t)
    OBVIOUS
  <2>2. c \in Int
    OBVIOUS
  <2> HIDE DEF c
  <2>3. c * (p + q) = c * p + c * q
    BY <2>2
  <2> QED BY <2>1, <2>2, <2>3
<1> DEFINE g == d * w * x2
           aw == a * w
           e == (d * r0) * w
           vw == v * w
           u == (d * r1 * x2) * (w * t)
           hw == h * (w * t)
           rw == r * w
           gp == g * p
           zp == z * p
           cp == c * p
           cq == c * q
<1>5. /\ g \in Int /\ aw \in Int /\ e \in Int /\ vw \in Int /\ u \in Int /\ hw \in Int /\ rw \in Int
      /\ c \in Int /\ z \in Int /\ p \in Int /\ low \in Int /\ s \in Int
  BY <1>4
<1>6. /\ low + aw + (e + u + gp) = (s - vw) - zp /\ aw + e + vw = hw + rw /\ hw + u = cp + cq
  BY <1>1, <1>2, <1>3, <1>4
<1> HIDE DEF c, g, aw, e, vw, u, hw, rw
<1>7. gp \in Int /\ zp \in Int /\ cp \in Int /\ (z + c + g) * p = zp + cp + gp
  BY <1>5
<1>8. cq \in Int
  BY <1>5
<1> HIDE DEF gp, zp, cp, cq
<1>9. s = (low + cq + rw) + (zp + cp + gp)
  BY <1>5, <1>6, <1>7, <1>8
<1> QED BY <1>7, <1>9 DEF c, g, cq, rw

\* mul_inner and sqr_inner leave what the columns are worth, modulo the prime.
LEMMA ReduceValue ==
  ASSUME NEW column, Columns(column)
  PROVE  Value(Reduce(column)) % Prime = Worths(column) % Prime
<1> DEFINE f == CHOOSE f : IsReduction(f, column, 2^AccBits)
           top == column[N - 1]
           e == f[N - 1]
<1>0. /\ N \in Nat /\ N >= 4 /\ top \in Nat /\ top <= MaxColumn
      /\ 2^AccBits \in Nat \ {0} /\ 2^AccBits <= 2^AccBits /\ 2^WordBits \in Nat \ {0} /\ 2^WordBits <= 2^WordBits
  <2>1. N - 1 \in 0 .. 2 * N - 2
    BY TopIsLimb
  <2> QED BY <2>1, TopIsLimb, Sizes DEF Columns
<1>1. IsReduction(f, column, 2^AccBits)
  BY ReductionExists
<1>2. Reduce(column) = Finished(e, top, 2^AccBits, 2^WordBits)
  BY ReduceIsFinished
<1> HIDE DEF f
<1>3. Going(e, N - 1) /\ e.d <= MaxD
  BY <1>0, <1>1, ReductionsAgree
<1>4. PICK z \in Int : Holds(e, N - 1) = Taken(column, N - 1) - z * Prime
  BY <1>1, ReductionHolds
<1> HIDE DEF e
<1>5. Reduce(column) = Closed(e, top) /\ Bounded(Closed(e, top), 1)
  <2> HIDE DEF top
  <2> QED BY <1>0, <1>2, <1>3, FinishedIsClosed
<1> DEFINE b == 2^B
           w == W(N - 1)
           low == Part(Lows(e.t), N - 1)
           th == top \div b
           tl == top % b
           h == EndC9(e, top) \div 2^T
           r == EndC9(e, top) % 2^T
           x2 == 2^(B - T)
           t == 2^T
           c == h + e.d * R1 * x2
           s == Worths(column)
<1>6. Value(Closed(e, top)) = low + c * CC + r * w
  <2>1. Value(Closed(e, top)) = low + EndC(e, top) * CC + r * w
    BY <1>0, <1>3, ClosedValue
  <2>2. EndC(e, top) = c
    BY DEF EndC
  <2> HIDE DEF c, low, r, w
  <2> QED BY <2>1, <2>2
<1>7. /\ b \in Nat \ {0} /\ w \in Nat /\ x2 \in Nat /\ t \in Nat /\ b = t * x2 /\ w * t = Prime + CC
      /\ W(N) = w * b /\ W(N + (N - 1)) = w * ((R0 + R1 * b) + Prime * x2) /\ CC \in Nat /\ Prime \in Nat \ {0}
      /\ R0 \in Nat /\ R1 \in Nat
  <2>1. N - 1 \in Nat /\ N \in Nat /\ (N - 1) + 1 = N /\ N + (N - 1) = (N - 1) + N
    BY <1>0
  <2>2. b \in Nat \ {0} /\ x2 \in Nat /\ t \in Nat /\ b = t * x2 /\ w \in Nat
    BY <2>1, Sizes, Weights
  <2>3. w * t = Prime + CC /\ CC \in Nat /\ Prime \in Nat \ {0}
    <3>1. 2^Bits = w * t
      BY Weights
    <3>2. Prime = 2^Bits - CC /\ 2^Bits \in Nat /\ CC \in Nat /\ Prime \in Nat \ {0}
      BY PrimeSizes
    <3> QED BY <3>1, <3>2
  <2>4. W(N) = w * b
    <3>1. W((N - 1) + 1) = W(N - 1) * 2^B
      BY <2>1, Weights
    <3> QED BY <2>1, <3>1
  <2>5. W(N + (N - 1)) = w * ((R0 + R1 * b) + Prime * x2)
    <3>1. W((N - 1) + N) = W(N - 1) * W(N)
      BY <2>1, Weights
    <3> QED BY <2>1, <3>1, Fold
  <2> QED BY <2>2, <2>3, <2>4, <2>5, Fold
<1>8. top = b * th + tl /\ th \in Nat /\ tl \in Nat
  <2>1. top \in Nat /\ b \in Nat \ {0}
    BY <1>0, <1>7
  <2> HIDE DEF top, b
  <2> QED BY <2>1, Division
<1>9. Taken(column, N - 1) = s - tl * w /\ s \in Int
  <2> DEFINE u == Upto(column, N - 1)
             o == Upto(column, N)
  <2>0. \A k \in 0 .. 2 * N - 2 : column[k] \in Nat
    BY DEF Columns
  <2>1. o = u + top * w /\ u \in Int /\ o \in Int
    <3>1. N - 1 \in 0 .. 2 * N - 2 /\ N - 1 \in 0 .. 2 * N - 1 /\ (N - 1) + 1 = N
      BY <1>0
    <3>2. Upto(column, (N - 1) + 1) = Upto(column, N - 1) + column[N - 1] * W(N - 1) /\ u \in Int
      BY <2>0, <3>1, UptoNext
    <3>3. N \in 0 .. 2 * N - 1
      BY <1>0
    <3> QED BY <2>0, <3>1, <3>2, <3>3, UptoNext
  <2>2. s = Upto(column, N + (N - 1)) /\ s \in Int
    <3>1. N + (N - 1) = 2 * N - 1 /\ 2 * N - 1 \in 0 .. 2 * N - 1
      BY <1>0
    <3> QED BY <2>0, <3>1, UptoNext
  <2>3. Taken(column, N - 1) = th * (w * b) + u + (s - o)
    BY <1>7, <2>2 DEF Taken
  <2> HIDE DEF u, o, s, top, th, tl, w, b
  <2>4. (b * th + tl) * w = th * (w * b) + tl * w /\ th * (w * b) \in Int /\ tl * w \in Int
    BY <1>7, <1>8
  <2> QED BY <1>8, <2>1, <2>2, <2>3, <2>4
<1>10. Holds(e, N - 1) = low + e.c * w + e.d * (w * ((R0 + R1 * b) + Prime * x2))
  BY <1>7 DEF Holds
<1>11. /\ e.c \in Nat /\ e.d \in Nat /\ low \in Int /\ h \in Nat /\ r \in Nat
       /\ e.c + e.d * R0 + tl = t * h + r
  <2>1. e.c \in Nat /\ e.d \in Nat /\ e.t \in Seq(0 .. 2^B - 1)
    BY <1>3 DEF Going
  <2>2. low \in Int
    <3>1. N - 1 \in 0 .. N
      BY <1>0
    <3> QED BY <2>1, <3>1, LowsAre, Parts
  <2>3. h \in Nat /\ r \in Nat /\ EndC9(e, top) = t * h + r
    BY <1>0, <1>3, EndIsNat
  <2>4. EndC9(e, top) = e.c + e.d * R0 + tl
    BY DEF EndC9
  <2> QED BY <2>1, <2>2, <2>3, <2>4
<1> DEFINE a == e.c
           d == e.d
           r0 == R0
           r1 == R1
           p == Prime
           q == CC
<1>12. /\ low \in Int /\ a \in Int /\ d \in Int /\ tl \in Int /\ w \in Int /\ b \in Int /\ r0 \in Int /\ r1 \in Int
       /\ x2 \in Int /\ p \in Int /\ z \in Int /\ t \in Int /\ h \in Int /\ r \in Int /\ q \in Int /\ s \in Int
  <2> HIDE DEF b, w, low, th, tl, h, r, x2, t, s
  <2> QED BY <1>4, <1>7, <1>8, <1>9, <1>11
<1>13. /\ b = t * x2 /\ w * t = p + q /\ a + d * r0 + tl = t * h + r
       /\ low + a * w + d * (w * ((r0 + r1 * b) + p * x2)) = (s - tl * w) - z * p
  <2> HIDE DEF b, w, low, th, tl, h, r, x2, t, s
  <2> QED BY <1>4, <1>7, <1>9, <1>10, <1>11
<1>14. c = h + d * r1 * x2 /\ Value(Closed(e, top)) = low + c * q + r * w
  BY <1>6
<1> HIDE DEF b, w, low, th, tl, h, r, x2, t, s, a, d, r0, r1, p, q, c
<1>15. s = (low + (h + d * r1 * x2) * q + r * w) + (z + (h + d * r1 * x2) + d * w * x2) * p
  BY <1>12, <1>13, EndWorth
<1> DEFINE v == Value(Closed(e, top))
           k == z + c + d * w * x2
<1>16. s = v + k * p
  BY <1>14, <1>15
<1>17. k \in Int /\ v \in Int /\ s \in Int
  <2>1. c \in Int /\ d * w * x2 \in Int
    <3>1. d * r1 * x2 \in Int /\ d * w * x2 \in Int
      BY <1>12
    <3> QED BY <1>12, <1>14, <3>1
  <2>2. c * q \in Int /\ r * w \in Int
    BY <1>12, <2>1
  <2> QED BY <1>12, <1>14, <2>1, <2>2
<1> HIDE DEF k, v
<1>18. s % Prime = v % Prime
  BY <1>16, <1>17, CongBy DEF p
<1> QED BY <1>5, <1>18 DEF s, v

-----------------------------------------------------------------------------
\* The values of mul and sqr, and the product of FieldElem.

\* mul is worth the product, modulo the prime.
LEMMA MulValue ==
  ASSUME NEW m \in 1 .. MaxFactor, NEW n \in 1 .. MaxFactor, NEW l, Bounded(l, m), NEW h, Bounded(h, n)
  PROVE  Value(Mul(l, h)) % Prime = (Value(l) * Value(h)) % Prime
<1> DEFINE column == [k \in 0 .. 2 * N - 2 |-> MulColumn(l, h, k)]
<1>1. Columns(column)
  BY MulColumnsFit
<1>2. \A i \in Limb : l[i] \in Int /\ h[i] \in Int
  BY DEF Bounded
<1>3. Worths(column) = Value(l) * Value(h)
  BY <1>2, MulColumnsValue
<1>4. Mul(l, h) = Reduce(column)
  BY Zenon DEF Mul
<1> HIDE DEF column
<1> QED BY <1>1, <1>3, <1>4, ReduceValue

\* sqr is worth the square, modulo the prime.
LEMMA SqrValue ==
  ASSUME Wider, NEW m \in 1 .. MaxFactor, NEW l, Bounded(l, m)
  PROVE  Value(Sqr(l)) % Prime = (Value(l) * Value(l)) % Prime
<1> DEFINE column == [k \in 0 .. 2 * N - 2 |-> SqrColumn(l, k)]
<1>1. Columns(column) /\ \A i \in Limb : (l[i] * 2) % 2^WordBits = l[i] * 2
  BY SqrAgrees
<1>2. \A i \in Limb : l[i] \in Int
  BY DEF Bounded
<1>3. Worths(column) = Value(l) * Value(l)
  BY <1>1, <1>2, SqrColumnsValue
<1>4. Sqr(l) = Reduce(column)
  BY Zenon DEF Sqr
<1> HIDE DEF column
<1> QED BY <1>1, <1>3, <1>4, ReduceValue

\* The product of two residues, in parts of six bits as FieldOps takes it.
IsTimes(f, v) == f = [k \in Nat |-> IF k < 64 THEN (v * k) % Prime
                                    ELSE (f[k \div 64] * 64 + v * (k % 64)) % Prime]

\* Six bits more of the second factor.
LEMMA TimesStep ==
  ASSUME NEW v \in Nat, NEW k \in Nat
  PROVE  (v * k) % Prime = (((v * (k \div 64)) % Prime) * 64 + v * (k % 64)) % Prime
<1> DEFINE p == Prime
           q == k \div 64
           r == k % 64
           g == v * q
           e == v * r
           s == g % p
           i == g \div p
<1>0. p \in Nat \ {0}
  BY PrimeSizes
<1>1. q \in Nat /\ r \in Nat /\ k = 64 * q + r
  <2>1. 64 \in Nat \ {0}
    OBVIOUS
  <2> QED BY <2>1, Division
<1> HIDE DEF p, q, r
<1>2. g \in Nat /\ e \in Nat
  BY <1>1, ProductOf
<1>3. v * k = 64 * g + e
  <2>1. v * (64 * q + r) = 64 * (v * q) + v * r
    BY <1>1
  <2> QED BY <1>1, <2>1
<1> HIDE DEF g, e
<1>4. g = p * i + s /\ i \in Int /\ s \in Int
  BY <1>0, <1>2, Division
<1> HIDE DEF i, s
<1> DEFINE a == v * k
           c == s * 64 + e
           j == 64 * i
<1>5. a = c + j * p
  <2>1. 64 * (p * i + s) = (64 * i) * p + s * 64 /\ (64 * i) * p \in Int
    BY <1>0, <1>4
  <2> QED BY <1>2, <1>3, <1>4, <2>1
<1>6. a \in Int /\ c \in Int /\ j \in Int
  BY <1>2, <1>3, <1>4
<1> HIDE DEF a, c, j
<1>7. a % Prime = c % Prime
  BY <1>5, <1>6, CongBy DEF p
<1> QED BY <1>7 DEF a, c, s, e, g, q, r, p

\* A function that meets the recursive definition of Times exists.
LEMMA TimesExists ==
  ASSUME NEW v \in Nat
  PROVE  \E f : IsTimes(f, v)
<1> DEFINE f == [k \in Nat |-> (v * k) % Prime]
<1>1. ASSUME NEW k \in Nat
      PROVE  f[k] = IF k < 64 THEN (v * k) % Prime ELSE (f[k \div 64] * 64 + v * (k % 64)) % Prime
  <2>1. k \div 64 \in Nat
    <3>1. 64 \in Nat \ {0}
      OBVIOUS
    <3> QED BY <3>1, Division
  <2>2. f[k] = (v * k) % Prime /\ f[k \div 64] = (v * (k \div 64)) % Prime
    BY <2>1
  <2> HIDE DEF f
  <2>3. f[k] = (f[k \div 64] * 64 + v * (k % 64)) % Prime
    BY <2>2, TimesStep
  <2> QED BY <2>2, <2>3
<1>2. f = [k \in Nat |-> f[k]]
  OBVIOUS
<1> HIDE DEF f
<1>3. IsTimes(f, v)
  BY <1>1, <1>2 DEF IsTimes
<1> QED BY <1>3

\* The recursive function that takes a product in parts gives the product modulo the prime.
LEMMA TimesUnique ==
  ASSUME NEW v \in Nat, NEW f, IsTimes(f, v)
  PROVE  \A k \in Nat : f[k] = (v * k) % Prime
<1> DEFINE H == {n \in Nat : \A k \in Nat : k <= n => f[k] = (v * k) % Prime}
<1>1. \A k \in Nat : f[k] = IF k < 64 THEN (v * k) % Prime ELSE (f[k \div 64] * 64 + v * (k % 64)) % Prime
  BY DEF IsTimes
<1>2. 0 \in H
  <2>1. ASSUME NEW k \in Nat, k <= 0 PROVE f[k] = (v * k) % Prime
    <3>1. k < 64
      BY <2>1
    <3> QED BY <1>1, <3>1
  <2> QED BY <2>1
<1>3. ASSUME NEW n \in H PROVE n + 1 \in H
  <2>1. ASSUME NEW k \in Nat, k <= n + 1 PROVE f[k] = (v * k) % Prime
    <3>1. CASE k < 64
      BY <1>1, <3>1
    <3>2. CASE ~(k < 64)
      <4> DEFINE q == k \div 64
      <4>1. q \in Nat /\ q <= n
        <5>1. 64 \in Nat \ {0} /\ k \in Nat
          OBVIOUS
        <5>2. k \div 64 \in Nat /\ k % 64 \in 0 .. 64 - 1 /\ k = 64 * (k \div 64) + (k % 64)
          BY <5>1, Division
        <5>3. n \in Nat
          OBVIOUS
        <5> QED BY <2>1, <3>2, <5>2, <5>3
      <4>2. f[k] = (f[k \div 64] * 64 + v * (k % 64)) % Prime
        BY <1>1, <3>2
      <4>3. f[q] = (v * q) % Prime
        BY <4>1
      <4>4. (v * k) % Prime = (((v * (k \div 64)) % Prime) * 64 + v * (k % 64)) % Prime
        BY TimesStep
      <4> HIDE DEF H
      <4> QED BY <4>2, <4>3, <4>4
    <3> QED BY <3>1, <3>2
  <2> HIDE DEF H
  <2>2. n + 1 \in Nat
    BY DEF H
  <2> QED BY <2>1, <2>2 DEF H
<1> HIDE DEF H
<1>4. H = Nat
  BY <1>2, <1>3, Induction DEF H
<1> QED BY <1>4 DEF H

\* What FieldOps says of a product: it is taken modulo the prime.
LEMMA TimesValue ==
  ASSUME NEW v \in Nat, NEW w \in Nat
  PROVE  Ops!Times(v, w) = (v * w) % Prime
<1> DEFINE f == CHOOSE f : IsTimes(f, v)
<1>1. Ops!Times(v, w) = f[w]
  BY Zenon DEF Ops!Times, IsTimes
<1>2. IsTimes(f, v)
  BY TimesExists
<1> HIDE DEF f
<1> QED BY <1>1, <1>2, TimesUnique

-----------------------------------------------------------------------------
\* Refinement: each operation on limbs is the one of FieldOps on residues.

\* Residues of sums, products and remainders.
LEMMA Residues ==
  ASSUME NEW a \in Int, NEW b \in Int
  PROVE  /\ a % Prime \in 0 .. Prime - 1 /\ a % Prime \in Nat /\ (a % Prime) % Prime = a % Prime
         /\ (a + b) % Prime = ((a % Prime) + (b % Prime)) % Prime
         /\ (a * b) % Prime = ((a % Prime) * (b % Prime)) % Prime
         /\ (a * b) % Prime = ((a % Prime) * b) % Prime
<1> DEFINE p == Prime
           u == a % p
           v == b % p
<1>0. p \in Nat \ {0}
  BY PrimeSizes
<1>1. u \in 0 .. p - 1 /\ Cong(u, a) /\ v \in 0 .. p - 1 /\ Cong(v, b)
  BY CongMod
<1>2. u \in Nat /\ u \in Int /\ v \in Nat /\ v \in Int
  <2> HIDE DEF u, v, p
  <2> QED BY <1>0, <1>1
<1> HIDE DEF u, v, p
<1>3. Cong(u + v, a + b) /\ Cong(u * v, a * b)
  BY <1>1, <1>2, CongArithmetic
<1>4. Cong(u * b, a * b)
  <2>1. Cong(b, b)
    <3>1. b = b + 0 * Prime /\ 0 \in Int
      BY PrimeSizes
    <3> QED BY <3>1 DEF Cong
  <2> QED BY <1>1, <1>2, <2>1, CongArithmetic
<1>5. u % Prime = a % Prime
  BY <1>1, <1>2, CongMod
<1>6. (u + v) % Prime = (a + b) % Prime
  <2>1. u + v \in Int /\ a + b \in Int
    BY <1>2
  <2> QED BY <1>3, <2>1, CongMod
<1>7. (u * v) % Prime = (a * b) % Prime /\ (u * b) % Prime = (a * b) % Prime
  <2>1. u * v \in Int /\ a * b \in Int /\ u * b \in Int
    BY <1>2
  <2> DEFINE c == u * v
             d == a * b
             e == u * b
  <2>2. c \in Int /\ d \in Int /\ e \in Int /\ Cong(c, d) /\ Cong(e, d)
    BY <1>3, <1>4, <2>1
  <2> HIDE DEF c, d, e
  <2>3. c % Prime = d % Prime /\ e % Prime = d % Prime
    BY <2>2, CongMod
  <2> QED BY <2>3 DEF c, d, e
<1> QED BY <1>1, <1>2, <1>5, <1>6, <1>7 DEF u, v, p

\* The residue of a negative.
LEMMA NegativeResidue ==
  ASSUME NEW a \in Int, NEW k \in Int
  PROVE  (k * Prime - a) % Prime = (Prime - (a % Prime)) % Prime
<1> DEFINE p == Prime
           u == a % p
           q == a \div p
           j == (k - q) - 1
<1>1. p \in Nat \ {0}
  BY PrimeSizes
<1>2. u \in Int /\ q \in Int /\ a = p * q + u
  <2> HIDE DEF p
  <2> QED BY <1>1
<1> HIDE DEF p, u, q
<1>3. k * p - a = (p - u) + j * p
  <2>1. ((k - q) - 1) * p = k * p - p * q - p /\ k * p \in Int /\ p * q \in Int
    BY <1>1, <1>2
  <2> QED BY <1>1, <1>2, <2>1
<1> DEFINE b == k * p - a
           c == p - u
<1>4. b \in Int /\ c \in Int /\ j \in Int /\ b = c + j * p
  BY <1>1, <1>2, <1>3
<1> HIDE DEF b, c, j
<1>5. b % Prime = c % Prime
  BY <1>4, CongBy DEF p
<1> QED BY <1>5 DEF b, c, u, p

\* What the invariant says of the two elements.
LEMMA ElementsHave ==
  ASSUME IInv
  PROVE  /\ x.m \in 1 .. MaxMagnitude /\ x.n \in BOOLEAN /\ Bounded(x.l, x.m) /\ Value(x.l) \in Int
         /\ y.m \in 1 .. MaxMagnitude /\ y.n \in BOOLEAN /\ Bounded(y.l, y.m) /\ Value(y.l) \in Int
         /\ x.m \in Nat /\ y.m \in Nat /\ x.m <= 32 /\ y.m <= 32
<1>1. /\ x.m \in 1 .. MaxMagnitude /\ x.n \in BOOLEAN /\ Bounded(x.l, x.m)
      /\ y.m \in 1 .. MaxMagnitude /\ y.n \in BOOLEAN /\ Bounded(y.l, y.m)
  BY DEF IInv, Fits
<1>2. Value(x.l) \in Int /\ Value(y.l) \in Int
  BY <1>1, BoundedValue
<1>3. MaxMagnitude \in Nat /\ MaxMagnitude <= 32
  BY UseAssumption, ContractAssumption
<1> QED BY <1>1, <1>2, <1>3

\* What an element is worth.
LEMMA WorthIs ==
  ASSUME NEW l, NEW m, NEW n
  PROVE  Worth(Elem(l, m, n)) = [v |-> Value(l) % Prime, m |-> m, n |-> n]
BY DEF Worth, Elem

\* Each operation does to what the elements are worth what FieldOps says: normalize_weak leaves
\* it alone.
LEMMA NormalizeWeakComputes ==
  ASSUME Wider, IInv, DoNormalizeWeak
  PROVE  Ops!DoNormalizeWeak
<1>1. Value(NormalizeWeak(x.l)) % Prime = Value(x.l) % Prime
  BY ElementsHave, NormalizeResidue
<1>2. Worth(x') = [v |-> Value(x.l) % Prime, m |-> 1, n |-> x.n]
  BY <1>1, WorthIs DEF DoNormalizeWeak
<1>3. ~(x.m > 32)
  BY ElementsHave
<1>4. Ops!NormalizeWeak(Worth(x)) = [v |-> Value(x.l) % Prime, m |-> 1, n |-> x.n]
  BY <1>3 DEF Ops!NormalizeWeak, Worth
<1>5. Worth(x)' = Worth(x') /\ Worth(y)' = Worth(y)
  BY DEF DoNormalizeWeak, Worth
<1> QED BY <1>2, <1>4, <1>5 DEF Ops!DoNormalizeWeak

\* normalize leaves what the element is worth, and magnitude 1.
LEMMA NormalizeComputes ==
  ASSUME Wider, IInv, DoNormalize
  PROVE  Ops!DoNormalize
<1>1. Value(Normalize(x.l)) % Prime = Value(x.l) % Prime
  BY ElementsHave, NormalizeResidue, Residues
<1>2. Worth(x') = [v |-> Value(x.l) % Prime, m |-> 1, n |-> TRUE]
  BY <1>1, WorthIs DEF DoNormalize
<1>3. ~(x.m > 32)
  BY ElementsHave
<1>4. Ops!Normalize(Worth(x)) = [v |-> Value(x.l) % Prime, m |-> 1, n |-> TRUE]
  BY <1>3 DEF Ops!Normalize, Ops!SetInt, Worth
<1>5. Worth(x)' = Worth(x') /\ Worth(y)' = Worth(y)
  BY DEF DoNormalize, Worth
<1> QED BY <1>2, <1>4, <1>5 DEF Ops!DoNormalize

\* negate takes what the element is worth from the prime.
LEMMA NegateComputes ==
  ASSUME Wider, IInv, DoNegate
  PROVE  Ops!DoNegate
<1>0. x.m < MaxMagnitude
  BY DEF DoNegate
<1>1. Value(Negate(x.l, x.m)) % Prime = (Prime - (Value(x.l) % Prime)) % Prime
  <2>1. Value(Negate(x.l, x.m)) = (2 * (x.m + 1)) * Prime - Value(x.l)
    BY <1>0, ElementsHave, NegateValue
  <2>2. 2 * (x.m + 1) \in Int
    BY ElementsHave
  <2> QED BY <2>1, <2>2, ElementsHave, NegativeResidue
<1>2. Worth(x') = [v |-> (Prime - (Value(x.l) % Prime)) % Prime, m |-> x.m + 1, n |-> FALSE]
  BY <1>1, WorthIs DEF DoNegate
<1>3. ~(x.m > x.m)
  BY ElementsHave
<1>4. Ops!Negate(Worth(x), Worth(x).m) = [v |-> (Prime - (Value(x.l) % Prime)) % Prime, m |-> x.m + 1, n |-> FALSE]
  BY <1>3 DEF Ops!Negate, Worth
<1>5. Worth(x)' = Worth(x') /\ Worth(y)' = Worth(y)
  BY DEF DoNegate, Worth
<1>6. Worth(x).m < MaxMagnitude
  BY <1>0 DEF Worth
<1> QED BY <1>2, <1>4, <1>5, <1>6 DEF Ops!DoNegate

\* mul_int multiplies what the element is worth by the small integer.
LEMMA MulIntComputes ==
  ASSUME Wider, IInv, DoMulInt
  PROVE  Ops!DoMulInt
<1>0. PICK k \in Factors : x.m * k <= MaxMagnitude /\ x' = Elem(MulInt(x.l, k), x.m * k, FALSE) /\ UNCHANGED y
  BY DEF DoMulInt
<1>1. k \in Nat \ {0}
  BY UseAssumption
<1>2. Value(MulInt(x.l, k)) % Prime = ((Value(x.l) % Prime) * k) % Prime
  <2>1. Value(MulInt(x.l, k)) = Value(x.l) * k
    BY <1>0, <1>1, ElementsHave, MulIntValue
  <2>2. k \in Int
    BY <1>1
  <2> QED BY <2>1, <2>2, ElementsHave, Residues
<1>3. Worth(x') = [v |-> ((Value(x.l) % Prime) * k) % Prime, m |-> x.m * k, n |-> FALSE]
  BY <1>0, <1>2, WorthIs
<1>4. ~(x.m * k > 32)
  <2>1. x.m * k \in Nat
    BY <1>1, ElementsHave, ProductOf
  <2> QED BY <1>0, <2>1, UseAssumption, ContractAssumption
<1>5. Ops!MulInt(Worth(x), k) = [v |-> ((Value(x.l) % Prime) * k) % Prime, m |-> x.m * k, n |-> FALSE]
  BY <1>4 DEF Ops!MulInt, Worth
<1>6. Worth(x)' = Worth(x') /\ Worth(y)' = Worth(y)
  BY <1>0 DEF Worth
<1>7. Worth(x).m * k <= MaxMagnitude
  BY <1>0 DEF Worth
<1> QED BY <1>3, <1>5, <1>6, <1>7 DEF Ops!DoMulInt

\* add adds what the two elements are worth.
LEMMA AddComputes ==
  ASSUME Wider, IInv, DoAdd
  PROVE  Ops!DoAdd
<1>0. x.m + y.m <= MaxMagnitude
  BY DEF DoAdd
<1>1. Value(Add(x.l, y.l)) % Prime = ((Value(x.l) % Prime) + (Value(y.l) % Prime)) % Prime
  <2>1. Value(Add(x.l, y.l)) = Value(x.l) + Value(y.l)
    BY <1>0, ElementsHave, AddValue
  <2> QED BY <2>1, ElementsHave, Residues
<1>2. Worth(x') = [v |-> ((Value(x.l) % Prime) + (Value(y.l) % Prime)) % Prime, m |-> x.m + y.m, n |-> FALSE]
  BY <1>1, WorthIs DEF DoAdd
<1>3. ~(x.m + y.m > 32)
  BY <1>0, ElementsHave, UseAssumption, ContractAssumption
<1>4. Ops!Add(Worth(x), Worth(y))
        = [v |-> ((Value(x.l) % Prime) + (Value(y.l) % Prime)) % Prime, m |-> x.m + y.m, n |-> FALSE]
  BY <1>3 DEF Ops!Add, Worth
<1>5. Worth(x)' = Worth(x') /\ Worth(y)' = Worth(y)
  BY DEF DoAdd, Worth
<1>6. Worth(x).m + Worth(y).m <= MaxMagnitude
  BY <1>0 DEF Worth
<1> QED BY <1>2, <1>4, <1>5, <1>6 DEF Ops!DoAdd

\* A product of what two elements are worth, taken modulo the prime.
LEMMA WeakProduct ==
  ASSUME NEW a \in Int, NEW b \in Int
  PROVE  Ops!Weak(Ops!Times(a % Prime, b % Prime)) = [v |-> (a * b) % Prime, m |-> 1, n |-> FALSE]
<1> DEFINE c == (a % Prime) * (b % Prime)
<1>1. a % Prime \in Nat /\ b % Prime \in Nat /\ c % Prime = (a * b) % Prime
  BY Residues
<1>2. Ops!Times(a % Prime, b % Prime) = c % Prime
  BY <1>1, TimesValue
<1>3. c \in Int
  BY <1>1
<1> HIDE DEF c
<1>4. (c % Prime) % Prime = c % Prime
  BY <1>3, Residues
<1> QED BY <1>1, <1>2, <1>4 DEF Ops!Weak

\* mul, its carries and its reduction multiply what the two elements are worth.
LEMMA MulComputes ==
  ASSUME Wider, IInv, DoMul
  PROVE  Ops!DoMul
<1>0. x.m <= MaxFactor /\ y.m <= MaxFactor /\ x.m \in 1 .. MaxFactor /\ y.m \in 1 .. MaxFactor
  <2>1. x.m <= MaxFactor /\ y.m <= MaxFactor
    BY DEF DoMul
  <2> QED BY <2>1, ElementsHave, UseAssumption
<1>1. Value(Mul(x.l, y.l)) % Prime = (Value(x.l) * Value(y.l)) % Prime
  BY <1>0, ElementsHave, MulValue
<1>2. Worth(x') = [v |-> (Value(x.l) * Value(y.l)) % Prime, m |-> 1, n |-> FALSE]
  BY <1>1, WorthIs DEF DoMul
<1>3. ~(x.m > 8 \/ y.m > 8)
  BY <1>0, ElementsHave, UseAssumption, ContractAssumption
<1>4. Ops!Mul(Worth(x), Worth(y)) = Ops!Weak(Ops!Times(Value(x.l) % Prime, Value(y.l) % Prime))
  BY <1>3 DEF Ops!Mul, Worth
<1>5. Worth(x)' = Worth(x') /\ Worth(y)' = Worth(y)
  BY DEF DoMul, Worth
<1>6. Worth(x).m <= MaxFactor /\ Worth(y).m <= MaxFactor
  BY <1>0 DEF Worth
<1>7. Worth(x)' = Ops!Mul(Worth(x), Worth(y))
  BY <1>2, <1>4, <1>5, ElementsHave, WeakProduct
<1> QED BY <1>5, <1>6, <1>7 DEF Ops!DoMul

\* So does sqr, which adds half of the products twice.
LEMMA SqrComputes ==
  ASSUME Wider, IInv, DoSqr
  PROVE  Ops!DoSqr
<1>0. x.m <= MaxFactor /\ x.m \in 1 .. MaxFactor
  <2>1. x.m <= MaxFactor
    BY DEF DoSqr
  <2> QED BY <2>1, ElementsHave, UseAssumption
<1>1. Value(Sqr(x.l)) % Prime = (Value(x.l) * Value(x.l)) % Prime
  BY <1>0, ElementsHave, SqrValue
<1>2. Worth(x') = [v |-> (Value(x.l) * Value(x.l)) % Prime, m |-> 1, n |-> FALSE]
  BY <1>1, WorthIs DEF DoSqr
<1>3. ~(x.m > 8)
  BY <1>0, ElementsHave, UseAssumption, ContractAssumption
<1>4. Ops!Sqr(Worth(x)) = Ops!Weak(Ops!Times(Value(x.l) % Prime, Value(x.l) % Prime))
  BY <1>3 DEF Ops!Sqr, Ops!Mul, Worth
<1>5. Worth(x)' = Worth(x') /\ Worth(y)' = Worth(y)
  BY DEF DoSqr, Worth
<1>6. Worth(x).m <= MaxFactor
  BY <1>0 DEF Worth
<1>7. Worth(x)' = Ops!Sqr(Worth(x))
  BY <1>2, <1>4, <1>5, ElementsHave, WeakProduct
<1> QED BY <1>5, <1>6, <1>7 DEF Ops!DoSqr

\* cmov takes the one or the other.
LEMMA CmovComputes ==
  ASSUME DoCmov
  PROVE  Ops!DoCmov
<1>1. PICK flag \in BOOLEAN :
        /\ x' = Elem(Cmov(x.l, y.l, flag), IF y.m > x.m THEN y.m ELSE x.m, x.n /\ y.n)
        /\ UNCHANGED y
  BY DEF DoCmov
<1>2. Worth(x') = [v |-> Value(Cmov(x.l, y.l, flag)) % Prime, m |-> IF y.m > x.m THEN y.m ELSE x.m, n |-> x.n /\ y.n]
  BY <1>1, WorthIs
<1>3. Value(Cmov(x.l, y.l, flag)) % Prime = IF flag THEN Value(y.l) % Prime ELSE Value(x.l) % Prime
  BY DEF Cmov
<1>4. Ops!Cmov(Worth(x), Worth(y), flag)
        = [v |-> IF flag THEN Value(y.l) % Prime ELSE Value(x.l) % Prime,
           m |-> IF y.m > x.m THEN y.m ELSE x.m, n |-> x.n /\ y.n]
  BY DEF Ops!Cmov, Worth
<1>5. Worth(x)' = Worth(x') /\ Worth(y)' = Worth(y)
  BY <1>1 DEF Worth
<1> QED BY <1>2, <1>3, <1>4, <1>5 DEF Ops!DoCmov

\* Every step of the limbs is a step of FieldOps.
LEMMA StepComputes ==
  ASSUME Wider, IInv, [Next]_<<x, y>>
  PROVE  [Ops!Next]_<<Worth(x), Worth(y)>>
<1>1. CASE Next
  <2>1. CASE DoNormalizeWeak
    BY <2>1, NormalizeWeakComputes DEF Ops!Next
  <2>2. CASE DoNormalize
    BY <2>2, NormalizeComputes DEF Ops!Next
  <2>3. CASE DoNegate
    BY <2>3, NegateComputes DEF Ops!Next
  <2>4. CASE DoMulInt
    BY <2>4, MulIntComputes DEF Ops!Next
  <2>5. CASE DoAdd
    BY <2>5, AddComputes DEF Ops!Next
  <2>6. CASE DoMul
    BY <2>6, MulComputes DEF Ops!Next
  <2>7. CASE DoSqr
    BY <2>7, SqrComputes DEF Ops!Next
  <2>8. CASE DoCmov
    BY <2>8, CmovComputes DEF Ops!Next
  <2>9. CASE Copy
    <3>1. Worth(x)' = Worth(y) /\ Worth(y)' = Worth(x)
      BY <2>9 DEF Copy, Worth
    <3> QED BY <3>1 DEF Ops!Next, Ops!Copy
  <2> QED BY <1>1, <2>1, <2>2, <2>3, <2>4, <2>5, <2>6, <2>7, <2>8, <2>9 DEF Next
<1>2. CASE UNCHANGED <<x, y>>
  BY <1>2 DEF Worth
<1> QED BY <1>1, <1>2

\* The elements start as FieldOps says: set_b32 has refused what is not below the prime.
LEMMA InitComputes ==
  ASSUME Init
  PROVE  Ops!Init
<1>1. ASSUME NEW e \in Fresh PROVE \E v \in Values : Worth(e) = Ops!SetInt(v)
  <2>1. PICK v \in Values : e = Elem(LimbsOf(v), 1, TRUE) /\ ~AtLeastP(e.l)
    BY <1>1 DEF Fresh
  <2>2. v \in 0 .. 2^Bits - 1 /\ v \in Nat
    BY UseAssumption, ContractAssumption
  <2>3. e.l = LimbsOf(v) /\ e.m = 1 /\ e.n = TRUE
    BY <2>1 DEF Elem
  <2>4. Reduced(LimbsOf(v)) /\ Value(LimbsOf(v)) = v
    BY <2>2, LimbsOfReduced, ValueOfLimbsOf
  <2>5. ~(v >= Prime) /\ Prime \in Nat \ {0}
    BY <2>1, <2>3, <2>4, AtLeastPValue, PrimeSizes
  <2>6. v % Prime = v
    <3> DEFINE p == Prime
    <3>1. p \in Nat \ {0} /\ v < p
      BY <2>2, <2>5
    <3> HIDE DEF p
    <3>2. v % p = v
      BY <2>2, <3>1, ModBelow
    <3> QED BY <3>2 DEF p
  <2>7. Worth(e) = [v |-> v, m |-> 1, n |-> TRUE]
    BY <2>3, <2>4, <2>6 DEF Worth
  <2> QED BY <2>7 DEF Ops!SetInt
<1>2. /\ \E v \in Values : Worth(x) = Ops!SetInt(v)
      /\ \E v \in Values : Worth(y) = Ops!SetInt(v)
  BY <1>1 DEF Init
<1> QED BY <1>2 DEF Ops!Init

\* For every number and width of limbs that the assumptions allow, the operations of
\* field_10x26_impl.h compute modulo the prime, with the magnitudes that FieldOps states: every
\* behaviour of the limbs is one of the field.
THEOREM Implements ==
  ASSUME Wider
  PROVE  Spec => ImplementsField
<1>1. Init => Ops!Init
  BY InitComputes
<1>2. IInv /\ [Next]_<<x, y>> => [Ops!Next]_<<Worth(x), Worth(y)>>
  BY StepComputes
<1> QED BY <1>1, <1>2, Invariance, PTL DEF Spec, ImplementsField, Ops!Spec
=============================================================================
