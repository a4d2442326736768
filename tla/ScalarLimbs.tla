------------------------------ MODULE ScalarLimbs ------------------------------
(***************************************************************************)
(* Arithmetic modulo the group order as                                    *)
(* src/cipher/secp256k1/scalar_8x32_impl.h does it: L limbs of W bits and  *)
(* accumulators of three limbs.  The order is 2^(L*W) minus a number of    *)
(* J + 1 limbs, NC(0) to NC(J), of which the top one is 1.  In the code    *)
(* L = 8, W = 32, J = 4, bytes have 8 bits; in both L = 2*J.               *)
(***************************************************************************)
EXTENDS Integers

CONSTANTS L, W, J, ByteBits,
          NC(_)          \* the limbs SECP256K1_N_C_0 to SECP256K1_N_C_4

\* f[0] + ... + f[n - 1].
Total(f, n) == LET s[k \in 0 .. n] == IF k = 0 THEN 0 ELSE s[k - 1] + f[k - 1] IN s[n]

D == 0 .. L - 1
Base == 2^W
Weight(i) == 2^(W * i)
Value(a) == Total([i \in D |-> a[i] * Weight(i)], L)

\* The limbs of the order, and of half the order.
NLimb == [i \in D |-> IF i = 0 THEN Base - NC(0) ELSE IF i <= J THEN Base - 1 - NC(i) ELSE Base - 1]
HalfLimb ==
  [i \in D |-> ((NLimb[i] + (IF i = L - 1 THEN 0 ELSE Base * NLimb[i + 1])) \div 2) % Base]

\* Is a above b, the highest limb that differs deciding?
Above(a, b) == \E i \in D : a[i] > b[i] /\ \A j \in i + 1 .. L - 1 : a[j] = b[j]

\* Limbs of the sum of the terms, carried upwards, and the last carry.
Ripple(term) ==
  LET c[i \in 0 .. L] == IF i = 0 THEN 0 ELSE (term[i - 1] + c[i - 1]) \div Base
  IN  [d |-> [i \in D |-> (term[i] + c[i]) % Base], carry |-> c[L]]

-----------------------------------------------------------------------------
SetInt(v) == [i \in D |-> IF i = 0 THEN v ELSE 0]
Clear == SetInt(0)
IsZero(a) == a = Clear
IsOne(a) == a = SetInt(1)
Eq(a, b) == \A i \in D : a[i] = b[i]
IsEven(a) == a[0] % 2 = 0

\* get_bits wants the bits in one limb, get_bits_var lets them span two.
GetBits(a, offset, count) == (a[offset \div W] \div 2^(offset % W)) % 2^count
GetBitsVar(a, offset, count) ==
  IF (offset + count - 1) \div W = offset \div W
  THEN GetBits(a, offset, count)
  ELSE (a[offset \div W] \div 2^(offset % W)
         + a[offset \div W + 1] * 2^(W - (offset % W))) % 2^count

\* A fault: the order itself passes for a scalar.
CheckOverflowStrict(a) == IF Above(a, NLimb) THEN 1 ELSE 0
CheckOverflow(a) ==
  IF Above(a, NLimb) \/ a = NLimb THEN 1 ELSE 0

Reduce(a, overflow) ==
  Ripple([i \in D |-> a[i] + (IF i <= J THEN overflow * NC(i) ELSE 0)]).d

Add(a, b) ==
  LET s == Ripple([i \in D |-> a[i] + b[i]])
      overflow == s.carry + CheckOverflow(s.d)
  IN  [r |-> Reduce(s.d, overflow), overflow |-> overflow]

CaddBit(a, bit, flag) ==
  Ripple([i \in D |-> a[i] + (IF flag /\ bit \div W = i THEN 2^(bit % W) ELSE 0)]).d

\* A fault: the negation of 0 is the order, which is no scalar.
NegateZero(a) == Ripple([i \in D |-> Base - 1 - a[i] + NLimb[i] + (IF i = 0 THEN 1 ELSE 0)]).d
Negate(a) ==
  IF IsZero(a) THEN Clear
  ELSE Ripple([i \in D |-> Base - 1 - a[i] + NLimb[i] + (IF i = 0 THEN 1 ELSE 0)]).d

IsHigh(a) == Above(a, HalfLimb)
CondNegate(a, flag) == [r |-> IF flag THEN Negate(a) ELSE a, sign |-> IF flag THEN -1 ELSE 1]

ShrInt(a, n) ==
  [r |-> [i \in D |-> a[i] \div 2^n
                      + (IF i = L - 1 THEN 0 ELSE (a[i + 1] * 2^(W - n)) % Base)],
   low |-> a[0] % 2^n]

-----------------------------------------------------------------------------
\* The bytes are kept most significant first.
PerLimb == W \div ByteBits
Bytes == 0 .. L * PerLimb - 1
SetB32(b) ==
  LET Limb(i) == Total([j \in 0 .. PerLimb - 1 |->
                          b[L * PerLimb - 1 - (i * PerLimb + j)] * 2^(ByteBits * j)], PerLimb)
      a == [i \in D |-> Limb(i)]
  IN  [r |-> Reduce(a, CheckOverflow(a)), overflow |-> CheckOverflow(a)]
GetB32(a) ==
  [k \in Bytes |->
     LET b == L * PerLimb - 1 - k
     IN  (a[b \div PerLimb] \div 2^(ByteBits * (b % PerLimb))) % 2^ByteBits]

-----------------------------------------------------------------------------
\* A fault: no column leaves anything in c2.
ExtractedFast(column, n, fast) ==
  LET rest[k \in 0 .. n] ==
        IF k = 0 THEN 0 ELSE ((rest[k - 1] + column[k - 1]) % Weight(2)) \div Base
  IN  [limb |-> [k \in 0 .. n - 1 |-> (rest[k] + column[k]) % Base], rest |-> rest[n]]

\* The accumulator (c0, c1, c2), a limb of which is extracted after each column: the fast forms
\* leave c2 alone and lose what passes c1.
Extracted(column, n, fast) ==
  LET Room(k) == IF k \in fast THEN Weight(2) ELSE Weight(3)
      rest[k \in 0 .. n] ==
        IF k = 0 THEN 0 ELSE ((rest[k - 1] + column[k - 1]) % Room(k - 1)) \div Base
  IN  [limb |-> [k \in 0 .. n - 1 |-> (rest[k] + column[k]) % Base], rest |-> rest[n]]

MulColumn(a, b, k) == Total([i \in D |-> IF k - i \in D THEN a[i] * b[k - i] ELSE 0], L)
SqrColumn(a, k) ==
  Total([i \in D |-> IF k - i \notin D \/ 2 * i > k THEN 0
                     ELSE IF 2 * i = k THEN a[i] * a[i] ELSE 2 * (a[i] * a[k - i])], L)

Wide(column) ==
  LET e == Extracted(column, 2 * L - 1, {0, 2 * L - 2})
  IN  [k \in 0 .. 2 * L - 1 |-> IF k = 2 * L - 1 THEN e.rest % Base ELSE e.limb[k]]
Mul512(a, b) == Wide([k \in 0 .. 2 * L - 2 |-> MulColumn(a, b, k)])
Sqr512(a) == Wide([k \in 0 .. 2 * L - 2 |-> SqrColumn(a, k)])

\* lo + hi * NC, where hi has h limbs: the first n limbs and what is left above them.
FoldedColumn(lo, hi, h, k) ==
  (IF k < L THEN lo[k] ELSE 0)
    + Total([i \in 0 .. h - 1 |-> IF k - i \in 0 .. J THEN hi[i] * NC(k - i) ELSE 0], h)
Folded(lo, hi, h, n) ==
  LET column == [k \in 0 .. n |-> FoldedColumn(lo, hi, h, k)]
      e == Extracted(column, n, {0, n - 1})
  IN  [limb |-> e.limb, top |-> e.rest + column[n]]

\* 2L limbs to L + J + 1, to L + 1, to L, to a scalar below the order.
FoldedOnce(l) == Folded(l, [i \in D |-> l[L + i]], L, L + J)
FoldedTwice(l) ==
  LET m == FoldedOnce(l)
  IN  Folded(m.limb, [i \in 0 .. J |-> IF i = J THEN m.top ELSE m.limb[L + i]], J + 1, L)
Reduce512(l) ==
  LET p == FoldedTwice(l)
      s == Ripple([i \in D |-> p.limb[i] + (IF i <= J THEN NC(i) * p.top ELSE 0)])
  IN  Reduce(s.d, s.carry + CheckOverflow(s.d))

Mul(a, b) == Reduce512(Mul512(a, b))
Sqr(a) == Reduce512(Sqr512(a))

\* The product shifted right, rounded to the nearest.
MulShiftVar(a, b, shift) ==
  LET l == Mul512(a, b)
      At(k) == IF k < 2 * L THEN l[k] ELSE 0
      limbs == shift \div W
      low == shift % W
      r == [i \in D |-> At(i + limbs) \div 2^low + ((At(i + limbs + 1) * 2^(W - low)) % Base)]
  IN  CaddBit(r, 0, (At((shift - 1) \div W) \div 2^((shift - 1) % W)) % 2 = 1)
=============================================================================
