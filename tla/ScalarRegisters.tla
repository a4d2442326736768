---------------------------- MODULE ScalarRegisters ----------------------------
(***************************************************************************)
(* Two scalars as limbs and the operations of scalar_8x32_impl.h on them,  *)
(* in any order that keeps what their VERIFY_CHECKs ask of the caller.  It *)
(* implements ScalarOps.                                                   *)
(***************************************************************************)
EXTENDS ScalarLimbs

CONSTANTS Values, Shifts

C == Total([i \in 0 .. J |-> NC(i) * Weight(i)], J + 1)
Order == Weight(L) - C

\* The order is so close to 2^(L*W) that two folds leave at most 2 above L limbs (in the code C is
\* below 1.28 * 2^128), and a column has too few products to pass three limbs.
ASSUME ShapeAssumption ==
  /\ J \in Nat \ {0} /\ L = 2 * J /\ W \in Nat /\ W >= 3 /\ L < Base
  /\ \A i \in 0 .. J : NC(i) \in 0 .. Base - 1
  /\ NC(0) # 0 /\ NC(J) = 1 /\ C * C <= 2 * Weight(L)
ASSUME FormAssumption == ByteBits \in Nat \ {0} /\ W % ByteBits = 0

\* Scalars are loaded from bytes that need not be below the order; a shift drops at least L limbs.
ASSUME UseAssumption ==
  /\ Values # {} /\ Values \subseteq 0 .. Weight(L) - 1
  /\ Shifts \subseteq Nat /\ \A s \in Shifts : s >= L * W

VARIABLES x, y

\* The bytes of x number, as the caller hands them over.
BytesOf(v) == [k \in Bytes |-> (v \div 2^(ByteBits * (L * PerLimb - 1 - k))) % 2^ByteBits]
Loaded == {SetB32(BytesOf(v)).r : v \in Values}

Init == x \in Loaded /\ y \in Loaded

DoLoad == x' \in Loaded /\ UNCHANGED y
DoSetInt == x' \in {SetInt(v) : v \in {u \in Values : u < Base}} /\ UNCHANGED y
DoAdd == x' = Add(x, y).r /\ UNCHANGED y
DoMul == x' = Mul(x, y) /\ UNCHANGED y
DoSqr == x' = Sqr(x) /\ UNCHANGED y
DoNegate == x' = Negate(x) /\ UNCHANGED y
\* What signing does so that s is low.
DoLower == x' = CondNegate(x, IsHigh(x)).r /\ UNCHANGED y
\* The sum must be a scalar.
DoCaddBit == \E bit \in 0 .. L * W - 1 :
               Value(x) + 2^bit < Order /\ x' = CaddBit(x, bit, TRUE) /\ UNCHANGED y
\* The code shifts by less than 16 of the 32 bits; every shift within a limb is taken here.
DoShrInt == \E n \in 1 .. W - 1 : x' = ShrInt(x, n).r /\ UNCHANGED y
DoMulShiftVar == \E s \in Shifts : x' = MulShiftVar(x, y, s) /\ UNCHANGED y
Copy == x' = y /\ y' = x

Next == \/ DoLoad \/ DoSetInt \/ DoAdd \/ DoMul \/ DoSqr \/ DoNegate \/ DoLower
        \/ DoCaddBit \/ DoShrInt \/ DoMulShiftVar \/ Copy
Spec == Init /\ [][Next]_<<x, y>>

-----------------------------------------------------------------------------
IsLimbs(s) == s \in [D -> 0 .. Base - 1]
IsScalar(s) == IsLimbs(s) /\ Value(s) < Order

Ops == INSTANCE ScalarOps WITH N <- Order, Bits <- L * W, Limb <- W, x <- Value(x), y <- Value(y)

\* Every sequence of operations of scalar_8x32_impl.h computes modulo the order: the carries, the
\* single subtraction after a sum, the two foldings and the last subtraction after a product.
ImplementsScalars == Ops!Spec

\* The two are always scalars below the order, and what the functions that only read them say is
\* true of their numbers: the overflow of a sum and of bytes that are no scalar, the bytes, the
\* bits of a window that spans two limbs, the tests, the bits shifted out.
ReadersExact ==
  LET v == Value(x)
      w == Value(y)
      negated == CondNegate(x, TRUE)
  IN  /\ IsScalar(x) /\ IsScalar(y)
      /\ GetB32(x) = BytesOf(v) /\ SetB32(BytesOf(v)) = [r |-> x, overflow |-> 0]
      /\ v + Order < Weight(L) => SetB32(BytesOf(v + Order)) = [r |-> x, overflow |-> 1]
      /\ Add(x, y).overflow = (v + w) \div Order
      /\ (IsZero(x) <=> v = 0) /\ (IsOne(x) <=> v = 1) /\ (IsEven(x) <=> v % 2 = 0) /\ (Eq(x, y) <=> v = w)
      /\ (IsHigh(x) <=> v > Order \div 2)
      /\ Value(negated.r) = (Order - v) % Order /\ negated.sign = -1
      /\ CondNegate(x, FALSE) = [r |-> x, sign |-> 1]
      /\ \A bit \in 0 .. L * W - 1 : CaddBit(x, bit, FALSE) = x
      /\ \A n \in 1 .. W - 1 : ShrInt(x, n).low = v % 2^n
      /\ \A count \in 1 .. W - 1 : \A offset \in 0 .. L * W - count :
           GetBitsVar(x, offset, count) = (v \div 2^offset) % 2^count

\* On the way of a product nothing is lost, since no column passes its accumulator, and the checks
\* of the VERIFY build hold: the first folding leaves 1 and the second 2 at most, and what is
\* subtracted after a sum or a product is the order, once.
ProductsWithinChecks ==
  LET l == Mul512(x, y)
      p == FoldedTwice(l)
      left == Value(p.limb) + Weight(L) * p.top
  IN  /\ Total([k \in 0 .. 2 * L - 1 |-> l[k] * Weight(k)], 2 * L) = Value(x) * Value(y)
      /\ Sqr512(x) = Mul512(x, x)
      /\ FoldedOnce(l).top <= 1 /\ p.top <= 2 /\ (left - Value(x) * Value(y)) % Order = 0
      /\ left - Order * p.top < 2 * Order
      /\ Add(x, y).overflow <= 1

\* Whatever operations led to two scalars, reading them and multiplying them is exact (the
\* functions of scalar_8x32_impl.h that change no scalar, and what mul_512 and reduce_512 rest on).
ScalarsExact == ReadersExact /\ ProductsWithinChecks
=============================================================================
