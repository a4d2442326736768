----------------------------- MODULE FieldRegisters -----------------------------
(***************************************************************************)
(* Two elements of the field as limbs, l, with the fields magnitude and    *)
(* normalized that the VERIFY build gives them, m and n, and the           *)
(* operations that field_10x26_impl.h performs on them, in any order that  *)
(* keeps their preconditions.  It implements FieldOps.                     *)
(***************************************************************************)
EXTENDS FieldLimbs

CONSTANTS MaxMagnitude, MaxFactor, Values, Factors

ASSUME ShapeAssumption ==
  /\ N \in Nat /\ N >= 4 /\ B \in Nat /\ S \in Nat /\ T \in Nat /\ T <= B
  /\ C0 \in Nat \ {0} /\ 2 * C0 <= 2^B /\ 2 * 2^S < 2^B
ASSUME UseAssumption ==
  /\ MaxMagnitude \in Nat /\ MaxFactor \in Nat \ {0} /\ 2 * MaxFactor <= MaxMagnitude
  /\ Values \subseteq Nat /\ Factors \subseteq Nat \ {0}

\* A word has room for the largest magnitude, and the top limb for its carry.
ASSUME WordAssumption ==
  /\ WordBits \in Nat /\ 2 * MaxMagnitude * 2^B <= 2^WordBits /\ 2 * MaxMagnitude < 2^T

\* So have the accumulators of a product, for a column, what is carried into it and what the
\* reduction adds; these are what one of them can be in Reduce (d after the last column, c9, c,
\* d0 and d1), and the third limb of the result has room for d1.
MaxColumn  == N * ((2 * MaxFactor * (2^B - 1)) * (2 * MaxFactor * (2^B - 1)))
MaxCarried == 2^AccBits \div 2^B
MaxD       == ((2 * MaxFactor * (2^T - 1)) * (2 * MaxFactor * (2^T - 1)) + MaxCarried) \div 2^B
MaxC9      == MaxCarried + 2^B * R1 + MaxD * R0 + 2^B
MaxC       == MaxC9 \div 2^T + MaxD * R1 * 2^(B - T)
MaxD0      == MaxC * C0 + 2^B
MaxD1      == MaxD0 \div 2^B + MaxC * 2^S + 2^B
ASSUME ProductAssumption ==
  /\ AccBits \in Nat /\ MaxColumn + MaxCarried + 2^B * R0 + 2^B * R1 < 2^AccBits
  /\ MaxC9 < 2^AccBits /\ MaxC < 2^AccBits /\ MaxD0 < 2^AccBits
  /\ MaxD1 < 2^AccBits /\ MaxD1 < 2^B * 2^B

\* No element is given more than the magnitudes that field.h and the VERIFY build allow, and
\* the elements start as numbers that 32 bytes hold.
ASSUME ContractAssumption ==
  MaxMagnitude <= 32 /\ MaxFactor <= 8 /\ Values \subseteq 0 .. 2^Bits - 1

\* The byte form of the code has 32 bytes of 8 bits, all of them used.
ASSUME FormAssumption ==
  ByteBits \in Nat \ {0} /\ StoreBits \in Nat \ {0} /\ Bits % ByteBits = 0

VARIABLES x, y

Prime == 2^Bits - C0 - 2^(B + S)
LimbsOf(v) == [i \in Limb |-> (v \div 2^(B * i)) % 2^(IF i = N - 1 THEN T ELSE B)]
Elem(l, m, n) == [l |-> l, m |-> m, n |-> n]

\* set_b32 says whether what it has read is below the prime.
Fresh == {e \in {Elem(LimbsOf(v), 1, TRUE) : v \in Values} : ~AtLeastP(e.l)}

Init == x \in Fresh /\ y \in Fresh

DoNormalizeWeak == x' = Elem(NormalizeWeak(x.l), 1, x.n) /\ UNCHANGED y
DoNormalize == x' = Elem(Normalize(x.l), 1, TRUE) /\ UNCHANGED y
DoNegate == x.m < MaxMagnitude /\ x' = Elem(Negate(x.l, x.m), x.m + 1, FALSE) /\ UNCHANGED y
DoMulInt == \E k \in Factors : /\ x.m * k <= MaxMagnitude
                               /\ x' = Elem(MulInt(x.l, k), x.m * k, FALSE) /\ UNCHANGED y
DoAdd == x.m + y.m <= MaxMagnitude /\ x' = Elem(Add(x.l, y.l), x.m + y.m, FALSE) /\ UNCHANGED y
DoMul == x.m <= MaxFactor /\ y.m <= MaxFactor /\ x' = Elem(Mul(x.l, y.l), 1, FALSE) /\ UNCHANGED y
DoSqr == x.m <= MaxFactor /\ x' = Elem(Sqr(x.l), 1, FALSE) /\ UNCHANGED y
DoCmov == \E flag \in BOOLEAN :
            /\ x' = Elem(Cmov(x.l, y.l, flag), IF y.m > x.m THEN y.m ELSE x.m, x.n /\ y.n)
            /\ UNCHANGED y
Copy == x' = y /\ y' = x

Next == DoNormalizeWeak \/ DoNormalize \/ DoNegate \/ DoMulInt \/ DoAdd \/ DoMul \/ DoSqr \/ DoCmov \/ Copy
Spec == Init /\ [][Next]_<<x, y>>

-----------------------------------------------------------------------------
Worth(e) == [v |-> Value(e.l) % Prime, m |-> e.m, n |-> e.n]
Ops == INSTANCE FieldOps WITH P <- Prime, x <- Worth(x), y <- Worth(y)

\* What fe_verify tests: the limbs an element of its magnitude may have.
Verify(e) ==
  /\ e.m \in 0 .. MaxMagnitude
  /\ \A i \in Limb : e.l[i] \in 0 .. (IF e.n THEN 1 ELSE 2 * e.m) * Full(i)
  /\ e.n => e.m <= 1 /\ ~AtLeastP(e.l)

\* Both elements always pass fe_verify, and a normalized one has the limbs of its value.
LimbsWithin == \A e \in {x, y} : Verify(e) /\ (e.n => e.l = LimbsOf(Value(e.l) % Prime))

\* Every sequence of operations computes modulo the prime (the carries, the reduction of products
\* and the delayed normalization of field_10x26_impl.h), with the magnitudes FieldOps states.
ImplementsField == Ops!Spec

\* The limbs stay within the magnitude, so that no operation wraps round a word, and the tests,
\* forms and comparisons of field_10x26_impl.h say the same of the limbs as of the value.
LimbsFaithful ==
  LET v == Value(x.l) % Prime
      w == Value(y.l) % Prime
      r == SetB32(GetB32(x.l))
  IN  /\ LimbsWithin
      /\ NormalizesToZero(x.l) = (v = 0) /\ NormalizesToZeroVar(x.l) = (v = 0)
      /\ NormalizeVar(x.l) = Normalize(x.l)
      /\ x.m = 1 /\ y.m + 2 <= MaxMagnitude => Equal(x.l, y.l) = (v = w) /\ EqualVar(x.l, y.l) = (v = w)
      /\ x.n => /\ IsZero(x.l) = (v = 0) /\ IsOdd(x.l) = (v % 2 = 1)
                /\ r.ok /\ r.r = x.l /\ FromStorage(ToStorage(x.l)) = x.l
      /\ x.n /\ y.n => CmpVar(x.l, y.l) = (IF v > w THEN 1 ELSE IF v < w THEN -1 ELSE 0)
=============================================================================
