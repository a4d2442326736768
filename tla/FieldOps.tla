-------------------------------- MODULE FieldOps --------------------------------
(***************************************************************************)
(* What the field promises its callers (field.h and the VERIFY build of    *)
(* field_10x26_impl.h in src/cipher/secp256k1): any sequence of operations *)
(* on two elements, each within its precondition on magnitudes, computes   *)
(* modulo the prime and keeps the magnitude it states.                     *)
(***************************************************************************)
EXTENDS FieldElem

CONSTANTS MaxMagnitude,   \* no element is given more (32 in the code)
          MaxFactor,      \* no factor of a product has more (8 in the code)
          Values,         \* what the two elements start with
          Factors         \* the small integers they are multiplied by

VARIABLES x, y

Init == x \in {SetInt(v) : v \in Values} /\ y \in {SetInt(v) : v \in Values}

DoNormalizeWeak == x' = NormalizeWeak(x) /\ UNCHANGED y
DoNormalize == x' = Normalize(x) /\ UNCHANGED y
DoNegate == x.m < MaxMagnitude /\ x' = Negate(x, x.m) /\ UNCHANGED y
DoMulInt == \E k \in Factors : x.m * k <= MaxMagnitude /\ x' = MulInt(x, k) /\ UNCHANGED y
DoAdd == x.m + y.m <= MaxMagnitude /\ x' = Add(x, y) /\ UNCHANGED y
DoMul == x.m <= MaxFactor /\ y.m <= MaxFactor /\ x' = Mul(x, y) /\ UNCHANGED y
DoSqr == x.m <= MaxFactor /\ x' = Sqr(x) /\ UNCHANGED y
DoCmov == \E flag \in BOOLEAN : x' = Cmov(x, y, flag) /\ UNCHANGED y
Copy == x' = y /\ y' = x

Next == DoNormalizeWeak \/ DoNormalize \/ DoNegate \/ DoMulInt \/ DoAdd \/ DoMul \/ DoSqr \/ DoCmov \/ Copy
Spec == Init /\ [][Next]_<<x, y>>
=============================================================================
