------------------------------- MODULE ScalarOps -------------------------------
(***************************************************************************)
(* What src/cipher/secp256k1/scalar.h promises of two scalars: they are    *)
(* numbers modulo the order N of the group, and each operation does to     *)
(* them what its comment says.  Bytes hold numbers below 2^Bits, an        *)
(* unsigned int those below 2^Limb.                                        *)
(***************************************************************************)
EXTENDS Integers

CONSTANTS N, Bits, Limb, Values, Shifts

VARIABLES x, y

Loaded == {v % N : v \in Values}
Init == x \in Loaded /\ y \in Loaded

DoLoad == x' \in Loaded /\ UNCHANGED y
DoSetInt == x' \in {v \in Values : v < 2^Limb} /\ UNCHANGED y
DoAdd == x' = (x + y) % N /\ UNCHANGED y
DoMul == x' = (x * y) % N /\ UNCHANGED y
DoSqr == x' = (x * x) % N /\ UNCHANGED y
DoNegate == x' = (N - x) % N /\ UNCHANGED y
\* The one of x and its negation that is not above half the order.
DoLower == x' = (IF x > N \div 2 THEN N - x ELSE x) /\ UNCHANGED y
DoCaddBit == \E bit \in 0 .. Bits - 1 : x + 2^bit < N /\ x' = x + 2^bit /\ UNCHANGED y
DoShrInt == \E n \in 1 .. Limb - 1 : x' = x \div 2^n /\ UNCHANGED y
DoMulShiftVar == \E s \in Shifts : x' = (x * y + 2^(s - 1)) \div 2^s /\ UNCHANGED y
Copy == x' = y /\ y' = x

Next == \/ DoLoad \/ DoSetInt \/ DoAdd \/ DoMul \/ DoSqr \/ DoNegate \/ DoLower
        \/ DoCaddBit \/ DoShrInt \/ DoMulShiftVar \/ Copy
Spec == Init /\ [][Next]_<<x, y>>
=============================================================================
