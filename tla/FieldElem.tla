------------------------------- MODULE FieldElem -------------------------------
(***************************************************************************)
(* A field element as the curve arithmetic of src/cipher/secp256k1 sees    *)
(* it: its value, the magnitude m that bounds its limbs (FieldLimbs shows  *)
(* the limbs are right within it) and whether it is normalized.  The       *)
(* preconditions are the ones the VERIFY build asserts in                  *)
(* field_10x26_impl.h; the release build does not look at them.  A broken  *)
(* one gives Broken, which every later operation hands on.                 *)
(***************************************************************************)
EXTENDS Integers, Sequences

CONSTANT P    \* the prime

ASSUME PAssumption == P \in Nat /\ P > 7 /\ P % 4 = 3

Broken == [v |-> P, m |-> 99, n |-> FALSE]
Weak(v) == [v |-> v % P, m |-> 1, n |-> FALSE]

SetInt(i) == [v |-> i, m |-> 1, n |-> TRUE]
Clear == [v |-> 0, m |-> 0, n |-> TRUE]

NormalizeWeak(a) == IF a.m > 32 THEN Broken ELSE [a EXCEPT !.m = 1]
Normalize(a) == IF a.m > 32 THEN Broken ELSE SetInt(a.v)
IsOdd(a) == a.n /\ a.v % 2 = 1
IsZero(a) == a.n /\ a.v = 0
NormalizesToZero(a) == a.v = 0

\* m is the bound on the magnitude that the caller states.
Negate(a, m) == IF a.m > m THEN Broken ELSE [v |-> (P - a.v) % P, m |-> m + 1, n |-> FALSE]
MulInt(a, k) == IF a.m * k > 32 THEN Broken ELSE [v |-> (a.v * k) % P, m |-> a.m * k, n |-> FALSE]
Add(a, b) == IF a.m + b.m > 32 THEN Broken ELSE [v |-> (a.v + b.v) % P, m |-> a.m + b.m, n |-> FALSE]
\* The product of two values, in parts of six bits: the model checker's numbers have 32.
Times(v, w) ==
  LET f[k \in Nat] == IF k < 64 THEN (v * k) % P ELSE (f[k \div 64] * 64 + v * (k % 64)) % P
  IN  f[w]
Mul(a, b) == IF a.m > 8 \/ b.m > 8 THEN Broken ELSE Weak(Times(a.v, b.v))
Sqr(a) == Mul(a, a)
Equal(a, b) == NormalizesToZero(Add(Negate(a, 1), b))

\* The compiler of the library cannot tell which one is taken: the bounds are those of both.
Cmov(r, a, flag) == [v |-> IF flag THEN a.v ELSE r.v, m |-> IF a.m > r.m THEN a.m ELSE r.m, n |-> r.n /\ a.n]

Pow(x, k) ==
  LET f[i \in 0 .. k] == IF i = 0 THEN 1 ELSE (f[i - 1] * x) % P
  IN  f[k]

\* The chains of PowerChains: x^(P - 2), and a root candidate x^((P + 1) / 4) with its check.
Inv(a) == IF a.m > 8 THEN Broken ELSE Weak(Pow(a.v, P - 2))
Sqrt(a) == LET r == IF a.m > 8 THEN Broken ELSE Weak(Pow(a.v, (P + 1) \div 4))
           IN  [root |-> r, ok |-> Equal(Sqr(r), a)]
IsQuad(a) == Sqrt(a).ok

\* A storage or byte form exists of a normalized element only.
Stored(a) == IF a.n THEN a ELSE Broken
GetB32(a) == IF a.n THEN a.v ELSE P

\* One inversion for all: products from the left, then the inverse undone from the right.
InvAll(a) ==
  LET n == Len(a)
      r[i \in 1 .. n] == IF i = 1 THEN a[1] ELSE Mul(r[i - 1], a[i])
      u[j \in 1 .. n] == IF j = n THEN Inv(r[n]) ELSE Mul(u[j + 1], a[j + 1])
  IN  [j \in 1 .. n |-> IF j = 1 THEN u[1] ELSE Mul(r[j - 1], u[j])]
=============================================================================
