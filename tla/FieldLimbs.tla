------------------------------ MODULE FieldLimbs ------------------------------
(***************************************************************************)
(* The field of the curve as src/cipher/secp256k1/field_10x26_impl.h keeps *)
(* it: an element is N limbs of B bits (the top one of T), held in words   *)
(* that have room to spare, so that additions need no carry; its magnitude *)
(* m says that limb i is at most 2*m times the largest reduced limb.  The  *)
(* prime is 2^(B*(N-1)+T) - C0 - 2^(B+S).  In the code N = 10, B = 26,     *)
(* T = 22, C0 = 16r3D1, S = 6, words have 32 bits, accumulators 64, bytes  *)
(* 8 and the words of the storage form 32.                                 *)
(***************************************************************************)
EXTENDS Integers, Sequences

CONSTANTS N, B, T, C0, S, WordBits, AccBits, ByteBits, StoreBits

Limb == 0 .. N - 1
Bits == B * (N - 1) + T
Full(i) == IF i = N - 1 THEN 2^T - 1 ELSE 2^B - 1
C(i) == IF i = 0 THEN C0 ELSE IF i = 1 THEN 2^S ELSE 0
PLimb(i) == IF i = 0 THEN 2^B - C0 ELSE IF i = 1 THEN 2^B - 1 - 2^S ELSE Full(i)

Word(x) == x % 2^WordBits
Acc(x) == x % 2^AccBits

\* f[0] + ... + f[n - 1], and what a is worth.
Total(f, n) == LET s[k \in 0 .. n] == IF k = 0 THEN 0 ELSE s[k - 1] + f[k - 1] IN s[n]
Value(a) == Total([i \in Limb |-> a[i] * 2^(B * i)], N)

-----------------------------------------------------------------------------
\* One pass of carries; the top limb keeps what exceeds it.
Carry(t) ==
  LET c[i \in Limb] == IF i = 0 THEN 0 ELSE Word(t[i-1] + c[i-1]) \div 2^B
  IN  [i \in Limb |-> IF i = N - 1 THEN Word(t[i] + c[i]) ELSE Word(t[i] + c[i]) % 2^B]

\* x times 2^Bits is x times C: add it at the bottom.
AddC(t, x) == Carry([i \in Limb |-> Word(t[i] + x * C(i))])
DropTop(t) == [t EXCEPT ![N-1] = @ % 2^T]

\* A fault: what exceeds the top limb is forgotten.
NormalizeWeakForgets(a) == Carry(DropTop(a))
NormalizeWeak(a) == AddC(DropTop(a), a[N-1] \div 2^T)

AtLeastP(t) ==
  /\ \A i \in 2 .. N - 1 : t[i] = Full(i)
  /\ t[1] + 2^S + (t[0] + C0) \div 2^B > Full(1)

Normalize(a) ==
  LET t == NormalizeWeak(a)
      x == IF t[N-1] \div 2^T = 1 \/ AtLeastP(t) THEN 1 ELSE 0
  IN  DropTop(AddC(t, x))

NormalizeVar(a) ==
  LET t == NormalizeWeak(a)
  IN  IF t[N-1] \div 2^T = 1 \/ AtLeastP(t) THEN DropTop(AddC(t, 1)) ELSE t

IsZero(a) == \A i \in Limb : a[i] = 0
IsP(t) == \A i \in Limb : t[i] = PLimb(i)
\* A fault: a multiple of the prime is not taken for zero.
NormalizesToZeroOnly(a) == IsZero(NormalizeWeak(a))
NormalizesToZero(a) == LET t == NormalizeWeak(a) IN IsZero(t) \/ IsP(t)

\* Most elements are told from zero by their lowest limb alone.
NormalizesToZeroVar(a) ==
  LET t0 == Word(a[0] + (a[N-1] \div 2^T) * C0) % 2^B
  IN  t0 \in {0, PLimb(0)} /\ NormalizesToZero(a)

SetInt(k) == [i \in Limb |-> IF i = 0 THEN k ELSE 0]
Clear == SetInt(0)
IsOdd(a) == a[0] % 2 = 1
CmpVar(a, b) ==
  IF a = b THEN 0
  ELSE LET i == CHOOSE i \in Limb : a[i] # b[i] /\ \A j \in i + 1 .. N - 1 : a[j] = b[j]
       IN  IF a[i] > b[i] THEN 1 ELSE -1

\* The contract of negate is that a has at most magnitude m; the result has m + 1.
Negate(a, m) == [i \in Limb |-> Word(PLimb(i) * 2 * (m + 1) - a[i])]
MulInt(a, k) == [i \in Limb |-> Word(a[i] * k)]
Add(a, b) == [i \in Limb |-> Word(a[i] + b[i])]
Cmov(r, a, flag) == IF flag THEN a ELSE r
Equal(a, b) == NormalizesToZero(Add(Negate(a, 1), b))
EqualVar(a, b) == NormalizesToZeroVar(Add(Negate(a, 1), b))

-----------------------------------------------------------------------------
\* The columns of the product: mul_inner adds all products, sqr_inner doubles half of them.
MulColumn(a, b, k) == Total([i \in Limb |-> IF k - i \in Limb THEN a[i] * b[k - i] ELSE 0], N)
SqrColumn(a, k) ==
  Total([i \in Limb |-> CASE 2 * i = k                   -> a[i] * a[i]
                          [] 2 * i < k /\ k - i \in Limb -> Word(a[i] * 2) * a[k - i]
                          [] OTHER                        -> 0], N)

R0 == C0 * 2^(B - T)
R1 == 2^S * 2^(B - T)

\* d runs over the upper columns, c over the lower ones; each limb u that d gives up is
\* worth u*R0 in the column of c and u*R1 in the one above it.
Reduce(column) ==
  LET top == column[N - 1]
      f[k \in 0 .. N - 1] ==
        IF k = 0
        THEN [c |-> 0, d |-> Acc(top) \div 2^B, t |-> <<>>]
        ELSE LET g == f[k - 1]
                 d == Acc(g.d + column[N + k - 1])
                 u == d % 2^B
                 c == Acc(g.c + column[k - 1] + u * R0)
             IN  [c |-> Acc(c \div 2^B + u * R1), d |-> d \div 2^B, t |-> Append(g.t, c % 2^B)]
      e  == f[N - 1]
      c9 == Acc(e.c + e.d * R0 + (Acc(top) % 2^B))
      c  == Acc(c9 \div 2^T + e.d * R1 * 2^(B - T))
      d0 == Acc(c * C0 + e.t[1])
      d1 == Acc(d0 \div 2^B + c * 2^S + e.t[2])
  IN  [i \in Limb |-> CASE i = 0     -> d0 % 2^B
                        [] i = 1     -> d1 % 2^B
                        [] i = 2     -> Word(d1 \div 2^B + e.t[3])
                        [] i = N - 1 -> c9 % 2^T
                        [] OTHER     -> e.t[i + 1]]

Mul(a, b) == Reduce([k \in 0 .. 2 * N - 2 |-> MulColumn(a, b, k)])
Sqr(a) == Reduce([k \in 0 .. 2 * N - 2 |-> SqrColumn(a, k)])

-----------------------------------------------------------------------------
\* Bit k of a number kept in digits of w bits, lowest digit first, and digit i of width w of
\* a number given by its bits.
BitOf(f, w, k) == (f[k \div w] \div 2^(k % w)) % 2
Digit(Bit(_), w, i) ==
  Total([j \in 0 .. w - 1 |-> IF w * i + j < Bits THEN Bit(w * i + j) * 2^j ELSE 0], w)
Regroup(f, wf, w) == LET Bit(k) == BitOf(f, wf, k)
                     IN  [i \in 0 .. (Bits + w - 1) \div w - 1 |-> Digit(Bit, w, i)]

\* Bytes are kept most significant first.
Bytes == Bits \div ByteBits
BigEndian(r) == [i \in 0 .. Bytes - 1 |-> r[Bytes - 1 - i]]

\* set_b32 takes 32 bytes and says whether they are a number below the prime.
SetB32(bytes) == LET r == Regroup(BigEndian(bytes), ByteBits, B)
                 IN  [r |-> r, ok |-> ~AtLeastP(r)]
GetB32(a) == BigEndian(Regroup(a, B, ByteBits))
ToStorage(a) == Regroup(a, B, StoreBits)
FromStorage(w) == Regroup(w, StoreBits, B)
StorageCmov(r, a, flag) == IF flag THEN a ELSE r
=============================================================================
