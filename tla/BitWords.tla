------------------------------- MODULE BitWords -------------------------------
(***************************************************************************)
(* Unsigned words as sequences of bits, the lowest first.  The hashes, the *)
(* cipher and the exponents of the curve need words that TLC's integers    *)
(* cannot hold, at their real width.                                       *)
(***************************************************************************)
EXTENDS Naturals, Sequences, SequencesExt

Zeros(n) == [i \in 1 .. n |-> 0]

\* The w lowest bits of a number, and the number that bits stand for.
Bits(x, w) == [i \in 1 .. w |-> (x \div 2^(i - 1)) % 2] \o <<>>
Number(b) ==
  LET n[i \in 0 .. Len(b), v \in Nat] == IF i = 0 THEN v ELSE n[i - 1, 2 * v + b[i]]
  IN  n[Len(b), 0]

\* The sum of two numbers given by their digits, without a carry out of the last one.
Sum(a, b, base) ==
  LET s[i \in 1 .. Len(a), carry \in {0, 1}] ==
        LET t == a[i] + b[i] + carry
        IN  <<t % base>> \o IF i = Len(a) THEN <<>> ELSE s[i + 1, t \div base]
  IN  s[1, 0]

\* The sum of two words, sixteen bits at a time.
Plus(a, b) ==
  LET part(x, i) == Number(SubSeq(x, i + 1, i + 16))
      s[i \in Nat, carry \in {0, 1}] ==
        LET t == part(a, i) + part(b, i) + carry
        IN  Bits(t, 16) \o IF i + 16 >= Len(a) THEN <<>> ELSE s[i + 16, t \div 65536]
  IN  s[0, 0]

Not(a) == [i \in 1 .. Len(a) |-> 1 - a[i]]
And(a, b) == [i \in 1 .. Len(a) |-> a[i] * b[i]]
Or(a, b) == [i \in 1 .. Len(a) |-> IF a[i] + b[i] = 0 THEN 0 ELSE 1]
Xor(a, b) == [i \in 1 .. Len(a) |-> (a[i] + b[i]) % 2]

Rotr(a, n) == SubSeq(a, n + 1, Len(a)) \o SubSeq(a, 1, n)
Rotl(a, n) == Rotr(a, Len(a) - n)
Shr(a, n) == SubSeq(a, n + 1, Len(a)) \o Zeros(n)
Shl(a, n) == Zeros(n) \o SubSeq(a, 1, Len(a) - n)
=============================================================================
