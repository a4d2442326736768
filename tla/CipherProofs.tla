------------------------------ MODULE CipherProofs ------------------------------
(***************************************************************************)
(* Proofs about the hashes and the chaining of a cipher, for every         *)
(* transformation of a block and every length.  A digest depends on the    *)
(* bytes of a message and not on the pieces they came in, padding ends on  *)
(* a block, and a BLAKE2b state serves once.  What CBCEncrypt seals opens  *)
(* to the text, and what opens was sealed (aes.cpp).                       *)
(* Both hashes fold a message block by block: Chain is the states on the   *)
(* way, and the induction is over them.  IsSealed says what the loop of    *)
(* CBCEncrypt has written; UnchainOpens that the loop of CBCDecrypt undoes *)
(* it.                                                                     *)
(***************************************************************************)
EXTENDS Sha256, AesCbc, WellFoundedInduction, SequenceTheorems, TLAPS

CONSTANTS Start(_), Compress(_, _, _, _), BlakeOutput(_)
Blake == INSTANCE Blake2b WITH Output <- BlakeOutput

\* A set of numbers that is not empty has a least one ...
LEMMA LeastNatural ==
  ASSUME NEW T \in SUBSET Nat, T # {}
  PROVE  \E m \in T : \A k \in T : m <= k
<1> DEFINE R == OpToRel(<, Nat)
<1>1. IsWellFoundedOn(R, Nat)
  BY NatLessThanWellFounded
<1>2. R = {ss \in Nat \X Nat : ss[1] < ss[2]}
  BY Zenon DEF OpToRel
<1> HIDE DEF R
<1>3. PICK m \in T : \A k \in T : <<k, m>> \notin R
  BY <1>1, WFMin
<1>4. ASSUME NEW k \in T PROVE m <= k
  <2>1. ~(<<k, m>> \in Nat \X Nat /\ <<k, m>>[1] < <<k, m>>[2])
    BY <1>2, <1>3
  <2> QED BY <2>1
<1> QED
  BY <1>4

\* ... so a set that has 0, and with each number the next, has them all: induction, with the
\* hypothesis as a set.
LEMMA Induction ==
  ASSUME NEW H \in SUBSET Nat, 0 \in H, \A n \in H : n + 1 \in H
  PROVE  H = Nat
<1> SUFFICES ASSUME H # Nat PROVE FALSE
  OBVIOUS
<1>1. PICK m \in Nat \ H : \A k \in Nat \ H : m <= k
  <2> Nat \ H # {}
    OBVIOUS
  <2> QED BY LeastNatural
<1>2. m # 0 /\ m - 1 \in H
  BY <1>1
<1> QED
  BY <1>1, <1>2

\* The equation of Chain, for n blocks.
IsChain(s, s0, all, n) ==
  s = [k \in 0 .. n |-> IF k = 0 THEN s0
                        ELSE Transform(s[k - 1], SubSeq(all, 64 * k - 63, 64 * k))]

\* It has a solution for every number of blocks ...
LEMMA ChainExists ==
  ASSUME NEW s0, NEW all, NEW n \in Nat
  PROVE  \E s : IsChain(s, s0, all, n)
<1> DEFINE G(s, k) == IF k = 0 THEN s0 ELSE Transform(s[k - 1], SubSeq(all, 64 * k - 63, 64 * k))
           H == {i \in Nat : \E s : s = [k \in 0 .. i |-> G(s, k)]}
<1>1. 0 \in H
  <2> DEFINE s == [k \in 0 .. 0 |-> s0]
  <2> s = [k \in 0 .. 0 |-> G(s, k)]
    OBVIOUS
  <2> QED OBVIOUS
<1>2. ASSUME NEW i \in H PROVE i + 1 \in H
  <2>1. PICK s : s = [k \in 0 .. i |-> G(s, k)]
    OBVIOUS
  <2> DEFINE t == [k \in 0 .. i + 1 |-> IF k <= i THEN s[k] ELSE G(s, k)]
  <2>2. \A k \in 0 .. i + 1 : t[k] = G(t, k)
    <3> SUFFICES ASSUME NEW k \in 0 .. i + 1 PROVE t[k] = G(t, k)
      OBVIOUS
    <3>1. t[k] = G(s, k)
      BY <2>1
    <3>2. CASE k = 0
      BY <3>1, <3>2
    <3>3. CASE k # 0
      <4>1. k - 1 \in 0 .. i + 1 /\ k - 1 <= i
        BY <3>3
      <4>2. t[k - 1] = s[k - 1]
        BY <4>1
      <4> QED BY <3>1, <3>3, <4>2
    <3> QED BY <3>2, <3>3
  <2>3. t = [k \in 0 .. i + 1 |-> t[k]]
    OBVIOUS
  <2> HIDE DEF G, t
  <2>4. t = [k \in 0 .. i + 1 |-> G(t, k)]
    BY <2>2, <2>3
  <2>5. i + 1 \in Nat
    OBVIOUS
  <2> QED BY <2>4, <2>5
<1> HIDE DEF H
<1>3. H = Nat
  BY <1>1, <1>2, Induction DEF H
<1> QED
  BY <1>3 DEF H, IsChain

\* ... and Chain is that solution.
LEMMA ChainRecursion ==
  ASSUME NEW B, NEW s0, NEW all \in Seq(B)
  PROVE  IsChain(Chain(s0, all), s0, all, Len(all) \div 64)
<1>1. Len(all) \div 64 \in Nat
  OBVIOUS
<1>2. \E s : IsChain(s, s0, all, Len(all) \div 64)
  BY <1>1, ChainExists
<1>3. Chain(s0, all) = CHOOSE s : IsChain(s, s0, all, Len(all) \div 64)
  BY Zenon DEF Chain, IsChain
<1> QED
  BY <1>2, <1>3, Zenon

\* Chain's states, one block at a time.
LEMMA ChainSteps ==
  ASSUME NEW B, NEW s0, NEW all \in Seq(B)
  PROVE  /\ Chain(s0, all)[0] = s0
         /\ \A k \in 1 .. Len(all) \div 64 :
              Chain(s0, all)[k] = Transform(Chain(s0, all)[k - 1], SubSeq(all, 64 * k - 63, 64 * k))
<1> DEFINE c == Chain(s0, all)
<1>1. c = [k \in 0 .. Len(all) \div 64 |->
             IF k = 0 THEN s0 ELSE Transform(c[k - 1], SubSeq(all, 64 * k - 63, 64 * k))]
  BY ChainRecursion DEF IsChain
<1>0. Len(all) \div 64 \in Nat
  OBVIOUS
<1> HIDE DEF c
<1>2. c[0] = s0 /\ \A k \in 1 .. Len(all) \div 64 :
                     c[k] = Transform(c[k - 1], SubSeq(all, 64 * k - 63, 64 * k))
  BY <1>0, <1>1
<1> QED
  BY <1>2 DEF c

\* more is what is left, after a cut in a, of a and b together.
LeftOfBoth(more, a, b, cut) ==
  /\ Len(more) = Len(a) - cut + Len(b)
  /\ Len(a \o b) = Len(a) + Len(b)
  /\ \A m, n \in Nat :
       m + n <= Len(more) => SubSeq(more, m + 1, m + n) = SubSeq(a \o b, cut + m + 1, cut + m + n)

\* What is left of a after a cut, with b behind it, is the end of a and b.
LEMMA RestOfBoth ==
  ASSUME NEW B, NEW a \in Seq(B), NEW b \in Seq(B), NEW cut \in 0 .. Len(a)
  PROVE  /\ SubSeq(a, cut + 1, Len(a)) \o b \in Seq(B)
         /\ a \o b \in Seq(B)
         /\ LeftOfBoth(SubSeq(a, cut + 1, Len(a)) \o b, a, b, cut)
<1> DEFINE rest == SubSeq(a, cut + 1, Len(a))
           more == rest \o b
           all  == a \o b
<1>1. /\ rest \in Seq(B) /\ Len(rest) = Len(a) - cut
      /\ \A i \in 1 .. Len(a) - cut : rest[i] = a[cut + i]
  <2>1. \A i \in cut + 1 .. Len(a) : a[i] \in B
    OBVIOUS
  <2>2. /\ rest \in Seq(B)
        /\ Len(rest) = IF cut + 1 <= Len(a) THEN Len(a) - (cut + 1) + 1 ELSE 0
        /\ \A i \in 1 .. Len(a) - (cut + 1) + 1 : rest[i] = a[cut + 1 + i - 1]
    BY <2>1, SubSeqProperties
  <2> HIDE DEF rest
  <2> QED BY <2>2
<1> HIDE DEF rest
<1>2. /\ more \in Seq(B) /\ Len(more) = Len(rest) + Len(b)
      /\ \A i \in 1 .. Len(rest) + Len(b) :
           more[i] = IF i <= Len(rest) THEN rest[i] ELSE b[i - Len(rest)]
  BY <1>1, ConcatProperties
<1>3. /\ all \in Seq(B) /\ Len(all) = Len(a) + Len(b)
      /\ \A i \in 1 .. Len(a) + Len(b) : all[i] = IF i <= Len(a) THEN a[i] ELSE b[i - Len(a)]
  BY ConcatProperties
<1> HIDE DEF more, all
<1>4. ASSUME NEW i \in 1 .. Len(more) PROVE more[i] = all[cut + i]
  <2>1. Len(more) = Len(a) - cut + Len(b)
    BY <1>1, <1>2
  <2>2. CASE i <= Len(rest)
    BY <1>1, <1>2, <1>3, <2>1, <2>2
  <2>3. CASE i > Len(rest)
    <3>1. more[i] = b[i - Len(rest)]
      BY <1>1, <1>2, <2>3
    <3>2. all[cut + i] = b[cut + i - Len(a)]
      BY <1>1, <1>3, <2>1, <2>3
    <3>3. i - Len(rest) = cut + i - Len(a)
      BY <1>1, <1>2
    <3> QED BY <3>1, <3>2, <3>3
  <2>4. Len(rest) \in Nat
    BY <1>1
  <2> QED BY <2>2, <2>3, <2>4
<1>5. ASSUME NEW m \in Nat, NEW n \in Nat, m + n <= Len(more)
      PROVE  SubSeq(more, m + 1, m + n) = SubSeq(all, cut + m + 1, cut + m + n)
  <2>1. \A i \in m + 1 .. m + n : more[i] \in B
    BY <1>2, <1>5
  <2>2. \A i \in cut + m + 1 .. cut + m + n : all[i] \in B
    BY <1>1, <1>2, <1>3, <1>5
  <2> DEFINE x == SubSeq(more, m + 1, m + n)
             y == SubSeq(all, cut + m + 1, cut + m + n)
  <2>3. /\ x \in Seq(B)
        /\ Len(x) = IF m + 1 <= m + n THEN m + n - (m + 1) + 1 ELSE 0
        /\ \A i \in 1 .. m + n - (m + 1) + 1 : x[i] = more[m + 1 + i - 1]
    BY <2>1, SubSeqProperties
  <2>4. /\ y \in Seq(B)
        /\ Len(y) = IF cut + m + 1 <= cut + m + n THEN cut + m + n - (cut + m + 1) + 1 ELSE 0
        /\ \A i \in 1 .. cut + m + n - (cut + m + 1) + 1 : y[i] = all[cut + m + 1 + i - 1]
    BY <2>2, SubSeqProperties
  <2> HIDE DEF x, y
  <2>5. Len(x) = n /\ Len(y) = n
    BY <2>3, <2>4
  <2>6. ASSUME NEW i \in 1 .. n PROVE x[i] = y[i]
    <3>1. x[i] = more[m + i]
      BY <2>3
    <3>2. y[i] = all[cut + (m + i)]
      BY <2>4
    <3>3. m + i \in 1 .. Len(more)
      BY <1>5, <1>2
    <3> QED BY <3>1, <3>2, <3>3, <1>4
  <2>7. x = y
    BY <2>3, <2>4, <2>5, <2>6, SeqEqual
  <2> QED BY <2>7 DEF x, y
<1> QED
  BY <1>1, <1>2, <1>3, <1>5 DEF more, all, rest, LeftOfBoth

\* The whole blocks of x + y bytes: those of x, and those of what is left with y.
LEMMA Quotients ==
  ASSUME NEW x \in Nat, NEW y \in Nat
  PROVE  (x + y) \div 64 = (x \div 64) + ((x - 64 * (x \div 64) + y) \div 64)
OBVIOUS

\* Going on after a is as good as starting with both.
Resumes(s0, a, b) ==
  LET w    == Len(a) \div 64
      more == SubSeq(a, 64 * w + 1, Len(a)) \o b
      v    == Len(more) \div 64
  IN  /\ Len(a \o b) \div 64 = w + v
      /\ Chain(s0, a \o b)[w + v] = Chain(Chain(s0, a)[w], more)[v]

\* The blocks of a, then those of its rest with b, are the blocks of a and b together.
LEMMA ChainOfBoth ==
  ASSUME NEW B, NEW s0, NEW a \in Seq(B), NEW b \in Seq(B)
  PROVE  Resumes(s0, a, b)
<1> DEFINE w     == Len(a) \div 64
           cut   == 64 * w
           rest  == SubSeq(a, cut + 1, Len(a))
           more  == rest \o b
           all   == a \o b
           v     == Len(more) \div 64
           first == Chain(s0, a)
           next  == Chain(first[w], more)
           both  == Chain(s0, all)
<1>1. w \in Nat /\ cut = 64 * w /\ cut \in 0 .. Len(a)
  OBVIOUS
<1>2. more \in Seq(B) /\ all \in Seq(B) /\ LeftOfBoth(more, a, b, cut)
  <2> HIDE DEF cut
  <2> QED BY <1>1, RestOfBoth
<1>4. /\ first[0] = s0
      /\ \A k \in 1 .. w : first[k] = Transform(first[k - 1], SubSeq(a, 64 * k - 63, 64 * k))
  BY ChainSteps
<1> HIDE DEF cut, more, all, first
<1>0. /\ Len(more) = Len(a) - cut + Len(b) /\ Len(all) = Len(a) + Len(b)
      /\ \A m, n \in Nat :
           m + n <= Len(more) => SubSeq(more, m + 1, m + n) = SubSeq(all, cut + m + 1, cut + m + n)
  BY <1>2 DEF LeftOfBoth, all
<1>3. Len(all) \div 64 = w + v /\ v \in Nat
  <2>1. v \in Nat
    BY <1>2
  <2>2. Len(a) \in Nat /\ Len(b) \in Nat
    OBVIOUS
  <2>3. (Len(a) + Len(b)) \div 64 = w + ((Len(a) - 64 * w + Len(b)) \div 64)
    BY <2>2, Quotients
  <2> QED BY <1>0, <1>1, <2>1, <2>3
<1>5. /\ next[0] = first[w]
      /\ \A k \in 1 .. v : next[k] = Transform(next[k - 1], SubSeq(more, 64 * k - 63, 64 * k))
  BY <1>2, ChainSteps
<1>6. /\ both[0] = s0
      /\ \A k \in 1 .. w + v : both[k] = Transform(both[k - 1], SubSeq(all, 64 * k - 63, 64 * k))
  <2>1. \A k \in 1 .. Len(all) \div 64 :
          both[k] = Transform(both[k - 1], SubSeq(all, 64 * k - 63, 64 * k))
    BY <1>2, ChainSteps
  <2>2. both[0] = s0
    BY <1>2, ChainSteps
  <2> HIDE DEF v, both
  <2> QED BY <1>3, <2>1, <2>2
<1>7. \A k \in 1 .. w : SubSeq(all, 64 * k - 63, 64 * k) = SubSeq(a, 64 * k - 63, 64 * k)
  <2> SUFFICES ASSUME NEW k \in 1 .. w
               PROVE  SubSeq(all, 64 * k - 63, 64 * k) = SubSeq(a, 64 * k - 63, 64 * k)
    OBVIOUS
  <2>1. 64 * k - 63 \in 1 .. Len(a) /\ 64 * k \in 1 .. Len(a)
    BY <1>1
  <2> QED BY <2>1, SubSeqOfConcat1 DEF all
<1>8. \A k \in 1 .. v :
        SubSeq(all, 64 * (w + k) - 63, 64 * (w + k)) = SubSeq(more, 64 * k - 63, 64 * k)
  <2> SUFFICES ASSUME NEW k \in 1 .. v
               PROVE  SubSeq(all, 64 * (w + k) - 63, 64 * (w + k)) = SubSeq(more, 64 * k - 63, 64 * k)
    OBVIOUS
  <2> HIDE DEF w, v
  <2> DEFINE m == 64 * (k - 1)
  <2>1. m \in Nat /\ m + 64 <= Len(more)
    <3>1. Len(more) \in Nat /\ 64 * v <= Len(more)
      BY <1>2 DEF v
    <3> QED BY <1>3, <3>1
  <2>2. SubSeq(more, m + 1, m + 64) = SubSeq(all, cut + m + 1, cut + m + 64)
    BY <1>0, <2>1
  <2>3. /\ m + 1 = 64 * k - 63 /\ m + 64 = 64 * k
        /\ cut + m + 1 = 64 * (w + k) - 63 /\ cut + m + 64 = 64 * (w + k)
    BY <1>1, <1>3
  <2> QED BY <2>2, <2>3
<1> HIDE DEF w, v, next, both
<1>9. both[w] = first[w]
  <2> DEFINE H == {k \in Nat : k <= w => both[k] = first[k]}
  <2>1. 0 \in H
    BY <1>4, <1>6
  <2>2. ASSUME NEW k \in H PROVE k + 1 \in H
    <3> SUFFICES ASSUME k + 1 <= w PROVE both[k + 1] = first[k + 1]
      OBVIOUS
    <3>1. both[k] = first[k]
      BY <1>1
    <3>2. both[k + 1] = Transform(both[k], SubSeq(all, 64 * (k + 1) - 63, 64 * (k + 1)))
      BY <1>1, <1>3, <1>6
    <3>3. first[k + 1] = Transform(first[k], SubSeq(a, 64 * (k + 1) - 63, 64 * (k + 1)))
      BY <1>1, <1>4
    <3>4. SubSeq(all, 64 * (k + 1) - 63, 64 * (k + 1)) = SubSeq(a, 64 * (k + 1) - 63, 64 * (k + 1))
      <4>1. k + 1 \in 1 .. w
        BY <1>1
      <4> QED BY <1>7, <4>1, Zenon
    <3> QED BY <3>1, <3>2, <3>3, <3>4
  <2> HIDE DEF H
  <2>3. H = Nat
    BY <2>1, <2>2, Induction DEF H
  <2> QED BY <1>1, <2>3 DEF H
<1>10. both[w + v] = next[v]
  <2> DEFINE H == {k \in Nat : k <= v => both[w + k] = next[k]}
  <2>1. 0 \in H
    BY <1>1, <1>5, <1>9
  <2>2. ASSUME NEW k \in H PROVE k + 1 \in H
    <3> SUFFICES ASSUME k + 1 <= v PROVE both[w + (k + 1)] = next[k + 1]
      OBVIOUS
    <3>1. both[w + k] = next[k]
      BY <1>3
    <3>2. both[w + (k + 1)] = Transform(both[w + k], SubSeq(all, 64 * (w + (k + 1)) - 63, 64 * (w + (k + 1))))
      <4>1. w \in Nat /\ v \in Nat /\ k \in Nat
        BY <1>1, <1>3
      <4>2. w + (k + 1) \in 1 .. w + v /\ (w + (k + 1)) - 1 = w + k
        BY <4>1
      <4> QED BY <1>6, <4>2
    <3>3. next[k + 1] = Transform(next[k], SubSeq(more, 64 * (k + 1) - 63, 64 * (k + 1)))
      BY <1>3, <1>5
    <3>4. SubSeq(all, 64 * (w + (k + 1)) - 63, 64 * (w + (k + 1))) = SubSeq(more, 64 * (k + 1) - 63, 64 * (k + 1))
      <4>1. k + 1 \in 1 .. v
        BY <1>3
      <4> QED BY <1>8, <4>1, Zenon
    <3> QED BY <3>1, <3>2, <3>3, <3>4
  <2> HIDE DEF H
  <2>3. H = Nat
    BY <2>1, <2>2, Induction DEF H
  <2> QED BY <1>3, <2>3 DEF H
<1> QED
  BY <1>3, <1>10 DEF w, v, cut, more, all, first, next, both, rest, Resumes

\* A state of the hash, with bytes from B in its buffer.
IsHash(h, B) == h.buf \in Seq(B) /\ h.bytes \in Nat

\* A digest depends on the bytes, not on the pieces they came in: writing a and then b is
\* writing both at once (secp256k1_sha256_write with its buffer), for every transformation.
THEOREM PiecesDoNotMatter ==
  ASSUME NEW B, NEW h, IsHash(h, B), NEW a \in Seq(B), NEW b \in Seq(B)
  PROVE  Write(Write(h, a), b) = Write(h, a \o b)
<1> DEFINE buf   == h.buf
           s0    == h.s
           first == buf \o a
           w     == Len(first) \div 64
           cut   == 64 * w
           rest  == SubSeq(first, cut + 1, Len(first))
           more  == rest \o b
           all   == buf \o (a \o b)
           v     == Len(more) \div 64
<1>1. first \in Seq(B) /\ Len(first) \in Nat /\ all = first \o b
  <2>1. buf \in Seq(B)
    BY DEF IsHash
  <2> HIDE DEF buf
  <2>2. first \in Seq(B)
    BY <2>1, ConcatProperties
  <2>3. first \o b = all
    BY <2>1, ConcatAssociative
  <2> QED BY <2>2, <2>3
<1>2. Write(h, a) = [s |-> Chain(s0, first)[w], buf |-> rest, bytes |-> h.bytes + Len(a)]
  BY DEF Write
<1>3. Write(Write(h, a), b)
        = [s |-> Chain(Chain(s0, first)[w], more)[v], buf |-> SubSeq(more, 64 * v + 1, Len(more)),
           bytes |-> h.bytes + Len(a) + Len(b)]
  BY <1>2 DEF Write
<1>4. Write(h, a \o b)
        = [s |-> Chain(s0, all)[Len(all) \div 64],
           buf |-> SubSeq(all, 64 * (Len(all) \div 64) + 1, Len(all)),
           bytes |-> h.bytes + Len(a \o b)]
  BY DEF Write
<1> HIDE DEF first, all
<1>5. /\ Len(all) \div 64 = w + v
      /\ Chain(s0, all)[w + v] = Chain(Chain(s0, first)[w], more)[v]
  <2>1. Resumes(s0, first, b)
    <3> HIDE DEF s0
    <3> QED BY <1>1, ChainOfBoth
  <2> QED BY <1>1, <2>1 DEF Resumes
<1>6. Len(a \o b) = Len(a) + Len(b)
  BY ConcatProperties
<1>7. SubSeq(all, 64 * (w + v) + 1, Len(all)) = SubSeq(more, 64 * v + 1, Len(more))
  <2>1. cut \in 0 .. Len(first) /\ cut = 64 * w /\ w \in Nat
    BY <1>1
  <2>2. more \in Seq(B) /\ LeftOfBoth(more, first, b, cut)
    <3> HIDE DEF cut
    <3> QED BY <1>1, <2>1, RestOfBoth
  <2> HIDE DEF cut, more, rest, w
  <2> DEFINE m == 64 * v
             n == Len(more) - 64 * v
  <2>3. v \in Nat /\ m \in Nat /\ n \in Nat /\ m + n = Len(more) /\ m = 64 * v
    <3>1. Len(more) \in Nat
      BY <2>2
    <3> QED BY <3>1
  <2>4. SubSeq(more, m + 1, m + n) = SubSeq(all, cut + m + 1, cut + m + n)
    <3>1. \A i, j \in Nat : i + j <= Len(more) =>
            SubSeq(more, i + 1, i + j) = SubSeq(all, cut + i + 1, cut + i + j)
      BY <1>1, <2>2 DEF LeftOfBoth
    <3> HIDE DEF m, n
    <3>2. m \in Nat /\ n \in Nat /\ m + n <= Len(more)
      BY <2>3
    <3> QED BY <3>1, <3>2, Zenon
  <2> HIDE DEF m, n, v
  <2>5. cut + m + 1 = 64 * (w + v) + 1 /\ cut + m + n = Len(all)
    <3>1. Len(more) = Len(first) - cut + Len(b) /\ Len(all) = Len(first) + Len(b)
      BY <1>1, <2>2 DEF LeftOfBoth
    <3>2. Len(b) \in Nat /\ n \in Nat /\ m + n = Len(more)
      BY <2>3
    <3> QED BY <1>1, <2>1, <2>3, <3>1, <3>2
  <2>6. SubSeq(more, m + 1, m + n) = SubSeq(more, 64 * v + 1, Len(more))
    BY <2>3
  <2> QED BY <2>4, <2>5, <2>6
<1>8. h.bytes + Len(a) + Len(b) = h.bytes + Len(a \o b)
  BY <1>6 DEF IsHash
<1> HIDE DEF w, v, more, rest, cut, s0
<1> QED
  BY <1>3, <1>4, <1>5, <1>7, <1>8

\* A remainder may be taken before adding.
LEMMA Remainders ==
  ASSUME NEW x \in Nat, NEW y \in Nat
  PROVE  ((x % 64) + y) % 64 = (x + y) % 64
<1> DEFINE r == x % 64
           q == x \div 64
<1>1. r \in Nat /\ q \in Nat /\ x = 64 * q + r
  OBVIOUS
<1> HIDE DEF r, q
<1>2. (64 * q + (r + y)) % 64 = (r + y) % 64
  BY <1>1
<1>3. x + y = 64 * q + (r + y)
  BY <1>1
<1>4. (r + y) % 64 = (x + y) % 64
  BY <1>2, <1>3
<1> QED
  BY <1>4 DEF r

\* The code keeps no length of its buffer: bytes modulo 64 is that length, after every write.
THEOREM BytesTellTheBuffer ==
  ASSUME NEW B, NEW h, IsHash(h, B), Len(h.buf) = h.bytes % 64, NEW data \in Seq(B)
  PROVE  /\ IsHash(Write(h, data), B)
         /\ Len(Write(h, data).buf) = Write(h, data).bytes % 64
<1> DEFINE buf  == h.buf
           all  == buf \o data
           w    == Len(all) \div 64
           from == 64 * w + 1
           rest == SubSeq(all, from, Len(all))
<1>1. buf \in Seq(B) /\ h.bytes \in Nat
  BY DEF IsHash
<1>2. all \in Seq(B) /\ Len(all) = Len(buf) + Len(data)
  <2> HIDE DEF buf
  <2> QED BY <1>1, ConcatProperties
<1>3. Write(h, data).buf = rest /\ Write(h, data).bytes = h.bytes + Len(data)
  BY DEF Write
<1> HIDE DEF buf, all
<1>4. w \in Nat /\ from = 64 * w + 1 /\ from \in Int /\ Len(all) \in Nat /\ Len(data) \in Nat
  BY <1>2
<1>5. rest \in Seq(B) /\ Len(rest) = IF from <= Len(all) THEN Len(all) - from + 1 ELSE 0
  <2>1. \A i \in from .. Len(all) : all[i] \in B
    BY <1>2, <1>4
  <2> HIDE DEF from
  <2> QED BY <1>4, <2>1, SubSeqProperties
<1> HIDE DEF rest
<1>6. Len(rest) = Len(all) % 64
  BY <1>4, <1>5
<1>7. Len(all) % 64 = (h.bytes + Len(data)) % 64
  <2>1. Len(buf) = h.bytes % 64
    BY DEF buf
  <2>2. ((h.bytes % 64) + Len(data)) % 64 = (h.bytes + Len(data)) % 64
    BY <1>1, <1>4, Remainders
  <2> QED BY <1>2, <2>1, <2>2
<1>8. h.bytes + Len(data) \in Nat
  BY <1>1, <1>4
<1> QED
  BY <1>3, <1>5, <1>6, <1>7, <1>8 DEF IsHash

\* So is HMAC's, which writes to its inner hash (secp256k1_hmac_sha256_write).
THEOREM HmacPiecesDoNotMatter ==
  ASSUME NEW B, NEW outer, NEW inner, IsHash(inner, B),
         NEW a \in Seq(B), NEW b \in Seq(B)
  PROVE  LET h == [outer |-> outer, inner |-> inner]
         IN  HmacWrite(HmacWrite(h, a), b) = HmacWrite(h, a \o b)
<1> DEFINE h == [outer |-> outer, inner |-> inner]
<1>1. \A i, data : HmacWrite([outer |-> outer, inner |-> i], data)
                     = [outer |-> outer, inner |-> Write(i, data)]
  BY DEF HmacWrite
<1>2. HmacWrite(HmacWrite(h, a), b) = [outer |-> outer, inner |-> Write(Write(inner, a), b)]
  BY <1>1, Zenon
<1>3. Write(Write(inner, a), b) = Write(inner, a \o b)
  BY PiecesDoNotMatter
<1> QED
  BY <1>1, <1>2, <1>3

\* A message as the standard pads it.
Padded(m) == (m \o (<<128>> \o Fill(0, (119 - (Len(m) % 64)) % 64))) \o SizeDesc(Len(m))

\* A function on 1 .. n is a sequence.
LEMMA FunctionsAreSequences ==
  ASSUME NEW S, NEW n \in Nat, NEW f \in [1 .. n -> S]
  PROVE  f \in Seq(S) /\ Len(f) = n
OBVIOUS

\* The padding of secp256k1_sha256_finalize: a byte 128 and zeros.
LEMMA PadIsSequence ==
  ASSUME NEW B, Nat \subseteq B, NEW n \in Nat
  PROVE  LET pad == <<128>> \o Fill(0, (119 - (n % 64)) % 64)
         IN  pad \in Seq(B) /\ Len(pad) = 1 + ((119 - (n % 64)) % 64)
<1> DEFINE z == (119 - (n % 64)) % 64
           zeros == Fill(0, z)
<1>1. z \in Nat
  OBVIOUS
<1>2. zeros \in Seq(B) /\ Len(zeros) = z
  <2> HIDE DEF z
  <2>1. zeros \in [1 .. z -> B]
    BY <1>1 DEF Fill
  <2> HIDE DEF zeros
  <2> QED BY <1>1, <2>1, FunctionsAreSequences
<1>3. <<128>> \in Seq(B) /\ Len(<<128>>) = 1
  OBVIOUS
<1> HIDE DEF z, zeros
<1>4. <<128>> \o zeros \in Seq(B) /\ Len(<<128>> \o zeros) = 1 + z
  BY <1>1, <1>2, <1>3, ConcatProperties
<1> QED
  BY <1>4 DEF z, zeros

\* Three pieces are as good as one.
LEMMA ThreePieces ==
  ASSUME NEW B, NEW a \in Seq(B), NEW b \in Seq(B), NEW c \in Seq(B)
  PROVE  Write(Write(Write(Initialize, a), b), c) = Write(Initialize, (a \o b) \o c)
<1> DEFINE h == Initialize
<1>1. IsHash(h, B)
  BY DEF Initialize, IsHash
<1> HIDE DEF h
<1> DEFINE ab == a \o b
<1>2. Write(Write(h, a), b) = Write(h, ab)
  BY <1>1, PiecesDoNotMatter
<1>3. ab \in Seq(B)
  BY ConcatProperties
<1> HIDE DEF ab
<1>4. Write(Write(h, ab), c) = Write(h, ab \o c)
  BY <1>1, <1>3, PiecesDoNotMatter
<1>5. Write(Write(Write(h, a), b), c) = Write(h, ab \o c)
  BY <1>2, <1>4
<1> QED
  BY <1>5 DEF h, ab

\* With padding and length, every message ends on the end of a block.
LEMMA PadLength ==
  ASSUME NEW n \in Nat
  PROVE  (n + (1 + ((119 - (n % 64)) % 64)) + 8) % 64 = 0
<1> DEFINE r == n % 64
           q == n \div 64
<1>1. r \in Nat /\ r < 64 /\ q \in Nat /\ n = 64 * q + r
  OBVIOUS
<1> HIDE DEF r, q
<1>2. (119 - r) % 64 = IF r <= 55 THEN 55 - r ELSE 119 - r
  BY <1>1
<1>3. n + (1 + ((119 - r) % 64)) + 8 = IF r <= 55 THEN 64 * (q + 1) ELSE 64 * (q + 2)
  BY <1>1, <1>2
<1>4. (n + (1 + ((119 - r) % 64)) + 8) % 64 = 0
  BY <1>1, <1>3
<1> QED
  BY <1>4 DEF r

\* secp256k1_sha256_finalize ends on the end of a block, whatever the length, so that no byte
\* stays in the buffer: the digest is that of all the blocks of the padded message.
THEOREM DigestOfThePadded ==
  ASSUME NEW m \in Seq(Nat)
  PROVE  /\ Len(Padded(m)) % 64 = 0
         /\ Write(Initialize, Padded(m)).buf = <<>>
         /\ Sha256(m) = Output(Chain(Initial, Padded(m))[Len(Padded(m)) \div 64])
<1> DEFINE n    == Len(m)
           size == SizeDesc(n)
           Bytes == Nat \cup {size[i] : i \in 1 .. 8}
           pad  == <<128>> \o Fill(0, (119 - (n % 64)) % 64)
           mp   == m \o pad
           all  == mp \o size
<1>1. m \in Seq(Bytes) /\ n \in Nat
  <2>1. Nat \subseteq Bytes
    OBVIOUS
  <2> HIDE DEF Bytes
  <2> QED BY <2>1, SeqMonotonic
<1>2. size \in Seq(Bytes) /\ Len(size) = 8
  <2>1. size \in [1 .. 8 -> Bytes]
    <3>1. size = [i \in 1 .. 8 |-> size[i]]
      BY DEF SizeDesc
    <3> HIDE DEF size
    <3> QED BY <3>1
  <2> HIDE DEF size, Bytes
  <2> SUFFICES ASSUME NEW j, j = 8 PROVE size \in Seq(Bytes) /\ Len(size) = j
    OBVIOUS
  <2>2. j \in Nat /\ size \in [1 .. j -> Bytes]
    BY <2>1
  <2> QED BY <2>2, FunctionsAreSequences, Zenon
<1>3. pad \in Seq(Bytes) /\ Len(pad) = 1 + ((119 - (n % 64)) % 64)
  <2>1. Nat \subseteq Bytes
    OBVIOUS
  <2> HIDE DEF Bytes, n
  <2> QED BY <1>1, <2>1, PadIsSequence
<1> HIDE DEF Bytes, pad, size
<1>4. mp \in Seq(Bytes) /\ Len(mp) = n + Len(pad)
  BY <1>1, <1>3, ConcatProperties
<1> HIDE DEF mp
<1>5. all \in Seq(Bytes) /\ Len(all) = n + Len(pad) + 8
  <2>1. all \in Seq(Bytes) /\ Len(all) = Len(mp) + Len(size)
    BY <1>2, <1>4, ConcatProperties
  <2> QED BY <1>2, <1>4, <2>1
<1> HIDE DEF all
<1>6. Len(all) % 64 = 0 /\ Len(all) \in Nat
  <2> HIDE DEF n
  <2>1. (n + (1 + ((119 - (n % 64)) % 64)) + 8) % 64 = 0
    BY <1>1, PadLength
  <2> QED BY <1>1, <1>3, <1>5, <2>1
<1>h. PICK h : h = Initialize
  OBVIOUS
<1>7. h.buf = <<>> /\ h.buf \in Seq(Bytes) /\ h.bytes = 0 /\ h.s = Initial
  BY <1>h DEF Initialize
<1>8. Write(h, m).bytes = n
  BY <1>1, <1>7 DEF Write
<1>9. Write(Write(Write(h, m), pad), size) = Write(h, all)
  <2>1. Write(Write(Write(Initialize, m), pad), size) = Write(Initialize, (m \o pad) \o size)
    BY <1>1, <1>2, <1>3, ThreePieces
  <2> QED BY <1>h, <2>1, Zenon DEF all, mp
<1>10. /\ Write(h, all).s = Chain(Initial, all)[Len(all) \div 64]
       /\ Write(h, all).buf = SubSeq(all, 64 * (Len(all) \div 64) + 1, Len(all))
  <2>1. h.buf \o all = all
    BY <1>5, <1>7, ConcatEmptySeq
  <2> QED BY <1>7, <2>1 DEF Write
<1>11. SubSeq(all, 64 * (Len(all) \div 64) + 1, Len(all)) = <<>>
  <2>1. 64 * (Len(all) \div 64) + 1 \in Int /\ Len(all) < 64 * (Len(all) \div 64) + 1
    BY <1>6
  <2> QED BY <1>6, <2>1, SubSeqEmpty
<1>12. Sha256(m) = Output(Write(Write(Write(h, m), pad), size).s)
  BY <1>h, <1>8 DEF Sha256, Finalize, pad, size
<1>13. Padded(m) = all
  BY DEF Padded, all, mp, pad, size
<1> QED
  BY <1>h, <1>6, <1>9, <1>10, <1>11, <1>12, <1>13

-----------------------------------------------------------------------------
(* BLAKE2b.                                                                *)
BlakeBlock(all, k) == SubSeq(all, 128 * (k - 1) + 1, 128 * k)
Step(S, block) == Blake!Compressed(S, block, 128)
\* The equation of Chain, for n blocks.
IsBlakeChain(s, S, all, n) ==
  s = [k \in 0 .. n |-> IF k = 0 THEN S ELSE Step(s[k - 1], BlakeBlock(all, k))]

\* The equation has a solution for every number of blocks ...
LEMMA BlakeChainExists ==
  ASSUME NEW S, NEW all, NEW n \in Nat
  PROVE  \E s : IsBlakeChain(s, S, all, n)
<1> DEFINE G(s, k) == IF k = 0 THEN S ELSE Step(s[k - 1], BlakeBlock(all, k))
           H == {i \in Nat : \E s : s = [k \in 0 .. i |-> G(s, k)]}
<1>1. 0 \in H
  <2> DEFINE s == [k \in 0 .. 0 |-> S]
  <2> s = [k \in 0 .. 0 |-> G(s, k)]
    OBVIOUS
  <2> QED OBVIOUS
<1>2. ASSUME NEW i \in H PROVE i + 1 \in H
  <2>1. PICK s : s = [k \in 0 .. i |-> G(s, k)]
    OBVIOUS
  <2> DEFINE t == [k \in 0 .. i + 1 |-> IF k <= i THEN s[k] ELSE G(s, k)]
  <2>2. \A k \in 0 .. i + 1 : t[k] = G(t, k)
    <3> SUFFICES ASSUME NEW k \in 0 .. i + 1 PROVE t[k] = G(t, k)
      OBVIOUS
    <3>1. t[k] = G(s, k)
      BY <2>1
    <3>2. CASE k = 0
      BY <3>1, <3>2
    <3>3. CASE k # 0
      <4>1. k - 1 \in 0 .. i + 1 /\ k - 1 <= i
        BY <3>3
      <4>2. t[k - 1] = s[k - 1]
        BY <4>1
      <4> QED BY <3>1, <3>3, <4>2
    <3> QED BY <3>2, <3>3
  <2>3. t = [k \in 0 .. i + 1 |-> G(t, k)]
    BY <2>2
  <2> HIDE DEF t
  <2> QED BY <2>3
<1> HIDE DEF H
<1>3. H = Nat
  BY <1>1, <1>2, Induction DEF H
<1> QED
  BY <1>3 DEF H, IsBlakeChain

\* The blocks that need not be held back.
LEMMA WholeIsNat ==
  ASSUME NEW n \in Nat
  PROVE  Blake!Whole(n) \in Nat /\ (n > 0 => Blake!Whole(n) = (n - 1) \div 128)
BY DEF Blake!Whole, Blake!BLOCKBYTES

\* ... and BLAKE2b's Chain is that solution.
LEMMA BlakeChainRecursion ==
  ASSUME NEW B, NEW S, NEW all \in Seq(B)
  PROVE  IsBlakeChain(Blake!Chain(S, all), S, all, Blake!Whole(Len(all)))
<1>1. Blake!Whole(Len(all)) \in Nat
  BY WholeIsNat
<1>2. \E s : IsBlakeChain(s, S, all, Blake!Whole(Len(all)))
  BY <1>1, BlakeChainExists
<1>3. Blake!Chain(S, all) = CHOOSE s : IsBlakeChain(s, S, all, Blake!Whole(Len(all)))
  BY Zenon DEF Blake!Chain, IsBlakeChain, Step, BlakeBlock, Blake!BLOCKBYTES
<1> QED
  BY <1>2, <1>3, Zenon

\* Chain's states, one block at a time.
LEMMA BlakeChainSteps ==
  ASSUME NEW B, NEW S, NEW all \in Seq(B)
  PROVE  /\ Blake!Chain(S, all)[0] = S
         /\ \A k \in 1 .. Blake!Whole(Len(all)) :
              Blake!Chain(S, all)[k] = Step(Blake!Chain(S, all)[k - 1], BlakeBlock(all, k))
<1> DEFINE c == Blake!Chain(S, all)
           n == Blake!Whole(Len(all))
<1>1. IsBlakeChain(c, S, all, n)
  BY BlakeChainRecursion
<1>2. n \in Nat
  BY WholeIsNat
<1> HIDE DEF c, n
<1>3. c[0] = S /\ \A k \in 1 .. n : c[k] = Step(c[k - 1], BlakeBlock(all, k))
  BY <1>1, <1>2 DEF IsBlakeChain
<1> QED
  BY <1>3 DEF c, n

\* A state of the hash, and two of them that differ in their buffers at most.
IsState(S) == S = [h |-> S.h, t |-> S.t, f |-> S.f, buf |-> S.buf, outlen |-> S.outlen,
                   last_node |-> S.last_node]
Alike(S, R) == /\ IsState(S) /\ IsState(R)
               /\ S.h = R.h /\ S.t = R.t /\ S.f = R.f
               /\ S.outlen = R.outlen /\ S.last_node = R.last_node

\* What compressing a block does to the fields of a state.
LEMMA StepOf ==
  ASSUME NEW S, IsState(S), NEW block
  PROVE  LET t == Blake!Advanced(S.t, Blake!Word(128))
         IN  Step(S, block) = [h |-> Compress(S.h, t, S.f, block), t |-> t, f |-> S.f, buf |-> S.buf,
                               outlen |-> S.outlen, last_node |-> S.last_node]
<1> DEFINE t == Blake!Advanced(S.t, Blake!Word(128))
           c == Blake!IncrementCounter(S, Blake!Word(128))
<1>1. c = [S EXCEPT !.t = t]
  BY Zenon DEF Blake!IncrementCounter
<1>2. Step(S, block) = [c EXCEPT !.h = Compress(S.h, c.t, c.f, block)]
  BY Zenon DEF Step, Blake!Compressed
<1> HIDE DEF t, c
<1>3. c = [h |-> S.h, t |-> t, f |-> S.f, buf |-> S.buf, outlen |-> S.outlen, last_node |-> S.last_node]
  BY <1>1 DEF IsState
<1>4. Step(S, block) = [h |-> Compress(S.h, t, S.f, block), t |-> t, f |-> S.f, buf |-> S.buf,
                        outlen |-> S.outlen, last_node |-> S.last_node]
  BY <1>2, <1>3
<1> QED BY <1>4 DEF t

\* Compressing a block does not look at the buffer.
LEMMA AlikeSteps ==
  ASSUME NEW S, NEW R, Alike(S, R), NEW block
  PROVE  Alike(Step(S, block), Step(R, block))
<1> DEFINE t == Blake!Advanced(S.t, Blake!Word(128))
<1>1. t = Blake!Advanced(R.t, Blake!Word(128))
  BY DEF Alike
<1>2. Step(S, block) = [h |-> Compress(S.h, t, S.f, block), t |-> t, f |-> S.f, buf |-> S.buf,
                        outlen |-> S.outlen, last_node |-> S.last_node]
  BY StepOf DEF Alike
<1>3. Step(R, block) = [h |-> Compress(R.h, t, R.f, block), t |-> t, f |-> R.f, buf |-> R.buf,
                        outlen |-> R.outlen, last_node |-> R.last_node]
  BY <1>1, StepOf DEF Alike
<1> HIDE DEF t
<1> QED
  BY <1>2, <1>3 DEF Alike, IsState

\* The blocks of x + y bytes, the last one held back.
LEMMA BlakeQuotients ==
  ASSUME NEW x \in Nat, NEW y \in Nat \ {0}
  PROVE  /\ 128 * Blake!Whole(x) \in 0 .. x
         /\ Blake!Whole(x + y) = Blake!Whole(x) + Blake!Whole(x - 128 * Blake!Whole(x) + y)
<1> DEFINE w == Blake!Whole(x)
<1>1. w \in Nat /\ w = IF x <= 128 THEN 0 ELSE (x - 1) \div 128
  BY DEF Blake!Whole, Blake!BLOCKBYTES
<1> HIDE DEF w
<1>2. 128 * w \in 0 .. x
  BY <1>1
<1>3. x + y \in Nat /\ x + y > 0 /\ x - 128 * w + y \in Nat /\ x - 128 * w + y > 0
  BY <1>2
<1>4. Blake!Whole(x + y) = (x + y - 1) \div 128
  BY <1>3, WholeIsNat
<1>5. Blake!Whole(x - 128 * w + y) = (x - 128 * w + y - 1) \div 128
  <2> DEFINE z == x - 128 * w + y
  <2>1. z \in Nat /\ z > 0
    BY <1>3
  <2> HIDE DEF z
  <2>2. Blake!Whole(z) = (z - 1) \div 128
    BY <2>1, WholeIsNat
  <2>3. z - 1 = x - 128 * w + y - 1
    BY <1>1 DEF z
  <2>4. Blake!Whole(x - 128 * w + y) = (z - 1) \div 128
    BY <2>2, Zenon DEF z
  <2> QED BY <2>3, <2>4
<1>6. (x + y - 1) \div 128 = w + ((x - 128 * w + y - 1) \div 128)
  BY <1>1, <1>3
<1> QED
  BY <1>2, <1>4, <1>5, <1>6 DEF w

\* Going on after a, from any state like the one a leads to, is as good as starting with both.
BlakeResumes(S, R, a, b) ==
  LET w    == Blake!Whole(Len(a))
      more == SubSeq(a, 128 * w + 1, Len(a)) \o b
      v    == Blake!Whole(Len(more))
  IN  /\ Blake!Whole(Len(a \o b)) = w + v
      /\ Alike(Blake!Chain(S, a)[w], R)
           => Alike(Blake!Chain(S, a \o b)[w + v], Blake!Chain(R, more)[v])

\* The blocks of a, then those of its rest with b, are the blocks of a and b together.
LEMMA BlakeChainOfBoth ==
  ASSUME NEW B, NEW S, NEW R, NEW a \in Seq(B), NEW b \in Seq(B), b # <<>>
  PROVE  BlakeResumes(S, R, a, b)
<1> DEFINE w     == Blake!Whole(Len(a))
           cut   == 128 * w
           rest  == SubSeq(a, cut + 1, Len(a))
           more  == rest \o b
           all   == a \o b
           v     == Blake!Whole(Len(more))
           first == Blake!Chain(S, a)
           next  == Blake!Chain(R, more)
           both  == Blake!Chain(S, all)
<1>0. Len(a) \in Nat /\ Len(b) \in Nat \ {0}
  BY EmptySeq
<1>1. w \in Nat /\ cut = 128 * w /\ cut \in 0 .. Len(a)
  BY <1>0, WholeIsNat, BlakeQuotients
<1>2. more \in Seq(B) /\ all \in Seq(B) /\ LeftOfBoth(more, a, b, cut)
  <2> HIDE DEF cut
  <2> QED BY <1>1, RestOfBoth
<1>3. /\ first[0] = S
      /\ \A k \in 1 .. w : first[k] = Step(first[k - 1], BlakeBlock(a, k))
  BY BlakeChainSteps
<1> HIDE DEF cut, more, all, first
<1>4. /\ Len(more) = Len(a) - cut + Len(b) /\ Len(all) = Len(a) + Len(b)
      /\ \A m, n \in Nat :
           m + n <= Len(more) => SubSeq(more, m + 1, m + n) = SubSeq(all, cut + m + 1, cut + m + n)
  BY <1>2 DEF LeftOfBoth, all
<1>5. Blake!Whole(Len(all)) = w + v /\ v \in Nat
  <2>1. v \in Nat
    <3>1. Len(more) \in Nat
      BY <1>2
    <3> QED BY <3>1, WholeIsNat
  <2>2. Blake!Whole(Len(a) + Len(b)) = w + Blake!Whole(Len(a) - 128 * w + Len(b))
    BY <1>0, BlakeQuotients
  <2> QED BY <1>1, <1>4, <2>1, <2>2
<1>6. 128 * v <= Len(more)
  <2>1. Len(more) \in Nat
    BY <1>2
  <2>2. 128 * v \in 0 .. Len(more)
    BY <2>1, BlakeQuotients
  <2> QED BY <2>1, <2>2
<1>7. /\ next[0] = R
      /\ \A k \in 1 .. v : next[k] = Step(next[k - 1], BlakeBlock(more, k))
  BY <1>2, BlakeChainSteps
<1>8. /\ both[0] = S
      /\ \A k \in 1 .. w + v : both[k] = Step(both[k - 1], BlakeBlock(all, k))
  <2>1. /\ both[0] = S
        /\ \A k \in 1 .. Blake!Whole(Len(all)) : both[k] = Step(both[k - 1], BlakeBlock(all, k))
    BY <1>2, BlakeChainSteps
  <2> HIDE DEF v, both
  <2> QED BY <1>5, <2>1
<1> HIDE DEF w, v, next, both
<1>9. ASSUME NEW k \in 1 .. w PROVE BlakeBlock(all, k) = BlakeBlock(a, k)
  <2>1. 128 * (k - 1) + 1 \in 1 .. Len(a) /\ 128 * k \in 1 .. Len(a)
    BY <1>0, <1>1
  <2> QED BY <2>1, SubSeqOfConcat1 DEF all, BlakeBlock
<1>10. ASSUME NEW k \in 1 .. v PROVE BlakeBlock(all, w + k) = BlakeBlock(more, k)
  <2> DEFINE m == 128 * (k - 1)
  <2>1. m \in Nat /\ m + 128 <= Len(more)
    <3>1. Len(more) \in Nat
      BY <1>2
    <3> QED BY <1>5, <1>6, <3>1
  <2>2. SubSeq(more, m + 1, m + 128) = SubSeq(all, cut + m + 1, cut + m + 128)
    <3> HIDE DEF m
    <3>1. m \in Nat /\ 128 \in Nat /\ m + 128 <= Len(more)
      BY <2>1
    <3>2. \A i, j \in Nat :
            i + j <= Len(more) => SubSeq(more, i + 1, i + j) = SubSeq(all, cut + i + 1, cut + i + j)
      BY <1>4
    <3> QED BY <3>1, <3>2, ZenonT(40)
  <2>3. /\ m + 1 = 128 * (k - 1) + 1 /\ m + 128 = 128 * k
        /\ cut + m + 1 = 128 * ((w + k) - 1) + 1 /\ cut + m + 128 = 128 * (w + k)
    BY <1>1, <1>5
  <2>4. /\ BlakeBlock(all, w + k) = SubSeq(all, 128 * ((w + k) - 1) + 1, 128 * (w + k))
        /\ BlakeBlock(more, k) = SubSeq(more, 128 * (k - 1) + 1, 128 * k)
    BY Zenon DEF BlakeBlock
  <2> HIDE DEF m
  <2>5. BlakeBlock(more, k) = SubSeq(more, m + 1, m + 128)
    BY <2>3, <2>4, Zenon
  <2>6. BlakeBlock(all, w + k) = SubSeq(all, cut + m + 1, cut + m + 128)
    BY <2>3, <2>4, Zenon
  <2> QED BY <2>2, <2>5, <2>6, Zenon
<1>11. both[w] = first[w]
  <2> DEFINE H == {k \in Nat : k <= w => both[k] = first[k]}
  <2>1. 0 \in H
    BY <1>3, <1>8
  <2>2. ASSUME NEW k \in H PROVE k + 1 \in H
    <3> SUFFICES ASSUME k + 1 <= w PROVE both[k + 1] = first[k + 1]
      OBVIOUS
    <3>1. both[k] = first[k]
      BY <1>1
    <3>2. both[k + 1] = Step(both[k], BlakeBlock(all, k + 1))
      BY <1>1, <1>5, <1>8
    <3>3. first[k + 1] = Step(first[k], BlakeBlock(a, k + 1))
      BY <1>1, <1>3
    <3>4. BlakeBlock(all, k + 1) = BlakeBlock(a, k + 1)
      BY <1>1, <1>9
    <3> QED BY <3>1, <3>2, <3>3, <3>4
  <2> HIDE DEF H
  <2>3. H = Nat
    BY <2>1, <2>2, Induction DEF H
  <2> QED BY <1>1, <2>3 DEF H
<1>12. ASSUME Alike(first[w], R) PROVE Alike(both[w + v], next[v])
  <2> DEFINE H == {k \in Nat : k <= v => Alike(both[w + k], next[k])}
  <2>1. 0 \in H
    BY <1>1, <1>7, <1>11, <1>12
  <2>2. ASSUME NEW k \in H PROVE k + 1 \in H
    <3> SUFFICES ASSUME k + 1 <= v PROVE Alike(both[w + (k + 1)], next[k + 1])
      OBVIOUS
    <3>1. Alike(both[w + k], next[k])
      BY <1>5
    <3>2. both[w + (k + 1)] = Step(both[w + k], BlakeBlock(all, w + (k + 1)))
      <4>1. w + (k + 1) \in 1 .. w + v /\ (w + (k + 1)) - 1 = w + k
        BY <1>1, <1>5
      <4> QED BY <1>8, <4>1
    <3>3. next[k + 1] = Step(next[k], BlakeBlock(more, k + 1))
      BY <1>5, <1>7
    <3>4. BlakeBlock(all, w + (k + 1)) = BlakeBlock(more, k + 1)
      BY <1>5, <1>10
    <3> QED BY <3>1, <3>2, <3>3, <3>4, AlikeSteps
  <2> HIDE DEF H
  <2>3. H = Nat
    BY <2>1, <2>2, Induction DEF H
  <2> QED BY <1>5, <2>3 DEF H
<1> QED
  BY <1>5, <1>12 DEF w, v, cut, more, all, first, next, both, rest, BlakeResumes

\* No block changes the flags.
LEMMA BlakeChainState ==
  ASSUME NEW B, NEW S, IsState(S), NEW all \in Seq(B)
  PROVE  LET c == Blake!Chain(S, all)[Blake!Whole(Len(all))] IN IsState(c) /\ c.f = S.f
<1> DEFINE c == Blake!Chain(S, all)
           n == Blake!Whole(Len(all))
           H == {k \in Nat : k <= n => IsState(c[k]) /\ c[k].f = S.f}
<1>1. n \in Nat
  BY WholeIsNat
<1>2. c[0] = S /\ \A k \in 1 .. n : c[k] = Step(c[k - 1], BlakeBlock(all, k))
  BY BlakeChainSteps
<1> HIDE DEF c, n
<1>3. 0 \in H
  BY <1>2
<1>4. ASSUME NEW k \in H PROVE k + 1 \in H
  <2> SUFFICES ASSUME k + 1 <= n PROVE IsState(c[k + 1]) /\ c[k + 1].f = S.f
    OBVIOUS
  <2> DEFINE r == c[k]
             block == BlakeBlock(all, k + 1)
             t == Blake!Advanced(r.t, Blake!Word(128))
  <2>1. IsState(r) /\ r.f = S.f
    BY <1>1
  <2>2. c[k + 1] = Step(r, block)
    BY <1>1, <1>2
  <2> HIDE DEF r, block
  <2>3. Step(r, block) = [h |-> Compress(r.h, t, r.f, block), t |-> t, f |-> r.f, buf |-> r.buf,
                          outlen |-> r.outlen, last_node |-> r.last_node]
    BY <2>1, StepOf
  <2> HIDE DEF t
  <2> QED BY <2>1, <2>2, <2>3 DEF IsState
<1> HIDE DEF H
<1>5. H = Nat
  BY <1>3, <1>4, Induction DEF H
<1>6. IsState(c[n]) /\ c[n].f = S.f
  BY <1>1, <1>5 DEF H
<1> QED
  BY <1>6 DEF c, n

\* blake2b_update keeps a full buffer back, as the last block is compressed by blake2b_final
\* alone: however a message is cut, its updates end in one state, for every compression.
THEOREM BlakePiecesDoNotMatter ==
  ASSUME NEW B, NEW S, IsState(S), S.buf \in Seq(B), ~Blake!Reused(S),
         NEW a \in Seq(B), NEW b \in Seq(B)
  PROVE  /\ Blake!Update(S, a).ok
         /\ Blake!Update(Blake!Update(S, a).S, b) = Blake!Update(S, a \o b)
<1> DEFINE buf   == S.buf
           first == buf \o a
           w     == Blake!Whole(Len(first))
           cut   == 128 * w
           rest  == SubSeq(first, cut + 1, Len(first))
           more  == rest \o b
           all   == buf \o (a \o b)
           v     == Blake!Whole(Len(more))
           c     == Blake!Chain(S, first)[w]
           R     == [c EXCEPT !.buf = rest]
<1>1. CASE a = <<>>
  <2>1. Blake!Update(S, a) = [ok |-> TRUE, S |-> S]
    BY <1>1, Zenon DEF Blake!Update
  <2>2. a \o b = b
    BY <1>1, ConcatEmptySeq
  <2> QED BY <2>1, <2>2
<1>2. CASE a # <<>>
  <2>1. Blake!Update(S, a) = [ok |-> TRUE, S |-> R]
    BY <1>2, Zenon DEF Blake!Update, Blake!BLOCKBYTES
  <2>0. Blake!Update(S, a).ok /\ Blake!Update(S, a).S = R
    <3> HIDE DEF R
    <3>1. [ok |-> TRUE, S |-> R].ok /\ [ok |-> TRUE, S |-> R].S = R
      OBVIOUS
    <3> QED BY <2>1, <3>1, Zenon
  <2>2. first \in Seq(B) /\ Len(first) \in Nat /\ all = first \o b
    <3>1. buf \in Seq(B)
      OBVIOUS
    <3> HIDE DEF buf
    <3>2. first \in Seq(B)
      BY <3>1, ConcatProperties
    <3>3. first \o b = all
      <4>1. (buf \o a) \o b = buf \o (a \o b)
        BY <3>1, ConcatAssociative, SMTT(30)
      <4> QED BY <4>1, Zenon
    <3> QED BY <3>2, <3>3
  <2>3. IsState(c) /\ c.f = S.f
    <3> HIDE DEF first
    <3> QED BY <2>2, BlakeChainState
  <2>4. Alike(c, R) /\ R.f = S.f /\ R.buf = rest
    <3> HIDE DEF c, rest
    <3> QED BY <2>3 DEF Alike, IsState
  <2>5. ~Blake!Reused(R)
    <3> HIDE DEF R
    <3> QED BY <2>4, Zenon DEF Blake!Reused
  <2>6. CASE b = <<>>
    <3>1. Blake!Update(R, b) = [ok |-> TRUE, S |-> R]
      BY <2>6, Zenon DEF Blake!Update
    <3>2. a \o b = a
      BY <2>6, ConcatEmptySeq
    <3> HIDE DEF R
    <3> QED BY <2>0, <2>1, <3>1, <3>2
  <2>7. CASE b # <<>>
    <3>1. a \o b # <<>>
      BY <2>7, ConcatSimplifications
    <3> DEFINE d == Blake!Chain(R, more)[v]
               e == Blake!Chain(S, all)[Blake!Whole(Len(all))]
    <3>2. Blake!Update(R, b) = [ok |-> TRUE, S |-> [d EXCEPT !.buf = SubSeq(more, 128 * v + 1, Len(more))]]
      <4> HIDE DEF R, rest
      <4> QED BY <2>4, <2>5, <2>7, Zenon DEF Blake!Update, Blake!BLOCKBYTES
    <3>3. Blake!Update(S, a \o b)
            = [ok |-> TRUE, S |-> [e EXCEPT !.buf = SubSeq(all, 128 * Blake!Whole(Len(all)) + 1, Len(all))]]
      BY <3>1, Zenon DEF Blake!Update, Blake!BLOCKBYTES
    <3>4. BlakeResumes(S, R, first, b)
      <4> HIDE DEF first, R
      <4> QED BY <2>2, <2>7, BlakeChainOfBoth
    <3>5. Blake!Whole(Len(all)) = w + v /\ Alike(e, d)
      <4> HIDE DEF first, R, all
      <4> QED BY <2>2, <2>4, <3>4 DEF BlakeResumes
    <3>6. SubSeq(all, 128 * (w + v) + 1, Len(all)) = SubSeq(more, 128 * v + 1, Len(more))
      <4> HIDE DEF R, d, e, c, first, all
      <4>1. w \in Nat /\ cut = 128 * w /\ cut \in 0 .. Len(first)
        <5>1. 128 * Blake!Whole(Len(first)) \in 0 .. Len(first)
          BY <2>2, BlakeQuotients
        <5> QED BY <2>2, <5>1, WholeIsNat
      <4>2. more \in Seq(B) /\ LeftOfBoth(more, first, b, cut)
        <5> HIDE DEF cut
        <5> QED BY <2>2, <4>1, RestOfBoth
      <4> HIDE DEF cut, more, rest, w
      <4>3. v \in Nat /\ 128 * v \in 0 .. Len(more)
        <5>1. Len(more) \in Nat
          BY <4>2
        <5> QED BY <5>1, WholeIsNat, BlakeQuotients
      <4> DEFINE m == 128 * v
                 n == Len(more) - 128 * v
      <4>4. m \in Nat /\ n \in Nat /\ m + n = Len(more) /\ m = 128 * v /\ m + n <= Len(more)
        <5>1. Len(more) \in Nat
          BY <4>2
        <5> HIDE DEF v
        <5> QED BY <4>3, <5>1
      <4> HIDE DEF m, n, v
      <4>5. SubSeq(more, m + 1, m + n) = SubSeq(all, cut + m + 1, cut + m + n)
        <5> HIDE DEF all
        <5>1. LeftOfBoth(more, first, b, cut)
          BY <4>2
        <5>2. m \in Nat /\ n \in Nat /\ m + n <= Len(more)
          BY <4>4
        <5>3. SubSeq(more, m + 1, m + n) = SubSeq(first \o b, cut + m + 1, cut + m + n)
          <6>1. \A i, j \in Nat : i + j <= Len(more) =>
                  SubSeq(more, i + 1, i + j) = SubSeq(first \o b, cut + i + 1, cut + i + j)
            BY <5>1, Zenon DEF LeftOfBoth
          <6> QED BY <5>2, <6>1, Zenon
        <5> QED BY <2>2, <5>3, Zenon
      <4>6. cut + m + 1 = 128 * (w + v) + 1 /\ cut + m + n = Len(all)
        <5>1. Len(more) = Len(first) - cut + Len(b) /\ Len(all) = Len(first) + Len(b)
          BY <2>2, <4>2 DEF LeftOfBoth
        <5>2. Len(b) \in Nat
          OBVIOUS
        <5> QED BY <2>2, <4>1, <4>3, <4>4, <5>1, <5>2
      <4>7. SubSeq(more, m + 1, m + n) = SubSeq(more, 128 * v + 1, Len(more))
        BY <4>4
      <4> QED BY <4>5, <4>6, <4>7
    <3>7. [d EXCEPT !.buf = SubSeq(more, 128 * v + 1, Len(more))]
            = [e EXCEPT !.buf = SubSeq(more, 128 * v + 1, Len(more))]
      <4> HIDE DEF d, e, more, v
      <4>1. Alike(e, d)
        BY <3>5
      <4> SUFFICES ASSUME NEW last
                   PROVE  [d EXCEPT !.buf = last] = [e EXCEPT !.buf = last]
        OBVIOUS
      <4> QED BY <4>1 DEF Alike, IsState
    <3> HIDE DEF d, e, all, R, more, v, w
    <3> QED BY <2>0, <3>2, <3>3, <3>5, <3>6, <3>7
  <2> QED BY <2>6, <2>7
<1> QED
  BY <1>1, <1>2

\* What an update brings never leaves the buffer empty, so that blake2b_final has a last block
\* to flag, and never more than the buffer holds.
THEOREM BlakeKeepsTheLastBlock ==
  ASSUME NEW B, NEW S, IsState(S), S.buf \in Seq(B), Len(S.buf) <= 128, ~Blake!Reused(S),
         NEW in \in Seq(B)
  PROVE  LET R == Blake!Update(S, in).S
         IN  /\ IsState(R) /\ R.buf \in Seq(B) /\ ~Blake!Reused(R)
             /\ Len(R.buf) <= 128
             /\ in # <<>> => Len(R.buf) > 0
<1> DEFINE U    == Blake!Update(S, in).S
           buf  == S.buf
           all  == buf \o in
           w    == Blake!Whole(Len(all))
           from == 128 * w + 1
           rest == SubSeq(all, from, Len(all))
           c    == Blake!Chain(S, all)[w]
<1>1. CASE in = <<>>
  <2>1. Blake!Update(S, in) = [ok |-> TRUE, S |-> S]
    BY <1>1, Zenon DEF Blake!Update
  <2>2. Blake!Update(S, in).S = S
    BY <2>1
  <2> QED BY <1>1, <2>2
<1>2. CASE in # <<>>
  <2>1. Blake!Update(S, in) = [ok |-> TRUE, S |-> [c EXCEPT !.buf = rest]]
    BY <1>2, Zenon DEF Blake!Update, Blake!BLOCKBYTES
  <2>2. Blake!Update(S, in).S = [c EXCEPT !.buf = rest]
    BY <2>1
  <2>3. all \in Seq(B) /\ Len(all) = Len(buf) + Len(in) /\ Len(buf) \in Nat /\ Len(in) \in Nat \ {0}
    <3>1. buf \in Seq(B) /\ Len(in) \in Nat \ {0}
      BY <1>2, EmptySeq
    <3> HIDE DEF buf
    <3> QED BY <3>1, ConcatProperties
  <2>4. IsState(c) /\ c.f = S.f
    <3> HIDE DEF all
    <3> QED BY <2>3, BlakeChainState
  <2> HIDE DEF c, all
  <2>5. /\ Len(all) \in Nat /\ Len(all) > 0
        /\ w \in Nat /\ w = (Len(all) - 1) \div 128
        /\ from = 128 * w + 1 /\ from \in Int /\ from >= 1
    <3>1. Len(all) \in Nat /\ Len(all) > 0
      BY <2>3
    <3>2. w \in Nat /\ w = (Len(all) - 1) \div 128
      BY <3>1, WholeIsNat
    <3> HIDE DEF w
    <3> QED BY <3>1, <3>2
  <2> HIDE DEF w
  <2>6. rest \in Seq(B) /\ Len(rest) = IF from <= Len(all) THEN Len(all) - from + 1 ELSE 0
    <3> HIDE DEF from
    <3>1. \A i \in from .. Len(all) : all[i] \in B
      <4>1. \A i \in 1 .. Len(all) : all[i] \in B
        BY <2>3
      <4> QED BY <2>5, <4>1
    <3> QED BY <2>5, <3>1, SubSeqProperties
  <2> HIDE DEF rest, from
  <2>7. Len(rest) <= 128 /\ Len(rest) > 0
    BY <2>5, <2>6
  <2> DEFINE R == [c EXCEPT !.buf = rest]
  <2>8. IsState(R) /\ R.f = S.f /\ R.buf = rest
    BY <2>4 DEF IsState
  <2> HIDE DEF R
  <2>9. ~Blake!Reused(R)
    BY <2>8, Zenon DEF Blake!Reused
  <2>10. Blake!Update(S, in).S = R
    BY <2>2 DEF R
  <2> QED BY <2>6, <2>7, <2>8, <2>9, <2>10
<1> QED
  BY <1>1, <1>2

\* The flag of the last block is told from none.
LEMMA OnesAreNotZero == Blake!Ones # Blake!Word0
<1> DEFINE low  == Blake!Bits(0, 16)
           high == Blake!Zeros(48)
           zero == low \o high
           S    == {low[i] : i \in 1 .. 16} \cup {0}
<1>1. high \in Seq(S) /\ Len(high) = 48 /\ high[48] = 0
  <2>1. high \in [1 .. 48 -> S] /\ high[48] = 0
    BY DEF Blake!Zeros
  <2> HIDE DEF high, S
  <2> SUFFICES ASSUME NEW n, n = 48 PROVE high \in Seq(S) /\ Len(high) = n
    BY <2>1
  <2>2. n \in Nat /\ high \in [1 .. n -> S]
    BY <2>1
  <2> QED BY <2>2, FunctionsAreSequences, Zenon
<1>2. low \in Seq(S) /\ Len(low) = 16
  <2> DEFINE f == [i \in 1 .. 16 |-> (0 \div 2^(i - 1)) % 2]
             R == {f[i] : i \in 1 .. 16}
  <2>1. f \in [1 .. 16 -> R]
    <3>1. f = [i \in 1 .. 16 |-> f[i]]
      OBVIOUS
    <3> HIDE DEF f
    <3> QED BY <3>1
  <2>2. low = f \o <<>>
    BY Zenon DEF Blake!Bits
  <2> HIDE DEF f, R
  <2>3. f \in Seq(R) /\ Len(f) = 16
    <3> SUFFICES ASSUME NEW n, n = 16 PROVE f \in Seq(R) /\ Len(f) = n
      OBVIOUS
    <3>1. n \in Nat /\ f \in [1 .. n -> R]
      BY <2>1
    <3> QED BY <3>1, FunctionsAreSequences, Zenon
  <2>4. low = f
    BY <2>2, <2>3, ConcatEmptySeq
  <2>5. low = [i \in 1 .. 16 |-> low[i]]
    BY <2>3, <2>4
  <2> HIDE DEF low
  <2>6. low \in [1 .. 16 -> S]
    BY <2>5
  <2> HIDE DEF S
  <2> SUFFICES ASSUME NEW n, n = 16 PROVE low \in Seq(S) /\ Len(low) = n
    OBVIOUS
  <2>7. n \in Nat /\ low \in [1 .. n -> S]
    BY <2>6
  <2> QED BY <2>7, FunctionsAreSequences, Zenon
<1> HIDE DEF low, high, S
<1>3. zero \in Seq(S) /\ Len(zero) = 64 /\ zero[64] = 0
  <2>0. low \in Seq(S) /\ high \in Seq(S)
    BY <1>1, <1>2
  <2>1. /\ zero \in Seq(S) /\ Len(zero) = Len(low) + Len(high)
        /\ \A i \in 1 .. Len(low) + Len(high) : zero[i] = IF i <= Len(low) THEN low[i] ELSE high[i - Len(low)]
    BY <2>0, ConcatProperties, Zenon
  <2> HIDE DEF zero
  <2>2. Len(zero) = 64
    BY <1>1, <1>2, <2>1
  <2>3. 64 \in 1 .. Len(low) + Len(high) /\ ~(64 <= Len(low)) /\ 64 - Len(low) = 48
    BY <1>1, <1>2
  <2>4. zero[64] = high[48]
    BY <2>1, <2>3
  <2> QED BY <1>1, <2>1, <2>2, <2>4
<1>4. Blake!Word0 = zero
  BY Zenon DEF Blake!Word0, Blake!Word, low, high
<1> HIDE DEF zero
<1>5. Blake!Ones = [i \in 1 .. Len(zero) |-> 1 - zero[i]]
  BY <1>4, Zenon DEF Blake!Ones, Blake!Not
<1>6. Blake!Ones[64] = 1
  BY <1>3, <1>5
<1> QED
  BY <1>3, <1>4, <1>6

\* A state that has given its digest is marked by its last block's flag: it takes no more
\* data and gives no second digest, whatever the room and the data (blake2b_update, blake2b_final).
THEOREM BlakeOneDigest ==
  ASSUME NEW S, IsState(S), NEW room, Blake!Final(S, room).ok
  PROVE  LET R == Blake!Final(S, room).S
         IN  /\ Blake!Reused(R)
             /\ \A in : in # <<>> => Blake!Update(R, in) = [ok |-> FALSE, S |-> R]
             /\ \A more : ~Blake!Final(R, more).ok /\ Blake!Final(R, more).S = R
<1>1. ~(room < S.outlen \/ Blake!Reused(S))
  <2> SUFFICES ASSUME room < S.outlen \/ Blake!Reused(S) PROVE FALSE
    OBVIOUS
  <2>1. Blake!Final(S, room) = [ok |-> FALSE, S |-> S, out |-> <<>>]
    BY Zenon DEF Blake!Final
  <2>2. ~[ok |-> FALSE, S |-> S, out |-> <<>>].ok
    OBVIOUS
  <2> QED BY <2>1, <2>2, Zenon
<1> DEFINE block == S.buf \o Blake!Zeros(128 - Len(S.buf))
           L     == Blake!SetLastBlock(S)
           inc   == Blake!Word(Len(S.buf))
           c     == Blake!IncrementCounter(L, inc)
           end   == Blake!Compressed(L, block, Len(S.buf))
           R     == [end EXCEPT !.h = <<>>, !.buf = <<>>]
<1>2. Blake!Final(S, room) = [ok |-> TRUE, S |-> R, out |-> SubSeq(BlakeOutput(end.h), 1, S.outlen)]
  BY <1>1, Zenon DEF Blake!Final, Blake!BLOCKBYTES
<1>3. Blake!Final(S, room).S = R
  BY <1>2
<1>4. R.f[1] = Blake!Ones
  <2>1. IsState(L) /\ L.f[1] = Blake!Ones
    BY DEF Blake!SetLastBlock, IsState
  <2> HIDE DEF L
  <2>2. c = [L EXCEPT !.t = Blake!Advanced(L.t, inc)]
    BY Zenon DEF Blake!IncrementCounter
  <2>3. end = [c EXCEPT !.h = Compress(L.h, c.t, c.f, block)]
    BY Zenon DEF Blake!Compressed
  <2> HIDE DEF end, c, inc
  <2>4. IsState(c) /\ c.f = L.f
    BY <2>1, <2>2 DEF IsState
  <2>5. IsState(end) /\ end.f = L.f
    BY <2>3, <2>4 DEF IsState
  <2>6. R.f = L.f
    BY <2>5 DEF IsState
  <2> QED BY <2>1, <2>6
<1> HIDE DEF R
<1>5. Blake!Reused(R)
  BY <1>4, OnesAreNotZero DEF Blake!Reused
<1>6. ASSUME NEW in, in # <<>> PROVE Blake!Update(R, in) = [ok |-> FALSE, S |-> R]
  BY <1>5, <1>6, Zenon DEF Blake!Update
<1>7. ASSUME NEW more PROVE ~Blake!Final(R, more).ok /\ Blake!Final(R, more).S = R
  <2>1. Blake!Final(R, more) = [ok |-> FALSE, S |-> R, out |-> <<>>]
    BY <1>5, Zenon DEF Blake!Final
  <2>2. ~[ok |-> FALSE, S |-> R, out |-> <<>>].ok /\ [ok |-> FALSE, S |-> R, out |-> <<>>].S = R
    OBVIOUS
  <2> QED BY <2>1, <2>2, Zenon
<1> QED
  BY <1>3, <1>5, <1>6, <1>7

-----------------------------------------------------------------------------
\* Chaining and padding (aes.cpp), over every block cipher.

\* The blocks over a set of bytes.
BlocksOver(B) == {s \in Seq(B) : Len(s) = AES_BLOCKSIZE}

\* What the modes of operation ask of a cipher, and of mixing, over the bytes B: a block is
\* encrypted to a block and comes back, mixing twice undoes itself, and B can say how long a
\* padding is.
BlockCipher(B) ==
  /\ AES_BLOCKSIZE \in Nat \ {0}
  /\ 1 .. AES_BLOCKSIZE \subseteq B
  /\ \A x, y \in B : MixByte(x, y) \in B /\ MixByte(MixByte(x, y), x) = y
  /\ \A b \in BlocksOver(B) : Encrypt(b) \in BlocksOver(B) /\ Decrypt(Encrypt(b)) = b

\* Quotient and remainder.
LEMMA Division ==
  ASSUME NEW x \in Nat, NEW n \in Nat \ {0}
  PROVE  /\ x \div n \in Nat /\ x % n \in Nat /\ x % n < n
         /\ x = n * (x \div n) + (x % n)
BY SMT

\* Multiples of n grow with their factor.
LEMMA Multiples ==
  ASSUME NEW n \in Nat, NEW k \in Nat
  PROVE  /\ n * k \in Nat /\ n * (k + 1) = n * k + n
         /\ \A m \in Nat : k <= m => n * k <= n * m
BY SMT
\* A multiple of n divided by n.
LEMMA Exact ==
  ASSUME NEW n \in Nat \ {0}, NEW k \in Nat
  PROVE  (n * k) \div n = k /\ (n * k) % n = 0
BY SMT

\* A stretch of a sequence, byte by byte.
LEMMA Stretch ==
  ASSUME NEW B, NEW s \in Seq(B), NEW m \in Nat, NEW n \in Nat, m + n <= Len(s)
  PROVE  /\ SubSeq(s, m + 1, m + n) \in Seq(B)
         /\ Len(SubSeq(s, m + 1, m + n)) = n
         /\ \A i \in 1 .. n : SubSeq(s, m + 1, m + n)[i] = s[m + i]
<1> DEFINE x == SubSeq(s, m + 1, m + n)
<1>1. \A i \in m + 1 .. m + n : s[i] \in B
  OBVIOUS
<1>2. /\ x \in Seq(B)
      /\ Len(x) = IF m + 1 <= m + n THEN m + n - (m + 1) + 1 ELSE 0
      /\ \A i \in 1 .. m + n - (m + 1) + 1 : x[i] = s[m + 1 + i - 1]
  BY <1>1, SubSeqProperties
<1> HIDE DEF x
<1>3. Len(x) = n /\ \A i \in 1 .. n : x[i] = s[m + i]
  BY <1>2
<1> QED
  BY <1>2, <1>3 DEF x

\* Block k + 1 of a sequence that is long enough.
LEMMA BlockIsBlock ==
  ASSUME NEW B, BlockCipher(B), NEW s \in Seq(B), NEW k \in Nat, AES_BLOCKSIZE * (k + 1) <= Len(s)
  PROVE  /\ Block(s, k + 1) \in BlocksOver(B)
         /\ \A i \in 1 .. AES_BLOCKSIZE : Block(s, k + 1)[i] = s[AES_BLOCKSIZE * k + i]
<1> DEFINE n == AES_BLOCKSIZE
           m == n * k
<1>1. n \in Nat /\ m \in Nat /\ n * (k + 1) = m + n /\ k + 1 - 1 = k
  BY Multiples DEF BlockCipher
<1>2. Block(s, k + 1) = SubSeq(s, m + 1, m + n)
  BY <1>1 DEF Block
<1> HIDE DEF m
<1>3. m + n <= Len(s)
  BY <1>1
<1>4. /\ SubSeq(s, m + 1, m + n) \in Seq(B)
      /\ Len(SubSeq(s, m + 1, m + n)) = n
      /\ \A i \in 1 .. n : SubSeq(s, m + 1, m + n)[i] = s[m + i]
  BY <1>1, <1>3, Stretch
<1> QED
  BY <1>2, <1>4 DEF BlocksOver, m

\* Mixing two blocks gives a block.
LEMMA MixedIsBlock ==
  ASSUME NEW B, BlockCipher(B), NEW a \in BlocksOver(B), NEW b \in BlocksOver(B)
  PROVE  /\ Mixed(a, b) \in BlocksOver(B)
         /\ \A i \in 1 .. AES_BLOCKSIZE : Mixed(a, b)[i] = MixByte(a[i], b[i])
<1> DEFINE n == AES_BLOCKSIZE
           f == [i \in 1 .. n |-> MixByte(a[i], b[i])]
<1>1. n \in Nat /\ \A x, y \in B : MixByte(x, y) \in B
  BY DEF BlockCipher
<1>2. \A i \in 1 .. n : a[i] \in B /\ b[i] \in B
  BY <1>1 DEF BlocksOver
<1>3. f \in [1 .. n -> B]
  BY <1>1, <1>2
<1>4. \A i \in 1 .. n : f[i] = MixByte(a[i], b[i])
  OBVIOUS
<1>5. Mixed(a, b) = f \o <<>>
  BY DEF Mixed
<1> HIDE DEF f
<1>6. f \in Seq(B) /\ Len(f) = n
  <2>1. f \in Seq(B)
    BY <1>1, <1>3, SeqDef
  <2> QED BY <1>1, <1>3, <2>1, LenProperties
<1>7. f \o <<>> = f
  BY <1>6, ConcatEmptySeq
<1> QED
  BY <1>4, <1>5, <1>6, <1>7 DEF BlocksOver

\* Mixing in the same block twice undoes itself.
LEMMA Unmixed ==
  ASSUME NEW B, BlockCipher(B), NEW a \in BlocksOver(B), NEW b \in BlocksOver(B)
  PROVE  Mixed(Mixed(a, b), a) = b
<1> DEFINE n == AES_BLOCKSIZE
           c == Mixed(a, b)
           d == Mixed(c, a)
<1>1. c \in BlocksOver(B) /\ \A i \in 1 .. n : c[i] = MixByte(a[i], b[i])
  BY MixedIsBlock
<1> HIDE DEF c
<1>2. d \in BlocksOver(B) /\ \A i \in 1 .. n : d[i] = MixByte(c[i], a[i])
  BY <1>1, MixedIsBlock
<1> HIDE DEF d
<1>3. n \in Nat /\ \A x, y \in B : MixByte(MixByte(x, y), x) = y
  BY DEF BlockCipher
<1>4. ASSUME NEW i \in 1 .. n PROVE d[i] = b[i]
  <2>1. a[i] \in B /\ b[i] \in B
    BY <1>3 DEF BlocksOver
  <2> QED BY <1>1, <1>2, <1>3, <2>1
<1>5. d = b
  BY <1>2, <1>3, <1>4, SeqEqual DEF BlocksOver
<1> QED
  BY <1>5 DEF c, d

\* One block more: the blocks before stay, and the last one is the new one.
LEMMA AddedBlock ==
  ASSUME NEW B, BlockCipher(B), NEW k \in Nat, NEW s \in Seq(B), Len(s) = AES_BLOCKSIZE * k,
         NEW e \in BlocksOver(B)
  PROVE  /\ s \o e \in Seq(B) /\ Len(s \o e) = AES_BLOCKSIZE * (k + 1)
         /\ \A j \in Nat : j < k => Block(s \o e, j + 1) = Block(s, j + 1)
         /\ Block(s \o e, k + 1) = e
<1> DEFINE n == AES_BLOCKSIZE
           t == s \o e
<1>1. n \in Nat /\ n * k \in Nat /\ n * (k + 1) = n * k + n
  BY Multiples DEF BlockCipher
<1>2. e \in Seq(B) /\ Len(e) = n
  BY DEF BlocksOver
<1>3. /\ t \in Seq(B) /\ Len(t) = Len(s) + Len(e)
      /\ \A i \in 1 .. Len(s) + Len(e) : t[i] = IF i <= Len(s) THEN s[i] ELSE e[i - Len(s)]
  BY <1>2, ConcatProperties
<1> HIDE DEF t
<1>4. Len(t) = n * (k + 1)
  BY <1>1, <1>2, <1>3
<1>5. ASSUME NEW j \in Nat, j < k PROVE Block(t, j + 1) = Block(s, j + 1)
  <2>1. n * (j + 1) = n * j + n /\ n * j \in Nat /\ n * (j + 1) <= n * k
    BY <1>1, <1>5, Multiples
  <2>2. n * (j + 1) <= Len(s) /\ n * (j + 1) <= Len(t)
    BY <1>1, <1>4, <2>1
  <2>3. /\ Block(s, j + 1) \in BlocksOver(B)
        /\ \A i \in 1 .. n : Block(s, j + 1)[i] = s[n * j + i]
    BY <2>2, BlockIsBlock
  <2>4. /\ Block(t, j + 1) \in BlocksOver(B)
        /\ \A i \in 1 .. n : Block(t, j + 1)[i] = t[n * j + i]
    BY <1>3, <2>2, BlockIsBlock
  <2>5. ASSUME NEW i \in 1 .. n PROVE Block(t, j + 1)[i] = Block(s, j + 1)[i]
    <3>1. n * j + i \in 1 .. Len(s)
      BY <1>1, <2>1, <2>2
    <3>2. t[n * j + i] = s[n * j + i]
      BY <1>1, <1>2, <1>3, <3>1
    <3> QED BY <2>3, <2>4, <3>2
  <2> QED BY <1>1, <2>3, <2>4, <2>5, SeqEqual DEF BlocksOver
<1>6. Block(t, k + 1) = e
  <2>1. /\ Block(t, k + 1) \in BlocksOver(B)
        /\ \A i \in 1 .. n : Block(t, k + 1)[i] = t[n * k + i]
    BY <1>3, <1>4, BlockIsBlock
  <2>2. ASSUME NEW i \in 1 .. n PROVE Block(t, k + 1)[i] = e[i]
    <3> DEFINE j == n * k + i
    <3>1. j \in 1 .. Len(s) + Len(e) /\ ~(j <= Len(s)) /\ j - Len(s) = i
      BY <1>1, <1>2
    <3>2. Block(t, k + 1)[i] = t[j]
      BY <2>1
    <3> HIDE DEF j
    <3>3. t[j] = e[j - Len(s)]
      BY <1>3, <3>1
    <3> QED BY <3>1, <3>2, <3>3
  <2> QED BY <1>1, <1>2, <2>1, <2>2, SeqEqual DEF BlocksOver
<1> QED
  BY <1>3, <1>4, <1>5, <1>6 DEF t

\* s is the vector and, after it, each block of the data mixed into the one before and encrypted,
\* k of them: what the loop of CBCEncrypt has written.
IsSealed(B, s, iv, data, k) ==
  /\ s \in Seq(B) /\ Len(s) = AES_BLOCKSIZE * (k + 1)
  /\ Block(s, 0 + 1) = iv
  /\ \A j \in Nat :
       j < k => Block(s, j + 1 + 1) = Encrypt(Mixed(Block(s, j + 1), Block(data, j + 1)))

\* Before the first turn only the vector is written ...
LEMMA SealedStart ==
  ASSUME NEW B, BlockCipher(B), NEW iv \in BlocksOver(B), NEW data
  PROVE  IsSealed(B, iv, iv, data, 0)
<1> DEFINE n == AES_BLOCKSIZE
<1>1. n \in Nat /\ n * 0 = 0 /\ n * (0 + 1) = n
  BY DEF BlockCipher
<1>2. <<>> \in Seq(B) /\ Len(<<>>) = n * 0
  BY <1>1
<1>3. ASSUME NEW none, none = <<>>, NEW k \in Nat, k = 0 PROVE Block(none \o iv, k + 1) = iv
  <2>1. none \in Seq(B) /\ Len(none) = n * k
    BY <1>2, <1>3
  <2> QED BY <2>1, AddedBlock
<1>4. <<>> \o iv = iv /\ iv \in Seq(B) /\ Len(iv) = n
  BY ConcatEmptySeq DEF BlocksOver
<1>5. Block(iv, 0 + 1) = iv
  BY <1>3, <1>4, Zenon
<1> QED
  BY <1>1, <1>4, <1>5 DEF IsSealed

\* ... and each turn seals one block more.
LEMMA SealedNext ==
  ASSUME NEW B, BlockCipher(B), NEW s, NEW iv, NEW data, NEW k \in Nat, IsSealed(B, s, iv, data, k),
         Block(data, k + 1) \in BlocksOver(B)
  PROVE  IsSealed(B, s \o Encrypt(Mixed(Block(s, k + 1), Block(data, k + 1))), iv, data, k + 1)
<1> DEFINE n == AES_BLOCKSIZE
           e == Encrypt(Mixed(Block(s, k + 1), Block(data, k + 1)))
           t == s \o e
<1>1. s \in Seq(B) /\ Len(s) = n * (k + 1) /\ k + 1 \in Nat
  BY DEF IsSealed
<1>2. Block(s, k + 1) \in BlocksOver(B)
  <2>1. n * (k + 1) <= Len(s)
    <3>1. n * (k + 1) \in Nat
      BY <1>1, Multiples DEF BlockCipher
    <3> QED BY <1>1, <3>1
  <2> QED BY <1>1, <2>1, BlockIsBlock
<1>3. e \in BlocksOver(B)
  BY <1>2, MixedIsBlock DEF BlockCipher
<1> HIDE DEF e
<1>4. /\ t \in Seq(B) /\ Len(t) = n * (k + 1 + 1)
      /\ \A j \in Nat : j < k + 1 => Block(t, j + 1) = Block(s, j + 1)
      /\ Block(t, k + 1 + 1) = e
  BY <1>1, <1>3, AddedBlock
<1> HIDE DEF t
<1>5. ASSUME NEW j \in Nat, j < k + 1
      PROVE  Block(t, j + 1 + 1) = Encrypt(Mixed(Block(t, j + 1), Block(data, j + 1)))
  <2>0. Block(t, j + 1) = Block(s, j + 1)
    BY <1>4, <1>5
  <2>1. CASE j = k
    BY <1>4, <2>0, <2>1 DEF e
  <2>2. CASE j < k
    <3>1. Block(t, j + 1 + 1) = Block(s, j + 1 + 1)
      <4>1. j + 1 \in Nat /\ j + 1 < k + 1
        BY <2>2
      <4> QED BY <1>4, <4>1
    <3> QED BY <2>0, <2>2, <3>1 DEF IsSealed
  <2> QED BY <1>5, <2>1, <2>2
<1>6. Block(t, 0 + 1) = iv
  BY <1>4 DEF IsSealed
<1> QED
  BY <1>4, <1>5, <1>6 DEF IsSealed, t, e

\* Only the blocks of the data count.
LEMMA SealedSameBlocks ==
  ASSUME NEW B, NEW s, NEW iv, NEW data, NEW full, NEW k \in Nat, IsSealed(B, s, iv, data, k),
         \A j \in Nat : j < k => Block(full, j + 1) = Block(data, j + 1)
  PROVE  IsSealed(B, s, iv, full, k)
BY DEF IsSealed

\* One turn of the loop of CBCEncrypt.
Turn(s, data, k) == s \o Encrypt(Mixed(Block(s, k), Block(data, k)))

\* The equation of Chained, for m blocks ...
IsChained(c, iv, data, m) ==
  c = [k \in 0 .. m |-> IF k = 0 THEN iv
                        ELSE Turn(c[k - 1], data, k)]

\* ... has a solution ...
LEMMA ChainedExists ==
  ASSUME NEW iv, NEW data, NEW m \in Nat
  PROVE  \E c : IsChained(c, iv, data, m)
<1> DEFINE G(c, k) == IF k = 0 THEN iv ELSE Turn(c[k - 1], data, k)
           H == {i \in Nat : \E c : c = [k \in 0 .. i |-> G(c, k)]}
<1>1. 0 \in H
  <2> DEFINE c == [k \in 0 .. 0 |-> iv]
  <2> c = [k \in 0 .. 0 |-> G(c, k)]
    OBVIOUS
  <2> QED OBVIOUS
<1>2. ASSUME NEW i \in H PROVE i + 1 \in H
  <2>1. PICK c : c = [k \in 0 .. i |-> G(c, k)]
    OBVIOUS
  <2> DEFINE t == [k \in 0 .. i + 1 |-> IF k <= i THEN c[k] ELSE G(c, k)]
  <2>2. \A k \in 0 .. i + 1 : t[k] = G(t, k)
    <3> SUFFICES ASSUME NEW k \in 0 .. i + 1 PROVE t[k] = G(t, k)
      OBVIOUS
    <3>1. t[k] = G(c, k)
      BY <2>1
    <3>2. CASE k = 0
      BY <3>1, <3>2
    <3>3. CASE k # 0
      <4>1. k - 1 \in 0 .. i + 1 /\ k - 1 <= i
        BY <3>3
      <4>2. t[k - 1] = c[k - 1]
        BY <4>1
      <4> QED BY <3>1, <3>3, <4>2
    <3> QED BY <3>2, <3>3
  <2>3. t = [k \in 0 .. i + 1 |-> G(t, k)]
    BY <2>2
  <2> HIDE DEF t
  <2> QED BY <2>3
<1> HIDE DEF H
<1>3. H = Nat
  BY <1>1, <1>2, Induction DEF H
<1> QED
  BY <1>3 DEF H, IsChained

\* ... and Chained is that solution.
LEMMA ChainedSteps ==
  ASSUME NEW B, BlockCipher(B), NEW iv, NEW data \in Seq(B)
  PROVE  /\ Blocks(data) \in Nat
         /\ Chained(iv, data)[0] = iv
         /\ \A k \in 1 .. Blocks(data) :
              Chained(iv, data)[k] = Turn(Chained(iv, data)[k - 1], data, k)
<1> DEFINE m == Blocks(data)
           c == Chained(iv, data)
<1>1. m \in Nat
  BY Division DEF Blocks, BlockCipher
<1>2. \E s : IsChained(s, iv, data, Blocks(data))
  BY <1>1, ChainedExists
<1>3. c = CHOOSE s : IsChained(s, iv, data, Blocks(data))
  BY Zenon DEF Chained, IsChained, Turn
<1>4. IsChained(c, iv, data, Blocks(data))
  BY <1>2, <1>3, Zenon
<1> HIDE DEF c, m
<1>5. c = [k \in 0 .. m |-> IF k = 0 THEN iv ELSE Turn(c[k - 1], data, k)]
  BY <1>4 DEF IsChained, m
<1>6. c[0] = iv /\ \A k \in 1 .. m : c[k] = Turn(c[k - 1], data, k)
  BY <1>1, <1>5
<1> QED
  BY <1>1, <1>6 DEF c, m

\* The loop of CBCEncrypt seals all the whole blocks.
LEMMA ChainSeals ==
  ASSUME NEW B, BlockCipher(B), NEW iv \in BlocksOver(B), NEW data \in Seq(B)
  PROVE  IsSealed(B, Chained(iv, data)[Blocks(data)], iv, data, Blocks(data))
<1> DEFINE n == AES_BLOCKSIZE
           m == Blocks(data)
           c == Chained(iv, data)
           H == {k \in Nat : k <= m => IsSealed(B, c[k], iv, data, k)}
<1>1. /\ m \in Nat /\ c[0] = iv
      /\ \A k \in 1 .. m : c[k] = Turn(c[k - 1], data, k)
  BY ChainedSteps
<1>2. n \in Nat \ {0} /\ n * m <= Len(data)
  <2>1. n \in Nat \ {0}
    BY DEF BlockCipher
  <2> QED BY <2>1, Division DEF Blocks
<1> HIDE DEF m, c
<1>3. 0 \in H
  BY <1>1, SealedStart
<1>4. ASSUME NEW k \in H PROVE k + 1 \in H
  <2> SUFFICES ASSUME k + 1 <= m PROVE IsSealed(B, c[k + 1], iv, data, k + 1)
    OBVIOUS
  <2>1. k \in Nat /\ IsSealed(B, c[k], iv, data, k)
    BY <1>1
  <2>2. c[k + 1] = Turn(c[k], data, k + 1)
    <3>1. k + 1 \in 1 .. m /\ k + 1 - 1 = k
      BY <1>1, <2>1
    <3> QED BY <1>1, <3>1
  <2>3. n * (k + 1) <= Len(data)
    <3>1. n * (k + 1) \in Nat /\ n * (k + 1) <= n * m /\ n * m \in Nat
      <4>1. k + 1 \in Nat /\ k + 1 <= m /\ m \in Nat /\ n \in Nat
        BY <1>1, <1>2, <2>1
      <4> HIDE DEF n
      <4> QED BY <4>1, Multiples
    <3> HIDE DEF n
    <3> QED BY <1>2, <3>1
  <2>4. Block(data, k + 1) \in BlocksOver(B)
    BY <2>1, <2>3, BlockIsBlock
  <2>5. IsSealed(B, Turn(c[k], data, k + 1), iv, data, k + 1)
    BY <2>1, <2>4, SealedNext DEF Turn
  <2> QED BY <2>2, <2>5
<1> HIDE DEF H
<1>5. H = Nat
  BY <1>3, <1>4, Induction DEF H
<1> QED
  BY <1>1, <1>5 DEF H, m, c

\* One turn of the loop of CBCDecrypt.
Back(s, iv, data, k) == s \o Mixed(Decrypt(Block(data, k)), Block(iv \o data, k))

\* The equation of Unchain, for m blocks ...
IsUnchain(c, iv, data, m) ==
  c = [k \in 0 .. m |-> IF k = 0 THEN <<>> ELSE Back(c[k - 1], iv, data, k)]

\* ... has a solution ...
LEMMA UnchainExists ==
  ASSUME NEW iv, NEW data, NEW m \in Nat
  PROVE  \E c : IsUnchain(c, iv, data, m)
<1> DEFINE G(c, k) == IF k = 0 THEN <<>> ELSE Back(c[k - 1], iv, data, k)
           H == {i \in Nat : \E c : c = [k \in 0 .. i |-> G(c, k)]}
<1>1. 0 \in H
  <2> DEFINE c == [k \in 0 .. 0 |-> <<>>]
  <2> c = [k \in 0 .. 0 |-> G(c, k)]
    OBVIOUS
  <2> QED OBVIOUS
<1>2. ASSUME NEW i \in H PROVE i + 1 \in H
  <2>1. PICK c : c = [k \in 0 .. i |-> G(c, k)]
    OBVIOUS
  <2> DEFINE t == [k \in 0 .. i + 1 |-> IF k <= i THEN c[k] ELSE G(c, k)]
  <2>2. \A k \in 0 .. i + 1 : t[k] = G(t, k)
    <3> SUFFICES ASSUME NEW k \in 0 .. i + 1 PROVE t[k] = G(t, k)
      OBVIOUS
    <3>1. t[k] = G(c, k)
      BY <2>1
    <3>2. CASE k = 0
      BY <3>1, <3>2
    <3>3. CASE k # 0
      <4>1. k - 1 \in 0 .. i + 1 /\ k - 1 <= i
        BY <3>3
      <4>2. t[k - 1] = c[k - 1]
        BY <4>1
      <4> QED BY <3>1, <3>3, <4>2
    <3> QED BY <3>2, <3>3
  <2>3. t = [k \in 0 .. i + 1 |-> G(t, k)]
    BY <2>2
  <2> HIDE DEF t
  <2>4. \E x : x = [k \in 0 .. i + 1 |-> G(x, k)]
    BY <2>3, Zenon
  <2>5. i + 1 \in Nat
    OBVIOUS
  <2> QED BY <2>4, <2>5, Zenon
<1> HIDE DEF H
<1>3. H = Nat
  BY <1>1, <1>2, Induction DEF H
<1> QED
  BY <1>3 DEF H, IsUnchain

\* ... and Unchain is that solution.
LEMMA UnchainSteps ==
  ASSUME NEW iv, NEW data, Blocks(data) \in Nat
  PROVE  /\ Unchain(iv, data)[0] = <<>>
         /\ \A k \in 1 .. Blocks(data) :
              Unchain(iv, data)[k] = Back(Unchain(iv, data)[k - 1], iv, data, k)
<1> DEFINE m == Blocks(data)
           c == Unchain(iv, data)
<1>1. \E s : IsUnchain(s, iv, data, Blocks(data))
  BY UnchainExists
<1>2. c = CHOOSE s : IsUnchain(s, iv, data, Blocks(data))
  BY Zenon DEF Unchain, IsUnchain, Back
<1>3. IsUnchain(c, iv, data, Blocks(data))
  BY <1>1, <1>2, Zenon
<1>4. m \in Nat
  OBVIOUS
<1> HIDE DEF c, m
<1>5. c = [k \in 0 .. m |-> IF k = 0 THEN <<>> ELSE Back(c[k - 1], iv, data, k)]
  BY <1>3 DEF IsUnchain, m
<1>6. c[0] = <<>> /\ \A k \in 1 .. m : c[k] = Back(c[k - 1], iv, data, k)
  BY <1>4, <1>5
<1> QED
  BY <1>6 DEF c, m

\* What is written is the sealed blocks without the vector; put behind the vector again, it is
\* those blocks.
Written(s) == SubSeq(s, AES_BLOCKSIZE + 1, Len(s))

\* The blocks that are written, each one place further on behind the vector.
LEMMA WrittenBlocks ==
  ASSUME NEW B, BlockCipher(B), NEW s, NEW iv \in BlocksOver(B), NEW data, NEW k \in Nat,
         IsSealed(B, s, iv, data, k)
  PROVE  /\ Written(s) \in Seq(B) /\ Len(Written(s)) = AES_BLOCKSIZE * k
         /\ iv \o Written(s) = s
         /\ \A j \in Nat : j < k => Block(Written(s), j + 1) = Block(s, j + 1 + 1)
<1> DEFINE n == AES_BLOCKSIZE
           w == Written(s)
           r == n * k
<1>1. n \in Nat /\ r \in Nat /\ n * (k + 1) = n + r
  BY Multiples DEF BlockCipher
<1>2. s \in Seq(B) /\ Len(s) = n + r /\ Block(s, 0 + 1) = iv
  BY <1>1 DEF IsSealed
<1>3. w \in Seq(B) /\ Len(w) = r /\ \A i \in 1 .. r : w[i] = s[n + i]
  <2>1. w = SubSeq(s, n + 1, n + r)
    BY <1>2 DEF Written
  <2> HIDE DEF w, n, r
  <2> QED BY <1>1, <1>2, <2>1, Stretch
<1>4. iv \in Seq(B) /\ Len(iv) = n /\ \A i \in 1 .. n : iv[i] = s[i]
  <2>1. n * (0 + 1) <= Len(s) /\ n * 0 = 0
    BY <1>1, <1>2
  <2>2. \A i \in 1 .. n : Block(s, 0 + 1)[i] = s[n * 0 + i]
    <3>1. ASSUME NEW z \in Nat, z = 0 PROVE \A i \in 1 .. n : Block(s, z + 1)[i] = s[n * z + i]
      <4>1. n * (z + 1) <= Len(s)
        BY <2>1, <3>1
      <4> QED BY <1>2, <4>1, BlockIsBlock
    <3> QED BY <3>1
  <2> QED BY <1>1, <1>2, <2>1, <2>2 DEF BlocksOver
<1> HIDE DEF w
<1>5. iv \o w = s
  <2>1. /\ iv \o w \in Seq(B) /\ Len(iv \o w) = Len(iv) + Len(w)
        /\ \A i \in 1 .. Len(iv) + Len(w) :
             (iv \o w)[i] = IF i <= Len(iv) THEN iv[i] ELSE w[i - Len(iv)]
    BY <1>3, <1>4, ConcatProperties
  <2> DEFINE u == iv \o w
  <2> HIDE DEF u, r
  <2>2. u \in Seq(B) /\ Len(u) = Len(s)
    BY <1>1, <1>2, <1>3, <1>4, <2>1 DEF u
  <2>3. ASSUME NEW i \in 1 .. Len(u) PROVE u[i] = s[i]
    <3>1. CASE i <= n
      BY <1>1, <1>2, <1>3, <1>4, <2>1, <2>2, <3>1 DEF u
    <3>2. CASE i > n
      <4>1. i - n \in 1 .. r /\ n + (i - n) = i
        BY <1>1, <1>2, <2>2, <3>2
      <4>2. u[i] = w[i - n]
        BY <1>1, <1>2, <1>3, <1>4, <2>1, <2>2, <3>2 DEF u
      <4> QED BY <1>3, <4>1, <4>2
    <3> QED BY <1>1, <1>2, <2>2, <3>1, <3>2
  <2> QED BY <1>2, <2>2, <2>3, SeqEqual DEF u
<1>6. ASSUME NEW j \in Nat, j < k PROVE Block(w, j + 1) = Block(s, j + 1 + 1)
  <2>1. n * (j + 1) \in Nat /\ n * j \in Nat /\ n * (j + 1) = n * j + n /\ n * (j + 1) <= r
        /\ n * (j + 1 + 1) = n * (j + 1) + n
    <3>1. j + 1 \in Nat /\ j + 1 <= k
      BY <1>6
    <3> HIDE DEF n
    <3> QED BY <1>1, <3>1, Multiples DEF r
  <2> HIDE DEF r
  <2>2. n * (j + 1) <= Len(w) /\ n * (j + 1 + 1) <= Len(s)
    BY <1>1, <1>2, <1>3, <2>1
  <2>3. Block(w, j + 1) \in BlocksOver(B) /\ \A i \in 1 .. n : Block(w, j + 1)[i] = w[n * j + i]
    BY <1>3, <2>2, BlockIsBlock
  <2>4. /\ Block(s, j + 1 + 1) \in BlocksOver(B)
        /\ \A i \in 1 .. n : Block(s, j + 1 + 1)[i] = s[n * (j + 1) + i]
    <3>1. j + 1 \in Nat
      OBVIOUS
    <3> QED BY <1>2, <2>2, <3>1, BlockIsBlock
  <2>5. ASSUME NEW i \in 1 .. n PROVE Block(w, j + 1)[i] = Block(s, j + 1 + 1)[i]
    <3>1. n * j + i \in 1 .. r /\ n + (n * j + i) = n * (j + 1) + i
      BY <1>1, <2>1
    <3>2. w[n * j + i] = s[n + (n * j + i)]
      BY <1>3, <3>1
    <3> QED BY <2>3, <2>4, <3>1, <3>2
  <2> QED BY <1>1, <2>3, <2>4, <2>5, SeqEqual DEF BlocksOver
<1> QED
  BY <1>3, <1>5, <1>6 DEF w

\* The loop of CBCDecrypt opens what the blocks of a text were sealed into.
LEMMA UnchainOpens ==
  ASSUME NEW B, BlockCipher(B), NEW s, NEW iv \in BlocksOver(B), NEW full \in Seq(B), NEW m \in Nat,
         Len(full) = AES_BLOCKSIZE * m, IsSealed(B, s, iv, full, m)
  PROVE  Blocks(Written(s)) = m /\ Unchain(iv, Written(s))[m] = full
<1> DEFINE n == AES_BLOCKSIZE
           w == Written(s)
           c == Unchain(iv, w)
           H == {k \in Nat : k <= m => c[k] = SubSeq(full, 1, n * k)}
<1>1. /\ Len(w) = n * m /\ iv \o w = s
      /\ \A j \in Nat : j < m => Block(w, j + 1) = Block(s, j + 1 + 1)
  BY WrittenBlocks
<1>2. n \in Nat \ {0}
  BY DEF BlockCipher
<1>3. Blocks(w) = m
  BY <1>1, <1>2, Exact DEF Blocks
<1> HIDE DEF w
<1>4. c[0] = <<>> /\ \A k \in 1 .. m : c[k] = Back(c[k - 1], iv, w, k)
  BY <1>3, UnchainSteps
<1> HIDE DEF c
<1>5. ASSUME NEW j \in Nat, j < m
      PROVE  Back(SubSeq(full, 1, n * j), iv, w, j + 1) = SubSeq(full, 1, n * (j + 1))
  <2>1. n * j \in Nat /\ n * (j + 1) = n * j + n /\ n * (j + 1) <= n * m /\ n * (j + 1) \in Nat
    <3>1. j + 1 \in Nat /\ j + 1 <= m
      BY <1>5
    <3> HIDE DEF n
    <3> QED BY <1>2, <3>1, Multiples
  <2>2. Block(full, j + 1) \in BlocksOver(B)
    BY <2>1, BlockIsBlock
  <2>3. Block(s, j + 1) \in BlocksOver(B)
    <3>1. s \in Seq(B) /\ Len(s) = n * (m + 1)
      BY DEF IsSealed
    <3>2. n * (m + 1) = n * m + n /\ n * m \in Nat
      BY <1>2, Multiples
    <3>3. n * (j + 1) <= Len(s)
      BY <1>2, <2>1, <3>1, <3>2
    <3> QED BY <3>1, <3>3, BlockIsBlock
  <2> DEFINE p == Block(s, j + 1)
             x == Block(full, j + 1)
  <2>4. Block(w, j + 1) = Encrypt(Mixed(p, x))
    BY <1>1, <1>5 DEF IsSealed
  <2> HIDE DEF p, x
  <2>5. Mixed(Decrypt(Block(w, j + 1)), p) = x
    <3>1. Mixed(p, x) \in BlocksOver(B)
      BY <2>2, <2>3, MixedIsBlock DEF p, x
    <3>2. Decrypt(Encrypt(Mixed(p, x))) = Mixed(p, x)
      BY <3>1 DEF BlockCipher
    <3>3. Mixed(Mixed(p, x), p) = x
      BY <2>2, <2>3, Unmixed DEF p, x
    <3> QED BY <2>4, <3>2, <3>3
  <2>6. Back(SubSeq(full, 1, n * j), iv, w, j + 1) = SubSeq(full, 1, n * j) \o x
    BY <1>1, <2>5 DEF Back, p
  <2>7. x = SubSeq(full, n * j + 1, n * (j + 1))
    <3>1. x = SubSeq(full, n * ((j + 1) - 1) + 1, n * (j + 1))
      BY Zenon DEF x, Block
    <3>2. (j + 1) - 1 = j
      OBVIOUS
    <3> QED BY <3>1, <3>2, Zenon
  <2> DEFINE lo == n * j
             hi == n * (j + 1)
  <2>8. lo \in 1 - 1 .. Len(full) /\ hi \in lo .. Len(full) /\ 1 \in 1 .. Len(full) + 1
    BY <1>2, <2>1
  <2>9. SubSeq(full, 1, lo) \o SubSeq(full, lo + 1, hi) = SubSeq(full, 1, hi)
    <3> HIDE DEF lo, hi
    <3> QED BY <2>8, ConcatAdjacentSubSeq
  <2> QED BY <2>6, <2>7, <2>9
<1>6. 0 \in H
  <2>1. n * 0 = 0
    BY <1>2
  <2>2. SubSeq(full, 1, 0) = <<>>
    BY SubSeqEmpty
  <2> QED BY <1>4, <2>1, <2>2
<1>7. ASSUME NEW k \in H PROVE k + 1 \in H
  <2> SUFFICES ASSUME k + 1 <= m PROVE c[k + 1] = SubSeq(full, 1, n * (k + 1))
    OBVIOUS
  <2>1. k \in Nat /\ k < m /\ c[k] = SubSeq(full, 1, n * k)
    OBVIOUS
  <2>2. c[k + 1] = Back(c[k], iv, w, k + 1)
    <3>1. k + 1 \in 1 .. m /\ k + 1 - 1 = k
      BY <2>1
    <3> QED BY <1>4, <3>1
  <2> QED BY <1>5, <2>1, <2>2
<1> HIDE DEF H
<1>8. H = Nat
  BY <1>6, <1>7, Induction DEF H
<1>9. c[m] = SubSeq(full, 1, n * m)
  BY <1>8 DEF H
<1>10. SubSeq(full, 1, n * m) = full
  BY SubSeqFull
<1> QED
  BY <1>3, <1>9, <1>10 DEF c, w

\* Without padding, a text of whole blocks is sealed to what opens to it (CBCEncrypt and
\* CBCDecrypt with pad false).
THEOREM SealedOpens ==
  ASSUME NEW B, BlockCipher(B), NEW iv \in BlocksOver(B), NEW data \in Seq(B),
         Len(data) % AES_BLOCKSIZE = 0
  PROVE  CBCDecrypt(iv, CBCEncrypt(iv, data, FALSE), FALSE) = data
<1> DEFINE n == AES_BLOCKSIZE
           m == Blocks(data)
           s == Chained(iv, data)[m]
<1>1. n \in Nat \ {0} /\ m \in Nat /\ Len(data) = n * m
  <2>1. n \in Nat \ {0}
    BY DEF BlockCipher
  <2>2. Len(data) \in Nat
    OBVIOUS
  <2> QED BY <2>1, <2>2, Division DEF Blocks
<1>2. IsSealed(B, s, iv, data, m)
  BY ChainSeals
<1>3. CASE data = <<>>
  <2>1. CBCEncrypt(iv, data, FALSE) = <<>>
    BY <1>3 DEF CBCEncrypt
  <2> QED BY <1>3, <2>1 DEF CBCDecrypt
<1>4. CASE data # <<>>
  <2> DEFINE w == Written(s)
  <2>1. CBCEncrypt(iv, data, FALSE) = w
    BY <1>4 DEF CBCEncrypt, Written
  <2> HIDE DEF m, s
  <2>2. w \in Seq(B) /\ Len(w) = n * m
    BY <1>1, <1>2, WrittenBlocks
  <2>3. Blocks(w) = m /\ Unchain(iv, w)[m] = data
    BY <1>1, <1>2, UnchainOpens
  <2> HIDE DEF w
  <2>4. w # <<>> /\ Len(w) % n = 0
    <3>1. Len(data) # 0
      BY <1>4, EmptySeq
    <3>2. Len(w) # 0 /\ Len(<<>>) = 0
      BY <1>1, <2>2, <3>1
    <3>3. Len(w) % n = 0
      BY <1>1, <2>2, Exact
    <3> QED BY <3>2, <3>3
  <2>5. CBCDecrypt(iv, w, FALSE) = data
    BY <2>3, <2>4 DEF CBCDecrypt
  <2> QED BY <2>1, <2>5
<1> QED
  BY <1>3, <1>4

\* The last block of a padded text.
LastBlock(data) ==
  SubSeq(data, Len(data) - (Len(data) % AES_BLOCKSIZE) + 1, Len(data))
  \o [i \in 1 .. AES_BLOCKSIZE - (Len(data) % AES_BLOCKSIZE) |-> AES_BLOCKSIZE - (Len(data) % AES_BLOCKSIZE)]

\* p times the byte p.
LEMMA PaddingIsSeq ==
  ASSUME NEW B, NEW p \in Nat, p \in B
  PROVE  /\ [i \in 1 .. p |-> p] \in Seq(B) /\ Len([i \in 1 .. p |-> p]) = p
         /\ \A i \in 1 .. p : [j \in 1 .. p |-> p][i] = p
<1> DEFINE f == [i \in 1 .. p |-> p]
<1>1. f \in [1 .. p -> B] /\ \A i \in 1 .. p : f[i] = p
  OBVIOUS
<1> HIDE DEF f
<1>2. f \in Seq(B)
  BY <1>1, SeqDef
<1>3. Len(f) = p
  BY <1>1, <1>2, LenProperties
<1> QED
  BY <1>1, <1>2, <1>3 DEF f

\* What padding makes of a text: full is the text and p times p behind it.
IsPadded(B, full, data, p) ==
  /\ full \in Seq(B) /\ p \in 1 .. AES_BLOCKSIZE
  /\ Len(full) = AES_BLOCKSIZE * (Blocks(data) + 1) /\ Len(full) = Len(data) + p
  /\ \A i \in 1 .. Len(data) : full[i] = data[i]
  /\ \A i \in 1 .. p : full[Len(data) + i] = p

\* A text with its padding has the text's blocks and LastBlock behind them.
LEMMA PaddedText ==
  ASSUME NEW B, BlockCipher(B), NEW data \in Seq(B)
  PROVE  LET p    == AES_BLOCKSIZE - (Len(data) % AES_BLOCKSIZE)
             full == data \o [i \in 1 .. p |-> p]
         IN  /\ IsPadded(B, full, data, p)
             /\ \A j \in Nat : j < Blocks(data) => Block(full, j + 1) = Block(data, j + 1)
             /\ Block(full, Blocks(data) + 1) = LastBlock(data)
<1> DEFINE n    == AES_BLOCKSIZE
           m    == Blocks(data)
           r    == Len(data) % n
           p    == n - r
           pads == [i \in 1 .. p |-> p]
           full == data \o pads
           rest == SubSeq(data, n * m + 1, n * m + r)
<1>1. /\ n \in Nat \ {0} /\ m \in Nat /\ r \in Nat /\ r < n
      /\ Len(data) = n * m + r /\ n * m \in Nat /\ n * (m + 1) = n * m + n
  <2>1. n \in Nat \ {0}
    BY DEF BlockCipher
  <2>2. Len(data) \in Nat
    OBVIOUS
  <2>3. m \in Nat /\ r \in Nat /\ r < n /\ Len(data) = n * m + r
    BY <2>1, <2>2, Division DEF Blocks
  <2> HIDE DEF m, r
  <2> QED BY <2>1, <2>3, Multiples
<1>2. LastBlock(data) = rest \o pads
  <2>1. \A x, y \in Int : (x + y) - y + 1 = x + 1
    OBVIOUS
  <2>2. Len(data) - r + 1 = n * m + 1 /\ Len(data) = n * m + r
    <3> HIDE DEF m, r
    <3> QED BY <1>1, <2>1
  <2> QED BY <2>2 DEF LastBlock
<1> HIDE DEF m, r
<1>3. p \in 1 .. n /\ p \in B /\ p \in Nat
  BY <1>1 DEF BlockCipher
<1> HIDE DEF p
<1>4. pads \in Seq(B) /\ Len(pads) = p /\ \A i \in 1 .. p : pads[i] = p
  BY <1>3, PaddingIsSeq
<1> HIDE DEF pads
<1>5. /\ full \in Seq(B) /\ Len(full) = Len(data) + p
      /\ \A i \in 1 .. Len(data) + p : full[i] = IF i <= Len(data) THEN data[i] ELSE pads[i - Len(data)]
  BY <1>4, ConcatProperties
<1>6. rest \in Seq(B) /\ Len(rest) = r /\ \A i \in 1 .. r : rest[i] = data[n * m + i]
  <2> DEFINE q == n * m
  <2>1. q \in Nat /\ q + r <= Len(data)
    BY <1>1
  <2> HIDE DEF q
  <2>2. /\ SubSeq(data, q + 1, q + r) \in Seq(B) /\ Len(SubSeq(data, q + 1, q + r)) = r
        /\ \A i \in 1 .. r : SubSeq(data, q + 1, q + r)[i] = data[q + i]
    BY <1>1, <2>1, Stretch
  <2> QED BY <2>2 DEF q
<1> HIDE DEF full, rest
<1>7. IsPadded(B, full, data, p)
  <2>1. Len(full) = n * (m + 1) /\ Len(full) = Len(data) + p
    BY <1>1, <1>5 DEF p
  <2>2. \A i \in 1 .. Len(data) : full[i] = data[i]
    BY <1>3, <1>5
  <2>3. \A i \in 1 .. p : full[Len(data) + i] = p
    <3> TAKE i \in 1 .. p
    <3>1. Len(data) + i \in 1 .. Len(data) + p /\ ~(Len(data) + i <= Len(data))
          /\ Len(data) + i - Len(data) = i
      BY <1>1, <1>3
    <3>2. full[Len(data) + i] = pads[i]
      BY <1>5, <3>1
    <3> QED BY <1>4, <3>2
  <2> QED BY <1>3, <1>5, <2>1, <2>2, <2>3 DEF IsPadded, m
<1>8. ASSUME NEW j \in Nat, j < m PROVE Block(full, j + 1) = Block(data, j + 1)
  <2>1. n * (j + 1) \in Nat /\ n * j \in Nat /\ n * (j + 1) = n * j + n /\ n * (j + 1) <= n * m
    <3>1. j + 1 \in Nat /\ j + 1 <= m
      BY <1>1, <1>8
    <3> HIDE DEF n
    <3> QED BY <1>1, <3>1, Multiples
  <2>2. n * (j + 1) <= Len(data) /\ n * (j + 1) <= Len(full)
    BY <1>1, <1>3, <1>5, <2>1
  <2>3. /\ Block(data, j + 1) \in BlocksOver(B)
        /\ \A i \in 1 .. n : Block(data, j + 1)[i] = data[n * j + i]
    BY <2>2, BlockIsBlock
  <2>4. /\ Block(full, j + 1) \in BlocksOver(B)
        /\ \A i \in 1 .. n : Block(full, j + 1)[i] = full[n * j + i]
    BY <1>5, <2>2, BlockIsBlock
  <2>5. ASSUME NEW i \in 1 .. n PROVE Block(full, j + 1)[i] = Block(data, j + 1)[i]
    <3>1. n * j + i \in 1 .. Len(data)
      BY <1>1, <2>1, <2>2
    <3> QED BY <1>7, <2>3, <2>4, <3>1 DEF IsPadded
  <2> QED BY <1>1, <2>3, <2>4, <2>5, SeqEqual DEF BlocksOver
<1>9. Block(full, m + 1) = rest \o pads
  <2> DEFINE last == rest \o pads
  <2>1. /\ last \in Seq(B) /\ Len(last) = Len(rest) + Len(pads)
        /\ \A i \in 1 .. Len(rest) + Len(pads) :
             last[i] = IF i <= Len(rest) THEN rest[i] ELSE pads[i - Len(rest)]
    BY <1>4, <1>6, ConcatProperties
  <2> HIDE DEF last
  <2>2. Len(last) = n
    BY <1>1, <1>4, <1>6, <2>1 DEF p
  <2>3. /\ Block(full, m + 1) \in BlocksOver(B)
        /\ \A i \in 1 .. n : Block(full, m + 1)[i] = full[n * m + i]
    <3>1. n * (m + 1) <= Len(full)
      BY <1>1, <1>7 DEF IsPadded, m
    <3> QED BY <1>1, <1>5, <3>1, BlockIsBlock
  <2>4. ASSUME NEW i \in 1 .. n PROVE full[n * m + i] = last[i]
    <3>1. n * m + i \in 1 .. Len(data) + p
      BY <1>1, <2>4 DEF p
    <3>2. CASE i <= r
      BY <1>1, <1>4, <1>5, <1>6, <2>1, <2>2, <3>1, <3>2
    <3>3. CASE i > r
      <4> DEFINE z == n * m + i
      <4>1. z - Len(data) = i - r /\ ~(z <= Len(data)) /\ z \in 1 .. Len(data) + p
        BY <1>1, <3>1, <3>3
      <4>2. full[n * m + i] = pads[i - r]
        <5>1. full[z] = pads[z - Len(data)]
          <6> HIDE DEF z
          <6> QED BY <1>5, <4>1
        <5> QED BY <4>1, <5>1, Zenon
      <4>3. last[i] = pads[i - r]
        <5>1. i \in 1 .. Len(rest) + Len(pads) /\ ~(i <= Len(rest))
          BY <1>1, <1>3, <1>4, <1>6, <2>1, <2>2, <3>3
        <5>2. last[i] = pads[i - Len(rest)]
          BY <2>1, <5>1
        <5> QED BY <1>6, <5>2, Zenon
      <4> QED BY <4>2, <4>3
    <3> QED BY <1>1, <3>2, <3>3
  <2>5. Block(full, m + 1) = last
    BY <1>1, <2>1, <2>2, <2>3, <2>4, SeqEqual DEF BlocksOver
  <2> QED BY <2>5 DEF last
<1> QED
  BY <1>2, <1>7, <1>8, <1>9 DEF full, pads, p, m, r

\* What CBCEncrypt writes with padding is the seal of the padded text.
LEMMA PaddedIsSealed ==
  ASSUME NEW B, BlockCipher(B), NEW iv \in BlocksOver(B), NEW data \in Seq(B), data # <<>>
  PROVE  \E full, s, p : /\ IsPadded(B, full, data, p)
                         /\ IsSealed(B, s, iv, full, Blocks(data) + 1)
                         /\ CBCEncrypt(iv, data, TRUE) = Written(s)
<1> DEFINE n    == AES_BLOCKSIZE
           m    == Blocks(data)
           p    == n - (Len(data) % n)
           full == data \o [i \in 1 .. p |-> p]
           all  == Chained(iv, data)[m]
           s    == all \o Encrypt(Mixed(Block(all, m + 1), LastBlock(data)))
<1>1. /\ IsPadded(B, full, data, p)
      /\ \A j \in Nat : j < m => Block(full, j + 1) = Block(data, j + 1)
      /\ Block(full, m + 1) = LastBlock(data)
  BY PaddedText
<1>2. n \in Nat \ {0} /\ m \in Nat
  <2>1. n \in Nat \ {0}
    BY DEF BlockCipher
  <2>2. Len(data) \in Nat
    OBVIOUS
  <2> QED BY <2>1, <2>2, Division DEF Blocks
<1>3. IsSealed(B, all, iv, data, m)
  BY ChainSeals
<1>4. CBCEncrypt(iv, data, TRUE) = Written(s)
  BY DEF CBCEncrypt, Written, LastBlock
<1> HIDE DEF all, full, p, m
<1>5. IsSealed(B, all, iv, full, m)
  BY <1>1, <1>2, <1>3, SealedSameBlocks
<1>6. Block(full, m + 1) \in BlocksOver(B)
  <2>1. full \in Seq(B) /\ Len(full) = n * (m + 1)
    BY <1>1 DEF IsPadded, m
  <2>2. n * (m + 1) <= Len(full)
    <3>1. n * (m + 1) \in Nat
      BY <1>2, Multiples
    <3> QED BY <2>1, <3>1
  <2> QED BY <1>2, <2>1, <2>2, BlockIsBlock
<1>7. IsSealed(B, s, iv, full, m + 1)
  <2>1. IsSealed(B, all \o Encrypt(Mixed(Block(all, m + 1), Block(full, m + 1))), iv, full, m + 1)
    BY <1>2, <1>5, <1>6, SealedNext
  <2> QED BY <1>1, <2>1, Zenon
<1> HIDE DEF s
<1> QED
  BY <1>1, <1>4, <1>7, Zenon DEF m

\* w opens to the padded text.
OpensTo(B, iv, w, data, full, p) ==
  /\ IsPadded(B, full, data, p) /\ Len(w) = Len(full)
  /\ Blocks(w) = Blocks(data) + 1 /\ Unchain(iv, w)[Blocks(data) + 1] = full

\* The padding is found and taken off again.
LEMMA PaddingComesOff ==
  ASSUME NEW B, BlockCipher(B), NEW data \in Seq(B), NEW iv, NEW full, NEW p, NEW w,
         OpensTo(B, iv, w, data, full, p)
  PROVE  CBCDecrypt(iv, w, TRUE) = data
<1> DEFINE n == AES_BLOCKSIZE
           m == Blocks(data)
           last == Block(full, m + 1)
<1>1. /\ n \in Nat \ {0} /\ m \in Nat /\ n * m \in Nat /\ n * (m + 1) = n * m + n
      /\ Len(data) \in Nat
  <2>1. n \in Nat \ {0}
    BY DEF BlockCipher
  <2>2. Len(data) \in Nat
    OBVIOUS
  <2>3. m \in Nat
    BY <2>1, <2>2, Division DEF Blocks
  <2> HIDE DEF m
  <2> QED BY <2>1, <2>2, <2>3, Multiples
<1>2. /\ full \in Seq(B) /\ p \in 1 .. n /\ Len(full) = n * (m + 1) /\ Len(full) = Len(data) + p
      /\ \A i \in 1 .. Len(data) : full[i] = data[i]
      /\ \A i \in 1 .. p : full[Len(data) + i] = p
  BY DEF IsPadded, OpensTo
<1> HIDE DEF m
<1>3. full[Len(full)] = p
  BY <1>1, <1>2
<1>4. p # 0 /\ p <= n
  BY <1>1, <1>2
<1>5. WellFormed(last, p)
  <2>1. /\ last \in BlocksOver(B)
        /\ \A i \in 1 .. n : last[i] = full[n * m + i]
    <3>1. n * (m + 1) <= Len(full)
      BY <1>1, <1>2
    <3> QED BY <1>1, <1>2, <3>1, BlockIsBlock
  <2> HIDE DEF last
  <2>2. ASSUME NEW i \in 1 .. n, i > n - p PROVE last[i] = p
    <3>1. i - (n - p) \in 1 .. p /\ Len(data) + (i - (n - p)) = n * m + i
      BY <1>1, <1>2, <2>2
    <3>2. full[Len(data) + (i - (n - p))] = p
      BY <1>2, <3>1
    <3> QED BY <2>1, <3>1, <3>2
  <2> QED BY <2>2 DEF WellFormed
<1>0. Len(w) = Len(full)
  BY DEF OpensTo
<1>6. w # <<>> /\ Len(w) % n = 0
  <2>1. Len(w) # 0 /\ Len(<<>>) = 0
    BY <1>0, <1>1, <1>2
  <2>2. m + 1 \in Nat
    BY <1>1
  <2>3. (n * (m + 1)) % n = 0
    BY <1>1, <2>2, Exact
  <2> QED BY <1>0, <1>2, <2>1, <2>3
<1>7. SubSeq(full, 1, Len(full) - p) = data
  <2>1. Len(full) - p = 0 + Len(data) /\ 0 + Len(data) <= Len(full)
    BY <1>1, <1>2
  <2>2. /\ SubSeq(full, 0 + 1, 0 + Len(data)) \in Seq(B)
        /\ Len(SubSeq(full, 0 + 1, 0 + Len(data))) = Len(data)
        /\ \A i \in 1 .. Len(data) : SubSeq(full, 0 + 1, 0 + Len(data))[i] = full[0 + i]
    <3>1. ASSUME NEW z \in Nat, z = 0
          PROVE  /\ SubSeq(full, z + 1, z + Len(data)) \in Seq(B)
                 /\ Len(SubSeq(full, z + 1, z + Len(data))) = Len(data)
                 /\ \A i \in 1 .. Len(data) : SubSeq(full, z + 1, z + Len(data))[i] = full[z + i]
      <4>1. z + Len(data) <= Len(full)
        BY <1>1, <2>1, <3>1
      <4> QED BY <1>1, <1>2, <4>1, Stretch
    <3> QED BY <3>1
  <2> DEFINE x == SubSeq(full, 1, Len(data))
  <2>3. x \in Seq(B) /\ Len(x) = Len(data) /\ \A i \in 1 .. Len(data) : x[i] = full[i]
    BY <1>1, <2>2
  <2> HIDE DEF x
  <2>4. x = data
    BY <1>1, <1>2, <2>3, SeqEqual
  <2> QED BY <1>1, <2>1, <2>4 DEF x
<1>8. CBCDecrypt(iv, w, TRUE) = SubSeq(full, 1, Len(full) - p)
  <2>1. Unchain(iv, w)[Blocks(w)] = full /\ Block(full, Blocks(w)) = last
    BY DEF m, OpensTo
  <2> HIDE DEF last
  <2>2. \A q : q = full[Len(full)] => q = p
    BY <1>3
  <2> QED BY <1>3, <1>4, <1>5, <1>6, <2>1 DEF CBCDecrypt
<1> QED
  BY <1>7, <1>8

\* What CBCEncrypt seals with padding CBCDecrypt opens to the text, whatever its length: the
\* padding is found, and taken off whole.
THEOREM PaddedOpens ==
  ASSUME NEW B, BlockCipher(B), NEW iv \in BlocksOver(B), NEW data \in Seq(B)
  PROVE  CBCDecrypt(iv, CBCEncrypt(iv, data, TRUE), TRUE) = data
<1>1. CASE data = <<>>
  <2>1. CBCEncrypt(iv, data, TRUE) = <<>>
    BY <1>1 DEF CBCEncrypt
  <2> QED BY <1>1, <2>1 DEF CBCDecrypt
<1>2. CASE data # <<>>
  <2>1. PICK full, s, p : /\ IsPadded(B, full, data, p)
                          /\ IsSealed(B, s, iv, full, Blocks(data) + 1)
                          /\ CBCEncrypt(iv, data, TRUE) = Written(s)
    BY <1>2, PaddedIsSealed
  <2>2. /\ full \in Seq(B) /\ Len(full) = AES_BLOCKSIZE * (Blocks(data) + 1)
        /\ Blocks(data) + 1 \in Nat
    <3>1. AES_BLOCKSIZE \in Nat \ {0}
      BY DEF BlockCipher
    <3>2. Len(data) \in Nat
      OBVIOUS
    <3>3. Blocks(data) \in Nat
      BY <3>1, <3>2, Division DEF Blocks
    <3> QED BY <2>1, <3>3 DEF IsPadded
  <2>3. Len(Written(s)) = Len(full)
    BY <2>1, <2>2, WrittenBlocks
  <2>4. Blocks(Written(s)) = Blocks(data) + 1 /\ Unchain(iv, Written(s))[Blocks(data) + 1] = full
    BY <2>1, <2>2, UnchainOpens
  <2>5. CBCDecrypt(iv, Written(s), TRUE) = data
    <3>1. OpensTo(B, iv, Written(s), data, full, p)
      BY <2>1, <2>3, <2>4 DEF OpensTo
    <3> QED BY <3>1, PaddingComesOff
  <2> QED BY <2>1, <2>5
<1> QED
  BY <1>1, <1>2

\* The program's pair of calls: what AesEncode makes of a text fills the room given for it, and
\* AesDecode gives the text back.
THEOREM EncodedDecodes ==
  ASSUME NEW B, BlockCipher(B), NEW iv \in BlocksOver(B), NEW in \in Seq(B), in # <<>>
  PROVE  /\ AesEncode(iv, in).ok
         /\ Len(AesEncode(iv, in).out) = Room(in)
         /\ AesDecode(iv, AesEncode(iv, in).out) = [ok |-> TRUE, out |-> in]
<1> DEFINE sealed == CBCEncrypt(iv, in, TRUE)
           fill   == [i \in 1 .. Room(in) - Len(sealed) |-> 0]
<1>1. Len(iv) = AES_BLOCKSIZE
  BY DEF BlocksOver
<1>2. sealed \in Seq(B) /\ Len(sealed) = Room(in) /\ Room(in) \in Nat
  <2>1. PICK full, s, p : /\ IsPadded(B, full, in, p)
                          /\ IsSealed(B, s, iv, full, Blocks(in) + 1)
                          /\ sealed = Written(s)
    BY PaddedIsSealed
  <2>2. AES_BLOCKSIZE \in Nat \ {0}
    BY DEF BlockCipher
  <2>3. Blocks(in) + 1 \in Nat
    <3>1. Len(in) \in Nat
      OBVIOUS
    <3>2. Blocks(in) \in Nat
      BY <2>2, <3>1, Division DEF Blocks
    <3> QED BY <3>2
  <2>4. Written(s) \in Seq(B) /\ Len(Written(s)) = AES_BLOCKSIZE * (Blocks(in) + 1)
    BY <2>1, <2>3, WrittenBlocks
  <2>5. AES_BLOCKSIZE * (Blocks(in) + 1) \in Nat
    BY <2>2, <2>3, Multiples
  <2> QED BY <2>1, <2>4, <2>5 DEF Room
<1> HIDE DEF sealed
<1>3. sealed \o fill = sealed
  <2>1. Room(in) - Len(sealed) = 0
    BY <1>2
  <2>2. fill = <<>>
    BY <2>1
  <2> QED BY <1>2, <2>2, ConcatEmptySeq
<1> HIDE DEF fill
<1>4. AesEncode(iv, in) = [ok |-> Len(sealed) = Room(in), out |-> sealed \o fill]
  BY <1>1 DEF AesEncode, sealed, fill
<1>5. AesEncode(iv, in).out = sealed
  BY <1>3, <1>4
<1>6. AesEncode(iv, in).ok
  <2>1. AesEncode(iv, in).ok = (Len(sealed) = Room(in))
    <3>1. \A x, y : [ok |-> x, out |-> y].ok = x
      OBVIOUS
    <3> QED BY <1>4, <3>1, Zenon
  <2> QED BY <1>2, <2>1, Zenon
<1>7. CBCDecrypt(iv, sealed, TRUE) = in
  BY PaddedOpens DEF sealed
<1>8. AesDecode(iv, sealed) = [ok |-> TRUE, out |-> in]
  BY <1>1, <1>7 DEF AesDecode
<1> QED
  BY <1>2, <1>5, <1>6, <1>8

-----------------------------------------------------------------------------
\* What the way back asks besides: bytes are numbers, a block that is decrypted first is a block
\* and comes back too, and mixing undoes itself on the other side.
BothWays(B) ==
  /\ B \subseteq Nat
  /\ \A x, y \in B : MixByte(y, MixByte(x, y)) = x
  /\ \A b \in BlocksOver(B) : Decrypt(b) \in BlocksOver(B) /\ Encrypt(Decrypt(b)) = b

\* Mixing undoes itself on the other side too.
LEMMA UnmixedBack ==
  ASSUME NEW B, BlockCipher(B), BothWays(B), NEW a \in BlocksOver(B), NEW b \in BlocksOver(B)
  PROVE  Mixed(a, Mixed(b, a)) = b
<1> DEFINE n == AES_BLOCKSIZE
           c == Mixed(b, a)
           d == Mixed(a, c)
<1>1. c \in BlocksOver(B) /\ \A i \in 1 .. n : c[i] = MixByte(b[i], a[i])
  BY MixedIsBlock
<1> HIDE DEF c
<1>2. d \in BlocksOver(B) /\ \A i \in 1 .. n : d[i] = MixByte(a[i], c[i])
  BY <1>1, MixedIsBlock
<1> HIDE DEF d
<1>3. n \in Nat /\ \A x, y \in B : MixByte(y, MixByte(x, y)) = x
  BY DEF BlockCipher, BothWays
<1>4. ASSUME NEW i \in 1 .. n PROVE d[i] = b[i]
  <2>1. a[i] \in B /\ b[i] \in B
    BY <1>3 DEF BlocksOver
  <2> QED BY <1>1, <1>2, <1>3, <2>1
<1>5. d = b
  BY <1>2, <1>3, <1>4, SeqEqual DEF BlocksOver
<1> QED
  BY <1>5 DEF c, d

\* A number that is less than n does not change the quotient.
LEMMA Quotient ==
  ASSUME NEW n \in Nat \ {0}, NEW k \in Nat, NEW r \in Nat, r < n
  PROVE  (n * k + r) \div n = k
BY SMT

\* Sequences of whole blocks are equal when their blocks are.
LEMMA SameBlocks ==
  ASSUME NEW B, BlockCipher(B), NEW s \in Seq(B), NEW t \in Seq(B), NEW m \in Nat,
         Len(s) = AES_BLOCKSIZE * m, Len(t) = AES_BLOCKSIZE * m,
         \A j \in Nat : j < m => Block(s, j + 1) = Block(t, j + 1)
  PROVE  s = t
<1> DEFINE n == AES_BLOCKSIZE
<1>1. n \in Nat \ {0} /\ n * m \in Nat
  BY Multiples DEF BlockCipher
<1>2. ASSUME NEW i \in 1 .. n * m PROVE s[i] = t[i]
  <2> DEFINE j == (i - 1) \div n
             r == (i - 1) % n
  <2>1. j \in Nat /\ r \in Nat /\ r < n /\ i - 1 = n * j + r
    <3>1. i - 1 \in Nat
      BY <1>1
    <3> HIDE DEF n
    <3> QED BY <1>1, <3>1, Division
  <2> HIDE DEF j, r
  <2>2. j < m
    <3> SUFFICES ASSUME m <= j PROVE FALSE
      BY <2>1
    <3>1. n * m <= n * j /\ n * j \in Nat
      <4> HIDE DEF n
      <4> QED BY <1>1, <2>1, Multiples
    <3> QED BY <1>1, <2>1, <3>1
  <2>3. n * (j + 1) <= n * m
    <3>1. j + 1 \in Nat /\ j + 1 <= m
      BY <2>1, <2>2
    <3> HIDE DEF n
    <3> QED BY <1>1, <3>1, Multiples
  <2>4. /\ \A k \in 1 .. n : Block(s, j + 1)[k] = s[n * j + k]
        /\ \A k \in 1 .. n : Block(t, j + 1)[k] = t[n * j + k]
    BY <2>1, <2>3, BlockIsBlock
  <2>5. r + 1 \in 1 .. n /\ n * j + (r + 1) = i
    BY <1>1, <2>1
  <2>6. s[n * j + (r + 1)] = t[n * j + (r + 1)]
    BY <2>1, <2>2, <2>4, <2>5
  <2> QED BY <2>5, <2>6
<1> HIDE DEF n
<1> QED
  BY <1>1, <1>2, SeqEqual DEF n

\* One vector and one text have one seal.
LEMMA SealedOnce ==
  ASSUME NEW B, BlockCipher(B), NEW iv, NEW data, NEW k \in Nat, NEW s, NEW t,
         IsSealed(B, s, iv, data, k), IsSealed(B, t, iv, data, k)
  PROVE  s = t
<1> DEFINE H == {j \in Nat : j <= k => Block(s, j + 1) = Block(t, j + 1)}
<1>1. Block(s, 0 + 1) = iv /\ Block(t, 0 + 1) = iv
  BY DEF IsSealed
<1>2. 0 \in H
  BY <1>1
<1>3. ASSUME NEW j \in H PROVE j + 1 \in H
  <2> SUFFICES ASSUME j + 1 <= k PROVE Block(s, j + 1 + 1) = Block(t, j + 1 + 1)
    OBVIOUS
  <2>1. j \in Nat /\ j < k /\ Block(s, j + 1) = Block(t, j + 1)
    OBVIOUS
  <2>2. Block(s, j + 1 + 1) = Encrypt(Mixed(Block(s, j + 1), Block(data, j + 1)))
    BY <2>1 DEF IsSealed
  <2>3. Block(t, j + 1 + 1) = Encrypt(Mixed(Block(t, j + 1), Block(data, j + 1)))
    BY <2>1 DEF IsSealed
  <2> QED BY <2>1, <2>2, <2>3, Zenon
<1> HIDE DEF H
<1>4. H = Nat
  BY <1>2, <1>3, Induction DEF H
<1>5. ASSUME NEW j \in Nat, j < k + 1 PROVE Block(s, j + 1) = Block(t, j + 1)
  <2>1. j \in H /\ j <= k
    BY <1>4, <1>5
  <2> QED BY <2>1 DEF H
<1>6. /\ s \in Seq(B) /\ t \in Seq(B) /\ k + 1 \in Nat
      /\ Len(s) = AES_BLOCKSIZE * (k + 1) /\ Len(t) = AES_BLOCKSIZE * (k + 1)
  BY DEF IsSealed
<1> QED
  BY <1>5, <1>6, SameBlocks

\* A text is padded in one way.
LEMMA PaddedOnce ==
  ASSUME NEW B, NEW data \in Seq(B), NEW full, NEW p, NEW other, NEW q,
         IsPadded(B, full, data, p), IsPadded(B, other, data, q)
  PROVE  full = other
<1>1. /\ full \in Seq(B) /\ other \in Seq(B) /\ Len(full) = Len(other) /\ Len(full) \in Nat
      /\ Len(full) = Len(data) + p /\ Len(other) = Len(data) + q /\ Len(data) \in Nat
      /\ p \in Int /\ q \in Int
  <2>1. p \in 1 .. AES_BLOCKSIZE /\ q \in 1 .. AES_BLOCKSIZE /\ full \in Seq(B)
    BY Zenon DEF IsPadded
  <2>2. p \in Int /\ q \in Int /\ Len(data) \in Nat /\ Len(full) \in Nat
    BY <2>1
  <2> QED BY <2>2, Zenon DEF IsPadded
<1>2. p = q
  <2>1. Len(data) + p = Len(data) + q
    BY <1>1, Zenon
  <2> QED BY <1>1, <2>1
<1>3. ASSUME NEW i \in 1 .. Len(full) PROVE full[i] = other[i]
  <2>1. CASE i <= Len(data)
    BY <1>1, <2>1 DEF IsPadded
  <2>2. CASE i > Len(data)
    <3>1. i - Len(data) \in 1 .. p /\ Len(data) + (i - Len(data)) = i
      BY <1>1, <2>2
    <3>2. full[Len(data) + (i - Len(data))] = p
      BY <3>1 DEF IsPadded
    <3>3. other[Len(data) + (i - Len(data))] = q
      BY <1>2, <3>1 DEF IsPadded
    <3> QED BY <1>2, <3>1, <3>2, <3>3
  <2> QED BY <1>1, <2>1, <2>2
<1> QED
  BY <1>1, <1>3, SeqEqual

\* The blocks of a vector and what is behind it.
LEMMA BehindTheVector ==
  ASSUME NEW B, BlockCipher(B), NEW iv \in BlocksOver(B), NEW ct \in Seq(B), NEW m \in Nat,
         Len(ct) = AES_BLOCKSIZE * m
  PROVE  /\ iv \o ct \in Seq(B) /\ Len(iv \o ct) = AES_BLOCKSIZE * (m + 1)
         /\ Block(iv \o ct, 0 + 1) = iv
         /\ \A j \in Nat : j < m => Block(iv \o ct, j + 1 + 1) = Block(ct, j + 1)
         /\ Written(iv \o ct) = ct
<1> DEFINE n == AES_BLOCKSIZE
           t == iv \o ct
<1>1. n \in Nat \ {0} /\ n * m \in Nat /\ n * (m + 1) = n * m + n /\ n * 0 = 0 /\ n * (0 + 1) = n
  BY Multiples DEF BlockCipher
<1>2. iv \in Seq(B) /\ Len(iv) = n
  BY DEF BlocksOver
<1>3. /\ t \in Seq(B) /\ Len(t) = Len(iv) + Len(ct)
      /\ \A i \in 1 .. Len(iv) + Len(ct) : t[i] = IF i <= Len(iv) THEN iv[i] ELSE ct[i - Len(iv)]
  BY <1>2, ConcatProperties
<1> HIDE DEF t
<1>4. Len(t) = n + n * m /\ Len(t) = n * (m + 1)
  BY <1>1, <1>2, <1>3
<1>5. Block(t, 0 + 1) = iv
  <2>1. ASSUME NEW z \in Nat, z = 0 PROVE Block(t, z + 1) = iv
    <3>1. n * (z + 1) = n /\ n * z = 0
      BY <1>1, <2>1
    <3>2. n * (z + 1) <= Len(t)
      BY <1>1, <1>4, <3>1
    <3>3. /\ Block(t, z + 1) \in BlocksOver(B)
          /\ \A i \in 1 .. n : Block(t, z + 1)[i] = t[n * z + i]
      BY <1>3, <3>2, BlockIsBlock
    <3>4. ASSUME NEW i \in 1 .. n PROVE Block(t, z + 1)[i] = iv[i]
      <4>1. n * z + i = i
        BY <1>1, <3>1
      <4>2. t[i] = iv[i]
        BY <1>1, <1>2, <1>3, <1>4
      <4> QED BY <3>3, <4>1, <4>2
    <3> QED BY <1>1, <1>2, <3>3, <3>4, SeqEqual DEF BlocksOver
  <2> QED BY <2>1
<1>6. ASSUME NEW j \in Nat, j < m PROVE Block(t, j + 1 + 1) = Block(ct, j + 1)
  <2>1. /\ n * (j + 1) \in Nat /\ n * j \in Nat /\ n * (j + 1) = n * j + n /\ n * (j + 1) <= n * m
        /\ n * (j + 1 + 1) = n * (j + 1) + n /\ j + 1 \in Nat
    <3>1. j + 1 \in Nat /\ j + 1 <= m
      BY <1>6
    <3> HIDE DEF n
    <3> QED BY <1>1, <3>1, Multiples
  <2>2. n * (j + 1) <= Len(ct) /\ n * (j + 1 + 1) <= Len(t)
    BY <1>1, <1>4, <2>1
  <2>3. Block(ct, j + 1) \in BlocksOver(B) /\ \A i \in 1 .. n : Block(ct, j + 1)[i] = ct[n * j + i]
    BY <2>2, BlockIsBlock
  <2>4. /\ Block(t, j + 1 + 1) \in BlocksOver(B)
        /\ \A i \in 1 .. n : Block(t, j + 1 + 1)[i] = t[n * (j + 1) + i]
    <3>1. t \in Seq(B) /\ j + 1 \in Nat /\ AES_BLOCKSIZE * ((j + 1) + 1) <= Len(t)
      BY <1>3, <2>1, <2>2, Zenon
    <3> HIDE DEF t
    <3> QED BY <3>1, BlockIsBlock
  <2>5. ASSUME NEW i \in 1 .. n PROVE Block(t, j + 1 + 1)[i] = Block(ct, j + 1)[i]
    <3> DEFINE z == n * (j + 1) + i
    <3>1. z \in 1 .. Len(iv) + Len(ct) /\ ~(z <= Len(iv)) /\ z - Len(iv) = n * j + i
      BY <1>1, <1>2, <2>1
    <3>2. t[z] = ct[z - Len(iv)]
      <4> HIDE DEF z
      <4> QED BY <1>3, <3>1
    <3>3. t[n * (j + 1) + i] = ct[n * j + i]
      BY <3>1, <3>2, Zenon
    <3> QED BY <2>3, <2>4, <3>3
  <2> QED BY <1>1, <2>3, <2>4, <2>5, SeqEqual DEF BlocksOver
<1>7. Written(t) = ct
  <2> DEFINE w == Written(t)
             r == n * m
  <2>1. w = SubSeq(t, n + 1, n + r)
    BY <1>4 DEF Written
  <2>2. w \in Seq(B) /\ Len(w) = r /\ \A i \in 1 .. r : w[i] = t[n + i]
    <3>1. n \in Nat /\ r \in Nat /\ n + r <= Len(t)
      BY <1>1, <1>4
    <3> HIDE DEF w, n, r
    <3> QED BY <1>3, <2>1, <3>1, Stretch
  <2> HIDE DEF w, r
  <2>3. ASSUME NEW i \in 1 .. r PROVE w[i] = ct[i]
    <3>1. n + i \in 1 .. Len(iv) + Len(ct) /\ ~(n + i <= Len(iv)) /\ n + i - Len(iv) = i
      BY <1>1, <1>2, <2>3 DEF r
    <3> DEFINE z == n + i
    <3>2. t[z] = ct[z - Len(iv)]
      <4>1. z \in 1 .. Len(iv) + Len(ct) /\ ~(z <= Len(iv))
        BY <3>1
      <4> HIDE DEF z
      <4> QED BY <1>3, <4>1
    <3>3. w[i] = t[z]
      BY <2>2, <2>3
    <3>4. z - Len(iv) = i
      BY <1>1, <1>2, <2>3
    <3> HIDE DEF z
    <3> QED BY <3>2, <3>3, <3>4
  <2>4. w = ct
    BY <2>2, <2>3, SeqEqual DEF r
  <2> QED BY <2>4 DEF w
<1> QED
  BY <1>3, <1>4, <1>5, <1>6, <1>7 DEF t

\* The loop of CBCDecrypt finds the text that seals to what it was given.
LEMMA UnchainIsSealed ==
  ASSUME NEW B, BlockCipher(B), BothWays(B), NEW iv \in BlocksOver(B), NEW ct \in Seq(B),
         NEW m \in Nat, Len(ct) = AES_BLOCKSIZE * m
  PROVE  /\ Blocks(ct) = m
         /\ Unchain(iv, ct)[m] \in Seq(B) /\ Len(Unchain(iv, ct)[m]) = AES_BLOCKSIZE * m
         /\ IsSealed(B, iv \o ct, iv, Unchain(iv, ct)[m], m)
<1> DEFINE n == AES_BLOCKSIZE
           t == iv \o ct
           c == Unchain(iv, ct)
           X(j) == Mixed(Decrypt(Block(ct, j + 1)), Block(t, j + 1))
           H == {k \in Nat : k <= m => /\ c[k] \in Seq(B) /\ Len(c[k]) = n * k
                                       /\ \A j \in Nat : j < k => Block(c[k], j + 1) = X(j)}
<1>1. /\ t \in Seq(B) /\ Len(t) = n * (m + 1) /\ Block(t, 0 + 1) = iv
      /\ \A j \in Nat : j < m => Block(t, j + 1 + 1) = Block(ct, j + 1)
  BY BehindTheVector
<1>2. n \in Nat \ {0}
  BY DEF BlockCipher
<1>3. Blocks(ct) = m
  BY <1>2, Exact DEF Blocks
<1>4. c[0] = <<>> /\ \A k \in 1 .. m : c[k] = Back(c[k - 1], iv, ct, k)
  BY <1>3, UnchainSteps
<1>5. ASSUME NEW j \in Nat, j < m
      PROVE  /\ Block(ct, j + 1) \in BlocksOver(B) /\ Block(t, j + 1) \in BlocksOver(B)
             /\ X(j) \in BlocksOver(B)
             /\ Block(ct, j + 1) = Encrypt(Mixed(Block(t, j + 1), X(j)))
  <2>1. n * (j + 1) \in Nat /\ n * (j + 1) <= n * m /\ n * m <= n * (m + 1) /\ n * (j + 1) <= n * (m + 1)
        /\ n * m \in Nat /\ n * (m + 1) \in Nat
    <3>1. j + 1 \in Nat /\ j + 1 <= m /\ m <= m + 1 /\ j + 1 <= m + 1 /\ m + 1 \in Nat
      BY <1>5
    <3> HIDE DEF n
    <3> QED BY <1>2, <3>1, Multiples
  <2>2. Block(ct, j + 1) \in BlocksOver(B)
    BY <2>1, BlockIsBlock
  <2>3. Block(t, j + 1) \in BlocksOver(B)
    <3>1. n * (j + 1) <= Len(t)
      BY <1>1, <2>1
    <3> HIDE DEF t
    <3> QED BY <1>1, <3>1, BlockIsBlock
  <2>4. /\ Decrypt(Block(ct, j + 1)) \in BlocksOver(B)
        /\ Encrypt(Decrypt(Block(ct, j + 1))) = Block(ct, j + 1)
    BY <2>2 DEF BothWays
  <2> HIDE DEF t
  <2>5. X(j) \in BlocksOver(B)
    BY <2>3, <2>4, MixedIsBlock
  <2>6. Mixed(Block(t, j + 1), X(j)) = Decrypt(Block(ct, j + 1))
    BY <2>3, <2>4, UnmixedBack
  <2> QED BY <2>2, <2>3, <2>4, <2>5, <2>6
<1>6. ASSUME NEW s, NEW j \in Nat PROVE Back(s, iv, ct, j + 1) = s \o X(j)
  BY DEF Back
<1> HIDE DEF t, c, X
<1>7. 0 \in H
  <2>1. n * 0 = 0
    BY <1>2
  <2>2. c[0] \in Seq(B) /\ Len(c[0]) = 0
    BY <1>4, EmptySeq
  <2> QED BY <2>1, <2>2
<1>8. ASSUME NEW k \in H PROVE k + 1 \in H
  <2> SUFFICES ASSUME k + 1 <= m
               PROVE  /\ c[k + 1] \in Seq(B) /\ Len(c[k + 1]) = n * (k + 1)
                      /\ \A j \in Nat : j < k + 1 => Block(c[k + 1], j + 1) = X(j)
    OBVIOUS
  <2>1. /\ k \in Nat /\ k < m /\ c[k] \in Seq(B) /\ Len(c[k]) = n * k
        /\ \A j \in Nat : j < k => Block(c[k], j + 1) = X(j)
    OBVIOUS
  <2>2. c[k + 1] = c[k] \o X(k)
    <3>1. k + 1 \in 1 .. m /\ k + 1 - 1 = k
      BY <2>1
    <3>2. c[k + 1] = Back(c[k], iv, ct, k + 1)
      BY <1>4, <3>1
    <3> QED BY <1>6, <2>1, <3>2
  <2> DEFINE s == c[k]
             e == X(k)
  <2>3. e \in BlocksOver(B)
    BY <1>5, <2>1
  <2>4. s \in Seq(B) /\ Len(s) = n * k
    BY <2>1
  <2> HIDE DEF s, e
  <2>5. /\ s \o e \in Seq(B) /\ Len(s \o e) = n * (k + 1)
        /\ \A j \in Nat : j < k => Block(s \o e, j + 1) = Block(s, j + 1)
        /\ Block(s \o e, k + 1) = e
    BY <2>1, <2>3, <2>4, AddedBlock
  <2>6. c[k + 1] = s \o e
    BY <2>2 DEF s, e
  <2>7. ASSUME NEW j \in Nat, j < k + 1 PROVE Block(s \o e, j + 1) = X(j)
    <3>1. CASE j < k
      BY <2>1, <2>5, <3>1 DEF s
    <3>2. CASE j = k
      BY <2>5, <3>2 DEF e
    <3> QED BY <2>1, <2>7, <3>1, <3>2
  <2> QED BY <2>5, <2>6, <2>7
<1> HIDE DEF H
<1>9. H = Nat
  BY <1>7, <1>8, Induction DEF H
<1>10. /\ c[m] \in Seq(B) /\ Len(c[m]) = n * m
       /\ \A j \in Nat : j < m => Block(c[m], j + 1) = X(j)
  BY <1>9 DEF H
<1>11. IsSealed(B, t, iv, c[m], m)
  <2>1. ASSUME NEW j \in Nat, j < m
        PROVE  Block(t, j + 1 + 1) = Encrypt(Mixed(Block(t, j + 1), Block(c[m], j + 1)))
    <3>1. Block(t, j + 1 + 1) = Block(ct, j + 1)
      BY <1>1, <2>1
    <3>2. Block(c[m], j + 1) = X(j)
      BY <1>10, <2>1
    <3>3. Block(ct, j + 1) = Encrypt(Mixed(Block(t, j + 1), X(j)))
      BY <1>5, <2>1
    <3> QED BY <3>1, <3>2, <3>3, Zenon
  <2> QED BY <1>1, <2>1 DEF IsSealed
<1> QED
  BY <1>3, <1>10, <1>11 DEF t, c

\* The text that padding p was taken off is the one that out is the padded form of.
LEMMA StrippedIsPadded ==
  ASSUME NEW B, BlockCipher(B), BothWays(B), NEW out \in Seq(B), NEW m \in Nat,
         Len(out) = AES_BLOCKSIZE * (m + 1), NEW p \in 1 .. AES_BLOCKSIZE,
         WellFormed(Block(out, m + 1), p)
  PROVE  /\ SubSeq(out, 1, Len(out) - p) \in Seq(B)
         /\ Blocks(SubSeq(out, 1, Len(out) - p)) = m
         /\ IsPadded(B, out, SubSeq(out, 1, Len(out) - p), p)
<1> DEFINE n    == AES_BLOCKSIZE
           text == SubSeq(out, 1, Len(out) - p)
           len  == Len(out) - p
<1>1. n \in Nat \ {0} /\ n * m \in Nat /\ n * (m + 1) = n * m + n
  BY Multiples DEF BlockCipher
<1>2. len \in Nat /\ len <= Len(out) /\ len = n * m + (n - p) /\ n - p \in Nat /\ n - p < n
  BY <1>1
<1>3. text \in Seq(B) /\ Len(text) = len /\ \A i \in 1 .. len : text[i] = out[i]
  <2> HIDE DEF len
  <2>1. ASSUME NEW z \in Nat, z = 0
        PROVE  /\ SubSeq(out, z + 1, z + len) \in Seq(B) /\ Len(SubSeq(out, z + 1, z + len)) = len
               /\ \A i \in 1 .. len : SubSeq(out, z + 1, z + len)[i] = out[z + i]
    <3>1. z + len <= Len(out)
      BY <1>2, <2>1
    <3>2. len \in Nat
      BY <1>2
    <3> QED BY <3>1, <3>2, Stretch
  <2> DEFINE x == SubSeq(out, 1, len)
  <2>2. x \in Seq(B) /\ Len(x) = len /\ \A i \in 1 .. len : x[i] = out[i]
    BY <1>2, <2>1
  <2>3. text = x
    BY DEF len
  <2> HIDE DEF x, text
  <2> QED BY <2>2, <2>3
<1> HIDE DEF text, len
<1>4. Blocks(text) = m
  <2>1. (n * m + (n - p)) \div n = m
    <3> DEFINE r == n - p
    <3>1. r \in Nat /\ r < n
      BY <1>2
    <3> HIDE DEF r, n
    <3>2. (n * m + r) \div n = m
      BY <1>1, <3>1, Quotient
    <3> QED BY <3>2 DEF r
  <2> QED BY <1>2, <1>3, <2>1 DEF Blocks
<1>5. ASSUME NEW i \in 1 .. p PROVE out[len + i] = p
  <2>1. n * (m + 1) <= Len(out)
    BY <1>1
  <2>2. \A k \in 1 .. n : Block(out, m + 1)[k] = out[n * m + k]
    BY <2>1, BlockIsBlock
  <2> DEFINE k == n - p + i
  <2>3. k \in 1 .. n /\ k > n - p /\ n * m + k = len + i
    BY <1>1, <1>2
  <2> HIDE DEF k
  <2>4. Block(out, m + 1)[k] = p
    BY <2>3 DEF WellFormed
  <2>5. Block(out, m + 1)[k] = out[n * m + k]
    BY <2>2, <2>3
  <2> QED BY <2>3, <2>4, <2>5, Zenon
<1>6. IsPadded(B, out, text, p)
  <2>1. Len(out) = Len(text) + p
    BY <1>1, <1>2, <1>3 DEF len
  <2>2. \A i \in 1 .. Len(text) : out[i] = text[i]
    BY <1>3
  <2>3. \A i \in 1 .. p : out[Len(text) + i] = p
    BY <1>3, <1>5
  <2> QED BY <1>4, <2>1, <2>2, <2>3 DEF IsPadded
<1> QED
  BY <1>3, <1>4, <1>6 DEF text

\* No two paddings of one text are taken: when opening gives a text, what was opened is the one
\* thing the text is sealed to (CBCDecrypt compares every byte of the padding).
THEOREM OpenedWasSealed ==
  ASSUME NEW B, BlockCipher(B), BothWays(B), NEW iv \in BlocksOver(B), NEW ct \in Seq(B),
         CBCDecrypt(iv, ct, TRUE) # <<>>
  PROVE  CBCEncrypt(iv, CBCDecrypt(iv, ct, TRUE), TRUE) = ct
<1> DEFINE n    == AES_BLOCKSIZE
           b    == Blocks(ct)
           out  == Unchain(iv, ct)[b]
           p    == out[Len(out)]
           text == CBCDecrypt(iv, ct, TRUE)
<1>1. /\ ct # <<>> /\ Len(ct) % n = 0 /\ p # 0 /\ p <= n
      /\ WellFormed(Block(out, b), p) /\ text = SubSeq(out, 1, Len(out) - p)
  BY DEF CBCDecrypt
<1>2. n \in Nat \ {0} /\ Len(ct) \in Nat /\ Len(ct) # 0
  BY <1>1, EmptySeq DEF BlockCipher
<1>3. b \in Nat \ {0} /\ Len(ct) = n * b
  <2>1. b \in Nat /\ Len(ct) = n * b + (Len(ct) % n)
    <3> HIDE DEF n
    <3> QED BY <1>2, Division DEF Blocks, n
  <2> HIDE DEF b
  <2>2. Len(ct) = n * b
    BY <1>1, <1>2, <2>1
  <2>3. b # 0
    BY <1>2, <2>2
  <2> QED BY <2>1, <2>2, <2>3
<1>4. PICK m \in Nat : b = m + 1
  <2>1. b - 1 \in Nat /\ b = (b - 1) + 1
    BY <1>3
  <2> QED BY <2>1
<1>5. /\ out \in Seq(B) /\ Len(out) = n * b
      /\ IsSealed(B, iv \o ct, iv, out, b)
  BY <1>3, UnchainIsSealed
<1> HIDE DEF out, b, text
<1>6. p \in 1 .. n
  <2>1. n * b \in Nat \ {0}
    BY <1>2, <1>3, <1>5
  <2>2. p \in B
    BY <1>5, <2>1
  <2>3. p \in Nat
    BY <2>2 DEF BothWays
  <2>4. p # 0 /\ p <= n
    BY <1>1
  <2> HIDE DEF p
  <2> QED BY <1>2, <2>3, <2>4
<1> HIDE DEF p
<1>7. text \in Seq(B) /\ Blocks(text) = m /\ IsPadded(B, out, text, p)
  <2>1. Len(out) = n * (m + 1) /\ WellFormed(Block(out, m + 1), p)
    BY <1>1, <1>4, <1>5
  <2> QED BY <1>1, <1>5, <1>6, <2>1, StrippedIsPadded
<1>8. PICK full, s, q : /\ IsPadded(B, full, text, q)
                        /\ IsSealed(B, s, iv, full, Blocks(text) + 1)
                        /\ CBCEncrypt(iv, text, TRUE) = Written(s)
  <2>1. text # <<>>
    BY DEF text
  <2> QED BY <1>7, <2>1, PaddedIsSealed
<1>9. full = out
  BY <1>7, <1>8, PaddedOnce
<1>10. s = iv \o ct
  <2>1. IsSealed(B, s, iv, out, b) /\ b \in Nat
    BY <1>3, <1>4, <1>7, <1>8, <1>9
  <2> DEFINE t == iv \o ct
  <2>2. IsSealed(B, t, iv, out, b)
    BY <1>5
  <2> HIDE DEF t
  <2>3. s = t
    BY <2>1, <2>2, SealedOnce
  <2> QED BY <2>3 DEF t
<1>11. Written(iv \o ct) = ct
  <2>1. b \in Nat
    BY <1>3
  <2> QED BY <1>3, <2>1, BehindTheVector
<1> QED
  BY <1>8, <1>10, <1>11 DEF text
=============================================================================
