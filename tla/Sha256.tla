--------------------------------- MODULE Sha256 ---------------------------------
(***************************************************************************)
(* SHA-256 of a message that arrives in pieces, HMAC-SHA256 over it and    *)
(* the generator of RFC 6979 over that, the source of the nonces of a      *)
(* signature (src/cipher/secp256k1/hash_impl.h).  A message is a sequence  *)
(* of bytes; the transformation of a block is a parameter.                 *)
(***************************************************************************)
EXTENDS Integers, Sequences, SequencesExt

CONSTANTS Transform(_, _), Initial, Output(_)

Fill(byte, n) == [i \in 1 .. n |-> byte]

-----------------------------------------------------------------------------
\* buf holds the bytes % 64 bytes that no transformation has taken yet.
Initialize == [s |-> Initial, buf |-> <<>>, bytes |-> 0]

\* The states after the whole blocks of some bytes, from the state s0 before them.
Chain(s0, all) ==
  LET s[k \in 0 .. Len(all) \div 64] ==
        IF k = 0 THEN s0 ELSE Transform(s[k - 1], SubSeq(all, 64 * k - 63, 64 * k))
  IN  s

Write(h, data) ==
  LET all == h.buf \o data
      whole == Len(all) \div 64
  IN  [s |-> Chain(h.s, all)[whole], buf |-> SubSeq(all, 64 * whole + 1, Len(all)),
       bytes |-> h.bytes + Len(data)]

\* The length in bits, as two words of 32 bits, the higher first.
SizeDesc(bytes) == [i \in 1 .. 8 |-> IF i <= 4 THEN 0 ELSE ((8 * bytes) \div 256^(8 - i)) % 256]

\* A byte 80, zeros up to 8 bytes before the end of a block, and the length.
Finalize(h) ==
  LET pad == <<128>> \o Fill(0, (119 - (h.bytes % 64)) % 64)
  IN  Output(Write(Write(h, pad), SizeDesc(h.bytes)).s)

Sha256(m) == Finalize(Write(Initialize, m))

-----------------------------------------------------------------------------
XorByte(a, b) ==
  LET x[i \in 0 .. 8] == IF i = 0 THEN 0
                         ELSE 2 * x[i - 1] + (((a \div 2^(8 - i)) + (b \div 2^(8 - i))) % 2)
  IN  x[8]
XorAll(m, b) == [i \in DOMAIN m |-> XorByte(m[i], b)]

\* A fault: a key longer than a block is cut.
HmacKeyCut(key) == IF Len(key) <= 64 THEN key ELSE SubSeq(key, 1, 64)
\* A key longer than a block is hashed first.
HmacKey(key) == IF Len(key) <= 64 THEN key ELSE Sha256(key)

HmacInitialize(key) ==
  LET k == HmacKey(key)
      rkey == k \o Fill(0, 64 - Len(k))
  IN  [outer |-> Write(Initialize, XorAll(rkey, \h5c)),
       inner |-> Write(Initialize, XorAll(rkey, \h36))]
HmacWrite(h, data) == [h EXCEPT !.inner = Write(@, data)]
HmacFinalize(h) == Finalize(Write(h.outer, Finalize(h.inner)))

-----------------------------------------------------------------------------
\* The two steps every update of the generator makes: a new key, then a new value.
Rekeyed(r, data) ==
  LET k == HmacFinalize(HmacWrite(HmacWrite(HmacInitialize(r.k), r.v), data))
  IN  [r EXCEPT !.k = k, !.v = HmacFinalize(HmacWrite(HmacInitialize(k), r.v))]

RngInitialize(key) ==
  LET first == Rekeyed([k |-> Fill(0, 32), v |-> Fill(1, 32), retry |-> FALSE], <<0>> \o key)
  IN  Rekeyed(first, <<1>> \o key)

\* Every call but the first updates the generator before it produces anything.
RngGenerate(r, outlen) ==
  LET start == IF r.retry THEN Rekeyed(r, <<0>>) ELSE r
      blocks == (outlen + 31) \div 32
      g[i \in 0 .. blocks] ==
        IF i = 0 THEN [v |-> start.v, out |-> <<>>]
        ELSE LET p == g[i - 1]
                 v == HmacFinalize(HmacWrite(HmacInitialize(start.k), p.v))
             IN  [v |-> v, out |-> p.out \o v]
  IN  [rng |-> [start EXCEPT !.v = g[blocks].v, !.retry = TRUE],
       out |-> SubSeq(g[blocks].out, 1, outlen)]

\* The nonce of RFC 6979 for a signature, with 32 bytes of data and 16 of an algorithm's name where
\* there are any: of the generator's answers the one the counter asks for.
NonceRfc6979(msg32, key32, algo16, data, counter) ==
  LET g[i \in 0 .. counter] ==
        RngGenerate(IF i = 0 THEN RngInitialize(key32 \o msg32 \o data \o algo16) ELSE g[i - 1].rng, 32)
  IN  g[counter].out

\* The secret two parties share: the hash of a point as a compressed public key has it.
EcdhHash(x, y) == Sha256(<<2 + (y[32] % 2)>> \o x)

RngFinalize(r) == [k |-> Fill(0, 32), v |-> Fill(0, 32), retry |-> FALSE]
=============================================================================
