------------------------------ MODULE Blake2bBlock ------------------------------
(***************************************************************************)
(* The compression function of BLAKE2b (src/cipher/blake2/blake2b.cc and   *)
(* blake2-impl.h): twelve rounds over sixteen words of 64 bits.  A word is *)
(* a sequence of bits, the lowest first, and so are the bytes of a block.  *)
(***************************************************************************)
EXTENDS BitWords

Word(a, b, c, d) == Bits(d, 16) \o Bits(c, 16) \o Bits(b, 16) \o Bits(a, 16)

IV == << Word(\h6a09, \he667, \hf3bc, \hc908), Word(\hbb67, \hae85, \h84ca, \ha73b),
         Word(\h3c6e, \hf372, \hfe94, \hf82b), Word(\ha54f, \hf53a, \h5f1d, \h36f1),
         Word(\h510e, \h527f, \hade6, \h82d1), Word(\h9b05, \h688c, \h2b3e, \h6c1f),
         Word(\h1f83, \hd9ab, \hfb41, \hbd6b), Word(\h5be0, \hcd19, \h137e, \h2179) >>

\* The order in which each of the rounds takes the words of the block.
Sigma == << <<0, 1, 2, 3, 4, 5, 6, 7, 8, 9, 10, 11, 12, 13, 14, 15>>,
            <<14, 10, 4, 8, 9, 15, 13, 6, 1, 12, 0, 2, 11, 7, 5, 3>>,
            <<11, 8, 12, 0, 5, 2, 15, 13, 10, 14, 3, 6, 7, 1, 9, 4>>,
            <<7, 9, 3, 1, 13, 12, 11, 14, 2, 6, 5, 10, 4, 0, 15, 8>>,
            <<9, 0, 5, 7, 2, 4, 10, 15, 14, 1, 11, 12, 6, 8, 3, 13>>,
            <<2, 12, 6, 10, 0, 11, 8, 3, 4, 13, 7, 5, 15, 14, 1, 9>>,
            <<12, 5, 1, 15, 14, 13, 4, 10, 0, 7, 6, 3, 9, 2, 8, 11>>,
            <<13, 11, 7, 14, 12, 1, 3, 9, 5, 0, 15, 4, 8, 6, 2, 10>>,
            <<6, 15, 14, 9, 11, 3, 0, 8, 12, 2, 13, 7, 1, 4, 10, 5>>,
            <<10, 2, 8, 4, 7, 6, 1, 5, 15, 11, 9, 14, 3, 12, 13, 0>>,
            <<0, 1, 2, 3, 4, 5, 6, 7, 8, 9, 10, 11, 12, 13, 14, 15>>,
            <<14, 10, 4, 8, 9, 15, 13, 6, 1, 12, 0, 2, 11, 7, 5, 3>> >>

\* The words the eight mixings of a round work on: the columns, then the diagonals.
Lanes == << <<1, 5, 9, 13>>, <<2, 6, 10, 14>>, <<3, 7, 11, 15>>, <<4, 8, 12, 16>>,
            <<1, 6, 11, 16>>, <<2, 7, 12, 13>>, <<3, 8, 9, 14>>, <<4, 5, 10, 15>> >>

\* load64 and store64: the lowest byte first.
Load64(p) == Bits(p[1], 8) \o Bits(p[2], 8) \o Bits(p[3], 8) \o Bits(p[4], 8)
             \o Bits(p[5], 8) \o Bits(p[6], 8) \o Bits(p[7], 8) \o Bits(p[8], 8)
Store64(w) == [i \in 1 .. 8 |-> Number(SubSeq(w, 8 * i - 7, 8 * i))]

\* Half a mixing: one word of the block, and the two rotations of this half.
Half(q, word, rd, rb) ==
  LET a == Plus(Plus(q[1], q[2]), word)
      d == Rotr(Xor(q[4], a), rd)
      c == Plus(q[3], d)
  IN  <<a, Rotr(Xor(q[2], c), rb), c, d>>

G(v, lane, x, y) ==
  LET q == Half(Half(<<v[lane[1]], v[lane[2]], v[lane[3]], v[lane[4]]>>, x, 32, 24), y, 16, 63)
  IN  [v EXCEPT ![lane[1]] = q[1], ![lane[2]] = q[2], ![lane[3]] = q[3], ![lane[4]] = q[4]]

\* h the chained words, t the two counters, f the two flags of the last block.
Compress(h, t, f, block) ==
  LET m == [i \in 1 .. 16 |-> Load64(SubSeq(block, 8 * i - 7, 8 * i))] \o <<>>
      start == h \o << IV[1], IV[2], IV[3], IV[4], Xor(IV[5], t[1]), Xor(IV[6], t[2]),
                       Xor(IV[7], f[1]), Xor(IV[8], f[2]) >>
      run[v \in Seq(Seq({0, 1})), k \in 0 .. 96] ==
        IF k = 96 THEN v
        ELSE LET s == Sigma[(k \div 8) + 1]
                 i == k % 8
             IN  run[G(v, Lanes[i + 1], m[s[2 * i + 1] + 1], m[s[2 * i + 2] + 1]), k + 1]
      v == run[start, 0]
  IN  [i \in 1 .. 8 |-> Xor(Xor(h[i], v[i]), v[i + 8])] \o <<>>

\* The parameter block, exclusive-ored into the first words.
Start(param) == [i \in 1 .. 8 |-> Xor(IV[i], Load64(SubSeq(param, 8 * i - 7, 8 * i)))] \o <<>>
Output(h) == Store64(h[1]) \o Store64(h[2]) \o Store64(h[3]) \o Store64(h[4])
             \o Store64(h[5]) \o Store64(h[6]) \o Store64(h[7]) \o Store64(h[8])
=============================================================================
