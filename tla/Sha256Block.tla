------------------------------ MODULE Sha256Block ------------------------------
(***************************************************************************)
(* The transformation SHA-256 makes of one block of 64 bytes, as           *)
(* src/cipher/secp256k1/hash_impl.h computes it: sixteen words that are    *)
(* extended as the rounds consume them, and eight working variables.  A    *)
(* word is 32 bits, the lowest first; the constants are written as halves. *)
(***************************************************************************)
EXTENDS BitWords

Word(high, low) == Bits(low, 16) \o Bits(high, 16)

Initial == << Word(\h6a09, \he667), Word(\hbb67, \hae85), Word(\h3c6e, \hf372),
              Word(\ha54f, \hf53a), Word(\h510e, \h527f), Word(\h9b05, \h688c),
              Word(\h1f83, \hd9ab), Word(\h5be0, \hcd19) >>

\* The constants of the 64 rounds, high half then low half.
K == << \h428a, \h2f98, \h7137, \h4491, \hb5c0, \hfbcf, \he9b5, \hdba5,
        \h3956, \hc25b, \h59f1, \h11f1, \h923f, \h82a4, \hab1c, \h5ed5,
        \hd807, \haa98, \h1283, \h5b01, \h2431, \h85be, \h550c, \h7dc3,
        \h72be, \h5d74, \h80de, \hb1fe, \h9bdc, \h06a7, \hc19b, \hf174,
        \he49b, \h69c1, \hefbe, \h4786, \h0fc1, \h9dc6, \h240c, \ha1cc,
        \h2de9, \h2c6f, \h4a74, \h84aa, \h5cb0, \ha9dc, \h76f9, \h88da,
        \h983e, \h5152, \ha831, \hc66d, \hb003, \h27c8, \hbf59, \h7fc7,
        \hc6e0, \h0bf3, \hd5a7, \h9147, \h06ca, \h6351, \h1429, \h2967,
        \h27b7, \h0a85, \h2e1b, \h2138, \h4d2c, \h6dfc, \h5338, \h0d13,
        \h650a, \h7354, \h766a, \h0abb, \h81c2, \hc92e, \h9272, \h2c85,
        \ha2bf, \he8a1, \ha81a, \h664b, \hc24b, \h8b70, \hc76c, \h51a3,
        \hd192, \he819, \hd699, \h0624, \hf40e, \h3585, \h106a, \ha070,
        \h19a4, \hc116, \h1e37, \h6c08, \h2748, \h774c, \h34b0, \hbcb5,
        \h391c, \h0cb3, \h4ed8, \haa4a, \h5b9c, \hca4f, \h682e, \h6ff3,
        \h748f, \h82ee, \h78a5, \h636f, \h84c8, \h7814, \h8cc7, \h0208,
        \h90be, \hfffa, \ha450, \h6ceb, \hbef9, \ha3f7, \hc671, \h78f2 >>

Ch(x, y, z) == Xor(z, And(x, Xor(y, z)))
Maj(x, y, z) == Or(And(x, y), And(z, Or(x, y)))
Sigma0(x) == Xor(Xor(Rotr(x, 2), Rotr(x, 13)), Rotr(x, 22))
Sigma1(x) == Xor(Xor(Rotr(x, 6), Rotr(x, 11)), Rotr(x, 25))
sigma0(x) == Xor(Xor(Rotr(x, 7), Rotr(x, 18)), Shr(x, 3))
sigma1(x) == Xor(Xor(Rotr(x, 17), Rotr(x, 19)), Shr(x, 10))

\* Bytes to words and back, the highest byte first (the macro BE32).
BE32(p) == Bits(p[4], 8) \o Bits(p[3], 8) \o Bits(p[2], 8) \o Bits(p[1], 8)
BytesOf(w) == [i \in 1 .. 4 |-> Number(SubSeq(w, 33 - 8 * i, 40 - 8 * i))]

\* v = <<a, ..., h>>.  The code rotates the names instead of the values.
Round(v, k, w) ==
  LET t1 == Plus(Plus(Plus(Plus(v[8], Sigma1(v[5])), Ch(v[5], v[6], v[7])), k), w)
      t2 == Plus(Sigma0(v[1]), Maj(v[1], v[2], v[3]))
  IN  << Plus(t1, t2), v[1], v[2], v[3], Plus(v[4], t1), v[5], v[6], v[7] >>

\* The words of the 64 rounds: each new one replaces the word of 16 rounds before.
Schedule(block) ==
  LET extend[w \in Seq(Seq({0, 1}))] ==
        LET t == Len(w) + 1
        IN  IF t = 65 THEN w
            ELSE extend[Append(w, Plus(Plus(Plus(w[t - 16], sigma1(w[t - 2])), w[t - 7]),
                                       sigma0(w[t - 15])))]
  IN  extend[[i \in 1 .. 16 |-> BE32(SubSeq(block, 4 * i - 3, 4 * i))] \o <<>>]

Transform(s, block) ==
  LET w == Schedule(block)
      run[v \in Seq(Seq({0, 1})), r \in 1 .. 65] ==
        IF r = 65 THEN v ELSE run[Round(v, Word(K[2 * r - 1], K[2 * r]), w[r]), r + 1]
      end == run[s, 1]
  IN  << Plus(s[1], end[1]), Plus(s[2], end[2]), Plus(s[3], end[3]), Plus(s[4], end[4]),
         Plus(s[5], end[5]), Plus(s[6], end[6]), Plus(s[7], end[7]), Plus(s[8], end[8]) >>

Output(s) == BytesOf(s[1]) \o BytesOf(s[2]) \o BytesOf(s[3]) \o BytesOf(s[4])
             \o BytesOf(s[5]) \o BytesOf(s[6]) \o BytesOf(s[7]) \o BytesOf(s[8])
=============================================================================
