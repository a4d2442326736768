------------------------------- MODULE MCDigests -------------------------------
(***************************************************************************)
(* The hashes and the cipher, to run beside the scalars.  A message is fed *)
(* in pieces to SHA-256 and BLAKE2b at once, over transformations that     *)
(* only record the blocks they are given; apart from that, the real        *)
(* transformations, at their full width, answer questions whose answers    *)
(* are known, and chaining and padding run over a toy cipher with blocks   *)
(* of three bytes of two bits.                                             *)
(***************************************************************************)
EXTENDS Integers, Sequences, SequencesExt, TLC

VARIABLES
  sha, blake,    \* the two states
  fed,           \* how many bytes they were given
  digest,        \* what they gave in the end, or Open
  task           \* the question that is asked, <<kind, what>>, or None

digestVars == <<sha, blake, fed, digest, task>>

MaxFed == 300
Pieces == {0, 1, 55, 64, 72, 127, 128, 129}
Open == [sha |-> "open", blake |-> "open"]
None == <<"none", 0>>

Record(s, b) == Append(s, b)
Recorded(s) == s
Symbolic == INSTANCE Sha256 WITH Transform <- Record, Initial <- <<>>, Output <- Recorded
Parameters(p) == <<p>>
RecordFour(h, t, f, b) == Append(h, <<t, f, b>>)
Spread(h) == [i \in 1 .. 64 |-> h] \o <<>>
SymbolicBlake == INSTANCE Blake2b WITH Start <- Parameters, Compress <- RecordFour, Output <- Spread

ShaBlock == INSTANCE Sha256Block
Sha == INSTANCE Sha256 WITH Transform <- ShaBlock!Transform, Initial <- ShaBlock!Initial,
                            Output <- ShaBlock!Output
BlakeBlock == INSTANCE Blake2bBlock
Blake == INSTANCE Blake2b WITH Start <- BlakeBlock!Start, Compress <- BlakeBlock!Compress,
                               Output <- BlakeBlock!Output
A == INSTANCE Aes

\* A cipher on blocks of three, and its inverse.
ToyEncrypt(b) == <<(b[2] + 1) % 4, b[3], (b[1] + 2) % 4>>
ToyDecrypt(b) == <<(b[3] + 2) % 4, (b[1] + 3) % 4, b[2]>>
XorTwoBits(a, b) == 2 * (((a \div 2) + (b \div 2)) % 2) + ((a + b) % 2)
Cbc == INSTANCE AesCbc WITH Encrypt <- ToyEncrypt, Decrypt <- ToyDecrypt, MixByte <- XorTwoBits,
                            AES_BLOCKSIZE <- 3

Message(from, n) == [i \in 1 .. n |-> (7 * (from + i)) % 256]
Key == Message(100, 32)
Counting(n) == [i \in 1 .. n |-> i - 1]
Plain == [i \in 1 .. 16 |-> 17 * (i - 1)]
ToyIV == <<1, 2, 3>>

-----------------------------------------------------------------------------
Questions == {"sha", "hmac", "hmac, long key", "nonces", "nonce", "shared", "blake 8", "blake 64", "blake 100",
              "blake 20", "counter", "aes 128", "aes 192", "aes 256", "aes inverse"}
Asked == ({"known"} \X Questions) \cup ({"byte"} \X (0 .. 255))
         \cup ({"text"} \X UNION {[1 .. n -> 0 .. 3] : n \in 0 .. 4})

\* Answers of other implementations: FIPS 180-4 and 197, RFC 2104 and 6979, RFC 7693, Argon2.
Known ==
     "sha" :> <<
       186, 120, 22, 191, 143, 1, 207, 234, 65, 65, 64, 222, 93, 174, 34, 35, 176, 3, 97, 163,
       150, 23, 122, 156, 180, 16, 255, 97, 242, 0, 21, 173 >>
  @@ "hmac" :> <<
       29, 236, 149, 206, 179, 107, 68, 236, 16, 43, 83, 228, 161, 196, 244, 122, 42, 60, 19,
       177, 253, 177, 157, 93, 76, 240, 36, 72, 86, 220, 192, 86 >>
  @@ "hmac, long key" :> <<
       248, 118, 97, 84, 2, 47, 172, 58, 192, 60, 240, 45, 110, 120, 62, 58, 152, 124, 46, 76,
       173, 173, 141, 247, 239, 91, 44, 165, 86, 59, 220, 122 >>
  @@ "nonces" :> <<
       9, 234, 229, 216, 116, 4, 182, 11, 197, 201, 216, 124, 229, 255, 162, 174, 96, 197, 25,
       33, 88, 28, 232, 114, 129, 207, 36, 167, 237, 66, 235, 109, 38, 34, 184, 128, 254, 168,
       69, 73, 214, 0, 122, 167, 24, 19, 228, 57, 227, 225, 135, 113, 98, 234, 71, 207, 37,
       134, 45, 102, 179, 208, 195, 203, 39, 245, 85, 48, 219, 104, 161, 255 >>
  @@ "nonce" :> <<
       11, 1, 6, 241, 94, 30, 55, 182, 158, 205, 170, 162, 78, 45, 47, 117, 73, 126, 216, 172,
       172, 125, 129, 217, 58, 210, 233, 22, 117, 93, 143, 197 >>
  @@ "shared" :> <<
       19, 197, 45, 191, 230, 65, 175, 198, 189, 33, 34, 177, 140, 60, 238, 141, 114, 144, 176,
       76, 241, 46, 233, 11, 11, 43, 143, 136, 199, 186, 31, 188 >>
  @@ "blake 8" :> <<
       216, 187, 20, 216, 51, 213, 149, 89 >>
  @@ "blake 64" :> <<
       16, 191, 68, 92, 94, 84, 131, 117, 117, 0, 82, 232, 193, 45, 227, 114, 170, 50, 185,
       195, 216, 190, 124, 23, 213, 173, 127, 182, 176, 228, 38, 156, 154, 160, 58, 214, 91,
       144, 11, 37, 212, 179, 14, 160, 210, 175, 213, 121, 223, 150, 20, 171, 116, 178, 34,
       126, 21, 101, 219, 135, 75, 92, 215, 86 >>
  @@ "blake 100" :> <<
       8, 159, 170, 215, 183, 115, 141, 148, 143, 223, 37, 186, 100, 106, 14, 34, 29, 48, 178,
       17, 140, 89, 154, 232, 157, 191, 72, 208, 242, 145, 203, 21, 52, 127, 148, 185, 18, 8,
       79, 73, 64, 89, 92, 167, 181, 72, 138, 122, 114, 110, 176, 210, 4, 117, 190, 187, 112,
       251, 108, 5, 6, 75, 193, 58, 74, 81, 232, 191, 24, 25, 145, 109, 90, 99, 64, 134, 147,
       248, 138, 203, 156, 37, 12, 102, 160, 204, 23, 179, 107, 127, 220, 210, 40, 229, 7, 68,
       123, 109, 109, 80 >>
  @@ "blake 20" :> <<
       177, 8, 42, 54, 95, 112, 192, 139, 90, 246, 9, 31, 186, 2, 50, 23, 190, 223, 118, 179 >>
  @@ "aes 128" :> <<
       105, 196, 224, 216, 106, 123, 4, 48, 216, 205, 183, 128, 112, 180, 197, 90 >>
  @@ "aes 192" :> <<
       221, 169, 124, 164, 134, 76, 223, 224, 110, 175, 112, 160, 236, 13, 113, 145 >>
  @@ "aes 256" :> <<
       142, 162, 183, 202, 81, 103, 69, 191, 234, 252, 73, 144, 75, 73, 96, 137 >>
  @@ "aes inverse" :> Plain

Answer(q) ==
  CASE q = "sha" -> Sha!Sha256(<<97, 98, 99>>)
    [] q = "hmac" -> Sha!HmacFinalize(Sha!HmacWrite(Sha!HmacInitialize(<<1, 2, 3>>), Message(0, 5)))
    [] q = "hmac, long key" ->
         Sha!HmacFinalize(Sha!HmacWrite(Sha!HmacInitialize(Message(0, 65)), Message(0, 5)))
    [] q = "nonces" -> LET first == Sha!RngGenerate(Sha!RngInitialize(<<0, 1, 2, 3, 4>>), 32)
                       IN  first.out \o Sha!RngGenerate(first.rng, 40).out
    [] q = "nonce" -> Sha!NonceRfc6979(Message(0, 32), Key, Message(5, 16), Message(50, 32), 2)
    [] q = "shared" -> Sha!EcdhHash(Message(100, 32), Message(9, 32))
    [] q = "blake 8" -> Blake!GetHash(<<97, 98, 99>>)
    [] q = "blake 64" -> Blake!Hash(64, Message(0, 200), Message(0, 32))
    [] q = "blake 100" -> Blake!Long(100, Message(0, 3))
    [] q = "blake 20" -> Blake!Long(20, Message(0, 129))
    [] q = "counter" -> LET full == [Blake!Wiped EXCEPT !.t = <<Blake!Not(Blake!Word(5)), @[2]>>]
                        IN  <<Blake!IncrementCounter(full, Blake!Word(5)).t,
                              Blake!IncrementCounter(full, Blake!Word(6)).t>>
    [] q = "aes 128" -> A!Encrypt(A!AES128(Counting(16)), 10, Plain)
    [] q = "aes 192" -> A!Encrypt(A!AES192(Counting(24)), 12, Plain)
    [] q = "aes 256" -> A!Encrypt(A!AES256(Counting(32)), 14, Plain)
    [] q = "aes inverse" -> A!Decrypt(A!AES256(Counting(32)), 14, Known["aes 256"])

Byte(q) == LET b == A!Bits(q, 8) IN <<A!SubByte(b), A!InvSubByte(A!SubByte(b))>>
Text(q) == [sealed |-> Cbc!AesEncode(ToyIV, q), unpadded |-> Cbc!CBCEncrypt(ToyIV, q, FALSE),
            opened |-> Cbc!AesDecode(ToyIV, q).out]

Idle == sha = <<>> /\ blake = <<>> /\ fed = 0 /\ digest = Open

DigestInit ==
  \/ /\ sha = Symbolic!Initialize
     /\ blake \in {SymbolicBlake!BlakeInit(64).S, SymbolicBlake!InitKey(64, Key).S}
     /\ fed = 0 /\ digest = Open /\ task = None
  \/ Idle /\ task = None

Feed == /\ sha # <<>> /\ digest = Open
        /\ \E n \in Pieces :
             /\ fed + n <= MaxFed /\ fed' = fed + n
             /\ sha' = Symbolic!Write(sha, Message(fed, n))
             /\ blake' = SymbolicBlake!Update(blake, Message(fed, n)).S
        /\ UNCHANGED <<digest, task>>

Finish == /\ sha # <<>> /\ digest = Open
          /\ LET end == SymbolicBlake!Final(blake, 64)
             IN  /\ digest' = [sha |-> Symbolic!Finalize(sha), blake |-> end.out[64]]
                 /\ blake' = end.S
          /\ UNCHANGED <<sha, fed, task>>

Ask == /\ Idle /\ task = None /\ task' \in Asked
       /\ UNCHANGED <<sha, blake, fed, digest>>

DigestNext == Feed \/ Finish \/ Ask

-----------------------------------------------------------------------------
\* The blocks of SHA-256: a bit, zeros, and the length in bits that ends the last block.
Padded(m) == LET zeros == CHOOSE z \in 0 .. 63 : (Len(m) + 9 + z) % 64 = 0
                 length == [i \in 1 .. 8 |-> IF i <= 4 THEN 0 ELSE ((8 * Len(m)) \div 256^(8 - i)) % 256]
             IN  m \o <<128>> \o [i \in 1 .. zeros |-> 0] \o length
ShaBlocks(m) == [k \in 1 .. Len(Padded(m)) \div 64 |-> SubSeq(Padded(m), 64 * k - 63, 64 * k)] \o <<>>

\* The blocks of BLAKE2b, each with the count of bytes up to its end; the last one is flagged.
BlakeBlocks(m) ==
  LET n == IF m = <<>> THEN 1 ELSE (Len(m) + 127) \div 128
      zero == SymbolicBlake!Word(0)
      Upto(k) == IF k = n THEN Len(m) ELSE 128 * k
      Block(k) == SubSeq(m, 128 * k - 127, Upto(k)) \o [i \in 1 .. 128 * k - Upto(k) |-> 0]
  IN  [k \in 1 .. n |-> << <<SymbolicBlake!Word(Upto(k)), zero>>,
                           <<IF k = n THEN SymbolicBlake!Ones ELSE zero, zero>>, Block(k) >>] \o <<>>

Whole == LET m == Message(0, fed)
             keyed == Head(digest.blake)[2] # 0
         IN  /\ digest.sha = ShaBlocks(m)
             /\ Tail(digest.blake) = BlakeBlocks(IF keyed THEN Key \o [i \in 1 .. 96 |-> 0] \o m ELSE m)
             /\ ~SymbolicBlake!Update(blake, <<1>>).ok /\ ~SymbolicBlake!Final(blake, 64).ok

\* A digest depends on the bytes of the message and never on the pieces they came in
\* (secp256k1_sha256_write and blake2b_update with their buffers); a BLAKE2b state that has
\* given its digest takes nothing more and gives no second one.
CutsDoNotMatter == [][digest' # Open => Whole']_digestVars

\* The product of two bytes in the field of AES, and the affine map of its S-box.
Product(a, b) ==
  LET g[i \in 0 .. 8] == IF i = 0 THEN A!Byte0
                         ELSE LET p == A!MultX(g[i - 1]) IN IF b[9 - i] = 1 THEN A!Xor(p, a) ELSE p
  IN  g[8]
Affine(b) == [i \in 1 .. 8 |-> (b[i] + b[((i + 3) % 8) + 1] + b[((i + 4) % 8) + 1] + b[((i + 5) % 8) + 1]
                                + b[((i + 6) % 8) + 1] + A!Bits(99, 8)[i]) % 2]

Counted == << <<Blake!Ones, Blake!Word0>>, <<Blake!Word0, Blake!Word(1)>> >>
Substituted(q) ==
  LET b == A!Bits(q, 8)
  IN  /\ Byte(q)[2] = b
      /\ \E i \in 0 .. 255 : LET c == A!Bits(i, 8)
                             IN  /\ IF q = 0 THEN i = 0 ELSE Product(b, c) = A!Bits(1, 8)
                                 /\ Byte(q)[1] = Affine(c)

\* SHA-256, HMAC, the nonces, BLAKE2b of any length, its counter and AES give what others give;
\* the circuit of gates in SubBytes is the inverse in the field followed by the affine map.
AnswersKnown ==
  [][/\ task'[1] = "known" => Answer(task'[2]) = IF task'[2] = "counter" THEN Counted ELSE Known[task'[2]]
     /\ task'[1] = "byte" => Substituted(task'[2])]_digestVars

Sealed(m) ==
  LET a == Text(m)
  IN  /\ a.sealed.ok = (m # <<>>)
      /\ a.sealed.ok => Cbc!AesDecode(ToyIV, a.sealed.out) = [ok |-> TRUE, out |-> m]
      /\ IF Len(m) % 3 = 0 THEN Cbc!CBCDecrypt(ToyIV, a.unpadded, FALSE) = m ELSE a.unpadded = <<>>
      /\ a.opened # <<>> => Cbc!AesEncode(ToyIV, a.opened) = [ok |-> TRUE, out |-> m]

\* What AesEncode seals AesDecode opens, with the padding it had, except that the empty text is
\* not sealed; and what is opened to something is the only text that is sealed so: no two
\* paddings of one text are taken (CBCEncrypt and CBCDecrypt of aes.cpp).
SealOpens == [][task'[1] = "text" => Sealed(task'[2])]_digestVars
=============================================================================
