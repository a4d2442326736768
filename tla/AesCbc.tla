--------------------------------- MODULE AesCbc ---------------------------------
(***************************************************************************)
(* Cipher block chaining with the padding that names its own length, over  *)
(* any block cipher (src/cipher/aes/aes.cpp).  Data is a sequence of bytes;*)
(* the result is the sequence written, empty where the code returns 0.     *)
(***************************************************************************)
EXTENDS Integers, Sequences, SequencesExt

CONSTANTS Encrypt(_), Decrypt(_), MixByte(_, _), AES_BLOCKSIZE

Block(data, k) == SubSeq(data, AES_BLOCKSIZE * (k - 1) + 1, AES_BLOCKSIZE * k)
Blocks(data) == Len(data) \div AES_BLOCKSIZE
Mixed(a, b) == [i \in 1 .. AES_BLOCKSIZE |-> MixByte(a[i], b[i])] \o <<>>

\* The blocks that are written, the vector first, after each block of the data.
Chained(iv, data) ==
  LET c[k \in 0 .. Blocks(data)] ==
        IF k = 0 THEN iv
        ELSE c[k - 1] \o Encrypt(Mixed(Block(c[k - 1], k), Block(data, k)))
  IN  c

CBCEncrypt(iv, data, pad) ==
  LET padsize == Len(data) % AES_BLOCKSIZE
      last == SubSeq(data, Len(data) - padsize + 1, Len(data))
              \o [i \in 1 .. AES_BLOCKSIZE - padsize |-> AES_BLOCKSIZE - padsize]
      all == Chained(iv, data)[Blocks(data)]
      padded == IF pad THEN all \o Encrypt(Mixed(Block(all, Blocks(data) + 1), last)) ELSE all
  IN  IF data = <<>> \/ (~pad /\ padsize # 0) THEN <<>>
      ELSE SubSeq(padded, AES_BLOCKSIZE + 1, Len(padded))

\* A fault: of the padding only its last byte is looked at.
LastByteOnly(block, padsize) == block[AES_BLOCKSIZE] = padsize
WellFormed(block, padsize) ==
  \A i \in 1 .. AES_BLOCKSIZE : i > AES_BLOCKSIZE - padsize => block[i] = padsize

\* The text after each block of the data.
Unchain(iv, data) ==
  LET plain[k \in 0 .. Blocks(data)] ==
        IF k = 0 THEN <<>>
        ELSE plain[k - 1] \o Mixed(Decrypt(Block(data, k)), Block(iv \o data, k))
  IN  plain

\* The padding is checked without leaving early; a wrong one makes the result empty.
CBCDecrypt(iv, data, pad) ==
  LET n == Blocks(data)
      out == Unchain(iv, data)[n]
      lastByte == out[Len(out)]
      inRange == lastByte # 0 /\ lastByte <= AES_BLOCKSIZE
      padsize == IF inRange THEN lastByte ELSE 0
  IN  IF data = <<>> \/ Len(data) % AES_BLOCKSIZE # 0 THEN <<>>
      ELSE IF ~pad THEN out
      ELSE IF inRange /\ WellFormed(Block(out, n), padsize) THEN SubSeq(out, 1, Len(out) - padsize)
      ELSE <<>>

\* The program's calls (key_tool.cpp), in which the key is filled up or cut to its size.  The room
\* for the result is one block more than the data fills, and opening does not tell a failure.
Room(in) == AES_BLOCKSIZE * (Blocks(in) + 1)
AesEncode(iv, in) ==
  LET sealed == CBCEncrypt(iv, in, TRUE)
  IN  IF Len(iv) # AES_BLOCKSIZE THEN [ok |-> FALSE, out |-> <<>>]
      ELSE [ok |-> Len(sealed) = Room(in), out |-> sealed \o [i \in 1 .. Room(in) - Len(sealed) |-> 0]]
AesDecode(iv, in) ==
  IF Len(iv) # AES_BLOCKSIZE THEN [ok |-> FALSE, out |-> [i \in 1 .. Room(in) |-> 0]]
  ELSE [ok |-> TRUE, out |-> CBCDecrypt(iv, in, TRUE)]
=============================================================================
