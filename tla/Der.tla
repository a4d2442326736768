---------------------------------- MODULE Der ----------------------------------
(***************************************************************************)
(* The DER form of a signature (src/cipher/secp256k1/ecdsa_impl.h): a      *)
(* sequence of bytes that holds two integers.  A reader is a position in   *)
(* the bytes, from 1, or a failure.                                        *)
(***************************************************************************)
EXTENDS Integers, Sequences

CONSTANTS
  Order,           \* the integers are scalars, below the order
  SCALAR_BYTES,    \* 32
  SIZE_T           \* the bytes of a size_t, 8

Fail == [ok |-> FALSE, value |-> 0, pos |-> 0]
Read(value, pos) == [ok |-> TRUE, value |-> value, pos |-> pos]

BigEndian(b) == LET f[i \in 0 .. Len(b)] == IF i = 0 THEN 0 ELSE f[i - 1] * 256 + b[i] IN f[Len(b)]

\* A length in one byte, or the number of its bytes and then as few of them as can be.
DerReadLen(sig, pos) ==
  LET b1 == sig[pos]
      lenleft == b1 - 128
      rest == Len(sig) - pos             \* the bytes after the first
      \* Each byte read must leave room for the rest of the length and what it counts so far.
      long[k \in 0 .. lenleft, ret \in Nat] ==
        IF k = lenleft THEN IF ret < 128 THEN Fail ELSE Read(ret, pos + 1 + k)
        ELSE LET now == ret * 256 + sig[pos + 1 + k]
             IN  IF now + (lenleft - k) > rest - k THEN Fail ELSE long[k + 1, now]
  IN  IF pos > Len(sig) \/ b1 = 255 THEN Fail
      ELSE IF b1 < 128 THEN Read(b1, pos + 1)
      ELSE IF b1 = 128 \/ lenleft > rest \/ sig[pos + 1] = 0 \/ lenleft > SIZE_T THEN Fail
      ELSE long[0, 0]

\* An integer that is negative, too long or not below the order is read as zero.
DerParseInteger(sig, pos) ==
  LET len == DerReadLen(sig, pos + 1)
      first == sig[len.pos]
      second == sig[len.pos + 1]
      end == len.pos + len.value
      Zeros == CHOOSE z \in 0 .. len.value : /\ \A k \in 0 .. z - 1 : sig[len.pos + k] = 0
                                             /\ z < len.value => sig[len.pos + z] # 0
      digits == SubSeq(sig, len.pos + Zeros, end - 1)
      overflow == first >= 128 \/ Len(digits) > SCALAR_BYTES
  IN  IF pos > Len(sig) \/ sig[pos] # 2 THEN Fail
      ELSE IF ~len.ok \/ len.value = 0 \/ end - 1 > Len(sig) THEN Fail
      ELSE IF len.value > 1 /\ ((first = 0 /\ second < 128) \/ (first = 255 /\ second >= 128)) THEN Fail
      ELSE Read(IF overflow \/ BigEndian(digits) >= Order THEN 0 ELSE BigEndian(digits), end)

SigParse(sig) ==
  LET len == DerReadLen(sig, 2)
      r == DerParseInteger(sig, len.pos)
      s == DerParseInteger(sig, r.pos)
      Refused == [ok |-> FALSE, r |-> 0, s |-> 0]
  IN  IF sig = <<>> \/ sig[1] # 48 THEN Refused
      ELSE IF ~len.ok \/ len.pos + len.value - 1 # Len(sig) THEN Refused
      ELSE IF ~r.ok \/ ~s.ok \/ s.pos - 1 # Len(sig) THEN Refused
      ELSE [ok |-> TRUE, r |-> r.value, s |-> s.value]

\* The bytes of a scalar after a zero byte, without the zero bytes that can be left out.
Shortest(v) ==
  LET b == [i \in 1 .. SCALAR_BYTES + 1 |-> (v \div 256^(SCALAR_BYTES + 1 - i)) % 256]
      skip == CHOOSE k \in 0 .. SCALAR_BYTES :
                /\ \A j \in 1 .. k : b[j] = 0 /\ b[j + 1] < 128
                /\ k = SCALAR_BYTES \/ b[k + 1] # 0 \/ b[k + 2] >= 128
  IN  SubSeq(b, skip + 1, SCALAR_BYTES + 1)

\* Where the caller's room is too small, size says how much is needed.
SigSerialize(r, s, room) ==
  LET rp == Shortest(r)
      sp == Shortest(s)
      size == 6 + Len(rp) + Len(sp)
  IN  IF room < size THEN [ok |-> FALSE, size |-> size, sig |-> <<>>]
      ELSE [ok |-> TRUE, size |-> size,
            sig |-> <<48, 4 + Len(rp) + Len(sp), 2, Len(rp)>> \o rp \o <<2, Len(sp)>> \o sp]
=============================================================================
