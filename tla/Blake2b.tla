-------------------------------- MODULE Blake2b --------------------------------
(***************************************************************************)
(* BLAKE2b of a message that arrives in pieces, with or without a key      *)
(* (src/cipher/blake2/blake2b.cc).  Every call returns the new state and   *)
(* whether it succeeded (0 or -1 in the code); a state that has given its  *)
(* digest, or whose initialisation failed, refuses every later call.       *)
(***************************************************************************)
EXTENDS BitWords

CONSTANTS Start(_), Compress(_, _, _, _), Output(_)

BLOCKBYTES == 128
OUTBYTES == 64
KEYBYTES == 64

Word(x) == Bits(x, 16) \o Zeros(48)
Word0 == Word(0)
Ones == Not(Word0)

Wiped == [h |-> <<>>, t |-> <<Word0, Word0>>, f |-> <<Word0, Word0>>, buf |-> <<>>,
          outlen |-> 0, last_node |-> FALSE]

SetLastBlock(S) == [S EXCEPT !.f = <<Ones, IF S.last_node THEN Ones ELSE @[2]>>]
Invalidated == SetLastBlock(Wiped)
Reused(S) == S.f[1] # Word0

\* The second counter takes the carry of the first.
Advanced(t, inc) ==
  LET low == Plus(t[1], inc)
      wrapped == \E i \in 1 .. 64 : /\ low[i] < inc[i]
                                    /\ \A j \in (i + 1) .. 64 : low[j] = inc[j]
  IN  <<low, IF wrapped THEN Plus(t[2], Word(1)) ELSE t[2]>>
IncrementCounter(S, inc) == [S EXCEPT !.t = Advanced(@, inc)]

Compressed(S, block, inc) ==
  LET c == IncrementCounter(S, Word(inc))
  IN  [c EXCEPT !.h = Compress(S.h, c.t, c.f, block)]

\* digest length, key length, fanout 1, depth 1, the rest 0.
Param(outlen, keylen) == <<outlen, keylen, 1, 1>> \o Zeros(60)
InitParam(outlen, keylen) == [Wiped EXCEPT !.h = Start(Param(outlen, keylen)), !.outlen = outlen]

-----------------------------------------------------------------------------
\* A fault: a full buffer is compressed at once, also where it is the last.
WholeEager(len) == len \div BLOCKBYTES
\* A full buffer is kept until more data comes: the last block is compressed by final only.
Whole(len) == IF len <= BLOCKBYTES THEN 0 ELSE (len - 1) \div BLOCKBYTES

\* The states after the whole blocks of some bytes, from the state S before them.
Chain(S, all) ==
  LET s[k \in 0 .. Whole(Len(all))] ==
        IF k = 0 THEN S
        ELSE Compressed(s[k - 1], SubSeq(all, BLOCKBYTES * (k - 1) + 1, BLOCKBYTES * k), BLOCKBYTES)
  IN  s

Update(S, in) ==
  LET all == S.buf \o in
      whole == Whole(Len(all))
  IN  IF in = <<>> THEN [ok |-> TRUE, S |-> S]
      ELSE IF Reused(S) THEN [ok |-> FALSE, S |-> S]
      ELSE [ok |-> TRUE, S |-> [Chain(S, all)[whole] EXCEPT
                                  !.buf = SubSeq(all, BLOCKBYTES * whole + 1, Len(all))]]

BlakeInit(outlen) ==
  IF outlen = 0 \/ outlen > OUTBYTES THEN [ok |-> FALSE, S |-> Invalidated]
  ELSE [ok |-> TRUE, S |-> InitParam(outlen, 0)]

\* The key fills a block of its own before the message.
InitKey(outlen, key) ==
  IF outlen = 0 \/ outlen > OUTBYTES \/ key = <<>> \/ Len(key) > KEYBYTES
  THEN [ok |-> FALSE, S |-> Invalidated]
  ELSE [ok |-> TRUE, S |-> Update(InitParam(outlen, Len(key)), key \o Zeros(BLOCKBYTES - Len(key))).S]

\* outlen is the room the caller has; the digest has the length given to init.
Final(S, outlen) ==
  IF outlen < S.outlen \/ Reused(S) THEN [ok |-> FALSE, S |-> S, out |-> <<>>]
  ELSE LET block == S.buf \o Zeros(BLOCKBYTES - Len(S.buf))
           end == Compressed(SetLastBlock(S), block, Len(S.buf))
       IN  [ok |-> TRUE, S |-> [end EXCEPT !.h = <<>>, !.buf = <<>>],
            out |-> SubSeq(Output(end.h), 1, S.outlen)]

Hash(outlen, in, key) ==
  LET S == IF key = <<>> THEN BlakeInit(outlen) ELSE InitKey(outlen, key)
  IN  IF ~S.ok THEN <<>> ELSE Final(Update(S.S, in).S, outlen).out

\* Eight bytes for a string, which the program reads as one number (key_tool.cpp).
GetHash(str) == Final(Update(BlakeInit(8).S, str).S, 8).out

-----------------------------------------------------------------------------
\* A digest of any length: 32 bytes of each hash in a chain, and all of the last one.
Long(outlen, in) ==
  LET head == <<outlen % 256, (outlen \div 256) % 256, (outlen \div 65536) % 256, outlen \div 16777216>>
      chain[V \in Seq(Nat), toproduce \in Nat] ==
        IF toproduce <= OUTBYTES THEN Hash(toproduce, V, <<>>)
        ELSE LET next == Hash(OUTBYTES, V, <<>>)
             IN  SubSeq(next, 1, OUTBYTES \div 2) \o chain[next, toproduce - (OUTBYTES \div 2)]
      first == Hash(OUTBYTES, head \o in, <<>>)
  IN  IF outlen <= OUTBYTES THEN Hash(outlen, head \o in, <<>>)
      ELSE SubSeq(first, 1, OUTBYTES \div 2) \o chain[first, outlen - (OUTBYTES \div 2)]
=============================================================================
