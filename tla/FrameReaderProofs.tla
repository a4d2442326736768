-------------------------- MODULE FrameReaderProofs -------------------------
(***************************************************************************)
(* Proofs about MsgCodec and FrameReader, for all streams of frames, all   *)
(* ways to cut them into reads, and all contents protobuf may accept.      *)
(***************************************************************************)
EXTENDS FrameReader, SequenceTheorems, TLAPS

-----------------------------------------------------------------------------
(* The codec.                                                              *)

LEMMA ByteIsNat == Byte \subseteq Nat
BY SMT DEF Byte

LEMMA ValueIsNat ==
  ASSUME NEW a \in Nat, NEW b \in Nat, NEW c \in Nat, NEW d \in Nat
  PROVE  LittleEndianValue(a, b, c, d) \in Nat
BY SMT DEF LittleEndianValue

LEMMA ElementIsNat ==
  ASSUME NEW s \in Seq(Byte), NEW i \in 1 .. Len(s)
  PROVE  s[i] \in Nat
<1>1. s[i] \in Byte
  OBVIOUS
<1> QED BY <1>1, ByteIsNat

LEMMA Uint32Type ==
  ASSUME NEW s \in Seq(Byte), NEW k \in Nat, k + 4 <= Len(s)
  PROVE  Uint32(s, k) \in Nat
<1>1. /\ k + 1 \in 1 .. Len(s) /\ k + 2 \in 1 .. Len(s)
      /\ k + 3 \in 1 .. Len(s) /\ k + 4 \in 1 .. Len(s)
  OBVIOUS
<1>2. s[k + 1] \in Nat /\ s[k + 2] \in Nat /\ s[k + 3] \in Nat /\ s[k + 4] \in Nat
  BY <1>1, ElementIsNat
<1> QED BY <1>2, ValueIsNat DEF Uint32

LEMMA BytesOfUint32 ==
  ASSUME NEW n \in Nat
  PROVE  /\ n % 256 \in Byte /\ (n \div 256) % 256 \in Byte
         /\ (n \div 65536) % 256 \in Byte /\ (n \div 16777216) % 256 \in Byte
BY SMT DEF Byte

LEMMA LittleEndianIsFourBytes ==
  ASSUME NEW n \in Nat
  PROVE  LittleEndian(n) \in Seq(Byte) /\ Len(LittleEndian(n)) = 4
BY BytesOfUint32, SMT DEF LittleEndian

\* The integers a length or a type can be.
FitsUint32(n) == n \in Nat /\ n < 4294967296

LEMMA ValueOfLittleEndian ==
  ASSUME NEW n, FitsUint32(n)
  PROVE  LittleEndianValue(LittleEndian(n)[1], LittleEndian(n)[2],
                           LittleEndian(n)[3], LittleEndian(n)[4]) = n
BY SMT DEF LittleEndian, LittleEndianValue, FitsUint32

\* Where the parts of a frame are once it is at the front of a buffer.
Layout(msg, l, t, content, more) ==
  /\ msg \in Seq(Byte)
  /\ Len(msg) = 8 + Len(content) + Len(more)
  /\ msg[1] = l[1] /\ msg[2] = l[2] /\ msg[3] = l[3] /\ msg[4] = l[4]
  /\ msg[5] = t[1] /\ msg[6] = t[2] /\ msg[7] = t[3] /\ msg[8] = t[4]
  /\ SubSeq(msg, 9, 8 + Len(content)) = content
  /\ SubSeq(msg, 8 + Len(content) + 1, Len(msg)) = more

LEMMA FrameLayout ==
  ASSUME NEW l \in Seq(Byte), NEW t \in Seq(Byte), Len(l) = 4, Len(t) = 4,
         NEW content \in Seq(Byte), NEW more \in Seq(Byte)
  PROVE  Layout((l \o t \o content) \o more, l, t, content, more)
<1> DEFINE lt    == l \o t
           frame == lt \o content
           msg   == frame \o more
<1>1. /\ lt \in Seq(Byte) /\ Len(lt) = Len(l) + Len(t)
      /\ \A i \in 1 .. Len(l) + Len(t) : lt[i] = IF i <= Len(l) THEN l[i] ELSE t[i - Len(l)]
  BY ConcatProperties
<1>2. Len(lt) = 8
  BY <1>1
<1>3. \A i \in 1 .. 8 : lt[i] = IF i <= 4 THEN l[i] ELSE t[i - 4]
  BY <1>1
<1> HIDE DEF lt
<1>4. /\ frame \in Seq(Byte) /\ Len(frame) = 8 + Len(content)
      /\ \A i \in 1 .. 8 + Len(content) : frame[i] = IF i <= 8 THEN lt[i] ELSE content[i - 8]
  <2>1. /\ frame \in Seq(Byte) /\ Len(frame) = Len(lt) + Len(content)
        /\ \A i \in 1 .. Len(lt) + Len(content) :
             frame[i] = IF i <= Len(lt) THEN lt[i] ELSE content[i - Len(lt)]
    <3>1. lt \in Seq(Byte)
      BY <1>1
    <3> QED BY <3>1, ConcatProperties
  <2> QED BY <1>2, <2>1
<1> HIDE DEF frame
<1>5. /\ msg \in Seq(Byte) /\ Len(msg) = 8 + Len(content) + Len(more)
      /\ \A i \in 1 .. 8 + Len(content) + Len(more) :
           msg[i] = IF i <= 8 + Len(content) THEN frame[i] ELSE more[i - (8 + Len(content))]
  <2>1. /\ msg \in Seq(Byte) /\ Len(msg) = Len(frame) + Len(more)
        /\ \A i \in 1 .. Len(frame) + Len(more) :
             msg[i] = IF i <= Len(frame) THEN frame[i] ELSE more[i - Len(frame)]
    BY <1>4, ConcatProperties
  <2> HIDE DEF msg
  <2> QED BY <1>4, <2>1
<1> HIDE DEF msg
<1>6. \A i \in 1 .. 8 : msg[i] = IF i <= 4 THEN l[i] ELSE t[i - 4]
  <2> SUFFICES ASSUME NEW i \in 1 .. 8 PROVE msg[i] = IF i <= 4 THEN l[i] ELSE t[i - 4]
    OBVIOUS
  <2>1. i \in 1 .. 8 + Len(content) /\ i \in 1 .. 8 + Len(content) + Len(more) /\ i <= 8 + Len(content)
    OBVIOUS
  <2>2. msg[i] = frame[i]
    BY <1>5, <2>1
  <2>3. frame[i] = lt[i]
    BY <1>4, <2>1
  <2> QED BY <1>3, <2>2, <2>3
<1>10. \A i \in 1 .. 4 : msg[i] = l[i] /\ msg[i + 4] = t[i]
  BY <1>6
<1>7. SubSeq(msg, 9, 8 + Len(content)) = content
  <2>1. \A i \in 1 .. Len(content) : msg[9 + i - 1] = content[i]
    BY <1>4, <1>5
  <2> QED BY <1>5, <2>1
<1>8. SubSeq(msg, 8 + Len(content) + 1, Len(msg)) = more
  <2> DEFINE n == 8 + Len(content)
  <2>1. n \in Nat /\ Len(msg) = n + Len(more)
    BY <1>5
  <2>2. \A i \in 1 .. n + Len(more) : msg[i] = IF i <= n THEN frame[i] ELSE more[i - n]
    BY <1>5
  <2> HIDE DEF n
  <2>3. \A i \in 1 .. Len(more) : msg[n + 1 + i - 1] = more[i]
    <3> SUFFICES ASSUME NEW i \in 1 .. Len(more) PROVE msg[n + 1 + i - 1] = more[i]
      OBVIOUS
    <3>1. n + i \in 1 .. n + Len(more) /\ ~(n + i <= n) /\ (n + i) - n = i /\ n + 1 + i - 1 = n + i
      BY <2>1
    <3> QED BY <2>2, <3>1
  <2>4. SubSeq(msg, n + 1, Len(msg)) = more
    BY <1>5, <2>1, <2>3
  <2> QED BY <2>4 DEF n
<1>9. /\ msg[1] = l[1] /\ msg[2] = l[2] /\ msg[3] = l[3] /\ msg[4] = l[4]
      /\ msg[5] = t[1] /\ msg[6] = t[2] /\ msg[7] = t[3] /\ msg[8] = t[4]
  BY <1>10
<1>11. Layout(msg, l, t, content, more)
  BY <1>5, <1>7, <1>8, <1>9 DEF Layout
<1> QED BY <1>11 DEF msg, frame, lt

\* What EncodeProtobuf2String makes of a message, DecodeString2Protobuf turns
\* back into that message, and leaves the bytes behind it for the next call.
THEOREM RoundTrip ==
  ASSUME NEW type \in Registered, NEW content \in Seq(Byte), NEW more \in Seq(Byte),
         FitsUint32(Len(content) + 4), Parses(type, content)
  PROVE  LET msg == Encode(type, content) \o more IN
         /\ Yields(msg)
         /\ Message(msg) = [type |-> type, content |-> content]
         /\ Rest(msg) = more
<1> DEFINE len == Len(content) + 4
           l   == LittleEndian(len)
           t   == LittleEndian(type)
           msg == (l \o t \o content) \o more
<1>1. len \in Nat /\ type \in Nat /\ type # 0 /\ FitsUint32(type)
  BY SMT DEF Registered, FitsUint32
<1>2. l \in Seq(Byte) /\ t \in Seq(Byte) /\ Len(l) = 4 /\ Len(t) = 4
  BY <1>1, LittleEndianIsFourBytes
<1>3. LittleEndianValue(l[1], l[2], l[3], l[4]) = len
  BY ValueOfLittleEndian
<1>4. LittleEndianValue(t[1], t[2], t[3], t[4]) = type
  BY <1>1, ValueOfLittleEndian
<1>6. 4 + len = 8 + Len(content)
  OBVIOUS
<1> HIDE DEF l, t, msg, len
<1>5. Layout(msg, l, t, content, more)
  BY <1>2, FrameLayout DEF msg
<1>7. /\ msg \in Seq(Byte)
      /\ Len(msg) = 8 + Len(content) + Len(more)
      /\ msg[1] = l[1] /\ msg[2] = l[2] /\ msg[3] = l[3] /\ msg[4] = l[4]
      /\ msg[5] = t[1] /\ msg[6] = t[2] /\ msg[7] = t[3] /\ msg[8] = t[4]
      /\ SubSeq(msg, 9, 8 + Len(content)) = content
      /\ SubSeq(msg, 8 + Len(content) + 1, Len(msg)) = more
  BY <1>5 DEF Layout
<1>8. Uint32(msg, 0) = len
  BY <1>3, <1>7 DEF Uint32
<1>9. Uint32(msg, 4) = type
  BY <1>4, <1>7 DEF Uint32
<1>10. Content(msg) = content
  BY <1>6, <1>7, <1>8 DEF Content
<1>11. Rest(msg) = more
  BY <1>6, <1>7, <1>8 DEF Rest
<1>12. Complete(msg)
  BY <1>1, <1>6, <1>7, <1>8 DEF Complete
<1>13. Yields(msg) /\ Message(msg) = [type |-> type, content |-> content]
  BY <1>9, <1>10, <1>12 DEF Yields, Message
<1>14. Encode(type, content) \o more = msg
  BY <1>1 DEF msg, l, t, len, Encode, Framed
<1> QED BY <1>11, <1>13, <1>14

-----------------------------------------------------------------------------
(* The front of the buffer and the script it came from.                    *)

\* buffer_read when e bytes of a stream have been erased and a have arrived.
Window(x, e, a) == SubSeq(x, e + 1, a)

LEMMA WindowProperties ==
  ASSUME NEW x \in Seq(Byte), NEW e \in Nat, NEW a \in Nat, e <= a, a <= Len(x)
  PROVE  /\ Window(x, e, a) \in Seq(Byte)
         /\ Len(Window(x, e, a)) = a - e
         /\ \A i \in 1 .. a - e : Window(x, e, a)[i] = x[e + i]
<1>1. Window(x, e, a) \in Seq(Byte) /\ Len(Window(x, e, a)) = a - e
  BY DEF Window
<1>2. ASSUME NEW i \in 1 .. a - e PROVE Window(x, e, a)[i] = x[e + i]
  BY DEF Window
<1> QED BY <1>1, <1>2

LEMMA WindowUint32 ==
  ASSUME NEW x \in Seq(Byte), NEW e \in Nat, NEW a \in Nat, e <= a, a <= Len(x),
         NEW k \in Nat, k + 4 <= a - e
  PROVE  /\ Uint32(Window(x, e, a), k) = Uint32(x, e + k)
         /\ Uint32(x, e + k) \in Nat
<1> DEFINE w == Window(x, e, a)
<1>1. \A i \in 1 .. a - e : w[i] = x[e + i]
  BY WindowProperties
<1> HIDE DEF w
<1>2. /\ k + 1 \in 1 .. a - e /\ k + 2 \in 1 .. a - e
      /\ k + 3 \in 1 .. a - e /\ k + 4 \in 1 .. a - e
  OBVIOUS
<1>3. /\ w[k + 1] = x[e + (k + 1)] /\ w[k + 2] = x[e + (k + 2)]
      /\ w[k + 3] = x[e + (k + 3)] /\ w[k + 4] = x[e + (k + 4)]
  BY <1>1, <1>2
<1>4. /\ e + (k + 1) = e + k + 1 /\ e + (k + 2) = e + k + 2
      /\ e + (k + 3) = e + k + 3 /\ e + (k + 4) = e + k + 4
  OBVIOUS
<1>5. Uint32(w, k) = Uint32(x, e + k)
  BY <1>3, <1>4 DEF Uint32
<1>6. e + k \in Nat /\ e + k + 4 <= Len(x)
  OBVIOUS
<1> QED BY <1>5, <1>6, Uint32Type DEF w

LEMMA WindowOfWindow ==
  ASSUME NEW x \in Seq(Byte), NEW e \in Nat, NEW a \in Nat, e <= a, a <= Len(x),
         NEW m \in Nat, NEW n \in Nat, m <= n, n <= a - e
  PROVE  Window(Window(x, e, a), m, n) = Window(x, e + m, e + n)
<1> DEFINE w == Window(x, e, a)
           u == SubSeq(w, m + 1, n)
           v == SubSeq(x, e + m + 1, e + n)
<1>1. w \in Seq(Byte) /\ Len(w) = a - e /\ \A i \in 1 .. a - e : w[i] = x[e + i]
  BY WindowProperties
<1> HIDE DEF w
<1>2. /\ u \in Seq(Byte) /\ Len(u) = n - m
      /\ \A i \in 1 .. n - m : u[i] = w[m + i]
  <2>1. n \in 0 .. Len(w) /\ m \in 0 .. n
    BY <1>1
  <2>2. u \in Seq(Byte) /\ Len(u) = n - m
    BY <1>1, <2>1
  <2>3. ASSUME NEW i \in 1 .. n - m PROVE u[i] = w[m + i]
    <3>1. m + 1 + i - 1 = m + i
      OBVIOUS
    <3>2. u[i] = w[m + 1 + i - 1]
      BY <1>1, <2>1
    <3> QED BY <3>1, <3>2
  <2> QED BY <2>2, <2>3
<1>3. /\ v \in Seq(Byte) /\ Len(v) = n - m
      /\ \A i \in 1 .. n - m : v[i] = x[e + m + i]
  OBVIOUS
<1> HIDE DEF u, v
<1>4. ASSUME NEW i \in 1 .. n - m PROVE u[i] = v[i]
  <2>1. m + i \in 1 .. a - e /\ e + (m + i) = e + m + i
    OBVIOUS
  <2> QED BY <1>1, <1>2, <1>3, <2>1
<1>5. u = v
  BY <1>2, <1>3, <1>4
<1>6. u = Window(w, m, n) /\ v = Window(x, e + m, e + n)
  BY DEF u, v, Window
<1> QED BY <1>5, <1>6 DEF w

LEMMA EndType ==
  ASSUME NEW s \in Scripts, NEW k \in 0 .. Len(s.ends)
  PROVE  End(s, k) \in Nat /\ s.bytes \in Seq(Byte) /\ s.ends \in Seq(Nat)
<1>1. s.bytes \in Seq(Byte) /\ s.ends \in Seq(Nat)
  BY ScriptsAssumption DEF Delimited
<1> QED BY <1>1 DEF End

\* The first complete frame of a window that starts with frame k + 1 is that
\* frame, and what is erased with it is that frame and no more.
LEMMA FrontFrame ==
  ASSUME NEW s \in Scripts, NEW k \in 0 .. Len(s.ends), NEW a \in Nat,
         End(s, k) <= a, a <= Len(s.bytes),
         Complete(Window(s.bytes, End(s, k), a))
  PROVE  /\ k + 1 \in 1 .. Len(s.ends)
         /\ End(s, k + 1) \in Nat /\ End(s, k + 1) <= a
         /\ Rest(Window(s.bytes, End(s, k), a)) = Window(s.bytes, End(s, k + 1), a)
         /\ ~Short(s, k + 1) =>
              /\ Yields(Window(s.bytes, End(s, k), a)) <=> Good(s, k + 1)
              /\ Message(Window(s.bytes, End(s, k), a)) = Message(Frame(s, k + 1))
<1> DEFINE x == s.bytes
           e == End(s, k)
           w == Window(x, e, a)
           u == Uint32(w, 0)
<1>1. x \in Seq(Byte) /\ s.ends \in Seq(Nat) /\ e \in Nat
  BY EndType
<1>2. e <= a /\ a <= Len(x) /\ Complete(w)
  OBVIOUS
<1>3. End(s, Len(s.ends)) = Len(x)
  BY ScriptsAssumption DEF Delimited
<1>4. \A j \in 1 .. Len(s.ends) : s.ends[j] = Start(s, j) + 4 + Uint32(x, Start(s, j))
  BY ScriptsAssumption DEF Delimited
<1> HIDE DEF x, e, w, u
<1>5. w \in Seq(Byte) /\ Len(w) = a - e
  BY <1>1, <1>2, WindowProperties DEF w
<1>6. 8 <= a - e /\ u <= a - e - 4
  BY <1>1, <1>2, <1>5 DEF Complete, u
<1>7. u = Uint32(x, e) /\ u \in Nat
  <2>1. 0 + 4 <= a - e /\ e + 0 = e
    BY <1>1, <1>6
  <2> QED BY <1>1, <1>2, <2>1, WindowUint32 DEF u, w
<1>8. Len(s.ends) \in Nat /\ k \in Nat /\ k # Len(s.ends)
  BY <1>1, <1>2, <1>3, <1>6 DEF e
<1>9. k + 1 \in 1 .. Len(s.ends)
  BY <1>8
<1>10. Start(s, k + 1) = e
  BY <1>8 DEF Start, e
<1>11. s.ends[k + 1] = e + 4 + u /\ End(s, k + 1) = e + 4 + u
  BY <1>4, <1>7, <1>8, <1>9, <1>10 DEF End
<1> DEFINE m == 4 + u
           d == a - e
<1>15. /\ m \in Nat /\ d \in Nat /\ 4 <= m /\ m <= d
       /\ e + d = a /\ e + m = e + 4 + u /\ 4 + u = m /\ a - e = d /\ d <= a - e
  <2>1. m \in Nat /\ 4 <= m /\ e + m = e + 4 + u /\ 4 + u = m
    BY <1>1, <1>7
  <2>2. d \in Nat /\ e + d = a /\ a - e = d /\ d <= a - e
    BY <1>1, <1>2
  <2>3. m <= d
    BY <1>6, <1>7, <1>1
  <2> QED BY <2>1, <2>2, <2>3
<1> HIDE DEF m, d
<1>12. Rest(w) = Window(x, End(s, k + 1), a)
  <2>1. Window(w, m, d) = Window(x, e + m, e + d)
    BY <1>1, <1>2, <1>15, WindowOfWindow DEF w
  <2> QED BY <1>5, <1>11, <1>15, <2>1 DEF Rest, u, Window
<1>13. ASSUME ~Short(s, k + 1)
       PROVE  (Yields(w) <=> Good(s, k + 1)) /\ Message(w) = Message(Frame(s, k + 1))
  <2> DEFINE b == e + 4 + u
             f == Frame(s, k + 1)
  <2>1. u >= 4
    BY <1>7, <1>10, <1>13 DEF Short, x
  <2>2. b \in Nat /\ e <= b /\ b <= Len(x) /\ b - e = 4 + u
    BY <1>1, <1>2, <1>6, <1>7
  <2>3. f = Window(x, e, b)
    BY <1>10, <1>11 DEF Frame, Window, x
  <2> HIDE DEF b, f
  <2>4. Len(f) = 4 + u
    BY <1>1, <2>2, <2>3, WindowProperties
  <2>5. Uint32(f, 0) = u
    <3>1. 0 + 4 <= b - e /\ e + 0 = e
      BY <1>1, <1>7, <2>2
    <3> QED BY <1>1, <1>7, <2>2, <2>3, <3>1, WindowUint32
  <2>6. Uint32(f, 4) = Uint32(w, 4)
    <3>1. 4 + 4 <= b - e /\ 4 + 4 <= a - e
      BY <1>6, <1>7, <2>1, <2>2
    <3>2. Uint32(f, 4) = Uint32(x, e + 4)
      BY <1>1, <2>2, <2>3, <3>1, WindowUint32
    <3>3. Uint32(w, 4) = Uint32(x, e + 4)
      BY <1>1, <1>2, <3>1, WindowUint32 DEF w
    <3> QED BY <3>2, <3>3
  <2>7. Content(f) = Content(w)
    <3>1. 8 <= m
      BY <1>7, <1>15, <2>1
    <3>2. m <= a - e /\ m <= b - e
      BY <1>15, <2>2
    <3> 8 \in Nat
      OBVIOUS
    <3>3. Window(w, 8, m) = Window(x, e + 8, e + m)
      BY <1>1, <1>2, <1>15, <3>1, <3>2, WindowOfWindow DEF w
    <3>4. Window(f, 8, m) = Window(x, e + 8, e + m)
      BY <1>1, <1>15, <2>2, <2>3, <3>1, <3>2, WindowOfWindow
    <3>5. Content(w) = Window(w, 8, m)
      BY <1>5, <1>15, <3>1 DEF Content, u, Window
    <3>6. Content(f) = Window(f, 8, m)
      BY <1>15, <2>4, <2>5, <3>1 DEF Content, Window
    <3> QED BY <3>3, <3>4, <3>5, <3>6
  <2>8. Complete(f)
    BY <1>7, <2>1, <2>4, <2>5 DEF Complete
  <2>9. Yields(w) <=> Yields(f)
    BY <1>2, <2>6, <2>7, <2>8 DEF Yields
  <2>10. Good(s, k + 1) <=> Yields(f)
    BY <1>13 DEF Good, f
  <2> QED BY <2>6, <2>7, <2>9, <2>10 DEF Message, f
<1>14. End(s, k + 1) \in Nat /\ End(s, k + 1) <= a
  <2>1. End(s, k + 1) = e + m /\ e \in Nat /\ a \in Nat
    BY <1>1, <1>11, <1>15
  <2> QED BY <1>15, <2>1
<1> QED BY <1>9, <1>12, <1>13, <1>14 DEF w, x, e

LEMMA ContentType ==
  ASSUME NEW w \in Seq(Byte), Len(w) >= 8
  PROVE  Content(w) \in Seq(Byte)
<1>1. Uint32(w, 0) \in Nat
  <2>1. 0 + 4 <= Len(w) /\ 0 \in Nat
    OBVIOUS
  <2> QED BY <2>1, Uint32Type
<1>2. ASSUME NEW n \in 8 .. Len(w) PROVE SubSeq(w, 9, n) \in Seq(Byte)
  OBVIOUS
<1> QED BY <1>1, <1>2 DEF Content

-----------------------------------------------------------------------------
(* The inductive invariant: the reader is in sync, and no further in the   *)
(* script than the bytes that have arrived.                                *)

Behind == End(script, parsed) <= arrived

IInv ==
  /\ TypeOK /\ Behind /\ InSync /\ OnlyGood /\ AllGood /\ HeldBackByBad

LEMMA IInvFacts ==
  ASSUME IInv
  PROVE  /\ script \in Scripts /\ script.bytes \in Seq(Byte)
         /\ parsed \in 0 .. Len(script.ends) /\ parsed \in Nat
         /\ arrived \in Nat /\ arrived <= Len(script.bytes)
         /\ End(script, parsed) \in Nat /\ End(script, parsed) <= arrived
         /\ buffer_read = Window(script.bytes, End(script, parsed), arrived)
         /\ buffer_read \in Seq(Byte)
<1>1. script \in Scripts /\ parsed \in 0 .. Len(script.ends)
  BY DEF IInv, TypeOK
<1>2. script.bytes \in Seq(Byte) /\ End(script, parsed) \in Nat /\ script.ends \in Seq(Nat)
  BY <1>1, EndType
<1>3. arrived \in Nat /\ arrived <= Len(script.bytes) /\ parsed \in Nat
  BY <1>1, <1>2 DEF IInv, TypeOK
<1> QED BY <1>1, <1>2, <1>3 DEF IInv, TypeOK, Behind, InSync, Window

LEMMA InitIInv == Init => IInv
<1> SUFFICES ASSUME Init PROVE IInv
  OBVIOUS
<1>1. script \in Scripts /\ script.bytes \in Seq(Byte) /\ script.ends \in Seq(Nat)
  BY ScriptsAssumption DEF Init, Delimited
<1>2. arrived \in 0 .. Len(script.bytes) /\ parsed \in 0 .. Len(script.ends)
  BY <1>1 DEF Init
<1>3. TypeOK
  BY <1>1, <1>2 DEF Init, TypeOK
<1>4. End(script, parsed) = 0
  BY DEF Init, End
<1>5. InSync
  BY <1>1, <1>4 DEF Init, InSync
<1>6. HeldBackByBad
  BY DEF Init, HeldBackByBad, Complete
<1> QED
  BY <1>3, <1>4, <1>5, <1>6 DEF Init, IInv, Behind, OnlyGood, AllGood

LEMMA ReadSomeIInv ==
  ASSUME IInv, NEW n \in 1 .. ReadMax, ReadSome(n)
  PROVE  IInv'
<1> DEFINE x == script.bytes
           e == End(script, parsed)
<1>1. /\ x \in Seq(Byte) /\ e \in Nat /\ arrived \in Nat /\ e <= arrived
      /\ arrived <= Len(x) /\ buffer_read = Window(x, e, arrived)
  BY IInvFacts
<1>2. n \in Nat /\ n >= 1
  BY ReadMaxAssumption
<1>3. /\ n <= Len(x) - arrived
      /\ buffer_read' = buffer_read \o SubSeq(x, arrived + 1, arrived + n)
      /\ arrived' = arrived + n /\ reading' = "decoding"
      /\ UNCHANGED <<script, parsed, delivered>>
  BY DEF ReadSome
<1> HIDE DEF x, e
<1>4. e + 1 \in 1 .. Len(x) + 1 /\ arrived \in (e + 1) - 1 .. Len(x)
      /\ arrived + n \in arrived .. Len(x)
  BY <1>1, <1>2, <1>3
<1>5. buffer_read' = SubSeq(x, e + 1, arrived + n)
  BY <1>1, <1>3, <1>4, ConcatAdjacentSubSeq DEF Window
<1>6. arrived + n \in Nat /\ e <= arrived + n /\ arrived + n <= Len(x)
  BY <1>1, <1>2, <1>4
<1>7. buffer_read' \in Seq(Byte)
  BY <1>1, <1>5, <1>6, WindowProperties DEF Window
<1>8. TypeOK'
  <2>1. arrived' \in 0 .. Len(x)
    BY <1>3, <1>6
  <2> QED BY <1>3, <1>7, <2>1 DEF IInv, TypeOK, x
<1>9. Behind' /\ InSync'
  BY <1>3, <1>5, <1>6 DEF Behind, InSync, x, e
<1> QED BY <1>3, <1>8, <1>9 DEF IInv, OnlyGood, AllGood, HeldBackByBad

LEMMA DeliverIInv ==
  ASSUME IInv, Deliver
  PROVE  IInv'
<1> DEFINE w == Window(script.bytes, End(script, parsed), arrived)
           p == parsed + 1
           m == Message(w)
           N == Len(delivered)
<1>1. /\ Yields(buffer_read) /\ buffer_read' = Rest(buffer_read) /\ parsed' = parsed + 1
      /\ delivered' = Append(delivered, [frame |-> parsed + 1, message |-> Message(buffer_read)])
      /\ reading' = "decoding" /\ UNCHANGED <<script, arrived>>
  BY DEF Deliver, TakeMessage
<1>2. /\ script \in Scripts /\ parsed \in 0 .. Len(script.ends) /\ parsed \in Nat
      /\ arrived \in Nat /\ arrived <= Len(script.bytes) /\ End(script, parsed) <= arrived
      /\ buffer_read = w /\ w \in Seq(Byte)
  BY IInvFacts
<1>3. Complete(w)
  BY <1>1, <1>2 DEF Yields
<1>4. /\ p \in 1 .. Len(script.ends) /\ End(script, p) <= arrived
      /\ Rest(w) = Window(script.bytes, End(script, p), arrived)
      /\ ~Short(script, p) => Good(script, p) /\ m = Message(Frame(script, p))
      /\ End(script, p) \in Nat /\ script.bytes \in Seq(Byte)
  BY <1>1, <1>2, <1>3, FrontFrame, EndType
<1>5. m \in [type : Registered, content : Seq(Byte)]
  <2>1. Uint32(w, 4) \in Registered
    BY <1>1, <1>2 DEF Yields
  <2>2. Content(w) \in Seq(Byte)
    BY <1>2, <1>3, ContentType DEF Complete
  <2> QED BY <2>1, <2>2 DEF Message
<1>6. p \in Nat /\ p > parsed /\ parsed' = p
  BY <1>1, <1>2
<1>7. delivered \in Seq([frame : Nat, message : [type : Registered, content : Seq(Byte)]])
  BY DEF IInv, TypeOK
<1> DEFINE r == [frame |-> p, message |-> m]
<1>8. r \in [frame : Nat, message : [type : Registered, content : Seq(Byte)]]
  BY <1>5, <1>6
<1>9. r.frame = p /\ r.message = m
  OBVIOUS
<1>10. delivered' = Append(delivered, r)
  BY <1>1, <1>2
<1>11. buffer_read' = Window(script.bytes, End(script, p), arrived)
  BY <1>1, <1>2, <1>4
<1> HIDE DEF w, p, m, r
<1>12. /\ N \in Nat /\ Len(delivered') = N + 1
       /\ \A i \in 1 .. N : delivered'[i] = delivered[i]
       /\ delivered'[N + 1] = r
       /\ delivered' \in Seq([frame : Nat, message : [type : Registered, content : Seq(Byte)]])
  BY <1>7, <1>8, <1>10, AppendProperties
<1> HIDE DEF N
<1>13. TypeOK'
  <2>1. buffer_read' \in Seq(Byte)
    BY <1>2, <1>4, <1>11, WindowProperties
  <2>2. parsed' \in 0 .. Len(script.ends)
    BY <1>4, <1>6
  <2> QED BY <1>1, <1>12, <2>1, <2>2 DEF IInv, TypeOK
<1>14. Behind' /\ InSync'
  BY <1>1, <1>4, <1>6, <1>11 DEF Behind, InSync, Window
<1>15. \A i \in 1 .. N : delivered[i].frame \in 1 .. parsed
  BY DEF IInv, OnlyGood, N
<1>16. OnlyGood'
  <2>1. ASSUME NEW i \in 1 .. N + 1
        PROVE  /\ delivered'[i].frame \in 1 .. p
               /\ ~Short(script, delivered'[i].frame) =>
                    /\ Good(script, delivered'[i].frame)
                    /\ delivered'[i].message = Message(Frame(script, delivered'[i].frame))
    <3>1. CASE i = N + 1
      <4>1. p \in 1 .. p
        BY <1>2, <1>6
      <4> QED BY <1>4, <1>9, <1>12, <3>1, <4>1
    <3>2. CASE i \in 1 .. N
      <4>1. delivered[i].frame \in 1 .. p
        BY <1>2, <1>6, <1>15, <3>2
      <4> QED BY <1>12, <3>2, <4>1 DEF IInv, OnlyGood, N
    <3> QED BY <1>12, <3>1, <3>2
  <2>2. ASSUME NEW i \in 1 .. N + 1, NEW j \in 1 .. N + 1, i < j
        PROVE  delivered'[i].frame < delivered'[j].frame
    <3>1. i \in 1 .. N
      BY <1>12, <2>2
    <3>2. CASE j = N + 1
      <4>1. delivered[i].frame \in 1 .. parsed
        BY <1>15, <3>1
      <4>2. delivered[i].frame < p
        BY <1>2, <1>6, <4>1
      <4> QED BY <1>9, <1>12, <3>1, <3>2, <4>2
    <3>3. CASE j \in 1 .. N
      BY <1>12, <2>2, <3>1, <3>3 DEF IInv, OnlyGood, N
    <3> QED BY <1>12, <3>2, <3>3
  <2> QED BY <1>1, <1>6, <1>12, <2>1, <2>2 DEF OnlyGood
<1>17. AllGood'
  <2> SUFFICES ASSUME NEW k \in 1 .. p, Good(script, k)
               PROVE  \E i \in 1 .. N + 1 : delivered'[i].frame = k
    BY <1>1, <1>6, <1>12 DEF AllGood
  <2>1. CASE k = p
    <3>1. N + 1 \in 1 .. N + 1
      BY <1>12
    <3> QED BY <1>9, <1>12, <2>1, <3>1
  <2>2. CASE k \in 1 .. parsed
    <3>1. PICK i \in 1 .. N : delivered[i].frame = k
      BY <2>2 DEF IInv, AllGood, N
    <3>2. i \in 1 .. N + 1
      BY <1>12
    <3> QED BY <1>12, <3>1, <3>2
  <2> QED BY <1>2, <2>1, <2>2 DEF p
<1>18. HeldBackByBad'
  BY <1>1 DEF HeldBackByBad
<1> QED BY <1>13, <1>14, <1>16, <1>17, <1>18 DEF IInv

LEMMA StopDecodingIInv ==
  ASSUME IInv, StopDecoding
  PROVE  IInv'
<1> DEFINE w == Window(script.bytes, End(script, parsed), arrived)
           p == parsed + 1
<1>1. ~Yields(buffer_read) /\ reading' = "armed" /\ UNCHANGED <<script, arrived, delivered>>
  BY DEF StopDecoding
<1>2. /\ script \in Scripts /\ parsed \in 0 .. Len(script.ends) /\ parsed \in Nat
      /\ arrived \in Nat /\ arrived <= Len(script.bytes) /\ End(script, parsed) <= arrived
      /\ buffer_read = w /\ script.bytes \in Seq(Byte)
  BY IInvFacts
<1> HIDE DEF w, p
<1>3. CASE ~Complete(buffer_read)
  <2>1. UNCHANGED <<buffer_read, parsed>>
    BY <1>3 DEF StopDecoding
  <2> QED
    BY <1>1, <1>3, <2>1
    DEF IInv, TypeOK, Behind, InSync, OnlyGood, AllGood, HeldBackByBad
<1>4. CASE Complete(buffer_read)
  <2>1. buffer_read' = Rest(buffer_read) /\ parsed' = p
    BY <1>4 DEF StopDecoding, p
  <2>2. Complete(w) /\ ~Yields(w)
    BY <1>1, <1>2, <1>4
  <2>3. /\ p \in 1 .. Len(script.ends) /\ End(script, p) <= arrived
        /\ Rest(w) = Window(script.bytes, End(script, p), arrived)
        /\ End(script, p) \in Nat
        /\ ~Short(script, p) => ~Good(script, p)
    BY <1>2, <2>2, FrontFrame DEF w, p
  <2>11. ~Good(script, p)
    BY <2>3 DEF Good
  <2>4. p \in Nat /\ p > parsed
    BY <1>2 DEF p
  <2>5. buffer_read' = Window(script.bytes, End(script, p), arrived)
    BY <1>2, <2>1, <2>3
  <2>6. TypeOK'
    <3>1. buffer_read' \in Seq(Byte)
      BY <1>2, <2>3, <2>5, WindowProperties
    <3>2. parsed' \in 0 .. Len(script.ends)
      BY <2>1, <2>3, <2>4
    <3> QED BY <1>1, <3>1, <3>2 DEF IInv, TypeOK
  <2>7. Behind' /\ InSync'
    BY <1>1, <2>1, <2>3, <2>5 DEF Behind, InSync, Window
  <2>8. OnlyGood'
    <3>1. \A i \in 1 .. Len(delivered) : delivered[i].frame \in 1 .. p
      <4> SUFFICES ASSUME NEW i \in 1 .. Len(delivered) PROVE delivered[i].frame \in 1 .. p
        OBVIOUS
      <4>1. delivered[i].frame \in 1 .. parsed
        BY DEF IInv, OnlyGood
      <4> QED BY <1>2, <2>4, <4>1
    <3> QED BY <1>1, <2>1, <3>1 DEF IInv, OnlyGood
  <2>9. AllGood'
    <3> SUFFICES ASSUME NEW k \in 1 .. p, Good(script, k)
                 PROVE  \E i \in 1 .. Len(delivered) : delivered[i].frame = k
      BY <1>1, <2>1 DEF AllGood
    <3>1. k \in 1 .. parsed
      <4>1. k # p
        BY <2>11
      <4> QED BY <1>2, <4>1 DEF p
    <3> QED BY <3>1 DEF IInv, AllGood
  <2>10. HeldBackByBad'
    BY <1>1, <1>2, <2>1, <2>4, <2>11 DEF HeldBackByBad
  <2> QED BY <2>6, <2>7, <2>8, <2>9, <2>10 DEF IInv
<1> QED BY <1>3, <1>4

LEMMA RestIInv ==
  ASSUME IInv, ReadError \/ UNCHANGED vars
  PROVE  IInv'
<1>1. CASE ReadError
  BY <1>1 DEF ReadError, IInv, TypeOK, Behind, InSync, OnlyGood, AllGood, HeldBackByBad
<1>2. CASE UNCHANGED vars
  BY <1>2 DEF vars, IInv, TypeOK, Behind, InSync, OnlyGood, AllGood, HeldBackByBad
<1> QED BY <1>1, <1>2

\* The invariant holds in every reachable state of the reader, whatever the
\* peer sends and however it arrives.
THEOREM Invariance == Spec => []IInv
<1>1. IInv /\ [Next]_vars => IInv'
  <2> SUFFICES ASSUME IInv, [Next]_vars PROVE IInv'
    OBVIOUS
  <2>1. ASSUME NEW n \in 1 .. ReadMax, ReadSome(n) PROVE IInv'
    BY <2>1, ReadSomeIInv
  <2>2. CASE Deliver
    BY <2>2, DeliverIInv
  <2>3. CASE StopDecoding
    BY <2>3, StopDecodingIInv
  <2>4. CASE ReadError \/ UNCHANGED vars
    BY <2>4, RestIInv
  <2> QED BY <2>1, <2>2, <2>3, <2>4 DEF Next
<1> QED BY <1>1, InitIInv, PTL DEF Spec

\* TypeOK for every set of scripts and every size of buffer_read_tmp.
THEOREM TypeCorrect == Spec => []TypeOK
<1>1. IInv => TypeOK
  BY DEF IInv
<1> QED BY <1>1, Invariance, PTL

\* The reader never loses its place in the stream.
THEOREM StaysInSync == Spec => []InSync
<1>1. IInv => InSync
  BY DEF IInv
<1> QED BY <1>1, Invariance, PTL

\* What on_read is called with is good frames, once and in order.
THEOREM DeliversTheGoodFrames == Spec => []OnlyGood
<1>1. IInv => OnlyGood
  BY DEF IInv
<1> QED BY <1>1, Invariance, PTL

\* No good frame that OnRead has passed was left out.
THEOREM SkipsNone == Spec => []AllGood
<1>1. IInv => AllGood
  BY DEF IInv
<1> QED BY <1>1, Invariance, PTL

\* A complete frame waits in memory only behind one that was just dropped.
THEOREM HeldBackOnlyByBad == Spec => []HeldBackByBad
<1>1. IInv => HeldBackByBad
  BY DEF IInv
<1> QED BY <1>1, Invariance, PTL
=============================================================================
