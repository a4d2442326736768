------------------------------ MODULE MsgCodec ------------------------------
(***************************************************************************)
(* The framing of net/msg.cpp.  A frame is a uint32 length, a uint32 type  *)
(* and a content; the length counts the type and the content, and both     *)
(* integers are little endian, as the memcpy of the code leaves them on    *)
(* the hosts it is built for.  A byte is a number below 256 and a string   *)
(* a sequence of bytes.                                                    *)
(***************************************************************************)
EXTENDS Integers, Sequences

\* Parses(type, content) says whether protobuf's ParseFromString accepts the
\* content for a message of this type (protobuf is not in the repository).
CONSTANT Parses(_, _)

Byte == 0 .. 255

(* The six types of msg.hpp that InitMsgType registers.                    *)
Registered == 1 .. 6

(* memcpy of a uint32 into, and out of, a string at offset k.              *)
LittleEndian(n) ==
  <<n % 256, (n \div 256) % 256, (n \div 65536) % 256, (n \div 16777216) % 256>>

LittleEndianValue(a, b, c, d) == a + 256 * b + 65536 * c + 16777216 * d

Uint32(s, k) == LittleEndianValue(s[k + 1], s[k + 2], s[k + 3], s[k + 4])

(* The bytes of a frame.  SerializeToString gives less than 2^31 bytes, so *)
(* the length fits.                                                        *)
Framed(type, content) ==
  LittleEndian(Len(content) + 4) \o LittleEndian(type) \o content

(* Msg::EncodeProtobuf2String.  The type is the one that GetMsgType finds  *)
(* for the name of the message; without one, nothing is encoded.           *)
Encode(type, content) == IF type = 0 THEN <<>> ELSE Framed(type, content)

-----------------------------------------------------------------------------
(* Msg::DecodeString2Protobuf(msg), in the order of its tests.             *)

(* Enough has arrived: both integers, and as many bytes as len announces.  *)
CompleteForgetsPrefix(msg) ==       \* a fault: the 4 bytes of len are counted in
  Len(msg) >= 8 /\ Len(msg) >= Uint32(msg, 0)

Complete(msg) == Len(msg) >= 8 /\ Len(msg) - 4 >= Uint32(msg, 0)

(* substr(8, len - 4), which stops at the end of the string.  The count is *)
(* a size_t, so a len below 4 makes it huge and the rest is all taken.     *)
Content(msg) ==
  LET last == 4 + Uint32(msg, 0) IN
  IF last >= 8 /\ last <= Len(msg) THEN SubSeq(msg, 9, last) ELSE SubSeq(msg, 9, Len(msg))

(* erase(0, 4 + len)                                                       *)
RestNoPrefix(msg) == SubSeq(msg, Uint32(msg, 0) + 1, Len(msg))  \* a fault

Rest(msg) == SubSeq(msg, 4 + Uint32(msg, 0) + 1, Len(msg))

(* A message is returned, or a null pointer for a complete frame of an     *)
(* unregistered type or a content that does not parse.                     *)
Yields(msg) ==
  /\ Complete(msg)
  /\ Uint32(msg, 4) \in Registered
  /\ Parses(Uint32(msg, 4), Content(msg))

Message(msg) == [type |-> Uint32(msg, 4), content |-> Content(msg)]
=============================================================================
