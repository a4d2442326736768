---------------------------- MODULE FrameReader -----------------------------
(***************************************************************************)
(* The read half of net/client_item.cpp: Start arms an asynchronous read,  *)
(* OnRead appends what arrived to buffer_read, decodes and delivers        *)
(* messages until Msg::DecodeString2Protobuf returns a null pointer, and   *)
(* arms the next read.  Only one read is ever outstanding, so the loop     *)
(* runs on one thread at a time; but the others run between its turns, and *)
(* one turn of the loop is one step here.                                  *)
(*                                                                         *)
(* The peer's bytes arrive in pieces of any size.  A script is all it will *)
(* ever send, and where each of its frames ends.                           *)
(***************************************************************************)
EXTENDS MsgCodec

CONSTANTS
  Scripts,   \* the byte streams a peer may send
  ReadMax    \* the size of buffer_read_tmp

(* Where frame k starts in a script is where the one before it ends.       *)
End(s, k)   == IF k = 0 THEN 0 ELSE s.ends[k]
Start(s, k) == End(s, k - 1)

(* Frames are delimited by their lengths, whatever their types and         *)
(* contents are; the last one may still miss bytes.                        *)
Delimited(s) ==
  /\ s.bytes \in Seq(Byte) /\ s.ends \in Seq(Nat)
  /\ \A k \in 1 .. Len(s.ends) :
       /\ Start(s, k) + 4 <= Len(s.bytes)
       /\ s.ends[k] = Start(s, k) + 4 + Uint32(s.bytes, Start(s, k))
       /\ s.ends[k] <= Len(s.bytes)
  /\ End(s, Len(s.ends)) = Len(s.bytes)

ASSUME ScriptsAssumption == \A s \in Scripts : Delimited(s)
ASSUME ReadMaxAssumption == ReadMax \in Nat \ {0}

VARIABLES
  script,      \* what this peer sends
  arrived,     \* how many of its bytes have been read from the socket
  buffer_read, \* bytes read and not yet decoded
  reading,     \* "armed", "decoding" (in OnRead's loop) or "ended"
  parsed,      \* frames erased from buffer_read
  delivered    \* messages passed to on_read, with the frame each came from

vars == <<script, arrived, buffer_read, reading, parsed, delivered>>

-----------------------------------------------------------------------------
(* Start: the read is armed over an empty buffer.                          *)
Init ==
  /\ script \in Scripts
  /\ arrived = 0
  /\ buffer_read = <<>>
  /\ reading = "armed"
  /\ parsed = 0
  /\ delivered = <<>>

(* A fault: the buffer is replaced, not appended to.                       *)
ReadSomeReplaces(n) ==
  /\ reading = "armed"
  /\ n <= Len(script.bytes) - arrived
  /\ buffer_read' = SubSeq(script.bytes, arrived + 1, arrived + n)
  /\ arrived' = arrived + n
  /\ reading' = "decoding"
  /\ UNCHANGED <<script, parsed, delivered>>

(* OnRead(no error, n) up to its loop.                                     *)
ReadSome(n) ==
  /\ reading = "armed"
  /\ n <= Len(script.bytes) - arrived
  /\ buffer_read' = buffer_read \o SubSeq(script.bytes, arrived + 1, arrived + n)
  /\ arrived' = arrived + n
  /\ reading' = "decoding"
  /\ UNCHANGED <<script, parsed, delivered>>

(* A turn of the loop that decodes a message and calls on_read with it.    *)
TakeMessage(next) ==
  /\ reading = "decoding"
  /\ Yields(buffer_read)
  /\ delivered' = Append(delivered, [frame |-> parsed + 1, message |-> Message(buffer_read)])
  /\ buffer_read' = Rest(buffer_read)
  /\ parsed' = parsed + 1
  /\ reading' = next
  /\ UNCHANGED <<script, arrived>>

DeliverOnce == TakeMessage("armed")     \* a fault: an if in place of the while

Deliver == TakeMessage("decoding")

(* A fault: a frame that yields no message is left in the buffer.          *)
StopDecodingKeepsBad ==
  /\ reading = "decoding"
  /\ ~Yields(buffer_read)
  /\ UNCHANGED <<buffer_read, parsed>>
  /\ reading' = "armed"
  /\ UNCHANGED <<script, arrived, delivered>>

(* The turn that gets a null pointer ends the loop, and the read is armed  *)
(* again.  A complete frame that yields no message is erased all the same. *)
StopDecoding ==
  /\ reading = "decoding"
  /\ ~Yields(buffer_read)
  /\ IF Complete(buffer_read)
     THEN buffer_read' = Rest(buffer_read) /\ parsed' = parsed + 1
     ELSE UNCHANGED <<buffer_read, parsed>>
  /\ reading' = "armed"
  /\ UNCHANGED <<script, arrived, delivered>>

(* OnRead(error, _): on_error is called and no read is armed any more.     *)
ReadError ==
  /\ reading = "armed"
  /\ reading' = "ended"
  /\ UNCHANGED <<script, arrived, buffer_read, parsed, delivered>>

Next ==
  \/ \E n \in 1 .. ReadMax : ReadSome(n)
  \/ Deliver
  \/ StopDecoding
  \/ ReadError

Spec == Init /\ [][Next]_vars

(* The handler runs to its end, and bytes that are on their way arrive.    *)
FairSpec ==
  /\ Spec
  /\ WF_vars(\E n \in 1 .. ReadMax : ReadSome(n))
  /\ WF_vars(Deliver \/ StopDecoding)

-----------------------------------------------------------------------------
(* Properties.                                                             *)

\* What a frame of the script holds, on its own.
Frame(s, k) == SubSeq(s.bytes, Start(s, k) + 1, s.ends[k])

\* A frame whose length does not even cover its type.
Short(s, k) == Uint32(s.bytes, Start(s, k)) < 4

\* A frame every reader must deliver: its length covers its type, the type is
\* registered and the content parses.
Good(s, k) == ~Short(s, k) /\ Yields(Frame(s, k))

TypeOK ==
  /\ script \in Scripts
  /\ arrived \in 0 .. Len(script.bytes)
  /\ buffer_read \in Seq(Byte)
  /\ reading \in {"armed", "decoding", "ended"}
  /\ parsed \in 0 .. Len(script.ends)
  /\ delivered \in Seq([frame : Nat, message : [type : Registered, content : Seq(Byte)]])

\* The reader never loses its place: however the stream is cut into reads, and
\* whatever unknown or malformed frames it carries, buffer_read starts at the
\* first byte of a frame and holds all that arrived from there on.
InSync == buffer_read = SubSeq(script.bytes, End(script, parsed) + 1, arrived)

\* Messages are delivered in the order of their frames, none twice, and never
\* from an unknown or unparsable frame; each one is what its own frame holds.
\* (A frame shorter than its type is the exception: see Content.)
OnlyGood ==
  /\ \A i \in 1 .. Len(delivered) :
       /\ delivered[i].frame \in 1 .. parsed
       /\ ~Short(script, delivered[i].frame) =>
            /\ Good(script, delivered[i].frame)
            /\ delivered[i].message = Message(Frame(script, delivered[i].frame))
  /\ \A i, j \in 1 .. Len(delivered) : i < j => delivered[i].frame < delivered[j].frame

\* No good frame is skipped, even behind one that was dropped.
AllGood ==
  \A k \in 1 .. parsed :
    Good(script, k) => \E i \in 1 .. Len(delivered) : delivered[i].frame = k

\* The loop leaves a complete frame undelivered, with the read armed and the
\* frame's bytes in memory, only behind a frame it has just dropped.
HeldBackByBad ==
  reading = "armed" /\ Complete(buffer_read) =>
    /\ parsed > 0
    /\ ~Good(script, parsed)

\* Such a frame is not lost: any later byte from the peer sets it free.
NextReadFrees ==
  \A k \in 0 .. 3 :
    (parsed = k /\ Complete(buffer_read) /\ arrived < Len(script.bytes))
      ~> (parsed > k \/ reading = "ended")

\* A peer that sends only good frames gets every one of them handled, unless
\* the connection ends first.
GoodPeerServed ==
  (\A k \in 1 .. Len(script.ends) : Good(script, k))
    => <>(Len(delivered) = Len(script.ends) \/ reading = "ended")
=============================================================================
