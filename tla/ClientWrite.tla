---------------------------- MODULE ClientWrite -----------------------------
(***************************************************************************)
(* The write half of net/client_item.cpp: ClientItem::Write, called from   *)
(* any thread, and ClientItem::OnWrite, the completion handler of the      *)
(* asynchronous write it starts.  Both hold mutex_buffer_write from their  *)
(* first to their last statement, so each is one step.                     *)
(*                                                                         *)
(* A byte is its position in the stream of all encoded frames ever         *)
(* appended: buffer_write holds the positions erased+1 .. appended.  What  *)
(* the socket accepted is compared with that numbering, which is how a     *)
(* lost, repeated or reordered byte shows.                                 *)
(***************************************************************************)
EXTENDS Naturals, FiniteSets

CONSTANTS
  FrameSizes, \* the sizes of what the messages passed to Write encode to
  SockBuf,    \* bytes the socket's send buffer holds
  MaxBytes    \* bound on the bytes appended in one behaviour

ASSUME FrameSizesAssumption == FrameSizes \subseteq Nat
ASSUME SockBufAssumption    == SockBuf \in Nat \ {0}
ASSUME MaxBytesAssumption   == MaxBytes \in Nat

(* A message of a registered type.  Any other encodes to no bytes at all,  *)
(* and the properties below are not true of its write.                     *)
NoEmptyFrame == 0 \notin FrameSizes

VARIABLES
  appended,  \* bytes ever appended to buffer_write
  erased,    \* bytes ever erased from its front
  ops,       \* the writes asked of the socket whose handler has not run
  started,   \* how many were asked for, the id of the newest
  sent,      \* bytes the socket has accepted
  misplaced, \* socket positions that got some other position's byte
  garbled,   \* socket positions that got what was left in freed memory
  taken,     \* bytes the peer has read
  broken,    \* the peer has reset the connection
  errors     \* on_error callbacks made by OnWrite

vars == <<appended, erased, ops, started, sent, misplaced, garbled,
          taken, broken, errors>>

-----------------------------------------------------------------------------
(* One async_write_some: `first` and `size` are the bytes its buffer       *)
(* covers, `mem` is where they are: buffer_write's block ("member"), the   *)
(* block it had before it grew ("moved"), or the `buf` of Write ("local"). *)
(* A queued write waits for room in the socket; done and failed ones wait  *)
(* for OnWrite.                                                            *)
Op == [id : Nat, first : Nat, size : Nat \ {0}, mem : {"member", "moved", "local"},
       state : {"queued", "done", "failed"}, n : Nat]

Room == SockBuf - (sent - taken)

Init ==
  /\ appended = 0 /\ erased = 0
  /\ ops = {} /\ started = 0
  /\ sent = 0 /\ misplaced = {} /\ garbled = {}
  /\ taken = 0 /\ broken = FALSE
  /\ errors = 0

(* The socket accepts n bytes, from position `first` of the stream on.     *)
Accept(first, n, intact) ==
  LET wire == (sent + 1) .. (sent + n) IN
  /\ sent' = sent + n
  /\ misplaced' = IF first = sent + 1 THEN misplaced ELSE misplaced \cup wire
  /\ garbled'   = IF intact THEN garbled ELSE garbled \cup wire

Nothing == UNCHANGED <<sent, misplaced, garbled>>

(* socket.async_write_some(first .. first+size-1).  The socket is tried at *)
(* once, while the caller's buffer is certainly alive; a write that has to *)
(* wait is performed by the reactor after the caller has returned, from    *)
(* the memory `mem` names.  A write of no bytes does not get to the socket *)
(* and is done.  `keep` are the writes already outstanding.                *)
AsyncWriteSome(keep, first, size, mem, mayDefer) ==
  LET o(s, n) == [id |-> started + 1, first |-> first, size |-> size, mem |-> mem,
                  state |-> s, n |-> n]
  IN
  /\ started' = started + 1
  /\ \/ /\ broken /\ size > 0
        /\ ops' = keep \cup {o("failed", 0)}
        /\ Nothing
     \/ /\ ~broken \/ size = 0
        /\ \E n \in 0 .. size :
             /\ n <= Room /\ (n = 0 => size = 0)
             /\ ops' = keep \cup {o("done", n)}
             /\ Accept(first, n, TRUE)
     \/ /\ ~broken /\ size > 0
        /\ Room = 0 \/ mayDefer
        /\ ops' = keep \cup {o("queued", 0)}
        /\ Nothing

(* std::string::append may move the string to a larger block: a queued     *)
(* write that points into the old one is left dangling.                    *)
Moved(o) ==
  IF o.state = "queued" /\ o.mem = "member" THEN [o EXCEPT !.mem = "moved"] ELSE o

Outstanding(moved) == IF moved THEN {Moved(o) : o \in ops} ELSE ops

(* ClientItem::Write(msg), with a message that encodes to s bytes.  The    *)
(* socket is given `buf`, a local of Write, when buffer_write was empty:   *)
(* if the write must wait, buf is gone by the time it is performed.        *)
AppendFrame(s, start) ==
  /\ appended + s <= MaxBytes
  /\ appended' = appended + s
  /\ \E moved \in BOOLEAN :
       \/ /\ start
          /\ AsyncWriteSome(Outstanding(moved), appended + 1, s, "local", FALSE)
       \/ /\ ~start
          /\ ops' = Outstanding(moved)
          /\ UNCHANGED started /\ Nothing
  /\ UNCHANGED <<erased, taken, broken, errors>>

WriteAlwaysStarts(s) == AppendFrame(s, TRUE)   \* a fault: the test is left out

Write(s) == AppendFrame(s, s = appended + s - erased)

(* ClientItem::OnWrite(no error, o.n).  What is left of buffer_write is    *)
(* offered to the socket again, from the member this time.  After a short  *)
(* write asio does not try the socket again before it reports writable.    *)
Finish(o, k, again) ==
  /\ o \in ops /\ o.state = "done"
  /\ erased' = erased + k
  /\ \/ /\ again
        /\ AsyncWriteSome(ops \ {o}, erased' + 1, appended - erased', "member",
                          o.n < o.size)
     \/ /\ ~again
        /\ ops' = ops \ {o}
        /\ UNCHANGED started /\ Nothing
  /\ UNCHANGED <<appended, taken, broken, errors>>

\* Faults: the whole buffer counts as sent; nothing is erased; the rest is
\* never offered; a write of no bytes is started.
OnWriteErasesSize(o) == Finish(o, o.size, erased + o.size < appended)
OnWriteErasesNone(o) == Finish(o, 0, TRUE)
OnWriteStops(o)      == Finish(o, o.n, FALSE)
OnWriteNeverStops(o) == Finish(o, o.n, TRUE)

OnWrite(o) == Finish(o, o.n, erased + o.n < appended)

(* A fault: the error handler also drops what it could not send.           *)
OnWriteErrorClears(o) ==
  /\ o \in ops /\ o.state = "failed"
  /\ ops' = ops \ {o}
  /\ errors' = errors + 1
  /\ erased' = appended
  /\ UNCHANGED <<appended, started, taken, broken>> /\ Nothing

(* ClientItem::OnWrite(error, _): only the error callback is made.         *)
OnWriteError(o) ==
  /\ o \in ops /\ o.state = "failed"
  /\ ops' = ops \ {o}
  /\ errors' = errors + 1
  /\ UNCHANGED <<appended, erased, started, taken, broken>> /\ Nothing

-----------------------------------------------------------------------------
(* The reactor and the peer (outside the repository).                      *)

(* The socket reports writable: the oldest queued write is performed.      *)
(* Freed memory may still hold its bytes, or anything else.                *)
Perform(o) ==
  /\ o \in ops /\ o.state = "queued"
  /\ \A p \in ops : p.state = "queued" => o.id <= p.id
  /\ ~broken
  /\ \E n \in 1 .. o.size, intact \in BOOLEAN :
       /\ n <= Room
       /\ o.mem = "member" => intact
       /\ Accept(o.first, n, intact)
       /\ ops' = (ops \ {o}) \cup {[o EXCEPT !.state = "done", !.n = n]}
  /\ UNCHANGED <<appended, erased, started, taken, broken, errors>>

(* A queued write ends with an error once the connection is reset.         *)
Fail(o) ==
  /\ o \in ops /\ o.state = "queued"
  /\ broken
  /\ ops' = (ops \ {o}) \cup {[o EXCEPT !.state = "failed"]}
  /\ UNCHANGED <<appended, erased, started, taken, broken, errors>> /\ Nothing

PeerReads ==
  /\ ~broken
  /\ taken' \in (taken + 1) .. sent
  /\ UNCHANGED <<appended, erased, ops, started, broken, errors>> /\ Nothing

PeerResets ==
  /\ ~broken
  /\ broken' = TRUE
  /\ UNCHANGED <<appended, erased, ops, started, taken, errors>> /\ Nothing

-----------------------------------------------------------------------------
Next ==
  \/ \E s \in FrameSizes : Write(s)
  \/ \E o \in ops : \/ OnWrite(o)
                    \/ OnWriteError(o)
                    \/ Perform(o)
                    \/ Fail(o)
  \/ PeerReads
  \/ PeerResets

Spec == Init /\ [][Next]_vars

(* The pool's threads run every posted handler, and the reactor performs a *)
(* write the socket has room for.  Nothing is assumed of the peer.         *)
Fairness ==
  /\ WF_vars(\E o \in ops : OnWrite(o) \/ OnWriteError(o))
  /\ WF_vars(\E o \in ops : Perform(o) \/ Fail(o))

FairSpec == Spec /\ Fairness

-----------------------------------------------------------------------------
(* Properties.                                                             *)

\* Every variable keeps its type.
TypeOK ==
  /\ appended \in Nat /\ erased \in Nat
  /\ ops \subseteq Op /\ started \in Nat
  /\ sent \in Nat /\ misplaced \subseteq Nat /\ garbled \subseteq Nat
  /\ taken \in Nat /\ broken \in BOOLEAN
  /\ errors \in Nat

\* Write, from any thread, and OnWrite never have two writes of one socket
\* outstanding, although neither looks for the other's: the only test is
\* whether the new frame is all that buffer_write holds.
OneWrite == \A o, p \in ops : o = p

\* A lost wake-up cannot happen: until a write fails, bytes in buffer_write
\* mean that a write or its handler is outstanding, and the other way round.
Pumped == errors = 0 => (erased < appended <=> ops # {})

\* No byte is sent twice, skipped or sent before an earlier one, although a
\* frame goes out from a local at first and the rest of it from the member.
InOrder == misplaced = {}

\* What OnWrite will erase is what the socket took: buffer_write's first byte
\* is the first one not sent, but for those a handler is about to erase.
Accounted ==
  /\ \A o \in ops : o.state = "done" => sent = erased + o.n
  /\ (\A o \in ops : o.state # "done") => sent = erased

\* After its error callback an item never touches the socket again, whatever
\* is still passed to Write.
SilentAfterError == [][errors > 0 => UNCHANGED <<sent, started, erased>>]_vars

\* Every byte given to Write reaches the socket, unless the connection breaks
\* or the peer stops reading for good with the socket's buffer full.
Drains ==
  \A k \in 1 .. MaxBytes :
    [](appended >= k => <>(erased >= k) \/ <>broken \/ <>[](Room = 0))

\* What the socket accepts is the encoded frames, byte for byte.
StreamIntact == garbled = {}

\* The write half implements an ordered byte stream.
Stream == INSTANCE ByteStream
            WITH put <- appended, got <- sent, dead <- (errors > 0)

ImplementsStream == Stream!StreamSpec
=============================================================================
