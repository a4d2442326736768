-------------------------- MODULE ClientWriteProofs --------------------------
(***************************************************************************)
(* Proofs about ClientWrite, for all sizes of frames and socket buffers;   *)
(* but not for empty frames (NoEmptyFrame).                                *)
(***************************************************************************)
EXTENDS ClientWrite, TLAPS

(* The inductive invariant.  OneWrite and Pumped are not inductive alone:  *)
(* that a second write cannot start rests on buffer_write being non-empty  *)
(* while one is outstanding, which rests on OnWrite erasing no more than   *)
(* the socket took.                                                        *)

\* The outstanding write covers the front of buffer_write, and at least one
\* byte of it.
Covers ==
  \A o \in ops : /\ o.first = erased + 1
                 /\ o.size <= appended - erased
                 /\ o.state = "done" => o.n >= 1 /\ o.n <= o.size

\* After an error nothing is outstanding and buffer_write stays non-empty, so
\* that Write finds more in it than its own frame.
Halted == errors > 0 => ops = {} /\ erased < appended

\* Only bytes that were appended are erased.
Bounded == erased <= appended

IInv ==
  /\ TypeOK /\ Bounded /\ OneWrite /\ Covers /\ Accounted /\ InOrder
  /\ Pumped /\ Halted

LEMMA InitIInv == Init => IInv
<1> SUFFICES ASSUME Init PROVE IInv
  OBVIOUS
<1>1. TypeOK
  BY DEF Init, TypeOK
<1>2. Bounded /\ OneWrite /\ Covers /\ Accounted /\ InOrder /\ Pumped /\ Halted
  BY DEF Init, Bounded, OneWrite, Covers, Accounted, InOrder, Pumped, Halted
<1> QED BY <1>1, <1>2 DEF IInv

(* A write started when none is outstanding, at the first byte not sent.   *)
LEMMA StartWrite ==
  ASSUME IInv, errors = 0, UNCHANGED <<taken, broken, errors>>,
         NEW a \in Nat, appended' = a, NEW e \in Nat, erased' = e, e < a, sent = e,
         NEW mem \in {"member", "moved", "local"}, NEW mayDefer \in BOOLEAN,
         AsyncWriteSome({}, e + 1, a - e, mem, mayDefer)
  PROVE  IInv'
<1> DEFINE op(s, n) == [id |-> started + 1, first |-> e + 1, size |-> a - e,
                        mem |-> mem, state |-> s, n |-> n]
<1>0. TypeOK /\ InOrder
  BY DEF IInv
<1>1. a - e \in Nat \ {0} /\ a - e \in Nat
  OBVIOUS
<1>2. started' = started + 1
  BY DEF AsyncWriteSome
<1>3. \A s \in {"queued", "done", "failed"}, n \in Nat : op(s, n) \in Op
  BY <1>0, <1>1 DEF TypeOK, Op
<1>4. \A s \in {"queued", "done", "failed"}, n \in Nat :
        /\ op(s, n).first = e + 1 /\ op(s, n).size = a - e
        /\ op(s, n).state = s /\ op(s, n).n = n
  OBVIOUS
<1>5. \/ broken /\ ops' = {op("failed", 0)} /\ Nothing
      \/ \E n \in 1 .. (a - e) : ops' = {op("done", n)} /\ Accept(e + 1, n, TRUE)
      \/ ops' = {op("queued", 0)} /\ Nothing
  <2>1. a - e > 0 /\ a - e # 0
    BY <1>1
  <2>2. \A n \in 0 .. (a - e) : (n = 0 => a - e = 0) => n \in 1 .. (a - e)
    BY <1>1
  <2> QED BY <2>1, <2>2 DEF AsyncWriteSome
<1> HIDE DEF op
<1>6. ASSUME NEW s \in {"queued", "failed"}, ops' = {op(s, 0)}, Nothing
      PROVE  IInv'
  <2>1. TypeOK'
    BY <1>0, <1>2, <1>3, <1>6 DEF TypeOK, Nothing
  <2>2. (OneWrite /\ Covers /\ Accounted /\ InOrder)'
    BY <1>0, <1>4, <1>6 DEF OneWrite, Covers, Accounted, InOrder, Nothing
  <2> QED BY <1>0, <1>6, <2>1, <2>2 DEF IInv, Bounded, Pumped, Halted
<1>7. ASSUME NEW n \in 1 .. (a - e), ops' = {op("done", n)}, Accept(e + 1, n, TRUE)
      PROVE  IInv'
  <2>1. sent' = sent + n /\ UNCHANGED <<misplaced, garbled>>
    BY <1>7 DEF Accept
  <2>2. n \in Nat /\ 1 <= n /\ n <= a - e
    BY <1>1
  <2>3. TypeOK'
    BY <1>0, <1>2, <1>3, <1>7, <2>1, <2>2 DEF TypeOK
  <2>4. (OneWrite /\ Covers /\ Accounted /\ InOrder)'
    BY <1>0, <1>4, <1>7, <2>1, <2>2 DEF OneWrite, Covers, Accounted, InOrder
  <2> QED BY <1>7, <2>3, <2>4 DEF IInv, Bounded, Pumped, Halted
<1> QED BY <1>5, <1>6, <1>7

LEMMA MovedSame ==
  ASSUME NEW o \in Op
  PROVE  /\ Moved(o) \in Op
         /\ Moved(o).first = o.first /\ Moved(o).size = o.size
         /\ Moved(o).state = o.state /\ Moved(o).n = o.n
BY DEF Moved, Op

LEMMA WriteIInv ==
  ASSUME NoEmptyFrame, IInv, NEW s \in FrameSizes, Write(s)
  PROVE  IInv'
<1>0. TypeOK /\ Bounded /\ OneWrite /\ Covers /\ Accounted /\ InOrder /\ Pumped /\ Halted
  BY DEF IInv
<1>1. s \in Nat /\ s >= 1
  BY FrameSizesAssumption DEF NoEmptyFrame
<1>2. appended' = appended + s /\ UNCHANGED <<erased, taken, broken, errors>>
  BY DEF Write, AppendFrame
<1>3. CASE erased = appended
  <2>1. errors = 0 /\ ops = {}
    BY <1>0, <1>3 DEF Pumped, Halted, TypeOK
  <2>2. \A moved : Outstanding(moved) = {}
    BY <2>1 DEF Outstanding
  <2>3. s = appended + s - erased
    BY <1>0, <1>1, <1>3 DEF TypeOK
  <2>4. AsyncWriteSome({}, appended + 1, s, "local", FALSE)
    BY <2>2, <2>3 DEF Write, AppendFrame
  <2>5. sent = erased
    BY <1>0, <2>1 DEF Accounted
  <2>6. s = (appended + s) - erased /\ appended + s \in Nat /\ erased < appended + s
    BY <1>0, <1>1, <1>3 DEF TypeOK
  <2>7. AsyncWriteSome({}, erased + 1, (appended + s) - erased, "local", FALSE)
    BY <1>3, <2>4, <2>6
  <2> QED
    BY <1>0, <1>2, <2>1, <2>5, <2>6, <2>7, StartWrite DEF TypeOK
<1>4. CASE erased # appended
  <2>1. erased < appended
    BY <1>0, <1>4 DEF TypeOK, Bounded
  <2>2. s # appended + s - erased
    BY <1>0, <1>1, <2>1 DEF TypeOK
  <2>3. PICK moved \in BOOLEAN : ops' = Outstanding(moved) /\ UNCHANGED started /\ Nothing
    BY <2>2 DEF Write, AppendFrame
  <2>4. \A p \in ops' : \E o \in ops :
          /\ p \in Op /\ p.first = o.first /\ p.size = o.size
          /\ p.state = o.state /\ p.n = o.n
    BY <1>0, <2>3, MovedSame DEF Outstanding, TypeOK
  <2>5. OneWrite'
    BY <1>0, <2>3 DEF Outstanding, OneWrite
  <2>6. (ops' = {}) <=> (ops = {})
    BY <2>3 DEF Outstanding
  <2>7. TypeOK'
    BY <1>0, <1>1, <1>2, <2>3, <2>4 DEF TypeOK, Nothing
  <2>8. Covers'
    <3> SUFFICES ASSUME NEW p \in ops'
                 PROVE  /\ p.first = erased' + 1
                        /\ p.size <= appended' - erased'
                        /\ p.state = "done" => p.n >= 1 /\ p.n <= p.size
      BY DEF Covers
    <3>1. PICK o \in ops : /\ p \in Op /\ p.first = o.first /\ p.size = o.size
                           /\ p.state = o.state /\ p.n = o.n
      BY <2>4
    <3>2. p.size \in Nat
      BY <3>1 DEF Op
    <3> QED BY <1>0, <1>1, <1>2, <3>1, <3>2 DEF Covers, TypeOK
  <2>9. Accounted'
    <3>1. (\A p \in ops' : p.state = "done" => sent' = erased' + p.n)
      BY <1>0, <1>2, <2>3, <2>4 DEF Accounted, Nothing
    <3>2. (\A p \in ops' : p.state # "done") => (\A o \in ops : o.state # "done")
      BY <1>0, <2>3, MovedSame DEF Outstanding, TypeOK
    <3> QED BY <1>0, <1>2, <2>3, <3>1, <3>2 DEF Accounted, Nothing
  <2>10. InOrder'
    BY <1>0, <2>3 DEF InOrder, Nothing
  <2>11. erased' < appended'
    BY <1>0, <1>1, <1>2, <2>1 DEF TypeOK
  <2>12. Pumped' /\ Halted'
    BY <1>0, <1>2, <2>1, <2>6, <2>11 DEF Pumped, Halted
  <2> QED
    BY <2>5, <2>7, <2>8, <2>9, <2>10, <2>11, <2>12, <2>7 DEF IInv, Bounded, TypeOK
<1> QED BY <1>3, <1>4

LEMMA OnWriteIInv ==
  ASSUME IInv, NEW o \in ops, OnWrite(o)
  PROVE  IInv'
<1>0. TypeOK /\ Bounded /\ OneWrite /\ Covers /\ Accounted /\ InOrder /\ Pumped /\ Halted
  BY DEF IInv
<1>1. /\ o.state = "done" /\ erased' = erased + o.n
      /\ UNCHANGED <<appended, taken, broken, errors>>
  BY DEF OnWrite, Finish
<1>2. ops \ {o} = {} /\ errors = 0
  BY <1>0 DEF OneWrite, Halted, TypeOK
<1>3. /\ o.n \in Nat /\ o.n >= 1 /\ o.n <= o.size /\ o.size \in Nat
      /\ o.size <= appended - erased /\ sent = erased + o.n
  BY <1>0, <1>1 DEF TypeOK, Op, Covers, Accounted
<1>4. erased + o.n \in Nat /\ erased + o.n <= appended
  BY <1>0, <1>3 DEF TypeOK
<1>5. CASE erased + o.n < appended
  <2>1. AsyncWriteSome({}, (erased + o.n) + 1, appended - (erased + o.n), "member",
                       o.n < o.size)
    BY <1>1, <1>2, <1>5 DEF OnWrite, Finish
  <2>2. appended \in Nat /\ appended' = appended /\ (o.n < o.size) \in BOOLEAN
    BY <1>0, <1>1 DEF TypeOK
  <2> HIDE DEF IInv, AsyncWriteSome
  <2> QED
    BY <1>1, <1>2, <1>3, <1>4, <1>5, <2>1, <2>2, StartWrite
<1>6. CASE erased + o.n = appended
  <2>1. ops' = {} /\ UNCHANGED started /\ Nothing
    BY <1>0, <1>2, <1>4, <1>6 DEF OnWrite, Finish, TypeOK
  <2>2. TypeOK'
    BY <1>0, <1>1, <1>4, <2>1 DEF TypeOK, Nothing
  <2>3. (OneWrite /\ Covers /\ Accounted /\ InOrder)'
    BY <1>0, <1>1, <1>3, <2>1 DEF OneWrite, Covers, Accounted, InOrder, Nothing
  <2>4. ~(erased' < appended') /\ ops' = {} /\ errors' = 0
    BY <1>0, <1>1, <1>2, <1>6, <2>1 DEF TypeOK
  <2>5. (Pumped /\ Halted)'
    BY <2>4 DEF Pumped, Halted
  <2>6. Bounded'
    BY <1>0, <1>1, <1>6 DEF Bounded, TypeOK
  <2> QED BY <2>2, <2>3, <2>5, <2>6 DEF IInv
<1> QED BY <1>0, <1>4, <1>5, <1>6 DEF TypeOK

LEMMA OnWriteErrorIInv ==
  ASSUME IInv, NEW o \in ops, OnWriteError(o)
  PROVE  IInv'
<1>0. TypeOK /\ Bounded /\ OneWrite /\ Covers /\ Accounted /\ InOrder /\ Pumped /\ Halted
  BY DEF IInv
<1>1. ops' = {} /\ errors = 0
  BY <1>0 DEF OnWriteError, OneWrite, Halted, TypeOK
<1>2. erased < appended
  BY <1>0, <1>1 DEF Pumped
<1>3. errors' = 1 /\ UNCHANGED <<appended, erased, started, taken, broken, sent, misplaced, garbled>>
  BY <1>1 DEF OnWriteError, Nothing
<1>4. sent = erased
  BY <1>0 DEF OnWriteError, OneWrite, Accounted
<1> QED
  BY <1>0, <1>1, <1>2, <1>3, <1>4
  DEF IInv, TypeOK, Bounded, OneWrite, Covers, Accounted, InOrder, Pumped, Halted

LEMMA PerformIInv ==
  ASSUME IInv, NEW o \in ops, Perform(o)
  PROVE  IInv'
<1>0. TypeOK /\ Bounded /\ OneWrite /\ Covers /\ Accounted /\ InOrder /\ Pumped /\ Halted
  BY DEF IInv
<1>1. ops = {o} /\ o \in Op /\ o.state = "queued"
  BY <1>0 DEF Perform, OneWrite, TypeOK
<1>2. sent = erased /\ o.first = erased + 1 /\ o.size <= appended - erased /\ o.size \in Nat
  BY <1>0, <1>1 DEF Accounted, Covers, Op
<1>3. PICK n \in 1 .. o.size, intact \in BOOLEAN :
        /\ Accept(o.first, n, intact)
        /\ ops' = (ops \ {o}) \cup {[o EXCEPT !.state = "done", !.n = n]}
  BY DEF Perform
<1>4. PICK p : /\ p \in Op /\ p.first = o.first /\ p.size = o.size
               /\ p.state = "done" /\ p.n = n /\ ops' = {p}
  <2>1. n \in Nat
    BY <1>2
  <2> DEFINE q == [o EXCEPT !.state = "done", !.n = n]
  <2>2. q \in Op /\ q.first = o.first /\ q.size = o.size /\ q.state = "done" /\ q.n = n
    BY <1>1, <2>1 DEF Op
  <2>3. ops' = {q}
    BY <1>1, <1>3
  <2> QED BY <2>2, <2>3
<1>5. UNCHANGED <<appended, erased, started, taken, broken, errors>>
  BY DEF Perform
<1>6. sent' = sent + n /\ n \in Nat /\ n >= 1 /\ n <= o.size
  BY <1>2, <1>3 DEF Accept
<1>7. misplaced' = {}
  BY <1>0, <1>2, <1>3 DEF Accept, InOrder
<1>8. garbled' \subseteq Nat
  BY <1>0, <1>3, <1>6 DEF Accept, TypeOK
<1>9. TypeOK'
  BY <1>0, <1>4, <1>5, <1>6, <1>7, <1>8 DEF TypeOK
<1>10. (OneWrite /\ Covers /\ Accounted /\ InOrder)'
  BY <1>0, <1>2, <1>4, <1>5, <1>6, <1>7 DEF OneWrite, Covers, Accounted, InOrder
<1>11. (Bounded /\ Pumped /\ Halted)'
  BY <1>0, <1>1, <1>4, <1>5 DEF Bounded, Pumped, Halted
<1> QED BY <1>9, <1>10, <1>11 DEF IInv

LEMMA FailIInv ==
  ASSUME IInv, NEW o \in ops, Fail(o)
  PROVE  IInv'
<1>0. TypeOK /\ Bounded /\ OneWrite /\ Covers /\ Accounted /\ InOrder /\ Pumped /\ Halted
  BY DEF IInv
<1>1. ops = {o} /\ o \in Op /\ o.state = "queued" /\ ops' = {[o EXCEPT !.state = "failed"]}
  BY <1>0 DEF Fail, OneWrite, TypeOK
<1>2. PICK p : /\ p \in Op /\ p.first = o.first /\ p.size = o.size
               /\ p.state = "failed" /\ ops' = {p}
  BY <1>1 DEF Op
<1>3. /\ UNCHANGED <<appended, erased, started, taken, broken, errors>>
      /\ UNCHANGED <<sent, misplaced, garbled>>
  BY DEF Fail, Nothing
<1>4. TypeOK'
  BY <1>0, <1>2, <1>3 DEF TypeOK
<1>5. (OneWrite /\ Covers /\ Accounted /\ InOrder)'
  BY <1>0, <1>1, <1>2, <1>3 DEF OneWrite, Covers, Accounted, InOrder
<1>6. (Bounded /\ Pumped /\ Halted)'
  BY <1>0, <1>1, <1>2, <1>3 DEF Bounded, Pumped, Halted
<1> QED BY <1>4, <1>5, <1>6 DEF IInv

LEMMA RestIInv ==
  ASSUME IInv, PeerReads \/ PeerResets \/ UNCHANGED vars
  PROVE  IInv'
<1>0. TypeOK /\ Bounded /\ OneWrite /\ Covers /\ Accounted /\ InOrder /\ Pumped /\ Halted
  BY DEF IInv
<1>1. UNCHANGED <<appended, erased, ops, started, sent, misplaced, garbled, errors>>
  BY DEF PeerReads, PeerResets, Nothing, vars
<1>2. taken' \in Nat /\ broken' \in BOOLEAN
  <2>1. CASE PeerReads
    <3>1. PICK t \in (taken + 1) .. sent : taken' = t
      BY <2>1 DEF PeerReads
    <3>2. t \in Nat
      BY <1>0 DEF TypeOK
    <3> QED BY <1>0, <2>1, <3>1, <3>2 DEF PeerReads, TypeOK
  <2>2. CASE PeerResets \/ UNCHANGED vars
    BY <1>0, <2>2 DEF PeerResets, vars, TypeOK
  <2> QED BY <2>1, <2>2
<1>3. TypeOK'
  BY <1>0, <1>1, <1>2 DEF TypeOK
<1>4. (Bounded /\ OneWrite /\ Covers /\ Accounted /\ InOrder /\ Pumped /\ Halted)'
  BY <1>0, <1>1 DEF Bounded, OneWrite, Covers, Accounted, InOrder, Pumped, Halted
<1> QED BY <1>3, <1>4 DEF IInv

\* The invariant holds in every reachable state of Write, OnWrite and the
\* reactor, whatever the sizes of the frames, none of them empty, and of the
\* socket's buffer.
THEOREM Invariance ==
  ASSUME NoEmptyFrame
  PROVE  Spec => []IInv
<1>1. IInv /\ [Next]_vars => IInv'
  <2> SUFFICES ASSUME IInv, [Next]_vars PROVE IInv'
    OBVIOUS
  <2>1. ASSUME NEW s \in FrameSizes, Write(s) PROVE IInv'
    BY <2>1, WriteIInv
  <2>2. ASSUME NEW o \in ops, OnWrite(o) PROVE IInv'
    BY <2>2, OnWriteIInv
  <2>3. ASSUME NEW o \in ops, OnWriteError(o) PROVE IInv'
    BY <2>3, OnWriteErrorIInv
  <2>4. ASSUME NEW o \in ops, Perform(o) PROVE IInv'
    BY <2>4, PerformIInv
  <2>5. ASSUME NEW o \in ops, Fail(o) PROVE IInv'
    BY <2>5, FailIInv
  <2>6. CASE PeerReads \/ PeerResets \/ UNCHANGED vars
    BY <2>6, RestIInv
  <2> QED BY <2>1, <2>2, <2>3, <2>4, <2>5, <2>6 DEF Next
<1> QED BY <1>1, InitIInv, PTL DEF Spec

\* TypeOK for every value of the constants.
THEOREM TypeCorrect ==
  ASSUME NoEmptyFrame
  PROVE  Spec => []TypeOK
<1>1. IInv => TypeOK
  BY DEF IInv
<1> QED BY <1>1, Invariance, PTL

\* Write and OnWrite never have two writes of a socket outstanding.
THEOREM OneWriteAtATime ==
  ASSUME NoEmptyFrame
  PROVE  Spec => []OneWrite
<1>1. IInv => OneWrite
  BY DEF IInv
<1> QED BY <1>1, Invariance, PTL

\* Until a write fails, buffer_write is non-empty exactly while a write or its
\* handler is outstanding.
THEOREM NeverStranded ==
  ASSUME NoEmptyFrame
  PROVE  Spec => []Pumped
<1>1. IInv => Pumped
  BY DEF IInv
<1> QED BY <1>1, Invariance, PTL

\* Every byte reaches the socket at its own place in the stream.
THEOREM BytesInOrder ==
  ASSUME NoEmptyFrame
  PROVE  Spec => []InOrder
<1>1. IInv => InOrder
  BY DEF IInv
<1> QED BY <1>1, Invariance, PTL

\* What OnWrite erases, or is about to, is what the socket took.
THEOREM ErasesWhatWasSent ==
  ASSUME NoEmptyFrame
  PROVE  Spec => []Accounted
<1>1. IInv => Accounted
  BY DEF IInv
<1> QED BY <1>1, Invariance, PTL

-----------------------------------------------------------------------------
(* Steps seen from the socket.                                             *)

LEMMA SentBounded ==
  ASSUME IInv
  PROVE  /\ appended \in Nat /\ sent \in Nat /\ errors \in Nat
         /\ sent <= appended
<1>0. TypeOK /\ Bounded /\ OneWrite /\ Covers /\ Accounted
  BY DEF IInv
<1>1. CASE \A o \in ops : o.state # "done"
  BY <1>0, <1>1 DEF TypeOK, Bounded, Accounted
<1>2. ASSUME NEW o \in ops, o.state = "done"
      PROVE  sent <= appended
  <2>1. o.n \in Nat /\ o.size \in Nat
    BY <1>0 DEF TypeOK, Op
  <2> QED BY <1>0, <1>2, <2>1 DEF TypeOK, Covers, Accounted
<1> QED BY <1>0, <1>1, <1>2 DEF TypeOK

LEMMA StartGrows ==
  ASSUME NEW keep, NEW first, NEW size \in Nat, NEW mem, NEW mayDefer, sent \in Nat,
         AsyncWriteSome(keep, first, size, mem, mayDefer)
  PROVE  sent' >= sent
BY DEF AsyncWriteSome, Accept, Nothing

\* Only a step that finds no error transmits or erases.
LEMMA StepKinds ==
  ASSUME NoEmptyFrame, IInv, Next
  PROVE  /\ sent' >= sent
         /\ errors > 0 => UNCHANGED <<sent, started, erased, errors>>
         /\ \/ appended' > appended /\ errors' = errors
            \/ appended' = appended /\ errors' = errors
            \/ UNCHANGED <<appended, sent>> /\ errors' = errors + 1
<1>0. TypeOK /\ Bounded /\ Halted
  BY DEF IInv
<1>1. ASSUME NEW s \in FrameSizes, Write(s)
      PROVE  /\ sent' >= sent /\ appended' > appended /\ errors' = errors
             /\ errors > 0 => UNCHANGED <<sent, started, erased>>
  <2>1. s \in Nat /\ s >= 1
    BY FrameSizesAssumption DEF NoEmptyFrame
  <2>2. appended' = appended + s /\ UNCHANGED <<erased, errors>>
    BY <1>1 DEF Write, AppendFrame
  <2>3. errors > 0 => s # appended + s - erased
    BY <1>0, <2>1 DEF Halted, TypeOK
  <2>4. sent' >= sent
    <3>1. \/ \E keep : AsyncWriteSome(keep, appended + 1, s, "local", FALSE)
          \/ Nothing
      BY <1>1 DEF Write, AppendFrame
    <3>2. sent \in Nat
      BY <1>0 DEF TypeOK
    <3>3. CASE Nothing
      BY <3>2, <3>3 DEF Nothing
    <3> QED BY <2>1, <3>1, <3>2, <3>3, StartGrows
  <2>5. errors > 0 => UNCHANGED <<sent, started>>
    BY <1>1, <2>3 DEF Write, AppendFrame, Nothing
  <2> QED BY <1>0, <2>1, <2>2, <2>4, <2>5 DEF TypeOK
<1>2. ASSUME NEW o \in ops, OnWrite(o)
      PROVE  /\ sent' >= sent /\ appended' = appended /\ errors' = errors
             /\ ~(errors > 0)
  <2>1. o.n \in Nat /\ erased' = erased + o.n /\ UNCHANGED <<appended, errors>>
    BY <1>0, <1>2 DEF OnWrite, Finish, TypeOK, Op
  <2>2. CASE erased + o.n < appended
    <3>1. AsyncWriteSome(ops \ {o}, (erased + o.n) + 1, appended - (erased + o.n),
                         "member", o.n < o.size)
      BY <1>2, <2>1, <2>2 DEF OnWrite, Finish
    <3>2. appended - (erased + o.n) \in Nat /\ sent \in Nat
      BY <1>0, <2>1, <2>2 DEF TypeOK
    <3>3. sent' >= sent
      BY <3>1, <3>2, StartGrows
    <3> QED BY <1>0, <2>1, <3>3 DEF Halted
  <2>3. CASE ~(erased + o.n < appended)
    <3>1. sent' = sent
      BY <1>2, <2>3 DEF OnWrite, Finish, Nothing
    <3> QED BY <1>0, <2>1, <3>1 DEF Halted, TypeOK
  <2> QED BY <2>2, <2>3
<1>3. ASSUME NEW o \in ops, OnWriteError(o)
      PROVE  UNCHANGED <<appended, sent>> /\ errors' = errors + 1 /\ ~(errors > 0)
  BY <1>0, <1>3 DEF OnWriteError, Nothing, Halted
<1>4. ASSUME NEW o \in ops, Perform(o)
      PROVE  /\ sent' >= sent /\ appended' = appended /\ errors' = errors
             /\ ~(errors > 0)
  <2>1. PICK n \in 1 .. o.size : sent' = sent + n
    BY <1>4 DEF Perform, Accept
  <2>2. n \in Nat
    BY <1>0 DEF TypeOK, Op
  <2> QED BY <1>0, <1>4, <2>1, <2>2 DEF Perform, Halted, TypeOK
<1>5. ASSUME NEW o \in ops, Fail(o)
      PROVE  UNCHANGED <<appended, sent, errors>> /\ ~(errors > 0)
  BY <1>0, <1>5 DEF Fail, Nothing, Halted
<1>6. CASE PeerReads \/ PeerResets
  BY <1>0, <1>6 DEF PeerReads, PeerResets, Nothing, TypeOK
<1> QED
  BY <1>0, <1>1, <1>2, <1>3, <1>4, <1>5, <1>6 DEF Next, TypeOK

\* Once OnWrite has reported an error, nothing is written to the socket and
\* nothing leaves buffer_write.
THEOREM SilenceAfterError ==
  ASSUME NoEmptyFrame
  PROVE  Spec => SilentAfterError
<1>1. IInv /\ [Next]_vars => [errors > 0 => UNCHANGED <<sent, started, erased>>]_vars
  BY StepKinds DEF vars
<1> QED BY <1>1, Invariance, PTL DEF Spec, SilentAfterError

\* The write half of a client implements an ordered byte stream.
THEOREM WriteImplementsStream ==
  ASSUME NoEmptyFrame
  PROVE  Spec => ImplementsStream
<1>1. Init => Stream!StreamInit
  BY DEF Init, Stream!StreamInit
<1>2. IInv /\ IInv' /\ [Next]_vars => [Stream!StreamNext]_(Stream!streamVars)
  <2> SUFFICES ASSUME IInv, IInv', [Next]_vars
               PROVE  [Stream!StreamNext]_(Stream!streamVars)
    OBVIOUS
  <2>1. CASE UNCHANGED vars
    BY <2>1 DEF vars, Stream!streamVars
  <2>2. CASE Next
    <3>1. /\ appended' \in Nat /\ sent' \in Nat /\ errors' \in Nat
          /\ sent' <= appended'
      <4>1. (IInv => /\ appended \in Nat /\ sent \in Nat /\ errors \in Nat
                     /\ sent <= appended)'
        BY SentBounded, PTL
      <4> QED BY <4>1
    <3>2. errors \in Nat
      BY SentBounded
    <3>3. sent' >= sent /\ (errors > 0 => sent' = sent)
      BY <2>2, StepKinds
    <3>4. Stream!Transmit
      BY <3>1, <3>3 DEF Stream!Transmit
    <3>5. CASE appended' > appended /\ errors' = errors
      BY <3>1, <3>4, <3>5 DEF Stream!StreamNext, Stream!PutBytes
    <3>6. CASE appended' = appended /\ errors' = errors
      BY <3>4, <3>6 DEF Stream!StreamNext
    <3>7. CASE UNCHANGED <<appended, sent>> /\ errors' = errors + 1
      <4>1. (errors' > 0) = TRUE
        BY <3>2, <3>7
      <4> QED BY <3>7, <4>1 DEF Stream!StreamNext
    <3> QED BY <2>2, <3>5, <3>6, <3>7, StepKinds
  <2> QED BY <2>1, <2>2
<1> QED
  BY <1>1, <1>2, Invariance, PTL DEF Spec, ImplementsStream, Stream!StreamSpec
=============================================================================
