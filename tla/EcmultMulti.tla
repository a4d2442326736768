------------------------------ MODULE EcmultMulti ------------------------------
(***************************************************************************)
(* The sum of multiples of many points (ecmult_impl.h): by Strauss's       *)
(* method or Pippenger's, in batches that fit into a scratch space, or     *)
(* point by point without one.  A point comes from a callback, which may   *)
(* refuse; here the callback is the sequence of its answers, records with  *)
(* ok, sc and pt.  g = FALSE is a null scalar for the generator.           *)
(***************************************************************************)
EXTENDS Ecmult

CONSTANTS
  ECMULT_PIPPENGER_THRESHOLD,      \* 160
  ECMULT_MAX_POINTS_PER_BATCH      \* 10 000 000

Memory == INSTANCE Scratch WITH WNAF_BITS <- BITS

\* All digits but zeros odd, of either sign, below 2^w; skew is 1 for a number that was even.
WnafFixed(s, w) ==
  LET size == WNAF_SIZE_BITS(BITS, w)
      val(pos) == GetBits(s, pos * w, IF pos = size - 1 THEN BITS - (size - 1) * w ELSE w)
      skew == IF s % 2 = 0 THEN 1 ELSE 0
      max_pos == CHOOSE m \in 0 .. size - 1 : /\ m = 0 \/ val(m) # 0
                                              /\ \A k \in m + 1 .. size - 1 : val(k) = 0
      Borrowed(d, v) == IF v % 2 = 1 THEN Append(d, v)
                        ELSE Append([d EXCEPT ![Len(d)] = @ - 2^w], v + 1)
      \* A digit 1 above a negative one, or -1 above a positive one, is moved down.
      Settled(d) ==
        LET k == Len(d)
        IN  IF k >= 3 /\ d[k - 1] = 1 /\ d[k - 2] < 0
            THEN [d EXCEPT ![k - 2] = @ + 2^w, ![k - 1] = 0]
            ELSE IF k >= 3 /\ d[k - 1] = -1 /\ d[k - 2] > 0
            THEN [d EXCEPT ![k - 2] = @ - 2^w, ![k - 1] = 0] ELSE d
      digits[pos \in 0 .. size - 1, d \in Seq(Int)] ==
        IF pos > max_pos THEN d \o [k \in 1 .. size - pos |-> 0]
        ELSE LET e == Settled(Borrowed(d, val(pos)))
             IN  IF pos = size - 1 THEN e ELSE digits[pos + 1, e]
  IN  IF s = 0 THEN [wnaf |-> [k \in 1 .. size |-> 0], skew |-> 0]
      ELSE IF size = 1 THEN [wnaf |-> <<val(0) + skew>>, skew |-> skew]
      ELSE [wnaf |-> digits[1, <<val(0) + skew>>], skew |-> skew]

\* For each digit, from the highest, the points fall into buckets by the digit they have there;
\* a sum of sums then counts bucket j 2*j + 1 times.
PippengerWnaf(pts, window) ==
  LET used == SelectSeq(pts, LAMBDA p : p.sc # 0 /\ ~p.pt.inf)
      w == [k \in 1 .. Len(used) |-> WnafFixed(used[k].sc, window + 1)] \o <<>>
      last == 2^window
      Add1(b, idx, pt) == [b EXCEPT ![idx] = AddGeVar(@, pt).r]
      Fill(i) ==
        LET f[k \in 0 .. Len(used)] ==
              IF k = 0 THEN [j \in 1 .. last |-> GejInfinity] \o <<>>
              ELSE LET n == w[k].wnaf[i]
                       pt == used[k].pt
                       b == IF i = 1 /\ w[k].skew = 1 THEN Add1(f[k - 1], 1, GeNeg(pt)) ELSE f[k - 1]
                   IN  IF n > 0 THEN Add1(b, (n - 1) \div 2 + 1, pt)
                       ELSE IF n < 0 THEN Add1(b, (-n - 1) \div 2 + 1, GeNeg(pt)) ELSE b
        IN  f[Len(used)]
      Doubled(r, times) == LET f[j \in 0 .. times] == IF j = 0 THEN r ELSE DoubleVar(f[j - 1]).r
                           IN  f[times]
      Collect(r, b) ==
        LET f[j \in 1 .. last] ==     \* from the last bucket down to the second
              IF j = last THEN [sum |-> GejInfinity, r |-> r]
              ELSE LET g == f[j + 1]
                       sum == AddVar(g.sum, b[j + 1]).r
                   IN  [sum |-> sum, r |-> AddVar(g.r, sum).r]
            all == AddVar(f[1].sum, b[1]).r
        IN  AddVar(DoubleVar(f[1].r).r, all).r
      n_wnaf == WNAF_SIZE_BITS(BITS, window + 1)
      acc[i \in 1 .. n_wnaf + 1] == IF i = n_wnaf + 1 THEN GejInfinity
                                    ELSE Collect(Doubled(acc[i + 1], window), Fill(i))
  IN  IF used = <<>> THEN GejInfinity ELSE acc[1]

-----------------------------------------------------------------------------
Failed(s) == [ok |-> FALSE, r |-> GejInfinity, s |-> s]
AllAnswered(pts) == \A k \in 1 .. Len(pts) : pts[k].ok

PippengerBatch(s, g, ng, pts) ==
  LET m == Memory!PippengerGranted(s, Len(pts))
      base == IF g THEN <<[ok |-> TRUE, sc |-> ng, pt |-> ConstG]>> ELSE <<>>
  IN  IF ~g /\ pts = <<>> THEN [ok |-> TRUE, r |-> GejInfinity, s |-> s]
      ELSE IF ~m.frame \/ ~AllAnswered(pts) THEN Failed(s)
      ELSE [ok |-> TRUE, r |-> PippengerWnaf(base \o pts, Memory!BucketWindow(Len(pts))), s |-> m.s]

StraussBatch(s, g, ng, pts) ==
  LET m == Memory!StraussGranted(s, Len(pts))
  IN  IF ~g /\ pts = <<>> THEN [ok |-> TRUE, r |-> GejInfinity, s |-> s]
      ELSE IF ~m.frame \/ ~AllAnswered(pts) THEN Failed(s)
      ELSE [ok |-> TRUE, s |-> m.s,
            r |-> Strauss([k \in 1 .. Len(pts) |-> GejSetGe(pts[k].pt)] \o <<>>,
                          [k \in 1 .. Len(pts) |-> pts[k].sc] \o <<>>, g, ng)]

\* Needs no memory: every point is multiplied alone.
MultiSimpleVar(g, ng, pts) ==
  LET first == Strauss(<<GejInfinity>>, <<0>>, g, ng)
      r[k \in 0 .. Len(pts)] ==
        IF k = 0 THEN first
        ELSE AddVar(r[k - 1], Strauss(<<GejSetGe(pts[k].pt)>>, <<pts[k].sc>>, FALSE, 0)).r
  IN  IF AllAnswered(pts) THEN [ok |-> TRUE, r |-> r[Len(pts)]] ELSE [ok |-> FALSE, r |-> GejInfinity]

\* The points of batch i, from 0.
BatchOf(pts, points, i) ==
  LET end == points * (i + 1) IN SubSeq(pts, points * i + 1, IF end < Len(pts) THEN end ELSE Len(pts))

MultiVar(s, g, ng, pts) ==
  LET n == Len(pts)
      limit == ECMULT_MAX_POINTS_PER_BATCH
      p == Memory!BatchSize(Memory!PippengerMaxPoints(s), limit, n)
      usePippenger == p.points >= ECMULT_PIPPENGER_THRESHOLD
      b == IF usePippenger THEN p ELSE Memory!BatchSize(Memory!StraussMaxPoints(s), limit, n)
      Batch(t, first, part) == IF usePippenger THEN PippengerBatch(t, g /\ first, ng, part)
                               ELSE StraussBatch(t, g /\ first, ng, part)
      run[i \in 0 .. b.batches] ==
        IF i = 0 THEN [ok |-> TRUE, r |-> GejInfinity, s |-> s]
        ELSE LET before == run[i - 1]
                 now == Batch(before.s, i = 1, BatchOf(pts, b.points, i - 1))
             IN  IF ~before.ok \/ ~now.ok THEN Failed(before.s)
                 ELSE [ok |-> TRUE, r |-> AddVar(before.r, now.r).r, s |-> now.s]
  IN  IF n = 0 THEN [ok |-> TRUE, s |-> s, r |-> IF g THEN Ecmult(GejInfinity, 0, ng) ELSE GejInfinity]
      ELSE IF ~p.ok \/ ~b.ok THEN Failed(s)
      ELSE run[b.batches]
=============================================================================
