--------------------------------- MODULE Ecmult ---------------------------------
(***************************************************************************)
(* Multiples of points (src/cipher/secp256k1): the tables of odd multiples *)
(* and the sum na * A + ng * G of ecmult_impl.h, which every verification  *)
(* and recovery of a signature computes, and the multiplication in         *)
(* constant time of ecmult_const_impl.h, which the shared secret needs.    *)
(* The build has no endomorphism.  A scalar is a number below the order N. *)
(***************************************************************************)
EXTENDS Group

CONSTANTS
  N, BITS,               \* the order of the group and the bits of a scalar (256)
  WINDOW_A, WINDOW_G,    \* 5 and 16
  Gx, Gy                 \* the generator

ASSUME ScalarAssumption == N \in Nat /\ N % 2 = 1 /\ N < 2^BITS /\ N > 2^(BITS - 1)

ConstG == Ge(SetInt(Gx), SetInt(Gy))

TABLE_SIZE(w) == 2^(w - 2)
WNAF_SIZE_BITS(bits, w) == (bits + w - 1) \div w
GetBits(s, from, count) == (s \div 2^from) % 2^count
ScalarNegate(s) == (N - s) % N
IsHigh(s) == s > N \div 2

-----------------------------------------------------------------------------
\* a, 3a, 5a, ...: additions of the doubled point d on the curve where d is affine.
OddMultiplesTable(n, a) ==
  LET d == DoubleVar(a).r
      start == GeSetGejZinv(a, d.z)
      t[i \in 1 .. n] ==
        IF i = 1 THEN << [r |-> Gej(start.x, start.y, a.z), rzr |-> d.z] >>
        ELSE LET s == t[i - 1] IN Append(s, AddGeVar(s[i - 1].r, Ge(d.x, d.y)))
      table == t[n]
  IN  [prej |-> [i \in 1 .. n |-> IF i = n THEN [table[i].r EXCEPT !.z = Mul(@, d.z)] ELSE table[i].r],
       zr |-> [i \in 1 .. n |-> table[i].rzr]]

\* The same table as affine points, with one inversion and no memory but the table's own: what is
\* kept of each point on the way is its y and its z-ratio, from which its x follows backwards.
OddMultiplesStorage(n, a) ==
  LET d == DoubleVar(a).r
      start == GeSetGejZinv(a, d.z)
      t[i \in 1 .. n] ==      \* the points of the first pass, with their z-ratios
        IF i = 1 THEN << [r |-> Gej(start.x, Normalize(start.y), a.z), rzr |-> d.z] >>
        ELSE LET s == t[i - 1]
                 next == AddGeVar(s[i - 1].r, Ge(d.x, d.y))
             IN  Append(s, [r |-> [next.r EXCEPT !.y = IF i < n THEN Normalize(@) ELSE @],
                            rzr |-> Normalize(next.rzr)])
      p == t[n]
      zLast == Inv(Mul(p[n].r.z, d.z))
      dx == Mul(Sqr(Mul(zLast, p[n].r.z)), d.x)
      zi[i \in 1 .. n] == IF i = n THEN zLast ELSE Mul(zi[i + 1], Stored(p[i + 1].rzr))
      x(i) == Add(Negate(Mul(Stored(p[i + 1].rzr), Sqr(zi[i])), 1), dx)
      y(i) == Mul(Stored(p[i].r.y), Mul(Sqr(zi[i]), zi[i]))
  IN  [i \in 1 .. n |-> GeToStorage(IF i = n THEN GeSetGejZinv(p[n].r, zLast) ELSE Ge(x(i), y(i)))]

\* The entry for the odd digit n, negated for a negative one.
TableGet(pre, n) ==
  IF n > 0 THEN pre[(n + 1) \div 2]
  ELSE LET g == pre[(1 - n) \div 2] IN [g EXCEPT !.y = Negate(@, 1)]
TableGetStorage(pre, n) == TableGet([i \in DOMAIN pre |-> GeFromStorage(pre[i])], n)

\* The context is a table of the odd multiples of the generator.
PreG == OddMultiplesStorage(TABLE_SIZE(WINDOW_G), GejSetGe(ConstG))

-----------------------------------------------------------------------------
\* The digits of a, odd or zero and below 2^(w - 1), at most one in w of them not zero, the
\* lowest first.  A number with its highest bit set is negated first.
Wnaf(a, w) ==
  LET high == GetBits(a, BITS - 1, 1) = 1
      s == IF high THEN ScalarNegate(a) ELSE a
      digits[bit \in Nat, carry \in {0, 1}] ==
        LET now == IF w > BITS - bit THEN BITS - bit ELSE w
            word == GetBits(s, bit, now) + carry
            out == (word \div 2^(w - 1)) % 2
            digit == word - out * 2^w
        IN  IF bit = BITS THEN <<>>
            ELSE IF GetBits(s, bit, 1) = carry THEN <<0>> \o digits[bit + 1, carry]
            ELSE <<IF high THEN -digit ELSE digit>> \o [i \in 1 .. now - 1 |-> 0] \o digits[bit + now, out]
  IN  digits[0, 0]

\* The number of digits up to the last one that is not zero.
UsedBits(d) == LET s == {i \in 1 .. Len(d) : d[i] # 0}
               IN  IF s = {} THEN 0 ELSE CHOOSE i \in s : \A j \in s : j <= i

\* The sum of na[i] * a[i] and ng * G, all points brought to one denominator Z that the result
\* gets back in the end; zero scalars and infinite points are left out.  g = FALSE is a null ng.
Strauss(a, na, g, ng) ==
  LET used == SelectSeq([i \in 1 .. Len(a) |-> i], LAMBDA i : na[i] # 0 /\ ~a[i].inf)
      no == Len(used)
      size == TABLE_SIZE(WINDOW_A)
      tables[k \in 0 .. no] ==    \* each table starts on the z the one before ended with
        IF k = 0 THEN [prej |-> <<>>, zr |-> <<>>]
        ELSE LET p == tables[k - 1]
                 point == a[used[k]]
                 t == OddMultiplesTable(size, IF k = 1 THEN point
                                              ELSE Rescale(point, Normalize(p.prej[Len(p.prej)].z)))
             IN  [prej |-> p.prej \o t.prej,
                  zr |-> p.zr \o <<IF k = 1 THEN t.zr[1] ELSE Mul(t.zr[1], point.z)>> \o Tail(t.zr)]
      all == GlobalzSetTable(tables[no].prej, tables[no].zr)
      Z == IF no = 0 THEN SetInt(1) ELSE all.globalz
      wnaf == [k \in 1 .. no |-> Wnaf(na[used[k]], WINDOW_A)]
      wnafG == IF g THEN Wnaf(ng, WINDOW_G) ELSE [i \in 1 .. BITS |-> 0]
      bits == CHOOSE b \in 0 .. BITS :
                LET lengths == {UsedBits(wnaf[k]) : k \in 1 .. no} \cup {UsedBits(wnafG)}
                IN  b \in lengths /\ \A c \in lengths : c <= b
      acc[i \in 1 .. bits + 1] ==
        IF i = bits + 1 THEN GejInfinity
        ELSE LET doubled == DoubleVar(acc[i + 1]).r
                 added[k \in 0 .. no] ==
                   IF k = 0 THEN doubled
                   ELSE IF wnaf[k][i] = 0 THEN added[k - 1]
                   ELSE AddGeVar(added[k - 1],
                                 TableGet(SubSeq(all.table, size * (k - 1) + 1, size * k), wnaf[k][i])).r
             IN  IF wnafG[i] = 0 THEN added[no]
                 ELSE AddZinvVar(added[no], TableGetStorage(PreG, wnafG[i]), Z)
      r == acc[1]
  IN  IF r.inf THEN r ELSE [r EXCEPT !.z = Mul(@, Z)]

Ecmult(a, na, ng) == Strauss(<<a>>, <<na>>, TRUE, ng)

-----------------------------------------------------------------------------
\* All digits odd, all WNAF_SIZE + 1 of them there, for a number made odd by adding the skew.
WnafConst(s, w, size) ==
  LET flip == IsHigh(s)
      two == flip # (s % 2 = 1)                     \* the bit that cadd_bit adds
      notNegOne == ScalarNegate(s) # 1
      skewed == IF notNegOne THEN (s + IF two THEN 2 ELSE 1) ELSE s
      odd == IF flip THEN ScalarNegate(skewed) ELSE skewed
      sign == (IF flip THEN -1 ELSE 1) * (IF notNegOne THEN 1 ELSE -1)
      words == WNAF_SIZE_BITS(size, w)
      digits[k \in 1 .. words + 1, last \in Int] ==   \* last: the digit before it is corrected
        LET u == GetBits(odd, k * w, w)
            fix == IF u % 2 = 1 THEN 0 ELSE IF last > 0 THEN 1 ELSE -1
        IN  IF k = words + 1 THEN <<last * sign>>
            ELSE <<(last - fix * 2^w) * sign>> \o digits[k + 1, u + fix]
  IN  [wnaf |-> digits[1, GetBits(odd, 0, w)], skew |-> IF two THEN 2 ELSE 1]

\* a * scalar for scalars of size bits, with the same steps for each of them.
EcmultConst(a, scalar, size) ==
  LET w == WINDOW_A - 1
      d == WnafConst(scalar, w, size)
      words == Len(d.wnaf)
      t == OddMultiplesTable(TABLE_SIZE(WINDOW_A), GejSetGe(a))
      all == GlobalzSetTable(t.prej, t.zr)
      pre == [i \in DOMAIN all.table |-> [all.table[i] EXCEPT !.y = NormalizeWeak(@)]]
      Get(n) == LET g == pre[((IF n > 0 THEN n ELSE -n) \div 2) + 1]
                IN  [g EXCEPT !.y = Cmov(@, Negate(@, 1), n < 0)]
      Shifted(r) == LET f[j \in 0 .. w] == IF j = 0 THEN r ELSE DoubleVar(f[j - 1]).r IN f[w]
      acc[i \in 1 .. words] == IF i = words THEN GejSetGe(Get(d.wnaf[i]))
                               ELSE AddGe(Shifted(acc[i + 1]), Get(d.wnaf[i]))
      scaled == [acc[1] EXCEPT !.z = Mul(@, all.globalz)]
      twice == GeSetGej(DoubleVar(GejSetGe(a)).r)
      correction == GeFromStorage(IF d.skew = 2 THEN GeToStorage(twice) ELSE GeToStorage(a))
  IN  AddGe(scaled, GeNeg(correction))
=============================================================================
