--------------------------------- MODULE Group ---------------------------------
(***************************************************************************)
(* The points of the curve y^2 = x^3 + 7 (group_impl.h in                  *)
(* src/cipher/secp256k1): affine points (ge) and Jacobian ones (gej), which*)
(* stand for (x / z^2, y / z^3).  Coordinates carry their magnitudes, as   *)
(* the comments of the code do.                                            *)
(***************************************************************************)
EXTENDS FieldElem

CURVE_B == 7

GeInfinity == [inf |-> TRUE, x |-> Clear, y |-> Clear]
GejInfinity == [inf |-> TRUE, x |-> Clear, y |-> Clear, z |-> Clear]
Ge(x, y) == [inf |-> FALSE, x |-> x, y |-> y]
Gej(x, y, z) == [inf |-> FALSE, x |-> x, y |-> y, z |-> z]

GeSetGejZinv(a, zi) ==
  LET zi2 == Sqr(zi)
  IN  [inf |-> a.inf, x |-> Mul(a.x, zi2), y |-> Mul(a.y, Mul(zi2, zi))]
GeNeg(a) == [a EXCEPT !.y = Negate(NormalizeWeak(@), 1)]
GejNeg(a) == [a EXCEPT !.y = Negate(NormalizeWeak(@), 1)]
GejSetGe(a) == [inf |-> a.inf, x |-> a.x, y |-> a.y, z |-> SetInt(1)]
GeSetGej(a) == GeSetGejZinv(a, Inv(a.z))
\* The point at infinity keeps no coordinates.
GeSetGejVar(a) == IF a.inf THEN GeInfinity ELSE GeSetGej(a)

\* All points made affine with one inversion; the infinite ones are passed over.
GeSetAllGejVar(a) ==
  LET finite == SelectSeq([i \in 1 .. Len(a) |-> i], LAMBDA i : ~a[i].inf)
      zi == InvAll([k \in 1 .. Len(finite) |-> a[finite[k]].z])
  IN  [i \in 1 .. Len(a) |->
         IF a[i].inf THEN GeInfinity
         ELSE GeSetGejZinv(a[i], zi[CHOOSE k \in 1 .. Len(finite) : finite[k] = i])]

\* A fault: each point is scaled by the ratio before its own and not by the one after.
GlobalzSetTableShifted(a, zr) ==
  LET n == Len(a)
      zs[i \in 1 .. n - 1] == IF i = n - 1 THEN zr[n] ELSE Mul(zs[i + 1], zr[i])
  IN  [table |-> [i \in 1 .. n |-> IF i = n THEN Ge(a[n].x, NormalizeWeak(a[n].y))
                                   ELSE GeSetGejZinv(a[i], zs[i])],
       globalz |-> a[n].z]
\* The points of a table on the z of the last one; zr[i] is z of point i over z of point i - 1.
GlobalzSetTable(a, zr) ==
  LET n == Len(a)
      zs[i \in 1 .. n - 1] == IF i = n - 1 THEN zr[n] ELSE Mul(zs[i + 1], zr[i + 1])
  IN  [table |-> [i \in 1 .. n |-> IF i = n THEN Ge(a[n].x, NormalizeWeak(a[n].y))
                                   ELSE GeSetGejZinv(a[i], zs[i])],
       globalz |-> a[n].z]

CurveRhs(x) == Add(SetInt(CURVE_B), Mul(x, Sqr(x)))
\* The point with this x and a square y, if x is on the curve.
SetXquad(x) == LET s == Sqrt(CurveRhs(x)) IN [ok |-> s.ok, ge |-> Ge(x, s.root)]
SetXo(x, odd) ==
  LET q == SetXquad(x)
      y == Normalize(q.ge.y)
  IN  [ok |-> q.ok, ge |-> Ge(x, IF IsOdd(y) # odd THEN Negate(y, 1) ELSE y)]

GejEqX(x, a) == Equal(Mul(Sqr(a.z), x), NormalizeWeak(a.x))
GeIsValid(a) ==
  /\ ~a.inf
  /\ Equal(Sqr(a.y), NormalizeWeak(Add(Mul(Sqr(a.x), a.x), SetInt(CURVE_B))))
GejIsValid(a) ==
  LET z2 == Sqr(a.z)
      z6 == MulInt(Mul(Sqr(z2), z2), CURVE_B)
  IN  ~a.inf /\ Equal(Sqr(a.y), NormalizeWeak(Add(Mul(Sqr(a.x), a.x), z6)))
HasQuadY(a) == ~a.inf /\ IsQuad(Mul(a.y, a.z))

-----------------------------------------------------------------------------
\* No doubling gives infinity: no point of the curve has y = 0.
DoubleVar(a) ==
  LET t1 == MulInt(Sqr(a.x), 3)
      t2 == Sqr(t1)
      y2 == MulInt(Sqr(a.y), 2)
      t4 == MulInt(Sqr(y2), 2)
      t3 == Mul(y2, a.x)
      y == Mul(t1, Add(MulInt(t3, 6), Negate(t2, 1)))
  IN  IF a.inf THEN [r |-> [a EXCEPT !.inf = TRUE], rzr |-> SetInt(1)]
      ELSE [r |-> Gej(Add(Negate(MulInt(t3, 4), 4), t2), Add(y, Negate(t4, 2)),
                      MulInt(Mul(a.z, a.y), 2)),
            rzr |-> MulInt(NormalizeWeak(a.y), 2)]

\* What the three additions share once both points are on one denominator: u and s are their
\* scaled x and y, hz is the factor between the z of a and the z of the sum.
Sum(a, u1, u2, s1, s2, Scaled(_)) ==
  LET h == Add(Negate(u1, 1), u2)
      i == Add(Negate(s1, 1), s2)
      h2 == Sqr(h)
      h3 == Mul(h, h2)
      hz == Scaled(h)
      t == Mul(u1, h2)
      x == Add(Negate(Add(MulInt(t, 2), h3), 3), Sqr(i))
      y == Add(Mul(Add(Negate(x, 5), t), i), Negate(Mul(h3, s1), 1))
  IN  IF ~NormalizesToZero(h) THEN [r |-> Gej(x, y, Mul(a.z, hz)), rzr |-> hz]
      ELSE IF NormalizesToZero(i) THEN DoubleVar(a)
      ELSE [r |-> GejInfinity, rzr |-> SetInt(0)]

AddVar(a, b) ==
  LET z22 == Sqr(b.z)
      z12 == Sqr(a.z)
  IN  IF a.inf THEN [r |-> b, rzr |-> Broken]
      ELSE IF b.inf THEN [r |-> a, rzr |-> SetInt(1)]
      ELSE Sum(a, Mul(a.x, z22), Mul(b.x, z12), Mul(Mul(a.y, z22), b.z), Mul(Mul(b.y, z12), a.z),
               LAMBDA h : Mul(h, b.z))

AddGeVar(a, b) ==
  LET z12 == Sqr(a.z)
  IN  IF a.inf THEN [r |-> GejSetGe(b), rzr |-> Broken]
      ELSE IF b.inf THEN [r |-> a, rzr |-> SetInt(1)]
      ELSE Sum(a, NormalizeWeak(a.x), Mul(b.x, z12), NormalizeWeak(a.y), Mul(Mul(b.y, z12), a.z),
               LAMBDA h : h)

\* b has the denominator 1 / bzinv.
AddZinvVar(a, b, bzinv) ==
  LET az == Mul(a.z, bzinv)
      z12 == Sqr(az)
      bge == GeSetGejZinv(b, bzinv)
  IN  IF b.inf THEN a
      ELSE IF a.inf THEN GejSetGe(bge)
      ELSE Sum(a, NormalizeWeak(a.x), Mul(b.x, z12), NormalizeWeak(a.y), Mul(Mul(b.y, z12), az),
               LAMBDA h : h).r

\* The addition that takes the same time for all points: one formula for sum and doubling,
\* another slope where y1 = -y2 and x1 # x2, and a last choice where a is infinite.
AddGe(a, b) ==
  LET zz == Sqr(a.z)
      u1 == NormalizeWeak(a.x)
      u2 == Mul(b.x, zz)
      s1 == NormalizeWeak(a.y)
      s2 == Mul(Mul(b.y, zz), a.z)
      t == Add(u1, u2)
      m == Add(s1, s2)
      negU2 == Negate(u2, 1)
      rr == Add(Sqr(t), Mul(u1, negU2))
      degenerate == NormalizesToZero(m) /\ NormalizesToZero(rr)
      rrAlt == Cmov(MulInt(s1, 2), rr, ~degenerate)
      mAlt == Cmov(Add(negU2, u1), m, ~degenerate)
      n == Sqr(mAlt)
      q == Negate(Mul(n, t), 1)
      n4 == Cmov(Sqr(n), m, degenerate)
      z == Mul(a.z, mAlt)
      x == NormalizeWeak(Add(Sqr(rrAlt), q))
      y == NormalizeWeak(Negate(Add(Mul(Add(MulInt(x, 2), q), rrAlt), n4), 3))
  IN  [inf |-> NormalizesToZero(z) /\ ~a.inf,
       x |-> Cmov(MulInt(x, 4), b.x, a.inf), y |-> Cmov(MulInt(y, 4), b.y, a.inf),
       z |-> Cmov(MulInt(z, 2), SetInt(1), a.inf)]

Rescale(r, s) ==
  LET zz == Sqr(s)
  IN  [r EXCEPT !.x = Mul(@, zz), !.y = Mul(Mul(@, zz), s), !.z = Mul(@, s)]

GeToStorage(a) == [x |-> Stored(Normalize(a.x)), y |-> Stored(Normalize(a.y))]
GeFromStorage(s) == Ge(s.x, s.y)
=============================================================================
