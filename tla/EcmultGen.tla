------------------------------- MODULE EcmultGen -------------------------------
(***************************************************************************)
(* Multiples of the generator for signing and for public keys              *)
(* (src/cipher/secp256k1/ecmult_gen_impl.h).  A context holds a table with *)
(* a row for each digit of a scalar, each entry offset by a point nobody   *)
(* knows the logarithm of, and a pair of blinding values: what is          *)
(* multiplied is the scalar plus blind, from the point initial.  The       *)
(* random generator behind the blinding is a choice of the caller's: s, a  *)
(* factor for the coordinates, and b, both not zero.                       *)
(***************************************************************************)
EXTENDS Ecmult

CONSTANTS
  GEN_BITS, GEN_DIGITS,    \* 4 bits in each of the 64 digits
  NUMS_X                   \* the x of the offset point

ASSUME GenAssumption == GEN_BITS * GEN_DIGITS >= BITS

NotBuilt == [prec |-> <<>>, initial |-> GejInfinity, blind |-> 0]
IsBuilt(ctx) == ctx.prec # <<>>

Nums == AddGeVar(GejSetGe(SetXo(SetInt(NUMS_X), FALSE).ge), ConstG).r

\* Row j holds U_j, U_j + 2^(j * GEN_BITS) * G, ...; the U_j are doubled from row to row and the
\* last one makes their sum zero.
Prec ==
  LET Row(nums, gbase) ==
        LET f[i \in 1 .. 2^GEN_BITS] ==
              IF i = 1 THEN <<nums>> ELSE LET r == f[i - 1] IN Append(r, AddVar(r[i - 1], gbase).r)
        IN  f[2^GEN_BITS]
      Up(r) == LET f[k \in 0 .. GEN_BITS] == IF k = 0 THEN r ELSE DoubleVar(f[k - 1]).r IN f[GEN_BITS]
      rows[j \in 0 .. GEN_DIGITS] ==
        IF j = 0 THEN [all |-> <<>>, gbase |-> GejSetGe(ConstG), nums |-> Nums]
        ELSE LET s == rows[j - 1]
                 twice == DoubleVar(s.nums).r
             IN  [all |-> s.all \o Row(s.nums, s.gbase), gbase |-> Up(s.gbase),
                  nums |-> IF j = GEN_DIGITS - 1 THEN AddVar(GejNeg(twice), Nums).r ELSE twice]
      affine == GeSetAllGejVar(rows[GEN_DIGITS].all)
  IN  [j \in 1 .. GEN_DIGITS |->
         [i \in 1 .. 2^GEN_BITS |-> GeToStorage(affine[(j - 1) * 2^GEN_BITS + i])]]

\* The entry of each digit is picked without a branch: all are read and one is kept.
EcmultGen(ctx, gn) ==
  LET gnb == (gn + ctx.blind) % N
      r[j \in 0 .. GEN_DIGITS] ==
        IF j = 0 THEN ctx.initial
        ELSE LET bits == GetBits(gnb, (j - 1) * GEN_BITS, GEN_BITS)
             IN  AddGe(r[j - 1], GeFromStorage(ctx.prec[j][bits + 1]))
  IN  r[GEN_DIGITS]

\* A fault: the new blinding value is there before the point that goes with it is computed.
BlindEarly(ctx, reset, s, b) ==
  LET start == IF reset THEN [ctx EXCEPT !.initial = GejNeg(GejSetGe(ConstG)), !.blind = 1] ELSE ctx
      early == [start EXCEPT !.initial = Rescale(@, SetInt(s)), !.blind = ScalarNegate(b)]
  IN  [early EXCEPT !.initial = EcmultGen(early, b)]
\* A reset forgets the blinding of before; otherwise the new point is computed with the old one.
Blind(ctx, reset, s, b) ==
  LET start == IF reset THEN [ctx EXCEPT !.initial = GejNeg(GejSetGe(ConstG)), !.blind = 1] ELSE ctx
      scaled == [start EXCEPT !.initial = Rescale(@, SetInt(s))]
  IN  [scaled EXCEPT !.blind = ScalarNegate(b), !.initial = EcmultGen(scaled, b)]

Build(ctx, s, b) == IF IsBuilt(ctx) THEN ctx ELSE Blind([ctx EXCEPT !.prec = Prec], TRUE, s, b)
ContextClone(src) == IF IsBuilt(src) THEN src ELSE NotBuilt
ContextClear(ctx) == NotBuilt
=============================================================================
