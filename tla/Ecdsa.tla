--------------------------------- MODULE Ecdsa ---------------------------------
(***************************************************************************)
(* Signatures and keys (src/cipher/secp256k1: ecdsa_impl.h, eckey_impl.h   *)
(* and the recovery of secp256k1_recovery.c).  Thirty-two bytes are the    *)
(* number they write, which may be no scalar and no field element.         *)
(***************************************************************************)
EXTENDS EcmultGen

ASSUME OrderAssumption == N < P /\ P < 2 * N

ScalarSetB32(b) == [v |-> b % N, overflow |-> b >= N]
FeSetB32(b) == [ok |-> b < P, fe |-> SetInt(b)]
ScalarMul(a, b) == (a * b) % N
ScalarInverse(s) == LET f[i \in 0 .. N - 2] == IF i = 0 THEN 1 ELSE ScalarMul(f[i - 1], s) IN f[N - 2]

-----------------------------------------------------------------------------
\* The x of the point is r or, where that is below the prime, r + N; no division by z is needed.
SigVerify(sigr, sigs, pubkey, message) ==
  LET sn == ScalarInverse(sigs)
      pr == Ecmult(GejSetGe(pubkey), ScalarMul(sn, sigr), ScalarMul(sn, message))
      xr == SetInt(sigr)
  IN  /\ sigr # 0 /\ sigs # 0
      /\ ~pr.inf
      /\ GejEqX(xr, pr) \/ (sigr < P - N /\ GejEqX(Add(xr, SetInt(N)), pr))

\* A fault: the recovery id stays that of the point before it is negated.
LowerKeepsId(r, s, recid) == [ok |-> s # 0, r |-> r, s |-> IF IsHigh(s) THEN ScalarNegate(s) ELSE s, recid |-> recid]
\* The lower of s and -s is taken, which negates the point.
Lower(r, s, recid) ==
  IF IsHigh(s)
  THEN [ok |-> TRUE, r |-> r, s |-> ScalarNegate(s), recid |-> IF recid % 2 = 1 THEN recid - 1 ELSE recid + 1]
  ELSE [ok |-> s # 0, r |-> r, s |-> s, recid |-> recid]

\* recid tells which of the points with this r was meant: 2 for an x that is not below N and 1 for
\* an odd y.
SigSign(ctx, seckey, message, nonce) ==
  LET r == GeSetGej(EcmultGen(ctx, nonce))
      sigr == ScalarSetB32(GetB32(Normalize(r.x)))
      recid == (IF sigr.overflow THEN 2 ELSE 0) + (IF IsOdd(Normalize(r.y)) THEN 1 ELSE 0)
      sigs == ScalarMul(ScalarInverse(nonce), (ScalarMul(sigr.v, seckey) + message) % N)
  IN  Lower(sigr.v, sigs, recid)

\* The key under which the signature is right: (s * R - m * G) / r.
SigRecover(sigr, sigs, message, recid) ==
  LET fx == SetInt(sigr)
      high == recid \div 2 = 1
      x == SetXo(IF high THEN Add(fx, SetInt(N)) ELSE fx, recid % 2 = 1)
      rn == ScalarInverse(sigr)
      qj == Ecmult(GejSetGe(x.ge), ScalarMul(rn, sigs), ScalarNegate(ScalarMul(rn, message)))
  IN  IF sigr = 0 \/ sigs = 0 \/ (high /\ sigr >= P - N) \/ ~x.ok
      THEN [ok |-> FALSE, q |-> GeInfinity]
      ELSE [ok |-> ~qj.inf, q |-> GeSetGejVar(qj)]

-----------------------------------------------------------------------------
TAG_EVEN == 2
TAG_ODD == 3
TAG_UNCOMPRESSED == 4
TAG_HYBRID_EVEN == 6
TAG_HYBRID_ODD == 7

\* A public key in bytes: its size, its first byte and its one or two coordinates.
PubkeyParse(pub) ==
  LET x == FeSetB32(pub.x)
      y == FeSetB32(pub.y)
      whole == Ge(x.fe, y.fe)
      short == SetXo(x.fe, pub.tag = TAG_ODD)
      No == [ok |-> FALSE, ge |-> GeInfinity]
  IN  IF pub.size = 33 /\ pub.tag \in {TAG_EVEN, TAG_ODD}
      THEN IF x.ok /\ short.ok THEN short ELSE No
      ELSE IF pub.size = 65 /\ pub.tag \in {TAG_UNCOMPRESSED, TAG_HYBRID_EVEN, TAG_HYBRID_ODD}
      THEN IF ~x.ok \/ ~y.ok \/ ~GeIsValid(whole) THEN No
           ELSE IF pub.tag # TAG_UNCOMPRESSED /\ IsOdd(y.fe) # (pub.tag = TAG_HYBRID_ODD) THEN No
           ELSE [ok |-> TRUE, ge |-> whole]
      ELSE No

PubkeySerialize(elem, compressed) ==
  LET x == Normalize(elem.x)
      y == Normalize(elem.y)
  IN  [ok |-> ~elem.inf,
       pub |-> IF compressed
               THEN [size |-> 33, tag |-> IF IsOdd(y) THEN TAG_ODD ELSE TAG_EVEN, x |-> GetB32(x), y |-> 0]
               ELSE [size |-> 65, tag |-> TAG_UNCOMPRESSED, x |-> GetB32(x), y |-> GetB32(y)]]

PrivkeyTweakAdd(key, tweak) == LET sum == (key + tweak) % N IN [ok |-> sum # 0, key |-> sum]
PrivkeyTweakMul(key, tweak) == [ok |-> tweak # 0, key |-> ScalarMul(key, tweak)]
PubkeyTweakAdd(key, tweak) == LET pt == Ecmult(GejSetGe(key), 1, tweak)
                              IN  [ok |-> ~pt.inf, ge |-> GeSetGejVar(pt)]
PubkeyTweakMul(key, tweak) == IF tweak = 0 THEN [ok |-> FALSE, ge |-> key]
                              ELSE [ok |-> TRUE, ge |-> GeSetGej(Ecmult(GejSetGe(key), tweak, 0))]
=============================================================================
