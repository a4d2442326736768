--------------------------------- MODULE MCCurve ---------------------------------
(***************************************************************************)
(* Points, keys and signatures on a small curve: y^2 = x^3 + 7 modulo 43   *)
(* has 31 points, so that, unlike on the real one, every branch is met: an *)
(* x that is not below the order, each recovery id, sums that are infinite *)
(* or doublings.  Apart from that, a key pair changes by legal calls, its  *)
(* context is blinded anew, and it signs and logs in.                      *)
(***************************************************************************)
EXTENDS EcmultMulti, KeyTool

CONSTANTS
  MaxRounds,    \* how often the context is randomized
  Call(_, _)    \* what a call of the library or of the key tools answers: Library, below

VARIABLES
  p, q,           \* two multiples of the generator, or -1
  ctx, rounds,    \* the context of the key pair
  sk, pk,         \* the key pair: 32 bytes and a key object
  sign,           \* << >>, or the last signature with what it signs and its text form
  login           \* what the last login was told

vars == <<p, q, ctx, rounds, sk, pk, sign, login>>

\* Multiples of the generator by the textbook's addition, the infinite one first.
Infinite == <<>>
InvP(v) == Pow(v % P, P - 2)
RefAdd(a, b) ==
  LET slope == IF a = b THEN (3 * a[1] * a[1] * InvP(2 * a[2])) % P
               ELSE ((b[2] - a[2]) * InvP(b[1] - a[1])) % P
      x == (slope * slope - a[1] - b[1]) % P
  IN  IF a = Infinite THEN b ELSE IF b = Infinite THEN a
      ELSE IF a[1] = b[1] /\ (a[2] + b[2]) % P = 0 THEN Infinite
      ELSE <<x, (slope * (a[1] - x) - a[2]) % P>>
Multiples == LET m[k \in 0 .. N - 1] == IF k = 0 THEN <<Infinite>>
                                        ELSE LET s == m[k - 1] IN Append(s, RefAdd(s[k], <<Gx, Gy>>))
             IN  m[N - 1]
At(k) == Multiples[(k % N) + 1]

\* The affine point a Jacobian one stands for; within the magnitudes every operation may rely on.
Affine(a) == LET zi == InvP(a.z.v)
             IN  IF a.inf THEN Infinite
                 ELSE <<(a.x.v * zi * zi) % P, (((a.y.v * zi) % P) * ((zi * zi) % P)) % P>>
Bounded(a) == a.x.m <= 6 /\ a.y.m <= 4 /\ a.z.m <= 2
Is(a, k) == Affine(a) = At(k) /\ Bounded(a)

\* The multiple k with denominator z, at the bounds of its magnitudes or fresh; and as an affine point.
Loose(v, m) == [v |-> v % P, m |-> m, n |-> FALSE]
Jacobian(k, z, full) ==
  LET a == At(k)
      M(m) == IF full THEN m ELSE 1
  IN  IF a = Infinite THEN [GejInfinity EXCEPT !.x = SetInt(3), !.y = SetInt(4), !.z = SetInt(5)]
      ELSE Gej(Loose(a[1] * z * z, M(6)), Loose(((a[2] * z) % P) * ((z * z) % P), M(4)), Loose(z, M(2)))
AffinePoint(k, m) ==
  IF At(k) = Infinite THEN GeInfinity ELSE Ge(SetInt(At(k)[1]), IF m = 1 THEN SetInt(At(k)[2]) ELSE Loose(At(k)[2], m))

-----------------------------------------------------------------------------
PrivateKeys == {0, 1, 31, 45}            \* 0 and those from 31 on are none
Tweaks == {1, 7, 30, 31}
Others == {5, 30}
Randomness == << <<3, 7>>, <<41, 30>> >>
Messages == {0, 9, 40}
NonceLists == {<<1>>, <<2, 5>>, <<31, 3, 5>>, <<0, 40, 8, 5>>, <<11, 5>>, <<23, 19>>, <<31>>}

\* The long calls of the steps, by name.  The profiler of TLC unfolds every definition that a step
\* uses wherever it is used, and stops at a constant.
Library(f, a) ==
  LET answer ==
        CASE f = "ContextCreate"    -> ContextCreate({"context", "sign", "verify"}, a[1], a[2]).out
          [] f = "ContextRandomize" -> ContextRandomize(a[1], a[2], a[3], a[4])
          [] f = "EcPubkeyCreate"   -> EcPubkeyCreate(a[1], a[2]).out
          [] f = "EcPubkeyNegate"   -> EcPubkeyNegate(a[1]).out
          [] f = "EcPubkeyTweakAdd" -> EcPubkeyTweakAdd(a[1], a[2], a[3]).out
          [] f = "EcPubkeyTweakMul" -> EcPubkeyTweakMul(a[1], a[2], a[3]).out
          [] f = "EcPubkeyCombine"  -> EcPubkeyCombine(a).out
          [] f = "SignRecoverable"  -> SignRecoverable(a[1], a[2], a[3], a[4])
          [] f = "GetSignByPrivateKey" ->
               GetSignByPrivateKey([size |-> HASH_SIZE, v |-> a[1]], a[2], a[3], Randomness)
          [] f = "GetPublicKeyByPrivateKey" -> GetPublicKeyByPrivateKey(a[1], Randomness)
          [] f = "ProcessLogin"     -> ProcessLogin(a[1], Randomness)
  IN  answer

Idle == /\ ctx = Call("ContextCreate", <<3, 7>>)
        /\ rounds = 0 /\ sign = <<>> /\ login = "none"
Init == Idle /\ \/ p \in 0 .. N - 1 /\ q = -1 /\ sk = 0 /\ pk = NoKey
                \/ p = -1 /\ q = -1 /\ sk \in PrivateKeys /\ pk = Call("EcPubkeyCreate", <<ctx, sk>>)

Meet == p # -1 /\ q = -1 /\ q' \in 0 .. N - 1 /\ UNCHANGED <<p, ctx, rounds, sk, pk, sign, login>>

Valid == p = -1 /\ SeckeyVerify(sk).ret /\ sign = <<>>
Changed(priv, pub) == sk' = priv /\ pk' = pub /\ UNCHANGED <<p, q, ctx, rounds, sign, login>>

Randomize == /\ Valid /\ rounds < MaxRounds /\ rounds' = rounds + 1
             /\ \E reset \in BOOLEAN : ctx' = Call("ContextRandomize", <<ctx, reset, 2, 7 + rounds>>)
             /\ UNCHANGED <<p, q, sk, pk, sign, login>>
NegateKeys == Valid /\ Changed(EcPrivkeyNegate(sk).out, Call("EcPubkeyNegate", <<pk>>))
AddTweak == /\ Valid
            /\ \E t \in Tweaks : Changed(EcPrivkeyTweakAdd(sk, t).out, Call("EcPubkeyTweakAdd", <<ctx, pk, t>>))
MulTweak == /\ Valid
            /\ \E t \in {0, 2, 31} :
                 Changed(EcPrivkeyTweakMul(sk, t).out, Call("EcPubkeyTweakMul", <<ctx, pk, t>>))
Combine == /\ Valid
           /\ \E o \in Others : Changed(EcPrivkeyTweakAdd(sk, o).out,
                                        Call("EcPubkeyCombine", <<Call("EcPubkeyCreate", <<ctx, o>>), pk>>))
Sign == /\ Valid
        /\ \E msg \in Messages, nonces \in NonceLists :
             sign' = << [msg |-> msg, nonces |-> nonces,
                         sig |-> Call("SignRecoverable", <<ctx, msg, sk, nonces>>),
                         text |-> Call("GetSignByPrivateKey", <<msg, sk, nonces>>)] >>
        /\ UNCHANGED <<p, q, ctx, rounds, sk, pk, login>>
Login == /\ sign # <<>> /\ sign[1].sig.ret /\ login = "none"
         /\ login' = Call("ProcessLogin", << [publickey |-> Call("GetPublicKeyByPrivateKey", <<sk>>),
                                              digest |-> sign[1].msg, sign |-> sign[1].text] >>)
         /\ UNCHANGED <<p, q, ctx, rounds, sk, pk, sign>>

Next == Meet \/ Randomize \/ NegateKeys \/ AddTweak \/ MulTweak \/ Combine \/ Sign \/ Login
Spec == Init /\ [][Next]_vars

-----------------------------------------------------------------------------
\* Every addition of group_impl.h gives the sum for all pairs of points, the equal, opposite and
\* infinite ones too, from inputs at the limits of their magnitudes and within the limits of what
\* follows; the z-ratios tell the new denominator.
Zs == {1, 2, 42}
Ratio(a, s) == ~a.inf /\ ~s.r.inf => s.r.z.v = (a.z.v * s.rzr.v) % P
AdditionsExact(k, l) ==
  \A z \in Zs, full \in BOOLEAN :
    LET a == Jacobian(k, z, full)
        b == Jacobian(l, 2, full)
        double == DoubleVar(a)
        sum == AddVar(a, b)
        mixed == AddGeVar(a, AffinePoint(l, 2))
        all == GeSetAllGejVar(<<a, b, a>>)
    IN  /\ Is(double.r, 2 * k) /\ Ratio(a, double)
        /\ Is(sum.r, k + l) /\ Ratio(a, sum)
        /\ Is(mixed.r, k + l) /\ Ratio(a, mixed)
        /\ Is(AddZinvVar(a, [inf |-> b.inf, x |-> b.x, y |-> b.y], Inv(b.z)), k + l)
        /\ l # 0 => Is(AddGe(a, AffinePoint(l, 1)), k + l)
        /\ Is(GejSetGe(GeSetGejVar(a)), k) /\ Affine(GejNeg(a)) = At(-k)
        /\ \A i \in 1 .. 3 : Is(GejSetGe(all[i]), IF i = 2 THEN l ELSE k)
        /\ k # 0 => /\ GejIsValid([a EXCEPT !.x = NormalizeWeak(@)])
                    /\ HasQuadY(a) = IsQuad(Loose(Affine(a)[2], 1))

\* The digits of every recoding say the number again.
DigitValue(d, base) == LET v[i \in 0 .. Len(d)] == IF i = 0 THEN 0 ELSE v[i - 1] * base + d[Len(d) + 1 - i]
                       IN  v[Len(d)]
RecodingsExact(l) ==
  /\ \A w \in {WINDOW_A, WINDOW_G} : DigitValue(Wnaf(l, w), 2) % N = l
  /\ \A w \in 2 .. 4 : LET f == WnafFixed(l, w)
                       IN  /\ DigitValue(f.wnaf, 2^w) - f.skew = l
                           /\ \A i \in DOMAIN f.wnaf :
                                f.wnaf[i] # 0 => f.wnaf[i] % 2 = 1 /\ f.wnaf[i] < 2^w /\ f.wnaf[i] > -(2^w)

\* The sum of three points by every method, in any memory in which it is computed at all.
Term(s, k) == [ok |-> TRUE, sc |-> s % N, pt |-> AffinePoint(k, 1)]
Terms(k, l) == <<Term(k, l), Term(l, 3), Term(k * l, k)>>
TermsSum(k, l) == k * l + 3 * l + k * k * l
SumsExact(k, l) ==
  /\ \A size \in {0, 700, 4000, 5000, 7000, 20000} :
       LET s == Memory!Create(size)
           r == MultiVar(s, TRUE, 5, Terms(k, l))
       IN  IF r.ok THEN r.s = s /\ Affine(r.r) = At(TermsSum(k, l) + 5) ELSE size < 5000
  /\ Affine(MultiSimpleVar(FALSE, 0, Terms(k, l)).r) = At(TermsSum(k, l))
  /\ Affine(PippengerBatch(Memory!Create(10000), FALSE, 0, Terms(k, l)).r) = At(TermsSum(k, l))
  /\ Affine(StraussBatch(Memory!Create(20000), TRUE, l, Terms(k, l)).r) = At(TermsSum(k, l) + l)
  /\ ~MultiVar(Memory!Create(20000), TRUE, 5, Append(Terms(k, l), [Term(1, 1) EXCEPT !.ok = FALSE])).ok

AllExact(k, l) ==
  /\ AdditionsExact(k, l)
  /\ RecodingsExact(l)
  /\ SumsExact(k, l)
  /\ Is(Ecmult(Jacobian(k, 5, TRUE), l, 3 * l % N), k * l + 3 * l)
  /\ Is(EcmultGen(ctx.gen, l), l)
  /\ k # 0 => /\ Is(EcmultConst(AffinePoint(k, 1), l, BITS), k * l)
              /\ LET t == OddMultiplesStorage(4, Jacobian(k, 5, TRUE))
                 IN  \A i \in 1 .. 4 : Is(GejSetGe(GeFromStorage(t[i])), k * (2 * i - 1))

\* Whatever the windows, tables and methods of ecmult_impl.h, ecmult_const_impl.h and
\* ecmult_gen_impl.h, the point they give is the multiple that was asked for.
MultiplesExact == [][q' # q => AllExact(p, q')]_vars

\* The largest number of points that fits, and the sizes where the windows change.
Real == INSTANCE Scratch WITH WNAF_BITS <- 256, WINDOW_A <- 5
Counts(max) == {max, max - 1, max - 2} \cup {1, 11, 12, 45, 46, 100, 101, 275, 276, 625, 626,
                                              1850, 1851, 3400, 3401}
RoomForAll(k, l) ==
  LET s == Real!Create((k * N + l) * (k * N + l) * 10 + l)
      Given(g) == g.frame /\ g.objects /\ g.s = s
      pippenger == Real!PippengerMaxPoints(s)
      strauss == Real!StraussMaxPoints(s)
  IN  /\ \A n \in Counts(pippenger) : n >= 1 /\ n <= pippenger => Given(Real!PippengerGranted(s, n))
      /\ \A n \in Counts(strauss) : n >= 1 /\ n <= strauss => Given(Real!StraussGranted(s, n))

\* At the real sizes: as many points as the scratch space is said to have room for find room, each
\* object of their frame is granted, and the space is as it was before when the batch is over
\* (pippenger_max_points and strauss_max_points against the allocations of the batches).
ScratchSuffices == [][q' # q => RoomForAll(p, q')]_vars

-----------------------------------------------------------------------------
\* What is hashed for a public key that is none: the point of two zeros, its own multiple by anything.
NobodysSecret == [odd |-> FALSE, x |-> 0]

Agree(c, s, k) ==
  LET fresh == EcPubkeyCreate(c, s)
      form == EcPubkeySerialize(65, k, FALSE).out
      short == EcPubkeySerialize(33, k, TRUE).out
      On(x, y) == x < P /\ y < P /\ (y * y - x * x * x - 7) % P = 0
  IN  /\ fresh.out = k /\ fresh.ret = SeckeyVerify(s).ret
      /\ fresh = EcPubkeyCreate(CloneContext(c), s)
      /\ GetPublicKeyByPrivateKey(s, Randomness) = IF fresh.ret THEN form ELSE Died
      /\ fresh.ret =>
           /\ <<k.x.v, k.y.v>> = At(s)
           /\ EcPubkeyParse(form) = fresh /\ EcPubkeyParse(short) = fresh
           /\ \A tag \in {4, 6, 7}, y \in {k.y.v, P - k.y.v, (k.y.v + 1) % P, k.y.v + P} :
                EcPubkeyParse([form EXCEPT !.tag = tag, !.y = y]).ret
                  = (On(k.x.v, y) /\ (tag # 4 => y % 2 = tag - 6))
           /\ \A o \in Others :
                LET other == EcPubkeyCreate(c, o).out
                IN  /\ Ecdh(other, s) = Ecdh(k, o) /\ Ecdh(k, o).ret
                    /\ GetEcdhKey(form, [size |-> 32, v |-> o], Randomness) = Ecdh(k, o).out
           /\ GetEcdhKey(form, [size |-> 32, v |-> N], Randomness) = [size |-> 32, v |-> 0]
           /\ \A o \in Others \cup {s} :
                GetEcdhKey([form EXCEPT !.tag = 5], [size |-> 32, v |-> o], Randomness) = NobodysSecret

\* The two halves of a key pair stay a pair through every call that changes both, also where a
\* call fails and wipes them, and no blinding of the context shows in a result.  Two pairs share
\* one secret, and bytes that are no public key make one and the same with every private key
\* (neither GetEcdhKey nor secp256k1_ecdh looks at the parsing); the forms of a public key are read
\* back, and nothing off the curve is read.
KeysAgree == (p = -1 => Agree(ctx, sk, pk)) /\ [][Agree(ctx', sk', pk')]_<<ctx, sk, pk>>

-----------------------------------------------------------------------------
\* DER on numbers of two bytes, below 50000: what is written is read; of all bytes that differ in
\* one place by another byte, one more or one less, none is read as two numbers it is not the form of.
Der == INSTANCE Der WITH Order <- 50000, SCALAR_BYTES <- 2, SIZE_T <- 2
DerNumbers == <<0, 1, 127, 128, 199, 255, 256, 257, 32767, 32768, 40000>>
DerBytes == {0, 1, 2, 3, 4, 48, 127, 128, 129, 255}
Edits(m) == {[m EXCEPT ![i] = b] : i \in DOMAIN m, b \in DerBytes}
            \cup {SubSeq(m, 1, i) \o <<b>> \o SubSeq(m, i + 1, Len(m)) : i \in 0 .. Len(m), b \in DerBytes}
            \cup {SubSeq(m, 1, i - 1) \o SubSeq(m, i + 1, Len(m)) : i \in DOMAIN m}
Written(r, s) == Der!SigSerialize(r, s, 12)
Ones(n) == [i \in 1 .. n |-> 1]
DerCanonical(r, s) ==
  /\ Written(r, s).ok /\ Written(r, s).size = Len(Written(r, s).sig)
  /\ ~Der!SigSerialize(r, s, Written(r, s).size - 1).ok
  /\ Der!SigParse(Written(r, s).sig) = [ok |-> TRUE, r |-> r, s |-> s]
  /\ \A e \in Edits(Written(r, s).sig) :
       LET d == Der!SigParse(e) IN d.ok /\ d.r # 0 /\ d.s # 0 => Written(d.r, d.s).sig = e
  /\ Der!SigParse(<<48, 129, 136, 2, 129, 130>> \o Ones(130) \o <<2, 1, 5>>) = [ok |-> TRUE, r |-> 0, s |-> 5]
  /\ ~Der!SigParse(<<48, 129, 126, 2, 120>> \o Ones(120) \o <<2, 2, 1, 1>>).ok
  /\ Der!SigParse(<<48, 126, 2, 120>> \o Ones(120) \o <<2, 2, 1, 1>>) = [ok |-> TRUE, r |-> 0, s |-> 257]

\* Whose signature of msg a text is by the equation s * k = msg + r * d of ECDSA, where the recovery
\* id tells the point of the nonce k: one private key d, or nobody's.
Id(t) == IF t.v \in 27 .. 38 THEN (t.v - 27) % 4 ELSE t.v
WellFormed(t) == t.size = 65 /\ t.r < N /\ t.s < N /\ Id(t) <= 3
Signers(t, msg) ==
  {d \in 1 .. N - 1 : \E k \in 1 .. N - 1 :
     /\ t.r # 0 /\ t.s # 0 /\ (t.s * k - msg - t.r * d) % N = 0
     /\ At(k)[1] = t.r + N * (Id(t) \div 2) /\ At(k)[2] % 2 = Id(t) % 2}
FormOf(d) == [size |-> 65, tag |-> TAG_UNCOMPRESSED, x |-> At(d)[1], y |-> At(d)[2]]
Nobody == [size |-> 0]

Holds(g) ==
  LET sig == g.sig.out
      plain == RecoverableConvert(sig)
      high == [plain EXCEPT !.s = ScalarNegate(@)]
      form == SignatureSerializeDer(8, plain).out
      public == GetPublicKeyByPrivateKey(sk, Randomness)
      \* The x of (m + r * sk) / s, which is the point of the nonce, is r modulo the order.
      Matches(w, m) == LET k == ScalarMul(ScalarInverse(w.s), (m + w.r * sk) % N)
                       IN  At(k) # Infinite /\ At(k)[1] % N = w.r
      short == EcPubkeySerialize(33, pk, TRUE).out
      Told(key, text) == SignIsValidate([size |-> HASH_SIZE, v |-> g.msg], key, text, Randomness)
      texts == {[g.text EXCEPT !.v = v] : v \in {0, 3, 4, 28, 29, 34, 37, 39}}
               \cup {[g.text EXCEPT !.r = N], [g.text EXCEPT !.r = (@ + 1) % N], [g.text EXCEPT !.s = 0],
                     [g.text EXCEPT !.s = N - @], [g.text EXCEPT !.size = 64]}
  IN  /\ EcdsaSign(ctx, g.msg, sk, g.nonces).out = plain
      /\ sig.r # 0 /\ sig.s # 0 /\ ~IsHigh(sig.s)
      /\ EcdsaVerify(ctx, plain, g.msg, pk).ret /\ ~EcdsaVerify(ctx, high, g.msg, pk).ret
      /\ \A m \in {0, 1, 13, g.msg + 1} : EcdsaVerify(ctx, plain, m, pk).ret = Matches(plain, m)
      /\ SignatureNormalize(high) = Returns(TRUE, plain) /\ SignatureNormalize(plain) = Returns(FALSE, plain)
      /\ \A id \in 0 .. 3 : (EcdsaRecover(ctx, [sig EXCEPT !.recid = id], g.msg).out = pk) = (id = sig.recid)
      /\ SignatureParseDer(form) = Returns(TRUE, plain)
      /\ RecoverableParseCompact(sig.r, sig.s, sig.recid) = Returns(TRUE, sig)
      /\ g.text.r = sig.r /\ g.text.s = sig.s
      /\ sig.recid <= 1 => Told(public, g.text) = "right"
      /\ \A t \in texts :
           LET signers == {FormOf(d) : d \in Signers(t, g.msg)}
           IN  \A key \in {public, short, Nobody} \cup signers :
                 (Told(key, t) = "right") <=>
                   WellFormed(t) /\ key \in (IF signers = {} THEN {Nobody} ELSE signers)

\* A signature verifies under its key, with no message its equation is not true of and with the
\* lower s only; its recovery id and no other gives the key; its forms say it again.
\* SignIsValidate tells right for it where its text form keeps the id.  Of all texts and keys it tells
\* right for the key whose signature the text is and no other; where the text is well-formed and
\* nobody's signature, so that the recovery it does not look at fails, for the empty key alone.
\* A DER form that is read is the one form of what it says.
SignaturesHold ==
  [][/\ sign' # sign /\ sign'[1].sig.ret => Holds(sign'[1])
     /\ q' # q /\ p < Len(DerNumbers) /\ q' < Len(DerNumbers) =>
          DerCanonical(DerNumbers[p + 1], DerNumbers[q' + 1])]_vars

\* "uses the public key to determine whether the signature is correct" (key_tool.h:48-55, and
\* "is the signature correct" of what it returns): a login signed with the key it names is told right.
LoginValidates == login # "none" => login = "right"
=============================================================================
