------------------------------- MODULE Secp256k1 -------------------------------
(***************************************************************************)
(* The library's calls (src/cipher/secp256k1: secp256k1.c,                 *)
(* secp256k1_recovery.c, main_impl.h).  A call gives what it returns and   *)
(* what it leaves in its output (Kept: what was there).  An argument that  *)
(* fails its ARG_CHECK ends the call and nothing else: here                *)
(* secp256k1_callback_call is empty (util.h), so neither it nor a caller   *)
(* that does not look at the result stops the program.  Pointers are never *)
(* null, as they are in no call of the program.  The nonces of a signature *)
(* are a sequence, one for each counter; where it ends the nonce function  *)
(* refuses.                                                                *)
(***************************************************************************)
EXTENDS Ecdsa

CONSTANT SCALAR_BYTES    \* 32

DerForm == INSTANCE Der WITH Order <- N, SIZE_T <- 8

Kept == [kept |-> TRUE]
Returns(ret, out) == [ret |-> ret, out |-> out]
\* What a call whose argument fails its ARG_CHECK has left by then.
Illegal(out) == Returns(FALSE, out)
\* What is left of an output that is wiped before it is written.
Writes(ret, out, wiped) == Returns(ret, IF ret THEN out ELSE wiped)

-----------------------------------------------------------------------------
\* A context; flags is a subset of {"context", "sign", "verify"}, s and b are random.
ContextCreate(flags, s, b) ==
  IF "context" \notin flags THEN Illegal(Kept)
  ELSE Returns(TRUE, [verify |-> "verify" \in flags,
                      gen |-> IF "sign" \in flags THEN Build(NotBuilt, s, b) ELSE NotBuilt])
CloneContext(ctx) == [verify |-> ctx.verify, gen |-> ContextClone(ctx.gen)]
ContextDestroy(ctx) == [verify |-> FALSE, gen |-> ContextClear(ctx.gen)]
ContextRandomize(ctx, reset, s, b) ==
  IF IsBuilt(ctx.gen) THEN [ctx EXCEPT !.gen = Blind(@, reset, s, b)] ELSE ctx

-----------------------------------------------------------------------------
\* Public keys: the bytes of a key object are the two stored coordinates, zeros where there is none.
NoKey == [x |-> SetInt(0), y |-> SetInt(0)]
PubkeyLoad(pubkey) == [ok |-> ~IsZero(pubkey.x), ge |-> GeFromStorage(pubkey)]
PubkeySave(ge) == GeToStorage(ge)

EcPubkeyParse(input) == LET q == PubkeyParse(input) IN Writes(q.ok, PubkeySave(q.ge), NoKey)

\* room is the size of the output.
EcPubkeySerialize(room, pubkey, compressed) ==
  LET load == PubkeyLoad(pubkey)
      form == PubkeySerialize(load.ge, compressed)
  IN  IF room < (IF compressed THEN 33 ELSE 65) THEN Illegal(Kept)
      ELSE IF ~load.ok THEN Illegal([size |-> 0])
      ELSE Writes(form.ok, form.pub, [size |-> 0])

SeckeyVerify(seckey) == LET sec == ScalarSetB32(seckey) IN Returns(~sec.overflow /\ sec.v # 0, Kept)

EcPubkeyCreate(ctx, seckey) ==
  LET valid == SeckeyVerify(seckey).ret
  IN  IF ~IsBuilt(ctx.gen) THEN Illegal(NoKey)
      ELSE Writes(valid, PubkeySave(GeSetGej(EcmultGen(ctx.gen, seckey))), NoKey)

EcPrivkeyNegate(seckey) == Returns(TRUE, ScalarNegate(ScalarSetB32(seckey).v))
EcPubkeyNegate(pubkey) ==
  LET p == PubkeyLoad(pubkey)
  IN  IF p.ok THEN Returns(TRUE, PubkeySave(GeNeg(p.ge))) ELSE Illegal(NoKey)

\* A tweak that is no scalar or brings nothing usable wipes the key.
EcPrivkeyTweak(Tweaked(_, _), seckey, tweak) ==
  LET term == ScalarSetB32(tweak)
      new == Tweaked(ScalarSetB32(seckey).v, term.v)
  IN  Writes(~term.overflow /\ new.ok, new.key, 0)
EcPubkeyTweak(ctx, Tweaked(_, _), pubkey, tweak) ==
  LET term == ScalarSetB32(tweak)
      p == PubkeyLoad(pubkey)
      new == Tweaked(p.ge, term.v)
  IN  IF ~ctx.verify THEN Illegal(Kept)
      ELSE Writes(~term.overflow /\ p.ok /\ new.ok, PubkeySave(new.ge), NoKey)
EcPrivkeyTweakAdd(seckey, tweak) == EcPrivkeyTweak(PrivkeyTweakAdd, seckey, tweak)
EcPrivkeyTweakMul(seckey, tweak) == EcPrivkeyTweak(PrivkeyTweakMul, seckey, tweak)
EcPubkeyTweakAdd(ctx, pubkey, tweak) == EcPubkeyTweak(ctx, PubkeyTweakAdd, pubkey, tweak)
EcPubkeyTweakMul(ctx, pubkey, tweak) == EcPubkeyTweak(ctx, PubkeyTweakMul, pubkey, tweak)

\* Whether a key loads is not looked at: one that is no key is added as the point of two zeros.
EcPubkeyCombine(pubnonces) ==
  LET n == Len(pubnonces)
      Qj[i \in 0 .. n] == IF i = 0 THEN GejInfinity ELSE AddGe(Qj[i - 1], PubkeyLoad(pubnonces[i]).ge)
  IN  IF n = 0 THEN Illegal(NoKey)
      ELSE Writes(~Qj[n].inf, PubkeySave(GeSetGej(Qj[n])), NoKey)

-----------------------------------------------------------------------------
\* Signatures: r and s, and the recovery id where the key is to be recovered.
NoSignature == [r |-> 0, s |-> 0]
NoRecoverable == [r |-> 0, s |-> 0, recid |-> 0]

SignatureParseDer(input) ==
  LET p == DerForm!SigParse(input) IN Writes(p.ok, [r |-> p.r, s |-> p.s], NoSignature)
SignatureSerializeDer(room, sig) ==
  LET form == DerForm!SigSerialize(sig.r, sig.s, room) IN Writes(form.ok, form.sig, Kept)
SignatureParseCompact(r, s) ==
  Writes(~ScalarSetB32(r).overflow /\ ~ScalarSetB32(s).overflow, [r |-> r, s |-> s], NoSignature)
SignatureSerializeCompact(sig) == <<sig.r, sig.s>>
SignatureNormalize(sig) ==
  Returns(IsHigh(sig.s), IF IsHigh(sig.s) THEN [sig EXCEPT !.s = ScalarNegate(@)] ELSE sig)

RecoverableParseCompact(r, s, recid) ==
  IF recid \notin 0 .. 3 THEN Illegal(Kept)
  ELSE Writes(SignatureParseCompact(r, s).ret, [r |-> r, s |-> s, recid |-> recid], NoRecoverable)
RecoverableSerializeCompact(sig) == <<sig.r, sig.s, sig.recid>>
RecoverableConvert(sig) == [r |-> sig.r, s |-> sig.s]

\* The nonces are tried in turn until one makes a signature.
FirstSigned(ctx, msg, seckey, nonces) ==
  LET m == ScalarSetB32(msg).v
      try[k \in 1 .. Len(nonces) + 1] ==
        LET non == ScalarSetB32(nonces[k])
            sig == SigSign(ctx.gen, seckey, m, non.v)
        IN  IF k > Len(nonces) THEN [ok |-> FALSE, r |-> 0, s |-> 0, recid |-> 0]
            ELSE IF non.overflow \/ non.v = 0 \/ ~sig.ok THEN try[k + 1]
            ELSE sig
  IN  try[1]
SignRecoverable(ctx, msg, seckey, nonces) ==
  LET valid == SeckeyVerify(seckey).ret
      sig == FirstSigned(ctx, msg, seckey, nonces)
  IN  IF ~IsBuilt(ctx.gen) THEN Illegal(Kept)
      ELSE Writes(valid /\ sig.ok, [r |-> sig.r, s |-> sig.s, recid |-> sig.recid], NoRecoverable)
EcdsaSign(ctx, msg, seckey, nonces) ==
  LET sig == SignRecoverable(ctx, msg, seckey, nonces)
  IN  IF ~IsBuilt(ctx.gen) THEN sig ELSE Returns(sig.ret, RecoverableConvert(sig.out))

\* A signature with the higher s is refused.
EcdsaVerify(ctx, sig, msg, pubkey) ==
  LET q == PubkeyLoad(pubkey)
  IN  IF ~ctx.verify THEN Illegal(Kept)
      ELSE Returns(~IsHigh(sig.s) /\ q.ok /\ SigVerify(sig.r, sig.s, q.ge, ScalarSetB32(msg).v), Kept)

EcdsaRecover(ctx, sig, msg) ==
  LET q == SigRecover(sig.r, sig.s, ScalarSetB32(msg).v, sig.recid)
  IN  IF ~ctx.verify THEN Illegal(Kept)
      ELSE Writes(q.ok, PubkeySave(q.q), NoKey)

\* The shared secret is a hash of whether y is odd and of x.  Whether the point loads is not looked
\* at: for one that is no key the multiple of the point of two zeros is hashed.
Ecdh(point, scalar) ==
  LET pt == PubkeyLoad(point)
      res == GeSetGej(EcmultConst(pt.ge, scalar, BITS))
  IN  Writes(SeckeyVerify(scalar).ret,
             [odd |-> IsOdd(Normalize(res.y)), x |-> GetB32(Normalize(res.x))], Kept)
=============================================================================
