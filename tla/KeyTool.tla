-------------------------------- MODULE KeyTool --------------------------------
(***************************************************************************)
(* The program's use of the library (src/cipher/key_tool.cpp) and the one  *)
(* caller it has, the login (Server::ProcessLogin).  Strings are records   *)
(* with their size; random is what the call draws for its context: a pair  *)
(* for the context as it is built and one for its randomizing.  A call     *)
(* that ends the program, which only an assert does, gives Died.           *)
(***************************************************************************)
EXTENDS Secp256k1

HASH_SIZE == 32
PRI_KEY_SIZE == 32
PUB_KEY_SIZE == 2 * PRI_KEY_SIZE + 1
RECOVER_SIGN_SIZE == 65

Died == [died |-> TRUE]

Context(flags, random) ==
  ContextRandomize(ContextCreate(flags \cup {"context"}, random[1][1], random[1][2]).out,
                   FALSE, random[2][1], random[2][2])
Both == {"sign", "verify"}

GetPublicKeyByPrivateKey(private_key, random) ==
  LET pubkey == EcPubkeyCreate(Context(Both, random), private_key)
  IN  IF pubkey.ret THEN EcPubkeySerialize(PUB_KEY_SIZE, pubkey.out, FALSE).out ELSE Died

\* A key that is none makes a signature of zeros; the ids 2 and 3 are written as 0.
GetSignByPrivateKey(buf, pri_key, nonces, random) ==
  LET sig == SignRecoverable(Context(Both, random), buf.v, pri_key, nonces).out
      v == CASE sig.recid = 0 -> 27 [] sig.recid = 1 -> 28 [] OTHER -> 0
  IN  IF buf.size # HASH_SIZE THEN Died
      ELSE [size |-> RECOVER_SIGN_SIZE, r |-> sig.r, s |-> sig.s, v |-> v]

\* The result of the recovery is not looked at: without a key the serializing says that it wrote
\* nothing, and the key that was given is compared with nothing.
SignIsValidate(buf, pub_key, sign, random) ==
  LET ctx == Context({"verify"}, random)
      recid == CASE sign.v \in 27 .. 30 -> sign.v - 27
                 [] sign.v \in 31 .. 34 -> sign.v - 31
                 [] sign.v \in 35 .. 38 -> sign.v - 35
                 [] OTHER -> sign.v
      sig == RecoverableParseCompact(sign.r, sign.s, recid)
      output == EcPubkeySerialize(PUB_KEY_SIZE, EcdsaRecover(ctx, sig.out, buf.v).out, FALSE)
  IN  IF buf.size = HASH_SIZE /\ sign.size = RECOVER_SIGN_SIZE /\ sig.ret /\ pub_key = output.out
      THEN "right" ELSE "wrong"

\* Neither the parsing nor the secret is looked at: for bytes that are no public key the key comes
\* from the point of two zeros, and for a scalar that is none it is of zeros.
GetEcdhKey(pub_key, pri_key, random) ==
  LET secret == Ecdh(EcPubkeyParse(pub_key).out, pri_key.v)
  IN  IF pub_key.size # PUB_KEY_SIZE \/ pri_key.size # PRI_KEY_SIZE THEN [size |-> 0]
      ELSE IF secret.ret THEN secret.out ELSE [size |-> 32, v |-> 0]

\* The signed data is the key with eight bytes of a time and four of an index; it is not hashed.
ProcessLogin(msg, random) ==
  LET for_sign == [size |-> msg.publickey.size + 8 + 4, v |-> msg.digest]
  IN  SignIsValidate(for_sign, msg.publickey, msg.sign, random)
=============================================================================
