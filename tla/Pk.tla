---------------------------------- MODULE Pk ----------------------------------
(***************************************************************************)
(* pk.c and pk_wrap.c: one face for the kinds of key.  A context is a kind *)
(* and a key; what RSA and ECDSA do with the key are parameters.  A        *)
(* function that the kind leaves out answers TYPE_MISMATCH.                *)
(***************************************************************************)
EXTENDS Integers, Sequences

CONSTANTS
  MdSize(_),                     \* the size of a digest, 0 for one that is not known
  KeyLen(_),                     \* the len of an RSA key, in bytes
  RsaSign(_, _, _),              \* RsaSign(key, md, hash), KeyLen(key) bytes
  RsaVerify(_, _, _, _),         \* RsaVerify(key, md, hash, sig)
  PssVerify(_, _, _, _, _),      \* PssVerify(key, md, hash, options, sig)
  RsaEncrypt(_, _), RsaDecrypt(_, _, _),
  EcdsaSign(_, _, _),            \* EcdsaSign(key, md, hash)
  EcdsaRead(_, _, _)             \* EcdsaRead(key, hash, sig): OK, SIG_LEN_MISMATCH, VERIFY_FAILED

NoKey == [type |-> "NONE"]
NoOptions == [mgf1 |-> "NONE"]
OK == "OK"

\* What a key of a kind may be asked to do.
Able(type) ==
  CASE type = "RSA" -> {"RSA", "RSASSA_PSS"}
    [] type = "ECKEY" -> {"ECKEY", "ECKEY_DH", "ECDSA"}
    [] type = "ECKEY_DH" -> {"ECKEY", "ECKEY_DH"}
    [] type = "ECDSA" -> {"ECDSA"}
    [] type = "RSA_ALT" -> {"RSA"}
    [] OTHER -> {}
CanDo(ctx, type) == type \in Able(ctx.type)

\* Those with a verify, a sign, a decrypt and an encrypt function.
Verifiers == {"RSA", "ECKEY", "ECDSA"}
Signers == Verifiers \cup {"RSA_ALT"}
Decrypters == {"RSA", "RSA_ALT"}
Encrypters == {"RSA"}

\* A length of 0 stands for the length of the digest.
HashLen(md, n) == IF n # 0 THEN n ELSE MdSize(md)
Hashed(md, hash, n) == SubSeq(hash, 1, HashLen(md, n))
NoHash(md, n) == HashLen(md, n) = 0

\* A signature that is too short fails; one that goes on behind a good one is told apart.
ByLength(len, verdict(_), sig) ==
  IF Len(sig) < len THEN "VERIFY_FAILED"
  ELSE IF ~verdict(SubSeq(sig, 1, len)) THEN "VERIFY_FAILED"
  ELSE IF Len(sig) > len THEN "SIG_LEN_MISMATCH" ELSE OK

Verify(ctx, md, hash, n, sig) ==
  IF ctx = NoKey \/ NoHash(md, n) THEN "BAD_INPUT_DATA"
  ELSE IF ctx.type \notin Verifiers THEN "TYPE_MISMATCH"
  ELSE IF ctx.type = "RSA"
       THEN ByLength(KeyLen(ctx.key),
                     LAMBDA s : RsaVerify(ctx.key, md, Hashed(md, hash, n), s), sig)
  ELSE EcdsaRead(ctx.key, Hashed(md, hash, n), sig)

VerifyExt(type, options, ctx, md, hash, n, sig) ==
  IF ctx = NoKey THEN "BAD_INPUT_DATA"
  ELSE IF ~CanDo(ctx, type) THEN "TYPE_MISMATCH"
  ELSE IF (type = "RSASSA_PSS") = (options = NoOptions) THEN "BAD_INPUT_DATA"
  ELSE IF type = "RSASSA_PSS"
       THEN ByLength(KeyLen(ctx.key),
                     LAMBDA s : PssVerify(ctx.key, md, SubSeq(hash, 1, n), options, s), sig)
  ELSE Verify(ctx, md, hash, n, sig)

Answer(ret, out) == [ret |-> ret, out |-> out]
Sign(ctx, md, hash, n) ==
  IF ctx = NoKey \/ NoHash(md, n) THEN Answer("BAD_INPUT_DATA", <<>>)
  ELSE IF ctx.type \notin Signers THEN Answer("TYPE_MISMATCH", <<>>)
  ELSE IF ctx.type \in {"RSA", "RSA_ALT"}
       THEN Answer(OK, RsaSign(ctx.key, md, Hashed(md, hash, n)))
  ELSE Answer(OK, EcdsaSign(ctx.key, md, Hashed(md, hash, n)))

Decrypt(ctx, input, osize) ==
  IF ctx = NoKey THEN Answer("BAD_INPUT_DATA", <<>>)
  ELSE IF ctx.type \notin Decrypters THEN Answer("TYPE_MISMATCH", <<>>)
  ELSE IF Len(input) # KeyLen(ctx.key) THEN Answer("BAD_INPUT_DATA", <<>>)
  ELSE RsaDecrypt(ctx.key, input, osize)
Encrypt(ctx, input) ==
  IF ctx = NoKey THEN Answer("BAD_INPUT_DATA", <<>>)
  ELSE IF ctx.type \notin Encrypters THEN Answer("TYPE_MISMATCH", <<>>)
  ELSE RsaEncrypt(ctx.key, input)
=============================================================================
