------------------------------- MODULE KeyFiles -------------------------------
(***************************************************************************)
(* Keys as files: pkparse.c and pkwrite.c, with the password based         *)
(* decryption of pkcs5.c and pkcs12.c.  Numbers are their significant      *)
(* bytes, a curve is its name and a point [X, Y].  A private RSA key is    *)
(* the sequence of its numbers N, E, D, P, Q, DP, DQ, QP.  What is read    *)
(* is either DER or a text of pem.c: DER in lines of base64 between a      *)
(* header and a footer, perhaps encrypted under a password.  A text is a   *)
(* sequence of codes: those of Encoding's base64, and one for each of the  *)
(* fixed texts.                                                            *)
(***************************************************************************)
EXTENDS Encoding

LOCAL SX == INSTANCE SequencesExt

CONSTANTS
  PemKey(_, _, _),          \* pem_pbkdf1: PemKey(keylen, iv, pwd)
  CbcDecrypt(_, _, _, _),   \* CbcDecrypt(alg, key, iv, buf), of whole blocks
  PkOid,                    \* the identifiers of "RSA", "ECKEY" and "ECKEY_DH"
  Curves,                   \* [name -> [oid, P, A, B, N, X, Y]], the table of ecp_curves.c
  PRIME_FIELD, PBES2, PBKDF2, HMAC_SHA1, RC4_128,   \* identifiers
  Pkcs12Algs, EncAlgs,      \* [identifier -> [cipher, md]] and [identifier -> cipher]
  MaxEncrypted,             \* 2048
  KeyLength(_), IvSize(_),  \* of a cipher, in bytes
  RsaPublicOk(_, _), RsaPrivateOk(_),      \* rsa_check_pubkey, rsa_check_privkey
  PointOk(_, _), PrivateOk(_, _), PubOf(_, _),  \* on a curve: of a point, of a d, and d * G
  Pbkdf2(_, _, _, _),       \* Pbkdf2(pwd, salt, iterations, keylen)
  Pkcs12Derive(_, _, _, _, _, _),   \* Pkcs12Derive(n, pwd, salt, md, id, iterations)
  Crypt(_, _, _, _), Rc4(_, _)      \* Crypt(cipher, key, iv, data) takes the padding off, or is Bad

-----------------------------------------------------------------------------
(* Texts                                                                   *)

\* Whose header and footer.
RSA_KEY == 1
EC_KEY == 2
PRIVATE_KEY == 3
ENCRYPTED_KEY == 4
PUBLIC_KEY == 5
Begin(label) == 100 + label
End(label) == 110 + label

PROC_TYPE == 120            \* "Proc-Type: 4,ENCRYPTED"
DES_EDE3 == 121             \* "DEK-Info: DES-EDE3-CBC,", and so on
DES == 122
AES_128 == 123
AES_192 == 124
AES_256 == 125
KeyBytes(alg) ==
  CASE alg = DES -> 8 [] alg = AES_128 -> 16 [] alg \in {DES_EDE3, AES_192} -> 24 [] OTHER -> 32
IvBytes(alg) == IF alg \in {DES, DES_EDE3} THEN 8 ELSE 16

NoPassword == <<-1>>         \* NULL
Failed(why) == [ok |-> FALSE, why |-> why]

At(text, i) == IF i \in DOMAIN text THEN text[i] ELSE -1

\* Behind the end of a line, which must be there; 0 if it is not.
NextLine(text, i) ==
  LET feed == IF At(text, i) = CR THEN i + 1 ELSE i
  IN IF At(text, feed) = LF THEN feed + 1 ELSE 0

\* Hexadecimal digits, which are base64 characters too.
Hex(c) == CASE c \in 52..61 -> c - 52 [] c \in 0..5 -> c + 10 [] c \in 26..31 -> c - 16 [] OTHER -> -1
GetIv(text, i, n) ==
  LET digit(j) == Hex(At(text, i + j))
  IN IF \E j \in 0..(2 * n - 1) : digit(j) < 0 THEN Bad
     ELSE [ok |-> TRUE, iv |-> [j \in 1..n |-> digit(2 * j - 2) * 16 + digit(2 * j - 1)]]

\* Of the lines in front of the base64: how it is encrypted, and where it begins.
Preamble(text, i) ==
  LET dek == NextLine(text, i + 1)
      alg == At(text, dek)
      iv == GetIv(text, dek + 1, IvBytes(alg))
      body == NextLine(text, dek + 1 + 2 * IvBytes(alg))
  IN IF At(text, i) # PROC_TYPE THEN [ok |-> TRUE, enc |-> FALSE, body |-> i]
     ELSE IF dek = 0 THEN Failed("INVALID_DATA")
     ELSE IF alg \notin DES_EDE3..AES_256 THEN Failed("UNKNOWN_ENC_ALG")
     ELSE IF ~iv.ok THEN Failed("INVALID_ENC_IV")
     ELSE IF body = 0 THEN Failed("INVALID_DATA")
     ELSE [ok |-> TRUE, enc |-> TRUE, alg |-> alg, iv |-> iv.iv, body |-> body]

\* pem_des_decrypt, pem_des3_decrypt and pem_aes_decrypt: a buffer that is not
\* made of whole blocks stays as it is.
PemDecrypt(alg, iv, pwd, buf) ==
  IF Len(buf) % IvBytes(alg) # 0 THEN buf
  ELSE CbcDecrypt(alg, PemKey(KeyBytes(alg), iv, pwd), iv, buf)

\* A guess at whether the password was right.
LooksLikeDer(buf) == Len(buf) > 2 /\ buf[1] = SEQUENCE /\ buf[2] <= 131

\* pem_read_buffer
PemRead(label, text, pwd) ==
  LET Places(c) == {i \in DOMAIN text : text[i] = c}
      s1 == SX!Min(Places(Begin(label)))
      s2 == SX!Min(Places(End(label)))
      pre == Preamble(text, NextLine(text, s1 + 1))
      raw == Base64Decode(SubSeq(text, pre.body, s2 - 1), Len(text))
      buf == IF pre.enc THEN PemDecrypt(pre.alg, pre.iv, pwd, raw.out) ELSE raw.out
  IN IF Places(Begin(label)) = {} \/ Places(End(label)) = {} THEN Failed("NO_HEADER")
     ELSE IF s2 < s1 \/ NextLine(text, s1 + 1) = 0 THEN Failed("NO_HEADER")
     ELSE IF ~pre.ok THEN pre
     ELSE IF ~raw.ok THEN Failed("INVALID_DATA")
     ELSE IF pre.enc /\ pwd = NoPassword THEN Failed("PASSWORD_REQUIRED")
     ELSE IF pre.enc /\ ~LooksLikeDer(buf) THEN Failed("PASSWORD_MISMATCH")
     ELSE [ok |-> TRUE, why |-> "OK", buf |-> buf]

\* pem_write_buffer: header and footer count as the two codes they are here,
\* and a 0 is written behind the text.
Line == 64
Lines(chars) ==
  SX!FlattenSeq([i \in 1..((Len(chars) + Line - 1) \div Line) |->
                   SubSeq(chars, (i - 1) * Line + 1, SX!Min({i * Line, Len(chars)})) \o <<LF>>])
PemWrite(label, der, buf_len) ==
  LET chars == Base64Encode(der)
      use_len == Len(chars) + 1
      needs == use_len + 4 + (use_len \div Line) + 1
      out == <<Begin(label), LF>> \o Lines(chars) \o <<End(label), LF>>
  IN IF needs > buf_len THEN Failed("BUFFER_TOO_SMALL")
     ELSE [ok |-> TRUE, out |-> out, olen |-> Len(out) + 1]

-----------------------------------------------------------------------------
(* Keys                                                                    *)

NONE == "NONE"
\* asn1_get_tag answers UNEXPECTED_TAG, not OUT_OF_DATA.
Another(s, tag) == s # <<>> /\ s[1] # tag

-----------------------------------------------------------------------------
(* Curves and points                                                       *)

Padded(n, bytes) == [i \in 1..(n - Len(bytes)) |-> 0] \o bytes

\* ecp_point_read_binary over a field of plen bytes
PointRead(plen, buf) ==
  IF buf = <<>> THEN Bad
  ELSE IF buf[1] = 0 THEN IF Len(buf) = 1 THEN [ok |-> TRUE, Z |-> 0, X |-> <<1>>, Y |-> <<1>>] ELSE Bad
  ELSE IF buf[1] # 4 THEN Failed("COMPRESSED")
  ELSE IF Len(buf) # 2 * plen + 1 THEN Bad
  ELSE [ok |-> TRUE, Z |-> 1, X |-> Significant(SubSeq(buf, 2, plen + 1)),
                              Y |-> Significant(SubSeq(buf, plen + 2, 2 * plen + 1))]

Odd(bytes) == bytes # <<>> /\ bytes[Len(bytes)] % 2 = 1

\* The base of a specified curve: of one that is compressed, Y is as good as its last bit.
ReadBase(P, buf) ==
  LET pt == PointRead(Len(P), buf)
  IN IF pt.ok THEN pt
     ELSE IF buf = <<>> \/ buf[1] \notin {2, 3} \/ Len(buf) # Len(P) + 1 THEN Bad
     ELSE [ok |-> TRUE, Z |-> 1, X |-> Significant(Tail(buf)), Y |-> <<buf[1] - 2>>]

\* pk_group_from_specified
GroupFromSpecified(params) ==
  LET ver == GetInt(params)
      field == GetBody(ver.rest, SEQUENCE)
      type == GetBody(field.val, OID)
      P == GetMpi(type.rest)
      curve == GetBody(field.rest, SEQUENCE)
      A == GetBody(curve.val, OCTET_STRING)
      B == GetBody(A.rest, OCTET_STRING)
      seed == GetBody(B.rest, BIT_STRING)
      base == GetBody(curve.rest, OCTET_STRING)
      G == ReadBase(P.val, base.val)
      N == GetMpi(base.rest)
  IN IF \/ ~ver.ok \/ Count(ver.val) \notin 1..3
        \/ ~field.ok \/ ~type.ok \/ type.val # PRIME_FIELD \/ ~P.ok \/ P.rest # <<>>
        \/ ~curve.ok \/ ~A.ok \/ ~B.ok \/ (IF seed.ok THEN seed.rest ELSE B.rest) # <<>>
        \/ ~base.ok \/ ~G.ok \/ ~N.ok
     THEN Bad
     ELSE [ok |-> TRUE, P |-> P.val, A |-> Significant(A.val), B |-> Significant(B.val),
           N |-> N.val, G |-> G]

\* pk_group_id_from_group: the curve that a group is, or NONE.
GroupId(grp) ==
  LET same == {c \in DOMAIN Curves :
                 /\ Curves[c].P = grp.P /\ Curves[c].A = grp.A
                 /\ Curves[c].B = grp.B /\ Curves[c].N = grp.N
                 /\ grp.G.Z = 1 /\ Curves[c].X = grp.G.X /\ Odd(Curves[c].Y) = Odd(grp.G.Y)}
  IN IF same = {} THEN NONE ELSE CHOOSE c \in same : TRUE

\* pk_get_ecparams
GetEcParams(s) ==
  LET b == GetBody(s, s[1])
  IN IF s = <<>> \/ s[1] \notin {OID, SEQUENCE} \/ ~b.ok \/ b.rest # <<>> THEN Bad
     ELSE [ok |-> TRUE, tag |-> s[1], val |-> b.val]

\* pk_use_ecparams, for a key that is on curve grp already or on NONE
UseEcParams(tag, val, grp) ==
  LET named == {c \in DOMAIN Curves : Curves[c].oid = val}
      spec == GroupFromSpecified(val)
      id == IF tag = OID THEN (IF named = {} THEN NONE ELSE CHOOSE c \in named : TRUE)
            ELSE IF spec.ok THEN GroupId(spec) ELSE NONE
  IN IF id = NONE \/ grp \notin {NONE, id} THEN Bad ELSE [ok |-> TRUE, grp |-> id]

\* pk_get_ecpubkey
GetEcPubkey(grp, buf) ==
  LET pt == PointRead(Len(Curves[grp].P), buf)
      Q == [X |-> pt.X, Y |-> pt.Y]
  IN IF ~pt.ok THEN pt ELSE IF pt.Z = 0 \/ ~PointOk(grp, Q) THEN Bad ELSE [ok |-> TRUE, Q |-> Q]

-----------------------------------------------------------------------------
(* Public keys                                                             *)

\* pk_get_rsapubkey
GetRsaPubkey(s) ==
  LET t == GetBody(s, SEQUENCE)
      N == GetMpi(t.val)
      E == GetMpi(N.rest)
  IN IF ~t.ok \/ t.rest # <<>> \/ ~N.ok \/ ~E.ok \/ E.rest # <<>> \/ ~RsaPublicOk(N.val, E.val)
     THEN Bad ELSE [ok |-> TRUE, key |-> [type |-> "RSA", N |-> N.val, E |-> E.val]]

\* pk_get_pk_alg
GetPkAlg(s) ==
  LET a == GetAlg(s)
      types == {t \in DOMAIN PkOid : PkOid[t] = a.alg}
      type == CHOOSE t \in types : TRUE
  IN IF ~a.ok \/ types = {} THEN Bad
     ELSE IF type = "RSA" /\ (a.tag \notin {NULL, 0} \/ a.params # <<>>) THEN Bad
     ELSE [ok |-> TRUE, type |-> type, tag |-> a.tag, params |-> a.params, rest |-> a.rest]

\* pk_parse_subpubkey
ParseSubpubkey(s) ==
  LET t == GetBody(s, SEQUENCE)
      a == GetPkAlg(t.val)
      bits == GetBitstringNull(a.rest)
      g == UseEcParams(a.tag, a.params, NONE)
      q == GetEcPubkey(g.grp, bits.rest)
  IN IF ~t.ok \/ ~a.ok \/ ~bits.ok \/ bits.len # Len(bits.rest) THEN Bad
     ELSE IF a.type = "RSA" THEN GetRsaPubkey(bits.rest)
     ELSE IF ~g.ok \/ ~q.ok THEN Bad
     ELSE [ok |-> TRUE, key |-> [type |-> a.type, grp |-> g.grp, Q |-> q.Q]]

-----------------------------------------------------------------------------
(* Private keys                                                            *)

RECURSIVE GetMpis(_, _)
GetMpis(s, n) ==
  LET x == GetMpi(s)
      more == GetMpis(x.rest, n - 1)
  IN IF n = 0 THEN [ok |-> TRUE, list |-> <<>>, rest |-> s]
     ELSE IF ~x.ok \/ ~more.ok THEN Bad ELSE [more EXCEPT !.list = <<x.val>> \o @]

\* pk_parse_key_pkcs1_der
ParsePkcs1(s) ==
  LET t == GetBody(s, SEQUENCE)
      ver == GetInt(t.val)
      nums == GetMpis(ver.rest, 8)
  IN IF \/ ~t.ok \/ ~ver.ok \/ Count(ver.val) # 0 \/ ~nums.ok \/ nums.rest # <<>>
        \/ ~RsaPrivateOk(nums.list)
     THEN Bad ELSE [ok |-> TRUE, key |-> [type |-> "RSA", nums |-> nums.list]]

\* pk_parse_key_sec1_der, into a key of this type and curve.  A public key that
\* is compressed, or not there, is computed; but where the text ends, nothing
\* is taken for missing.
ParseSec1(s, type, grp) ==
  LET t == GetBody(s, SEQUENCE)
      ver == GetInt(t.val)
      d == GetBody(ver.rest, OCTET_STRING)
      par == GetBody(d.rest, CONTEXT(0))
      spec == GetEcParams(par.val)
      g == IF par.ok THEN UseEcParams(spec.tag, spec.val, grp) ELSE [ok |-> grp # NONE, grp |-> grp]
      after == IF par.ok THEN par.rest ELSE d.rest
      pub == GetBody(after, CONTEXT(1))
      bits == GetBitstringNull(pub.val)
      q == GetEcPubkey(g.grp, bits.rest)
      num == Significant(d.val)
      Key(Q) == [ok |-> TRUE, key |-> [type |-> type, grp |-> g.grp, d |-> num, Q |-> Q]]
  IN IF ~t.ok \/ ~ver.ok \/ Count(ver.val) # 1 \/ ~d.ok THEN Bad
     ELSE IF ~par.ok /\ ~Another(d.rest, CONTEXT(0)) THEN Bad
     ELSE IF par.ok /\ ~spec.ok THEN Bad
     ELSE IF ~g.ok THEN Bad
     ELSE IF ~pub.ok /\ ~Another(after, CONTEXT(1)) THEN Bad
     ELSE IF pub.ok /\ (~bits.ok \/ bits.len # Len(bits.rest)) THEN Bad
     ELSE IF pub.ok /\ ~q.ok /\ q # Failed("COMPRESSED") THEN Bad
     ELSE IF ~PrivateOk(g.grp, num) THEN Bad
     ELSE IF pub.ok /\ q.ok THEN Key(q.Q) ELSE Key(PubOf(g.grp, num))

\* pk_parse_key_pkcs8_unencrypted_der
ParsePkcs8(s) ==
  LET t == GetBody(s, SEQUENCE)
      ver == GetInt(t.val)
      a == GetPkAlg(ver.rest)
      k == GetBody(a.rest, OCTET_STRING)
      g == UseEcParams(a.tag, a.params, NONE)
  IN IF ~t.ok \/ ~ver.ok \/ Count(ver.val) # 0 \/ ~a.ok \/ ~k.ok \/ k.val = <<>> THEN Bad
     ELSE IF a.type = "RSA" THEN ParsePkcs1(k.val)
     ELSE IF g.ok THEN ParseSec1(k.val, a.type, g.grp) ELSE Bad

-----------------------------------------------------------------------------
(* Decryption under a password                                             *)

\* pkcs5_parse_pbkdf2_params
Pbkdf2Params(s) ==
  LET salt == GetBody(s, OCTET_STRING)
      iter == GetInt(salt.rest)
      keylen == GetInt(iter.rest)
      after == IF keylen.ok THEN keylen.rest ELSE iter.rest
      prf == GetAlgNull(after)
      Read == [ok |-> TRUE, salt |-> salt.val, iterations |-> Count(iter.val)]
  IN IF ~salt.ok \/ ~iter.ok THEN Bad
     ELSE IF iter.rest = <<>> THEN Read
     ELSE IF ~keylen.ok /\ ~Another(iter.rest, INTEGER) THEN Bad
     ELSE IF after = <<>> THEN Read
     ELSE IF ~prf.ok \/ prf.alg # HMAC_SHA1 \/ prf.rest # <<>> THEN Bad ELSE Read

Mismatch == Failed("PASSWORD_MISMATCH")

\* pkcs5_pbes2
Pbes2(tag, params, pwd, data) ==
  LET kdf == GetAlg(params)
      p == Pbkdf2Params(kdf.params)
      enc == GetAlg(kdf.rest)
      cipher == EncAlgs[enc.alg]
      out == Crypt(cipher, Pbkdf2(pwd, p.salt, p.iterations, KeyLength(cipher)), enc.params, data)
  IN IF tag # SEQUENCE \/ ~kdf.ok \/ kdf.alg # PBKDF2 \/ kdf.tag # SEQUENCE \/ ~p.ok THEN Bad
     ELSE IF ~enc.ok \/ enc.alg \notin DOMAIN EncAlgs THEN Bad
     ELSE IF enc.tag # OCTET_STRING \/ Len(enc.params) # IvSize(cipher) THEN Bad
     ELSE IF out.ok THEN out ELSE Mismatch

\* pkcs12_parse_pbe_params
Pkcs12Params(tag, params) ==
  LET salt == GetBody(params, OCTET_STRING)
      iter == GetInt(salt.rest)
  IN IF tag # SEQUENCE \/ ~salt.ok \/ ~iter.ok \/ iter.rest # <<>> THEN Bad
     ELSE [ok |-> TRUE, salt |-> salt.val, iterations |-> Count(iter.val)]

\* pkcs12_pbe_derive_key_iv: every character of the password takes two bytes.
Unicode(pwd) == [i \in 1..(2 * Len(pwd) + 2) |-> IF i % 2 = 0 /\ i \div 2 <= Len(pwd) THEN pwd[i \div 2] ELSE 0]
DERIVE_KEY == 1
DERIVE_IV == 2
DeriveKeyIv(p, md, pwd, n, id) == Pkcs12Derive(n, Unicode(pwd), p.salt, md, id, p.iterations)
Derivable(p, pwd) == p.ok /\ 2 * Len(pwd) + 2 <= 64 /\ Len(p.salt) <= 64

\* pkcs12_pbe
Pkcs12Pbe(tag, params, alg, pwd, data) ==
  LET p == Pkcs12Params(tag, params)
      Derived(n, id) == DeriveKeyIv(p, alg.md, pwd, n, id)
      out == Crypt(alg.cipher, Derived(KeyLength(alg.cipher), DERIVE_KEY),
                   Derived(IvSize(alg.cipher), DERIVE_IV), data)
  IN IF ~Derivable(p, pwd) THEN Bad ELSE IF out.ok THEN out ELSE Mismatch

\* pkcs12_pbe_sha1_rc4_128: the first byte tells whether the password was right.
Pkcs12Rc4(tag, params, pwd, data) ==
  LET p == Pkcs12Params(tag, params)
      out == Rc4(DeriveKeyIv(p, "SHA1", pwd, 16, DERIVE_KEY), data)
  IN IF ~Derivable(p, pwd) THEN Bad
     ELSE IF out = <<>> \/ out[1] # SEQUENCE THEN Mismatch ELSE [ok |-> TRUE, out |-> out]

\* pk_parse_key_pkcs8_encrypted_der
ParsePkcs8Encrypted(s, pwd) ==
  LET t == GetBody(s, SEQUENCE)
      a == GetAlg(t.val)
      data == GetBody(a.rest, OCTET_STRING)
      plain == IF a.alg \in DOMAIN Pkcs12Algs
               THEN Pkcs12Pbe(a.tag, a.params, Pkcs12Algs[a.alg], pwd, data.val)
               ELSE IF a.alg = RC4_128 THEN Pkcs12Rc4(a.tag, a.params, pwd, data.val)
               ELSE IF a.alg = PBES2 THEN Pbes2(a.tag, a.params, pwd, data.val) ELSE Bad
  IN IF pwd \in {NoPassword, <<>>} THEN Failed("PASSWORD_REQUIRED")
     ELSE IF ~t.ok \/ ~a.ok \/ ~data.ok \/ Len(data.val) > MaxEncrypted THEN Bad
     ELSE IF ~plain.ok THEN plain ELSE ParsePkcs8(plain.out)

-----------------------------------------------------------------------------
(* Whole files: [pem, data], data being a text of pem.c or DER             *)

Read(label, file, pwd) == IF file.pem THEN PemRead(label, file.data, pwd) ELSE Failed("NO_HEADER")
Elsewhere(r) == ~r.ok /\ r.why = "NO_HEADER"

\* pk_parse_key for DER: a text under a password that is not right is not tried on.
ParseDer(s, pwd) ==
  LET enc == ParsePkcs8Encrypted(s, pwd)
      tries == << enc, ParsePkcs8(s), ParsePkcs1(s), ParseSec1(s, "ECKEY", NONE) >>
      good == {i \in DOMAIN tries : tries[i].ok}
  IN IF enc = Mismatch THEN enc ELSE IF good = {} THEN Bad ELSE tries[SX!Min(good)]

\* pk_parse_key.  The password is not for the PEM of PKCS#8.
ParseKey(file, pwd) ==
  LET rsa == Read(RSA_KEY, file, pwd)
      ec == Read(EC_KEY, file, pwd)
      plain == Read(PRIVATE_KEY, file, NoPassword)
      enc == Read(ENCRYPTED_KEY, file, NoPassword)
  IN IF ~Elsewhere(rsa) THEN IF rsa.ok THEN ParsePkcs1(rsa.buf) ELSE rsa
     ELSE IF ~Elsewhere(ec) THEN IF ec.ok THEN ParseSec1(ec.buf, "ECKEY", NONE) ELSE ec
     ELSE IF ~Elsewhere(plain) THEN IF plain.ok THEN ParsePkcs8(plain.buf) ELSE plain
     ELSE IF ~Elsewhere(enc) THEN IF enc.ok THEN ParsePkcs8Encrypted(enc.buf, pwd) ELSE enc
     ELSE IF file.pem THEN Bad ELSE ParseDer(file.data, pwd)

\* pk_parse_public_key
ParsePublicKey(file) ==
  LET pub == Read(PUBLIC_KEY, file, NoPassword)
  IN IF pub.ok THEN ParseSubpubkey(pub.buf)
     ELSE IF file.pem THEN Bad ELSE ParseSubpubkey(file.data)

-----------------------------------------------------------------------------
(* Writing                                                                 *)

\* pk_write_rsa_pubkey
WriteRsaPubkey(N, E) == Tagged(SEQUENCE, LET e == WriteMpi(E, <<>>) IN WriteMpi(N, e) \o e)

\* pk_write_ec_pubkey and pk_write_ec_param
WriteEcPubkey(grp, Q) ==
  LET plen == Len(Curves[grp].P) IN <<4>> \o Padded(plen, Q.X) \o Padded(plen, Q.Y)
WriteEcParam(grp) == WriteOid(Curves[grp].oid)

Writable(key) == key.type \in {"RSA", "ECKEY"}

\* pk_write_pubkey_der, of a public key
WritePubkeyDer(key, size) ==
  LET pub == IF key.type = "RSA" THEN WriteRsaPubkey(key.N, key.E) ELSE WriteEcPubkey(key.grp, key.Q)
      par == IF key.type = "RSA" THEN <<>> ELSE WriteEcParam(key.grp)
  IN IF ~Writable(key) THEN Bad
     ELSE Put(size, Tagged(SEQUENCE, WriteAlg(PkOid[key.type], par)
                                     \o Tagged(BIT_STRING, <<0>> \o pub)), <<>>)

\* pk_write_key_der: d is written as a number whose tag is then another.
WriteKeyDer(key, size) ==
  LET rsa == WriteInt(0) \o SX!FoldRight(LAMBDA x, out : WriteMpi(x, out) \o out, key.nums, <<>>)
      ec == WriteInt(1) \o [WriteMpi(key.d, <<>>) EXCEPT ![1] = OCTET_STRING]
            \o Tagged(CONTEXT(0), WriteEcParam(key.grp))
            \o Tagged(CONTEXT(1), Tagged(BIT_STRING, <<0>> \o WriteEcPubkey(key.grp, key.Q)))
  IN IF ~Writable(key) THEN Bad
     ELSE Put(size, Tagged(SEQUENCE, IF key.type = "RSA" THEN rsa ELSE ec), <<>>)

\* pk_write_pubkey_pem and pk_write_key_pem
WritePubkeyPem(key, size) ==
  LET der == WritePubkeyDer(key, MaxEncrypted)
  IN IF der.ok THEN PemWrite(PUBLIC_KEY, der.out, size) ELSE Bad
WriteKeyPem(key, size) ==
  LET der == WriteKeyDer(key, MaxEncrypted)
  IN IF der.ok THEN PemWrite(IF key.type = "RSA" THEN RSA_KEY ELSE EC_KEY, der.out, size) ELSE Bad
=============================================================================
