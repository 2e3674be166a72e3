-------------------------------- MODULE MCKeys --------------------------------
(* Questions about RSA, about signatures made and checked through the layer   *)
(* of public keys, and about the files that keys are kept in.                 *)
EXTENDS Integers, Sequences, FiniteSets, TLC

SX == INSTANCE SequencesExt
Over(A, least, most) == UNION {[1..k -> A] : k \in least..most}

-----------------------------------------------------------------------------
(* RSA with bytes of two bits, keys of two primes of six bits, and a digest   *)
(* of one byte.                                                               *)

R == INSTANCE Rsa WITH
  ByteBits <- 2, PadLeast <- 2, MinBits <- 12, MaxBits <- 16, MdOids <- <<<<7>>, <<8>>>>,
  Hash <- LAMBDA alg, m : <<(alg + SX!FoldLeft(LAMBDA h, b : (3 * h + b + 1) % 97, 5, m)) % 4>>

KeyV15 == R!GenKey(<<<<53, 53>>, <<61, 59>>, <<53, 61>>>>, 12, 7).key
KeyOaep == [KeyV15 EXCEPT !.padding = "V21", !.hash_id = 1]
Size == KeyV15.len

\* The private operation undoes the public one, with what was drawn just now for
\* the blinding and with what is kept from the time before.
Blindings == {R!NoBlinding, [vi |-> R!Power(R!Inverse(5, KeyV15.N), 7, KeyV15.N), vf |-> 5]}
Inputs == {n \in 0..(KeyV15.N - 1) : n % 41 < 3}
Decrypted(n) ==
  [bd \in Blindings \X {<<3>>, <<0, 61, 100>>} |->
     LET sealed == R!Public(KeyV15, R!Bytes(n, Size)).out
         first == R!Private(KeyV15, bd[1], TRUE, bd[2], sealed)
         second == R!Private(KeyV15, first.b, TRUE, <<>>, sealed)
     IN {first.out, second.out}]
IsDecrypted(n, given) == \A bd \in DOMAIN given : given[bd] = {R!Bytes(n, Size)}

\* Encrypted and decrypted, signed and verified, with both paddings.
Messages == Over(0..3, 0, 1)
Enveloped(m) ==
  LET Pad(key) == IF key = KeyV15 THEN [i \in 1..(Size - 3 - Len(m)) |-> 2] ELSE <<3>>
      Sealed(key) == R!Encrypt(key, "public", R!NoBlinding, <<>>, Pad(key), m)
      Opened(key) == R!Decrypt(key, "private", R!NoBlinding, <<5>>, Sealed(key).out, Size)
      Signed(key, salt) == R!Sign(key, "private", R!NoBlinding, <<5>>, 0, m, salt)
  IN [opened |-> {Opened(KeyV15), Opened(KeyOaep)},
      verified |-> {R!Verify(key, "public", R!NoBlinding, <<>>, 0, m, Signed(key, salt).out) :
                      <<key, salt>> \in {KeyV15, KeyOaep} \X Over(0..3, 1, 1)}]
IsEnveloped(m, given) == given.opened = {[ok |-> TRUE, out |-> m]} /\ given.verified = {TRUE}

\* What the decoders accept of all the blocks that a private operation can give.
Modes == {"private", "public"}
AcceptedV15(mode) ==
  [n \in 0..(KeyV15.N - 1) |-> R!V15Message(KeyV15, mode, R!Bytes(n, Size), Size)]
PadsOf(mode) == IF mode = "private" THEN 1..3 ELSE {3}
PaddedV15(mode) ==
  UNION {{<<<<0, IF mode = "private" THEN 2 ELSE 1>> \o pad \o <<0>> \o m, m>> :
            pad \in [1..k -> PadsOf(mode)], m \in [1..(3 - k) -> 0..3]} : k \in 0..3}
IsAcceptedV15(mode, given) ==
  {<<R!Bytes(n, Size), given[n].out>> : n \in {n \in DOMAIN given : given[n].ok}}
    = {b \in PaddedV15(mode) : R!Number(b[1]) < KeyV15.N}

AcceptedOaep(label) ==
  LET o == [n \in 0..4095 |-> R!OaepMessage(KeyOaep, label, R!Bytes(n, Size), Size)]
  IN {<<R!Bytes(n, Size), o[n].out>> : n \in {n \in 0..4095 : o[n].ok}}
IsAcceptedOaep(label, given) ==
  given = {<<R!OaepBlock(KeyOaep, label, s, m).out, m>> :
             <<s, m>> \in Over(0..3, 1, 1) \X Over(0..3, 0, 2)}

\* Every number offered as the signature of a digest.
AcceptedAs(digest) ==
  {n \in 0..(KeyV15.N - 1) :
     R!Verify(KeyV15, "public", R!NoBlinding, <<>>, 0, digest, R!Bytes(n, Size))}
IsAcceptedAs(digest, given) ==
  {R!Bytes(n, Size) : n \in given} =
    {R!Sign(KeyV15, "private", R!NoBlinding, <<5>>, 0, digest, <<>>).out}

-----------------------------------------------------------------------------
(* The layer of public keys, on signatures that name key, digest and message. *)

LOCAL Named(k, md, h, tail) == SubSeq(<<k, IF md = "MD5" THEN 1 ELSE 2>> \o h \o tail, 1, 5)
G == INSTANCE Pk WITH
  MdSize <- LAMBDA md : CASE md = "MD5" -> 2 [] md = "SHA1" -> 3 [] OTHER -> 0,
  KeyLen <- LAMBDA k : 5,
  RsaSign <- LAMBDA k, md, h : Named(k, md, h, <<0, 0, 0>>),
  RsaVerify <- LAMBDA k, md, h, s : s = Named(k, md, h, <<0, 0, 0>>),
  PssVerify <- LAMBDA k, md, h, o, s : s = Named(k, md, h, <<9, 9, 9>>),
  RsaEncrypt <- LAMBDA k, t : [ret |-> "OK", out |-> SubSeq(t \o <<0, 0, 0, 0, 0, k>>, 1, 5)],
  RsaDecrypt <- LAMBDA k, t, n : [ret |-> "OK", out |-> t],
  EcdsaSign <- LAMBDA k, md, h : <<k, Len(h)>> \o h,
  EcdsaRead <- LAMBDA k, h, s :
    LET w == <<k, Len(h)>> \o h
    IN IF Len(s) < Len(w) \/ SubSeq(s, 1, Len(w)) # w THEN "VERIFY_FAILED"
       ELSE IF Len(s) > Len(w) THEN "SIG_LEN_MISMATCH" ELSE "OK"

Contexts == {[type |-> t, key |-> k] : t \in {"RSA", "ECKEY", "ECKEY_DH", "ECDSA", "RSA_ALT"},
                                       k \in {1, 2}}
Family(type) == IF type \in {"RSA", "RSA_ALT"} THEN "RSA" ELSE "EC"
Changes == {"none", "hash", "longer", "shorter", "digest"}
Checked(signer) ==
  LET s == G!Sign(signer, "MD5", <<1, 2, 3>>, 0)
      Given(change) == CASE change = "longer" -> Append(s.out, 0)
                         [] change = "shorter" -> SubSeq(s.out, 1, Len(s.out) - 1)
                         [] OTHER -> s.out
  IN [made |-> s.ret = "OK",
      result |-> IF s.ret # "OK" THEN <<>>
                 ELSE [x \in Contexts \X {"RSA", "ECKEY", "ECDSA"} \X Changes |->
                         G!VerifyExt(x[2], G!NoOptions, x[1],
                                     IF x[3] = "digest" THEN "SHA1" ELSE "MD5",
                                     IF x[3] = "hash" THEN <<1, 3, 3>> ELSE <<1, 2, 3>>, 0,
                                     Given(x[3]))]]
\* Verified is what the same key of the same family signed, and nothing else.
IsChecked(signer, given) ==
  /\ given.made <=> signer.type # "ECKEY_DH"
  /\ given.made => \A x \in DOMAIN given.result :
       given.result[x] = "OK" <=>
         /\ x[3] = "none" /\ x[1].key = signer.key
         /\ Family(x[1].type) = Family(signer.type)
         /\ x[1].type \in {"RSA", "ECKEY", "ECDSA"} /\ G!CanDo(x[1], x[2])

-----------------------------------------------------------------------------
(* The files: keys written and read again, plain, in PKCS#8 and behind a    *)
(* password.                                                                *)

EC == INSTANCE Ecp
RS == INSTANCE Rsa WITH
  ByteBits <- 2, PadLeast <- 2, MinBits <- 12, MaxBits <- 16, MdOids <- <<<<7>>>>,
  Hash <- LAMBDA a, m : <<1>>

Num(bytes) == SX!FoldLeft(LAMBDA n, b : n * 256 + b, 0, bytes)
RECURSIVE Bytes(_)
Bytes(n) == IF n = 0 THEN <<>> ELSE Append(Bytes(n \div 256), n % 256)

\* Two curves over the same field.
First == [p |-> 79, a |-> 76, b |-> 3, g |-> EC!Affine(1, 1), n |-> 83,
          minus3 |-> TRUE, montgomery |-> FALSE, nbits |-> 7]
Second == [First EXCEPT !.a = 2, !.b = 5, !.g = EC!Affine(0, 20), !.n = 71, !.minus3 = FALSE]
Group(c) == IF c = "first" THEN First ELSE Second
PublicOf(c, d) ==
  LET q == EC!Mul(Group(c), d, Group(c).g, 1) IN [X |-> Bytes(q.X), Y |-> Bytes(q.Y)]
CurveTable ==
  [first |-> [oid |-> <<9, 1>>, P |-> <<79>>, A |-> <<>>, B |-> <<3>>, N |-> <<83>>,
              X |-> <<1>>, Y |-> <<1>>],
   second |-> [oid |-> <<9, 2>>, P |-> <<79>>, A |-> <<2>>, B |-> <<5>>, N |-> <<71>>,
               X |-> <<>>, Y |-> <<20>>]]

IdentifierOf == [RSA |-> <<1>>, ECKEY |-> <<2>>, ECKEY_DH |-> <<3>>]

\* A cipher that adds a key, an iv and the place of a byte to it.
Shifted(way, key, iv, data) ==
  [i \in DOMAIN data |-> (data[i] + way * (key[1] + 3 * iv[1] + i)) % 256]
Opened(key, iv, data) ==
  LET out == Shifted(-1, key, iv, data)
      n == out[Len(out)]
  IN IF data = <<>> \/ Len(data) % 4 # 0 THEN [ok |-> FALSE]
     ELSE IF n \in 1..4 /\ \A i \in (Len(out) - n + 1)..Len(out) : out[i] = n
     THEN [ok |-> TRUE, out |-> SubSeq(out, 1, Len(out) - n)] ELSE [ok |-> FALSE]
Whole(data) == LET n == 4 - (Len(data) % 4) IN data \o [i \in 1..n |-> n]

F == INSTANCE KeyFiles WITH
  PemKey <- LAMBDA n, iv, pwd : [i \in 1..n |-> (iv[1] + Len(pwd) + pwd[1] + i) % 256],
  CbcDecrypt <- LAMBDA alg, key, iv, buf : Shifted(-1, key, iv, buf),
  PkOid <- IdentifierOf, Curves <- CurveTable,
  PRIME_FIELD <- <<4>>, PBES2 <- <<5>>, PBKDF2 <- <<6>>, HMAC_SHA1 <- <<7>>, RC4_128 <- <<8>>,
  Pkcs12Algs <- (<<10>> :> [cipher |-> "X", md |-> "SHA1"]), EncAlgs <- (<<11>> :> "X"),
  MaxEncrypted <- 200, KeyLength <- LAMBDA c : 3, IvSize <- LAMBDA c : 4,
  RsaPublicOk <- LAMBDA n, e : RS!CheckPubkey([N |-> Num(n), E |-> Num(e)]),
  RsaPrivateOk <- LAMBDA l :
    /\ \A i \in 1..8 : l[i] # <<>> /\ Len(l[i]) < 3
    /\ RS!CheckPrivkey([N |-> Num(l[1]), E |-> Num(l[2]), D |-> Num(l[3]), P |-> Num(l[4]),
                        Q |-> Num(l[5]), DP |-> Num(l[6]), DQ |-> Num(l[7]), QP |-> Num(l[8])]),
  PointOk <- LAMBDA c, Q : /\ Len(Q.X) < 2 /\ Len(Q.Y) < 2
                           /\ EC!CheckPubkey(Group(c), EC!Affine(Num(Q.X), Num(Q.Y))),
  PrivateOk <- LAMBDA c, d : Len(d) = 1 /\ EC!CheckPrivkey(Group(c), Num(d)),
  PubOf <- LAMBDA c, d : PublicOf(c, Num(d)),
  Pbkdf2 <- LAMBDA pwd, salt, it, n : [i \in 1..n |-> (it + pwd[1] + salt[1] * 5) % 256],
  Pkcs12Derive <- LAMBDA n, pwd, salt, md, id, it :
                    [i \in 1..n |-> (id + it + pwd[2] + salt[1] * 5) % 256],
  Crypt <- LAMBDA c, key, iv, data : Opened(key, iv, data),
  Rc4 <- LAMBDA key, data : Shifted(-1, key, <<0>>, data)

RsaKey == RS!GenKey(<<<<61, 59>>>>, 12, 7).key
Rsa == [type |-> "RSA",
        nums |-> [i \in 1..8 |-> Bytes(<<RsaKey.N, RsaKey.E, RsaKey.D, RsaKey.P, RsaKey.Q,
                                         RsaKey.DP, RsaKey.DQ, RsaKey.QP>>[i])]]
Ec(c, d) == [type |-> "ECKEY", grp |-> c, d |-> <<d>>, Q |-> PublicOf(c, d)]
Public(k) == IF k.type = "RSA" THEN [type |-> "RSA", N |-> k.nums[1], E |-> k.nums[2]]
             ELSE [type |-> "ECKEY", grp |-> k.grp, Q |-> k.Q]

Keys == {Rsa} \cup {Ec(c, d) : c \in {"first", "second"}, d \in {1, 5, 70}}
Der(data) == [pem |-> FALSE, data |-> data]
Pem(data) == [pem |-> TRUE, data |-> data]

-----------------------------------------------------------------------------
(* What the library writes and, as it only reads these, what others write.   *)

Room == 200
Pkcs8(k) ==
  F!Tagged(48, F!WriteInt(0)
                 \o F!WriteAlg(IdentifierOf[k.type], IF k.type = "RSA" THEN <<>>
                                                ELSE F!WriteOid(CurveTable[k.grp].oid))
                 \o F!Tagged(4, F!WriteKeyDer(k, Room).out))

Password == <<77, 78>>
Salted == F!Tagged(48, F!Tagged(4, <<9>>) \o F!WriteInt(2))
Pbes2(data) ==
  LET iv == <<1, 2, 3, 4>>
  IN F!Tagged(48, F!WriteAlg(<<5>>, F!Tagged(48, F!WriteAlg(<<6>>, Salted)
                                                   \o F!WriteAlg(<<11>>, F!Tagged(4, iv))))
                    \o F!Tagged(4, Shifted(1, <<2 + 77 + 45>>, iv, Whole(data))))
Pkcs12(data) ==
  F!Tagged(48, F!WriteAlg(<<10>>, Salted)
                 \o F!Tagged(4, Shifted(1, <<1 + 2 + 77 + 45>>, <<2 + 2 + 77 + 45>>, Whole(data))))
Pkcs12Rc4(data) ==
  F!Tagged(48, F!WriteAlg(<<8>>, Salted)
                 \o F!Tagged(4, Shifted(1, <<1 + 2 + 77 + 45>>, <<0>>, data)))

Hex(bytes) ==
  LET Digit(n) == IF n < 10 THEN 52 + n ELSE n - 10
  IN SX!FlattenSeq([i \in DOMAIN bytes |-> <<Digit(bytes[i] \div 16), Digit(bytes[i] % 16)>>])
PemEncrypted(label, alg, data) ==
  LET n == F!IvBytes(alg)
      iv == [i \in 1..n |-> i + 160]
      pad == n - (Len(data) % n)
      all == data \o [i \in 1..pad |-> pad]
  IN <<F!Begin(label), 66, 65, 120, 65, alg>> \o Hex(iv) \o <<65>>
       \o F!Lines(F!Base64Encode(Shifted(1, <<iv[1] + 2 + 77 + 1>>, iv, all)))
       \o <<F!End(label), 65>>
PemAlgs == F!DES_EDE3..F!AES_256

Filed(k) ==
  LET der == F!WriteKeyDer(k, Room).out
      Read(file) == F!ParseKey(file, F!NoPassword)
      Unlocked(file) == F!ParseKey(file, Password)
      label == IF k.type = "RSA" THEN 1 ELSE 2
  IN [private |-> {Read(Der(der)), Read(Pem(F!WriteKeyPem(k, Room).out)), Read(Der(Pkcs8(k)))}
                    \cup {Unlocked(Der(Pbes2(Pkcs8(k)))), Unlocked(Der(Pkcs12(Pkcs8(k)))),
                          Unlocked(Der(Pkcs12Rc4(Pkcs8(k))))}
                    \cup {Unlocked(Pem(PemEncrypted(label, a, der))) : a \in PemAlgs},
      public |-> {F!ParsePublicKey(Pem(F!WritePubkeyPem(Public(k), Room).out)),
                  F!ParsePublicKey(Der(F!WritePubkeyDer(Public(k), Room).out))},
      fits |-> \A n \in 40..160 : LET w == F!WriteKeyPem(k, n) IN w.ok => w.olen <= n]
IsFiled(k, given) ==
  /\ given.private = {[ok |-> TRUE, key |-> k]}
  /\ given.public = {[ok |-> TRUE, key |-> Public(k)]}
  /\ given.fits

-----------------------------------------------------------------------------
(* A byte altered: what is read all the same is a key to calculate with.       *)

Values == {0, 1, 2, 3, 4, 5, 6, 48, 127, 128, 129, 160, 161, 255}
Places == 1..60
Spoiled(ki) ==
  LET der == F!WriteKeyDer(ki[1], Room).out
      One(v) == IF ki[2] \in DOMAIN der THEN [der EXCEPT ![ki[2]] = v] ELSE Append(der, v)
  IN {F!ParseKey(Der(One(v)), F!NoPassword) : v \in Values}
\* A point that is another one of the curve, and a private value, stay unnoticed:
\* the public value is not compared with them.
IsSpoiled(ki, given) ==
  \A r \in given :
    r.ok => IF ki[1].type = "RSA" THEN r.key = ki[1]
            ELSE /\ r.key.grp \in {"first", "second"}
                 /\ EC!CheckPubkey(Group(r.key.grp),
                                   EC!Affine(Num(r.key.Q.X), Num(r.key.Q.Y)))
                 /\ EC!CheckPrivkey(Group(r.key.grp), Num(r.key.d))
=============================================================================
