------------------------------ MODULE MCCiphers ------------------------------
(* Questions about hashes, ciphers and what is derived with them.           *)
EXTENDS Integers, Sequences, FiniteSets, TLC

H == INSTANCE Hashes
C == INSTANCE CipherLayer

\* A hash small enough to derive many keys with, of two or three bytes.
RECURSIVE Mix(_, _, _)
Mix(text, a, b) ==
  IF text = <<>> THEN <<a, b>>
  ELSE Mix(Tail(text), (a * 7 + b + Head(text) + 3) % 251,
           (b * 5 + a + Head(text) * 11 + 1) % 251)
ToyHash(md, text) ==
  LET m == Mix(text, IF md = "MD5" THEN 1 ELSE 2, 9)
  IN IF md = "MD5" THEN m ELSE Append(m, (m[1] + m[2]) % 256)
ToyLen(md) == IF md = "MD5" THEN 2 ELSE 3
ToyBlock(md) == 4
K == INSTANCE KeyDerivation WITH Hash <- ToyHash, HashLen <- ToyLen, HashBlock <- ToyBlock

\* With blocks of two bytes, which are numbers that TLC can add.
K2 == INSTANCE KeyDerivation WITH
  Hash <- ToyHash, HashLen <- ToyLen, HashBlock <- LAMBDA md : 2

Upto(n, k) == [i \in 1..n |-> (i - 1 + k) % 256]
Scattered(n) == [i \in 1..n |-> (i * 53 + n) % 256]
Part(s, from, to) == SubSeq(s, from + 1, to)

-----------------------------------------------------------------------------
(* What the standards publish, as the tests of the library have it: the     *)
(* first four bytes.                                                        *)

Letters(n, k) == [i \in 1..(n * k) |-> 97 + ((i - 1) \div k) + ((i - 1) % k)]
Abc == <<97, 98, 99>>
Alphabet == Upto(26, 97)

Digests ==
  { <<"MD2", Abc, <<218, 133, 59, 13>>>>, <<"MD2", Alphabet, <<78, 141, 223, 243>>>>,
    <<"MD4", Abc, <<164, 72, 1, 122>>>>, <<"MD4", Alphabet, <<215, 158, 28, 48>>>>,
    <<"MD5", Abc, <<144, 1, 80, 152>>>>, <<"MD5", Alphabet, <<195, 252, 211, 215>>>>,
    <<"RIPEMD160", Abc, <<142, 178, 8, 247>>>>, <<"RIPEMD160", Alphabet, <<247, 28, 39, 16>>>>,
    <<"SHA1", Abc, <<169, 153, 62, 54>>>>, <<"SHA1", Letters(14, 4), <<132, 152, 62, 68>>>>,
    <<"SHA224", Abc, <<35, 9, 125, 34>>>>, <<"SHA224", Letters(14, 4), <<117, 56, 139, 22>>>>,
    <<"SHA256", Abc, <<186, 120, 22, 191>>>>, <<"SHA256", Letters(14, 4), <<36, 141, 106, 97>>>>,
    <<"SHA384", Abc, <<203, 0, 117, 63>>>>, <<"SHA384", Letters(14, 8), <<9, 51, 12, 51>>>>,
    <<"SHA512", Abc, <<221, 175, 53, 161>>>>, <<"SHA512", Letters(14, 8), <<142, 149, 155, 117>>>> }

CamelliaKey == <<1, 35, 69, 103, 137, 171, 205, 239, 254, 220, 186, 152, 118, 84, 50, 16,
                 0, 17, 34, 51, 68, 85, 102, 119, 136, 153, 170, 187, 204, 221, 238, 255>>
DesKey == SubSeq(CamelliaKey, 1, 8)
NowIsT == <<78, 111, 119, 32, 105, 115, 32, 116>>
Seventeens == [i \in 1..16 |-> 17 * (i - 1)]
Aes(key) == [cipher |-> "AES", ctx |-> C!AesSetkeyEnc(key)]
Gcm(text) == C!M!GcmCryptAndTag(Aes(C!Zeros(16)), 1, C!Zeros(12), <<>>, text, 16)
Ccm == C!M!CcmEncryptAndTag(Aes(Upto(16, 64)), Upto(7, 16), Upto(8, 0), Upto(4, 32), 4)

Blocks ==
  { <<"AES", 16, <<105>>>>, <<"AES", 24, <<221>>>>, <<"AES", 32, <<142>>>>,
    <<"CAMELLIA", 16, <<103, 103, 49, 56>>>>, <<"CAMELLIA", 24, <<180, 153, 52, 1>>>>,
    <<"CAMELLIA", 32, <<154>>>>, <<"XTEA", 16, <<73, 125, 243, 208>>>>,
    <<"BLOWFISH", 8, <<78, 249, 151, 69>>>>, <<"ARC4", 8, <<117, 183, 135, 128>>>>, <<"DES", 8, <<63, 164, 14, 138>>>>,
    <<"GCM", 0, <<88, 226, 252, 206>>>>, <<"GCM", 16, <<3, 136, 218, 206, 171, 110, 71, 212>>>>,
    <<"CCM", 16, <<113, 98, 1, 91, 77, 172, 37, 93>>>> }

Published == Digests \cup Blocks

Computed(p) ==
  CASE p \in Digests -> H!Digest(p[1], p[2])
    [] p \notin Digests /\ p[1] = "AES" -> C!AesCryptEcb(C!AesSetkeyEnc(Upto(p[2], 0)), 1, Seventeens)
    [] p \notin Digests /\ p[1] = "CAMELLIA" ->
         C!CamelliaCryptEcb(C!CamelliaSetkeyEnc(SubSeq(CamelliaKey, 1, p[2])),
                            SubSeq(CamelliaKey, 1, 16))
    [] p \notin Digests /\ p[1] = "XTEA" -> C!XteaCryptEcb(C!XteaSetup(Upto(16, 0)), 1, Upto(8, 65))
    [] p \notin Digests /\ p[1] = "BLOWFISH" ->
         C!BlowfishCryptEcb(C!BlowfishSetkey(C!Zeros(8)).ctx, 1, C!Zeros(8))
    [] p \notin Digests /\ p[1] = "ARC4" -> C!Arc4Crypt(C!Arc4Setup(DesKey), DesKey).out
    [] p \notin Digests /\ p[1] = "DES" -> C!DesCryptEcb(C!DesSetkeyEnc(DesKey), NowIsT)
    [] p \notin Digests /\ p[1] = "GCM" ->
         LET r == Gcm(C!Zeros(p[2])) IN SubSeq(r.out, 1, p[2] \div 4) \o r.tag
    [] p \notin Digests /\ p[1] = "CCM" -> Ccm.out \o Ccm.tag

IsPublished(p, given) == SubSeq(given, 1, Len(p[3])) = p[3]

-----------------------------------------------------------------------------
(* A text hashed at once and in pieces.                                     *)

\* One byte more than a block: the cut that fills it, and those next to it.
Cuts(b) == {<<1, b>>, <<b - 1, b + 1>>, <<b, b>>}

Hashed(md) ==
  LET b == H!BlockSize(md)
      t == Scattered(b + 1)
      U(ctx, i, j) == H!MdUpdate(md, ctx, Part(t, i, j))
  IN [whole |-> H!Digest(md, t),
      pieces |-> {H!MdFinish(md, U(U(U(H!MdStarts(md), 0, c[1]), c[1], c[2]), c[2], b + 1)) :
                    c \in Cuts(b)}]
IsHashed(given) == given.pieces = {given.whole}

-----------------------------------------------------------------------------
(* Keys of DES that undo what another key, or they themselves, have done.   *)

DesKeys == C!WeakKeys \cup {C!DesKeySetParity(k) : k \in {DesKey, Upto(8, 30)}}
TurnedBy == [k \in C!WeakKeys |-> C!DesCryptEcb(C!DesSetkeyEnc(k), NowIsT)]
Turned(key) ==
  [back |-> {k \in C!WeakKeys : C!DesCryptEcb(C!DesSetkeyEnc(key), TurnedBy[k]) = NowIsT},
   weak |-> C!DesKeyCheckWeak(key), parity |-> C!DesKeyCheckKeyParity(key),
   flipped |-> {C!DesKeyCheckKeyParity([key EXCEPT ![i] = (@ + 128) % 256]) : i \in {1, 8}}]
IsTurned(given) ==
  /\ given.weak = (Cardinality(given.back) = 1)
  /\ given.parity /\ given.flipped = {FALSE}

-----------------------------------------------------------------------------
(* The cipher layer: there and back, and in pieces.                         *)

Keyed(kind, op) ==
  LET info == CHOOSE d \in C!CipherInfoFromValues(kind[1], kind[2], kind[3]) : TRUE
      ctx == IF Len(kind) = 3 THEN C!CipherInitCtx(info)
             ELSE C!CipherSetPaddingMode(C!CipherInitCtx(info), kind[4]).ctx
  IN C!CipherSetkey(ctx, [i \in 1..(kind[2] \div 8) |-> (i * 37) % 256], op).ctx
Iv == [i \in 1..16 |-> (i * 91) % 256]

Streams == { <<"DES", 64, "CBC">>, <<"DES", 64, "CBC", "ONE_AND_ZEROS">>,
             <<"DES", 64, "CBC", "ZEROS_AND_LEN">>,
             <<"DES", 128, "CBC">>, <<"DES", 192, "CBC">>,
             <<"AES", 128, "CBC">>, <<"AES", 192, "CFB">>, <<"AES", 256, "CTR">>,
             <<"CAMELLIA", 128, "CTR">>, <<"CAMELLIA", 192, "CBC">>,
             <<"CAMELLIA", 256, "CFB">>, <<"ARC4", 128, "STREAM">>, <<"NULL", 0, "STREAM">> }

RECURSIVE Fed(_, _)
Fed(r, pieces) ==
  IF pieces = <<>> THEN r
  ELSE LET u == C!CipherUpdate(r.ctx, Head(pieces), FALSE)
       IN Fed([ctx |-> u.ctx, out |-> r.out \o u.out], Tail(pieces))
InPieces(ctx, pieces) ==
  LET r == Fed([ctx |-> C!CipherSetIv(ctx, Iv).ctx, out |-> <<>>], pieces)
      f == C!CipherFinish(r.ctx)
  IN IF f.ok THEN r.out \o f.out ELSE <<-1>>
InThree(t, i, j) == <<Part(t, 0, i), Part(t, i, j), Part(t, j, Len(t))>>

\* About texts that end in the middle of a block and at its end, of one kind.
Streamed(kind) ==
  LET e == Keyed(kind, 1)
      d == Keyed(kind, 0)
      size == e.info.blockSize
  IN [n \in {1, size, size + 3} |->
        LET t == Scattered(n)
            s == C!CipherCrypt(e, Iv, t)
            cuts == {<<0, n>>, <<1, n>>, <<n - 1, n - 1>>, <<n - 1, n>>}
            back == {<<0, Len(s.out)>>, <<Len(s.out) - 1, Len(s.out)>>}
                      \cup {<<size, size + 1>> : x \in {0} \cap {Len(s.out) - 2 * size}}
        IN [text |-> t, sealed |-> s.out, opened |-> C!CipherCrypt(d, Iv, s.out),
            sealedInPieces |-> {InPieces(e, InThree(t, c[1], c[2])) : c \in cuts},
            openedInPieces |-> {InPieces(d, InThree(s.out, c[1], c[2])) : c \in back}]]
IsOpened(given) ==
  \A n \in DOMAIN given : given[n].opened.ok /\ given[n].opened.out = given[n].text
IsStreamed(given) ==
  \A n \in DOMAIN given : /\ given[n].sealedInPieces = {given[n].sealed}
                          /\ given[n].openedInPieces = {given[n].text}

\* The two modes that are called without the layer: of one byte after the other,
\* and of XTEA, whose pieces are whole blocks.
Chains == {"CFB8", "XTEA"}
Link(chain, op, iv, text) ==
  IF chain = "CFB8" THEN C!AesCryptCfb8(Aes(Upto(16, 5)), op, iv, text)
  ELSE C!XteaCryptCbc([cipher |-> "XTEA", ctx |-> C!XteaSetup(Upto(16, 5))], op,
                      SubSeq(iv, 1, 8), text)
Linked(chain) ==
  LET t == Scattered(24)
      Twice(op, text) ==
        {LET one == Link(chain, op, Iv, Part(text, 0, i))
         IN one.out \o Link(chain, op, one.iv, Part(text, i, 24)).out : i \in {8, 16}}
      sealed == Link(chain, 1, Iv, t).out
  IN [text |-> t, sealed |-> sealed, opened |-> Link(chain, 0, Iv, sealed).out,
      sealedTwice |-> Twice(1, t), openedTwice |-> Twice(0, sealed)]
IsLinked(given) == given.opened = given.text
IsLinkedTwice(given) ==
  given.sealedTwice = {given.sealed} /\ given.openedTwice = {given.text}

\* Authenticated: opened as it was sealed, with every byte of the tag, the text
\* or what goes with it altered, and with a tag that is cut.
Sealers == {<<m, n, iv>> : m \in {"GCM", "CCM"}, n \in {0, 5, 17}, iv \in {8, 12}}
Ad == <<7, 7, 9>>
InBlocks(ctx, iv, text) ==
  Fed([ctx |-> C!CipherUpdateAd(C!CipherSetIv(ctx, iv).ctx, Ad), out |-> <<>>],
      C!M!Pieces(text, 16))
Altered(s, i) == [s EXCEPT ![i] = (@ + 128) % 256]
Sealed(kind) ==
  LET e == Keyed(<<"AES", 128, kind[1]>>, 1)
      d == Keyed(<<"AES", 128, kind[1]>>, 0)
      iv == SubSeq(Iv, 1, kind[3])
      s == C!CipherAuthEncrypt(e, iv, Ad, Scattered(kind[2]), 8)
      Opened(ad, text, tag) == C!CipherAuthDecrypt(d, iv, ad, text, tag)
  IN [text |-> Scattered(kind[2]), opened |-> Opened(Ad, s.out, s.tag),
      altered |-> {Opened(Ad, s.out, Altered(s.tag, i)).ok : i \in {1, 8}}
                    \cup {Opened(Ad, Altered(s.out, i), s.tag).ok : i \in {1, 5} \cap 1..kind[2]}
                    \cup {Opened(Altered(Ad, 3), s.out, s.tag).ok},
      whole |-> s,
      pieces |-> IF kind[1] # "GCM" THEN s
                 ELSE LET c == InBlocks(e, iv, Scattered(kind[2]))
                      IN [ok |-> TRUE, out |-> c.out, tag |-> C!CipherWriteTag(c.ctx, 8).tag],
      tags |-> IF kind[1] # "GCM" THEN <<TRUE, FALSE>>
               ELSE LET c == InBlocks(d, iv, s.out)
                    IN <<C!CipherCheckTag(c.ctx, s.tag),
                         C!CipherCheckTag(c.ctx, Altered(s.tag, 8))>>]
IsSealed(given) == given.opened.ok /\ given.opened.out = given.text
IsRefused(given) == given.altered = {FALSE}
IsSealedInPieces(given) == given.pieces = given.whole /\ given.tags = <<TRUE, FALSE>>

-----------------------------------------------------------------------------
(* The paddings: every block of three small bytes.                          *)

Paddings == {"PKCS7", "ZEROS_AND_LEN", "ZEROS"}
Shorts == [1..4 -> 0..4]
Padded(pad) ==
  [accepted |-> {b \in Shorts : C!GetPadding(pad, b).ok},
   back |-> [d \in UNION {[1..n -> 0..2] : n \in 0..3} |->
               C!GetPadding(pad, C!AddPadding(pad, 4, d)).len]]
IsUnpadded(pad, given) ==
  \A d \in DOMAIN given.back : given.back[d] = Len(d) \/ (pad = "ZEROS" /\ d # <<>> /\ d[Len(d)] = 0)

\* What adding a padding makes of the data that the block tells it has.
IsStrict(pad, given) ==
  \A b \in given.accepted :
    \E n \in 0..4 : (n < 4 \/ pad = "ZEROS") /\ b = C!AddPadding(pad, 4, SubSeq(b, 1, n))

-----------------------------------------------------------------------------
(* Derived keys, against the recursions of RFC 2898 and RFC 5246.           *)

Secrets == {<<>>, <<1>>, <<1, 2, 3>>, <<1, 2, 3, 4, 5, 6>>}

RECURSIVE U(_, _, _, _), T(_, _, _, _), A(_, _, _, _), E(_, _, _)
U(md, p, s, j) == K!Hmac(md, p, IF j = 1 THEN s ELSE U(md, p, s, j - 1))
T(md, p, s, c) ==
  IF c = 1 THEN U(md, p, s, 1) ELSE K!XorBytes(U(md, p, s, c), T(md, p, s, c - 1))
A(md, p, seed, i) == IF i = 0 THEN seed ELSE K!Hmac(md, p, A(md, p, seed, i - 1))
Pbkdf2(md, p, s, c) ==
  T(md, p, s \o <<0, 0, 0, 1>>, c) \o T(md, p, s \o <<0, 0, 0, 2>>, c)
    \o T(md, p, s \o <<0, 0, 0, 3>>, c)
P(md, p, seed) ==
  LET h(i) == K!Hmac(md, p, A(md, p, seed, i) \o seed) IN h(1) \o h(2) \o h(3) \o h(4)
\* The halves of a secret of odd length share the byte in the middle.
Tls10(p, seed) ==
  LET half == (Len(p) + 1) \div 2
      Long(s) == s \o <<0, 0, 0, 0>>
  IN K!XorBytes(SubSeq(P("MD5", SubSeq(p, 1, half), seed), 1, 8),
                SubSeq(P("SHA1", SubSeq(p, Len(p) - half + 1, Len(p)), seed), 1, 8))

\* What OpenSSL makes of a password, SSL 3.0 of a secret, and RFC 4279 of two.
E(p, salt, i) == ToyHash("MD5", (IF i = 1 THEN <<>> ELSE E(p, salt, i - 1)) \o p \o salt)
S3(p, random, letters) ==
  ToyHash("MD5", p \o ToyHash("SHA1", letters \o p \o random))
Inner(p, text, n) == text \o p \o [i \in 1..n |-> 54]
Outer(p, n) == p \o [i \in 1..n |-> 92]
S3Mac(p, text) ==
  ToyHash("MD5", Outer(p, 48) \o ToyHash("MD5", Inner(p, text, 48)))
    \o ToyHash("SHA1", Outer(p, 40) \o ToyHash("SHA1", Inner(p, text, 40)))
Other == <<8, 0, 1>>

Derived(p) ==
  [pbkdf2 |-> [x \in {"MD5", "SHA1"} \X {<<>>, <<9, 8>>} \X (1..3) \X {0, 2, 5} |->
                 K!Pbkdf2Hmac(x[1], p, x[2], x[3], x[4])],
   prf |-> [x \in {"MD5", "SHA256"} \X (0..8) |-> K!PrfSha2(x[1], p, <<3>>, <<4, 5>>, x[2])],
   tls |-> [x \in (1..2) \X (1..8) |-> K!PrfOf(x[1], "SHA1", p, <<3>>, <<4, 5>>, x[2])],
   pem |-> [n \in 0..4 |-> K!PemPbkdf1("MD5", n, Upto(16, 9), 8, p)],
   ssl |-> [n \in {2, 4, 6} |-> K!PrfOf(0, "MD5", p, <<3>>, <<4, 5>>, n)],
   psk |-> K!PskPremaster(Other, p),
   verified |-> [v \in 0..3 |-> K!CalcVerify(v, "SHA1", <<6, 7>>, p)],
   finished |-> [v \in 0..3 |-> K!CalcFinished(v, "SHA1", <<6, 7>>, p, <<3>>, 4)]]
IsDerived(p, given) ==
  /\ \A x \in DOMAIN given.pbkdf2 :
       given.pbkdf2[x] = SubSeq(Pbkdf2(x[1], p, x[2], x[3]), 1, x[4])
  /\ \A x \in DOMAIN given.prf : given.prf[x] = SubSeq(P(x[1], p, <<3, 4, 5>>), 1, x[2])
  /\ \A x \in DOMAIN given.tls : given.tls[x] = SubSeq(Tls10(p, <<3, 4, 5>>), 1, x[2])
  /\ \A n \in 0..4 :
       given.pem[n] = SubSeq(E(p, Upto(8, 9), 1) \o E(p, Upto(8, 9), 2), 1, n)
  /\ \A n \in DOMAIN given.ssl :
       given.ssl[n] = SubSeq(S3(p, <<4, 5>>, <<65>>) \o S3(p, <<4, 5>>, <<66, 66>>)
                               \o S3(p, <<4, 5>>, <<67, 67, 67>>), 1, n)
  /\ given.psk = <<0, 3>> \o Other \o <<0, Len(p)>> \o p
  /\ given.verified[0] = S3Mac(p, <<6, 7>>)
  /\ given.verified[1] = ToyHash("MD5", <<6, 7>>) \o ToyHash("SHA1", <<6, 7>>)
  /\ given.verified[3] = ToyHash("SHA256", <<6, 7>>)
  /\ given.finished[0] = S3Mac(p, <<6, 7, 3>>)
  /\ given.finished[2] = SubSeq(Tls10(p, <<3>> \o given.verified[1]), 1, 4)
  /\ given.finished[3] = SubSeq(P("SHA256", p, <<3>> \o given.verified[3]), 1, 4)

\* PKCS #12: the salt and the password, each as long as a block, grow with every
\* block of the key (RFC 7292, B.2).  One that is empty never fills a block.
Ends == {<<>>, <<255>>, <<255, 254>>, <<0, 1>>}
Extended(ps) ==
  [x \in {"MD5", "SHA1"} \X (1..3) \X {0, 1, 4, 7, 129} |->
     K2!Pkcs12Derivation(x[1], ps[1], ps[2], 3, x[2], x[3], 64)]
AsNumber(b) == b[1] * 256 + b[2]
AsBlock(n) == <<(n \div 256) % 256, n % 256>>
Doubled(s) == SubSeq(s \o s, 1, 2)
RECURSIVE Again(_, _, _), Extend(_, _, _, _, _)
Again(md, h, n) == IF n = 0 THEN h ELSE Again(md, ToyHash(md, h), n - 1)
Extend(md, s, p, count, blocks) ==
  IF blocks = 0 THEN <<>>
  ELSE LET h == Again(md, <<3, 3>> \o AsBlock(s) \o AsBlock(p), count)
           b == AsNumber(Doubled(h)) + 1
       IN h \o Extend(md, s + b, p + b, count, blocks - 1)
IsExtended(ps, given) ==
  \A x \in DOMAIN given :
    IF x[3] = 129 THEN given[x] = [ok |-> FALSE]
    ELSE IF <<>> \in {ps[1], ps[2]} THEN given[x] = [ok |-> FALSE, hangs |-> TRUE]
    ELSE given[x].key = SubSeq(Extend(x[1], AsNumber(Doubled(ps[2])), AsNumber(Doubled(ps[1])),
                                      x[2], 4), 1, x[3])

-----------------------------------------------------------------------------
(* The generator of HMAC, against the recursions of SP 800-90A, over calls  *)
(* of several lengths, with and without what the caller adds; the source    *)
(* has seeds for some reseeds only, or there is none.                       *)

Calls == <<<<1, <<>>>>, <<3, <<5>>>>, <<0, <<>>>>, <<7, <<>>>>, <<2, <<6, 7>>>>>>
Generators ==
  [md : {"MD5", "SHA1"}, interval : {1, 2}, seeds : {0, 2, 3, 5, 8}, resists : BOOLEAN,
   custom : {<<>>, <<4>>}]
File == <<8, 9>>

RECURSIVE Draw(_, _)
Draw(ctx, calls) ==
  LET r == K!DrbgRandom(ctx, Head(calls)[1], Head(calls)[2])
  IN IF calls = <<>>
     THEN LET f == K!DrbgUpdateSeedFile(ctx, File, 2) IN IF f.ok THEN <<f.out>> ELSE <<"failed">>
     ELSE <<IF r.ok THEN r.out ELSE "failed">> \o Draw(r.ctx, Tail(calls))
Drawn(g) ==
  LET c == K!DrbgInit(g.md, 2, g.interval, Upto(g.seeds, 3), g.custom)
  IN [seeded |-> IF c.ok THEN Draw([c.ctx EXCEPT !.prediction_resistance = g.resists], Calls)
                 ELSE <<"failed">>,
      buffer |-> Draw(K!DrbgInitBuf(g.md, g.custom), Calls),
      tooLong |-> K!DrbgUpdateSeedFile(c.ctx, File, 1).ok]

\* A state of the standard: the key, V, the calls since the seed, the seeds left.
RECURSIVE Generated(_, _, _), Standard(_, _, _), Updated(_, _)
Mixed(s, bytes) ==
  LET k == K!Hmac(s.md, s.key, s.V \o bytes)
  IN [s EXCEPT !.key = k, !.V = K!Hmac(s.md, k, s.V)]
Updated(s, inputs) ==
  IF inputs = <<>> THEN s ELSE Updated(Mixed(s, Head(inputs)), Tail(inputs))
\* The inputs of an update: a data of no bytes goes in once, any other twice.
Inputs(data) == IF data = <<>> THEN <<<<0>>>> ELSE <<<<0>> \o data, <<1>> \o data>>
Generated(s, n, sofar) ==
  LET v == K!Hmac(s.md, s.key, s.V)
  IN IF Len(sofar) >= n THEN [s |-> s, out |-> SubSeq(sofar, 1, n)]
     ELSE Generated([s EXCEPT !.V = v], n, sofar \o v)
\* The calls left, with the numbers of calls since the seed that ask for another.
Standard(s, calls, Due) ==
  LET n == IF calls = <<>> THEN 2 ELSE Head(calls)[1]
      add == IF calls = <<>> THEN <<>> ELSE Head(calls)[2]
      due == s.calls \in Due
      taken == IF due THEN [s EXCEPT !.calls = 1, !.seeds = Part(@, 2, Len(@))] ELSE s
      before == (IF calls = <<>> THEN Inputs(File) ELSE <<>>)
                \o IF due THEN Inputs(SubSeq(s.seeds, 1, 2) \o add)
                   ELSE IF add = <<>> THEN <<>> ELSE Inputs(add)
      g == Generated(Updated(taken, before), n, <<>>)
      after == Updated([g.s EXCEPT !.calls = @ + 1], Inputs(IF due THEN <<>> ELSE add))
      fails == due /\ Len(s.seeds) < 2
  IN <<IF fails THEN "failed" ELSE g.out>>
     \o IF calls = <<>> THEN <<>>
        ELSE Standard(IF fails THEN s ELSE after, Tail(calls), Due)
\* Seeded by the source, or with a buffer and never again.
IsDrawn(g, given) ==
  /\ \A source \in BOOLEAN :
       (IF source THEN given.seeded ELSE given.buffer)
         = IF source /\ g.seeds < 3 THEN <<"failed">>
           ELSE LET zero == [md |-> g.md, calls |-> IF source THEN 1 ELSE 0,
                             key |-> [i \in 1..ToyLen(g.md) |-> 0],
                             V |-> [i \in 1..ToyLen(g.md) |-> 1],
                             seeds |-> IF source THEN Part(Upto(g.seeds, 3), 3, g.seeds)
                                       ELSE <<>>]
                    first == (IF source THEN Upto(3, 3) ELSE <<>>) \o g.custom
                IN Standard(Updated(zero, Inputs(first)), Calls,
                            {n \in 1..9 : source /\ (g.resists \/ n > g.interval)})
  /\ ~given.tooLong

-----------------------------------------------------------------------------
(* The key block of TLS, cut at both ends.                                  *)

Shapes == {[mac |-> m, key |-> k, iv |-> i] : m \in {0, 2, 3}, k \in {1, 2}, i \in {0, 2}}
CutUp(shape) ==
  LET block == Upto(2 * (shape.mac + shape.key + shape.iv), 1)
  IN [end \in BOOLEAN |-> K!Cut(block, end, shape.mac, shape.key, shape.iv)]
\* What one end writes with the other reads with, and no key serves both ways.
IsCut(shape, given) ==
  \A end \in BOOLEAN :
    LET own == given[end]
        other == given[~end]
    IN /\ own.mac_enc = other.mac_dec /\ own.key_enc = other.key_dec /\ own.iv_enc = other.iv_dec
       /\ shape.mac > 0 => own.mac_enc # own.mac_dec
       /\ own.key_enc # own.key_dec
       /\ shape.iv > 0 => own.iv_enc # own.iv_dec
=============================================================================
