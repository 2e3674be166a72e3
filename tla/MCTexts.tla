------------------------------- MODULE MCTexts -------------------------------
(* Questions about the encodings, base 64 and ASN.1, about records, and about *)
(* chains of certificates.                                                    *)
EXTENDS Integers, Sequences, FiniteSets, TLC

T == INSTANCE Encoding

Alphabet == {0, 1, 127, 128, 255}
Over(A, n) == UNION {[1..k -> A] : k \in 0..n}

-----------------------------------------------------------------------------
(* Written and read again.                                                   *)

\* Base 64 comes in lines, of which the reader does not mind the length.
Chopped(s, k) ==
  IF Len(s) <= k THEN s ELSE SubSeq(s, 1, k) \o <<T!LF>> \o SubSeq(s, k + 1, Len(s))
Behind == <<9>>

Coded(s) ==
  [base64 |-> {T!Base64Decode(Chopped(T!Base64Encode(s), k), Len(s)) : k \in {1, 4}},
   strings |-> {T!GetBody(T!WriteOctetString(s) \o Behind, T!OCTET_STRING),
                T!GetBody(T!WritePrintableString(s) \o Behind, T!PRINTABLE_STRING),
                T!GetBody(T!WriteIa5String(s) \o Behind, T!IA5_STRING)},
   bools |-> [b \in BOOLEAN |-> T!GetBool(T!WriteBool(b) \o s)],
   number |-> T!GetMpi(T!WriteMpi(s, Behind) \o Behind),
   unused |-> [k \in 0..(8 * Len(s)) |-> T!GetBitstring(T!WriteBitstring(s, k)).unused],
   list |-> T!GetSequenceOf(T!Tagged(T!SEQUENCE, T!WriteOid(s) \o T!WriteOid(<<1>>)), T!OID),
   algorithm |-> T!GetAlg(T!WriteAlg(s, T!WriteOid(<<1>>)) \o Behind)]

IsRead(g, val, rest) == g.ok /\ g.val = val /\ g.rest = rest
\* A number begins with a byte that is not zero.
IsCoded(s, given) ==
  /\ given.base64 = {[ok |-> TRUE, out |-> s]}
  /\ \A g \in given.strings : IsRead(g, s, Behind)
  /\ \A b \in BOOLEAN : IsRead(given.bools[b], b, s)
  /\ s = <<>> \/ Head(s) = 0 \/ IsRead(given.number, s, Behind)
  /\ \A k \in DOMAIN given.unused : given.unused[k] = (8 - (k % 8)) % 8
  /\ given.list.list = <<s, <<1>>>>
  /\ given.algorithm.alg = s /\ given.algorithm.rest = Behind

\* Lengths around the ends of the forms that a length is written in.
Lengths == {0, 1, 127, 128, 129, 254, 255, 256, 300}
Measured(n) ==
  [body |-> T!GetBody(T!WriteOctetString([i \in 1..n |-> 7]) \o Behind, T!OCTET_STRING),
   int |-> IF n < 256 THEN T!Count(T!GetInt(T!WriteInt(n) \o Behind).val) ELSE n]
IsMeasured(n, given) ==
  /\ IsRead(given.body, [i \in 1..n |-> 7], Behind)
  /\ given.int = n

\* Named data: of every byte the one stored last is found, so that the end of a
\* value stays when a shorter one replaces it.
Stores == Over({1, 2} \X {<<>>, <<5>>, <<6, 7>>}, 3)
RECURSIVE Stored(_, _)
Stored(list, ones) ==
  IF ones = <<>> THEN list
  ELSE Stored(T!StoreNamedData(list, Head(ones)[1], Head(ones)[2]), Tail(ones))
Named(ones) ==
  LET list == Stored(<<>>, ones)
  IN [list |-> list, at |-> [oid \in {1, 2} |-> T!FindNamedData(list, oid)]]
IsNamed(ones, given) ==
  \A oid \in {1, 2} :
    LET of == SelectSeq(ones, LAMBDA o : o[1] = oid)
        val == given.list[given.at[oid]].val
        Reach(k) == {i \in 1..Len(of) : Len(of[i][2]) >= k}
        Last(k) == CHOOSE i \in Reach(k) : \A j \in Reach(k) : j <= i
    IN IF of = <<>> THEN given.at[oid] = 0
       ELSE val = [k \in {n \in 1..2 : Reach(n) # {}} |-> of[Last(k)][2][k]]

\* Of texts over two letters, the padding, a line's end and a space: what is
\* accepted is what encoding makes of the bytes it gives, but for what is no
\* character, a quad that is not whole, and the bits that the last one has to spare.
Characters == {5, 16, T!PAD, T!LF, T!SPACE, T!UNKNOWN}
Decoded(n) == [s \in [1..n -> Characters] |-> T!Base64Decode(s, 20)]
Quads(s) ==
  LET q == SelectSeq(s, LAMBDA c : c <= T!PAD) IN SubSeq(q, 1, 4 * (Len(q) \div 4))
IsDecoded(given) ==
  \A s \in DOMAIN given :
    given[s].ok =>
      LET again == T!Base64Encode(given[s].out)
          q == Quads(s)
          n == Len(SelectSeq(q, LAMBDA c : c # T!PAD))
      IN /\ Len(again) = Len(q)
         /\ \A i \in 1..Len(q) : again[i] = q[i] \/ (i = n /\ n < Len(q))

-----------------------------------------------------------------------------
(* Records, with bytes of two bits and ciphers that any table could be.      *)

Mixed(s) ==
  LET F[i \in 0..Len(s)] == IF i = 0 THEN 1 ELSE (3 * F[i - 1] + s[i] + 1) % 13
  IN <<F[Len(s)] % 4>>
S == INSTANCE RecordLayer WITH
  Byte <- 4, MaxContent <- 6, BufferLen <- 29, Handshake <- 2, Types <- {0, 1, 2, 3},
  Hash <- Mixed, Hmac <- LAMBDA k, t : Mixed(k \o t),
  Block <- LAMBDA k, op, b :
             [i \in DOMAIN b |-> (b[Len(b) + 1 - i] + (IF op = 1 THEN k[1] ELSE 4 - k[1])) % 4],
  Stream <- LAMBDA k, n : (k[1] * n * n) % 4,
  Seal <- LAMBDA k, iv, add, t :
            [i \in DOMAIN t |-> (t[i] + k[1] + iv[1] + iv[2]) % 4] \o Mixed(iv \o add \o t),
  Open <- LAMBDA k, iv, add, s :
            LET n == Len(s) - 1
                t == [i \in 1..n |-> (s[i] + 12 - k[1] - iv[1] - iv[2]) % 4]
            IN IF n >= 0 /\ <<s[n + 1]>> = Mixed(iv \o add \o t)
               THEN [ok |-> TRUE, out |-> t] ELSE [ok |-> FALSE, err |-> "AUTH"]

Transforms ==
  {S!Transform(m, v, <<1, 2>>, 1, <<3>>, 2, 1) : m \in {"STREAM", "CBC"}, v \in 0..3}
    \cup {S!Transform("AEAD", 3, <<1, 2>>, 1, <<3>>, 2, 1)}
Fresh(tr) ==
  S!Direction(tr, <<0, 0>>, CASE tr.mode = "AEAD" -> <<1, 0, 0>>
                              [] tr.mode = "STREAM" -> <<>>
                              [] OTHER -> <<2, 1>>)

\* What a reader makes of the messages a writer sends one after the other.
RECURSIVE Chat(_, _, _, _)
Chat(out, in, messages, sofar) ==
  IF messages = <<>> THEN sofar
  ELSE LET w == S!WriteRecord(out, out.tr.ver, 1, Head(messages), <<2, Len(messages) % 4>>)
           r == S!ReadRecord(in, 3, w.out)
       IN IF ~w.ok THEN Append(sofar, w.err)
          ELSE IF ~r.ok THEN Append(sofar, r.err)
          ELSE Chat(w.d, r.d, Tail(messages), Append(sofar, r.out))

Conversed(tr) ==
  [texts |-> [m \in Over(0..3, 2) \X Over(0..3, 1) |->
                Chat(Fresh(tr), Fresh(tr), <<m[1], m[2], m[1]>>, <<>>)],
   many |-> Chat(Fresh(tr), Fresh(tr), [i \in 1..17 |-> <<i % 4>>], <<>>),
   empty |-> Chat(Fresh(tr), Fresh(tr), [i \in 1..5 |-> <<>>], <<>>)]

\* The counter never comes back to where it was, and four empty messages in a row
\* are too many.
IsConversed(given) ==
  /\ \A m \in DOMAIN given.texts : given.texts[m] = <<m[1], m[2], m[1]>>
  /\ given.many = Append([i \in 1..15 |-> <<i % 4>>], "COUNTER_WRAPPING")
  /\ given.empty = <<<<>>, <<>>, <<>>, "INVALID_MAC">>

\* Every short plaintext of a CBC record, encrypted as it is.
Plains == [1..2 -> 0..3] \cup [1..4 -> 0..3]
Wire(d, plain) ==
  IF d.tr.ver >= 2 THEN <<0, 3>> \o S!Chained([d EXCEPT !.iv = <<0, 3>>], 1, plain).out
  ELSE S!Chained(d, 1, plain).out
Forged(tr) ==
  LET d == Fresh(tr) IN [plain \in Plains |-> S!DecryptBuf(d, 1, tr.ver, Wire(d, plain))]
\* The message, its MAC and a padding, of which SSL 3.0 only fixes the length.
Messages(d, plain) ==
  {m \in Over(0..3, 2) :
     \E p \in 0..3 :
       LET body == m \o S!MacOf(d, 1, d.tr.ver, m)
           n == Len(body)
       IN /\ Len(plain) = n + p + 1 /\ SubSeq(plain, 1, n) = body /\ plain[n + p + 1] = p
          /\ IF d.tr.ver = 0 THEN p < d.tr.ivlen ELSE \A i \in 1..p : plain[n + i] = p}
IsForged(tr, given) ==
  \A plain \in Plains :
    LET m == Messages(Fresh(tr), plain)
    IN IF given[plain].ok THEN m = {given[plain].out} ELSE m = {}

\* Calls that move as much as the script says of a record.
Scripts == [1..6 -> {0, 1, 3}]
InTheClear == S!WriteRecord(S!Direction(S!NONE, <<0, 0>>, <<>>), 3, 1, <<1, 2, 3>>, <<>>).out
Moved(script) == [fetched |-> S!Fetch(InTheClear \o <<1, 1>>, script),
                  flushed |-> S!Flush(InTheClear, script)]
RECURSIVE Total(_)
Total(s) == IF s = <<>> THEN 0 ELSE Head(s) + Total(Tail(s))
IsMoved(script, given) ==
  LET n == Len(InTheClear)
      sent == IF Total(script) < n THEN Total(script) ELSE n
  IN /\ given.flushed = SubSeq(InTheClear, 1, sent)
     /\ given.fetched \in {<<>>, InTheClear}
     /\ given.fetched = InTheClear => given.flushed = InTheClear

\* Handshake messages that share a record come one by one.
Bodies == Over({1, 3}, 2)
Sharing(m) == S!Messages(<<1, 0, 0, Len(m[1])>> \o m[1] \o <<3, 0, 0, Len(m[2])>> \o m[2])
IsSharing(m, given) ==
  given = <<[ok |-> TRUE, out |-> <<1, 0, 0, Len(m[1])>> \o m[1]],
            [ok |-> TRUE, out |-> <<3, 0, 0, Len(m[2])>> \o m[2]]>>

-----------------------------------------------------------------------------
(* A leaf, an intermediate and a root, each of them as it should be or with *)
(* one thing wrong, with CRLs and names.                                      *)
\* Signatures that tell who made them, of which digest.
Digest(tbs) == <<tbs % 7, tbs % 5, tbs % 3>>
X == INSTANCE X509 WITH
  MdSize <- LAMBDA md : IF md = "SHA1" THEN 3 ELSE 0,
  KeyLen <- LAMBDA k : 5,
  RsaSign <- LAMBDA k, md, h : <<k, 1>> \o h,
  RsaVerify <- LAMBDA k, md, h, s : s = <<k, 1>> \o h,
  PssVerify <- LAMBDA k, md, h, o, s : s = <<k, 2>> \o h,
  RsaEncrypt <- LAMBDA k, t : [ret |-> "OK", out |-> t],
  RsaDecrypt <- LAMBDA k, t, n : [ret |-> "OK", out |-> t],
  EcdsaSign <- LAMBDA k, md, h : <<k, 3>> \o h,
  EcdsaRead <- LAMBDA k, h, s : IF s = <<k, 3>> \o h THEN "OK" ELSE "VERIFY_FAILED",
  Md <- LAMBDA md, tbs : Digest(tbs),
  UTF8 <- 12, PRINTABLE <- 19, CN <- 3, Vrfy <- LAMBDA raw, depth, flags : flags

\* <<year, month, day, hour, minute, second>>: noon of a day, and now is the third.
Day(k) == <<1, 1, k, 12, 0, 0>>
Now == <<1, 1, 3, 11, 59, 59>>
Called(letters) == <<[oid |-> 3, tag |-> 12, val |-> letters]>>
Key(k) == [type |-> IF k = 2 THEN "ECKEY" ELSE "RSA", key |-> k]
SignatureBy(signer, tbs) == X!Sign(signer, "SHA1", Digest(tbs), 0).out

\* What can be wrong with a certificate.
Made(raw, subject, issuer, key, signer, flaw) ==
  LET sound ==
        [raw |-> raw, tbs |-> raw, version |-> 3, serial |-> <<raw>>,
         subject |-> Called(subject), issuer |-> Called(issuer), from |-> Day(2), to |-> Day(4),
         ext_types |-> {"KEY_USAGE"}, alt |-> <<>>, usage |-> {"KEY_CERT_SIGN", "CRL_SIGN"},
         ca |-> TRUE, max_pathlen |-> 0, pk |-> key, sig_md |-> "SHA1",
         sig_pk |-> IF signer.type = "RSA" THEN "RSA" ELSE "ECDSA", sig_opts |-> X!NoOptions,
         sig |-> SignatureBy(signer, raw), signedBy |-> {signer}]
  IN CASE flaw = "none" -> sound
       [] flaw = "no CA" -> [sound EXCEPT !.ca = FALSE]
       [] flaw = "version 1" -> [sound EXCEPT !.version = 1, !.ca = FALSE]
       [] flaw = "expired" -> [sound EXCEPT !.to = [Now EXCEPT ![6] = 58]]
       [] flaw = "to come" -> [sound EXCEPT !.from = Day(3)]
       [] flaw = "no issuing" -> [sound EXCEPT !.usage = {"CRL_SIGN"}]
       [] flaw = "no lists" -> [sound EXCEPT !.usage = {"KEY_CERT_SIGN"}]
       [] flaw = "unknown digest" -> [sound EXCEPT !.sig_md = "MD2", !.signedBy = {}]
       [] flaw = "forged" -> [sound EXCEPT !.tbs = raw + 1, !.signedBy = {}]
       [] flaw = "other signer" -> [sound EXCEPT !.sig = SignatureBy(Key(4), raw),
                                                 !.signedBy = {Key(4)}]
       [] flaw = "for none" -> [sound EXCEPT !.max_pathlen = 1]
       [] flaw = "for one" -> [sound EXCEPT !.max_pathlen = 2]
Flaws == {"none", "no CA", "version 1", "expired", "to come", "no issuing", "no lists",
          "unknown digest", "forged", "other signer", "for none", "for one"}

RootName == <<97>>
InterName == <<98>>
LeafName == <<119, 46, 99, 46, 100>>       \* w.c.d
Root(flaw) == Made(10, RootName, RootName, Key(1), Key(1), flaw)
Inter(flaw) == Made(20, InterName, RootName, Key(2), Key(1), flaw)
Leaf(flaw) == Made(30, LeafName, InterName, Key(3), Key(2), flaw)
Stranger == Made(40, <<120>>, <<121>>, Key(5), Key(5), "none")
Twin == Made(50, InterName, RootName, Key(6), Key(1), "none")

\* The lists of the intermediate, and of another.
List(flaw) ==
  LET sound == [version |-> 1, issuer |-> Called(InterName), sig_md |-> "SHA1",
                sig_pk |-> "ECDSA", sig_opts |-> X!NoOptions, tbs |-> 60,
                entries |-> <<[serial |-> <<31>>, date |-> Day(1)]>>,
                this_update |-> Day(2), next_update |-> Day(4),
                sig |-> SignatureBy(Key(2), 60), signedBy |-> {Key(2)}]
  IN CASE flaw = "none" -> sound
       [] flaw = "revokes" -> [sound EXCEPT !.entries = Append(@, [serial |-> <<30>>, date |-> Day(1)])]
       [] flaw = "will revoke" -> [sound EXCEPT !.entries[1] = [serial |-> <<30>>, date |-> Day(5)]]
       [] flaw = "expired" -> [sound EXCEPT !.next_update = Day(1)]
       [] flaw = "forged" -> [sound EXCEPT !.tbs = 61, !.signedBy = {}]
       [] flaw = "another's" -> [sound EXCEPT !.issuer = Called(<<120>>), !.entries[1].serial = <<30>>]
ListFlaws == {"none", "revokes", "will revoke", "expired", "forged", "another's"}
\* By name: a list that counts for nothing may be in front of one that does.
Lists == {<<>>} \cup {<<f>> : f \in ListFlaws} \cup {<<"another's", f>> : f \in ListFlaws}
                \cup {<<"none", f>> : f \in ListFlaws}

Wanted == {X!ABSENT, <<87, 46, 67, 46, 100>>, <<119, 46, 99>>, <<118, 46, 99, 46, 100>>}
Orders == {"plain", "none between", "stranger", "root too", "twin first"}

\* What is sent, by the order of it.
Sent(c) ==
  LET l == Leaf(c.leaf)
      i == Inter(c.inter)
  IN CASE c.order = "plain" -> <<l, i>>
       [] c.order = "none between" -> <<l>>
       [] c.order = "stranger" -> <<l, Stranger, i>>
       [] c.order = "root too" -> <<l, i, Root("none")>>
       [] c.order = "twin first" -> <<l, Twin, i>>
Known(c) == [now |-> Now, trusted |-> <<Stranger, Root(c.root)>>,
             crls |-> [k \in DOMAIN c.lists |-> List(c.lists[k])]]

Case(leaf, inter, root, order, lists, cn) ==
  [leaf |-> leaf, inter |-> inter, root |-> root, order |-> order, lists |-> lists, cn |-> cn]
Chains ==
  {Case(l, i, r, "plain", <<>>, X!ABSENT) : l \in {"none", "expired", "unknown digest"},
                                            i \in Flaws, r \in Flaws}
    \cup {Case(l, i, "none", o, <<>>, X!ABSENT) : l \in Flaws, i \in Flaws, o \in Orders}
    \cup {Case("none", i, r, "root too", <<>>, X!ABSENT) : i \in {"none", "forged"}, r \in Flaws}
    \cup {Case("none", i, "none", "plain", s, X!ABSENT) : i \in {"none", "no lists"}, s \in Lists}
    \cup {Case("none", "none", "none", "plain", <<>>, cn) : cn \in Wanted}

Judged(c) == X!VerifyChain(Known(c), Sent(c), c.cn)

-----------------------------------------------------------------------------
(* When a chain is good: there is a way from the leaf through certificates     *)
(* behind one another up to one of the trusted.                                *)

\* Seconds of the day before: all times here are of one year and month.
Second(t) == ((t[3] * 24 + t[4]) * 60 + t[5]) * 60 + t[6]
InTime(from, to) == Second(from) <= Second(Now) /\ Second(Now) <= Second(to)

Issues(parent, child) ==
  /\ child.issuer = parent.subject
  /\ parent.pk \in child.signedBy
MayIssue(parent, top) ==
  (top /\ parent.version < 3) \/ (parent.ca /\ "KEY_CERT_SIGN" \in parent.usage)
NotRevoked(parent, child, lists) ==
  \A k \in DOMAIN lists :
    LET s == lists[k]
    IN s.issuer = parent.subject =>
         /\ "CRL_SIGN" \in parent.usage /\ parent.pk \in s.signedBy
         /\ InTime(s.this_update, s.next_update)
         /\ \A e \in DOMAIN s.entries :
              s.entries[e].serial = child.serial => Second(s.entries[e].date) >= Second(Now)

\* path: places in the chain, from the leaf up.
Good(v, chain, path, ca) ==
  LET n == Len(path)
      At(k) == chain[path[k]]
      own == ca.subject = At(n).subject
  IN /\ \A k \in 1..n : InTime(At(k).from, At(k).to)
     /\ \A k \in 1..(n - 1) : /\ Issues(At(k + 1), At(k)) /\ MayIssue(At(k + 1), FALSE)
                              /\ NotRevoked(At(k + 1), At(k), v.crls)
     /\ Issues(ca, At(n)) /\ MayIssue(ca, TRUE)
     /\ own \/ (InTime(ca.from, ca.to) /\ NotRevoked(ca, At(n), v.crls))
     /\ ca.max_pathlen = 0 \/ ca.max_pathlen >= (IF own THEN n - 1 ELSE n)
Paths(n) == {p \in UNION {[1..k -> 1..n] : k \in 1..n} :
               p[1] = 1 /\ \A k \in 1..(Len(p) - 1) : p[k] < p[k + 1]}
HasGoodPath(v, chain) ==
  \E p \in Paths(Len(chain)), r \in DOMAIN v.trusted : Good(v, chain, p, v.trusted[r])

\* w.c.d in any letters, and *.c.d, but neither less nor another.
NameFits(cn) == cn \in {X!ABSENT, <<87, 46, 67, 46, 100>>}

\* Accepted is what has a good path; what has one is accepted, where no two of a
\* name leave the choice of a parent open: the first of the name is taken.
IsJudged(c, flags) ==
  LET v == Known(c)
      good == HasGoodPath(v, Sent(c)) /\ NameFits(c.cn)
  IN /\ flags = {} => good
     /\ good /\ c.order # "twin first" => flags = {}

-----------------------------------------------------------------------------
(* Names with a star, against a definition by labels.                          *)

Dot == 46
Texts(n) == UNION {[1..k -> {97, 65, Dot}] : k \in 1..n}
Patterns == Texts(3) \cup {<<42, Dot>> \o t : t \in Texts(3)}
Matched(pattern) == {t \in Texts(5) : X!NameMatches(t, pattern)}
Lower(t) == [i \in DOMAIN t |-> IF t[i] = 65 THEN 97 ELSE t[i]]
IsMatched(pattern, given) ==
  \A t \in Texts(5) :
    t \in given <=>
      \/ Lower(t) = Lower(pattern)
      \/ /\ pattern[1] = 42 /\ Len(pattern) > 2
         /\ \E n \in 1..(Len(t) - 1) :
              /\ \A i \in 1..n : t[i] # Dot
              /\ t[n + 1] = Dot
              /\ Lower(SubSeq(t, n + 1, Len(t))) = Lower(Tail(pattern))
=============================================================================
