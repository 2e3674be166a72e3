---------------------------- MODULE KeyDerivation ----------------------------
(***************************************************************************)
(* What the library builds from a hash: HMAC, the HMAC generator, the keys *)
(* that are derived from passwords, and those that TLS derives from its    *)
(* secrets.  The hash is a parameter: Hash(md, text), with digests of      *)
(* HashLen(md) bytes made from blocks of HashBlock(md); Hashes has the     *)
(* ones of the library, and hashing in pieces is theirs.                   *)
(***************************************************************************)
EXTENDS Integers, Sequences, Words

CONSTANTS Hash(_, _), HashLen(_), HashBlock(_)

-----------------------------------------------------------------------------
(* HMAC.  A context holds both pads and what was hashed since the last     *)
(* starts or reset.                                                        *)

HmacStarts(md, key) ==
  LET k == IF Len(key) > HashBlock(md) THEN Hash(md, key) ELSE key
      Pad(byte) == Strict([i \in 1..HashBlock(md) |->
                             IF i <= Len(k) THEN XorN(k[i], byte) ELSE byte])
  IN [md |-> md, ipad |-> Pad(54), opad |-> Pad(92), text |-> Pad(54)]
HmacUpdate(ctx, input) == [ctx EXCEPT !.text = @ \o input]
HmacFinish(ctx) == Hash(ctx.md, ctx.opad \o Hash(ctx.md, ctx.text))
HmacReset(ctx) == [ctx EXCEPT !.text = ctx.ipad]
Hmac(md, key, input) == HmacFinish(HmacUpdate(HmacStarts(md, key), input))

-----------------------------------------------------------------------------
(* hmac_drbg.c.  md_ctx keeps the key K, as its pads; seeds says how much  *)
(* entropy is left in the source, as a sequence of the bytes it will give: *)
(* a source that has not got entropy_len of them fails.                    *)

RECURSIVE DrbgRounds(_, _, _, _)
DrbgRounds(ctx, additional, sep, rounds) ==
  IF sep = rounds THEN ctx
  ELSE LET K == HmacFinish(HmacUpdate(HmacReset(ctx.md_ctx),
                  ctx.V \o <<sep>> \o (IF rounds = 2 THEN additional ELSE <<>>)))
           keyed == HmacStarts(ctx.md_ctx.md, K)
       IN DrbgRounds([ctx EXCEPT !.md_ctx = keyed,
                                 !.V = HmacFinish(HmacUpdate(keyed, ctx.V))],
                     additional, sep + 1, rounds)
DrbgUpdate(ctx, additional) ==
  DrbgRounds(ctx, additional, 0, IF additional # <<>> THEN 2 ELSE 1)

DrbgBlank(md) ==
  [md_ctx |-> HmacStarts(md, Zeros(HashLen(md))), V |-> [i \in 1..HashLen(md) |-> 1],
   entropy_len |-> 0, reseed_counter |-> 0, reseed_interval |-> 0,
   prediction_resistance |-> FALSE, reseeds |-> FALSE, seeds |-> <<>>]

\* hmac_drbg_init_buf: no source, hence never a reseed.
DrbgInitBuf(md, data) == DrbgUpdate(DrbgBlank(md), data)

DrbgReseed(ctx, additional) ==
  IF Len(ctx.seeds) < ctx.entropy_len THEN [ok |-> FALSE, ctx |-> ctx]
  ELSE [ok |-> TRUE,
        ctx |-> [DrbgUpdate(ctx, Take(ctx.seeds, ctx.entropy_len) \o additional)
                   EXCEPT !.seeds = Drop(ctx.seeds, ctx.entropy_len),
                          !.reseed_counter = 1]]

\* hmac_drbg_init: the first seed is half as long again, for a nonce.
DrbgInit(md, strength, interval, seeds, custom) ==
  LET first == [DrbgBlank(md) EXCEPT !.reseeds = TRUE, !.seeds = seeds,
                  !.reseed_interval = interval, !.entropy_len = (strength * 3) \div 2]
      r == DrbgReseed(first, custom)
  IN [r EXCEPT !.ctx.entropy_len = IF r.ok THEN strength ELSE @]

RECURSIVE DrbgBytes(_, _, _)
DrbgBytes(ctx, left, out) ==
  IF left <= 0 THEN [ctx |-> ctx, out |-> out]
  ELSE LET V == HmacFinish(HmacUpdate(HmacReset(ctx.md_ctx), ctx.V))
           n == IF left > Len(V) THEN Len(V) ELSE left
       IN DrbgBytes([ctx EXCEPT !.V = V], left - n, out \o Take(V, n))

\* hmac_drbg_random_with_add
DrbgRandom(ctx, n, additional) ==
  LET due == ctx.reseeds /\ (ctx.prediction_resistance \/ ctx.reseed_counter > ctx.reseed_interval)
      r == IF due THEN DrbgReseed(ctx, additional) ELSE [ok |-> TRUE, ctx |-> ctx]
      add == IF due THEN <<>> ELSE additional
      mixed == IF add # <<>> THEN DrbgUpdate(r.ctx, add) ELSE r.ctx
      drawn == DrbgBytes(mixed, n, <<>>)
  IN IF ~r.ok THEN [ok |-> FALSE, ctx |-> ctx]
     ELSE [ok |-> TRUE, out |-> drawn.out,
           ctx |-> [DrbgUpdate(drawn.ctx, add) EXCEPT !.reseed_counter = @ + 1]]

\* hmac_drbg_write_seed_file and hmac_drbg_update_seed_file, on a file of n bytes
DrbgWriteSeedFile(ctx, n) == DrbgRandom(ctx, n, <<>>)
DrbgUpdateSeedFile(ctx, file, n) ==
  IF Len(file) > n THEN [ok |-> FALSE, ctx |-> ctx]
  ELSE DrbgWriteSeedFile(DrbgUpdate(ctx, file), n)

-----------------------------------------------------------------------------
(* Passwords: PBKDF2 of pkcs5.c, the derivation of PKCS#12, and what       *)
(* OpenSSL's PEM files use.                                                *)

RECURSIVE Increment(_, _)
Increment(counter, i) ==
  IF i = 0 THEN counter
  ELSE LET next == [counter EXCEPT ![i] = (@ + 1) % 256]
       IN IF next[i] # 0 THEN next ELSE Increment(next, i - 1)

RECURSIVE Iterate(_, _, _, _, _)
Iterate(md, password, work, md1, i) ==
  IF i <= 1 THEN work
  ELSE LET u == Hmac(md, password, md1)
       IN Iterate(md, password, XorBytes(work, u), u, i - 1)
RECURSIVE Pbkdf2Blocks(_, _, _, _, _, _)
Pbkdf2Blocks(md, password, salt, count, left, counter) ==
  IF left <= 0 THEN <<>>
  ELSE LET u1 == Hmac(md, password, salt \o counter)
           work == Iterate(md, password, u1, u1, count)
           n == IF left < HashLen(md) THEN left ELSE HashLen(md)
       IN Take(work, n) \o Pbkdf2Blocks(md, password, salt, count, left - n, Increment(counter, 4))
Pbkdf2Hmac(md, password, salt, count, keylen) ==
  Pbkdf2Blocks(md, password, salt, count, keylen, <<0, 0, 0, 1>>)

\* pkcs12_fill_buffer: with nothing to fill with it never returns, which is NEVER.
NEVER == <<-1>>
FillBuffer(n, filler) ==
  IF n > 0 /\ filler = <<>> THEN NEVER
  ELSE Strict([i \in 1..n |-> filler[((i - 1) % Len(filler)) + 1]])

RECURSIVE HashAgain(_, _, _)
HashAgain(md, h, n) == IF n <= 1 THEN h ELSE HashAgain(md, Hash(md, h), n - 1)

RECURSIVE AddBytes(_, _, _, _)
AddBytes(a, b, i, c) ==
  IF i = 0 THEN <<>>
  ELSE LET j == a[i] + b[i] + c IN AddBytes(a, b, i - 1, j \div 256) \o <<j % 256>>

RECURSIVE Pkcs12Blocks(_, _, _, _, _, _)
Pkcs12Blocks(md, diversifier, salt, pwd, count, left) ==
  LET h == HashAgain(md, Hash(md, diversifier \o salt \o pwd), count)
      n == IF left > HashLen(md) THEN HashLen(md) ELSE left
      v == Len(salt)
      B == Increment(FillBuffer(v, h), v)
  IN IF left <= HashLen(md) THEN Take(h, n)
     ELSE Take(h, n) \o Pkcs12Blocks(md, diversifier, AddBytes(salt, B, v, 0),
                                     AddBytes(pwd, B, v, 0), count, left - n)

\* pkcs12_derivation: most is what it allows of a password or a salt.
Pkcs12Derivation(md, pwd, salt, id, count, keylen, most) ==
  LET v == HashBlock(md)
      salt_block == FillBuffer(v, salt)
      pwd_block == FillBuffer(v, pwd)
  IN IF keylen > 2 * most \/ Len(pwd) > most \/ Len(salt) > most THEN [ok |-> FALSE]
     ELSE IF NEVER \in {salt_block, pwd_block} THEN [ok |-> FALSE, hangs |-> TRUE]
     ELSE IF keylen = 0 THEN [ok |-> TRUE, key |-> <<>>]
     ELSE [ok |-> TRUE,
           key |-> Pkcs12Blocks(md, [i \in 1..v |-> id], salt_block, pwd_block, count, keylen)]

\* The password as PKCS#12 wants it: two bytes for each, and two at the end.
RECURSIVE Unicode(_)
Unicode(pwd) == IF pwd = <<>> THEN <<0, 0>> ELSE <<0, Head(pwd)>> \o Unicode(Tail(pwd))

\* pem_pbkdf1; n bytes of the IV are the salt.
PemPbkdf1(md, keylen, iv, n, pwd) ==
  LET d1 == Hash(md, pwd \o Take(iv, n))
      d2 == Hash(md, d1 \o pwd \o Take(iv, n))
  IN Take(d1 \o d2, keylen)

-----------------------------------------------------------------------------
(* TLS.  Labels are sequences of bytes like everything else.               *)

\* The loop that tls1_prf has twice and tls_prf_sha256 and tls_prf_sha384 once.
RECURSIVE PHash(_, _, _, _, _, _)
PHash(md, secret, seed, A, i, dlen) ==
  IF i >= dlen THEN <<>>
  ELSE LET h == Hmac(md, secret, A \o seed)
           k == IF i + HashLen(md) > dlen THEN dlen % HashLen(md) ELSE HashLen(md)
       IN Take(h, k) \o PHash(md, secret, seed, Hmac(md, secret, A), i + HashLen(md), dlen)

PrfSha2(md, secret, label, random, dlen) ==
  PHash(md, secret, label \o random, Hmac(md, secret, label \o random), 0, dlen)

Tls1Prf(secret, label, random, dlen) ==
  LET hs == (Len(secret) + 1) \div 2
  IN XorBytes(PrfSha2("MD5", Take(secret, hs), label, random, dlen),
              PrfSha2("SHA1", Drop(secret, Len(secret) - hs), label, random, dlen))

RECURSIVE Ssl3Blocks(_, _, _, _)
Ssl3Blocks(secret, random, i, n) ==
  IF i = n THEN <<>>
  ELSE Hash("MD5", secret \o Hash("SHA1", [j \in 1..(i + 1) |-> 65 + i] \o secret \o random))
       \o Ssl3Blocks(secret, random, i + 1, n)
Ssl3Prf(secret, random, dlen) == Ssl3Blocks(secret, random, 0, dlen \div HashLen("MD5"))

\* ssl_derive_keys: the functions of a version and a suite.
PrfOf(minor_ver, mac, secret, label, random, dlen) ==
  CASE minor_ver = 0 -> Ssl3Prf(secret, random, dlen)
    [] minor_ver \in {1, 2} -> Tls1Prf(secret, label, random, dlen)
    [] minor_ver = 3 /\ mac = "SHA384" -> PrfSha2("SHA384", secret, label, random, dlen)
    [] OTHER -> PrfSha2("SHA256", secret, label, random, dlen)

\* ssl_psk_derive_premaster
PskPremaster(other, psk) ==
  <<Len(other) \div 256, Len(other) % 256>> \o other \o <<Len(psk) \div 256, Len(psk) % 256>> \o psk

\* The cut of the key block, seen from one end: the server's own is the
\* client's other.
Cut(keyblk, client, maclen, keylen, ivlen) ==
  LET At(from, n) == SubSeq(keyblk, from + 1, from + n)
      ofClient == [mac |-> At(0, maclen), key |-> At(2 * maclen, keylen),
                   iv |-> At(2 * maclen + 2 * keylen, ivlen)]
      ofServer == [mac |-> At(maclen, maclen), key |-> At(2 * maclen + keylen, keylen),
                   iv |-> At(2 * maclen + 2 * keylen + ivlen, ivlen)]
      own == IF client THEN ofClient ELSE ofServer
      other == IF client THEN ofServer ELSE ofClient
  IN [mac_enc |-> own.mac, mac_dec |-> other.mac, key_enc |-> own.key,
      key_dec |-> other.key, iv_enc |-> own.iv, iv_dec |-> other.iv]

\* calc_verify and calc_finished, on the handshake messages so far.
Ssl3Pads(md, inner, master) ==
  LET n == IF md = "MD5" THEN 48 ELSE 40
      Pad(byte) == [i \in 1..n |-> byte]
  IN Hash(md, master \o Pad(92) \o Hash(md, inner \o master \o Pad(54)))
CalcVerify(minor_ver, mac, messages, master) ==
  CASE minor_ver = 0 -> Ssl3Pads("MD5", messages, master) \o Ssl3Pads("SHA1", messages, master)
    [] minor_ver \in {1, 2} -> Hash("MD5", messages) \o Hash("SHA1", messages)
    [] minor_ver = 3 /\ mac = "SHA384" -> Hash("SHA384", messages)
    [] OTHER -> Hash("SHA256", messages)
CalcFinished(minor_ver, mac, messages, master, sender, len) ==
  CASE minor_ver = 0 -> Ssl3Pads("MD5", messages \o sender, master)
                        \o Ssl3Pads("SHA1", messages \o sender, master)
    [] OTHER -> PrfOf(minor_ver, mac, master, sender,
                      CalcVerify(minor_ver, mac, messages, master), len)
=============================================================================
