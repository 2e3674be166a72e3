-------------------------------- MODULE Rsa --------------------------------
(***************************************************************************)
(* RSA as rsa.c does it: keys and their checks, the two operations on      *)
(* numbers, the second with blinding and the remainder theorem, and the    *)
(* four paddings of PKCS#1.  Numbers are integers, Bignum being what       *)
(* makes them; a byte is scaled to ByteBits bits, so that all blocks of a  *)
(* small key can be looked at.  A call that fails is Bad.                  *)
(***************************************************************************)
EXTENDS Encoding, FiniteSets

CONSTANTS
  ByteBits,      \* bits of a byte (8)
  PadLeast,      \* least bytes of a padding of version 1.5 (8)
  MinBits,       \* least bits of a modulus (128)
  MaxBits,       \* POLARSSL_MPI_MAX_BITS
  MdOids,        \* the identifiers of the digests; NONE is in no domain
  Hash(_, _)     \* md: the digest of a message

LOCAL BX == INSTANCE Bitwise
LOCAL SX == INSTANCE SequencesExt

NONE == 0
ByteVal == 2^ByteBits
FF == ByteVal - 1
SIGN == 1
CRYPT == 2
TRAILER == 188 \div 2^(8 - ByteBits)         \* 0xBC
MinLen == MinBits \div ByteBits              \* 16, as decryption asks for it
HashLen(alg) == Len(Hash(alg, <<>>))
Known(alg) == alg \in DOMAIN MdOids          \* md_info_from_type
Zeros(n) == [i \in 1..n |-> 0]

Msb(n) == SX!Max({0} \cup {i + 1 : i \in {j \in 0..30 : n \div 2^j > 0}})
RECURSIVE Divisor(_, _)
Divisor(a, b) == IF b = 0 THEN a ELSE Divisor(b, a % b)
Inverse(a, n) == CHOOSE i \in 1..n : (i * a) % n = 1 % n
RECURSIVE Power(_, _, _)
Power(a, e, n) == IF e = 0 THEN 1 % n
                  ELSE LET h == Power((a * a) % n, e \div 2, n)
                       IN IF e % 2 = 1 THEN (h * a) % n ELSE h

\* mpi_read_binary and mpi_write_binary
Number(bytes) == SX!FoldLeft(LAMBDA n, b : n * ByteVal + b, 0, bytes)
Bytes(n, len) == [i \in 1..len |-> (n \div ByteVal^(len - i)) % ByteVal]

-----------------------------------------------------------------------------
(* Keys                                                                    *)

\* The key that rsa_gen_key makes of two primes that fit.
KeyOf(p, q, e) ==
  LET h == (p - 1) * (q - 1)
      d == Inverse(e, h)
  IN [N |-> p * q, E |-> e, P |-> p, Q |-> q, D |-> d,
      DP |-> d % (p - 1), DQ |-> d % (q - 1), QP |-> Inverse(q, p),
      len |-> (Msb(p * q) + ByteBits - 1) \div ByteBits,
      padding |-> "V15", hash_id |-> NONE]

\* rsa_gen_key, from pairs of primes that were drawn: the first that fits.
GenKey(pairs, nbits, e) ==
  LET fits == {i \in DOMAIN pairs :
                 LET p == pairs[i][1] q == pairs[i][2]
                 IN p # q /\ Msb(p * q) = nbits /\ Divisor(e, (p - 1) * (q - 1)) = 1}
      pair == pairs[SX!Min(fits)]
      p == SX!Max({pair[1], pair[2]})
      q == SX!Min({pair[1], pair[2]})
  IN IF nbits < MinBits \/ e < 3 \/ fits = {} THEN Bad
     ELSE [ok |-> TRUE, key |-> KeyOf(p, q, e)]

\* rsa_check_pubkey
CheckPubkey(key) ==
  /\ key.N % 2 = 1 /\ key.E % 2 = 1
  /\ Msb(key.N) \in MinBits..MaxBits
  /\ Msb(key.E) >= 2 /\ key.E < key.N

\* rsa_check_privkey
CheckPrivkey(key) ==
  LET h == (key.P - 1) * (key.Q - 1)
      g2 == Divisor(key.P - 1, key.Q - 1)
  IN /\ CheckPubkey(key)
     /\ key.P * key.Q = key.N
     /\ key.D % (key.P - 1) = key.DP /\ key.D % (key.Q - 1) = key.DQ
     /\ Divisor(key.Q, key.P) = 1 /\ Inverse(key.Q, key.P) = key.QP
     /\ h % g2 = 0 /\ (key.D * key.E) % (h \div g2) = 1
     /\ Divisor(key.E, h) = 1

-----------------------------------------------------------------------------
(* The operations.  Blinding values stay in the context; vf is -1 before   *)
(* there are any.  The random numbers are given as draws.                  *)

NoBlinding == [vi |-> 0, vf |-> -1]

\* rsa_public
Public(key, input) ==
  IF Number(input) >= key.N THEN Bad
  ELSE [ok |-> TRUE, out |-> Bytes(Power(Number(input), key.E, key.N), key.len)]

\* rsa_prepare_blinding: values that are there are squared; up to eleven
\* draws, and one that failed stays in the context.
PrepareBlinding(key, b, draws) ==
  LET tries == SX!Min({11, Len(draws)})
      usable == {i \in 1..tries : Divisor(draws[i], key.N) = 1}
      vf == draws[SX!Min(usable)]
  IN IF b.vf # -1
     THEN [ok |-> TRUE, b |-> [vi |-> (b.vi * b.vi) % key.N, vf |-> (b.vf * b.vf) % key.N]]
     ELSE IF tries = 0 THEN [ok |-> FALSE, b |-> b]
     ELSE IF usable = {}
     THEN [ok |-> FALSE, b |-> [vi |-> Divisor(draws[tries], key.N), vf |-> draws[tries]]]
     ELSE [ok |-> TRUE, b |-> [vi |-> Power(Inverse(vf, key.N), key.E, key.N), vf |-> vf]]

\* rsa_private: rng is the draws, or <<>> with blind FALSE for a caller without.
Private(key, b, blind, draws, input) ==
  LET prep == IF blind THEN PrepareBlinding(key, b, draws) ELSE [ok |-> TRUE, b |-> b]
      t == IF blind THEN (Number(input) * prep.b.vi) % key.N ELSE Number(input)
      t1 == Power(t % key.P, key.DP, key.P)
      t2 == Power(t % key.Q, key.DQ, key.Q)
      crt == t2 + (((t1 - t2) * key.QP) % key.P) * key.Q
      out == IF blind THEN (crt * prep.b.vf) % key.N ELSE crt
  IN IF Number(input) >= key.N THEN [ok |-> FALSE, b |-> b]
     ELSE IF ~prep.ok THEN [ok |-> FALSE, b |-> prep.b]
     ELSE [ok |-> TRUE, b |-> prep.b, out |-> Bytes(out, key.len)]

-----------------------------------------------------------------------------
(* Blocks: what the encoders give to the operation                         *)

Xor(s, t) == [i \in DOMAIN s |-> BX!^^(s[i], t[i])]

\* mgf_mask: the digests of src and a counter, put over dst.
MgfMask(alg, dst, src) ==
  LET h == HashLen(alg)
      mask == SX!FlattenSeq([c \in 1..((Len(dst) + h - 1) \div h) |->
                               Hash(alg, src \o <<0, 0, 0, c - 1>>)])
  IN Xor(dst, mask)

\* rsa_rsaes_oaep_encrypt
OaepBlock(key, label, seed, msg) ==
  LET h == HashLen(key.hash_id)
      db == Hash(key.hash_id, label) \o Zeros(key.len - 2 * h - 2 - Len(msg)) \o <<1>> \o msg
      masked == MgfMask(key.hash_id, db, seed)
  IN IF ~Known(key.hash_id) THEN Bad
     ELSE IF key.len < Len(msg) + 2 * h + 2 THEN Bad
     ELSE [ok |-> TRUE, out |-> <<0>> \o MgfMask(key.hash_id, seed, masked) \o masked]

\* rsa_rsaes_pkcs1_v15_encrypt: pad are the random bytes, those that were zero
\* having been drawn again, a hundred times at most.
V15Block(key, mode, pad, msg) ==
  LET n == key.len - 3 - Len(msg)
  IN IF key.len < Len(msg) + 3 + PadLeast \/ (mode = "public" /\ Len(pad) # n) THEN Bad
     ELSE [ok |-> TRUE,
           out |-> (IF mode = "public" THEN <<0, CRYPT>> \o pad
                    ELSE <<0, SIGN>> \o [i \in 1..n |-> FF]) \o <<0>> \o msg]

\* The DigestInfo that rsa_rsassa_pkcs1_v15_sign writes by hand.
DigestInfo(alg, hash) ==
  LET oid == MdOids[alg]
  IN <<SEQUENCE, 8 + Len(oid) + Len(hash), SEQUENCE, 4 + Len(oid), OID, Len(oid)>>
       \o oid \o <<NULL, 0, OCTET_STRING, Len(hash)>> \o hash

\* rsa_rsassa_pkcs1_v15_sign: the length of the digest is its algorithm's.
V15SigBlock(key, alg, hash) ==
  LET info == IF alg = NONE THEN hash ELSE DigestInfo(alg, Take(hash, HashLen(alg)))
      n == key.len - 3 - Len(info)
  IN IF alg # NONE /\ ~Known(alg) THEN Bad
     ELSE IF n < PadLeast THEN Bad
     ELSE [ok |-> TRUE, out |-> <<0, SIGN>> \o [i \in 1..n |-> FF] \o <<0>> \o info]

\* The bits of the first byte that belong to a number of msb bits.
FirstBits(byte, len, msb) == byte % 2^(ByteBits - (len * ByteBits - msb))

\* rsa_rsassa_pss_sign
PssBlock(key, alg, hash, salt) ==
  LET h == HashLen(key.hash_id)
      msb == Msb(key.N) - 1
      offset == IF msb % ByteBits = 0 THEN 1 ELSE 0
      digest == Hash(key.hash_id, Zeros(8) \o hash \o salt)
      db == Zeros(key.len - 2 * h - 2) \o <<1>> \o salt
      masked == Take(db, offset) \o MgfMask(key.hash_id, Drop(db, offset), digest)
  IN IF alg # NONE /\ ~Known(alg) THEN Bad
     ELSE IF ~Known(key.hash_id) THEN Bad
     ELSE IF key.len < 2 * h + 2 THEN Bad
     ELSE [ok |-> TRUE,
           out |-> [masked EXCEPT ![1] = FirstBits(@, key.len, msb)] \o digest \o <<TRAILER>>]

-----------------------------------------------------------------------------
(* Blocks: what the decoders make of the operation's result                *)

\* rsa_rsaes_oaep_decrypt
OaepMessage(key, label, buf, room) ==
  LET h == HashLen(key.hash_id)
      seed == MgfMask(key.hash_id, SubSeq(buf, 2, 1 + h), Drop(buf, 1 + h))
      db == MgfMask(key.hash_id, Drop(buf, 1 + h), seed)
      rest == Drop(db, h)
      zeros == SX!Max({0} \cup {k \in 1..(Len(rest) - 1) : \A i \in 1..k : rest[i] = 0})
      msg == Drop(rest, zeros + 1)
  IN IF buf[1] # 0 \/ Take(db, h) # Hash(key.hash_id, label) \/ rest[zeros + 1] # 1 THEN Bad
     ELSE IF Len(msg) > room THEN Bad ELSE [ok |-> TRUE, out |-> msg]

\* rsa_rsaes_pkcs1_v15_decrypt: a padding may be shorter than one written.
V15Message(key, mode, buf, room) ==
  LET Pads(b) == IF mode = "private" THEN b # 0 ELSE b = FF
      rest == Drop(buf, 2)
      pads == SX!Max({0} \cup {k \in 1..(Len(rest) - 1) : \A i \in 1..k : Pads(rest[i])})
      msg == Drop(rest, pads + 1)
  IN IF buf[1] # 0 \/ buf[2] # (IF mode = "private" THEN CRYPT ELSE SIGN)
        \/ rest[pads + 1] # 0 THEN Bad
     ELSE IF Len(msg) > room THEN Bad ELSE [ok |-> TRUE, out |-> msg]

\* The structure that rsa_rsassa_pkcs1_v15_verify reads: no length but the
\* right one, nothing in between and nothing after.
DigestInfoOk(info, alg, hash) ==
  LET h == HashLen(alg)
      outer == GetTag(info, SEQUENCE)
      inner == GetTag(outer.rest, SEQUENCE)
      oid == GetBody(inner.rest, OID)
      null == GetTag(oid.rest, NULL)
      digest == GetTag(null.rest, OCTET_STRING)
  IN /\ Known(alg)
     /\ outer.ok /\ outer.len + 2 = Len(info)
     /\ inner.ok /\ inner.len + 6 + h = Len(info)
     /\ oid.ok /\ oid.val = MdOids[alg]
     /\ null.ok /\ digest.ok /\ digest.len = h
     /\ digest.rest = Take(hash, h)

\* rsa_rsassa_pkcs1_v15_verify
V15SigOk(key, alg, hash, buf) ==
  LET rest == Drop(buf, 2)
      pads == SX!Max({0} \cup {k \in DOMAIN rest : \A i \in 1..k : rest[i] = FF})
      info == Drop(rest, pads + 1)
  IN /\ buf[1] = 0 /\ buf[2] = SIGN
     /\ pads < Len(rest) /\ rest[pads + 1] = 0
     /\ IF Len(info) = Len(hash) /\ alg = NONE THEN info = hash
        ELSE DigestInfoOk(info, alg, hash)

\* rsa_rsassa_pss_verify_ext: the salt, or Bad.  A padding that runs on into
\* the digest makes the length of the salt wrap, and what is read then is not
\* the block any more (wild).
PssSalt(key, alg, buf) ==
  LET h == HashLen(alg)
      msb == Msb(key.N) - 1
      off == IF msb % ByteBits = 0 THEN 1 ELSE 0
      len == key.len - off
      seed == SubSeq(buf, key.len - h, key.len - 1)
      masked == Take(buf, off) \o MgfMask(alg, SubSeq(buf, off + 1, key.len - h - 1), seed)
      db == [masked EXCEPT ![1] = FirstBits(@, len, msb)] \o Drop(buf, key.len - h - 1)
      p == off + SX!Max({0} \cup {k \in 1..(len - off) : \A i \in 1..k : db[off + i] = 0})
      slen == key.len - h - 1 - (p + 1)
  IN IF buf[key.len] # TRAILER \/ buf[1] \div 2^(ByteBits - (len * ByteBits - msb)) # 0 THEN Bad
     ELSE IF p = len THEN Bad
     ELSE IF db[p + 1] # 1 THEN Bad
     ELSE IF slen < 0 THEN [ok |-> FALSE, wild |-> TRUE]
     ELSE [ok |-> TRUE, salt |-> SubSeq(db, p + 2, p + 1 + slen), digest |-> seed]

ANY == -1     \* RSA_SALT_LEN_ANY

PssOkExt(key, alg, hash, mgf1, expected, buf) ==
  LET s == PssSalt(key, mgf1, buf)
  IN /\ alg = NONE \/ Known(alg)
     /\ Known(mgf1) /\ s.ok
     /\ expected \in {ANY, Len(s.salt)}
     /\ Hash(mgf1, Zeros(8) \o hash \o s.salt) = s.digest

\* rsa_rsassa_pss_verify: the digest of the context, or that of the message.
PssOk(key, alg, hash, buf) ==
  PssOkExt(key, alg, hash, IF key.hash_id # NONE THEN key.hash_id ELSE alg, ANY, buf)

-----------------------------------------------------------------------------
(* The functions with a padding that the context chooses                   *)

\* One of the two operations; the private one keeps its blinding values in b.
Operate(key, mode, b, draws, block) ==
  IF mode = "public" THEN Public(key, block) ELSE Private(key, b, TRUE, draws, block)

\* rsa_pkcs1_encrypt: rnd is the padding or the seed
Encrypt(key, mode, b, draws, rnd, msg) ==
  LET block == CASE key.padding = "V15" -> V15Block(key, mode, rnd, msg)
                 [] key.padding = "V21" -> OaepBlock(key, <<>>, rnd, msg)
                 [] OTHER -> Bad
  IN IF ~block.ok THEN Bad ELSE Operate(key, mode, b, draws, block.out)

\* rsa_pkcs1_decrypt
Decrypt(key, mode, b, draws, input, room) ==
  LET r == Operate(key, mode, b, draws, input)
  IN IF key.len < MinLen \/ ~r.ok THEN Bad
     ELSE CASE key.padding = "V15" -> V15Message(key, mode, r.out, room)
            [] key.padding = "V21" /\ Known(key.hash_id) -> OaepMessage(key, <<>>, r.out, room)
            [] OTHER -> Bad

\* rsa_pkcs1_sign
Sign(key, mode, b, draws, alg, hash, salt) ==
  LET block == CASE key.padding = "V15" -> V15SigBlock(key, alg, hash)
                 [] key.padding = "V21" -> PssBlock(key, alg, hash, salt)
                 [] OTHER -> Bad
  IN IF ~block.ok THEN Bad ELSE Operate(key, mode, b, draws, block.out)

\* rsa_pkcs1_verify
Verify(key, mode, b, draws, alg, hash, sig) ==
  LET r == Operate(key, mode, b, draws, sig)
  IN /\ key.len >= MinLen /\ r.ok
     /\ CASE key.padding = "V15" -> V15SigOk(key, alg, hash, r.out)
          [] key.padding = "V21" -> PssOk(key, alg, hash, r.out)
          [] OTHER -> FALSE
=============================================================================
