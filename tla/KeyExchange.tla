----------------------------- MODULE KeyExchange -----------------------------
(***************************************************************************)
(* What two parties make of the field and of the curves: the key exchange  *)
(* of dhm.c and of ecdh.c, and the signatures of ecdsa.c.  Numbers are     *)
(* integers, and as bytes they have no zeros in front.  Random numbers are *)
(* given as draws.  A call that fails is Bad.                              *)
(***************************************************************************)
EXTENDS Ecp

LOCAL EN == INSTANCE Encoding
LOCAL SX == INSTANCE SequencesExt

Bad == EN!Bad
Bytes(n) == EN!Significant(<<n \div 256, n % 256>>)
Number(bytes) == EN!Count(bytes)
RECURSIVE Power(_, _, _)
Power(a, e, n) == IF e = 0 THEN 1 % n
                  ELSE LET h == Power((a * a) % n, e \div 2, n)
                       IN IF e % 2 = 1 THEN (h * a) % n ELSE h
InvMod(a, n) == CHOOSE i \in 1..n : (i * a) % n = 1 % n

-----------------------------------------------------------------------------
(* dhm.c.  A context is a record; X and the rest are 0 before they are set. *)

FAILED == -1      \* a draw that the generator did not give

NewDhm(p, g) == [P |-> p, G |-> g, X |-> 0, GX |-> 0, GY |-> 0,
                 pX |-> 0, Vi |-> 0, Vf |-> 0]

\* dhm_read_bignum
ReadBignum(s) ==
  LET n == EN!Count(EN!Take(s, 2))
      rest == EN!Drop(s, 2)
  IN IF Len(s) < 2 THEN Bad
     ELSE IF Len(rest) < n THEN Bad
     ELSE [ok |-> TRUE, val |-> Number(EN!Take(rest, n)), rest |-> EN!Drop(rest, n)]

WriteBignum(n) == <<0, Len(Bytes(n))>> \o Bytes(n)

\* dhm_check_range
InRange(x, p) == x \in 2..(p - 2)

\* dhm_read_params
ReadParams(ctx, s) ==
  LET p == ReadBignum(s)
      g == ReadBignum(p.rest)
      gy == ReadBignum(g.rest)
  IN IF ~p.ok THEN Bad
     ELSE IF ~g.ok THEN Bad
     ELSE IF ~gy.ok THEN Bad
     ELSE IF ~InRange(gy.val, p.val) THEN Bad
     ELSE [ok |-> TRUE, rest |-> gy.rest,
           ctx |-> [ctx EXCEPT !.P = p.val, !.G = g.val, !.GY = gy.val]]

RECURSIVE Below(_, _)
Below(x, p) == IF x >= p THEN Below(x \div 2, p) ELSE x

\* The loop that dhm_make_params and dhm_make_public share.  What the
\* generator answers is not looked at: without a number X stays as it was.
RECURSIVE PrivateValue(_, _, _, _)
PrivateValue(x, p, draws, count) ==
  LET next == Below(IF draws[1] = FAILED THEN x ELSE draws[1], p)
  IN IF draws = <<>> \/ count > 10 THEN Bad
     ELSE IF InRange(next, p) THEN [ok |-> TRUE, x |-> next]
     ELSE PrivateValue(next, p, Tail(draws), count + 1)

\* dhm_make_public
MakePublic(ctx, draws) ==
  LET x == PrivateValue(ctx.X, ctx.P, draws, 0)
      gx == Power(ctx.G % ctx.P, x.x, ctx.P)
  IN IF ctx.P = 0 THEN Bad
     ELSE IF ~x.ok THEN Bad
     ELSE IF ~InRange(gx, ctx.P) THEN Bad
     ELSE [ok |-> TRUE, ctx |-> [ctx EXCEPT !.X = x.x, !.GX = gx], out |-> Bytes(gx)]

\* dhm_make_params: the same, and all three numbers are written.
MakeParams(ctx, draws) ==
  LET r == MakePublic(ctx, draws)
  IN IF ~r.ok THEN Bad
     ELSE [r EXCEPT !.out = WriteBignum(ctx.P) \o WriteBignum(ctx.G) \o WriteBignum(r.ctx.GX)]

\* dhm_read_public: how great the number is shows only in dhm_calc_secret.
ReadPublic(ctx, input) ==
  IF Len(input) \notin 1..Len(Bytes(ctx.P)) THEN Bad
  ELSE [ok |-> TRUE, ctx |-> [ctx EXCEPT !.GY = Number(input)]]

\* Mutant of UpdateBlinding: values that were used for another X are kept.
UpdateBlindingKept(ctx, draws) ==
  LET fits == {i \in 1..SX!Min({11, Len(draws)}) : Below(draws[i], ctx.P) > 1}
      vi == Below(draws[SX!Min(fits)], ctx.P)
      last == Below(draws[SX!Min({11, Len(draws)})], ctx.P)
  IN IF ctx.pX # ctx.X /\ ctx.Vi \in {0, 1}
     THEN [ok |-> TRUE, ctx |-> [ctx EXCEPT !.pX = ctx.X, !.Vi = 1, !.Vf = 1]]
     ELSE IF ctx.Vi # 1
     THEN [ok |-> TRUE, ctx |-> [ctx EXCEPT !.Vi = (@ * @) % ctx.P, !.Vf = (@ * @) % ctx.P]]
     ELSE IF fits = {} THEN [ok |-> FALSE, ctx |-> [ctx EXCEPT !.Vi = last]]
     ELSE [ok |-> TRUE,
           ctx |-> [ctx EXCEPT !.Vi = vi, !.Vf = Power(InvMod(vi, ctx.P), ctx.X, ctx.P)]]

\* dhm_update_blinding: none for the first use of an X, then values that are
\* squared from one use to the next.  (A generator that fails leaves Vi at 1.)
UpdateBlinding(ctx, draws) ==
  LET fits == {i \in 1..SX!Min({11, Len(draws)}) : Below(draws[i], ctx.P) > 1}
      vi == Below(draws[SX!Min(fits)], ctx.P)
      last == Below(draws[SX!Min({11, Len(draws)})], ctx.P)
  IN IF ctx.pX # ctx.X
     THEN [ok |-> TRUE, ctx |-> [ctx EXCEPT !.pX = ctx.X, !.Vi = 1, !.Vf = 1]]
     ELSE IF ctx.Vi # 1
     THEN [ok |-> TRUE, ctx |-> [ctx EXCEPT !.Vi = (@ * @) % ctx.P, !.Vf = (@ * @) % ctx.P]]
     ELSE IF fits = {} THEN [ok |-> FALSE, ctx |-> [ctx EXCEPT !.Vi = last]]
     ELSE [ok |-> TRUE,
           ctx |-> [ctx EXCEPT !.Vi = vi, !.Vf = Power(InvMod(vi, ctx.P), ctx.X, ctx.P)]]

\* dhm_calc_secret
CalcSecret(ctx, draws) ==
  LET u == UpdateBlinding(ctx, draws)
      c == u.ctx
      k == (Power((c.GY * c.Vi) % c.P, c.X, c.P) * c.Vf) % c.P
  IN IF ~InRange(ctx.GY, ctx.P) THEN [ok |-> FALSE, ctx |-> ctx]
     ELSE IF ~u.ok THEN u
     ELSE [ok |-> TRUE, ctx |-> c, out |-> Bytes(k)]

\* dhm_parse_dhm, of DER
ParseDhm(s) ==
  LET seq == EN!GetBody(s, EN!SEQUENCE)
      p == EN!GetMpi(seq.val)
      g == EN!GetMpi(p.rest)
  IN IF ~seq.ok THEN Bad
     ELSE IF ~p.ok THEN Bad
     ELSE IF ~g.ok THEN Bad
     ELSE IF g.rest # <<>> THEN Bad
     ELSE [ok |-> TRUE, ctx |-> NewDhm(Number(p.val), Number(g.val))]

-----------------------------------------------------------------------------
(* ecdh.c.  l is the factor that hides a point in ecp_mul.                 *)

\* ecp_gen_keypair, ecdh_gen_public
GenKeypair(grp, draws, bits, l) ==
  LET d == PrivateKey(grp, draws, bits)
      q == Mul(grp, d, grp.g, l)
  IN IF d = 0 THEN Bad
     ELSE IF q = None THEN Bad ELSE [ok |-> TRUE, d |-> d, Q |-> q]

\* ecdh_compute_shared; 0 is an error
ComputeShared(grp, q, d, l) ==
  LET p == Mul(grp, d, q, l)
  IN IF ~CheckPubkey(grp, q) THEN Bad
     ELSE IF p = None THEN Bad
     ELSE IF p.Z = 0 THEN Bad ELSE [ok |-> TRUE, z |-> p.X]

\* ecdh_make_params and ecdh_make_public: a key, and what the peer is sent.
EcdhMakeParams(grp, i, key, format, blen) ==
  LET g == TlsWriteGroup(i, blen)
      pt == TlsWritePoint(grp, key.Q, format, blen - 3)
  IN IF g = <<>> \/ pt = <<>> THEN Bad ELSE [ok |-> TRUE, out |-> g \o pt]
EcdhMakePublic(grp, key, format, blen) ==
  LET pt == TlsWritePoint(grp, key.Q, format, blen)
  IN IF pt = <<>> THEN Bad ELSE [ok |-> TRUE, out |-> pt]

\* ecdh_read_params: the curve, the point, and what follows.
EcdhReadParams(buf) ==
  LET i == TlsReadGroup(buf)
      p == TlsReadPoint(EN!Drop(buf, 3))
  IN IF i = 0 THEN Bad
     ELSE IF p.pt = None THEN Bad ELSE [ok |-> TRUE, i |-> i, Qp |-> p.pt, rest |-> p.rest]

\* ecdh_read_public: nothing may follow the point.
EcdhReadPublic(buf) ==
  LET p == TlsReadPoint(buf)
  IN IF p.pt = None \/ p.rest # <<>> THEN Bad ELSE [ok |-> TRUE, Qp |-> p.pt]

\* ecdh_calc_secret: as many bytes as the field has.
EcdhCalcSecret(grp, qp, d, blen, l) ==
  LET s == ComputeShared(grp, qp, d, l)
  IN IF ~s.ok THEN Bad
     ELSE IF Len(Bytes(s.z)) > blen THEN Bad
     ELSE [ok |-> TRUE, out |-> [i \in 1..((Bits(grp.p) + 7) \div 8) |-> s.z]]

-----------------------------------------------------------------------------
(* ecdsa.c, over groups of an order of at most a byte                      *)

\* derive_mpi: the leftmost bits of the hash, reduced once.
DeriveMpi(grp, buf) ==
  LET size == (Bits(grp.n) + 7) \div 8
      use == IF Len(buf) > size THEN size ELSE Len(buf)
      x == Number(EN!Take(buf, use)) \div (IF use * 8 > Bits(grp.n)
                                             THEN 2^(use * 8 - Bits(grp.n)) ELSE 1)
  IN IF x >= grp.n THEN x - grp.n ELSE x

\* ecdsa_sign: keys and blinding factors are drawn until they serve, eleven
\* keys and thirty factors at most.
EcdsaSign(grp, d, buf, ks, ts, l) ==
  LET n == grp.n
      e == DeriveMpi(grp, buf)
      t(i) == ts[i] \div 2^(8 * ((Bits(n) + 7) \div 8) - Bits(n))
      good == {i \in 1..SX!Min({30, Len(ts)}) : t(i) \in 1..(n - 1)}
      blind == t(SX!Min(good))
      RECURSIVE Try(_)
      Try(i) ==
        LET r == Mul(grp, ks[i], grp.g, l).X % n
            s == (InvMod((ks[i] * blind) % n, n) * ((((e + r * d) % n) * blind) % n)) % n
        IN IF i > SX!Min({11, Len(ks)}) THEN Bad
           ELSE IF r = 0 \/ s = 0 THEN Try(i + 1) ELSE [ok |-> TRUE, r |-> r, s |-> s]
  IN IF grp.montgomery \/ good = {} THEN Bad ELSE Try(1)

\* ecdsa_verify.  A hash that is 0 modulo the order gives ecp_mul a factor it
\* does not take, and no signature of it is accepted.
EcdsaVerify(grp, buf, q, r, s) ==
  LET n == grp.n
      inv == InvMod(s, n)
      u1 == Mul(grp, (DeriveMpi(grp, buf) * inv) % n, grp.g, 1)
      u2 == Mul(grp, (r * inv) % n, q, 1)
      sum == Add(grp, u1, u2)
  IN /\ ~grp.montgomery
     /\ r \in 1..(n - 1) /\ s \in 1..(n - 1)
     /\ CheckPubkey(grp, q)
     /\ u1 # None /\ u2 # None /\ sum # None
     /\ sum.Z # 0
     /\ sum.X % n = r

\* ecdsa_signature_to_asn1
SignatureToAsn1(r, s) ==
  LET second == EN!WriteMpi(Bytes(s), <<>>)
  IN EN!Tagged(EN!SEQUENCE, EN!WriteMpi(Bytes(r), second) \o second)

\* ecdsa_read_signature: more after the two numbers is an error of its own.
ReadSignature(grp, buf, q, sig) ==
  LET seq == EN!GetBody(sig, EN!SEQUENCE)
      r == EN!GetMpi(seq.val)
      s == EN!GetMpi(r.rest)
  IN IF ~seq.ok THEN "bad"
     ELSE IF seq.rest # <<>> THEN "bad"
     ELSE IF ~r.ok THEN "bad"
     ELSE IF ~s.ok THEN "bad"
     ELSE IF ~EcdsaVerify(grp, buf, q, Number(r.val), Number(s.val)) THEN "bad"
     ELSE IF s.rest # <<>> THEN "longer" ELSE "ok"
=============================================================================
