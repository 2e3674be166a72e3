-------------------------------- MODULE Ecp --------------------------------
(***************************************************************************)
(* The curves of ecp.c: points in Jacobian coordinates, multiplication     *)
(* with a comb whose digits are all odd, the ladder of the Montgomery      *)
(* curves, keys and the bytes of a point.  The field is the integers       *)
(* modulo a small prime: the macros that bring a result back into it are   *)
(* %, and EcpCurves says that ecp_modp agrees with it.  A comb digit is    *)
(* the set of its teeth.  A call that returns an error is None.            *)
(*                                                                         *)
(* A group is a record of p, a, b, g, n and minus3 (A is not stored), with *)
(* montgomery TRUE for the curves that keep x and z only.                  *)
(***************************************************************************)
EXTENDS Integers, Sequences, FiniteSets

LOCAL SX == INSTANCE SequencesExt

None == [X |-> -1, Y |-> -1, Z |-> -1]
Zero == [X |-> 1, Y |-> 1, Z |-> 0]              \* ecp_set_zero
Affine(x, y) == [X |-> x, Y |-> y, Z |-> 1]

BitOf(m, i) == (m \div 2^i) % 2                  \* mpi_get_bit
Bits(m) == SX!Max({0} \cup {i + 1 : i \in {j \in 0..30 : m \div 2^j > 0}})

\* mpi_inv_mod: nothing inverts 0.
Inverses(grp, x) == {i \in 1..(grp.p - 1) : (i * x) % grp.p = 1}
Inv(grp, x) == CHOOSE i \in Inverses(grp, x) : TRUE

-----------------------------------------------------------------------------
(* Jacobian coordinates                                                    *)

Scaled(grp, pt, zi) ==
  LET zz == (zi * zi) % grp.p
  IN Affine((pt.X * zz) % grp.p, (((pt.Y * zz) % grp.p) * zi) % grp.p)

\* ecp_normalize_jac
Normalize(grp, pt) == IF pt.Z = 0 THEN pt ELSE Scaled(grp, pt, Inv(grp, pt.Z))

\* ecp_normalize_jac_many: one inversion for all, which fails if one is zero.
NormalizeMany(grp, pts) ==
  LET k == Len(pts)
      c[i \in 1..k] == IF i = 1 THEN pts[1].Z ELSE (c[i - 1] * pts[i].Z) % grp.p
      all == Inv(grp, c[k])
      u[i \in 1..k] == IF i = k THEN all ELSE (u[i + 1] * pts[i + 1].Z) % grp.p
      zi(i) == IF i = 1 THEN u[1] ELSE (u[i] * c[i - 1]) % grp.p
  IN IF k < 2 THEN <<>> \o [i \in 1..k |-> Normalize(grp, pts[i])]
     ELSE IF c[k] = 0 THEN <<>> \o [i \in 1..k |-> None]
     ELSE <<>> \o [i \in 1..k |-> Scaled(grp, pts[i], zi(i))]

\* ecp_safe_invert_jac
Invert(grp, q, inv) == IF inv /\ q.Y # 0 THEN [q EXCEPT !.Y = grp.p - @] ELSE q

\* ecp_double_jac
Double(grp, pt) ==
  LET p == grp.p
      xx == (pt.X * pt.X) % p
      yy == (pt.Y * pt.Y) % p
      yyyy == (yy * yy) % p
      s == (2 * ((pt.X + yy) * (pt.X + yy) - yyyy - xx)) % p
      zz == (pt.Z * pt.Z) % p
      z4 == (zz * zz) % p
      m == (3 * xx + (IF grp.minus3 THEN -3 * z4 ELSE z4 * grp.a)) % p
      x == (m * m - 2 * s) % p
  IN [X |-> x, Y |-> (m * (s - x) - 8 * yyyy) % p,
      Z |-> ((pt.Y + pt.Z) * (pt.Y + pt.Z) - yy - zz) % p]

\* ecp_add_mixed: q is affine.
AddMixed(grp, pt, q) ==
  LET p == grp.p
      zz == (pt.Z * pt.Z) % p
      h == (zz * q.X - pt.X) % p
      r == (((zz * pt.Z) % p) * q.Y - pt.Y) % p
      hh == (h * h) % p
      hhh == (hh * h) % p
      v == (hh * pt.X) % p
      x == (r * r - 2 * v - hhh) % p
  IN IF pt.Z = 0 THEN q
     ELSE IF q.Z = 0 THEN pt
     ELSE IF q.Z # 1 THEN None
     ELSE IF h = 0 /\ r = 0 THEN Double(grp, pt)
     ELSE IF h = 0 THEN Zero
     ELSE [X |-> x, Y |-> (r * (v - x) - hhh * pt.Y) % p, Z |-> (pt.Z * h) % p]

\* ecp_add and ecp_sub
Add(grp, pt, q) ==
  IF grp.montgomery THEN None
  ELSE LET r == AddMixed(grp, pt, q) IN IF r = None THEN None ELSE Normalize(grp, r)
Subtract(grp, pt, q) ==
  IF grp.montgomery THEN None
  ELSE LET r == AddMixed(grp, pt, Invert(grp, q, TRUE))
       IN IF r = None THEN None ELSE Normalize(grp, r)

\* ecp_randomize_jac, with the factor that was drawn
Randomize(grp, pt, l) ==
  [X |-> (((l * l) % grp.p) * pt.X) % grp.p,
   Y |-> (((((l * l) % grp.p) * l) % grp.p) * pt.Y) % grp.p, Z |-> (l * pt.Z) % grp.p]

-----------------------------------------------------------------------------
(* The comb                                                                *)

\* Mutant of CombFixed: the carry into the next digit is dropped.
CombFixedNoCarry(m, w, d) ==
  LET raw == [i \in 0..d |-> IF i = d THEN {}
                ELSE {j \in 0..(w - 1) : BitOf(m, i + d * j) = 1}]
      RECURSIVE Fix(_, _, _, _)
      Fix(x, neg, c, i) ==
        IF i > d THEN [teeth |-> x, neg |-> neg]
        ELSE LET y == (x[i] \cup c) \ (x[i] \cap c)
                 even == 0 \notin y
                 z == IF even THEN x[i - 1] ELSE {}
             IN Fix([x EXCEPT ![i] = (y \cup z) \ (y \cap z)],
                    IF even THEN neg \cup {i - 1} ELSE neg, x[i] \cap c, i + 1)
  IN Fix(raw, {}, {}, 1)

\* ecp_comb_fixed: digits that are odd from the second on, those in neg to be
\* taken with a minus.
CombFixed(m, w, d) ==
  LET raw == [i \in 0..d |-> IF i = d THEN {}
                ELSE {j \in 0..(w - 1) : BitOf(m, i + d * j) = 1}]
      RECURSIVE Fix(_, _, _, _)
      Fix(x, neg, c, i) ==
        IF i > d THEN [teeth |-> x, neg |-> neg]
        ELSE LET y == (x[i] \cup c) \ (x[i] \cap c)
                 even == 0 \notin y
                 z == IF even THEN x[i - 1] ELSE {}
             IN Fix([x EXCEPT ![i] = (y \cup z) \ (y \cap z)],
                    IF even THEN neg \cup {i - 1} ELSE neg,
                    (x[i] \cap c) \cup (y \cap z), i + 1)
  IN Fix(raw, {}, {}, 1)

\* ecp_precompute_comb: the i-th point is the sum of 2^(d * l) times pt over the
\* bits l of 2 * i - 1.
Precompute(grp, pt, w, d) ==
  LET RECURSIVE Doubled(_, _)
      Doubled(q, times) == IF times = 0 THEN q ELSE Doubled(Double(grp, q), times - 1)
      RECURSIVE Powers(_, _)
      Powers(q, l) == IF l = w THEN <<>>
                      ELSE LET r == Doubled(q, d) IN <<r>> \o Powers(r, l + 1)
      tooth == NormalizeMany(grp, Powers(pt, 1))
      RECURSIVE Sums(_, _)
      Sums(t, l) == IF l = w THEN t
                    ELSE Sums(t \o [i \in 1..Len(t) |-> AddMixed(grp, t[i], tooth[l])], l + 1)
  IN <<pt>> \o NormalizeMany(grp, Tail(Sums(<<pt>>, 1)))

\* ecp_select_comb
Select(grp, table, teeth, neg) ==
  LET index == SX!FoldSet(LAMBDA j, s : s + 2^j, 0, teeth)
  IN Invert(grp, table[index \div 2 + 1], neg)

\* ecp_mul_comb_core, with the factor that hides the first point
MulCombCore(grp, table, x, d, l) ==
  LET Digit(i) == Select(grp, table, x.teeth[i], i \in x.neg)
      r[i \in 0..d] ==
        IF i = d THEN Randomize(grp, Digit(d), l)
        ELSE AddMixed(grp, Double(grp, r[i + 1]), Digit(i))
  IN r[0]

\* The teeth of the comb: one more for the base point.
WINDOW_SIZE == 6
Teeth(grp, pt) ==
  LET w == (IF Bits(grp.n) >= 384 THEN 5 ELSE 4)
             + (IF pt.X = grp.g.X /\ pt.Y = grp.g.Y THEN 1 ELSE 0)
      capped == IF w > WINDOW_SIZE THEN WINDOW_SIZE ELSE w
  IN IF capped >= Bits(grp.n) THEN 2 ELSE capped

\* ecp_mul_comb: an even factor is taken from the order.
MulComb(grp, m, pt, l) ==
  LET w == Teeth(grp, pt)
      d == (Bits(grp.n) + w - 1) \div w
      table == Precompute(grp, pt, w, d)
      even == m % 2 = 0
      r == MulCombCore(grp, table, CombFixed(IF even THEN grp.n - m ELSE m, w, d), d, l)
  IN IF grp.n % 2 = 0 \/ \E i \in DOMAIN table : table[i] = None THEN None
     ELSE Normalize(grp, Invert(grp, r, even))

-----------------------------------------------------------------------------
(* The ladder                                                              *)

\* ecp_double_add_mxz: <<2 P, P + Q>> when d is the x of P - Q; the product
\* with d is too long for ecp_modp when d is.
DoubleAdd(grp, pt, q, d) ==
  LET p == grp.p
      a == (pt.X + pt.Z) % p
      aa == (a * a) % p
      b == (pt.X - pt.Z) % p
      bb == (b * b) % p
      e == (aa - bb) % p
      da == ((q.X - q.Z) * a) % p
      cb == ((q.X + q.Z) * b) % p
      sz == ((da - cb) * (da - cb)) % p
  IN [failed |-> Bits(d * sz) > 2 * Bits(p),
      r |-> [X |-> (aa * bb) % p, Y |-> 0, Z |-> (e * (bb + grp.a * e)) % p],
      s |-> [X |-> ((da + cb) * (da + cb)) % p, Y |-> 0, Z |-> (d * sz) % p]]

\* ecp_mul_mxz, with ecp_randomize_mxz and ecp_normalize_mxz
MulMxz(grp, m, pt, l) ==
  LET rp == [X |-> ((pt.X % grp.p) * l) % grp.p, Y |-> 0, Z |-> l]
      RECURSIVE Ladder(_, _, _)
      Ladder(r, s, i) ==
        LET st == IF BitOf(m, i) = 1 THEN DoubleAdd(grp, s, r, pt.X)
                                     ELSE DoubleAdd(grp, r, s, pt.X)
        IN IF i < 0 THEN r
           ELSE IF st.failed THEN None
           ELSE IF BitOf(m, i) = 1 THEN Ladder(st.s, st.r, i - 1)
           ELSE Ladder(st.r, st.s, i - 1)
      r == Ladder([X |-> 1, Y |-> 0, Z |-> 0], rp, Bits(m) - 1)
  IN IF r = None \/ r.Z = 0 THEN None
     ELSE [X |-> (r.X * Inv(grp, r.Z)) % grp.p, Y |-> 0, Z |-> 1]

-----------------------------------------------------------------------------
(* Keys                                                                    *)

\* ecp_check_pubkey_sw
OnCurve(grp, pt) ==
  /\ pt.X \in 0..(grp.p - 1) /\ pt.Y \in 0..(grp.p - 1)
  /\ (pt.Y * pt.Y) % grp.p
       = (((pt.X * pt.X + (IF grp.minus3 THEN -3 ELSE grp.a)) % grp.p) * pt.X + grp.b) % grp.p

\* ecp_check_pubkey, with ecp_check_pubkey_mx
CheckPubkey(grp, pt) ==
  pt.Z = 1 /\ IF grp.montgomery THEN Bits(pt.X) <= Bits(grp.p) + 1 ELSE OnCurve(grp, pt)

\* ecp_check_privkey
CheckPrivkey(grp, d) ==
  IF grp.montgomery THEN d % 8 = 0 /\ Bits(d) = grp.nbits + 1
  ELSE d \in 1..(grp.n - 1)

\* ecp_mul
Mul(grp, m, pt, l) ==
  IF ~CheckPubkey(grp, pt) \/ ~CheckPrivkey(grp, m) THEN None
  ELSE IF grp.montgomery THEN MulMxz(grp, m, pt, l) ELSE MulComb(grp, m, pt, l)

\* The private key of ecp_gen_keypair, from draws of bits bits; 0 for an error.
PrivateKey(grp, draws, bits) ==
  LET cut(i) == draws[i] \div 2^(bits - Bits(grp.n))
      fit == {i \in 1..SX!Min({30, Len(draws)}) : cut(i) \in 1..(grp.n - 1)}
      b == Bits(draws[1]) - 1
      d == IF b > grp.nbits THEN draws[1] \div 2^(b - grp.nbits)
           ELSE draws[1] + (1 - BitOf(draws[1], grp.nbits)) * 2^grp.nbits
  IN IF grp.montgomery THEN (IF draws[1] = 0 THEN 0 ELSE (d \div 8) * 8)
     ELSE IF fit = {} THEN 0 ELSE cut(SX!Min(fit))

-----------------------------------------------------------------------------
(* The bytes of a point.  A coordinate is one byte; an error is <<>>.      *)

UNCOMPRESSED == 4
COMPRESSED == 2

\* ecp_point_write_binary
PointWriteBinary(grp, pt, format, buflen) ==
  LET out == IF pt.Z = 0 THEN <<0>>
             ELSE IF format = UNCOMPRESSED THEN <<4, pt.X, pt.Y>>
             ELSE <<2 + BitOf(pt.Y, 0), pt.X>>
  IN IF format \notin {UNCOMPRESSED, COMPRESSED} \/ buflen < Len(out) THEN <<>> ELSE out

\* ecp_point_read_binary
PointReadBinary(buf) ==
  IF buf = <<0>> THEN Zero
  ELSE IF Len(buf) = 3 /\ buf[1] = 4 THEN Affine(buf[2], buf[3]) ELSE None

\* ecp_tls_write_point
TlsWritePoint(grp, pt, format, blen) ==
  LET out == PointWriteBinary(grp, pt, format, blen - 1)
  IN IF blen < 1 \/ out = <<>> THEN <<>> ELSE <<Len(out)>> \o out

\* ecp_tls_read_point: the point, and what follows it.
TlsReadPoint(buf) ==
  IF Len(buf) < 2 \/ buf[1] \notin 1..(Len(buf) - 1) THEN [pt |-> None, rest |-> buf]
  ELSE [pt |-> PointReadBinary(SubSeq(buf, 2, 1 + buf[1])),
        rest |-> SubSeq(buf, 2 + buf[1], Len(buf))]

\* ecp_supported_curves, by the TLS identifiers
SupportedCurves == <<25, 28, 24, 27, 23, 26, 22, 21, 20, 19, 18>>

\* ecp_tls_read_group and ecp_tls_write_group: the curve by its place, 0 for none.
TlsReadGroup(buf) ==
  IF Len(buf) < 3 \/ buf[1] # 3 THEN 0
  ELSE SX!Max({0} \cup {i \in DOMAIN SupportedCurves :
                          SupportedCurves[i] = buf[2] * 256 + buf[3]})
TlsWriteGroup(i, blen) ==
  IF blen < 3 THEN <<>>
  ELSE <<3, SupportedCurves[i] \div 256, SupportedCurves[i] % 256>>
=============================================================================
