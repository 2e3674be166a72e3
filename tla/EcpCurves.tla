----------------------------- MODULE EcpCurves -----------------------------
(***************************************************************************)
(* The reductions that ecp_curves.c gives to the named curves, and         *)
(* ecp_modp of ecp.c that calls them.  A prime of 64-bit or 32-bit chunks  *)
(* keeps its pattern of chunks with one limb to a chunk; the exponents of  *)
(* the other primes keep their remainder by a limb.                        *)
(***************************************************************************)
EXTENDS Bignum

LOCAL SE == INSTANCE SequencesExt

-----------------------------------------------------------------------------
(* Primes that are a pattern of chunks                                     *)

\* Column by column, the chunks that are added and those that are taken.
P192 == << <<<<3, 5>>, <<>>>>, <<<<3, 4, 5>>, <<>>>>, <<<<4, 5>>, <<>>>> >>

P224 == << <<<<>>, <<7, 11>>>>, <<<<>>, <<8, 12>>>>, <<<<>>, <<9, 13>>>>,
           <<<<7, 11>>, <<10>>>>, <<<<8, 12>>, <<11>>>>, <<<<9, 13>>, <<12>>>>,
           <<<<10>>, <<13>>>> >>

P256 == << <<<<8, 9>>, <<11, 12, 13, 14>>>>, <<<<9, 10>>, <<12, 13, 14, 15>>>>,
           <<<<10, 11>>, <<13, 14, 15>>>>,
           <<<<11, 11, 12, 12, 13>>, <<15, 8, 9>>>>,
           <<<<12, 12, 13, 13, 14>>, <<9, 10>>>>,
           <<<<13, 13, 14, 14, 15>>, <<10, 11>>>>,
           <<<<14, 14, 15, 15, 14, 13>>, <<8, 9>>>>,
           <<<<15, 15, 15, 8>>, <<10, 11, 12, 13>>>> >>

P384 == << <<<<12, 21, 20>>, <<23>>>>, <<<<13, 22, 23>>, <<12, 20>>>>,
           <<<<14, 23>>, <<13, 21>>>>, <<<<15, 12, 20, 21>>, <<14, 22, 23>>>>,
           <<<<21, 21, 16, 13, 12, 20, 22>>, <<15, 23, 23>>>>,
           <<<<22, 22, 17, 14, 13, 21, 23>>, <<16>>>>,
           <<<<23, 23, 18, 15, 14, 22>>, <<17>>>>,
           <<<<19, 16, 15, 23>>, <<18>>>>, <<<<20, 17, 16>>, <<19>>>>,
           <<<<21, 18, 17>>, <<20>>>>, <<<<22, 19, 18>>, <<21>>>>,
           <<<<23, 20, 19>>, <<22>>>> >>

Total(p, chunks) == SE!FoldSeq(LAMBDA j, t : At(p, j + 1) + t, 0, chunks)

\* fix_negative: what is left is taken from a limb that stands for the carry.
FixNegative(low, c) ==
  [SubAbs([s |-> 1, p |-> Grow(<<>>, Len(low)) \o <<-c>>],
          [s |-> 1, p |-> low]) EXCEPT !.s = -1]

\* The columns from the right, with a carry that may be negative (NEXT, LAST).
Columns(cols, n) ==
  LET k == Len(cols)
      a == Grow(n.p, 2 * k)
      col[i \in 0..k] ==
        IF i = 0 THEN <<0, 0>>
        ELSE LET z == At(a, i) + col[i - 1][2] + Total(a, cols[i][1]) - Total(a, cols[i][2])
             IN <<z % Word, z \div Word>>
      low == Grow(<<>>, 0) \o [i \in 1..k |-> col[i][1]]
      c == col[k][2]
  IN IF c < 0 THEN FixNegative(low, c) ELSE [s |-> 1, p |-> Append(low, c)]

-----------------------------------------------------------------------------
(* Primes next to a power of two                                           *)

\* The limbs of n from limb w on, in a buffer that cannot grow, shifted.
High(n, w, cap, shift) ==
  ShiftR([s |-> 1, p |-> SubSeq(n.p, w, SE!Min({Len(n.p), w + cap - 1}))], shift)

Low(n, bits) == [n EXCEPT !.p = [i \in DOMAIN @ |->
                   IF i * biL <= bits THEN @[i]
                   ELSE IF (i - 1) * biL >= bits THEN 0 ELSE @[i] % 2^(bits % biL)]]

\* ecp_mod_p521, for 2^bits - 1
Mersenne(n, bits) ==
  LET w == bits \div biL + 1
  IN IF Len(n.p) < w THEN n
     ELSE AddAbs(Low(n, bits), High(n, w, w + 1, bits % biL))

\* ecp_mod_p255, for 2^bits - 19
Mod255(n, bits) ==
  LET w == bits \div biL + 1
  IN IF Len(n.p) < w THEN n
     ELSE AddAbs(Low(n, bits), MulInt(High(n, w, w + 1, bits % biL), 19))

\* ecp_mod_koblitz: two passes, with a prime that may end within a limb.
Koblitz(n, r, bits) ==
  LET limbs == (bits + biL - 1) \div biL
      adjust == Bit(bits % biL # 0)
      Pass(x) == AddAbs(Low(x, bits),
                        MulInt(High(x, limbs - adjust + 1, limbs + adjust,
                                    bits % biL), r))
  IN IF Len(n.p) < limbs THEN n ELSE Pass(Pass(n))

-----------------------------------------------------------------------------
(* The named curves (ecp_use_known_dp): a reduction and a prime.           *)

Full(k) == [i \in 1..k |-> Word - 1]

\* 2^bits - r
Near(bits, r) == SubMpi(ShiftL(Lset(1), bits), Lset(r))

Primes ==
  [secp192r1 |-> [s |-> 1, p |-> <<Word - 1, Word - 2, Word - 1>>],
   secp224r1 |-> [s |-> 1, p |-> <<1, 0, 0>> \o Full(4)],
   secp256r1 |-> [s |-> 1, p |-> Full(3) \o <<0, 0, 0, 1, Word - 1>>],
   secp384r1 |-> [s |-> 1, p |-> <<Word - 1, 0, 0, Word - 1, Word - 2>> \o Full(7)],
   secp521r1 |-> Near(2 * biL + 1, 1),
   secp192k1 |-> Near(3 * biL, 17),
   secp224k1 |-> Near(3 * biL + biL \div 2, 57),
   secp256k1 |-> Near(4 * biL, 17),
   M255      |-> Near(2 * biL - 1, 19),
   brainpool |-> [s |-> 1, p |-> <<101, 201, 17>>]]

Quasi(id, n) ==
  CASE id = "secp192r1" -> Columns(P192, n)
    [] id = "secp224r1" -> Columns(P224, n)
    [] id = "secp256r1" -> Columns(P256, n)
    [] id = "secp384r1" -> Columns(P384, n)
    [] id = "secp521r1" -> Mersenne(n, 2 * biL + 1)
    [] id = "secp192k1" -> Koblitz(n, 17, 3 * biL)
    [] id = "secp224k1" -> Koblitz(n, 57, 3 * biL + biL \div 2)
    [] id = "secp256k1" -> Koblitz(n, 17, 4 * biL)
    [] id = "M255"      -> Mod255(n, 2 * biL - 1)

\* ecp_modp: the curves without a reduction of their own divide.
Modp(id, n) ==
  LET p == Primes[id]
  IN IF id = "brainpool" THEN ModMpi(n, p)
     ELSE IF CmpInt(n, 0) < 0 \/ Msb(n) > 2 * Msb(p) THEN None
     ELSE Within(Quasi(id, n), p)
=============================================================================
