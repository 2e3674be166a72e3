------------------------------- MODULE Bignum -------------------------------
(***************************************************************************)
(* The multi-precision integers of the library, bignum.c: a number is a    *)
(* sign and limbs, the least significant first, and every operation works  *)
(* limb by limb with wrapping words.  A limb is scaled down to biL bits;   *)
(* carries, borrows, growth and the estimate of a quotient stay as they    *)
(* are.  A call that returns an error is None.                             *)
(***************************************************************************)
EXTENDS Integers, Sequences

CONSTANTS
  biL,          \* bits of a limb, a power of two
  ciL,          \* bytes of a limb
  Windows,      \* bits of an exponent above which a window grows (23, 79, ..)
  SmallPrimes,  \* small_prime
  Rounds        \* rounds of Miller-Rabin for the smallest numbers (27)

LOCAL SX == INSTANCE FiniteSetsExt
LOCAL WX == INSTANCE Words

Word == 2^biL                  \* values of a limb
Byte == 2^(biL \div ciL)       \* values of a byte
Bit(b) == IF b THEN 1 ELSE 0
None == [s |-> 0, p |-> <<>>]

-----------------------------------------------------------------------------
(* Limbs and bits                                                          *)

\* The limbs without leading zeros, as many loops count them.
Top(p) == SX!Max({0} \cup {i \in DOMAIN p : p[i] # 0})
At(p, i) == IF i \in DOMAIN p THEN p[i] ELSE 0

\* mpi_grow, mpi_copy and mpi_lset
Grow(p, n) == p \o [i \in 1..SX!Max({0, n - Len(p)}) |-> 0]
Copy(x) == [x EXCEPT !.p = SubSeq(@, 1, SX!Max({1, Top(@)}))]
Lset(z) == [s |-> IF z < 0 THEN -1 ELSE 1, p |-> <<IF z < 0 THEN -z ELSE z>>]

\* mpi_get_bit, the lowest bit being 0
GetBit(x, pos) == (At(x.p, pos \div biL + 1) \div 2^(pos % biL)) % 2

\* mpi_set_bit
SetBit(x, pos, val) ==
  LET off == pos \div biL + 1
      p == IF val = 0 THEN x.p ELSE Grow(x.p, off)
  IN IF off \notin DOMAIN p THEN x
     ELSE [x EXCEPT !.p = [p EXCEPT ![off] =
             @ + (val - GetBit(x, pos)) * 2^(pos % biL)]]

OneBits(x) == {i \in 0..(biL * Len(x.p) - 1) : GetBit(x, i) = 1}

\* mpi_lsb, mpi_msb and mpi_size
Lsb(x) == IF OneBits(x) = {} THEN 0 ELSE SX!Min(OneBits(x))
Msb(x) == SX!Max({0} \cup {i + 1 : i \in OneBits(x)})
Size(x) == LET bits == biL \div ciL IN (Msb(x) + bits - 1) \div bits

Odd(x) == x.p[1] % 2 = 1

\* mpi_shift_l: the limbs grow when the number would not fit.
ShiftL(x, count) ==
  LET v == count \div biL
      t == count % biL
      n == SX!Max({Len(x.p), (Msb(x) + count + biL - 1) \div biL})
  IN [x EXCEPT !.p = WX!Strict([i \in 1..n |->
        ((At(x.p, i - v) * 2^t) % Word) + At(x.p, i - v - 1) \div 2^(biL - t)])]

\* mpi_shift_r
ShiftR(x, count) ==
  LET v == count \div biL
      t == count % biL
  IN IF v > Len(x.p) \/ (v = Len(x.p) /\ t > 0) THEN Lset(0)
     ELSE [x EXCEPT !.p = WX!Strict([i \in DOMAIN x.p |->
             At(x.p, i + v) \div 2^t
               + ((At(x.p, i + v + 1) * 2^(biL - t)) % Word)])]

-----------------------------------------------------------------------------
(* Comparison, addition, subtraction                                       *)

\* mpi_cmp_abs
CmpAbs(x, y) ==
  LET i == Top(x.p)
      j == Top(y.p)
      apart == {k \in 1..i : x.p[k] # y.p[k]}
  IN IF i # j THEN (IF i > j THEN 1 ELSE -1)
     ELSE IF apart = {} THEN 0
     ELSE IF x.p[SX!Max(apart)] > y.p[SX!Max(apart)] THEN 1 ELSE -1

\* mpi_cmp_mpi: a zero has no sign, whatever its s.
CmpMpi(x, y) ==
  LET i == Top(x.p)
      j == Top(y.p)
  IN IF i = 0 /\ j = 0 THEN 0
     ELSE IF i > j THEN x.s
     ELSE IF j > i THEN -y.s
     ELSE IF x.s # y.s THEN x.s
     ELSE x.s * CmpAbs(x, y)

CmpInt(x, z) == CmpMpi(x, Lset(z))

\* The loops of mpi_add_abs: q and a carry are added to p from limb i on, and
\* the limbs grow when the carry runs out of them.
RECURSIVE AddFrom(_, _)
AddFrom(q, s) ==
  IF s.i > Len(q) /\ s.c = 0 THEN s.p
  ELSE LET g == Grow(s.p, s.i)
           u == (g[s.i] + s.c) % Word
           v == (u + At(q, s.i)) % Word
       IN AddFrom(q, [p |-> [g EXCEPT ![s.i] = v], i |-> s.i + 1,
                      c |-> Bit(u < s.c) + Bit(v < At(q, s.i))])

\* mpi_add_abs
AddAbs(a, b) ==
  [s |-> 1, p |-> AddFrom(SubSeq(b.p, 1, Top(b.p)), [p |-> Copy(a).p, i |-> 1, c |-> 0])]

\* mpi_sub_hlp: q is taken from p, and a borrow runs on to the end of p.
RECURSIVE SubFrom(_, _, _, _)
SubFrom(q, p, i, c) ==
  IF i > Len(p) \/ (i > Len(q) /\ c = 0) THEN p
  ELSE LET u == (p[i] - c) % Word
       IN SubFrom(q, [p EXCEPT ![i] = (u - At(q, i)) % Word], i + 1,
                  Bit(u < At(q, i)) + Bit(p[i] < c))

\* mpi_sub_abs
SubAbs(a, b) ==
  IF CmpAbs(a, b) < 0 THEN None
  ELSE [s |-> 1, p |-> SubFrom(SubSeq(b.p, 1, Top(b.p)), Copy(a).p, 1, 0)]

\* The common part of mpi_add_mpi and mpi_sub_mpi.
Combined(a, b, opposed) ==
  IF ~opposed THEN [AddAbs(a, b) EXCEPT !.s = a.s]
  ELSE IF CmpAbs(a, b) >= 0 THEN [SubAbs(a, b) EXCEPT !.s = a.s]
  ELSE [SubAbs(b, a) EXCEPT !.s = -a.s]

\* mpi_add_mpi and mpi_sub_mpi
AddMpi(a, b) == Combined(a, b, a.s * b.s < 0)
SubMpi(a, b) == Combined(a, b, a.s * b.s > 0)

-----------------------------------------------------------------------------
(* Multiplication and division                                             *)

\* MULADDC_CORE: one limb of s times b, with the carry, into d at limb k.
RECURSIVE MulFrom(_, _, _, _)
MulFrom(s, b, k, at) ==
  IF at.i > Len(s) THEN AddFrom(<<>>, [p |-> at.d, i |-> k + at.i - 1, c |-> at.c])
  ELSE LET r == s[at.i] * b
           u == ((r % Word) + at.c) % Word
           j == k + at.i - 1
           v == (u + at.d[j]) % Word
       IN MulFrom(s, b, k, [d |-> [at.d EXCEPT ![j] = v], i |-> at.i + 1,
                            c |-> r \div Word + Bit(u < at.c) + Bit(v < at.d[j])])

\* mpi_mul_hlp: d plus s times b, from limb k of d on.
MulHlp(s, d, k, b) == MulFrom(s, b, k, [d |-> d, i |-> 1, c |-> 0])

\* mpi_mul_mpi
MulMpi(a, b) ==
  LET ap == SubSeq(a.p, 1, Top(a.p))
      n == Top(b.p)
      row[j \in 0..n] ==
        IF j = 0 THEN Grow(<<0>>, Len(ap) + n)
        ELSE MulHlp(ap, row[j - 1], n - j + 1, b.p[n - j + 1])
  IN [s |-> a.s * b.s, p |-> row[n]]

MulInt(a, b) == MulMpi(a, [s |-> 1, p |-> <<b>>])

\* The digit of a quotient, lowered until two limbs of the divisor times it
\* are no more than three limbs of the rest.
RECURSIVE Lowered(_, _, _)
Lowered(z, y2, x3) ==
  IF CmpMpi(MulInt([s |-> 1, p |-> y2], z), [s |-> 1, p |-> x3]) > 0
  THEN Lowered(z - 1, y2, x3) ELSE z

\* Mutant of Estimate: the estimate is taken as it is.
EstimateRaw(x, y, i) ==
  LET t == Len(y.p)
      r == (x.p[i] * Word + x.p[i - 1]) \div y.p[t]
  IN IF r > Word - 1 THEN Word - 1 ELSE r

\* The digit of the quotient that belongs to limb i of x.
Estimate(x, y, i) ==
  LET t == Len(y.p)
      r == (x.p[i] * Word + x.p[i - 1]) \div y.p[t]
      z == IF x.p[i] >= y.p[t] \/ r > Word - 1 THEN Word - 1 ELSE r
  IN Lowered(z, <<At(y.p, t - 1), y.p[t]>>, <<At(x.p, i - 2), x.p[i - 1], x.p[i]>>)

\* The loop over the limbs of x: a digit too great by one is put right.
RECURSIVE Digits(_, _)
Digits(y, at) ==
  LET t == Len(y.p)
      d == Estimate(at.x, y, at.i)
      w == SubMpi(at.x, ShiftL(MulInt(y, d), biL * (at.i - t - 1)))
      over == CmpInt(w, 0) < 0
      n == IF over THEN AddMpi(w, ShiftL(y, biL * (at.i - t - 1))) ELSE w
  IN IF at.i <= t THEN at
     ELSE Digits(y, [x |-> [n EXCEPT !.p = Grow(@, Len(at.x.p))], i |-> at.i - 1,
                     z |-> [at.z EXCEPT ![at.i - t] = d - Bit(over)]])

RECURSIVE Most(_, _, _)
Most(x, y, z) == IF CmpMpi(x, y) < 0 THEN [x |-> x, z |-> z]
                 ELSE Most(SubMpi(x, y), y, z + 1)

\* mpi_div_mpi: both are shifted until the top limb of the divisor is full but
\* for a bit.
DivMpi(a, b) ==
  IF CmpInt(b, 0) = 0 THEN [q |-> None, r |-> None]
  ELSE IF CmpAbs(a, b) < 0 THEN [q |-> Lset(0), r |-> Copy(a)]
  ELSE LET k == biL - 1 - (Msb(b) % biL)
           x == [ShiftL(Copy(a), k) EXCEPT !.s = 1]
           y == [ShiftL(Copy(b), k) EXCEPT !.s = 1]
           n == Len(x.p) - Len(y.p)
           top == Most(x, ShiftL(y, biL * n), 0)
           z == [Grow(<<0>>, Len(a.p) + 2) EXCEPT ![n + 1] = top.z]
           end == Digits(y, [x |-> [top.x EXCEPT !.p = Grow(@, Len(x.p))],
                            i |-> Len(x.p), z |-> z])
           r == Copy([ShiftR(end.x, k) EXCEPT !.s = a.s])
       IN [q |-> Copy([s |-> a.s * b.s, p |-> end.z]),
           r |-> IF CmpInt(r, 0) = 0 THEN [r EXCEPT !.s = 1] ELSE r]

\* The two loops that end mpi_mod_mpi and mpi_inv_mod.
RECURSIVE Within(_, _)
Within(r, n) == IF CmpInt(r, 0) < 0 THEN Within(AddMpi(r, n), n)
                ELSE IF CmpMpi(r, n) >= 0 THEN Within(SubMpi(r, n), n) ELSE r

\* mpi_mod_mpi
ModMpi(a, b) ==
  IF CmpInt(b, 0) <= 0 THEN None ELSE Within(DivMpi(a, b).r, b)

\* mpi_mod_int: half a limb at a time, for a b that fits half a limb.
ModInt(a, b) ==
  LET half == 2^(biL \div 2)
      n == Len(a.p)
      y[i \in 0..n] ==
        IF i = 0 THEN 0
        ELSE LET x == a.p[n - i + 1]
             IN ((((y[i - 1] * half + x \div half) % b) * half) + (x % half)) % b
  IN IF b = 1 THEN 0
     ELSE IF b = 2 THEN a.p[1] % 2
     ELSE IF a.s < 0 /\ y[n] # 0 THEN b - y[n] ELSE y[n]

-----------------------------------------------------------------------------
(* Montgomery arithmetic                                                   *)

\* mpi_montg_init: minus the inverse of the lowest limb.
MontgInit(n) ==
  LET m == n.p[1]
      RECURSIVE Better(_, _)
      Better(x, i) ==
        IF i < 8 THEN x ELSE Better((x * (2 - m * x)) % Word, i \div 2)
  IN (-Better((m + (((m + 2) \div 4) % 2) * 8) % Word, biL)) % Word

\* mpi_montmul: a, of one limb more than n, times b over R modulo n.
MontMul(a, b, n, mm) ==
  LET k == Len(n.p)
      bp == SubSeq(b, 1, IF Len(b) < k THEN Len(b) ELSE k)
      t[i \in 0..k] ==
        IF i = 0 THEN Grow(<<>>, 2 * k + 2)
        ELSE LET d == t[i - 1]
                 u1 == ((d[i] + a[i] * b[1]) * mm) % Word
             IN MulHlp(n.p, MulHlp(bp, d, i, a[i]), i, u1)
      r == SubSeq(t[k], k + 1, 2 * k + 1)
  IN IF CmpAbs([s |-> 1, p |-> r], n) >= 0 THEN SubFrom(n.p, r, 1, 0) ELSE r

\* mpi_montred
MontRed(a, n, mm) == MontMul(a, <<1>>, n, mm)

\* The window for an exponent of so many bits (wsize).
Window(bits) ==
  LET w == SX!Max({0} \cup {i \in DOMAIN Windows : bits > Windows[i]})
  IN IF w = 0 THEN 1 ELSE w + 2

\* x squared so many times.
RECURSIVE Squarings(_, _, _)
Squarings(at, n, mm) ==
  IF at.times = 0 THEN at.x
  ELSE Squarings([x |-> MontMul(at.x, at.x, n, mm), times |-> at.times - 1], n, mm)

\* The upper half of the table of powers of W[1], each but the first from the
\* one before it.
RECURSIVE Powers(_, _, _, _, _)
Powers(known, w1, size, n, mm) ==
  IF Len(known) = 2^(size - 1) THEN known
  ELSE Powers(Append(known, MontMul(known[Len(known)], w1, n, mm)), w1, size, n, mm)
Table(w1, size, n, mm) ==
  Powers(<<Squarings([x |-> w1, times |-> size - 1], n, mm)>>, w1, size, n, mm)

\* mpi_exp_mod: the bits of e from the top; leading zeros are skipped, zeros
\* between windows square, and a window that is full multiplies from the table.
ExpMod(a, e, n) ==
  IF CmpInt(n, 0) < 0 \/ ~Odd(n) \/ CmpInt(e, 0) < 0 THEN None
  ELSE
  LET size == Window(Msb(e))
      mm == MontgInit(n)
      k == Len(n.p) + 1
      abs == [a EXCEPT !.s = 1]
      rr == Grow(ModMpi(ShiftL(Lset(1), 2 * biL * Len(n.p)), n).p, k)
      w1 == MontMul(Grow(IF CmpMpi(abs, n) >= 0 THEN ModMpi(abs, n).p
                                                ELSE Copy(abs).p, k), rr, n, mm)
      table == Table(w1, size, n, mm)
      Square(x, times) == Squarings([x |-> x, times |-> times], n, mm)
      RECURSIVE Scan(_)
      Scan(s) ==
        LET ei == GetBit(e, s.i)
            wb == s.wbits + ei * 2^(size - s.nbits - 1)
            next == [s EXCEPT !.i = @ - 1]
        IN IF s.i < 0 THEN s
           ELSE IF s.nbits = 0 /\ ei = 0
           THEN Scan([next EXCEPT !.x = IF s.out THEN Square(@, 1) ELSE @])
           ELSE IF s.nbits + 1 < size
           THEN Scan([next EXCEPT !.out = TRUE, !.nbits = @ + 1, !.wbits = wb])
           ELSE Scan([next EXCEPT !.out = TRUE, !.nbits = 0, !.wbits = 0,
                        !.x = MontMul(Square(@, size), table[wb - 2^(size - 1) + 1], n, mm)])
      RECURSIVE Rest(_)
      Rest(s) ==
        LET y == Square(s.x, 1)
        IN IF s.nbits = 0 THEN s.x
           ELSE Rest([x |-> IF 2 * s.wbits >= 2^size THEN MontMul(y, w1, n, mm) ELSE y,
                      nbits |-> s.nbits - 1, wbits |-> (2 * s.wbits) % 2^size])
      end == Scan([x |-> MontRed(rr, n, mm), i |-> biL * Len(e.p) - 1,
                   out |-> FALSE, nbits |-> 0, wbits |-> 0])
      last == Rest([x |-> end.x, nbits |-> end.nbits, wbits |-> end.wbits])
      x == [s |-> 1, p |-> MontRed(last, n, mm)]
  IN IF a.s = -1 THEN AddMpi(n, [x EXCEPT !.s = -1]) ELSE x

-----------------------------------------------------------------------------
(* Divisors and inverses                                                   *)

\* The loop of mpi_gcd.
RECURSIVE Subtract(_, _)
Subtract(a, b) ==
  IF CmpInt(a, 0) = 0 THEN b
  ELSE LET x == ShiftR(a, Lsb(a))
           y == ShiftR(b, Lsb(b))
       IN IF CmpMpi(x, y) >= 0 THEN Subtract(ShiftR(SubAbs(x, y), 1), y)
                               ELSE Subtract(x, ShiftR(SubAbs(y, x), 1))

\* mpi_gcd
Gcd(a, b) ==
  LET lz == SX!Min({Lsb(a), Lsb(b)})
      part(x) == [ShiftR(x, lz) EXCEPT !.s = 1]
  IN Copy(ShiftL(Subtract(part(a), part(b)), lz))

\* A side of mpi_inv_mod, <<u, u1, u2>> with u1 * ta + u2 * n = u, halved
\* while it is even.
RECURSIVE Halved(_, _, _)
Halved(v, ta, n) ==
  IF Odd(v[1]) THEN v
  ELSE LET fix == Odd(v[2]) \/ Odd(v[3])
           v1 == IF fix THEN AddMpi(v[2], n) ELSE v[2]
           v2 == IF fix THEN SubMpi(v[3], ta) ELSE v[3]
       IN Halved(<<ShiftR(v[1], 1), ShiftR(v1, 1), ShiftR(v2, 1)>>, ta, n)

Less(v, w) == <<SubMpi(v[1], w[1]), SubMpi(v[2], w[2]), SubMpi(v[3], w[3])>>

RECURSIVE Extended(_, _, _, _)
Extended(u, v, ta, n) ==
  LET hu == Halved(u, ta, n)
      hv == Halved(v, ta, n)
      great == CmpMpi(hu[1], hv[1]) >= 0
      nu == IF great THEN Less(hu, hv) ELSE hu
      nv == IF great THEN hv ELSE Less(hv, hu)
  IN IF CmpInt(nu[1], 0) = 0 THEN nv[2] ELSE Extended(nu, nv, ta, n)

\* mpi_inv_mod, of a modulus other than 1, for which it does not return.
InvMod(a, n) ==
  IF CmpInt(n, 0) <= 0 \/ CmpInt(Gcd(a, n), 1) # 0 THEN None
  ELSE LET ta == ModMpi(a, n)
       IN Copy(Within(Extended(<<ta, Lset(1), Lset(0)>>,
                               <<n, Lset(0), Lset(1)>>, ta, n), n))

-----------------------------------------------------------------------------
(* Primes.  Random numbers are given as a sequence of draws.               *)

\* mpi_check_small_factors: 1 for a prime, -1 for none, 0 for neither.
RECURSIVE CheckSmallFactors(_, _)
CheckSmallFactors(x, i) ==
  IF ~Odd(x) THEN -1
  ELSE IF i > Len(SmallPrimes) THEN 0
  ELSE IF CmpInt(x, SmallPrimes[i]) <= 0 THEN 1
  ELSE IF ModInt(x, SmallPrimes[i]) = 0 THEN -1
  ELSE CheckSmallFactors(x, i + 1)

\* The base of a round: below W, and 3 modulo 4.
Base(draw, w) ==
  LET a == IF CmpMpi(draw, w) >= 0
           THEN ShiftR(draw, Msb(draw) - Msb(w) + 1) ELSE draw
  IN [a EXCEPT !.p = [@ EXCEPT ![1] = (@ \div 4) * 4 + 3]]

\* Does a, a base to the odd part of x - 1, show that x is no prime?
Witness(a, x, w, s) ==
  LET RECURSIVE Squared(_, _)
      Squared(v, j) ==
        IF j >= s \/ CmpMpi(v, w) = 0 THEN v
        ELSE LET t == ModMpi(MulMpi(v, v), x)
             IN IF CmpInt(t, 1) = 0 THEN t ELSE Squared(t, j + 1)
  IN CmpMpi(a, w) # 0 /\ CmpInt(a, 1) # 0 /\ CmpMpi(Squared(a, 1), w) # 0

\* mpi_miller_rabin
MillerRabin(x, draws) ==
  LET w == SubMpi(x, Lset(1))
      s == Lsb(w)
      r == ShiftR(w, s)
  IN IF \E i \in 1..Rounds : Witness(ExpMod(Base(draws[i], w), r, x), x, w, s)
     THEN -1 ELSE 0

\* mpi_is_prime: 0 for a probable prime, -1 for none.
IsPrime(x, draws) ==
  LET abs == [x EXCEPT !.s = 1]
      small == CheckSmallFactors(abs, 1)
  IN IF CmpInt(abs, 0) = 0 \/ CmpInt(abs, 1) = 0 THEN -1
     ELSE IF CmpInt(abs, 2) = 0 \/ small = 1 THEN 0
     ELSE IF small = -1 THEN -1 ELSE MillerRabin(abs, draws)

-----------------------------------------------------------------------------
(* Conversions                                                             *)

\* mpi_read_binary: the bytes, most significant first, without zeros in front.
ReadBinary(buf) ==
  LET n == SX!Max({0} \cup {i \in DOMAIN buf : buf[Len(buf) - i + 1] # 0})
      limbs == (n + ciL - 1) \div ciL
      byte(j) == IF j < n THEN buf[Len(buf) - j] ELSE 0
      limb(i) == LET RECURSIVE Sum(_)
                     Sum(k) == IF k = ciL THEN 0
                               ELSE byte((i - 1) * ciL + k) * Byte^k + Sum(k + 1)
                 IN Sum(0)
  IN [s |-> 1, p |-> WX!Strict([i \in 1..SX!Max({1, limbs}) |-> limb(i)])]

\* mpi_write_binary
WriteBinary(x, buflen) ==
  IF buflen < Size(x) THEN <<>>
  ELSE [i \in 1..buflen |->
          LET j == buflen - i
          IN (At(x.p, j \div ciL + 1) \div Byte^(j % ciL)) % Byte]

\* mpi_write_hlp: the digits of a number, most significant first.
RECURSIVE WriteHlp(_, _)
WriteHlp(x, radix) ==
  LET rest == DivMpi(x, Lset(radix)).q
      digit == <<ModInt(x, radix)>>
  IN IF CmpInt(rest, 0) = 0 THEN digit ELSE WriteHlp(rest, radix) \o digit

\* mpi_write_string with a radix that is not 16: a sign and digits.
WriteString(x, radix) ==
  [minus |-> x.s = -1, digits |-> WriteHlp([Copy(x) EXCEPT !.s = 1], radix)]

\* mpi_read_string: a negative number grows downwards.
ReadString(string, radix) ==
  LET RECURSIVE Read(_, _)
      Read(x, i) ==
        IF i > Len(string.digits) THEN x
        ELSE LET t == MulInt(x, radix)
                 d == Lset(string.digits[i])
             IN Read(IF x.s = 1 THEN AddMpi(t, d) ELSE SubMpi(t, d), i + 1)
  IN Read([s |-> IF string.minus THEN -1 ELSE 1, p |-> <<0>>], 1)

\* The room mpi_write_string asks for, with the sign and the final zero.
RoomAsked(x, radix) == (IF radix >= 4 THEN Msb(x) \div 2 ELSE Msb(x)) + 3
=============================================================================
