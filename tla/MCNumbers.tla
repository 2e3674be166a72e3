----------------------------- MODULE MCNumbers -----------------------------
(* Questions about big numbers, with limbs of one byte made of two nibbles  *)
(* each, and the answers the integers of TLC give; and about points of      *)
(* small curves, and the keys, secrets and signatures that two ends make    *)
(* with them and with Diffie-Hellman.                                       *)
EXTENDS Integers, Sequences, FiniteSets, TLC

B == INSTANCE EcpCurves WITH
  biL <- 8, ciL <- 2, Windows <- <<2, 6>>, SmallPrimes <- <<3, 5, 7>>, Rounds <- 2

NoNumber == -2147483647

\* What a number stands for, and a number that stands for an integer.
RECURSIVE Natural(_), Limbs(_)
Natural(p) == IF p = <<>> THEN 0 ELSE Head(p) + 256 * Natural(Tail(p))
Limbs(n) == IF n < 256 THEN <<n>> ELSE <<n % 256>> \o Limbs(n \div 256)
Integer(num) == IF num.s = 0 THEN NoNumber ELSE num.s * Natural(num.p)
Abs(a) == IF a < 0 THEN -a ELSE a
Mpi(a) == [s |-> IF a < 0 THEN -1 ELSE 1, p |-> Limbs(Abs(a))]

\* Integers around the ends of limbs, and whose product TLC can still write.
Edges == {0, 1, 2, 3, 7, 127, 128, 255, 256, 257, 511, 32767, 32768, 65280,
          65281, 65535, 65536, 8388608, 8421375, 16777215, 16777216}
Sample == Edges \cup {-a : a \in Edges}
Small == {a \in Sample : Abs(a) < 70000}

-----------------------------------------------------------------------------
(* Sums, products, quotients, order, shifts and digits.                     *)

Partners(a) ==
  {b \in Sample : Abs(a) < 32768 \/ Abs(b) < 128 \/ (Abs(a) < 70000 /\ Abs(b) < 32768)
                  \/ a = b}
Multiplies(a, b) == Abs(a) = 0 \/ Abs(b) <= 2147483647 \div Abs(a)

Calculated(a) ==
  [b \in Partners(a) |->
     LET x == Mpi(a)
         y == Mpi(b)
         d == B!DivMpi(x, y)
     IN [sum |-> Integer(B!AddMpi(x, y)), difference |-> Integer(B!SubMpi(x, y)),
         order |-> B!CmpMpi(x, y),
         product |-> IF Multiplies(a, b) THEN Integer(B!MulMpi(x, y)) ELSE 0,
         quotient |-> IF b = 0 THEN 0 ELSE Integer(d.q),
         rest |-> IF b = 0 THEN 0 ELSE Integer(d.r),
         mod |-> IF b > 0 THEN Integer(B!ModMpi(x, y)) ELSE 0]]

\* C divides towards zero, TLA+ downwards.
Quotient(a, b) == IF (a < 0) = (b < 0) THEN Abs(a) \div Abs(b) ELSE -(Abs(a) \div Abs(b))

OfIntegers(a) ==
  [b \in Partners(a) |->
     [sum |-> a + b, difference |-> a - b,
      order |-> IF a < b THEN -1 ELSE IF a = b THEN 0 ELSE 1,
      product |-> IF Multiplies(a, b) THEN a * b ELSE 0,
      quotient |-> IF b = 0 THEN 0 ELSE Quotient(a, b),
      rest |-> IF b = 0 THEN 0 ELSE a - b * Quotient(a, b),
      mod |-> IF b > 0 THEN a % b ELSE 0]]

\* Through digits and through bytes and back, shifted to both sides, with a bit
\* set or cleared, and the room that the digits, a sign and a final zero take.
Places == {0, 7, 8, 23, 27}
Used(string) == (IF string.minus THEN 1 ELSE 0) + Len(string.digits) + 1
Written(a) ==
  LET x == Mpi(a)
      n == B!Size(x) + 1
  IN [digits |-> [r \in {2, 3, 10} |->
                    Integer(B!ReadString(B!WriteString(x, r), r))],
      bytes |-> Integer(B!ReadBinary(B!WriteBinary(x, n))),
      left |-> [k \in 0..6 |-> Integer(B!ShiftL(x, k))],
      right |-> [k \in 0..26 |-> Integer(B!ShiftR(x, k))],
      set |-> [kv \in Places \X {0, 1} |-> Integer(B!SetBit(x, kv[1], kv[2]))],
      short |-> {r \in {2, 3, 4, 10, 15} : B!RoomAsked(x, r) < Used(B!WriteString(x, r))},
      bits |-> B!Msb(x)]

AsIntegers(a) ==
  [digits |-> [r \in {2, 3, 10} |-> a],
   bytes |-> Abs(a),
   left |-> [k \in 0..6 |-> a * 2^k],
   right |-> [k \in 0..26 |-> IF a < 0 THEN -(Abs(a) \div 2^k) ELSE a \div 2^k],
   set |-> [kv \in Places \X {0, 1} |->
              (IF a < 0 THEN -1 ELSE 1)
                * (Abs(a) + (kv[2] - ((Abs(a) \div 2^kv[1]) % 2)) * 2^kv[1])],
   short |-> {},
   bits |-> CHOOSE n \in 0..25 : Abs(a) < 2^n /\ (n > 0 => Abs(a) >= 2^(n - 1))]

-----------------------------------------------------------------------------
(* Powers, inverses and divisors modulo n.  A negative base, and an even    *)
(* power of one, is left out: mpi_exp_mod then answers what it should not.  *)

Moduli == {3, 5, 255, 257, 511, 32767, 32769}
Exponents == {0, 1, 2, 3, 7, 8, 100, 255, 256, 300}

RaisedTo(n) ==
  [powers |-> [ae \in {a \in Small : a >= 0} \X Exponents |->
                 Integer(B!ExpMod(Mpi(ae[1]), Mpi(ae[2]), Mpi(n)))],
   inverses |-> [a \in Small |-> Integer(B!InvMod(Mpi(a), Mpi(n)))],
   divisors |-> [a \in Small \ {0} |-> Integer(B!Gcd(Mpi(a), Mpi(n)))]]

RECURSIVE Power(_, _, _), Euclid(_, _)
Power(a, e, n) ==
  IF e = 0 THEN 1 % n
  ELSE LET h == Power(a, e \div 2, n)
       IN IF e % 2 = 0 THEN (h * h) % n ELSE (((h * h) % n) * (a % n)) % n
Euclid(a, b) == IF b = 0 THEN a ELSE Euclid(b, a % b)

IsRaisedTo(n, given) ==
  /\ \A ae \in DOMAIN given.powers : given.powers[ae] = Power(ae[1], ae[2], n)
  /\ \A a \in Small :
       IF Euclid(Abs(a), n) = 1
       THEN given.inverses[a] \in 0..(n - 1) /\ ((a % n) * given.inverses[a]) % n = 1
       ELSE given.inverses[a] = NoNumber
  /\ \A a \in Small \ {0} : given.divisors[a] = Euclid(Abs(a), n)

-----------------------------------------------------------------------------
(* The reductions modulo the primes of the curves, of products.             *)

Curves == DOMAIN B!Primes

\* Numbers below the prime: next to it, next to zero, and in between.
Below(id) ==
  LET p == B!Primes[id]
      k == Len(B!Copy(p).p)
      mixed == {[s |-> 1, p |-> [i \in 1..k |-> IF (i * i + j) % 5 < 2 THEN 255
                                                  ELSE (j * 77 * i) % 256]] : j \in 1..5}
  IN {v \in {B!SubMpi(p, B!Lset(i)) : i \in 1..2} \cup mixed
              \cup {B!Lset(1), B!Lset(255)} : B!CmpMpi(v, p) < 0}

Reduced(id) ==
  [ab \in Below(id) \X Below(id) |-> B!Copy(B!Modp(id, B!MulMpi(ab[1], ab[2])))]

\* What is left is below the prime, and apart from the product by a multiple.
IsReduced(id, given) ==
  LET p == B!Primes[id]
  IN \A ab \in DOMAIN given :
       LET n == B!MulMpi(ab[1], ab[2])
       IN /\ B!CmpMpi(given[ab], p) < 0 /\ B!CmpInt(given[ab], 0) >= 0
          /\ B!CmpMpi(B!AddMpi(B!MulMpi(B!DivMpi(n, p).q, p), given[ab]), n) = 0

-----------------------------------------------------------------------------
(* The test for primes, with every pair of bases that can be drawn.         *)

Candidates == (9..400) \ {n \in 9..400 : n % 2 = 0 \/ n % 3 = 0 \/ n % 5 = 0 \/ n % 7 = 0}

Tested(n) == [ab \in {2, 3, n \div 2, n - 2} \X {5, n \div 3} |->
                B!IsPrime(Mpi(n), <<Mpi(ab[1]), Mpi(ab[2])>>)]

Composite(n) == \E d \in 2..(n - 1) : n % d = 0

\* The base made of a draw below n.
BaseOf(draw) == (draw \div 4) * 4 + 3

StrongLiar(a, n) ==
  LET t == CHOOSE t \in 1..10 : (n - 1) % 2^t = 0 /\ (n - 1) % 2^(t + 1) # 0
      s == (n - 1) \div 2^t
  IN \/ Power(a, s, n) = 1
     \/ \E i \in 0..(t - 1) : Power(a, s * 2^i, n) = n - 1

\* No prime is refused, unless the base made of a draw is the prime itself, and
\* what passes although it is none has only strong liars for bases.
IsTested(n, given) ==
  \A ab \in DOMAIN given :
    IF Composite(n)
    THEN given[ab] = 0 => \A i \in 1..2 : StrongLiar(BaseOf(ab[i]), n)
    ELSE given[ab] = 0 \/ \E i \in 1..2 : BaseOf(ab[i]) = n

-----------------------------------------------------------------------------
(* Curves                                                                   *)

E == INSTANCE KeyExchange

\* Two curves of prime order, the first with A = -3, and a Montgomery curve.
Weierstrass3 == [p |-> 79, a |-> 76, b |-> 3, g |-> E!Affine(1, 1), n |-> 83,
                 minus3 |-> TRUE, montgomery |-> FALSE, nbits |-> 7]
Weierstrass == [Weierstrass3 EXCEPT !.a = 2, !.b = 5, !.g = E!Affine(0, 20), !.n = 71,
                                    !.minus3 = FALSE]
Montgomery == [Weierstrass3 EXCEPT !.p = 103, !.a = 7, !.montgomery = TRUE, !.nbits = 6,
                                   !.g = E!Affine(12, 0)]
Groups == {Weierstrass3, Weierstrass}

Infinity == [X |-> 1, Y |-> 1, Z |-> 0]
Inverse(g, v) == CHOOSE i \in 1..(g.p - 1) : (i * (v % g.p)) % g.p = 1

\* The third point of the line through two, by the chord and tangent rule.
Sum(g, P, Q, slopeOfTangent, Third(_)) ==
  IF P.Z = 0 THEN Q
  ELSE IF Q.Z = 0 THEN P
  ELSE IF P.X = Q.X /\ (P.Y + Q.Y) % g.p = 0 THEN Infinity
  ELSE LET slope == IF P = Q THEN slopeOfTangent
                    ELSE ((Q.Y - P.Y) * Inverse(g, Q.X - P.X)) % g.p
           x == (Third(slope) - P.X - Q.X) % g.p
       IN E!Affine(x, (slope * (P.X - x) - P.Y) % g.p)
SumOnWeierstrass(g, P, Q) ==
  Sum(g, P, Q,
      IF P.Y = 0 THEN 0 ELSE ((3 * P.X * P.X + g.a) * Inverse(g, 2 * P.Y)) % g.p,
      LAMBDA s : s * s)
A(g) == (4 * g.a - 2) % g.p
SumOnMontgomery(g, b, P, Q) ==
  Sum(g, P, Q,
      IF P.Y = 0 THEN 0
      ELSE ((3 * P.X * P.X + 2 * A(g) * P.X + 1) * Inverse(g, 2 * b * P.Y)) % g.p,
      LAMBDA s : ((s * s) % g.p) * b - A(g))

\* The sum of m copies of a point, bracketed in halves.
RECURSIVE TimesPoint(_, _, _), TimesOnMontgomery(_, _, _, _)
TimesPoint(g, m, P) ==
  IF m < 2 THEN (IF m = 0 THEN Infinity ELSE P)
  ELSE SumOnWeierstrass(g, TimesPoint(g, m \div 2, P), TimesPoint(g, m - (m \div 2), P))
TimesOnMontgomery(g, b, m, P) ==
  IF m < 2 THEN (IF m = 0 THEN Infinity ELSE P)
  ELSE SumOnMontgomery(g, b, TimesOnMontgomery(g, b, m \div 2, P),
                             TimesOnMontgomery(g, b, m - (m \div 2), P))

PointsOf(g) ==
  {Infinity} \cup
    {E!Affine(xy[1], xy[2]) :
       xy \in {c \in (0..(g.p - 1)) \X (0..(g.p - 1)) :
                 (c[2] * c[2]) % g.p = (c[1] * c[1] * c[1] + g.a * c[1] + g.b) % g.p}}
Points3 == PointsOf(Weierstrass3)
Points2 == PointsOf(Weierstrass)
Points(g) == IF g = Weierstrass3 THEN Points3 ELSE Points2

-----------------------------------------------------------------------------
(* The group law.                                                           *)

GroupAndPoint == UNION {{<<g, P>> : P \in Points(g)} : g \in Groups}
AddedTo(gP) == [Q \in Points(gP[1]) |-> E!Add(gP[1], gP[2], Q)]
IsAddedTo(gP, given) == \A Q \in DOMAIN given : given[Q] = SumOnWeierstrass(gP[1], gP[2], Q)

\* Multiples of the generator, for which the comb has its table of points, and
\* of another point, with several draws for the blinding of coordinates.
GroupAndScalar == UNION {{<<g, m>> : m \in {1, 2, 3, 5, g.n - 2, g.n - 1} \cup {n \in 1..(g.n - 1) : n % 7 = 4}} : g \in Groups}
Bases == {<<g, b, TimesPoint(g, b, g.g)>> : <<g, b>> \in Groups \X {1, 9}}
Base(g, b) == CHOOSE x \in Bases : x[1] = g /\ x[2] = b
Multiplied(gm) ==
  [bl \in {1, 9} \X {1, 2, 77} |-> E!Mul(gm[1], gm[2], Base(gm[1], bl[1])[3], bl[2])]
IsMultiplied(gm, given) ==
  \A bl \in DOMAIN given : given[bl] = TimesPoint(gm[1], gm[2], Base(gm[1], bl[1])[3])

\* The ladder on the Montgomery curve; of a first coordinate with too many bits
\* it makes another point.
Ladders == {64, 72, 120}
Climbed(m) == [ul \in (0..127) \X {1, 77} |-> E!Mul(Montgomery, m, E!Affine(ul[1], 0), ul[2])]
IsClimbed(m, given) ==
  \A ul \in DOMAIN given :
    LET g == Montgomery
        x == ul[1] % g.p
        b == ((((x * x) % g.p) * x) + A(g) * x * x + x) % g.p
        s == IF b = 0 THEN Infinity ELSE TimesOnMontgomery(g, b, m, E!Affine(x, 1))
    IN IF s.Z = 0 THEN given[ul] = E!None ELSE given[ul].X = s.X

-----------------------------------------------------------------------------
(* The same secret at both ends.                                            *)

\* Diffie-Hellman modulo 23.  The server keeps its blinding for a second and a
\* third secret, then makes a new private value, and answers again.
Draws == {<<a, b, c>> : a \in {3, 4, 9, 77, 255}, b \in {5, 9, 11, 20}, c \in {7, 6, 33}}
Agreed(d) ==
  LET v == <<0, 1, 200>>
      group == E!ParseDhm(<<48, 6, 2, 1, 23, 2, 1, 5>>).ctx
      s1 == E!MakeParams(group, <<d[1]>>)
      c1 == E!ReadParams(E!NewDhm(0, 0), s1.out)
      c2 == E!MakePublic(c1.ctx, <<d[2]>>)
      s2 == E!ReadPublic(s1.ctx, c2.out)
      k1 == E!CalcSecret(s2.ctx, v)
      k2 == E!CalcSecret(k1.ctx, v)
      k3 == E!CalcSecret(k2.ctx, v)
      s3 == E!MakeParams(k3.ctx, <<d[3]>>)
      e1 == E!ReadParams(E!NewDhm(0, 0), s3.out)
      e2 == E!MakePublic(e1.ctx, <<d[2]>>)
      s4 == E!ReadPublic(s3.ctx, e2.out)
      met == s1.ok /\ c2.ok
      again == met /\ s3.ok /\ e2.ok
  IN [client |-> IF met THEN {E!CalcSecret(c2.ctx, v).out} ELSE {},
      server |-> IF met THEN {k1.out, k2.out, k3.out} ELSE {},
      clientAgain |-> IF again THEN E!CalcSecret(e2.ctx, v).out ELSE <<>>,
      serverAgain |-> IF again THEN E!CalcSecret(s4.ctx, v).out ELSE <<>>]
IsAgreed(given) == given.client = given.server /\ given.clientAgain = given.serverAgain

\* On the curves.
PairOfKeys ==
  {<<g, d1, d2>> : g \in Groups, d1 \in {1, 40, 70}, d2 \in {1, 3, 69}}
    \cup {<<Montgomery, d1, d2>> : d1 \in {64, 80, 120}, d2 \in {88, 104}}
Exchanged(k) ==
  LET Public(d) == E!Mul(k[1], d, k[1].g, 1)
  IN [first |-> E!EcdhCalcSecret(k[1], Public(k[3]), k[2], 5, 7),
      second |-> E!EcdhCalcSecret(k[1], Public(k[2]), k[3], 5, 1)]
\* Only on the Montgomery curve may two public points have no common multiple.
IsExchanged(k, given) == given.first = given.second /\ (given.first.ok \/ k[1].montgomery)

\* The two messages of a handshake, from draws of eight bits: the curve by its
\* place in the list, the points as they are or compressed.
Keys == {<<2>>, <<120>>, <<0, 255, 6>>, <<255>>}
Handshakes == {<<g, a, b>> : g \in Groups \cup {Montgomery}, a \in Keys, b \in Keys}
Shaken(h) ==
  LET g == h[1]
      server == E!GenKeypair(g, h[2], 8, 77)
      client == E!GenKeypair(g, h[3], 8, 1)
      Offer(format, room) == E!EcdhMakeParams(g, 4, server, format, room)
      Answer(format) == E!EcdhMakePublic(g, client, format, 4)
      offer == Offer(E!UNCOMPRESSED, 7).out
      answer == Answer(E!UNCOMPRESSED).out
      atClient == E!EcdhReadParams(offer \o <<9>>)
      atServer == E!EcdhReadPublic(answer)
  IN IF ~server.ok \/ ~client.ok THEN [made |-> FALSE]
     ELSE [made |-> TRUE, place |-> atClient.i, rest |-> atClient.rest,
           atClient |-> E!EcdhCalcSecret(g, atClient.Qp, client.d, 5, 7),
           atServer |-> E!EcdhCalcSecret(g, atServer.Qp, server.d, 5, 1),
           others |-> {E!EcdhReadParams(SubSeq(offer, 1, n)).ok : n \in 0..6}
                       \cup {E!EcdhReadPublic(SubSeq(answer, 1, n)).ok : n \in 0..3}
                       \cup {E!EcdhReadPublic(answer \o <<9>>).ok, Offer(E!UNCOMPRESSED, 6).ok,
                             E!EcdhReadParams(Offer(E!COMPRESSED, 7).out).ok,
                             E!EcdhReadPublic(Answer(E!COMPRESSED).out).ok}]
IsShaken(h, given) ==
  IF ~given.made THEN (IF h[1] = Montgomery THEN <<0, 255, 6>> ELSE <<255>>) \in {h[2], h[3]}
  ELSE /\ given.place = 4 /\ given.rest = <<9>>
       /\ given.atClient = given.atServer /\ (given.atClient.ok \/ h[1].montgomery)
       /\ given.others = {FALSE}

\* Signatures verify, for hashes that are no multiple of the order of the group.
Signers == Groups \X {1, 2, 70}
Hashed(g) == {h \in {0, 1, 77, 166, 167, 255} : E!DeriveMpi(g, <<h>>) # 0}
Signed(gd) ==
  LET g == gd[1]
      d == gd[2]
      Public == E!Mul(g, d, g.g, 1)
  IN [hkt \in Hashed(g) \X {1, 70} \X {3, 200} |->
        LET s == E!EcdsaSign(g, d, <<hkt[1], 9>>, <<hkt[2], 5>>, <<hkt[3], 8>>, 1)
        IN IF ~s.ok THEN "not made"
           ELSE E!ReadSignature(g, <<hkt[1], 9>>, Public, E!SignatureToAsn1(s.r, s.s))]
IsSigned(given) == \A hkt \in DOMAIN given : given[hkt] = "ok"
=============================================================================
