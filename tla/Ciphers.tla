------------------------------- MODULE Ciphers -------------------------------
(***************************************************************************)
(* The ciphers of the library: AES, DES and triple DES, Camellia, XTEA,    *)
(* Blowfish and ARC4, each with its key schedules, its block and its modes.*)
(* A block and a key are sequences of bytes; words are those of Words, but *)
(* for AES, whose words are four bytes, the low one first.                 *)
(***************************************************************************)
EXTENDS Integers, Sequences, FiniteSets, Words

ENCRYPT == 1
DECRYPT == 0

Bytes256 == 0..255
Shl1(x) == ((2 * x) % 256) + (x \div 128)      \* a byte turned by one bit

-----------------------------------------------------------------------------
(* AES: the tables, as aes_gen_tables makes them.                          *)

XTime(x) == XorN((2 * x) % 256, IF x >= 128 THEN 27 ELSE 0)

RECURSIVE PowFrom(_)
PowFrom(pow) ==
  IF Len(pow) = 256 THEN pow
  ELSE LET x == pow[Len(pow)] IN PowFrom(Append(pow, XorN(x, XTime(x))))
Pow == PowFrom(<<1>>)                          \* pow[i] is Pow[i + 1]
Log == Strict([x \in 1..255 |-> CHOOSE i \in 1..255 : Pow[i + 1] = x])
Mul(x, y) == IF x = 0 \/ y = 0 THEN 0 ELSE Pow[((Log[x] + Log[y]) % 255) + 1]

RECURSIVE RconFrom(_, _)
RconFrom(x, n) == IF n = 0 THEN <<>> ELSE <<x>> \o RconFrom(XTime(x), n - 1)
RCON == RconFrom(1, 10)

Spread(x) == LET y1 == Shl1(x) y2 == Shl1(y1) y3 == Shl1(y2) y4 == Shl1(y3)
             IN XorN(XorN(x, y1), XorN(y2, XorN(y3, XorN(y4, 99))))
\* A table's entry for i is its member i + 1.
FSb == Strict([i \in 1..256 |-> IF i = 1 THEN 99 ELSE Spread(Pow[256 - Log[i - 1]])])
RSb == Strict([x \in 1..256 |-> CHOOSE i \in Bytes256 : FSb[i + 1] = x - 1])

Turned(w, k) == [b \in 1..4 |-> w[((b - 1 - k + 4) % 4) + 1]]
FT == Strict([i \in 1..256 |-> LET x == FSb[i] y == XTime(x) IN <<y, x, x, XorN(y, x)>>])
RT == Strict([i \in 1..256 |->
         LET x == RSb[i] IN <<Mul(14, x), Mul(9, x), Mul(13, x), Mul(11, x)>>])

Sub(w) == Strict([b \in 1..4 |-> FSb[w[b] + 1]])
Mixed(T, w) == Xor(Xor(Turned(T[w[1] + 1], 0), Turned(T[w[2] + 1], 1)),
                   Xor(Turned(T[w[3] + 1], 2), Turned(T[w[4] + 1], 3)))

\* aes_setkey_enc: word i follows from the word before it and from nk words back.
RECURSIVE AesExpand(_)
AesExpand(s) ==             \* s: the words so far, nk, and how many there will be
  LET rk == s[1] nk == s[2] IN
  IF Len(rk) = s[3] THEN rk
  ELSE LET i == Len(rk)
           last == rk[i]
           t == IF i % nk = 0
                THEN LET w == Sub(<<last[2], last[3], last[4], last[1]>>)
                     IN <<XorN(w[1], RCON[i \div nk])>> \o Tail(w)
                ELSE IF nk = 8 /\ i % nk = 4 THEN Sub(last) ELSE last
       IN AesExpand(<<Append(rk, Xor(rk[i - nk + 1], t)), nk, s[3]>>)
AesSetkeyEnc(key) ==
  LET nk == Len(key) \div 4
      nr == nk + 6
  IN IF Len(key) \notin {16, 24, 32} THEN [ok |-> FALSE]
     ELSE [ok |-> TRUE, nr |-> nr, rk |-> AesExpand(<<Grouped(key, 4), nk, 4 * (nr + 1)>>)]

\* aes_setkey_dec: the round keys from the last to the first, mixed.
AesSetkeyDec(key) ==
  LET c == AesSetkeyEnc(key)
      Back(i) == c.rk[(4 * (c.nr - ((i - 1) \div 4))) + ((i - 1) % 4) + 1]
  IN IF ~c.ok THEN c
     ELSE [c EXCEPT !.rk = Strict([i \in 1..Len(c.rk) |->
             IF i <= 4 \/ i > 4 * c.nr THEN Back(i) ELSE Mixed(RT, Sub(Back(i)))])]

\* The bytes that AES_FROUND and AES_RROUND take for column j.
Rows(X, j, mode) ==
  [k \in 1..4 |-> X[((IF mode = ENCRYPT THEN j + k - 2 ELSE j - k + 4) % 4) + 1][k]]

RECURSIVE AesRounds(_)
AesRounds(s) ==             \* s: ctx, mode, the columns, the round
  LET ctx == s[1] mode == s[2] X == s[3] r == s[4]
      Key(j) == ctx.rk[(4 * r) + j]
      S == IF mode = ENCRYPT THEN FSb ELSE RSb
      T == IF mode = ENCRYPT THEN FT ELSE RT
  IN IF r = ctx.nr
     THEN [j \in 1..4 |-> LET w == Rows(X, j, mode)
                          IN Xor(Key(j), Strict([k \in 1..4 |-> S[w[k] + 1]]))]
     ELSE AesRounds(<<ctx, mode, [j \in 1..4 |-> Xor(Key(j), Mixed(T, Rows(X, j, mode)))] \o <<>>,
                      r + 1>>)
AesCryptEcb(ctx, mode, input) ==
  LET X == Grouped(input, 4)
      Y == AesRounds(<<ctx, mode, Strict([j \in 1..4 |-> Xor(X[j], ctx.rk[j])]), 1>>)
  IN Y[1] \o Y[2] \o Y[3] \o Y[4]

-----------------------------------------------------------------------------
(* DES.  The subkeys are sequences of words, two for a round.              *)

SB1 == Grouped(<<
  \h0101, \h0400, \h0000, \h0000, \h0001, \h0000, \h0101, \h0404, \h0101, \h0004, \h0001, \h0404,
  \h0000, \h0004, \h0001, \h0000, \h0000, \h0400, \h0101, \h0400, \h0101, \h0404, \h0000, \h0400,
  \h0100, \h0404, \h0101, \h0004, \h0100, \h0000, \h0000, \h0004, \h0000, \h0404, \h0100, \h0400,
  \h0100, \h0400, \h0001, \h0400, \h0001, \h0400, \h0101, \h0000, \h0101, \h0000, \h0100, \h0404,
  \h0001, \h0004, \h0100, \h0004, \h0100, \h0004, \h0001, \h0004, \h0000, \h0000, \h0000, \h0404,
  \h0001, \h0404, \h0100, \h0000, \h0001, \h0000, \h0101, \h0404, \h0000, \h0004, \h0101, \h0000,
  \h0101, \h0400, \h0100, \h0000, \h0100, \h0000, \h0000, \h0400, \h0101, \h0004, \h0001, \h0000,
  \h0001, \h0400, \h0100, \h0004, \h0000, \h0400, \h0000, \h0004, \h0100, \h0404, \h0001, \h0404,
  \h0101, \h0404, \h0001, \h0004, \h0101, \h0000, \h0100, \h0404, \h0100, \h0004, \h0000, \h0404,
  \h0001, \h0404, \h0101, \h0400, \h0000, \h0404, \h0100, \h0400, \h0100, \h0400, \h0000, \h0000,
  \h0001, \h0004, \h0001, \h0400, \h0000, \h0000, \h0101, \h0004 >>, 2)
SB2 == Grouped(<<
  \h8010, \h8020, \h8000, \h8000, \h0000, \h8000, \h0010, \h8020, \h0010, \h0000, \h0000, \h0020,
  \h8010, \h0020, \h8000, \h8020, \h8000, \h0020, \h8010, \h8020, \h8010, \h8000, \h8000, \h0000,
  \h8000, \h8000, \h0010, \h0000, \h0000, \h0020, \h8010, \h0020, \h0010, \h8000, \h0010, \h0020,
  \h8000, \h8020, \h0000, \h0000, \h8000, \h0000, \h0000, \h8000, \h0010, \h8020, \h8010, \h0000,
  \h0010, \h0020, \h8000, \h0020, \h0000, \h0000, \h0010, \h8000, \h0000, \h8020, \h8010, \h8000,
  \h8010, \h0000, \h0000, \h8020, \h0000, \h0000, \h0010, \h8020, \h8010, \h0020, \h0010, \h0000,
  \h8000, \h8020, \h8010, \h0000, \h8010, \h8000, \h0000, \h8000, \h8010, \h0000, \h8000, \h8000,
  \h0000, \h0020, \h8010, \h8020, \h0010, \h8020, \h0000, \h0020, \h0000, \h8000, \h8000, \h0000,
  \h0000, \h8020, \h8010, \h8000, \h0010, \h0000, \h8000, \h0020, \h0010, \h0020, \h8000, \h8020,
  \h8000, \h0020, \h0010, \h0020, \h0010, \h8000, \h0000, \h0000, \h8000, \h8000, \h0000, \h8020,
  \h8000, \h0000, \h8010, \h0020, \h8010, \h8020, \h0010, \h8000 >>, 2)
SB3 == Grouped(<<
  \h0000, \h0208, \h0802, \h0200, \h0000, \h0000, \h0802, \h0008, \h0800, \h0200, \h0000, \h0000,
  \h0002, \h0208, \h0800, \h0200, \h0002, \h0008, \h0800, \h0008, \h0800, \h0008, \h0002, \h0000,
  \h0802, \h0208, \h0002, \h0008, \h0802, \h0000, \h0000, \h0208, \h0800, \h0000, \h0000, \h0008,
  \h0802, \h0200, \h0000, \h0200, \h0002, \h0200, \h0802, \h0000, \h0802, \h0008, \h0002, \h0208,
  \h0800, \h0208, \h0002, \h0200, \h0002, \h0000, \h0800, \h0208, \h0000, \h0008, \h0802, \h0208,
  \h0000, \h0200, \h0800, \h0000, \h0802, \h0200, \h0800, \h0000, \h0002, \h0008, \h0000, \h0208,
  \h0002, \h0000, \h0802, \h0200, \h0800, \h0200, \h0000, \h0000, \h0000, \h0200, \h0002, \h0008,
  \h0802, \h0208, \h0800, \h0200, \h0800, \h0008, \h0000, \h0200, \h0000, \h0000, \h0802, \h0008,
  \h0800, \h0208, \h0002, \h0000, \h0800, \h0000, \h0802, \h0208, \h0000, \h0008, \h0002, \h0208,
  \h0002, \h0200, \h0800, \h0008, \h0802, \h0000, \h0800, \h0208, \h0000, \h0208, \h0802, \h0000,
  \h0002, \h0208, \h0000, \h0008, \h0802, \h0008, \h0002, \h0200 >>, 2)
SB4 == Grouped(<<
  \h0080, \h2001, \h0000, \h2081, \h0000, \h2081, \h0000, \h0080, \h0080, \h2080, \h0080, \h0081,
  \h0080, \h0001, \h0000, \h2001, \h0000, \h0000, \h0080, \h2000, \h0080, \h2000, \h0080, \h2081,
  \h0000, \h0081, \h0000, \h0000, \h0080, \h0080, \h0080, \h0001, \h0000, \h0001, \h0000, \h2000,
  \h0080, \h0000, \h0080, \h2001, \h0000, \h0080, \h0080, \h0000, \h0000, \h2001, \h0000, \h2080,
  \h0080, \h0081, \h0000, \h0001, \h0000, \h2080, \h0080, \h0080, \h0000, \h2000, \h0080, \h2080,
  \h0080, \h2081, \h0000, \h0081, \h0080, \h0080, \h0080, \h0001, \h0080, \h2000, \h0080, \h2081,
  \h0000, \h0081, \h0000, \h0000, \h0000, \h0000, \h0080, \h2000, \h0000, \h2080, \h0080, \h0080,
  \h0080, \h0081, \h0000, \h0001, \h0080, \h2001, \h0000, \h2081, \h0000, \h2081, \h0000, \h0080,
  \h0080, \h2081, \h0000, \h0081, \h0000, \h0001, \h0000, \h2000, \h0080, \h0001, \h0000, \h2001,
  \h0080, \h2080, \h0080, \h0081, \h0000, \h2001, \h0000, \h2080, \h0080, \h0000, \h0080, \h2001,
  \h0000, \h0080, \h0080, \h0000, \h0000, \h2000, \h0080, \h2080 >>, 2)
SB5 == Grouped(<<
  \h0000, \h0100, \h0208, \h0100, \h0208, \h0000, \h4200, \h0100, \h0008, \h0000, \h0000, \h0100,
  \h4000, \h0000, \h0208, \h0000, \h4008, \h0100, \h0008, \h0000, \h0200, \h0100, \h4008, \h0100,
  \h4200, \h0100, \h4208, \h0000, \h0008, \h0100, \h4000, \h0000, \h0200, \h0000, \h4008, \h0000,
  \h4008, \h0000, \h0000, \h0000, \h4000, \h0100, \h4208, \h0100, \h4208, \h0100, \h0200, \h0100,
  \h4208, \h0000, \h4000, \h0100, \h0000, \h0000, \h4200, \h0000, \h0208, \h0100, \h0200, \h0000,
  \h4200, \h0000, \h0008, \h0100, \h0008, \h0000, \h4200, \h0100, \h0000, \h0100, \h0200, \h0000,
  \h4000, \h0000, \h0208, \h0000, \h4200, \h0100, \h4008, \h0100, \h0200, \h0100, \h4000, \h0000,
  \h4208, \h0000, \h0208, \h0100, \h4008, \h0100, \h0000, \h0100, \h0200, \h0000, \h4208, \h0000,
  \h4208, \h0100, \h0008, \h0100, \h4200, \h0000, \h4208, \h0100, \h0208, \h0000, \h0000, \h0000,
  \h4008, \h0000, \h4200, \h0000, \h0008, \h0100, \h0200, \h0100, \h4000, \h0100, \h0008, \h0000,
  \h0000, \h0000, \h4008, \h0000, \h0208, \h0100, \h4000, \h0100 >>, 2)
SB6 == Grouped(<<
  \h2000, \h0010, \h2040, \h0000, \h0000, \h4000, \h2040, \h4010, \h2040, \h0000, \h0000, \h0010,
  \h2040, \h4010, \h0040, \h0000, \h2000, \h4000, \h0040, \h4010, \h0040, \h0000, \h2000, \h0010,
  \h0040, \h0010, \h2000, \h4000, \h2000, \h0000, \h0000, \h4010, \h0000, \h0000, \h0040, \h0010,
  \h2000, \h4010, \h0000, \h4000, \h0040, \h4000, \h2000, \h4010, \h0000, \h0010, \h2040, \h0010,
  \h2040, \h0010, \h0000, \h0000, \h0040, \h4010, \h2040, \h4000, \h0000, \h4010, \h0040, \h4000,
  \h2040, \h4000, \h2000, \h0000, \h2000, \h4000, \h0000, \h0010, \h2040, \h0010, \h0040, \h4000,
  \h2040, \h4010, \h0040, \h0000, \h0000, \h4010, \h2000, \h0010, \h0040, \h0000, \h2000, \h4000,
  \h2000, \h0000, \h0000, \h4010, \h2000, \h0010, \h2040, \h4010, \h0040, \h4000, \h2040, \h0000,
  \h0040, \h4010, \h2040, \h4000, \h0000, \h0000, \h2040, \h0010, \h0000, \h0010, \h0000, \h4000,
  \h2040, \h0000, \h0040, \h4010, \h0000, \h4000, \h0040, \h0010, \h2000, \h4010, \h0000, \h0000,
  \h2040, \h4000, \h2000, \h0000, \h0040, \h0010, \h2000, \h4010 >>, 2)
SB7 == Grouped(<<
  \h0020, \h0000, \h0420, \h0002, \h0400, \h0802, \h0000, \h0000, \h0000, \h0800, \h0400, \h0802,
  \h0020, \h0802, \h0420, \h0800, \h0420, \h0802, \h0020, \h0000, \h0000, \h0000, \h0400, \h0002,
  \h0000, \h0002, \h0400, \h0000, \h0420, \h0002, \h0000, \h0802, \h0400, \h0800, \h0020, \h0802,
  \h0020, \h0002, \h0400, \h0800, \h0400, \h0002, \h0420, \h0000, \h0420, \h0800, \h0020, \h0002,
  \h0420, \h0000, \h0000, \h0800, \h0000, \h0802, \h0420, \h0802, \h0020, \h0800, \h0000, \h0002,
  \h0400, \h0000, \h0020, \h0800, \h0400, \h0000, \h0020, \h0800, \h0020, \h0000, \h0400, \h0802,
  \h0400, \h0802, \h0420, \h0002, \h0420, \h0002, \h0000, \h0002, \h0020, \h0002, \h0400, \h0000,
  \h0400, \h0800, \h0020, \h0000, \h0420, \h0800, \h0000, \h0802, \h0020, \h0802, \h0420, \h0800,
  \h0000, \h0802, \h0400, \h0002, \h0420, \h0802, \h0420, \h0000, \h0020, \h0800, \h0000, \h0000,
  \h0000, \h0002, \h0420, \h0802, \h0000, \h0000, \h0020, \h0802, \h0420, \h0000, \h0000, \h0800,
  \h0400, \h0002, \h0400, \h0800, \h0000, \h0800, \h0020, \h0002 >>, 2)
SB8 == Grouped(<<
  \h1000, \h1040, \h0000, \h1000, \h0004, \h0000, \h1004, \h1040, \h1000, \h0000, \h1000, \h1040,
  \h0000, \h0040, \h1000, \h0000, \h0004, \h0040, \h1004, \h0000, \h1004, \h1040, \h0004, \h1000,
  \h1004, \h1000, \h0004, \h1040, \h0000, \h1000, \h0000, \h0040, \h1004, \h0000, \h1000, \h0040,
  \h1000, \h1000, \h0000, \h1040, \h0004, \h1000, \h0004, \h0040, \h1004, \h0040, \h1004, \h1000,
  \h0000, \h1040, \h0000, \h0000, \h0000, \h0000, \h1004, \h0040, \h1000, \h0040, \h1000, \h1000,
  \h0004, \h1040, \h0004, \h0000, \h0004, \h1040, \h0004, \h0000, \h1004, \h1000, \h0000, \h1000,
  \h0000, \h0040, \h1004, \h0040, \h0000, \h1000, \h0004, \h1040, \h1000, \h1000, \h0000, \h0040,
  \h1000, \h0040, \h1004, \h0000, \h1004, \h0040, \h1000, \h0000, \h0004, \h0000, \h1000, \h1040,
  \h0000, \h0000, \h1004, \h1040, \h0004, \h0040, \h1000, \h0040, \h1004, \h0000, \h1000, \h1000,
  \h1000, \h1040, \h0000, \h0000, \h1004, \h1040, \h0004, \h1000, \h0004, \h1000, \h0000, \h1040,
  \h0000, \h1040, \h0004, \h0040, \h1000, \h0000, \h1004, \h1000 >>, 2)
Subkey1 == <<
  <<"X", 4, <<\h2400, \h0000>>>>, <<"X", 28, <<\h1000, \h0000>>>>, <<"X", 14, <<\h0800, \h0000>>>>,
  <<"X", 18, <<\h0208, \h0000>>>>, <<"X", 6, <<\h0100, \h0000>>>>, <<"X", 9, <<\h0020, \h0000>>>>,
  <<"X", -1, <<\h0010, \h0000>>>>, <<"X", 10, <<\h0004, \h0000>>>>, <<"X", 2, <<\h0002, \h0000>>>>,
  <<"X", -10, <<\h0001, \h0000>>>>, <<"Y", -13, <<\h0000, \h2000>>>>, <<"Y", -4, <<\h0000, \h1000>>>>,
  <<"Y", 6, <<\h0000, \h0800>>>>, <<"Y", -1, <<\h0000, \h0400>>>>, <<"Y", -14, <<\h0000, \h0200>>>>,
  <<"Y", 0, <<\h0000, \h0100>>>>, <<"Y", -5, <<\h0000, \h0020>>>>, <<"Y", -10, <<\h0000, \h0010>>>>,
  <<"Y", -3, <<\h0000, \h0008>>>>, <<"Y", -18, <<\h0000, \h0004>>>>, <<"Y", -26, <<\h0000, \h0002>>>>,
  <<"Y", -24, <<\h0000, \h0001>>>> >>
Subkey2 == <<
  <<"X", 15, <<\h2000, \h0000>>>>, <<"X", 17, <<\h1000, \h0000>>>>, <<"X", 10, <<\h0800, \h0000>>>>,
  <<"X", 22, <<\h0400, \h0000>>>>, <<"X", -2, <<\h0200, \h0000>>>>, <<"X", 1, <<\h0100, \h0000>>>>,
  <<"X", 16, <<\h0020, \h0000>>>>, <<"X", 11, <<\h0010, \h0000>>>>, <<"X", 3, <<\h0008, \h0000>>>>,
  <<"X", -6, <<\h0004, \h0000>>>>, <<"X", 15, <<\h0002, \h0000>>>>, <<"X", -4, <<\h0001, \h0000>>>>,
  <<"Y", -2, <<\h0000, \h2000>>>>, <<"Y", 8, <<\h0000, \h1000>>>>, <<"Y", -14, <<\h0000, \h0808>>>>,
  <<"Y", -9, <<\h0000, \h0400>>>>, <<"Y", 0, <<\h0000, \h0200>>>>, <<"Y", 7, <<\h0000, \h0100>>>>,
  <<"Y", -7, <<\h0000, \h0020>>>>, <<"Y", -3, <<\h0000, \h0011>>>>, <<"Y", 2, <<\h0000, \h0004>>>>,
  <<"Y", -21, <<\h0000, \h0002>>>> >>
LHs == Grouped(<<
  \h0000, \h0000, \h0000, \h0001, \h0000, \h0100, \h0000, \h0101, \h0001, \h0000, \h0001, \h0001,
  \h0001, \h0100, \h0001, \h0101, \h0100, \h0000, \h0100, \h0001, \h0100, \h0100, \h0100, \h0101,
  \h0101, \h0000, \h0101, \h0001, \h0101, \h0100, \h0101, \h0101 >>, 2)
RHs == Grouped(<<
  \h0000, \h0000, \h0100, \h0000, \h0001, \h0000, \h0101, \h0000, \h0000, \h0100, \h0100, \h0100,
  \h0001, \h0100, \h0101, \h0100, \h0000, \h0001, \h0100, \h0001, \h0001, \h0001, \h0101, \h0001,
  \h0000, \h0101, \h0100, \h0101, \h0001, \h0101, \h0101, \h0101 >>, 2)

\* T = ((x >> n) ^ y) & mask; y ^= T; x ^= T << n
Exchange(x, y, n, mask) ==
  LET t == And(Xor(Shr(x, n), y), mask) IN <<Xor(x, Shl(t, n)), Xor(y, t)>>
M0F == <<\h0F0F, \h0F0F>>
M10 == <<\h1010, \h1010>>
M33 == <<\h3333, \h3333>>
MFF == <<\h00FF, \h00FF>>
MAA == <<\hAAAA, \hAAAA>>
MLO == <<0, \hFFFF>>
M28 == <<\h0FFF, \hFFFF>>

\* DES_IP and DES_FP, both of which answer the words as they are named.
DesIp(X, Y) ==
  LET a == Exchange(X, Y, 4, M0F)
      b == Exchange(a[1], a[2], 16, MLO)
      c == Exchange(b[2], b[1], 2, M33)
      d == Exchange(c[1], c[2], 8, MFF)
      e == Exchange(d[2], Rotl(d[1], 1), 0, MAA)
  IN <<Rotl(e[1], 1), e[2]>>
DesFp(X, Y) ==
  LET e == Exchange(Rotr(X, 1), Y, 0, MAA)
      d == Exchange(Rotr(e[2], 1), e[1], 8, MFF)
      c == Exchange(d[1], d[2], 2, M33)
      b == Exchange(c[2], c[1], 16, MLO)
  IN Exchange(b[1], b[2], 4, M0F)

\* DES_ROUND: six bits of each byte choose from a table.
Six(t, n) == (Shr(t, n)[2] % 64) + 1
DesRound(X, Y, k1, k2) ==
  LET t == Xor(k1, X)
      u == Xor(k2, Rotr(X, 4))
  IN Xor(Xor3(Y, Xor(SB8[Six(t, 0)], SB6[Six(t, 8)]), Xor(SB4[Six(t, 16)], SB2[Six(t, 24)])),
         Xor(Xor(SB7[Six(u, 0)], SB5[Six(u, 8)]), Xor(SB3[Six(u, 16)], SB1[Six(u, 24)])))
RECURSIVE DesRounds(_)
DesRounds(s) ==             \* s: the words, and the subkeys left; the words at the end
  IF s[3] = <<>> THEN s
  ELSE LET X == DesRound(s[2], s[1], s[3][1], s[3][2])
       IN DesRounds(<<X, DesRound(X, s[2], s[3][3], s[3][4]), Drop(s[3], 4)>>)
DesCryptEcb(sk, input) ==
  LET w == BigEndian(input, 2)
      p == DesIp(w[1], w[2])
      r == DesRounds(p \o <<sk>>)
      f == DesFp(r[2], r[1])
  IN ToBigEndian(f)

\* des_setkey
RECURSIVE OrAll(_)
OrAll(ws) == IF ws = <<>> THEN <<0, 0>> ELSE Or(Head(ws), OrAll(Tail(ws)))
Permuted(w, table, places) ==
  LET Part(p) == Shl(table[(Shr(w, p[1])[2] % 16) + 1], p[2])
  IN And(OrAll(Strict([i \in 1..Len(places) |-> Part(places[i])])), M28)
Turn28(w, n) == And(Or(Shl(w, n), Shr(w, 28 - n)), M28)
Gather(X, Y, entries) ==
  LET Part(e) == LET w == IF e[1] = "X" THEN X ELSE Y
                 IN And(IF e[2] >= 0 THEN Shl(w, e[2]) ELSE Shr(w, -e[2]), e[3])
  IN OrAll(Strict([i \in 1..Len(entries) |-> Part(entries[i])]))
RECURSIVE Subkeys(_)
Subkeys(s) ==               \* s: both halves, the round, the subkeys so far
  IF s[3] = 16 THEN s[4]
  ELSE LET n == IF s[3] \in {0, 1, 8, 15} THEN 1 ELSE 2
           X == Turn28(s[1], n)
           Y == Turn28(s[2], n)
       IN Subkeys(<<X, Y, s[3] + 1, s[4] \o <<Gather(X, Y, Subkey1), Gather(X, Y, Subkey2)>>>>)
DesSetkey(key) ==
  LET w == BigEndian(key, 2)
      a == Exchange(w[2], w[1], 4, M0F)
      b == Exchange(a[1], a[2], 0, M10)
  IN Subkeys(<<Permuted(b[2], LHs, <<<<0, 3>>, <<8, 2>>, <<16, 1>>, <<24, 0>>,
                                   <<5, 7>>, <<13, 6>>, <<21, 5>>, <<29, 4>>>>),
             Permuted(b[1], RHs, <<<<1, 3>>, <<9, 2>>, <<17, 1>>, <<25, 0>>,
                                   <<4, 7>>, <<12, 6>>, <<20, 5>>, <<28, 4>>>>), 0, <<>>>>)

\* The subkeys of the rounds in the other order, those of a round as they were.
Backwards(sk) ==
  Strict([i \in 1..Len(sk) |-> sk[IF i % 2 = 1 THEN Len(sk) - i ELSE Len(sk) - i + 2]])
DesSetkeyEnc(key) == DesSetkey(key)
DesSetkeyDec(key) == Backwards(DesSetkey(key))

\* des3_set2key and des3_set3key: encrypting, decrypting and encrypting again.
Des3Set2keyEnc(key) ==
  LET e == DesSetkey(Take(key, 8)) IN e \o Backwards(DesSetkey(Drop(key, 8))) \o e
Des3Set2keyDec(key) == Backwards(Des3Set2keyEnc(key))
Des3Set3keyEnc(key) ==
  DesSetkey(Take(key, 8)) \o Backwards(DesSetkey(SubSeq(key, 9, 16))) \o DesSetkey(Drop(key, 16))
Des3Set3keyDec(key) == Backwards(Des3Set3keyEnc(key))

\* des3_crypt_ecb: the words change places between the three.
Des3CryptEcb(sk, input) ==
  LET w == BigEndian(input, 2)
      p == DesIp(w[1], w[2])
      a == DesRounds(p \o <<Take(sk, 32)>>)
      b == DesRounds(<<a[2], a[1], SubSeq(sk, 33, 64)>>)
      c == DesRounds(<<b[2], b[1], Drop(sk, 64)>>)
  IN ToBigEndian(DesFp(c[2], c[1]))

\* The parity of each byte of a key, and the keys that are their own undoing.
OddParity(half) ==
  LET ones == {k \in 0..6 : (half \div 2^k) % 2 = 1}
      Odd(S) == \E T \in SUBSET S : 2 * Cardinality(T) + 1 = Cardinality(S)
  IN (2 * half) + (IF Odd(ones) THEN 0 ELSE 1)
DesKeySetParity(key) == Strict([i \in 1..8 |-> OddParity(key[i] \div 2)])
DesKeyCheckKeyParity(key) == key = DesKeySetParity(key)
Pattern(a, b, c, d) == <<a, b, a, b, c, d, c, d>>
WeakKeys ==
  LET E0 == \hE0 F1 == \hF1 FE == \hFE
  IN {Pattern(1, 1, 1, 1), Pattern(FE, FE, FE, FE), Pattern(31, 31, 14, 14),
      Pattern(E0, E0, F1, F1),
      Pattern(1, 31, 1, 14), Pattern(31, 1, 14, 1), Pattern(1, E0, 1, F1), Pattern(E0, 1, F1, 1),
      Pattern(1, FE, 1, FE), Pattern(FE, 1, FE, 1), Pattern(31, E0, 14, F1),
      Pattern(E0, 31, F1, 14), Pattern(31, FE, 14, FE), Pattern(FE, 31, FE, 14),
      Pattern(E0, FE, F1, FE), Pattern(FE, E0, FE, F1)}
DesKeyCheckWeak(key) == key \in WeakKeys

-----------------------------------------------------------------------------
(* Camellia                                                                *)

CamelliaSbox == <<
  112, 130,  44, 236, 179,  39, 192, 229, 228, 133,  87,  53, 234,  12, 174,  65,  35, 239, 107, 147,
   69,  25, 165,  33, 237,  14,  79,  78,  29, 101, 146, 189, 134, 184, 175, 143, 124, 235,  31, 206,
   62,  48, 220,  95,  94, 197,  11,  26, 166, 225,  57, 202, 213,  71,  93,  61, 217,   1,  90, 214,
   81,  86, 108,  77, 139,  13, 154, 102, 251, 204, 176,  45, 116,  18,  43,  32, 240, 177, 132, 153,
  223,  76, 203, 194,  52, 126, 118,   5, 109, 183, 169,  49, 209,  23,   4, 215,  20,  88,  58,  97,
  222,  27,  17,  28,  50,  15, 156,  22,  83,  24, 242,  34, 254,  68, 207, 178, 195, 181, 122, 145,
   36,   8, 232, 168,  96, 252, 105,  80, 170, 208, 160, 125, 161, 137,  98, 151,  84,  91,  30, 149,
  224, 255, 100, 210,  16, 196,   0,  72, 163, 247, 117, 219, 138,   3, 230, 218,   9,  63, 221, 148,
  135,  92, 131,   2, 205,  74, 144,  51, 115, 103, 246, 243, 157, 127, 191, 226,  82, 155, 216,  38,
  200,  55, 198,  59, 129, 150, 111,  75,  19, 190,  99,  46, 233, 121, 167, 140, 159, 110, 188, 142,
   41, 245, 249, 182,  47, 253, 180,  89, 120, 152,   6, 106, 231,  70, 113, 186, 212,  37, 171,  66,
  136, 162, 141, 250, 114,   7, 185,  85, 248, 238, 172,  10,  54,  73,  42, 104,  60,  56, 241, 164,
   64,  40, 211, 123, 187, 201,  67, 193,  21, 227, 173, 244, 119, 199, 128, 158 >>
SBOX1(n) == CamelliaSbox[n + 1]
SBOX2(n) == Shl1(SBOX1(n))
SBOX3(n) == (SBOX1(n) \div 2) + ((128 * SBOX1(n)) % 256)
SBOX4(n) == SBOX1(Shl1(n))

SIGMA == Grouped(Grouped(<<
  \hA09E, \h667F, \h3BCC, \h908B, \hB67A, \hE858, \h4CAA, \h73B2, \hC6EF, \h372F, \hE94F, \h82BE,
  \h54FF, \h53A5, \hF1D3, \h6F1C, \h10E5, \h27FA, \hDE68, \h2D1D, \hB056, \h88C2, \hB3E6, \hC1FD >>, 2), 2)

\* camellia_feistel: what is added to z
CamelliaF(x0, x1, k0, k1) ==
  LET a == ToBigEndian(<<Xor(x0, k0)>>)
      b == ToBigEndian(<<Xor(x1, k1)>>)
      i0 == BigEndian(<<SBOX1(a[1]), SBOX2(a[2]), SBOX3(a[3]), SBOX4(a[4])>>, 2)[1]
      i1 == BigEndian(<<SBOX2(b[1]), SBOX3(b[2]), SBOX4(b[3]), SBOX1(b[4])>>, 2)[1]
      j0 == Xor(i0, Rotl(i1, 8))
      j1 == Xor(i1, Rotl(j0, 16))
      l0 == Xor(j0, Rotr(j1, 8))
      l1 == Xor(j1, Rotr(l0, 8))
  IN <<l1, l0>>
\* One round from the first two of four words to the last two, and one back.
Feistel(X, k0, k1) ==
  LET f == CamelliaF(X[1], X[2], k0, k1) IN <<X[1], X[2], Xor(X[3], f[1]), Xor(X[4], f[2])>>
FeistelBack(X, k0, k1) ==
  LET f == CamelliaF(X[3], X[4], k0, k1) IN <<Xor(X[1], f[1]), Xor(X[2], f[2]), X[3], X[4]>>
FL(X, k0, k1) ==
  LET r == Xor(Rotl(And(X[1], k0), 1), X[2]) IN <<Xor(Or(r, k1), X[1]), r, X[3], X[4]>>
FLInv(X, k0, k1) ==
  LET l == Xor(Or(X[4], k1), X[3]) IN <<X[1], X[2], l, Xor(Rotl(And(l, k0), 1), X[4])>>

\* Where the words of KL, KR, KA and KB go, turned by 15 bits time and again.
Indexes == Grouped(Grouped(<<
   0,  1,  2,  3,  8,  9, 10, 11, 38, 39, 36, 37, 23, 20, 21, 22, 27, -1, -1, 26,
  -1, -1, -1, -1, -1, -1, -1, -1, -1, -1, -1, -1, -1, -1, -1, -1, -1, -1, -1, -1,
   4,  5,  6,  7, 12, 13, 14, 15, 16, 17, 18, 19, -1, 24, 25, -1, 31, 28, 29, 30,
  -1, -1, -1, -1, -1, -1, -1, -1, -1, -1, -1, -1, -1, -1, -1, -1, -1, -1, -1, -1,
   0,  1,  2,  3, 61, 62, 63, 60, -1, -1, -1, -1, 27, 24, 25, 26, 35, 32, 33, 34,
  -1, -1, -1, -1,  8,  9, 10, 11, 16, 17, 18, 19, -1, -1, -1, -1, 39, 36, 37, 38,
  -1, -1, -1, -1, 12, 13, 14, 15, 58, 59, 56, 57, 31, 28, 29, 30, -1, -1, -1, -1,
   4,  5,  6,  7, 65, 66, 67, 64, 20, 21, 22, 23, -1, -1, -1, -1, 43, 40, 41, 42 >>, 20), 4)
Transposes == Grouped(<<
  21, 22, 23, 20, -1, -1, -1, -1, 18, 19, 16, 17, 11,  8,  9, 10, 15, 12, 13, 14,
  25, 26, 27, 24, 29, 30, 31, 28, 18, 19, 16, 17, -1, -1, -1, -1, -1, -1, -1, -1 >>, 20)

\* A word of four words turned by less than 32 bits (ROTL)
Turn128(K, n) ==
  Strict([i \in 1..4 |-> Xor(Shl(K[i], n), Shr(K[(i % 4) + 1], 32 - n))])
TK(K) == K \o Turn128(K, 15) \o Turn128(K, 30) \o Turn128(K, 13) \o Turn128(K, 28)

CamelliaSetkeyEnc(key) ==
  LET size == Len(key)
      idx == IF size = 16 THEN 1 ELSE 2
      t == CASE size = 16 -> key \o Zeros(16)
             [] size = 24 -> key \o [i \in 1..8 |-> 255 - key[16 + i]]
             [] size = 32 -> key
      w == BigEndian(t, 2)
      KL == Take(w, 4)
      KR == Drop(w, 4)
      Twice(K, s) == FeistelBack(Feistel(K, SIGMA[s][1], SIGMA[s][2]),
                                 SIGMA[s + 1][1], SIGMA[s + 1][2])
      XorAll(a, b) == Strict([i \in 1..4 |-> Xor(a[i], b[i])])
      KA == Twice(XorAll(Twice(XorAll(KL, KR), 1), KL), 3)
      KB == Twice(XorAll(KR, KA), 5)
      tks == <<TK(KL), TK(KR), TK(KA), TK(KB)>>
      used == IF size = 16 THEN {1, 3} ELSE {1, 2, 3, 4}
      Placed(i) == {p \in used \X (1..20) : Indexes[idx][p[1]][p[2]] = i}
      first == Strict([i \in 1..68 |->
                 IF Placed(i - 1) = {} THEN <<0, 0>>
                 ELSE LET p == CHOOSE p \in Placed(i - 1) : TRUE IN tks[p[1]][p[2]]])
      Moved(i) == i - (32 + 12 * (idx - 1))
  IN IF size \notin {16, 24, 32} THEN [ok |-> FALSE]
     ELSE [ok |-> TRUE, nr |-> 2 + idx,
           rk |-> Strict([i \in 1..68 |->
                    IF Moved(i) \in 1..20 /\ Transposes[idx][Moved(i)] # -1
                    THEN first[Transposes[idx][Moved(i)] + 1] ELSE first[i]])]

\* camellia_setkey_dec: pairs of words in the other order, fours at both ends.
CamelliaSetkeyDec(key) ==
  LET c == CamelliaSetkeyEnc(key)
      n == 24 * 2 + 8 * (c.nr - 3) * 2
      Pair(i) == <<c.rk[n - 2 * i + 1], c.rk[n - 2 * i + 2]>>
      RECURSIVE Pairs(_)
      Pairs(i) == IF i > (n \div 2) - 2 THEN <<>> ELSE Pair(i) \o Pairs(i + 1)
  IN IF ~c.ok THEN c
     ELSE [c EXCEPT !.rk = SubSeq(c.rk, n + 1, n + 4) \o Pairs(1) \o SubSeq(c.rk, 1, 4)]

Six3(X, rk) ==
  FeistelBack(Feistel(FeistelBack(Feistel(FeistelBack(Feistel(X, rk[1], rk[2]), rk[3], rk[4]),
    rk[5], rk[6]), rk[7], rk[8]), rk[9], rk[10]), rk[11], rk[12])
RECURSIVE CamelliaRounds(_)
CamelliaRounds(s) ==        \* s: the words, the round keys left, how many times
  LET rk == s[2] nr == s[3] Y == Six3(s[1], rk)
  IN IF nr = 1 THEN Strict([i \in 1..4 |-> Xor(Y[((i + 1) % 4) + 1], rk[12 + i])])
     ELSE CamelliaRounds(<<FLInv(FL(Y, rk[13], rk[14]), rk[15], rk[16]), Drop(rk, 16), nr - 1>>)
CamelliaCryptEcb(ctx, input) ==
  LET w == BigEndian(input, 2)
  IN ToBigEndian(CamelliaRounds(<<Strict([i \in 1..4 |-> Xor(w[i], ctx.rk[i])]),
                                  Drop(ctx.rk, 4), ctx.nr>>))

-----------------------------------------------------------------------------
(* XTEA                                                                    *)

DELTA == <<\h9E37, \h79B9>>
Minus(a, b) == Add(a, Add(Not(b), <<0, 1>>))
XteaSetup(key) == BigEndian(key, 2)
XteaMix(v, sum, k) == Xor(Add(Xor(Shl(v, 4), Shr(v, 5)), v), Add(sum, k))
XteaKey(k, sum) == k[(sum[2] % 4) + 1]
XteaKey11(k, sum) == k[(Shr(sum, 11)[2] % 4) + 1]
RECURSIVE XteaEncrypt(_, _)
XteaEncrypt(k, v) ==        \* v: the two words, sum, i
  IF v[4] = 32 THEN <<v[1], v[2]>>
  ELSE LET v0 == Add(v[1], XteaMix(v[2], v[3], XteaKey(k, v[3])))
           sum == Add(v[3], DELTA)
           v1 == Add(v[2], XteaMix(v0, sum, XteaKey11(k, sum)))
       IN XteaEncrypt(k, <<v0, v1, sum, v[4] + 1>>)
RECURSIVE XteaDecrypt(_, _)
XteaDecrypt(k, v) ==
  IF v[4] = 32 THEN <<v[1], v[2]>>
  ELSE LET v1 == Minus(v[2], XteaMix(v[1], v[3], XteaKey11(k, v[3])))
           sum == Minus(v[3], DELTA)
           v0 == Minus(v[1], XteaMix(v1, sum, XteaKey(k, sum)))
       IN XteaDecrypt(k, <<v0, v1, sum, v[4] + 1>>)
XteaCryptEcb(k, mode, input) ==
  LET v == BigEndian(input, 2)
  IN ToBigEndian(IF mode = ENCRYPT THEN XteaEncrypt(k, v \o <<<<0, 0>>, 0>>)
                 ELSE XteaDecrypt(k, v \o <<Shl(DELTA, 5), 0>>))

-----------------------------------------------------------------------------
(* ARC4                                                                    *)

Swap(m, i, j) == [m EXCEPT ![i] = m[j], ![j] = m[i]]
RECURSIVE Arc4Schedule(_)
Arc4Schedule(s) ==     \* s: the key, the table, i and j
  IF s.i = 256 THEN s.m
  ELSE LET j == (s.j + s.m[s.i] + s.key[(s.i % Len(s.key)) + 1]) % 256
       IN Arc4Schedule([s EXCEPT !.m = Swap(s.m, s.i, j), !.i = @ + 1, !.j = j])
Arc4Setup(key) ==
  [x |-> 0, y |-> 0,
   m |-> Arc4Schedule([key |-> key, m |-> [i \in Bytes256 |-> i], i |-> 0, j |-> 0])]
RECURSIVE Arc4Bytes(_)
Arc4Bytes(s) ==        \* s: ctx, what is left of the input, and what came out
  IF s.input = <<>> THEN s
  ELSE LET ctx == s.ctx
           x == (ctx.x + 1) % 256
           a == ctx.m[x]
           y == (ctx.y + a) % 256
           b == ctx.m[y]
           m == Swap(ctx.m, x, y)
       IN Arc4Bytes([ctx |-> [x |-> x, y |-> y, m |-> m], input |-> Tail(s.input),
                     out |-> Append(s.out, XorN(Head(s.input), m[(a + b) % 256]))])
Arc4Crypt(ctx, input) == Arc4Bytes([ctx |-> ctx, input |-> input, out |-> <<>>])

-----------------------------------------------------------------------------
(* Blowfish                                                                *)

BlowfishP == Grouped(<<
  \h243F, \h6A88, \h85A3, \h08D3, \h1319, \h8A2E, \h0370, \h7344, \hA409, \h3822, \h299F, \h31D0,
  \h082E, \hFA98, \hEC4E, \h6C89, \h4528, \h21E6, \h38D0, \h1377, \hBE54, \h66CF, \h34E9, \h0C6C,
  \hC0AC, \h29B7, \hC97C, \h50DD, \h3F84, \hD5B5, \hB547, \h0917, \h9216, \hD5D9, \h8979, \hFB1B >>, 2)
BlowfishS1 == Grouped(<<
  \hD131, \h0BA6, \h98DF, \hB5AC, \h2FFD, \h72DB, \hD01A, \hDFB7, \hB8E1, \hAFED, \h6A26, \h7E96,
  \hBA7C, \h9045, \hF12C, \h7F99, \h24A1, \h9947, \hB391, \h6CF7, \h0801, \hF2E2, \h858E, \hFC16,
  \h6369, \h20D8, \h7157, \h4E69, \hA458, \hFEA3, \hF493, \h3D7E, \h0D95, \h748F, \h728E, \hB658,
  \h718B, \hCD58, \h8215, \h4AEE, \h7B54, \hA41D, \hC25A, \h59B5, \h9C30, \hD539, \h2AF2, \h6013,
  \hC5D1, \hB023, \h2860, \h85F0, \hCA41, \h7918, \hB8DB, \h38EF, \h8E79, \hDCB0, \h603A, \h180E,
  \h6C9E, \h0E8B, \hB01E, \h8A3E, \hD715, \h77C1, \hBD31, \h4B27, \h78AF, \h2FDA, \h5560, \h5C60,
  \hE655, \h25F3, \hAA55, \hAB94, \h5748, \h9862, \h63E8, \h1440, \h55CA, \h396A, \h2AAB, \h10B6,
  \hB4CC, \h5C34, \h1141, \hE8CE, \hA154, \h86AF, \h7C72, \hE993, \hB3EE, \h1411, \h636F, \hBC2A,
  \h2BA9, \hC55D, \h7418, \h31F6, \hCE5C, \h3E16, \h9B87, \h931E, \hAFD6, \hBA33, \h6C24, \hCF5C,
  \h7A32, \h5381, \h2895, \h8677, \h3B8F, \h4898, \h6B4B, \hB9AF, \hC4BF, \hE81B, \h6628, \h2193,
  \h61D8, \h09CC, \hFB21, \hA991, \h487C, \hAC60, \h5DEC, \h8032, \hEF84, \h5D5D, \hE985, \h75B1,
  \hDC26, \h2302, \hEB65, \h1B88, \h2389, \h3E81, \hD396, \hACC5, \h0F6D, \h6FF3, \h83F4, \h4239,
  \h2E0B, \h4482, \hA484, \h2004, \h69C8, \hF04A, \h9E1F, \h9B5E, \h21C6, \h6842, \hF6E9, \h6C9A,
  \h670C, \h9C61, \hABD3, \h88F0, \h6A51, \hA0D2, \hD854, \h2F68, \h960F, \hA728, \hAB51, \h33A3,
  \h6EEF, \h0B6C, \h137A, \h3BE4, \hBA3B, \hF050, \h7EFB, \h2A98, \hA1F1, \h651D, \h39AF, \h0176,
  \h66CA, \h593E, \h8243, \h0E88, \h8CEE, \h8619, \h456F, \h9FB4, \h7D84, \hA5C3, \h3B8B, \h5EBE,
  \hE06F, \h75D8, \h85C1, \h2073, \h401A, \h449F, \h56C1, \h6AA6, \h4ED3, \hAA62, \h363F, \h7706,
  \h1BFE, \hDF72, \h429B, \h023D, \h37D0, \hD724, \hD00A, \h1248, \hDB0F, \hEAD3, \h49F1, \hC09B,
  \h0753, \h72C9, \h8099, \h1B7B, \h25D4, \h79D8, \hF6E8, \hDEF7, \hE3FE, \h501A, \hB679, \h4C3B,
  \h976C, \hE0BD, \h04C0, \h06BA, \hC1A9, \h4FB6, \h409F, \h60C4, \h5E5C, \h9EC2, \h196A, \h2463,
  \h68FB, \h6FAF, \h3E6C, \h53B5, \h1339, \hB2EB, \h3B52, \hEC6F, \h6DFC, \h511F, \h9B30, \h952C,
  \hCC81, \h4544, \hAF5E, \hBD09, \hBEE3, \hD004, \hDE33, \h4AFD, \h660F, \h2807, \h192E, \h4BB3,
  \hC0CB, \hA857, \h45C8, \h740F, \hD20B, \h5F39, \hB9D3, \hFBDB, \h5579, \hC0BD, \h1A60, \h320A,
  \hD6A1, \h00C6, \h402C, \h7279, \h679F, \h25FE, \hFB1F, \hA3CC, \h8EA5, \hE9F8, \hDB32, \h22F8,
  \h3C75, \h16DF, \hFD61, \h6B15, \h2F50, \h1EC8, \hAD05, \h52AB, \h323D, \hB5FA, \hFD23, \h8760,
  \h5331, \h7B48, \h3E00, \hDF82, \h9E5C, \h57BB, \hCA6F, \h8CA0, \h1A87, \h562E, \hDF17, \h69DB,
  \hD542, \hA8F6, \h287E, \hFFC3, \hAC67, \h32C6, \h8C4F, \h5573, \h695B, \h27B0, \hBBCA, \h58C8,
  \hE1FF, \hA35D, \hB8F0, \h11A0, \h10FA, \h3D98, \hFD21, \h83B8, \h4AFC, \hB56C, \h2DD1, \hD35B,
  \h9A53, \hE479, \hB6F8, \h4565, \hD28E, \h49BC, \h4BFB, \h9790, \hE1DD, \hF2DA, \hA4CB, \h7E33,
  \h62FB, \h1341, \hCEE4, \hC6E8, \hEF20, \hCADA, \h3677, \h4C01, \hD07E, \h9EFE, \h2BF1, \h1FB4,
  \h95DB, \hDA4D, \hAE90, \h9198, \hEAAD, \h8E71, \h6B93, \hD5A0, \hD08E, \hD1D0, \hAFC7, \h25E0,
  \h8E3C, \h5B2F, \h8E75, \h94B7, \h8FF6, \hE2FB, \hF212, \h2B64, \h8888, \hB812, \h900D, \hF01C,
  \h4FAD, \h5EA0, \h688F, \hC31C, \hD1CF, \hF191, \hB3A8, \hC1AD, \h2F2F, \h2218, \hBE0E, \h1777,
  \hEA75, \h2DFE, \h8B02, \h1FA1, \hE5A0, \hCC0F, \hB56F, \h74E8, \h18AC, \hF3D6, \hCE89, \hE299,
  \hB4A8, \h4FE0, \hFD13, \hE0B7, \h7CC4, \h3B81, \hD2AD, \hA8D9, \h165F, \hA266, \h8095, \h7705,
  \h93CC, \h7314, \h211A, \h1477, \hE6AD, \h2065, \h77B5, \hFA86, \hC754, \h42F5, \hFB9D, \h35CF,
  \hEBCD, \hAF0C, \h7B3E, \h89A0, \hD641, \h1BD3, \hAE1E, \h7E49, \h0025, \h0E2D, \h2071, \hB35E,
  \h2268, \h00BB, \h57B8, \hE0AF, \h2464, \h369B, \hF009, \hB91E, \h5563, \h911D, \h59DF, \hA6AA,
  \h78C1, \h4389, \hD95A, \h537F, \h207D, \h5BA2, \h02E5, \hB9C5, \h8326, \h0376, \h6295, \hCFA9,
  \h11C8, \h1968, \h4E73, \h4A41, \hB347, \h2DCA, \h7B14, \hA94A, \h1B51, \h0052, \h9A53, \h2915,
  \hD60F, \h573F, \hBC9B, \hC6E4, \h2B60, \hA476, \h81E6, \h7400, \h08BA, \h6FB5, \h571B, \hE91F,
  \hF296, \hEC6B, \h2A0D, \hD915, \hB663, \h6521, \hE7B9, \hF9B6, \hFF34, \h052E, \hC585, \h5664,
  \h53B0, \h2D5D, \hA99F, \h8FA1, \h08BA, \h4799, \h6E85, \h076A >>, 2)
BlowfishS2 == Grouped(<<
  \h4B7A, \h70E9, \hB5B3, \h2944, \hDB75, \h092E, \hC419, \h2623, \hAD6E, \hA6B0, \h49A7, \hDF7D,
  \h9CEE, \h60B8, \h8FED, \hB266, \hECAA, \h8C71, \h699A, \h17FF, \h5664, \h526C, \hC2B1, \h9EE1,
  \h1936, \h02A5, \h7509, \h4C29, \hA059, \h1340, \hE418, \h3A3E, \h3F54, \h989A, \h5B42, \h9D65,
  \h6B8F, \hE4D6, \h99F7, \h3FD6, \hA1D2, \h9C07, \hEFE8, \h30F5, \h4D2D, \h38E6, \hF025, \h5DC1,
  \h4CDD, \h2086, \h8470, \hEB26, \h6382, \hE9C6, \h021E, \hCC5E, \h0968, \h6B3F, \h3EBA, \hEFC9,
  \h3C97, \h1814, \h6B6A, \h70A1, \h687F, \h3584, \h52A0, \hE286, \hB79C, \h5305, \hAA50, \h0737,
  \h3E07, \h841C, \h7FDE, \hAE5C, \h8E7D, \h44EC, \h5716, \hF2B8, \hB03A, \hDA37, \hF050, \h0C0D,
  \hF01C, \h1F04, \h0200, \hB3FF, \hAE0C, \hF51A, \h3CB5, \h74B2, \h2583, \h7A58, \hDC09, \h21BD,
  \hD191, \h13F9, \h7CA9, \h2FF6, \h9432, \h4773, \h22F5, \h4701, \h3AE5, \hE581, \h37C2, \hDADC,
  \hC8B5, \h7634, \h9AF3, \hDDA7, \hA944, \h6146, \h0FD0, \h030E, \hECC8, \hC73E, \hA475, \h1E41,
  \hE238, \hCD99, \h3BEA, \h0E2F, \h3280, \hBBA1, \h183E, \hB331, \h4E54, \h8B38, \h4F6D, \hB908,
  \h6F42, \h0D03, \hF60A, \h04BF, \h2CB8, \h1290, \h2497, \h7C79, \h5679, \hB072, \hBCAF, \h89AF,
  \hDE9A, \h771F, \hD993, \h0810, \hB38B, \hAE12, \hDCCF, \h3F2E, \h5512, \h721F, \h2E6B, \h7124,
  \h501A, \hDDE6, \h9F84, \hCD87, \h7A58, \h4718, \h7408, \hDA17, \hBC9F, \h9ABC, \hE94B, \h7D8C,
  \hEC7A, \hEC3A, \hDB85, \h1DFA, \h6309, \h4366, \hC464, \hC3D2, \hEF1C, \h1847, \h3215, \hD908,
  \hDD43, \h3B37, \h24C2, \hBA16, \h12A1, \h4D43, \h2A65, \hC451, \h5094, \h0002, \h133A, \hE4DD,
  \h71DF, \hF89E, \h1031, \h4E55, \h81AC, \h77D6, \h5F11, \h199B, \h0435, \h56F1, \hD7A3, \hC76B,
  \h3C11, \h183B, \h5924, \hA509, \hF28F, \hE6ED, \h97F1, \hFBFA, \h9EBA, \hBF2C, \h1E15, \h3C6E,
  \h86E3, \h4570, \hEAE9, \h6FB1, \h860E, \h5E0A, \h5A3E, \h2AB3, \h771F, \hE71C, \h4E3D, \h06FA,
  \h2965, \hDCB9, \h99E7, \h1D0F, \h803E, \h89D6, \h5266, \hC825, \h2E4C, \hC978, \h9C10, \hB36A,
  \hC615, \h0EBA, \h94E2, \hEA78, \hA5FC, \h3C53, \h1E0A, \h2DF4, \hF2F7, \h4EA7, \h361D, \h2B3D,
  \h1939, \h260F, \h19C2, \h7960, \h5223, \hA708, \hF713, \h12B6, \hEBAD, \hFE6E, \hEAC3, \h1F66,
  \hE3BC, \h4595, \hA67B, \hC883, \hB17F, \h37D1, \h018C, \hFF28, \hC332, \hDDEF, \hBE6C, \h5AA5,
  \h6558, \h2185, \h68AB, \h9802, \hEECE, \hA50F, \hDB2F, \h953B, \h2AEF, \h7DAD, \h5B6E, \h2F84,
  \h1521, \hB628, \h2907, \h6170, \hECDD, \h4775, \h619F, \h1510, \h13CC, \hA830, \hEB61, \hBD96,
  \h0334, \hFE1E, \hAA03, \h63CF, \hB573, \h5C90, \h4C70, \hA239, \hD59E, \h9E0B, \hCBAA, \hDE14,
  \hEECC, \h86BC, \h6062, \h2CA7, \h9CAB, \h5CAB, \hB2F3, \h846E, \h648B, \h1EAF, \h19BD, \hF0CA,
  \hA023, \h69B9, \h655A, \hBB50, \h4068, \h5A32, \h3C2A, \hB4B3, \h319E, \hE9D5, \hC021, \hB8F7,
  \h9B54, \h0B19, \h875F, \hA099, \h95F7, \h997E, \h623D, \h7DA8, \hF837, \h889A, \h97E3, \h2D77,
  \h11ED, \h935F, \h1668, \h1281, \h0E35, \h8829, \hC7E6, \h1FD6, \h96DE, \hDFA1, \h7858, \hBA99,
  \h57F5, \h84A5, \h1B22, \h7263, \h9B83, \hC3FF, \h1AC2, \h4696, \hCDB3, \h0AEB, \h532E, \h3054,
  \h8FD9, \h48E4, \h6DBC, \h3128, \h58EB, \hF2EF, \h34C6, \hFFEA, \hFE28, \hED61, \hEE7C, \h3C73,
  \h5D4A, \h14D9, \hE864, \hB7E3, \h4210, \h5D14, \h203E, \h13E0, \h45EE, \hE2B6, \hA3AA, \hABEA,
  \hDB6C, \h4F15, \hFACB, \h4FD0, \hC742, \hF442, \hEF6A, \hBBB5, \h654F, \h3B1D, \h41CD, \h2105,
  \hD81E, \h799E, \h8685, \h4DC7, \hE44B, \h476A, \h3D81, \h6250, \hCF62, \hA1F2, \h5B8D, \h2646,
  \hFC88, \h83A0, \hC1C7, \hB6A3, \h7F15, \h24C3, \h69CB, \h7492, \h4784, \h8A0B, \h5692, \hB285,
  \h095B, \hBF00, \hAD19, \h489D, \h1462, \hB174, \h2382, \h0E00, \h5842, \h8D2A, \h0C55, \hF5EA,
  \h1DAD, \hF43E, \h233F, \h7061, \h3372, \hF092, \h8D93, \h7E41, \hD65F, \hECF1, \h6C22, \h3BDB,
  \h7CDE, \h3759, \hCBEE, \h7460, \h4085, \hF2A7, \hCE77, \h326E, \hA607, \h8084, \h19F8, \h509E,
  \hE8EF, \hD855, \h61D9, \h9735, \hA969, \hA7AA, \hC50C, \h06C2, \h5A04, \hABFC, \h800B, \hCADC,
  \h9E44, \h7A2E, \hC345, \h3484, \hFDD5, \h6705, \h0E1E, \h9EC9, \hDB73, \hDBD3, \h1055, \h88CD,
  \h675F, \hDA79, \hE367, \h4340, \hC5C4, \h3465, \h713E, \h38D8, \h3D28, \hF89E, \hF16D, \hFF20,
  \h153E, \h21E7, \h8FB0, \h3D4A, \hE6E3, \h9F2B, \hDB83, \hADF7 >>, 2)
BlowfishS3 == Grouped(<<
  \hE93D, \h5A68, \h9481, \h40F7, \hF64C, \h261C, \h9469, \h2934, \h4115, \h20F7, \h7602, \hD4F7,
  \hBCF4, \h6B2E, \hD4A2, \h0068, \hD408, \h2471, \h3320, \hF46A, \h43B7, \hD4B7, \h5000, \h61AF,
  \h1E39, \hF62E, \h9724, \h4546, \h1421, \h4F74, \hBF8B, \h8840, \h4D95, \hFC1D, \h96B5, \h91AF,
  \h70F4, \hDDD3, \h66A0, \h2F45, \hBFBC, \h09EC, \h03BD, \h9785, \h7FAC, \h6DD0, \h31CB, \h8504,
  \h96EB, \h27B3, \h55FD, \h3941, \hDA25, \h47E6, \hABCA, \h0A9A, \h2850, \h7825, \h5304, \h29F4,
  \h0A2C, \h86DA, \hE9B6, \h6DFB, \h68DC, \h1462, \hD748, \h6900, \h680E, \hC0A4, \h27A1, \h8DEE,
  \h4F3F, \hFEA2, \hE887, \hAD8C, \hB58C, \hE006, \h7AF4, \hD6B6, \hAACE, \h1E7C, \hD337, \h5FEC,
  \hCE78, \hA399, \h406B, \h2A42, \h20FE, \h9E35, \hD9F3, \h85B9, \hEE39, \hD7AB, \h3B12, \h4E8B,
  \h1DC9, \hFAF7, \h4B6D, \h1856, \h26A3, \h6631, \hEAE3, \h97B2, \h3A6E, \hFA74, \hDD5B, \h4332,
  \h6841, \hE7F7, \hCA78, \h20FB, \hFB0A, \hF54E, \hD8FE, \hB397, \h4540, \h56AC, \hBA48, \h9527,
  \h5553, \h3A3A, \h2083, \h8D87, \hFE6B, \hA9B7, \hD096, \h954B, \h55A8, \h67BC, \hA115, \h9A58,
  \hCCA9, \h2963, \h99E1, \hDB33, \hA62A, \h4A56, \h3F31, \h25F9, \h5EF4, \h7E1C, \h9029, \h317C,
  \hFDF8, \hE802, \h0427, \h2F70, \h80BB, \h155C, \h0528, \h2CE3, \h95C1, \h1548, \hE4C6, \h6D22,
  \h48C1, \h133F, \hC70F, \h86DC, \h07F9, \hC9EE, \h4104, \h1F0F, \h4047, \h79A4, \h5D88, \h6E17,
  \h325F, \h51EB, \hD59B, \hC0D1, \hF2BC, \hC18F, \h4111, \h3564, \h257B, \h7834, \h602A, \h9C60,
  \hDFF8, \hE8A3, \h1F63, \h6C1B, \h0E12, \hB4C2, \h02E1, \h329E, \hAF66, \h4FD1, \hCAD1, \h8115,
  \h6B23, \h95E0, \h333E, \h92E1, \h3B24, \h0B62, \hEEBE, \hB922, \h85B2, \hA20E, \hE6BA, \h0D99,
  \hDE72, \h0C8C, \h2DA2, \hF728, \hD012, \h7845, \h95B7, \h94FD, \h647D, \h0862, \hE7CC, \hF5F0,
  \h5449, \hA36F, \h877D, \h48FA, \hC39D, \hFD27, \hF33E, \h8D1E, \h0A47, \h6341, \h992E, \hFF74,
  \h3A6F, \h6EAB, \hF4F8, \hFD37, \hA812, \hDC60, \hA1EB, \hDDF8, \h991B, \hE14C, \hDB6E, \h6B0D,
  \hC67B, \h5510, \h6D67, \h2C37, \h2765, \hD43B, \hDCD0, \hE804, \hF129, \h0DC7, \hCC00, \hFFA3,
  \hB539, \h0F92, \h690F, \hED0B, \h667B, \h9FFB, \hCEDB, \h7D9C, \hA091, \hCF0B, \hD915, \h5EA3,
  \hBB13, \h2F88, \h515B, \hAD24, \h7B94, \h79BF, \h763B, \hD6EB, \h3739, \h2EB3, \hCC11, \h5979,
  \h8026, \hE297, \hF42E, \h312D, \h6842, \hADA7, \hC66A, \h2B3B, \h1275, \h4CCC, \h782E, \hF11C,
  \h6A12, \h4237, \hB792, \h51E7, \h06A1, \hBBE6, \h4BFB, \h6350, \h1A6B, \h1018, \h11CA, \hEDFA,
  \h3D25, \hBDD8, \hE2E1, \hC3C9, \h4442, \h1659, \h0A12, \h1386, \hD90C, \hEC6E, \hD5AB, \hEA2A,
  \h64AF, \h674E, \hDA86, \hA85F, \hBEBF, \hE988, \h64E4, \hC3FE, \h9DBC, \h8057, \hF0F7, \hC086,
  \h6078, \h7BF8, \h6003, \h604D, \hD1FD, \h8346, \hF638, \h1FB0, \h7745, \hAE04, \hD736, \hFCCC,
  \h8342, \h6B33, \hF01E, \hAB71, \hB080, \h4187, \h3C00, \h5E5F, \h77A0, \h57BE, \hBDE8, \hAE24,
  \h5546, \h4299, \hBF58, \h2E61, \h4E58, \hF48F, \hF2DD, \hFDA2, \hF474, \hEF38, \h8789, \hBDC2,
  \h5366, \hF9C3, \hC8B3, \h8E74, \hB475, \hF255, \h46FC, \hD9B9, \h7AEB, \h2661, \h8B1D, \hDF84,
  \h846A, \h0E79, \h915F, \h95E2, \h466E, \h598E, \h20B4, \h5770, \h8CD5, \h5591, \hC902, \hDE4C,
  \hB90B, \hACE1, \hBB82, \h05D0, \h11A8, \h6248, \h7574, \hA99E, \hB77F, \h19B6, \hE0A9, \hDC09,
  \h662D, \h09A1, \hC432, \h4633, \hE85A, \h1F02, \h09F0, \hBE8C, \h4A99, \hA025, \h1D6E, \hFE10,
  \h1AB9, \h3D1D, \h0BA5, \hA4DF, \hA186, \hF20F, \h2868, \hF169, \hDCB7, \hDA83, \h5739, \h06FE,
  \hA1E2, \hCE9B, \h4FCD, \h7F52, \h5011, \h5E01, \hA706, \h83FA, \hA002, \hB5C4, \h0DE6, \hD027,
  \h9AF8, \h8C27, \h773F, \h8641, \hC360, \h4C06, \h61A8, \h06B5, \hF017, \h7A28, \hC0F5, \h86E0,
  \h0060, \h58AA, \h30DC, \h7D62, \h11E6, \h9ED7, \h2338, \hEA63, \h53C2, \hDD94, \hC2C2, \h1634,
  \hBBCB, \hEE56, \h90BC, \hB6DE, \hEBFC, \h7DA1, \hCE59, \h1D76, \h6F05, \hE409, \h4B7C, \h0188,
  \h3972, \h0A3D, \h7C92, \h7C24, \h86E3, \h725F, \h724D, \h9DB9, \h1AC1, \h5BB4, \hD39E, \hB8FC,
  \hED54, \h5578, \h08FC, \hA5B5, \hD83D, \h7CD3, \h4DAD, \h0FC4, \h1E50, \hEF5E, \hB161, \hE6F8,
  \hA285, \h14D9, \h6C51, \h133C, \h6FD5, \hC7E7, \h56E1, \h4EC4, \h362A, \hBFCE, \hDDC6, \hC837,
  \hD79A, \h3234, \h9263, \h8212, \h670E, \hFA8E, \h4060, \h00E0 >>, 2)
BlowfishS4 == Grouped(<<
  \h3A39, \hCE37, \hD3FA, \hF5CF, \hABC2, \h7737, \h5AC5, \h2D1B, \h5CB0, \h679E, \h4FA3, \h3742,
  \hD382, \h2740, \h99BC, \h9BBE, \hD511, \h8E9D, \hBF0F, \h7315, \hD62D, \h1C7E, \hC700, \hC47B,
  \hB78C, \h1B6B, \h21A1, \h9045, \hB26E, \hB1BE, \h6A36, \h6EB4, \h5748, \hAB2F, \hBC94, \h6E79,
  \hC6A3, \h76D2, \h6549, \hC2C8, \h530F, \hF8EE, \h468D, \hDE7D, \hD573, \h0A1D, \h4CD0, \h4DC6,
  \h2939, \hBBDB, \hA9BA, \h4650, \hAC95, \h26E8, \hBE5E, \hE304, \hA1FA, \hD5F0, \h6A2D, \h519A,
  \h63EF, \h8CE2, \h9A86, \hEE22, \hC089, \hC2B8, \h4324, \h2EF6, \hA51E, \h03AA, \h9CF2, \hD0A4,
  \h83C0, \h61BA, \h9BE9, \h6A4D, \h8FE5, \h1550, \hBA64, \h5BD6, \h2826, \hA2F9, \hA73A, \h3AE1,
  \h4BA9, \h9586, \hEF55, \h62E9, \hC72F, \hEFD3, \hF752, \hF7DA, \h3F04, \h6F69, \h77FA, \h0A59,
  \h80E4, \hA915, \h87B0, \h8601, \h9B09, \hE6AD, \h3B3E, \hE593, \hE990, \hFD5A, \h9E34, \hD797,
  \h2CF0, \hB7D9, \h022B, \h8B51, \h96D5, \hAC3A, \h017D, \hA67D, \hD1CF, \h3ED6, \h7C7D, \h2D28,
  \h1F9F, \h25CF, \hADF2, \hB89B, \h5AD6, \hB472, \h5A88, \hF54C, \hE029, \hAC71, \hE019, \hA5E6,
  \h47B0, \hACFD, \hED93, \hFA9B, \hE8D3, \hC48D, \h283B, \h57CC, \hF8D5, \h6629, \h7913, \h2E28,
  \h785F, \h0191, \hED75, \h6055, \hF796, \h0E44, \hE3D3, \h5E8C, \h1505, \h6DD4, \h88F4, \h6DBA,
  \h03A1, \h6125, \h0564, \hF0BD, \hC3EB, \h9E15, \h3C90, \h57A2, \h9727, \h1AEC, \hA93A, \h072A,
  \h1B3F, \h6D9B, \h1E63, \h21F5, \hF59C, \h66FB, \h26DC, \hF319, \h7533, \hD928, \hB155, \hFDF5,
  \h0356, \h3482, \h8ABA, \h3CBB, \h2851, \h7711, \hC20A, \hD9F8, \hABCC, \h5167, \hCCAD, \h925F,
  \h4DE8, \h1751, \h3830, \hDC8E, \h379D, \h5862, \h9320, \hF991, \hEA7A, \h90C2, \hFB3E, \h7BCE,
  \h5121, \hCE64, \h774F, \hBE32, \hA8B6, \hE37E, \hC329, \h3D46, \h48DE, \h5369, \h6413, \hE680,
  \hA2AE, \h0810, \hDD6D, \hB224, \h6985, \h2DFD, \h0907, \h2166, \hB39A, \h460A, \h6445, \hC0DD,
  \h586C, \hDECF, \h1C20, \hC8AE, \h5BBE, \hF7DD, \h1B58, \h8D40, \hCCD2, \h017F, \h6BB4, \hE3BB,
  \hDDA2, \h6A7E, \h3A59, \hFF45, \h3E35, \h0A44, \hBCB4, \hCDD5, \h72EA, \hCEA8, \hFA64, \h84BB,
  \h8D66, \h12AE, \hBF3C, \h6F47, \hD29B, \hE463, \h542F, \h5D9E, \hAEC2, \h771B, \hF64E, \h6370,
  \h740E, \h0D8D, \hE75B, \h1357, \hF872, \h1671, \hAF53, \h7D5D, \h4040, \hCB08, \h4EB4, \hE2CC,
  \h34D2, \h466A, \h0115, \hAF84, \hE1B0, \h0428, \h9598, \h3A1D, \h06B8, \h9FB4, \hCE6E, \hA048,
  \h6F3F, \h3B82, \h3520, \hAB82, \h011A, \h1D4B, \h2772, \h27F8, \h6115, \h60B1, \hE793, \h3FDC,
  \hBB3A, \h792B, \h3445, \h25BD, \hA088, \h39E1, \h51CE, \h794B, \h2F32, \hC9B7, \hA01F, \hBAC9,
  \hE01C, \hC87E, \hBCC7, \hD1F6, \hCF01, \h11C3, \hA1E8, \hAAC7, \h1A90, \h8749, \hD44F, \hBD9A,
  \hD0DA, \hDECB, \hD50A, \hDA38, \h0339, \hC32A, \hC691, \h3667, \h8DF9, \h317C, \hE0B1, \h2B4F,
  \hF79E, \h59B7, \h43F5, \hBB3A, \hF2D5, \h19FF, \h27D9, \h459C, \hBF97, \h222C, \h15E6, \hFC2A,
  \h0F91, \hFC71, \h9B94, \h1525, \hFAE5, \h9361, \hCEB6, \h9CEB, \hC2A8, \h6459, \h12BA, \hA8D1,
  \hB6C1, \h075E, \hE305, \h6A0C, \h10D2, \h5065, \hCB03, \hA442, \hE0EC, \h6E0E, \h1698, \hDB3B,
  \h4C98, \hA0BE, \h3278, \hE964, \h9F1F, \h9532, \hE0D3, \h92DF, \hD3A0, \h342B, \h8971, \hF21E,
  \h1B0A, \h7441, \h4BA3, \h348C, \hC5BE, \h7120, \hC376, \h32D8, \hDF35, \h9F8D, \h9B99, \h2F2E,
  \hE60B, \h6F47, \h0FE3, \hF11D, \hE54C, \hDA54, \h1EDA, \hD891, \hCE62, \h79CF, \hCD3E, \h7E6F,
  \h1618, \hB166, \hFD2C, \h1D05, \h848F, \hD2C5, \hF6FB, \h2299, \hF523, \hF357, \hA632, \h7623,
  \h93A8, \h3531, \h56CC, \hCD02, \hACF0, \h8162, \h5A75, \hEBB5, \h6E16, \h3697, \h88D2, \h73CC,
  \hDE96, \h6292, \h81B9, \h49D0, \h4C50, \h901B, \h71C6, \h5614, \hE6C6, \hC7BD, \h327A, \h140A,
  \h45E1, \hD006, \hC3F2, \h7B9A, \hC9AA, \h53FD, \h62A8, \h0F00, \hBB25, \hBFE2, \h35BD, \hD2F6,
  \h7112, \h6905, \hB204, \h0222, \hB6CB, \hCF7C, \hCD76, \h9C2B, \h5311, \h3EC0, \h1640, \hE3D3,
  \h38AB, \hBD60, \h2547, \hADF0, \hBA38, \h209C, \hF746, \hCE76, \h77AF, \hA1C5, \h2075, \h6060,
  \h85CB, \hFE4E, \h8AE8, \h8DD8, \h7AAA, \hF9B0, \h4CF9, \hAA7E, \h1948, \hC25C, \h02FB, \h8A8C,
  \h01C3, \h6AE4, \hD6EB, \hE1F9, \h90D4, \hF869, \hA65C, \hDEA0, \h3F09, \h252D, \hC208, \hE69F,
  \hB74E, \h6132, \hCE77, \hE25B, \h578F, \hDFE3, \h3AC3, \h72E6 >>, 2)

BlowfishF(S, x) ==
  LET b == ToBigEndian(<<x>>)
  IN Add(Xor(Add(S[1][b[1] + 1], S[2][b[2] + 1]), S[3][b[3] + 1]), S[4][b[4] + 1])
\* The order of the subkeys is the only difference between both ways.
RECURSIVE BlowfishRounds(_, _)
BlowfishRounds(S, s) ==     \* s: the subkeys left, and the two words
  IF Len(s[1]) = 2 THEN <<Xor(s[3], s[1][2]), Xor(s[2], s[1][1])>>
  ELSE LET X == Xor(s[2], Head(s[1]))
       IN BlowfishRounds(S, <<Tail(s[1]), Xor(BlowfishF(S, X), s[3]), X>>)
BlowfishEnc(ctx, l, r) == BlowfishRounds(ctx.S, <<ctx.P, l, r>>)
BlowfishDec(ctx, l, r) ==
  BlowfishRounds(ctx.S, <<Strict([i \in 1..18 |-> ctx.P[19 - i]]), l, r>>)

\* blowfish_setkey: encrypts nothing again and again, and keeps what comes out.
RECURSIVE Pairwise(_)
Pairwise(s) ==     \* s: ctx, table 0 (P) to 4, the pair, and the data
  LET size == IF s.table = 0 THEN 18 ELSE 256
  IN IF s.table = 5 THEN s.ctx
     ELSE IF s.at > size THEN Pairwise([s EXCEPT !.table = @ + 1, !.at = 1])
     ELSE LET d == BlowfishEnc(s.ctx, s.d[1], s.d[2])
              Kept(t) == [t EXCEPT ![s.at] = d[1], ![s.at + 1] = d[2]]
              ctx == IF s.table = 0 THEN [s.ctx EXCEPT !.P = Kept(@)]
                     ELSE [s.ctx EXCEPT !.S[s.table] = Kept(@)]
          IN Pairwise([s EXCEPT !.ctx = ctx, !.at = @ + 2, !.d = d])
BlowfishSetkey(key) ==
  LET Data(i) == BigEndian([k \in 1..4 |-> key[((4 * (i - 1) + k - 1) % Len(key)) + 1]], 2)[1]
      start == [P |-> Strict([i \in 1..18 |-> Xor(BlowfishP[i], Data(i))]),
                S |-> <<BlowfishS1, BlowfishS2, BlowfishS3, BlowfishS4>>]
  IN IF Len(key) \notin 4..56 THEN [ok |-> FALSE]
     ELSE [ok |-> TRUE,
           ctx |-> Pairwise([ctx |-> start, table |-> 0, at |-> 1,
                             d |-> <<<<0, 0>>, <<0, 0>>>>])]
BlowfishCryptEcb(ctx, mode, input) ==
  LET w == BigEndian(input, 2)
  IN ToBigEndian(IF mode = DECRYPT THEN BlowfishDec(ctx, w[1], w[2])
                 ELSE BlowfishEnc(ctx, w[1], w[2]))

-----------------------------------------------------------------------------
(* The modes of each cipher, as its own file has them: the loops of Modes  *)
(* over a block.  A key here is the schedule the caller has made, with the *)
(* name of the cipher it is for; the schedules of DES already say which    *)
(* way they go, the one of XTEA and that of Blowfish serve both ways.      *)

Block(key, op, b) ==
  CASE key.cipher = "AES" -> AesCryptEcb(key.ctx, op, b)
    [] key.cipher = "CAMELLIA" -> CamelliaCryptEcb(key.ctx, b)
    [] key.cipher = "DES" -> DesCryptEcb(key.ctx, b)
    [] key.cipher = "3DES" -> Des3CryptEcb(key.ctx, b)
    [] key.cipher = "XTEA" -> XteaCryptEcb(key.ctx, op, b)
    [] key.cipher = "BLOWFISH" -> BlowfishCryptEcb(key.ctx, op, b)

M == INSTANCE Modes WITH Block <- Block, GcmLimit <- 67108832   \* 0x03FFFFE0

AesCryptCbc(key, op, iv, input) == M!Cbc(key, op, iv, input)
AesCryptCfb128(key, op, off, iv, input) == M!Cfb(key, op, off, iv, input)
AesCryptCfb8(key, op, iv, input) == M!Cfb8(key, op, iv, input)
AesCryptCtr(key, off, counter, block, input) == M!Ctr(key, off, counter, block, input)

CamelliaCryptCbc(key, op, iv, input) == M!Cbc(key, op, iv, input)
CamelliaCryptCfb128(key, op, off, iv, input) == M!Cfb(key, op, off, iv, input)
CamelliaCryptCtr(key, off, counter, block, input) == M!Ctr(key, off, counter, block, input)

DesCryptCbc(key, op, iv, input) == M!Cbc(key, op, iv, input)
Des3CryptCbc(key, op, iv, input) == M!Cbc(key, op, iv, input)
XteaCryptCbc(key, op, iv, input) == M!Cbc(key, op, iv, input)

BlowfishCryptCbc(key, op, iv, input) == M!Cbc(key, op, iv, input)
BlowfishCryptCfb64(key, op, off, iv, input) == M!Cfb(key, op, off, iv, input)
BlowfishCryptCtr(key, off, counter, block, input) == M!Ctr(key, off, counter, block, input)
=============================================================================
