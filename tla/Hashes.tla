------------------------------- MODULE Hashes -------------------------------
(***************************************************************************)
(* The message digests of the library: the compression functions of MD2,   *)
(* MD4, MD5, RIPEMD-160, SHA-1 and SHA-2, the buffering around them, and   *)
(* what md.c and the HMAC functions make of them.                          *)
(*                                                                         *)
(* A context keeps total, the bytes seen so far; which part of a block is  *)
(* waiting in the buffer follows from it, and what is in the buffer beyond *)
(* that is left over from earlier.                                         *)
(***************************************************************************)
EXTENDS Integers, Sequences, Words

-----------------------------------------------------------------------------
(* MD2.                                                                    *)

PI_SUBST == <<
  \h29, \h2E, \h43, \hC9, \hA2, \hD8, \h7C, \h01, \h3D, \h36, \h54, \hA1, \hEC, \hF0, \h06, \h13,
  \h62, \hA7, \h05, \hF3, \hC0, \hC7, \h73, \h8C, \h98, \h93, \h2B, \hD9, \hBC, \h4C, \h82, \hCA,
  \h1E, \h9B, \h57, \h3C, \hFD, \hD4, \hE0, \h16, \h67, \h42, \h6F, \h18, \h8A, \h17, \hE5, \h12,
  \hBE, \h4E, \hC4, \hD6, \hDA, \h9E, \hDE, \h49, \hA0, \hFB, \hF5, \h8E, \hBB, \h2F, \hEE, \h7A,
  \hA9, \h68, \h79, \h91, \h15, \hB2, \h07, \h3F, \h94, \hC2, \h10, \h89, \h0B, \h22, \h5F, \h21,
  \h80, \h7F, \h5D, \h9A, \h5A, \h90, \h32, \h27, \h35, \h3E, \hCC, \hE7, \hBF, \hF7, \h97, \h03,
  \hFF, \h19, \h30, \hB3, \h48, \hA5, \hB5, \hD1, \hD7, \h5E, \h92, \h2A, \hAC, \h56, \hAA, \hC6,
  \h4F, \hB8, \h38, \hD2, \h96, \hA4, \h7D, \hB6, \h76, \hFC, \h6B, \hE2, \h9C, \h74, \h04, \hF1,
  \h45, \h9D, \h70, \h59, \h64, \h71, \h87, \h20, \h86, \h5B, \hCF, \h65, \hE6, \h2D, \hA8, \h02,
  \h1B, \h60, \h25, \hAD, \hAE, \hB0, \hB9, \hF6, \h1C, \h46, \h61, \h69, \h34, \h40, \h7E, \h0F,
  \h55, \h47, \hA3, \h23, \hDD, \h51, \hAF, \h3A, \hC3, \h5C, \hF9, \hCE, \hBA, \hC5, \hEA, \h26,
  \h2C, \h53, \h0D, \h6E, \h85, \h28, \h84, \h09, \hD3, \hDF, \hCD, \hF4, \h41, \h81, \h4D, \h52,
  \h6A, \hDC, \h37, \hC8, \h6C, \hC1, \hAB, \hFA, \h24, \hE1, \h7B, \h08, \h0C, \hBD, \hB1, \h4A,
  \h78, \h88, \h95, \h8B, \hE3, \h63, \hE8, \h6D, \hE9, \hCB, \hD5, \hFE, \h3B, \h00, \h1D, \h39,
  \hF2, \hEF, \hB7, \h0E, \h66, \h58, \hD0, \hE4, \hA6, \h77, \h72, \hF8, \hEB, \h75, \h4B, \h0A,
  \h31, \h44, \h50, \hB4, \h8F, \hED, \h1F, \h1A, \hDB, \h99, \h8D, \h33, \h9F, \h11, \h83, \h14 >>
Md2Starts == [state |-> Zeros(16), cksum |-> Zeros(16), buffer |-> Zeros(16), left |-> 0]

RECURSIVE Md2Row(_, _, _)
Md2Row(row, t, done) ==
  IF row = <<>> THEN [row |-> done, t |-> t]
  ELSE LET b == XorN(row[1], PI_SUBST[t + 1]) IN Md2Row(Tail(row), b, Append(done, b))
RECURSIVE Md2Rounds(_, _, _)
Md2Rounds(row, t, i) ==
  IF i = 18 THEN row
  ELSE LET r == Md2Row(row, t, <<>>) IN Md2Rounds(r.row, (r.t + i) % 256, i + 1)
RECURSIVE Md2Checksum(_, _, _, _)
Md2Checksum(cksum, block, t, done) ==
  IF cksum = <<>> THEN done
  ELSE LET c == XorN(Head(cksum), PI_SUBST[XorN(Head(block), t) + 1])
       IN Md2Checksum(Tail(cksum), Tail(block), c, Append(done, c))

Md2Process(ctx) ==
  [ctx EXCEPT
    !.state = Take(Md2Rounds(ctx.state \o ctx.buffer \o XorBytes(ctx.buffer, ctx.state),
                             0, 0), 16),
    !.cksum = Md2Checksum(ctx.cksum, ctx.buffer, ctx.cksum[16], <<>>)]

\* memcpy(buffer + at, bytes)
Put(buffer, at, bytes) ==
  Strict([i \in 1..Len(buffer) |->
            IF i > at /\ i <= at + Len(bytes) THEN bytes[i - at] ELSE buffer[i]])

RECURSIVE Md2Update(_, _)
Md2Update(ctx, input) ==
  IF input = <<>> THEN ctx
  ELSE LET fill == IF ctx.left + Len(input) > 16 THEN 16 - ctx.left ELSE Len(input)
           more == [ctx EXCEPT !.buffer = Put(ctx.buffer, ctx.left, Take(input, fill)),
                               !.left = ctx.left + fill]
       IN Md2Update(IF more.left = 16 THEN Md2Process([more EXCEPT !.left = 0]) ELSE more,
                    Drop(input, fill))

Md2Finish(ctx) ==
  LET x == 16 - ctx.left
      padded == Md2Process([ctx EXCEPT !.buffer = Put(ctx.buffer, ctx.left, [i \in 1..x |-> x])])
  IN Md2Process([padded EXCEPT !.buffer = padded.cksum]).state

-----------------------------------------------------------------------------
(* The other digests keep words and bytes.  A step of a compression is     *)
(* written for the registers as they are named in it, and turns them: in   *)
(* the C the arguments of P turn.                                          *)

Choose3(x, y, z) == Xor(z, And(x, Xor(y, z)))
Majority(x, y, z) == Or(And(x, y), And(z, Or(x, y)))

\* The order in which MD4 takes the words of the block, and its shifts.
Md4Word(i) == <<i, (4 * (i % 4)) + ((i \div 4) % 4),
                (8 * (i % 2)) + (4 * ((i \div 2) % 2)) + (2 * ((i \div 4) % 2)) + ((i \div 8) % 2)>>[(i \div 16) + 1]
Md4Shift(i) == <<<<3, 7, 11, 19>>, <<3, 5, 9, 13>>, <<3, 9, 11, 15>>>>[(i \div 16) + 1][(i % 4) + 1]
Md4F(i, x, y, z) == CASE i < 16 -> Or(And(x, y), And(Not(x), z))
                      [] i \in 16..31 -> Or(And(x, y), Or(And(x, z), And(y, z)))
                      [] OTHER -> Xor3(x, y, z)
Md4K(i) == <<<<0, 0>>, <<\h5A82, \h7999>>, <<\h6ED9, \hEBA1>>>>[(i \div 16) + 1]

RECURSIVE Md4Steps(_, _, _)
Md4Steps(r, X, i) ==
  IF i = 48 THEN r
  ELSE Md4Steps(<<r[4],
                  Rotl(Add4(r[1], Md4F(i, r[2], r[3], r[4]), X[Md4Word(i % 48) + 1], Md4K(i)),
                       Md4Shift(i)),
                  r[2], r[3]>>, X, i + 1)
Md4Process(state, data) == AddEach(state, Md4Steps(state, LittleEndian(data), 0))

T5 == Grouped(<<
  \hD76A, \hA478, \hE8C7, \hB756, \h2420, \h70DB, \hC1BD, \hCEEE, \hF57C, \h0FAF, \h4787, \hC62A, \hA830, \h4613, \hFD46, \h9501,
  \h6980, \h98D8, \h8B44, \hF7AF, \hFFFF, \h5BB1, \h895C, \hD7BE, \h6B90, \h1122, \hFD98, \h7193, \hA679, \h438E, \h49B4, \h0821,
  \hF61E, \h2562, \hC040, \hB340, \h265E, \h5A51, \hE9B6, \hC7AA, \hD62F, \h105D, \h0244, \h1453, \hD8A1, \hE681, \hE7D3, \hFBC8,
  \h21E1, \hCDE6, \hC337, \h07D6, \hF4D5, \h0D87, \h455A, \h14ED, \hA9E3, \hE905, \hFCEF, \hA3F8, \h676F, \h02D9, \h8D2A, \h4C8A,
  \hFFFA, \h3942, \h8771, \hF681, \h6D9D, \h6122, \hFDE5, \h380C, \hA4BE, \hEA44, \h4BDE, \hCFA9, \hF6BB, \h4B60, \hBEBF, \hBC70,
  \h289B, \h7EC6, \hEAA1, \h27FA, \hD4EF, \h3085, \h0488, \h1D05, \hD9D4, \hD039, \hE6DB, \h99E5, \h1FA2, \h7CF8, \hC4AC, \h5665,
  \hF429, \h2244, \h432A, \hFF97, \hAB94, \h23A7, \hFC93, \hA039, \h655B, \h59C3, \h8F0C, \hCC92, \hFFEF, \hF47D, \h8584, \h5DD1,
  \h6FA8, \h7E4F, \hFE2C, \hE6E0, \hA301, \h4314, \h4E08, \h11A1, \hF753, \h7E82, \hBD3A, \hF235, \h2AD7, \hD2BB, \hEB86, \hD391
  >>, 2)
Md5Word(i) == <<i, (5 * i) + 1, (3 * i) + 5, 7 * i>>[(i \div 16) + 1] % 16
Md5Shift(i) == <<<<7, 12, 17, 22>>, <<5, 9, 14, 20>>, <<4, 11, 16, 23>>, <<6, 10, 15, 21>>>>
               [(i \div 16) + 1][(i % 4) + 1]
Md5F(i, x, y, z) == CASE i < 16 -> Choose3(x, y, z)
                      [] i \in 16..31 -> Choose3(z, x, y)
                      [] i \in 32..47 -> Xor3(x, y, z)
                      [] OTHER -> Xor(y, Or(x, Not(z)))
RECURSIVE Md5Steps(_, _, _)
Md5Steps(r, X, i) ==
  IF i = 64 THEN r
  ELSE Md5Steps(<<r[4],
                  Add(Rotl(Add4(r[1], Md5F(i, r[2], r[3], r[4]), X[Md5Word(i) + 1], T5[i + 1]),
                           Md5Shift(i)), r[2]),
                  r[2], r[3]>>, X, i + 1)
Md5Process(state, data) == AddEach(state, Md5Steps(state, LittleEndian(data), 0))

\* W is the window of the last 16 words.
Sha1F(i, x, y, z) == CASE i < 20 -> Choose3(x, y, z)
                       [] i \in 40..59 -> Majority(x, y, z)
                       [] OTHER -> Xor3(x, y, z)
Sha1K(i) == <<<<\h5A82, \h7999>>, <<\h6ED9, \hEBA1>>, <<\h8F1B, \hBCDC>>, <<\hCA62, \hC1D6>>>>[(i \div 20) + 1]
RECURSIVE Sha1Steps(_)
Sha1Steps(s) ==
  IF s.i = 80 THEN s.r
  ELSE LET r == s.r
           W == s.W
       IN Sha1Steps([i |-> s.i + 1,
            r |-> <<Add4(r[5], Add(Rotl(r[1], 5), Sha1F(s.i, r[2], r[3], r[4])), Sha1K(s.i), W[1]),
                    r[1], Rotl(r[2], 30), r[3], r[4]>>,
            W |-> Append(Tail(W), Rotl(Xor(Xor3(W[14], W[9], W[3]), W[1]), 1))])
Sha1Process(state, data) == AddEach(state, Sha1Steps([i |-> 0, r |-> state, W |-> BigEndian(data, 2)]))

RipemdWord == <<
  0, 1, 2, 3, 4, 5, 6, 7, 8, 9, 10, 11, 12, 13, 14, 15,
  7, 4, 13, 1, 10, 6, 15, 3, 12, 0, 9, 5, 2, 14, 11, 8,
  3, 10, 14, 4, 9, 15, 8, 1, 2, 7, 0, 6, 13, 11, 5, 12,
  1, 9, 11, 10, 0, 8, 12, 4, 13, 3, 7, 15, 14, 5, 6, 2,
  4, 0, 5, 9, 7, 12, 2, 10, 14, 1, 3, 8, 11, 6, 15, 13 >>
RipemdShift == <<
  11, 14, 15, 12, 5, 8, 7, 9, 11, 13, 14, 15, 6, 7, 9, 8,
  7, 6, 8, 13, 11, 9, 7, 15, 7, 12, 15, 9, 11, 7, 13, 12,
  11, 13, 6, 7, 14, 9, 13, 15, 14, 8, 13, 6, 5, 12, 7, 5,
  11, 12, 14, 15, 14, 15, 9, 8, 9, 14, 5, 6, 8, 6, 5, 12,
  9, 15, 5, 11, 6, 8, 13, 12, 5, 12, 13, 14, 11, 8, 5, 6 >>
RipemdWordP == <<
  5, 14, 7, 0, 9, 2, 11, 4, 13, 6, 15, 8, 1, 10, 3, 12,
  6, 11, 3, 7, 0, 13, 5, 10, 14, 15, 8, 12, 4, 9, 1, 2,
  15, 5, 1, 3, 7, 14, 6, 9, 11, 8, 12, 2, 10, 0, 4, 13,
  8, 6, 4, 1, 3, 11, 15, 0, 5, 12, 2, 13, 9, 7, 10, 14,
  12, 15, 10, 4, 1, 5, 8, 7, 6, 2, 13, 14, 0, 3, 9, 11 >>
RipemdShiftP == <<
  8, 9, 9, 11, 13, 15, 15, 5, 7, 7, 8, 11, 14, 14, 12, 6,
  9, 13, 15, 7, 12, 8, 9, 11, 7, 7, 12, 7, 6, 15, 13, 11,
  9, 7, 15, 11, 8, 6, 6, 14, 12, 13, 5, 14, 13, 13, 7, 5,
  15, 5, 8, 11, 14, 14, 6, 14, 6, 9, 12, 9, 12, 5, 15, 8,
  8, 5, 12, 9, 12, 5, 14, 6, 8, 13, 6, 5, 15, 13, 11, 11 >>
RipemdK == <<<<0, 0>>, <<\h5A82, \h7999>>, <<\h6ED9, \hEBA1>>, <<\h8F1B, \hBCDC>>, <<\hA953, \hFD4E>>>>
RipemdKP == <<<<\h50A2, \h8BE6>>, <<\h5C4D, \hD124>>, <<\h6D70, \h3EF3>>, <<\h7A6D, \h76E9>>, <<0, 0>>>>
RipemdF(j, x, y, z) == CASE j = 1 -> Xor3(x, y, z)
                         [] j = 2 -> Or(And(x, y), And(Not(x), z))
                         [] j = 3 -> Xor(Or(x, Not(y)), z)
                         [] j = 4 -> Or(And(x, z), And(y, Not(z)))
                         [] OTHER -> Xor(x, Or(y, Not(z)))
RipemdStep(r, f, x, k, s) ==
  <<r[5], Add(Rotl(Add4(r[1], RipemdF(f, r[2], r[3], r[4]), x, k), s), r[5]),
    r[2], Rotl(r[3], 10), r[4]>>
RECURSIVE RipemdSteps(_, _, _, _)
RipemdSteps(r, rp, X, i) ==
  IF i = 80 THEN <<r, rp>>
  ELSE LET j == (i \div 16) + 1
       IN RipemdSteps(RipemdStep(r, j, X[RipemdWord[i + 1] + 1], RipemdK[j], RipemdShift[i + 1]),
                      RipemdStep(rp, 6 - j, X[RipemdWordP[i + 1] + 1], RipemdKP[j], RipemdShiftP[i + 1]),
                      X, i + 1)
Ripemd160Process(state, data) ==
  LET both == RipemdSteps(state, state, LittleEndian(data), 0)
      Sum(i) == Add3(state[(i % 5) + 1], both[1][((i + 1) % 5) + 1], both[2][((i + 2) % 5) + 1])
  IN <<Sum(1), Sum(2), Sum(3), Sum(4), Sum(5)>>

K256 == Grouped(<<
  \h428A, \h2F98, \h7137, \h4491, \hB5C0, \hFBCF, \hE9B5, \hDBA5, \h3956, \hC25B, \h59F1, \h11F1, \h923F, \h82A4, \hAB1C, \h5ED5,
  \hD807, \hAA98, \h1283, \h5B01, \h2431, \h85BE, \h550C, \h7DC3, \h72BE, \h5D74, \h80DE, \hB1FE, \h9BDC, \h06A7, \hC19B, \hF174,
  \hE49B, \h69C1, \hEFBE, \h4786, \h0FC1, \h9DC6, \h240C, \hA1CC, \h2DE9, \h2C6F, \h4A74, \h84AA, \h5CB0, \hA9DC, \h76F9, \h88DA,
  \h983E, \h5152, \hA831, \hC66D, \hB003, \h27C8, \hBF59, \h7FC7, \hC6E0, \h0BF3, \hD5A7, \h9147, \h06CA, \h6351, \h1429, \h2967,
  \h27B7, \h0A85, \h2E1B, \h2138, \h4D2C, \h6DFC, \h5338, \h0D13, \h650A, \h7354, \h766A, \h0ABB, \h81C2, \hC92E, \h9272, \h2C85,
  \hA2BF, \hE8A1, \hA81A, \h664B, \hC24B, \h8B70, \hC76C, \h51A3, \hD192, \hE819, \hD699, \h0624, \hF40E, \h3585, \h106A, \hA070,
  \h19A4, \hC116, \h1E37, \h6C08, \h2748, \h774C, \h34B0, \hBCB5, \h391C, \h0CB3, \h4ED8, \hAA4A, \h5B9C, \hCA4F, \h682E, \h6FF3,
  \h748F, \h82EE, \h78A5, \h636F, \h84C8, \h7814, \h8CC7, \h0208, \h90BE, \hFFFA, \hA450, \h6CEB, \hBEF9, \hA3F7, \hC671, \h78F2
  >>, 2)
K512 == Grouped(<<
  \h428A, \h2F98, \hD728, \hAE22, \h7137, \h4491, \h23EF, \h65CD, \hB5C0, \hFBCF, \hEC4D, \h3B2F, \hE9B5, \hDBA5, \h8189, \hDBBC,
  \h3956, \hC25B, \hF348, \hB538, \h59F1, \h11F1, \hB605, \hD019, \h923F, \h82A4, \hAF19, \h4F9B, \hAB1C, \h5ED5, \hDA6D, \h8118,
  \hD807, \hAA98, \hA303, \h0242, \h1283, \h5B01, \h4570, \h6FBE, \h2431, \h85BE, \h4EE4, \hB28C, \h550C, \h7DC3, \hD5FF, \hB4E2,
  \h72BE, \h5D74, \hF27B, \h896F, \h80DE, \hB1FE, \h3B16, \h96B1, \h9BDC, \h06A7, \h25C7, \h1235, \hC19B, \hF174, \hCF69, \h2694,
  \hE49B, \h69C1, \h9EF1, \h4AD2, \hEFBE, \h4786, \h384F, \h25E3, \h0FC1, \h9DC6, \h8B8C, \hD5B5, \h240C, \hA1CC, \h77AC, \h9C65,
  \h2DE9, \h2C6F, \h592B, \h0275, \h4A74, \h84AA, \h6EA6, \hE483, \h5CB0, \hA9DC, \hBD41, \hFBD4, \h76F9, \h88DA, \h8311, \h53B5,
  \h983E, \h5152, \hEE66, \hDFAB, \hA831, \hC66D, \h2DB4, \h3210, \hB003, \h27C8, \h98FB, \h213F, \hBF59, \h7FC7, \hBEEF, \h0EE4,
  \hC6E0, \h0BF3, \h3DA8, \h8FC2, \hD5A7, \h9147, \h930A, \hA725, \h06CA, \h6351, \hE003, \h826F, \h1429, \h2967, \h0A0E, \h6E70,
  \h27B7, \h0A85, \h46D2, \h2FFC, \h2E1B, \h2138, \h5C26, \hC926, \h4D2C, \h6DFC, \h5AC4, \h2AED, \h5338, \h0D13, \h9D95, \hB3DF,
  \h650A, \h7354, \h8BAF, \h63DE, \h766A, \h0ABB, \h3C77, \hB2A8, \h81C2, \hC92E, \h47ED, \hAEE6, \h9272, \h2C85, \h1482, \h353B,
  \hA2BF, \hE8A1, \h4CF1, \h0364, \hA81A, \h664B, \hBC42, \h3001, \hC24B, \h8B70, \hD0F8, \h9791, \hC76C, \h51A3, \h0654, \hBE30,
  \hD192, \hE819, \hD6EF, \h5218, \hD699, \h0624, \h5565, \hA910, \hF40E, \h3585, \h5771, \h202A, \h106A, \hA070, \h32BB, \hD1B8,
  \h19A4, \hC116, \hB8D2, \hD0C8, \h1E37, \h6C08, \h5141, \hAB53, \h2748, \h774C, \hDF8E, \hEB99, \h34B0, \hBCB5, \hE19B, \h48A8,
  \h391C, \h0CB3, \hC5C9, \h5A63, \h4ED8, \hAA4A, \hE341, \h8ACB, \h5B9C, \hCA4F, \h7763, \hE373, \h682E, \h6FF3, \hD6B2, \hB8A3,
  \h748F, \h82EE, \h5DEF, \hB2FC, \h78A5, \h636F, \h4317, \h2F60, \h84C8, \h7814, \hA1F0, \hAB72, \h8CC7, \h0208, \h1A64, \h39EC,
  \h90BE, \hFFFA, \h2363, \h1E28, \hA450, \h6CEB, \hDE82, \hBDE9, \hBEF9, \hA3F7, \hB2C6, \h7915, \hC671, \h78F2, \hE372, \h532B,
  \hCA27, \h3ECE, \hEA26, \h619C, \hD186, \hB8C7, \h21C0, \hC207, \hEADA, \h7DD6, \hCDE0, \hEB1E, \hF57D, \h4F7F, \hEE6E, \hD178,
  \h06F0, \h67AA, \h7217, \h6FBA, \h0A63, \h7DC5, \hA2C8, \h98A6, \h113F, \h9804, \hBEF9, \h0DAE, \h1B71, \h0B35, \h131C, \h471B,
  \h28DB, \h77F5, \h2304, \h7D84, \h32CA, \hAB7B, \h40C7, \h2493, \h3C9E, \hBE0A, \h15C9, \hBEBC, \h431D, \h67C4, \h9C10, \h0D4C,
  \h4CC5, \hD4BE, \hCB3E, \h42B6, \h597F, \h299C, \hFC65, \h7E2A, \h5FCB, \h6FAB, \h3AD6, \hFAEC, \h6C44, \h198C, \h4A47, \h5817
  >>, 4)
\* SHR and ROTR by the amounts of the two word sizes.
Sigma(w, r1, r2, s) == Xor3(Rotr(w, r1), Rotr(w, r2), Shr(w, s))
Sum3(w, r1, r2, r3) == Xor3(Rotr(w, r1), Rotr(w, r2), Rotr(w, r3))

\* P of both: the schedule's words are computed 16 ahead.
RECURSIVE Sha2Steps(_, _)
Sha2Steps(s, wide) ==
  IF s.i = (IF wide THEN 80 ELSE 64) THEN s.r
  ELSE LET r == s.r
           W == s.W
           S0 == IF wide THEN Sigma(W[2], 1, 8, 7) ELSE Sigma(W[2], 7, 18, 3)
           S1 == IF wide THEN Sigma(W[15], 19, 61, 6) ELSE Sigma(W[15], 17, 19, 10)
           S2 == IF wide THEN Sum3(r[1], 28, 34, 39) ELSE Sum3(r[1], 2, 13, 22)
           S3 == IF wide THEN Sum3(r[5], 14, 18, 41) ELSE Sum3(r[5], 6, 11, 25)
           K == IF wide THEN K512[s.i + 1] ELSE K256[s.i + 1]
           temp1 == Add(r[8], Add4(S3, Choose3(r[5], r[6], r[7]), K, W[1]))
           temp2 == Add(S2, Majority(r[1], r[2], r[3]))
       IN Sha2Steps([i |-> s.i + 1,
                     r |-> <<Add(temp1, temp2), r[1], r[2], r[3], Add(r[4], temp1), r[5], r[6], r[7]>>,
                     W |-> Append(Tail(W), Add4(S1, W[10], S0, W[1]))], wide)
Sha256Process(state, data) == AddEach(state, Sha2Steps([i |-> 0, r |-> state, W |-> BigEndian(data, 2)], FALSE))
Sha512Process(state, data) == AddEach(state, Sha2Steps([i |-> 0, r |-> state, W |-> BigEndian(data, 4)], TRUE))

-----------------------------------------------------------------------------
(* Buffering.  P is the compression, size the bytes of a block.            *)

RECURSIVE Blocks(_, _)
Blocks(input, size) == IF Len(input) < size THEN <<>>
                       ELSE <<Take(input, size)>> \o Blocks(Drop(input, size), size)
Fold(P(_, _), state, blocks) ==
  LET f[i \in 0..Len(blocks)] == IF i = 0 THEN state ELSE P(f[i - 1], blocks[i])
  IN f[Len(blocks)]

Buffered(ctx, input, size, P(_, _)) ==
  LET left == ctx.total % size
      fill == size - left
      full == left > 0 /\ Len(input) >= fill
      state == IF full THEN P(ctx.state, Take(ctx.buffer, left) \o Take(input, fill)) ELSE ctx.state
      rest == IF full THEN Drop(input, fill) ELSE input
      blocks == Blocks(rest, size)
  IN IF input = <<>> THEN ctx
     ELSE [total |-> ctx.total + Len(input),
           state |-> Fold(P, state, blocks),
           buffer |-> Put(ctx.buffer, IF full THEN 0 ELSE left,
                          Drop(rest, size * Len(blocks)))]

\* The padding: its length takes lenbytes at the end of a block.
PadLen(total, size, lenbytes) ==
  LET last == total % size
  IN IF last < size - lenbytes THEN (size - lenbytes) - last
     ELSE (2 * size - lenbytes) - last
Padding(total, size, lenbytes) == <<128>> \o Zeros(PadLen(total, size, lenbytes) - 1)

\* The length in bits; a total of TLC's is below 2^28.
LengthBE(total, n) == Zeros(n - 4) \o ToBigEndian(<<<<(8 * total) \div LIMB, (8 * total) % LIMB>>>>)
LengthLE(total) == ToLittleEndian(<<<<(8 * total) \div LIMB, (8 * total) % LIMB>>, <<0, 0>>>>)

Context(state, size) == [total |-> 0, state |-> state, buffer |-> Zeros(size)]

Start160 == Grouped(<<\h6745, \h2301, \hEFCD, \hAB89, \h98BA, \hDCFE, \h1032, \h5476,
                      \hC3D2, \hE1F0>>, 2)
Start256 == Grouped(<<
  \h6A09, \hE667, \hBB67, \hAE85, \h3C6E, \hF372, \hA54F, \hF53A, \h510E, \h527F, \h9B05, \h688C, \h1F83, \hD9AB, \h5BE0, \hCD19
  >>, 2)
Start224 == Grouped(<<
  \hC105, \h9ED8, \h367C, \hD507, \h3070, \hDD17, \hF70E, \h5939, \hFFC0, \h0B31, \h6858, \h1511, \h64F9, \h8FA7, \hBEFA, \h4FA4
  >>, 2)
Start512 == Grouped(<<
  \h6A09, \hE667, \hF3BC, \hC908, \hBB67, \hAE85, \h84CA, \hA73B, \h3C6E, \hF372, \hFE94, \hF82B, \hA54F, \hF53A, \h5F1D, \h36F1,
  \h510E, \h527F, \hADE6, \h82D1, \h9B05, \h688C, \h2B3E, \h6C1F, \h1F83, \hD9AB, \hFB41, \hBD6B, \h5BE0, \hCD19, \h137E, \h2179
  >>, 4)
Start384 == Grouped(<<
  \hCBBB, \h9D5D, \hC105, \h9ED8, \h629A, \h292A, \h367C, \hD507, \h9159, \h015A, \h3070, \hDD17, \h152F, \hECD8, \hF70E, \h5939,
  \h6733, \h2667, \hFFC0, \h0B31, \h8EB4, \h4A87, \h6858, \h1511, \hDB0C, \h2E0D, \h64F9, \h8FA7, \h47B5, \h481D, \hBEFA, \h4FA4
  >>, 4)
Md4Starts == Context(Take(Start160, 4), 64)
Md5Starts == Context(Take(Start160, 4), 64)
Sha1Starts == Context(Start160, 64)
Ripemd160Starts == Context(Start160, 64)
Sha256Starts(is224) == Context(IF is224 THEN Start224 ELSE Start256, 64)
Sha512Starts(is384) == Context(IF is384 THEN Start384 ELSE Start512, 128)

Md4Update(ctx, input) == Buffered(ctx, input, 64, Md4Process)
Md5Update(ctx, input) == Buffered(ctx, input, 64, Md5Process)
Sha1Update(ctx, input) == Buffered(ctx, input, 64, Sha1Process)
Ripemd160Update(ctx, input) == Buffered(ctx, input, 64, Ripemd160Process)
Sha256Update(ctx, input) == Buffered(ctx, input, 64, Sha256Process)
Sha512Update(ctx, input) == Buffered(ctx, input, 128, Sha512Process)

Md4Finish(ctx) ==
  ToLittleEndian(Md4Update(Md4Update(ctx, Padding(ctx.total, 64, 8)), LengthLE(ctx.total)).state)
Md5Finish(ctx) ==
  ToLittleEndian(Md5Update(Md5Update(ctx, Padding(ctx.total, 64, 8)), LengthLE(ctx.total)).state)
Ripemd160Finish(ctx) ==
  ToLittleEndian(Ripemd160Update(Ripemd160Update(ctx, Padding(ctx.total, 64, 8)),
                                 LengthLE(ctx.total)).state)
Sha1Finish(ctx) ==
  ToBigEndian(Sha1Update(Sha1Update(ctx, Padding(ctx.total, 64, 8)), LengthBE(ctx.total, 8)).state)
Sha256Finish(ctx, is224) ==
  LET out == ToBigEndian(Sha256Update(Sha256Update(ctx, Padding(ctx.total, 64, 8)),
                                      LengthBE(ctx.total, 8)).state)
  IN IF is224 THEN Take(out, 28) ELSE out
Sha512Finish(ctx, is384) ==
  LET out == ToBigEndian(Sha512Update(Sha512Update(ctx, Padding(ctx.total, 128, 16)),
                                      LengthBE(ctx.total, 16)).state)
  IN IF is384 THEN Take(out, 48) ELSE out

-----------------------------------------------------------------------------
(* md.c: the functions of a digest, by its type.                           *)

MdTypes == {"MD2", "MD4", "MD5", "RIPEMD160", "SHA1", "SHA224", "SHA256", "SHA384", "SHA512"}

MdSize(md) == CASE md \in {"MD2", "MD4", "MD5"} -> 16
                [] md \in {"RIPEMD160", "SHA1"} -> 20
                [] md = "SHA224" -> 28 [] md = "SHA256" -> 32
                [] md = "SHA384" -> 48 [] md = "SHA512" -> 64
BlockSize(md) == CASE md = "MD2" -> 16 [] md \in {"SHA384", "SHA512"} -> 128 [] OTHER -> 64

\* md_wrap.c: what each digest does when it is called through the table.
Md2Wrap(call, ctx, input) ==
  CASE call = "starts" -> Md2Starts [] call = "update" -> Md2Update(ctx, input)
    [] call = "finish" -> Md2Finish(ctx)
Md4Wrap(call, ctx, input) ==
  CASE call = "starts" -> Md4Starts [] call = "update" -> Md4Update(ctx, input)
    [] call = "finish" -> Md4Finish(ctx)
Md5Wrap(call, ctx, input) ==
  CASE call = "starts" -> Md5Starts [] call = "update" -> Md5Update(ctx, input)
    [] call = "finish" -> Md5Finish(ctx)
Ripemd160Wrap(call, ctx, input) ==
  CASE call = "starts" -> Ripemd160Starts [] call = "update" -> Ripemd160Update(ctx, input)
    [] call = "finish" -> Ripemd160Finish(ctx)
Sha1Wrap(call, ctx, input) ==
  CASE call = "starts" -> Sha1Starts [] call = "update" -> Sha1Update(ctx, input)
    [] call = "finish" -> Sha1Finish(ctx)
Sha224Wrap(call, ctx, input) ==
  CASE call = "starts" -> Sha256Starts(TRUE) [] call = "update" -> Sha256Update(ctx, input)
    [] call = "finish" -> Sha256Finish(ctx, TRUE)
Sha256Wrap(call, ctx, input) ==
  CASE call = "starts" -> Sha256Starts(FALSE) [] call = "update" -> Sha256Update(ctx, input)
    [] call = "finish" -> Sha256Finish(ctx, FALSE)
Sha384Wrap(call, ctx, input) ==
  CASE call = "starts" -> Sha512Starts(TRUE) [] call = "update" -> Sha512Update(ctx, input)
    [] call = "finish" -> Sha512Finish(ctx, TRUE)
Sha512Wrap(call, ctx, input) ==
  CASE call = "starts" -> Sha512Starts(FALSE) [] call = "update" -> Sha512Update(ctx, input)
    [] call = "finish" -> Sha512Finish(ctx, FALSE)

\* md_info_from_type and the call through its entry
MdCall(md, call, ctx, input) ==
  CASE md = "MD2" -> Md2Wrap(call, ctx, input)
    [] md = "MD4" -> Md4Wrap(call, ctx, input)
    [] md = "MD5" -> Md5Wrap(call, ctx, input)
    [] md = "RIPEMD160" -> Ripemd160Wrap(call, ctx, input)
    [] md = "SHA1" -> Sha1Wrap(call, ctx, input)
    [] md = "SHA224" -> Sha224Wrap(call, ctx, input)
    [] md = "SHA256" -> Sha256Wrap(call, ctx, input)
    [] md = "SHA384" -> Sha384Wrap(call, ctx, input)
    [] md = "SHA512" -> Sha512Wrap(call, ctx, input)

MdStarts(md) == MdCall(md, "starts", <<>>, <<>>)
MdUpdate(md, ctx, input) == MdCall(md, "update", ctx, input)
MdFinish(md, ctx) == MdCall(md, "finish", ctx, <<>>)
Digest(md, input) == MdFinish(md, MdUpdate(md, MdStarts(md), input))
=============================================================================
