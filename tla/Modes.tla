--------------------------------- MODULE Modes ---------------------------------
(***************************************************************************)
(* What the ciphers of the library make of a block: CBC, CFB of whole      *)
(* blocks and of bytes, CTR, GCM and CCM.  The same loops stand once for   *)
(* each cipher in the code; here the block is a parameter.                 *)
(*                                                                         *)
(* Each operator answers a record: ok, what came out, and what the code    *)
(* has written back into the caller's iv, offset or counter.               *)
(***************************************************************************)
EXTENDS Integers, Sequences, Words

CONSTANTS
  Block(_, _, _),    \* Block(key, op, b): the block b, encrypted (op 1) or not (op 0)
  GcmLimit           \* the most bytes of one gcm message (0x03FFFFE0)

LOCAL ENC == 1
LOCAL DEC == 0
Failed == [ok |-> FALSE]

\* What is left to do in pieces of n bytes, the last one perhaps shorter.
Pieces(s, n) ==
  Strict([i \in 1..((Len(s) + n - 1) \div n) |->
            SubSeq(s, n * (i - 1) + 1, IF n * i > Len(s) THEN Len(s) ELSE n * i)])
\* XOR of as many bytes as the shorter has.
XorShort(a, b) == LET n == IF Len(a) < Len(b) THEN Len(a) ELSE Len(b)
                  IN Xor(Take(a, n), Take(b, n))
Padded(s, n) == s \o Zeros(n - Len(s))

\* The last n bytes of y counted up, without a carry into the others.
RECURSIVE Incremented(_, _)
Incremented(y, n) ==
  IF n = 0 THEN y
  ELSE IF y[Len(y)] < 255 THEN Append(Take(y, Len(y) - 1), y[Len(y)] + 1)
  ELSE Append(Incremented(Take(y, Len(y) - 1), n - 1), 0)

\* n in k bytes, the high one first.
RECURSIVE Counted(_, _)
Counted(n, k) == IF k = 0 THEN <<>> ELSE Append(Counted(n \div 256, k - 1), n % 256)

-----------------------------------------------------------------------------
(* CBC, CFB and CTR.                                                       *)

RECURSIVE CbcFrom(_)
CbcFrom(s) ==
  IF s.rest = <<>> THEN s
  ELSE LET b == Take(s.rest, Len(s.iv))
           c == IF s.op = ENC THEN Block(s.key, ENC, Xor(b, s.iv))
                ELSE Xor(Block(s.key, DEC, b), s.iv)
       IN CbcFrom([s EXCEPT !.rest = Drop(@, Len(s.iv)), !.out = @ \o c,
                            !.iv = IF s.op = ENC THEN c ELSE b])
Cbc(key, op, iv, input) ==
  IF Len(input) % Len(iv) # 0 THEN Failed
  ELSE LET s == CbcFrom([key |-> key, op |-> op, iv |-> iv, rest |-> input, out |-> <<>>])
       IN [ok |-> TRUE, out |-> s.out, iv |-> s.iv]

RECURSIVE CfbFrom(_)
CfbFrom(s) ==
  IF s.rest = <<>> THEN s
  ELSE LET iv == IF s.off = 0 THEN Block(s.key, ENC, s.iv) ELSE s.iv
           c == XorN(Head(s.rest), iv[s.off + 1])
       IN CfbFrom([s EXCEPT !.rest = Tail(@), !.out = Append(@, c),
                            !.off = (@ + 1) % Len(iv),
                            !.iv = Take(iv, s.off)
                                   \o <<IF s.op = DEC THEN Head(s.rest) ELSE c>>
                                   \o Drop(iv, s.off + 1)])
Cfb(key, op, off, iv, input) ==
  LET s == CfbFrom([key |-> key, op |-> op, off |-> off, iv |-> iv, rest |-> input,
                    out |-> <<>>])
  IN [ok |-> TRUE, out |-> s.out, off |-> s.off, iv |-> s.iv]

RECURSIVE Cfb8From(_)
Cfb8From(s) ==
  IF s.rest = <<>> THEN s
  ELSE LET c == XorN(Block(s.key, ENC, s.iv)[1], Head(s.rest))
       IN Cfb8From([s EXCEPT !.rest = Tail(@), !.out = Append(@, c),
                             !.iv = Append(Tail(@), IF s.op = DEC THEN Head(s.rest) ELSE c)])
Cfb8(key, op, iv, input) ==
  LET s == Cfb8From([key |-> key, op |-> op, iv |-> iv, rest |-> input, out |-> <<>>])
  IN [ok |-> TRUE, out |-> s.out, iv |-> s.iv]

RECURSIVE CtrFrom(_)
CtrFrom(s) ==
  IF s.rest = <<>> THEN s
  ELSE LET fresh == s.off = 0
           block == IF fresh THEN Block(s.key, ENC, s.counter) ELSE s.block
       IN CtrFrom([s EXCEPT !.rest = Tail(@), !.off = (@ + 1) % Len(block),
                            !.out = Append(@, XorN(Head(s.rest), block[s.off + 1])),
                            !.counter = IF fresh THEN Incremented(@, Len(@)) ELSE @,
                            !.block = block])
Ctr(key, off, counter, block, input) ==
  LET s == CtrFrom([key |-> key, off |-> off, counter |-> counter, block |-> block,
                    rest |-> input, out |-> <<>>])
  IN [ok |-> TRUE, out |-> s.out, off |-> s.off, counter |-> s.counter, block |-> s.block]

-----------------------------------------------------------------------------
(* GCM.  A member of the field is one word of 128 bits.                    *)

Field(bytes) == BigEndian(bytes, 8)[1]
Half(v) == Xor(Shr(v, 1), <<IF v[8] % 2 = 1 THEN \hE100 ELSE 0>> \o Zeros(7))

\* gcm_gen_table: i times H for each i below 16, where 8 stands for one.
GcmGenTable(key) ==
  LET h8 == Field(Block(key, ENC, Zeros(16)))
      h4 == Half(h8)
      h2 == Half(h4)
      h1 == Half(h2)
      Times(bits, h, rest) == IF bits = 1 THEN Xor(h, rest) ELSE rest
      Entry(i) == Times(i \div 8, h8, Times((i \div 4) % 2, h4,
                  Times((i \div 2) % 2, h2, Times(i % 2, h1, Zeros(8)))))
  IN Strict([i \in 1..16 |-> Entry(i - 1)])

last4 == <<\h0000, \h1C20, \h3840, \h2460, \h7080, \h6CA0, \h48C0, \h54E0,
           \hE100, \hFD20, \hD940, \hC560, \h9180, \h8DA0, \hA9C0, \hB5E0>>

\* gcm_mult: half a byte at a time, from the last one on.
RECURSIVE MultFrom(_, _)
MultFrom(H, s) ==      \* s: the half bytes left, and what there is so far
  IF s[1] = <<>> THEN s[2]
  ELSE LET z == Xor(Shr(s[2], 4), <<last4[(s[2][8] % 16) + 1]>> \o Zeros(7))
       IN MultFrom(H, <<Tail(s[1]), Xor(z, H[Head(s[1]) + 1])>>)
GcmMult(H, x) ==
  LET halves == Strict([k \in 1..32 |->
                  LET b == x[16 - ((k - 1) \div 2)] IN IF k % 2 = 1 THEN b % 16 ELSE b \div 16])
  IN ToBigEndian(<<MultFrom(H, <<halves, Zeros(8)>>)>>)

RECURSIVE Ghash(_, _)
Ghash(H, s) ==         \* s: the pieces left, and what they are added to
  IF s[1] = <<>> THEN s[2]
  ELSE Ghash(H, <<Tail(s[1]), GcmMult(H, Xor(s[2], Padded(Head(s[1]), 16)))>>)

GcmStarts(key, mode, iv, add) ==
  LET H == GcmGenTable(key)
      y == IF Len(iv) = 12 THEN iv \o <<0, 0, 0, 1>>
           ELSE Ghash(H, <<Append(Pieces(iv, 16), Counted(8 * Len(iv), 16)), Zeros(16)>>)
  IN [ok |-> TRUE, key |-> key, mode |-> mode, H |-> H, y |-> y, len |-> 0,
      addLen |-> Len(add), base |-> Block(key, ENC, y),
      buf |-> Ghash(H, <<Pieces(add, 16), Zeros(16)>>), out |-> <<>>]

RECURSIVE GcmPieces(_, _)
GcmPieces(ctx, pieces) ==
  IF pieces = <<>> THEN ctx
  ELSE LET p == Head(pieces)
           y == Incremented(ctx.y, 4)
           o == XorShort(p, Block(ctx.key, ENC, y))
           seen == IF ctx.mode = DEC THEN p ELSE o
       IN GcmPieces([ctx EXCEPT !.y = y, !.out = @ \o o,
                       !.buf = GcmMult(ctx.H, Xor(@, Padded(seen, 16)))], Tail(pieces))
\* Every call but the last must bring whole blocks.
GcmUpdate(ctx, input) ==
  IF ctx.len + Len(input) > GcmLimit THEN Failed
  ELSE GcmPieces([ctx EXCEPT !.len = @ + Len(input), !.out = <<>>], Pieces(input, 16))

GcmFinish(ctx, tagLen) ==
  LET sizes == Counted(8 * ctx.addLen, 8) \o Counted(8 * ctx.len, 8)
      hash == IF ctx.len = 0 /\ ctx.addLen = 0 THEN Zeros(16)
              ELSE GcmMult(ctx.H, Xor(ctx.buf, sizes))
  IN IF tagLen \notin 4..16 THEN Failed
     ELSE [ok |-> TRUE, tag |-> Take(Xor(ctx.base, hash), tagLen)]

GcmCryptAndTag(key, mode, iv, add, input, tagLen) ==
  LET c == GcmUpdate(GcmStarts(key, mode, iv, add), input)
      f == GcmFinish(c, tagLen)
  IN IF ~c.ok \/ ~f.ok THEN Failed
     ELSE [ok |-> TRUE, out |-> c.out, tag |-> f.tag]
GcmAuthDecrypt(key, iv, add, tag, input) ==
  LET c == GcmCryptAndTag(key, DEC, iv, add, input, Len(tag))
  IN IF ~c.ok THEN Failed
     ELSE IF tag # c.tag THEN [ok |-> FALSE, out |-> Zeros(Len(input))]
     ELSE [ok |-> TRUE, out |-> c.out]

-----------------------------------------------------------------------------
(* CCM                                                                     *)

\* UPDATE_CBC_MAC over each block.
RECURSIVE CbcMac(_, _)
CbcMac(key, s) ==
  IF s[1] = <<>> THEN s[2]
  ELSE CbcMac(key, <<Tail(s[1]), Block(key, ENC, Xor(s[2], Padded(Head(s[1]), 16)))>>)

RECURSIVE CcmCrypt(_, _)
CcmCrypt(key, s) ==    \* s: the pieces left, the counter block, its counter's size, the output
  IF s[1] = <<>> THEN s[4]
  ELSE CcmCrypt(key, <<Tail(s[1]), Incremented(s[2], s[3]), s[3],
                       s[4] \o XorShort(Head(s[1]), Block(key, ENC, s[2]))>>)

CcmAuthCrypt(key, mode, iv, add, input, tagLen) ==
  LET q == 15 - Len(iv)
      fits == q > 3 \/ Len(input) < 256^q
      flags == (IF add # <<>> THEN 64 ELSE 0) + (8 * ((tagLen - 2) \div 2)) + q - 1
      B0 == <<flags>> \o iv \o Counted(Len(input), q)
      header == IF add = <<>> THEN <<>> ELSE Pieces(Counted(Len(add), 2) \o add, 16)
      counter == <<q - 1>> \o iv \o Zeros(q - 1)
      out == CcmCrypt(key, <<Pieces(input, 16), Append(counter, 1), q, <<>>>>)
      text == IF mode = ENC THEN input ELSE out
      y == CbcMac(key, <<<<B0>> \o header \o Pieces(text, 16), Zeros(16)>>)
  IN IF tagLen \notin {4, 6, 8, 10, 12, 14, 16} \/ Len(iv) \notin 7..13
        \/ Len(add) > \hFF00 \/ ~fits THEN Failed
     ELSE [ok |-> TRUE, out |-> out,
           tag |-> Take(Xor(y, Block(key, ENC, Append(counter, 0))), tagLen)]
CcmEncryptAndTag(key, iv, add, input, tagLen) == CcmAuthCrypt(key, ENC, iv, add, input, tagLen)
CcmAuthDecrypt(key, iv, add, input, tag) ==
  LET c == CcmAuthCrypt(key, DEC, iv, add, input, Len(tag))
  IN IF ~c.ok THEN Failed
     ELSE IF tag # c.tag THEN [ok |-> FALSE, out |-> Zeros(Len(input))]
     ELSE [ok |-> TRUE, out |-> c.out]
=============================================================================
