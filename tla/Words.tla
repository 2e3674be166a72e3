------------------------------- MODULE Words -------------------------------
(***************************************************************************)
(* Machine words as sequences of 16-bit limbs, the high one first: what    *)
(* the C of the hashes and of the ciphers computes with uint32_t and with  *)
(* uint64_t.  Bytes are 0..255, a text is a sequence of bytes.             *)
(***************************************************************************)
LOCAL INSTANCE Integers
LOCAL INSTANCE Sequences

LIMB == 65536

\* A sequence whose members are computed here and now.
Strict(f) == <<>> \o f

\* The bits of two numbers of four bits put together by f, as a table; and two
\* numbers of 16 bits, four bits at a time.
LOCAL Bit(x, k) == (x \div 2^k) % 2
LOCAL Nibbles(f(_, _)) ==
  Strict([n \in 1..256 |->
    LET x == (n - 1) \div 16
        y == (n - 1) % 16
    IN f(Bit(x, 0), Bit(y, 0)) + 2 * f(Bit(x, 1), Bit(y, 1))
       + 4 * f(Bit(x, 2), Bit(y, 2)) + 8 * f(Bit(x, 3), Bit(y, 3))])
LOCAL OneOf(x, y) == (x + y) % 2
LOCAL XorTable == Nibbles(OneOf)
LOCAL AndTable == Nibbles(LAMBDA x, y : x * y)
LOCAL Limbs(T, a, b) ==
  T[16 * (a % 16) + (b % 16) + 1]
  + 16 * T[16 * ((a \div 16) % 16) + ((b \div 16) % 16) + 1]
  + 256 * T[16 * ((a \div 256) % 16) + ((b \div 256) % 16) + 1]
  + 4096 * T[16 * (a \div 4096) + (b \div 4096) + 1]

XorN(a, b) == Limbs(XorTable, a, b)
Xor(a, b) == Strict([i \in 1..Len(a) |-> XorN(a[i], b[i])])
And(a, b) == Strict([i \in 1..Len(a) |-> Limbs(AndTable, a[i], b[i])])
Or(a, b) == Strict([i \in 1..Len(a) |-> a[i] + b[i] - Limbs(AndTable, a[i], b[i])])
Not(a) == Strict([i \in 1..Len(a) |-> LIMB - 1 - a[i]])
Xor3(a, b, c) == Xor(a, Xor(b, c))

\* x << n | x >> (width - n)
Rotl(a, n) ==
  LET n16 == n % 16
      At(i) == a[((i + (n \div 16) - 1) % Len(a)) + 1]
  IN Strict([i \in 1..Len(a) |->
               ((At(i) * 2^n16) % LIMB) + (At(i + 1) \div 2^(16 - n16))])
Rotr(a, n) == Rotl(a, 16 * Len(a) - n)

\* x >> n and x << n, for n below the width
Shr(a, n) ==
  LET k == n \div 16
      r == n % 16
      At(i) == IF i < 1 THEN 0 ELSE a[i]
  IN Strict([i \in 1..Len(a) |->
               (At(i - k) \div 2^r) + ((At(i - k - 1) % 2^r) * 2^(16 - r))])
Shl(a, n) ==
  LET k == n \div 16
      r == n % 16
      At(i) == IF i > Len(a) THEN 0 ELSE a[i]
  IN Strict([i \in 1..Len(a) |->
               ((At(i + k) % 2^(16 - r)) * 2^r) + (At(i + k + 1) \div 2^(16 - r))])

\* The sum, without what does not fit the word.
RECURSIVE AddFrom(_, _, _, _)
AddFrom(a, b, i, carry) ==
  IF i = 0 THEN <<>>
  ELSE LET t == a[i] + b[i] + carry
       IN AddFrom(a, b, i - 1, t \div LIMB) \o <<t % LIMB>>
Add(a, b) == AddFrom(a, b, Len(a), 0)
Add3(a, b, c) == Add(a, Add(b, c))
Add4(a, b, c, d) == Add(Add(a, b), Add(c, d))

AddEach(s, t) == Strict([i \in 1..Len(s) |-> Add(s[i], t[i])])

\* A flat table cut into groups of n.
Grouped(flat, n) == Strict([i \in 1..(Len(flat) \div n) |->
                              SubSeq(flat, n * (i - 1) + 1, n * i)])

\* GET_UINT32_BE, GET_UINT64_BE: words of n limbs, and back.
BigEndian(bytes, n) ==
  Grouped([i \in 1..(Len(bytes) \div 2) |->
             (256 * bytes[2 * i - 1]) + bytes[2 * i]], n)
\* GET_UINT32_LE
LittleEndian(bytes) ==
  Strict([i \in 1..(Len(bytes) \div 4) |->
            <<(256 * bytes[4 * i]) + bytes[4 * i - 1],
              (256 * bytes[4 * i - 2]) + bytes[4 * i - 3]>>])
RECURSIVE ToBigEndian(_)
ToBigEndian(words) ==
  IF words = <<>> THEN <<>>
  ELSE LET w == Head(words)
       IN [i \in 1..(2 * Len(w)) |->
             IF i % 2 = 1 THEN w[(i + 1) \div 2] \div 256 ELSE w[i \div 2] % 256]
          \o ToBigEndian(Tail(words))
RECURSIVE ToLittleEndian(_)
ToLittleEndian(words) ==
  IF words = <<>> THEN <<>>
  ELSE LET w == Head(words)
       IN <<w[2] % 256, w[2] \div 256, w[1] % 256, w[1] \div 256>>
          \o ToLittleEndian(Tail(words))

Take(s, n) == SubSeq(s, 1, n)
Drop(s, n) == SubSeq(s, n + 1, Len(s))
Zeros(n) == [i \in 1..n |-> 0]
XorBytes(a, b) == Xor(a, b)
=============================================================================
