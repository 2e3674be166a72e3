------------------------------- MODULE ElGamal -------------------------------
(***************************************************************************)
(* The ElGamal demonstration (elgamal.py): bob encrypts a line that was    *)
(* typed for alice's public key and alice decrypts it.  The group is       *)
(* scaled down to a small prime and a byte to two digits of base Digit     *)
(* (16 in the code), so that all that matters of the conversions between   *)
(* text and numbers is there: leading zeros, odd lengths and reduction.    *)
(***************************************************************************)
EXTENDS Integers, Sequences, SequencesExt

CONSTANTS
  P, G,    \* the constants of ElgamalCrypt.__init__
  Digit,   \* values of a hexadecimal digit
  MaxLen   \* bound: bytes of a message

GroupAssumption ==
  /\ P \in Nat /\ P > 4
  /\ \A d \in 2..(P - 1) : P % d # 0
  /\ G \in 2..(P - 2)
  /\ Digit \in Nat /\ Digit > 1
  /\ MaxLen \in Nat

VARIABLES
  x,        \* alice's private key
  message,  \* the line typed, a sequence of bytes
  cipher,   \* bob's ciphertext: g^y and the message times the secret
  result,   \* what alice's decrypt returns
  stage     \* "start", "sent", "done", or "raised": an exception ends main

vars == <<x, message, cipher, result, stage>>

Bytes == 0..(Digit * Digit - 1)

Power(b, e) ==
  LET p[n \in 0..e] == IF n = 0 THEN 1 ELSE (p[n - 1] * b) % P
  IN p[e]

-----------------------------------------------------------------------------
(* Arithmetic.                                                             *)

\* egcd(a, b): <<g, x, y>> with a*x + b*y = g.
egcd ==
  LET e[ab \in (0..P) \X (0..P)] ==
        LET a == ab[1]
            b == ab[2]
        IN IF a = 0 THEN <<b, 0, 1>>
           ELSE LET r == e[<<b % a, a>>]
                IN <<r[1], r[3] - (b \div a) * r[2], r[2]>>
  IN e

\* inverse(a, p); every a in 1..p-1 has one.
inverse(a) == egcd[<<a, P>>][2] % P

\* plaintext.encode('hex') read as a number.
Value(m) == FoldLeft(LAMBDA v, b : v * Digit * Digit + b, 0, m)

\* hex(plaintext)[2:-1]: the digits without leading zeros, of a long.
Hex(v) ==
  LET len == CHOOSE n \in 1..(v + 1) :
               Digit^n > v /\ (n > 1 => Digit^(n - 1) <= v)
  IN [i \in 1..len |-> (v \div Digit^(len - i)) % Digit]

\* digits.decode('hex') raises unless the digits are even in number.
Decodes(digits) == Len(digits) % 2 = 0
Decoded(digits) ==
  [i \in 1..(Len(digits) \div 2) |-> digits[2*i - 1] * Digit + digits[2*i]]

-----------------------------------------------------------------------------

\* bob.encrypt(message, alice.public_key()): an empty line has no value.
Encrypt ==
  /\ stage = "start"
  /\ IF message = <<>>
     THEN stage' = "raised" /\ cipher' = cipher
     ELSE /\ \E y \in 2..(P - 2) :
               cipher' = <<Power(G, y),
                           (Value(message) * Power(Power(G, x), y)) % P>>
          /\ stage' = "sent"
  /\ UNCHANGED <<x, message, result>>

\* The number alice finds in the ciphertext.
Plain(c) == (c[2] * inverse(Power(c[1], x))) % P

\* alice.decrypt(encrypted_text)
Decrypt ==
  /\ stage = "sent"
  /\ LET digits == Hex(Plain(cipher))
     IN IF Decodes(digits)
        THEN stage' = "done" /\ result' = Decoded(digits)
        ELSE stage' = "raised" /\ result' = result
  /\ UNCHANGED <<x, message, cipher>>

\* The keys are drawn when the module is loaded, and a line is typed.
Init ==
  /\ x \in 2..(P - 2)
  /\ message \in SeqOf(Bytes, MaxLen)
  /\ cipher = <<>>
  /\ result = <<>>
  /\ stage = "start"

Next == Encrypt \/ Decrypt

Spec == Init /\ [][Next]_vars

-----------------------------------------------------------------------------

\* A message that is a number below the prime and does not begin with a byte
\* below Digit comes back as it was, whatever keys were drawn.
RoundTrip ==
  (stage \in {"done", "raised"} /\ message # <<>>
     /\ message[1] >= Digit /\ Value(message) < P)
    => stage = "done" /\ result = message

\* A message below the prime that is lost is lost with an exception, but for
\* zeros at its front, which are dropped: it never comes back as another text.
NeverAnother ==
  (stage = "done" /\ Value(message) < P)
    => \E k \in 0..Len(message) :
         /\ result = SubSeq(message, k + 1, Len(message))
         /\ \A i \in 1..k : message[i] = 0

\* decrypt: "given a ciphertext tuple (g^y, encrypted_message), return
\* plaintext" (elgamal.py:44), for every plaintext below the prime, a line that
\* begins with a tab for instance.
DecryptReturnsPlaintext ==
  (message # <<>> /\ message[1] # 0 /\ Value(message) < P)
    => stage # "raised"
=============================================================================
