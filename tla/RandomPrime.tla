----------------------------- MODULE RandomPrime -----------------------------
(***************************************************************************)
(* The search for a random prime (randomprime.py): numbers are drawn until *)
(* one passes trial division by the low primes and a number of rounds of   *)
(* the Rabin-Miller test, or until the attempts are used up.               *)
(***************************************************************************)
EXTENDS Integers, FiniteSets

CONSTANTS
  MaxN,       \* the greatest number that can be drawn (2^k - 1)
  LowPrimes,  \* the primes of the trial division
  Rounds,     \* rounds of the Rabin-Miller test (64 in the code)
  Attempts    \* numbers drawn at most

SearchAssumption ==
  /\ MaxN \in Nat
  /\ LowPrimes \subseteq Nat \ {0, 1, 2}
  /\ Rounds \in Nat \ {0}
  /\ Attempts \in Nat

VARIABLES
  r,       \* attempts left
  n,       \* the number under test
  k,       \* rounds it has passed
  used,    \* the bases drawn for them
  pc,      \* "draw", "divide", "round" or "done"
  answer   \* what generateLargePrime returns, or 0

vars == <<r, n, k, used, pc, answer>>

Divides(d, m) == m % d = 0

Prime(m) == m > 1 /\ \A d \in 2..(m - 1) : ~Divides(d, m)

-----------------------------------------------------------------------------

\* s and t with n - 1 = s * 2^t and s odd.
TwosIn(m) == CHOOSE t \in 0..m : Divides(2^t, m) /\ ~Divides(2^(t + 1), m)

Power(a, e, m) ==
  LET p[i \in 0..e] == IF i = 0 THEN 1 ELSE (p[i - 1] * a) % m
  IN p[e]

\* The values of v in a round with base a: a^s, squared again and again.
Squares(a, m) ==
  LET t == TwosIn(m - 1)
      v[i \in 0..(t - 1)] == IF i = 0 THEN Power(a, (m - 1) \div 2^t, m)
                             ELSE (v[i - 1]^2) % m
  IN v

\* Mutant of Passes: i is compared with t - 2.
PassesTooShort(a, m) ==
  LET v == Squares(a, m)
  IN v[0] = 1 \/ \E i \in DOMAIN v \ {TwosIn(m - 1) - 1} : v[i] = m - 1

\* One round of rabinMiller goes on to the next if v is 1 at once, or m - 1
\* before it was squared t - 1 times.
Passes(a, m) ==
  LET v == Squares(a, m)
  IN v[0] = 1 \/ \E i \in DOMAIN v : v[i] = m - 1

-----------------------------------------------------------------------------

\* os.urandom, and one attempt less; without attempts left, -1.
Draw ==
  /\ pc = "draw"
  /\ \/ /\ r > 0
        /\ n' \in 0..MaxN
        /\ r' = r - 1
        /\ pc' = "divide"
        /\ answer' = answer
     \/ /\ r = 0
        /\ answer' = -1
        /\ pc' = "done"
        /\ UNCHANGED <<r, n>>
  /\ UNCHANGED <<k, used>>

\* isPrime, down to the call of rabinMiller: the loop returns at the first
\* low prime that is n or divides it.
Divide ==
  /\ pc = "divide"
  /\ \/ /\ n < 3 \/ Divides(2, n)
        /\ pc' = "draw"
        /\ answer' = answer
     \/ /\ n >= 3
        /\ ~Divides(2, n)
        /\ LET hits == {p \in LowPrimes : Divides(p, n)}
               first == CHOOSE p \in hits : \A q \in hits : p <= q
           IN \/ hits = {} /\ pc' = "round" /\ answer' = answer
              \/ hits # {} /\ first = n /\ pc' = "done" /\ answer' = n
              \/ hits # {} /\ first # n /\ pc' = "draw" /\ answer' = answer
  /\ UNCHANGED <<r, n, k, used>>

\* A round of rabinMiller with a base from random.randrange(2, n-1).
Round ==
  /\ pc = "round"
  /\ \E a \in 2..(n - 2) :
       \/ /\ ~Passes(a, n)
          /\ pc' = "draw"
          /\ k' = 0
          /\ used' = {}
          /\ answer' = answer
       \/ /\ Passes(a, n)
          /\ k' = k + 1
          /\ used' = used \cup {a}
          /\ pc' = IF k' = Rounds THEN "done" ELSE "round"
          /\ answer' = IF k' = Rounds THEN n ELSE answer
  /\ UNCHANGED <<r, n>>

Init ==
  /\ r = Attempts
  /\ n = 0
  /\ k = 0
  /\ used = {}
  /\ pc = "draw"
  /\ answer = 0

Next == Draw \/ Divide \/ Round

Spec == Init /\ [][Next]_vars

-----------------------------------------------------------------------------

\* A drawn odd prime is never thrown away: neither the trial division nor any
\* base of the Rabin-Miller test rejects it (randomprime.py:6-25, 43-49).
OddPrimesKept ==
  [][ Prime(n) /\ n # 2 /\ pc \in {"divide", "round"} => pc' # "draw" ]_vars

\* An answer that is not a prime has no low prime in it, and every base that
\* was drawn for it is a strong liar: it satisfies, at no greater power, the
\* congruence that a prime satisfies for all bases.
CompositeOnlyByLiars ==
  (pc = "done" /\ answer > 0 /\ ~Prime(answer)) =>
    /\ \A p \in LowPrimes : ~Divides(p, answer)
    /\ used # {}
    /\ \A a \in used :
         LET t == TwosIn(answer - 1)
             s == (answer - 1) \div 2^t
         IN \/ Divides(answer, Power(a, s, answer) - 1)
            \/ \E i \in 0..(t - 1) :
                 Divides(answer, Power(a, s * 2^i, answer) + 1)
=============================================================================
