----------------------------- MODULE DhExchange ------------------------------
(***************************************************************************)
(* The key agreement: the Diffie-Hellman contexts of the child and of the  *)
(* client, filled by the calls of library/dhm.c that server.cpp and        *)
(* client.cpp make on them, and the AES key each of them then finds at the *)
(* start of its buf.  Numbers are scaled down to a prime of a few digits;  *)
(* a number is written as big-endian digits as mpi_write_binary does.      *)
(***************************************************************************)
EXTENDS Integers, Sequences

CONSTANTS
  P, G,      \* the modulus, a prime, and the generator, of dh_prime.txt
  Base,      \* values of a digit (256 in the code)
  KeyLen,    \* digits of the AES key (32 in the code)
  MaxCalls   \* bound: secrets calculated on a context

GroupAssumption ==
  /\ P \in Nat /\ P > 4
  /\ \A d \in 2..(P - 1) : P % d # 0
  /\ G \in 2..(P - 2)
  /\ Base \in Nat /\ Base > 1
  /\ KeyLen \in Nat
  /\ MaxCalls \in Nat

VARIABLES
  ctx,    \* ctx[x]: X, GX, GY, K, and the blinding pX, Vi, Vf
  buf,    \* buf[x]: the digits at the start of x's buf
  pc,     \* pc[x]: the call x makes next, or "done"
  calls   \* calls[x]: secrets calculated so far

vars == <<ctx, buf, pc, calls>>

Sides == {"C", "S"}

Power(b, e) ==
  LET p[n \in 0..e] == IF n = 0 THEN 1 ELSE (p[n - 1] * b) % P
  IN p[e]

\* The inverse modulo the prime (mpi_inv_mod).
Inverted(v) == CHOOSE w \in 1..(P - 1) : (v * w) % P = 1

\* mpi_size and mpi_write_binary: the digits without leading zeros, and the
\* digits padded to a length.
Size(v) == CHOOSE n \in 0..P : Base^n > v /\ (n > 0 => Base^(n - 1) <= v)
Written(v, n) == [i \in 1..n |-> (v \div Base^(n - i)) % Base]
Len_P == Size(P)

\* What writing digits at the start of a buffer leaves behind them.
Over(old, new) ==
  [i \in 1..Len(old) |-> IF i <= Len(new) THEN new[i] ELSE old[i]]

\* dhm_check_range
InRange(v) == v \in 2..(P - 2)

\* The random X of dhm_make_params and dhm_make_public is drawn again while
\* it is out of range, until that was too often.
Draws == 0..(P - 1)
Usable(x) == InRange(x) /\ InRange(Power(G, x))

-----------------------------------------------------------------------------

\* dhm_make_params, and the write of P, G and GX.  When it fails, which the
\* server does not notice, nothing that makes sense is sent, and the exchange
\* is not followed further.
MakeParams ==
  /\ pc["S"] = "make"
  /\ \E x \in Draws :
       /\ ctx' = [ctx EXCEPT !["S"].X = x, !["S"].GX = Power(G, x)]
       /\ pc' = [pc EXCEPT !["S"] = IF Usable(x) THEN "read"
                                    ELSE "done"]
  /\ UNCHANGED <<buf, calls>>

\* dhm_read_params, once the server's parameters are there.
ReadParams ==
  /\ pc["C"] = "read"
  /\ pc["S"] = "read"
  /\ ctx' = [ctx EXCEPT !["C"].GY = ctx["S"].GX]
  /\ pc' = [pc EXCEPT !["C"] = IF InRange(ctx["S"].GX) THEN "make" ELSE "done"]
  /\ UNCHANGED <<buf, calls>>

\* dhm_make_public: GX goes to buf, padded to the size of P, and is sent.
MakePublic ==
  /\ pc["C"] = "make"
  /\ \E x \in Draws :
       /\ ctx' = [ctx EXCEPT !["C"].X = x, !["C"].GX = Power(G, x)]
       /\ IF Usable(x)
          THEN /\ buf' = [buf EXCEPT !["C"] = Over(@, Written(Power(G, x), Len_P))]
               /\ pc' = [pc EXCEPT !["C"] = "calc"]
          ELSE /\ pc' = [pc EXCEPT !["C"] = "done"]
               /\ buf' = buf
  /\ UNCHANGED calls

\* The read of the public value into buf, and dhm_read_public.
ReadPublic ==
  /\ pc["S"] = "read"
  /\ pc["C"] \in {"calc", "agreed"}
  /\ buf' = [buf EXCEPT !["S"] = Over(@, Written(ctx["C"].GX, Len_P))]
  /\ ctx' = [ctx EXCEPT !["S"].GY = ctx["C"].GX]
  /\ pc' = [pc EXCEPT !["S"] = "calc"]
  /\ UNCHANGED calls

\* dhm_update_blinding: none for a new X, the old values squared, or new
\* values when there are none.
Blinding(c) ==
  IF c.X # c.pX
  THEN {[c EXCEPT !.pX = c.X, !.Vi = 1, !.Vf = 1]}
  ELSE IF c.Vi # 1
  THEN {[c EXCEPT !.Vi = (@ * @) % P, !.Vf = (@ * @) % P]}
  ELSE {[c EXCEPT !.Vi = v, !.Vf = Power(Inverted(v), c.X)] : v \in 2..(P - 1)}

\* The exponentiation of dhm_calc_secret, between blinding and unblinding.
Secret(c) == (Power((c.GY * c.Vi) % P, c.X) * c.Vf) % P

\* The secret goes to the start of buf without leading zeros: behind a short
\* one, some of the client's public value is left.
KeyBuffer(x, k) == Over(buf[x], Written(k, Size(k)))

\* dhm_calc_secret, once in a session of remote-login, and again by a server
\* that keeps the same X for more than one peer.
CalcSecret(x) ==
  /\ pc[x] \in {"calc", "agreed"}
  /\ calls[x] < MaxCalls
  /\ InRange(ctx[x].GY)
  /\ \E c \in Blinding(ctx[x]) :
       /\ ctx' = [ctx EXCEPT ![x] = [c EXCEPT !.K = Secret(c)]]
       /\ buf' = [buf EXCEPT ![x] = KeyBuffer(x, Secret(c))]
  /\ pc' = [pc EXCEPT ![x] = "agreed"]
  /\ calls' = [calls EXCEPT ![x] = @ + 1]

-----------------------------------------------------------------------------

Fresh == [X |-> 0, GX |-> 0, GY |-> 0, K |-> 0, pX |-> 0, Vi |-> 0, Vf |-> 0]

Init ==
  /\ ctx = [x \in Sides |-> Fresh]
  /\ buf = [x \in Sides |-> [i \in 1..Len_P |-> 0]]
  /\ pc = [x \in Sides |-> IF x = "S" THEN "make" ELSE "read"]
  /\ calls = [x \in Sides |-> 0]

Next ==
  MakeParams \/ ReadParams \/ MakePublic \/ ReadPublic
    \/ \E x \in Sides : CalcSecret(x)

Spec == Init /\ [][Next]_vars

-----------------------------------------------------------------------------

\* The blinding takes itself out, however often it was squared or renewed:
\* Vf undoes what Vi does to the power (dhm.c:284-341).
BlindingUndoes ==
  \A x \in Sides :
    ctx[x].pX # 0 => (Power(ctx[x].Vi, ctx[x].pX) * ctx[x].Vf) % P = 1

\* When both have calculated, both have the same secret, after any number of
\* calculations on each side (dhm.c:346-394).
SecretsAgree ==
  (pc["S"] = "agreed" /\ pc["C"] = "agreed") => ctx["S"].K = ctx["C"].K

\* The AES keys are the same on both sides, also when the secret is shorter
\* than a key and what buf held before fills it up (server.cpp:104-109,
\* client.cpp:91-97).
KeysAgree ==
  (pc["S"] = "agreed" /\ pc["C"] = "agreed")
    => SubSeq(buf["S"], 1, KeyLen) = SubSeq(buf["C"], 1, KeyLen)
=============================================================================
