--------------------------- MODULE MCTlsHandshake ---------------------------
(* Instances of TlsHandshake for TLC.                                      *)
EXTENDS TlsHandshake

MCKx == [rsa |-> "RSA", dhe |-> "DHE_RSA", psk |-> "PSK", rsapsk |-> "RSA_PSK"]
MCPrefers == <<"dhe", "rsa", "psk", "rsapsk">>

Both(a) == [s \in Ends |-> a]
Plain == [offer |-> {"rsa"}, auth |-> Both("NONE"), cert |-> Both("good"),
          psk |-> Both(1), tickets |-> Both(FALSE), reneg |-> Both(TRUE),
          moves |-> 0]
Tickets == [Plain EXCEPT !.tickets = Both(TRUE)]
Strict == [Plain EXCEPT !.offer = {"dhe"}, !.auth = Both("REQUIRED")]
Asked == [Plain EXCEPT !.auth["srv"] = "OPTIONAL"]
WithKey == [Plain EXCEPT !.offer = {"rsapsk"}]
Untold == [Tickets EXCEPT !.tickets["cli"] = FALSE]

\* One connection with data and renegotiations around the handshake, or
\* several with little of either, the world acting between them.
MCPlans ==
  { <<[Plain EXCEPT !.moves = 3]>>,
    <<[Strict EXCEPT !.moves = 2, !.reneg["srv"] = FALSE]>>,
    <<[Asked EXCEPT !.moves = 2, !.cert["cli"] = "none", !.reneg["cli"] = FALSE]>>,
    <<[Plain EXCEPT !.moves = 2, !.offer = {"psk"}]>>,
    <<[WithKey EXCEPT !.psk["cli"] = 2]>>,
    <<[Strict EXCEPT !.cert["cli"] = "bad"]>>,
    <<Plain, [Plain EXCEPT !.moves = 1]>>,
    <<Plain, [Plain EXCEPT !.offer = {"rsa", "dhe"}]>>,
    <<Tickets, [Tickets EXCEPT !.moves = 1]>>,
    <<Tickets, [Tickets EXCEPT !.offer = {"rsa", "dhe"}]>>,
    <<Plain, Tickets, Tickets>>,
    <<Tickets, Untold, Tickets>>,
    <<Plain, [Plain EXCEPT !.cert["srv"] = "bad", !.moves = 1]>>,
    <<Asked, Strict, [WithKey EXCEPT !.auth["srv"] = "REQUIRED"]>> }

\* RSA_PSK after a connection whose server asked for a certificate.
MCReused == { <<Asked, WithKey>>, <<Strict, Plain, WithKey>> }

\* A client that does without tickets in between.
MCToggled == { <<Tickets, Untold, Tickets>> }
=============================================================================
