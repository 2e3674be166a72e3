---------------------------- MODULE TlsHandshake ----------------------------
(***************************************************************************)
(* The TLS handshake of the library the programs are built on: ssl_cli.c,  *)
(* ssl_srv.c and what they share in ssl_tls.c, with session resumption     *)
(* from the server's cache (SslCache) and by tickets, with renegotiation   *)
(* asked for by either side, and application data around it.               *)
(*                                                                         *)
(* Both ends are this library.  Cryptography is ideal: a master secret,    *)
(* the keys and the verify data are the terms they are computed from.  One *)
(* record carries one message, and a message is read or written whole.    *)
(***************************************************************************)
EXTENDS SslCache, FiniteSets

CONSTANTS
  Kx,             \* the key exchange of each cipher suite
  Prefers,        \* the server's suites, first choice first
  Plans,          \* how the contexts are set up, connection by connection
  TicketLifetime, \* ssl->ticket_lifetime
  MaxRecords,     \* ssl->renego_max_records
  Start, MaxTime, \* the clock runs from Start to MaxTime
  Stride, MaxOthers, MaxBoots   \* bounds

Suites == DOMAIN Kx
Ends == {"cli", "srv"}
Peer(s) == IF s = "cli" THEN "srv" ELSE "cli"
Certs == {"none", "good", "bad"}
NoSuite == "none"

ASSUME HandshakeAssumption ==
  /\ NoSuite \notin Suites
  /\ Kx \in [Suites -> {"RSA", "DHE_RSA", "PSK", "RSA_PSK"}]
  /\ Prefers \in Seq(Suites)
  /\ Plans \subseteq Seq(
       [offer : SUBSET Suites,                           \* ciphersuite_list
        auth : [Ends -> {"NONE", "OPTIONAL", "REQUIRED"}],  \* authmode
        cert : [Ends -> Certs],                          \* own certificate
        psk : [Ends -> Nat],                             \* pre-shared key
        tickets : [Ends -> BOOLEAN],                     \* session_tickets
        reneg : [Ends -> BOOLEAN],                       \* ~disable_renegotiation
        moves : Nat])                 \* writes and renegotiations: a bound
  /\ {TicketLifetime, Start} \subseteq Nat /\ Start > TicketLifetime
  /\ {MaxRecords, Stride, MaxOthers, MaxBoots} \subseteq Nat

VARIABLES
  ssl,      \* ssl[s]: the context of each end
  wire,     \* wire[s]: the records on their way to s
  plan,     \* the settings of the client's connections
  saved,    \* the session the client's program kept (ssl_get_session)
  boot,     \* the number of the server's context: its ticket keys
  draws,    \* random values drawn so far: each is new
  conns, asks, others,   \* connections, renegotiations of this one, others
  sent, got,             \* sent[s]: data s wrote; got[s]: data s was given
  lost,     \* was data dropped by a call other than ssl_read?
  made      \* the sessions full handshakes made: [session, conn]

hsvars == <<ssl, wire>>
appvars == <<sent, got, lost, asks>>
envvars == <<plan, saved, boot, conns, others, clock>>
vars == <<ssl, wire, plan, saved, boot, draws, conns, asks, others, sent,
          got, lost, made, chain, clock>>

setting == plan[conns]
Moves == asks + sent["cli"] + sent["srv"]

-----------------------------------------------------------------------------
(* Data                                                                    *)

NoTicket == [key |-> 0]
NoInfo == <<>>
NoKeys == <<>>
NoMsg == [msg |-> "nothing"]

\* ssl_session_init
NoSession == [id |-> 0, suite |-> NoSuite, master |-> <<>>, cert |-> "none",
              verify |-> "none", ticket |-> NoTicket, start |-> 0]

\* ssl_handshake_init: a fresh session, transform and handshake.
Fresh(x) == [x EXCEPT !.neg = NoSession, !.resume = FALSE, !.due = FALSE,
                      !.cr = 0, !.sr = 0, !.log = <<>>, !.st = "HELLO_REQUEST"]

\* ssl_init
NewContext ==
  [st |-> "HELLO_REQUEST", reneg |-> "INITIAL", err |-> "OK",
   neg |-> NoSession, sess |-> NoSession, resume |-> FALSE, due |-> FALSE,
   cr |-> 0, sr |-> 0, log |-> <<>>, held |-> NoMsg, asked |-> FALSE,
   in |-> NoKeys, out |-> NoKeys, own |-> NoInfo, peer |-> NoInfo, seen |-> 0]

\* ssl_session_reset: client_auth is not among what it resets.
Reset(x) == [NewContext EXCEPT !.asked = x.asked]

States == <<"HELLO_REQUEST", "CLIENT_HELLO", "SERVER_HELLO",
  "SERVER_CERTIFICATE", "SERVER_KEY_EXCHANGE", "CERTIFICATE_REQUEST",
  "SERVER_HELLO_DONE", "CLIENT_CERTIFICATE", "CLIENT_KEY_EXCHANGE",
  "CERTIFICATE_VERIFY", "CLIENT_CHANGE_CIPHER_SPEC", "CLIENT_FINISHED",
  "SERVER_CHANGE_CIPHER_SPEC", "SERVER_FINISHED", "FLUSH_BUFFERS",
  "HANDSHAKE_WRAPUP", "HANDSHAKE_OVER">>

\* ssl->state++
After(st) == States[1 + CHOOSE i \in DOMAIN States : States[i] = st]
Onward(x) == [x EXCEPT !.st = After(@)]

Over(s) == ssl[s].st = "HANDSHAKE_OVER" /\ ssl[s].err = "OK"
At(s, st) == ssl[s].st = st /\ ssl[s].err = "OK"
KxOf(s) == Kx[ssl[s].neg.suite]
WithPsk(s) == KxOf(s) \in {"PSK", "RSA_PSK"}

HandshakeMessages == {"CLIENT_HELLO", "SERVER_HELLO", "CERTIFICATE",
  "SERVER_KEY_EXCHANGE", "CERTIFICATE_REQUEST", "SERVER_HELLO_DONE",
  "CLIENT_KEY_EXCHANGE", "CERTIFICATE_VERIFY", "NEW_SESSION_TICKET",
  "FINISHED", "HELLO_REQUEST"}

\* What the checksum of a handshake takes of a message.  Two fields are left
\* out: the receiver compares them with its own data.
Hashed(m) == [f \in DOMAIN m \ {"info", "over"} |-> m[f]]

\* ssl_derive_keys: the master secret of a full handshake, and the keys that
\* s writes with.
Master(s, x, pms) == <<pms, IF WithPsk(s) THEN setting.psk[s] ELSE 0, x.cr, x.sr>>
KeysOf(s, x) == <<s, x.neg.suite, x.neg.master, x.cr, x.sr>>

\* calc_finished
Verify(s, x) == [from |-> s, master |-> x.neg.master, log |-> x.log]

-----------------------------------------------------------------------------
(* Records                                                                 *)

\* ssl_write_record: the checksum takes what a handshake writes, a hello
\* request excepted.
Say(s, x, m) ==
  /\ ssl' = [ssl EXCEPT ![s] =
       IF m.msg \in HandshakeMessages \ {"HELLO_REQUEST"}
       THEN [x EXCEPT !.log = Append(@, Hashed(m))] ELSE x]
  /\ wire' = [wire EXCEPT ![Peer(s)] = Append(@, [keys |-> x.out, m |-> m])]

Move(s, x) == ssl' = [ssl EXCEPT ![s] = x] /\ UNCHANGED wire

Msg(s) == Head(wire[s]).m

\* The peer's Finished is read under the keys just negotiated.
InKeys(s) ==
  IF ssl[s].st = (IF s = "cli" THEN "SERVER_FINISHED" ELSE "CLIENT_FINISHED")
  THEN KeysOf(Peer(s), ssl[s]) ELSE ssl[s].in

\* ssl_read_record succeeds.
Comes(s) ==
  /\ wire[s] # <<>>
  /\ Head(wire[s]).keys = InKeys(s)
  /\ Msg(s).msg \notin {"fatal", "close_notify"}

CameAs(s, msg) == Comes(s) /\ Msg(s).msg = msg

\* The context after a handshake message was read during a handshake.
Heard(s) == [ssl[s] EXCEPT !.log = Append(@, Hashed(Msg(s)))]

Hear(s, x) == /\ ssl' = [ssl EXCEPT ![s] = x]
              /\ wire' = [wire EXCEPT ![s] = Tail(@)]

\* A call fails: its program gives the connection up.
Fail(s, err) == Hear(s, [ssl[s] EXCEPT !.err = err])

\* The record read is answered by an alert.
Answer(s, x, alert) ==
  /\ ssl' = [ssl EXCEPT ![s] = x]
  /\ wire' = [wire EXCEPT ![s] = Tail(@),
                          ![Peer(s)] = Append(@, [keys |-> ssl[s].out,
                                                  m |-> [msg |-> alert]])]

\* ssl_send_fatal_handshake_failure, and the call fails.
Refuse(s, err) == Answer(s, [ssl[s] EXCEPT !.err = err], "fatal")

-----------------------------------------------------------------------------
(* Hellos                                                                  *)

\* The first steps of a handshake.
Begin(s) == At(s, "HELLO_REQUEST") /\ Move(s, Onward(ssl[s])) /\ UNCHANGED draws

\* The id of a client hello: with a ticket a random one, so that an echo
\* tells that the ticket was taken.
OfferedId(x) ==
  IF x.reneg # "INITIAL" THEN 0
  ELSE IF x.neg.ticket # NoTicket THEN draws + 2
  ELSE IF x.resume THEN x.neg.id ELSE 0

\* ssl_write_client_hello
WriteClientHello ==
  LET x == ssl["cli"]
      id == OfferedId(x)
  IN /\ At("cli", "CLIENT_HELLO")
     /\ Say("cli",
            Onward([x EXCEPT !.cr = draws + 1,
                             !.neg.id = IF id # 0 THEN id ELSE @]),
            [msg |-> "CLIENT_HELLO", rnd |-> draws + 1, id |-> id,
             offer |-> setting.offer,
             info |-> IF x.reneg = "INITIAL" THEN NoInfo ELSE x.own,
             tickets |-> setting.tickets["cli"],
             ticket |-> IF setting.tickets["cli"] THEN x.neg.ticket
                                                  ELSE NoTicket])
     /\ draws' = draws + 2

\* Mutant of Accepted: a ticket of any age and any context is taken.
AcceptedAny(ticket) == ticket # NoTicket

\* ssl_parse_ticket: it was sealed by this context and is young enough.
Accepted(ticket) == /\ ticket # NoTicket
                    /\ ticket.key = boot
                    /\ clock - ticket.state.start <= TicketLifetime

\* ssl_parse_session_ticket_ext
Ticketed(x, hello) ==
  IF ~setting.tickets["srv"] \/ ~hello.tickets THEN x
  ELSE IF x.reneg = "INITIAL" /\ Accepted(hello.ticket)
       THEN [x EXCEPT !.resume = TRUE,
                      !.neg = [hello.ticket.state EXCEPT !.id = x.neg.id]]
       ELSE [x EXCEPT !.due = TRUE]

\* The server's choice among the suites of a hello.
Common(hello) == {i \in DOMAIN Prefers : Prefers[i] \in hello.offer}

\* Mutant of Bound: the client compares the two parts in the wrong order.
BoundSwapped(s, info) ==
  LET x == ssl[s]
  IN info = IF x.reneg = "INITIAL" THEN NoInfo
            ELSE IF s = "srv" THEN x.peer ELSE <<x.peer, x.own>>

\* ssl_parse_renegotiation_info: what a hello says of the handshake before.
Bound(s, info) ==
  LET x == ssl[s]
  IN info = IF x.reneg = "INITIAL" THEN NoInfo
            ELSE IF s = "srv" THEN x.peer ELSE <<x.own, x.peer>>

\* ssl_parse_client_hello: the suite of a ticket's session gives way to the
\* one chosen now.
ParseClientHello ==
  LET m == Msg("srv")
      x == Ticketed([Heard("srv") EXCEPT !.neg.id = m.id, !.cr = m.rnd], m)
  IN /\ At("srv", "CLIENT_HELLO") /\ CameAs("srv", "CLIENT_HELLO")
     /\ IF Bound("srv", m.info) /\ Common(m) # {}
        THEN Hear("srv", Onward([x EXCEPT
                           !.neg.suite = Prefers[First(Common(m))]]))
        ELSE Refuse("srv", "CLIENT_HELLO")
     /\ UNCHANGED draws

\* The server's session once the cache was asked.
Recalled(x) ==
  IF /\ ~x.resume /\ x.reneg = "INITIAL" /\ x.neg.id # 0
     /\ Found(x.neg.id, x.neg.suite) # {}
  THEN LET old == Get(x.neg.id, x.neg.suite)
       IN [x EXCEPT !.resume = TRUE, !.neg.master = old.master,
                    !.neg.verify = old.verify, !.neg.cert = old.cert]
  ELSE x

\* ssl_write_server_hello: a session that is resumed goes straight to the
\* change of cipher, one that is new gets an id unless a ticket will do.
WriteServerHello ==
  LET x == [Recalled(ssl["srv"]) EXCEPT !.sr = draws + 1]
      y == IF x.resume
           THEN [x EXCEPT !.st = "SERVER_CHANGE_CIPHER_SPEC"]
           ELSE Onward([x EXCEPT !.neg.start = clock,
                                 !.neg.id = IF x.due THEN 0 ELSE draws + 2])
  IN /\ At("srv", "SERVER_HELLO")
     /\ Say("srv", y,
            [msg |-> "SERVER_HELLO", rnd |-> draws + 1, id |-> y.neg.id,
             suite |-> y.neg.suite,
             info |-> IF x.reneg = "INITIAL" THEN NoInfo
                      ELSE <<x.peer, x.own>>,
             tickets |-> x.due])
     /\ draws' = draws + 2

\* Mutant of Resumes: the client does not look at the suite.
ResumesAnySuite(x, m) ==
  x.reneg = "INITIAL" /\ x.resume /\ m.id # 0 /\ x.neg.id = m.id

\* The server's hello resumes the client's session.
Resumes(x, m) == /\ x.reneg = "INITIAL" /\ x.resume /\ m.id # 0
                 /\ x.neg.suite = m.suite /\ x.neg.id = m.id

\* ssl_parse_server_hello
ParseServerHello ==
  LET m == Msg("cli")
      x == [Heard("cli") EXCEPT !.sr = m.rnd, !.due = m.tickets]
  IN /\ At("cli", "SERVER_HELLO") /\ CameAs("cli", "SERVER_HELLO")
     /\ IF ~Bound("cli", m.info) THEN Refuse("cli", "SERVER_HELLO")
        ELSE IF Resumes(ssl["cli"], m)
        THEN Hear("cli", [x EXCEPT !.st = "SERVER_CHANGE_CIPHER_SPEC"])
        ELSE Hear("cli", Onward([x EXCEPT !.resume = FALSE,
                                          !.neg.start = clock,
                                          !.neg.suite = m.suite,
                                          !.neg.id = m.id]))
     /\ UNCHANGED draws

-----------------------------------------------------------------------------
(* Certificates and keys                                                   *)

CertState(s, writes) ==
  IF (s = "srv") = writes THEN "SERVER_CERTIFICATE" ELSE "CLIENT_CERTIFICATE"

\* ssl_write_certificate
WriteCertificate(s) ==
  /\ At(s, CertState(s, TRUE))
  /\ IF KxOf(s) = "PSK" \/ (s = "cli" /\ ~ssl[s].asked)
     THEN Move(s, Onward(ssl[s]))
     ELSE Say(s, Onward(ssl[s]), [msg |-> "CERTIFICATE", cert |-> setting.cert[s]])
  /\ UNCHANGED draws

\* ssl_parse_certificate without a message to read.
SkipCertificate(s) ==
  /\ At(s, CertState(s, FALSE))
  /\ \/ KxOf(s) = "PSK" /\ Move(s, Onward(ssl[s]))
     \/ /\ s = "srv" /\ KxOf(s) # "PSK"
        /\ setting.auth[s] = "NONE" \/ KxOf(s) = "RSA_PSK"
        /\ Move(s, Onward([ssl[s] EXCEPT !.neg.verify = "skip"]))
  /\ UNCHANGED draws

ReadsCertificate(s) ==
  /\ At(s, CertState(s, FALSE)) /\ KxOf(s) # "PSK"
  /\ s = "srv" => setting.auth[s] # "NONE" /\ KxOf(s) # "RSA_PSK"

\* Mutant of Passes: the verdict on a certificate that was shown is ignored.
PassesUnverified(s, cert) ==
  /\ setting.auth[s] = "REQUIRED" => cert # "none"
  /\ s = "cli" /\ ssl[s].reneg = "RENEGOTIATION" => cert = ssl[s].sess.cert

\* The checks of ssl_parse_certificate: the verdict on the chain counts when
\* it is required, and a renegotiation must bring the same server.
Passes(s, cert) ==
  /\ setting.auth[s] = "REQUIRED" => cert = "good"
  /\ s = "cli" /\ ssl[s].reneg = "RENEGOTIATION" => cert = ssl[s].sess.cert

\* ssl_parse_certificate
ParseCertificate(s) ==
  LET cert == Msg(s).cert
      verdict == IF cert = "none" THEN "missing"
                 ELSE IF setting.auth[s] = "NONE" THEN "none" ELSE cert
  IN /\ ReadsCertificate(s) /\ CameAs(s, "CERTIFICATE")
     /\ IF Passes(s, cert)
        THEN Hear(s, Onward([Heard(s) EXCEPT !.neg.cert = cert,
                                             !.neg.verify = verdict]))
        ELSE Fail(s, "CERTIFICATE")
     /\ UNCHANGED draws

\* ssl_write_server_key_exchange
WriteServerKeyExchange ==
  /\ At("srv", "SERVER_KEY_EXCHANGE")
  /\ IF KxOf("srv") = "DHE_RSA"
     THEN Say("srv", Onward(ssl["srv"]), [msg |-> "SERVER_KEY_EXCHANGE"])
     ELSE Move("srv", Onward(ssl["srv"]))
  /\ UNCHANGED draws

\* ssl_parse_server_key_exchange: without RSA a message that turns out to be
\* another one is kept (record_read).
ParseServerKeyExchange ==
  /\ At("cli", "SERVER_KEY_EXCHANGE")
  /\ \/ KxOf("cli") = "RSA" /\ Move("cli", Onward(ssl["cli"]))
     \/ /\ KxOf("cli") = "DHE_RSA" /\ CameAs("cli", "SERVER_KEY_EXCHANGE")
        /\ Hear("cli", Onward(Heard("cli")))
     \/ /\ WithPsk("cli") /\ Comes("cli") /\ Msg("cli").msg \in HandshakeMessages
        /\ Hear("cli", Onward([Heard("cli") EXCEPT !.held = Msg("cli")]))
  /\ UNCHANGED draws

\* ssl_write_certificate_request
WriteCertificateRequest ==
  /\ At("srv", "CERTIFICATE_REQUEST")
  /\ IF WithPsk("srv") \/ setting.auth["srv"] = "NONE"
     THEN Move("srv", Onward(ssl["srv"]))
     ELSE Say("srv", Onward(ssl["srv"]), [msg |-> "CERTIFICATE_REQUEST"])
  /\ UNCHANGED draws

\* ssl_parse_certificate_request: with a pre-shared key it returns before it
\* sets client_auth.
ParseCertificateRequest ==
  /\ At("cli", "CERTIFICATE_REQUEST")
  /\ \/ WithPsk("cli") /\ Move("cli", Onward(ssl["cli"]))
     \/ /\ ~WithPsk("cli") /\ Comes("cli") /\ Msg("cli").msg \in HandshakeMessages
        /\ LET request == Msg("cli").msg = "CERTIFICATE_REQUEST"
           IN Hear("cli", Onward([Heard("cli") EXCEPT
                            !.asked = request,
                            !.held = IF request THEN NoMsg ELSE Msg("cli")]))
  /\ UNCHANGED draws

\* ssl_write_server_hello_done
WriteServerHelloDone ==
  /\ At("srv", "SERVER_HELLO_DONE")
  /\ Say("srv", Onward(ssl["srv"]), [msg |-> "SERVER_HELLO_DONE"])
  /\ UNCHANGED draws

\* ssl_parse_server_hello_done
ParseServerHelloDone ==
  /\ At("cli", "SERVER_HELLO_DONE")
  /\ \/ /\ ssl["cli"].held.msg = "SERVER_HELLO_DONE"
        /\ Move("cli", Onward([ssl["cli"] EXCEPT !.held = NoMsg]))
     \/ /\ ssl["cli"].held = NoMsg /\ CameAs("cli", "SERVER_HELLO_DONE")
        /\ Hear("cli", Onward(Heard("cli")))
  /\ UNCHANGED draws

\* ssl_write_client_key_exchange: the premaster secret is drawn here.
WriteClientKeyExchange ==
  LET x == ssl["cli"]
  IN /\ At("cli", "CLIENT_KEY_EXCHANGE")
     /\ Say("cli",
            Onward([x EXCEPT !.neg.master = Master("cli", x, draws + 1)]),
            [msg |-> "CLIENT_KEY_EXCHANGE", pms |-> draws + 1])
     /\ draws' = draws + 1

\* ssl_parse_client_key_exchange
ParseClientKeyExchange ==
  /\ At("srv", "CLIENT_KEY_EXCHANGE") /\ CameAs("srv", "CLIENT_KEY_EXCHANGE")
  /\ LET x == Heard("srv")
     IN Hear("srv",
             Onward([x EXCEPT !.neg.master = Master("srv", x, Msg("srv").pms)]))
  /\ UNCHANGED draws

\* ssl_write_certificate_verify: a signature over the handshake so far.
WriteCertificateVerify ==
  /\ At("cli", "CERTIFICATE_VERIFY")
  /\ IF WithPsk("cli") \/ ~ssl["cli"].asked \/ setting.cert["cli"] = "none"
     THEN Move("cli", Onward(ssl["cli"]))
     ELSE Say("cli", Onward(ssl["cli"]),
              [msg |-> "CERTIFICATE_VERIFY", over |-> ssl["cli"].log])
  /\ UNCHANGED draws

\* ssl_parse_certificate_verify
ParseCertificateVerify ==
  LET none == WithPsk("srv") \/ ssl["srv"].neg.cert = "none"
  IN /\ At("srv", "CERTIFICATE_VERIFY")
     /\ \/ none /\ Move("srv", Onward(ssl["srv"]))
        \/ /\ ~none /\ CameAs("srv", "CERTIFICATE_VERIFY")
           /\ IF Msg("srv").over = ssl["srv"].log
              THEN Hear("srv", Onward(Heard("srv")))
              ELSE Fail("srv", "CERTIFICATE_VERIFY")
     /\ UNCHANGED draws

-----------------------------------------------------------------------------
(* The end of a handshake                                                  *)

\* ssl_write_new_session_ticket: the session, sealed for this context.
WriteNewSessionTicket ==
  LET x == ssl["srv"]
  IN /\ At("srv", "SERVER_CHANGE_CIPHER_SPEC") /\ x.due
     /\ Say("srv", [x EXCEPT !.due = FALSE],
            [msg |-> "NEW_SESSION_TICKET",
             ticket |-> [key |-> boot, state |-> x.neg]])
     /\ UNCHANGED draws

\* ssl_parse_new_session_ticket: the ticket takes the place of the id.
ParseNewSessionTicket ==
  LET x == Heard("cli")
  IN /\ At("cli", "SERVER_CHANGE_CIPHER_SPEC") /\ ssl["cli"].due
     /\ CameAs("cli", "NEW_SESSION_TICKET")
     /\ Hear("cli", [x EXCEPT !.due = FALSE, !.neg.id = 0,
                              !.neg.ticket = Msg("cli").ticket])
     /\ UNCHANGED draws

Change(s) == IF s = "cli" THEN "CLIENT_CHANGE_CIPHER_SPEC"
                          ELSE "SERVER_CHANGE_CIPHER_SPEC"
Finished(s) == IF s = "cli" THEN "CLIENT_FINISHED" ELSE "SERVER_FINISHED"

\* ssl_write_change_cipher_spec
WriteChangeCipherSpec(s) ==
  /\ At(s, Change(s)) /\ ~(s = "srv" /\ ssl[s].due)
  /\ Say(s, Onward(ssl[s]), [msg |-> "CHANGE_CIPHER_SPEC"])
  /\ UNCHANGED draws

\* ssl_parse_change_cipher_spec
ParseChangeCipherSpec(s) ==
  /\ At(s, Change(Peer(s))) /\ ~(s = "cli" /\ ssl[s].due)
  /\ CameAs(s, "CHANGE_CIPHER_SPEC")
  /\ Hear(s, Onward(ssl[s]))
  /\ UNCHANGED draws

\* Mutant of Ended: the client does not go by the order of a resumption.
EndedInOrder(s, x, wrote) ==
  IF ~x.resume \/ s = "cli" THEN Onward(x)
  ELSE IF wrote THEN [x EXCEPT !.st = "CLIENT_CHANGE_CIPHER_SPEC"]
  ELSE [x EXCEPT !.st = "HANDSHAKE_WRAPUP"]

\* In a resumption the server's Finished comes first, and the client's ends
\* the handshake.
Ended(s, x, wrote) ==
  IF ~x.resume THEN Onward(x)
  ELSE IF (s = "cli") = wrote THEN [x EXCEPT !.st = "HANDSHAKE_WRAPUP"]
  ELSE [x EXCEPT !.st = "CLIENT_CHANGE_CIPHER_SPEC"]

\* ssl_write_finished: the first record under the new keys.
WriteFinished(s) ==
  LET x == ssl[s]
  IN /\ At(s, Finished(s))
     /\ Say(s, Ended(s, [x EXCEPT !.own = Verify(s, x), !.out = KeysOf(s, x)], TRUE),
            [msg |-> "FINISHED", verify |-> Verify(s, x)])
     /\ UNCHANGED draws

\* Mutant of Remembered: only the first handshake leaves verify data.
RememberedOnce(s) ==
  IF ssl[s].reneg = "INITIAL" THEN Verify(Peer(s), ssl[s]) ELSE ssl[s].peer

\* The verify data a later handshake is bound to.
Remembered(s) == Verify(Peer(s), ssl[s])

\* ssl_parse_finished: what is expected is computed before the message is read.
ParseFinished(s) ==
  LET x == [Heard(s) EXCEPT !.in = KeysOf(Peer(s), ssl[s]),
                            !.peer = Remembered(s)]
  IN /\ At(s, Finished(Peer(s))) /\ CameAs(s, "FINISHED")
     /\ IF Msg(s).verify = Verify(Peer(s), ssl[s])
        THEN Hear(s, Ended(s, x, FALSE))
        ELSE Fail(s, "FINISHED")
     /\ UNCHANGED draws

FlushBuffers(s) ==
  At(s, "FLUSH_BUFFERS") /\ Move(s, Onward(ssl[s])) /\ UNCHANGED draws

\* ssl_handshake_wrapup stores a session that is new and has an id.
Wrapped(s, x) == s = "srv" /\ x.neg.id # 0 /\ ~x.resume

\* ssl_handshake_wrapup
Wrapup(s) ==
  LET x == ssl[s]
      done == [Fresh(x) EXCEPT !.sess = x.neg, !.st = "HANDSHAKE_OVER"]
  IN /\ At(s, "HANDSHAKE_WRAPUP")
     /\ Move(s, IF x.reneg = "RENEGOTIATION"
                THEN [done EXCEPT !.reneg = "DONE", !.seen = 0] ELSE done)
     /\ chain' = IF Wrapped(s, x) THEN Stored(x.neg) ELSE chain
     /\ made' = IF s = "srv" /\ ~x.resume
                THEN made \cup {[session |-> x.neg, conn |-> conns]} ELSE made
     /\ UNCHANGED draws

-----------------------------------------------------------------------------
(* Reading what does not fit                                               *)

\* The states in which an end reads, and what it can do with.
Awaited(s) ==
  LET st == ssl[s].st
      any == HandshakeMessages
  IN IF s = "cli"
     THEN CASE st = "SERVER_HELLO" -> {"SERVER_HELLO"}
            [] st = "SERVER_CERTIFICATE" -> {"CERTIFICATE"}
            [] st = "SERVER_KEY_EXCHANGE" ->
                 IF WithPsk(s) THEN any ELSE {"SERVER_KEY_EXCHANGE"}
            [] st = "CERTIFICATE_REQUEST" -> any
            [] st = "SERVER_HELLO_DONE" -> {"SERVER_HELLO_DONE"}
            [] st = "SERVER_CHANGE_CIPHER_SPEC" ->
                 IF ssl[s].due THEN {"NEW_SESSION_TICKET"}
                               ELSE {"CHANGE_CIPHER_SPEC"}
            [] OTHER -> {"FINISHED"}
     ELSE CASE st = "CLIENT_HELLO" -> {"CLIENT_HELLO"}
            [] st = "CLIENT_CERTIFICATE" -> {"CERTIFICATE"}
            [] st = "CLIENT_KEY_EXCHANGE" -> {"CLIENT_KEY_EXCHANGE"}
            [] st = "CERTIFICATE_VERIFY" -> {"CERTIFICATE_VERIFY"}
            [] st = "CLIENT_CHANGE_CIPHER_SPEC" -> {"CHANGE_CIPHER_SPEC"}
            [] OTHER -> {"FINISHED"}

\* Does s wait for a record?
Reads(s) ==
  LET st == ssl[s].st
  IN /\ ssl[s].err = "OK"
     /\ \/ st = "HANDSHAKE_OVER"
        \/ st = CertState(s, FALSE) /\ ReadsCertificate(s)
        \/ s = "cli" /\ \/ st \in {"SERVER_HELLO", "SERVER_CHANGE_CIPHER_SPEC",
                                   "SERVER_FINISHED"}
                        \/ st = "SERVER_KEY_EXCHANGE" /\ KxOf(s) # "RSA"
                        \/ st = "CERTIFICATE_REQUEST" /\ ~WithPsk(s)
                        \/ st = "SERVER_HELLO_DONE" /\ ssl[s].held = NoMsg
        \/ s = "srv" /\ \/ st \in {"CLIENT_HELLO", "CLIENT_KEY_EXCHANGE",
                                   "CLIENT_CHANGE_CIPHER_SPEC", "CLIENT_FINISHED"}
                        \/ /\ st = "CERTIFICATE_VERIFY" /\ ~WithPsk(s)
                           /\ ssl[s].neg.cert # "none"

\* The client waits for the answer to its hello in a renegotiation.
WaitsInRenegotiation(s) ==
  s = "cli" /\ At(s, "SERVER_HELLO") /\ ssl[s].reneg = "RENEGOTIATION"

\* A message the handshake has no use for: each parser returns an error, and
\* only a kept message can be found out later.
Unexpected(s) ==
  /\ \/ /\ Reads(s) /\ ssl[s].st # "HANDSHAKE_OVER"
        /\ Comes(s) /\ Msg(s).msg \notin Awaited(s)
        /\ WaitsInRenegotiation(s) => Msg(s).msg \in HandshakeMessages
        /\ Fail(s, "UNEXPECTED")
     \/ /\ At(s, "SERVER_HELLO_DONE")
        /\ ssl[s].held.msg \notin {"nothing", "SERVER_HELLO_DONE"}
        /\ Move(s, [ssl[s] EXCEPT !.err = "UNEXPECTED"])
  /\ UNCHANGED draws

\* ssl_read_record fails: a record that does not open, an alert that ends the
\* connection, or its end.
ReadFails(s) ==
  /\ Reads(s) /\ ~Comes(s)
  /\ \/ /\ wire[s] # <<>>
        /\ IF Head(wire[s]).keys # InKeys(s) THEN Refuse(s, "INVALID_MAC")
                                             ELSE Fail(s, Msg(s).msg)
     \/ /\ wire[s] = <<>> /\ ssl[Peer(s)].err # "OK"
        /\ Move(s, [ssl[s] EXCEPT !.err = "CONN_EOF"])
  /\ UNCHANGED draws

ClientStep ==
  WriteClientHello \/ ParseServerHello \/ ParseServerKeyExchange
  \/ ParseCertificateRequest \/ ParseServerHelloDone
  \/ WriteClientKeyExchange \/ WriteCertificateVerify \/ ParseNewSessionTicket

ServerStep ==
  ParseClientHello \/ WriteServerHello \/ WriteServerKeyExchange
  \/ WriteCertificateRequest \/ WriteServerHelloDone
  \/ ParseClientKeyExchange \/ ParseCertificateVerify \/ WriteNewSessionTicket

\* ssl_handshake_step
Handshake(s) ==
  /\ \/ /\ \/ s = "cli" /\ ClientStep
           \/ s = "srv" /\ ServerStep
           \/ Begin(s) \/ WriteCertificate(s) \/ SkipCertificate(s)
           \/ ParseCertificate(s) \/ WriteChangeCipherSpec(s)
           \/ ParseChangeCipherSpec(s) \/ WriteFinished(s) \/ ParseFinished(s)
           \/ FlushBuffers(s) \/ Unexpected(s) \/ ReadFails(s)
        /\ UNCHANGED <<chain, made>>
     \/ Wrapup(s)
  /\ UNCHANGED <<appvars, envvars>>

-----------------------------------------------------------------------------
(* The programs at both ends                                               *)

\* ssl_start_renegotiation
Renewed(x) == [Fresh(x) EXCEPT !.reneg = "RENEGOTIATION"]

\* Mutant of Given: data that come while a renegotiation is under way are
\* skipped.
GivenOutside(s) ==
  got' = IF ssl[s].reneg \in {"PENDING", "RENEGOTIATION"} THEN got
         ELSE [got EXCEPT ![s] = Append(@, Msg(s).n)]

\* The data of a record go to the program.
Given(s) == got' = [got EXCEPT ![s] = Append(@, Msg(s).n)]

\* ssl_read with a record that is no handshake message.  While a
\* renegotiation was asked for, only so many may come.  A client that waits
\* for the server's hello gets the data from ssl_read, but loses them to
\* ssl_write or ssl_renegotiate, which return an error.
ReadData(s) ==
  LET counts == ssl[s].reneg \in {"PENDING", "RENEGOTIATION"}
      x == [ssl[s] EXCEPT !.seen = IF counts THEN @ + 1 ELSE @]
  IN /\ Over(s) \/ WaitsInRenegotiation(s)
     /\ Comes(s) /\ Msg(s).msg \notin HandshakeMessages
     /\ IF counts /\ x.seen > MaxRecords
        THEN Fail(s, "RENEGOTIATION") /\ UNCHANGED <<got, lost>>
        ELSE /\ Hear(s, x)
             /\ IF Msg(s).msg # "DATA" THEN UNCHANGED <<got, lost>>
                ELSE \/ Given(s) /\ UNCHANGED lost
                     \/ /\ WaitsInRenegotiation(s)
                        /\ lost' = TRUE /\ UNCHANGED got
     /\ UNCHANGED <<sent, asks, draws, chain, made, envvars>>

\* ssl_read with a handshake message: the client starts over when asked to,
\* the server keeps the message for the handshake it starts.
ReadHandshake(s) ==
  /\ Over(s) /\ Comes(s) /\ Msg(s).msg \in HandshakeMessages
  /\ IF s = "cli" /\ Msg(s).msg # "HELLO_REQUEST" THEN Fail(s, "UNEXPECTED")
     ELSE IF ~setting.reneg[s] THEN Answer(s, ssl[s], "no_renegotiation")
     ELSE IF s = "cli" THEN Hear(s, Renewed(ssl[s]))
     ELSE Move(s, Renewed(ssl[s]))
  /\ UNCHANGED <<appvars, draws, chain, made, envvars>>

\* ssl_write
Write(s) ==
  /\ Over(s) /\ Moves < setting.moves
  /\ Say(s, ssl[s], [msg |-> "DATA", n |-> sent[s] + 1])
  /\ sent' = [sent EXCEPT ![s] = @ + 1]
  /\ UNCHANGED <<got, lost, asks, draws, chain, made, envvars>>

\* ssl_renegotiate
Renegotiate(s) ==
  /\ Over(s) /\ Moves < setting.moves
  /\ IF s = "cli" THEN Move(s, Renewed(ssl[s]))
     ELSE Say(s, [ssl[s] EXCEPT !.reneg = "PENDING"], [msg |-> "HELLO_REQUEST"])
  /\ asks' = asks + 1
  /\ UNCHANGED <<sent, got, lost, draws, chain, made, envvars>>

\* ssl_close_notify, and the connection is closed.
Close(s) ==
  /\ Over(s)
  /\ Say(s, [ssl[s] EXCEPT !.err = "CLOSED"], [msg |-> "close_notify"])
  /\ UNCHANGED <<appvars, draws, chain, made, envvars>>

\* The client comes back: ssl_session_reset at both ends, and ssl_set_session
\* with the session it kept.
Connect ==
  LET kept == IF ssl["cli"].sess # NoSession THEN ssl["cli"].sess ELSE saved
      x == Reset(ssl["cli"])
  IN /\ conns < Len(plan) /\ \A s \in Ends : ssl[s].err # "OK"
     /\ saved' = kept
     /\ ssl' = [cli |-> IF kept = NoSession THEN x
                        ELSE [x EXCEPT !.neg = kept, !.resume = TRUE],
                srv |-> Reset(ssl["srv"])]
     /\ wire' = [s \in Ends |-> <<>>]
     /\ sent' = [s \in Ends |-> 0] /\ got' = [s \in Ends |-> <<>>]
     /\ lost' = FALSE /\ asks' = 0 /\ conns' = conns + 1
     /\ draws' = IF draws < Stride * conns THEN Stride * conns ELSE draws
     /\ UNCHANGED <<plan, boot, others, made, chain, clock>>

-----------------------------------------------------------------------------
(* The world around a connection.  It acts before the first hello of a     *)
(* client that comes back: that is when time and other clients matter.     *)

Quiet == conns > 1 /\ \A s \in Ends : At(s, "HELLO_REQUEST") /\ ssl[s].reneg = "INITIAL"

Tick ==
  /\ Quiet /\ clock < MaxTime /\ clock' = clock + 1
  /\ UNCHANGED <<hsvars, appvars, draws, chain, made, plan, saved, boot,
                 conns, others>>

\* Another client of the server makes a session.
OtherClient ==
  /\ Quiet /\ others < MaxOthers /\ others' = others + 1
  /\ chain' = Stored([NoSession EXCEPT !.id = draws + 1, !.suite = Prefers[1],
                        !.master = <<draws + 1, 0, 0, 0>>, !.start = clock])
  /\ draws' = draws + 1
  /\ UNCHANGED <<hsvars, appvars, made, plan, saved, boot, conns, clock>>

\* The server is restarted: its cache and its ticket keys are gone.
Reboot ==
  /\ Quiet /\ boot <= MaxBoots /\ boot' = boot + 1
  /\ chain' = <<>>
  /\ UNCHANGED <<hsvars, appvars, draws, made, plan, saved, conns, others,
                 clock>>

Init ==
  /\ plan \in Plans
  /\ ssl = [s \in Ends |-> NewContext] /\ wire = [s \in Ends |-> <<>>]
  /\ saved = NoSession /\ boot = 1 /\ draws = 0
  /\ conns = 1 /\ asks = 0 /\ others = 0
  /\ sent = [s \in Ends |-> 0] /\ got = [s \in Ends |-> <<>>] /\ lost = FALSE
  /\ made = {} /\ chain = <<>> /\ clock = Start

Next ==
  \/ \E s \in Ends : \/ Handshake(s) \/ ReadData(s) \/ ReadHandshake(s)
                     \/ Write(s) \/ Renegotiate(s) \/ Close(s)
  \/ Connect \/ Tick \/ OtherClient \/ Reboot

\* Both programs keep calling the library until the connection is over.
Spec == /\ Init /\ [][Next]_vars
        /\ \A s \in Ends : WF_vars(Handshake(s) \/ ReadData(s) \/ ReadHandshake(s))

-----------------------------------------------------------------------------
(* Properties                                                              *)

\* When both ends are done they hold the same session and each reads with the
\* keys the other writes with; each has kept the verify data of the other.
Agreement ==
  (\A s \in Ends : Over(s)) =>
    /\ ssl["cli"].sess.suite = ssl["srv"].sess.suite
    /\ ssl["cli"].sess.master = ssl["srv"].sess.master
    /\ \A s \in Ends : /\ ssl[s].in = ssl[Peer(s)].out
                       /\ ssl[s].peer = ssl[Peer(s)].own
                       /\ ssl[s].out[2] = ssl[s].sess.suite
                       /\ ssl[s].out[3] = ssl[s].sess.master

Chosen == Prefers[First({i \in DOMAIN Prefers : Prefers[i] \in setting.offer})]
ByPsk == Kx[Chosen] \in {"PSK", "RSA_PSK"}

\* Both ends accept the other's certificate and share a suite and its key.
Willing ==
  /\ \E i \in DOMAIN Prefers : Prefers[i] \in setting.offer
  /\ ByPsk => setting.psk["cli"] = setting.psk["srv"]
  /\ setting.auth["cli"] = "REQUIRED" /\ Kx[Chosen] # "PSK"
       => setting.cert["srv"] = "good"
  /\ setting.auth["srv"] = "REQUIRED" /\ ~ByPsk => setting.cert["cli"] = "good"

\* The ticket a client kept is of an older session than the one it kept it
\* with: it outlives a full handshake that brings no new one.
Stale == saved.ticket # NoTicket /\ saved.ticket.state.master # saved.master

\* The first handshake of a connection goes through when both ends are
\* willing, whatever session or ticket the client offers and however the
\* contexts were used before.  There are three exceptions: a ticket whose
\* suite is no longer the server's choice, a ticket of an older session, and
\* RSA_PSK in a client that was once asked for its certificate.
WillingSucceed ==
  \A s \in Ends :
    ssl[s].reneg = "INITIAL" /\ ssl[s].st # "HANDSHAKE_OVER" /\ Willing
    /\ ~(saved.ticket # NoTicket /\ saved.suite # Chosen) /\ ~Stale
    /\ ~(ssl["cli"].asked /\ Kx[Chosen] = "RSA_PSK")
      => ssl[s].err = "OK"

\* A first handshake between willing ends that offers no ticket goes through
\* in a context that was reset: ssl_session_reset makes it as good as new.
ResetIsForgetful ==
  \A s \in Ends :
    /\ ssl[s].reneg = "INITIAL" /\ ssl[s].st # "HANDSHAKE_OVER" /\ Willing
    /\ saved.ticket = NoTicket
      => ssl[s].err = "OK"

\* No record fails to open and no Finished or signature is wrong, in a first
\* handshake, a resumption or a renegotiation with data around it, unless the
\* pre-shared keys differ or the ticket is of an older session.
EverythingOpens ==
  \A s \in Ends : ssl[s].err \in {"INVALID_MAC", "FINISHED", "CERTIFICATE_VERIFY"}
                   => setting.psk["cli"] # setting.psk["srv"] \/ Stale

\* The server shows another certificate now than the one the session that
\* was resumed was made with: a client holds that against a renegotiation.
Recertified == Kx[Chosen] # "PSK" /\ ssl["cli"].sess.cert # setting.cert["srv"]

\* A renegotiation between willing ends fails by too many records before the
\* answer, by the end of the connection, or because both asked for it at once.
RenegotiationFails ==
  \A s \in Ends :
    ssl[s].reneg = "RENEGOTIATION" /\ Willing /\ ~Recertified
    /\ ~(ssl["cli"].asked /\ Kx[Chosen] = "RSA_PSK")
      => \/ ssl[s].err \in {"OK", "RENEGOTIATION", "close_notify", "CONN_EOF"}
         \/ asks > 1

\* A session the server works with was made by a full handshake with this
\* client, no longer ago than a session lives in the cache or in a ticket,
\* and its secret, its suite and the verdict on the certificate are those of
\* that handshake.
ResumedAsMade ==
  LET x == ssl["srv"].sess
  IN Over("srv") =>
       \E e \in made :
         /\ e.session.master = x.master /\ e.session.suite = x.suite
         /\ e.session.verify = x.verify /\ e.session.cert = x.cert
         /\ LET age == clock - e.session.start
            IN Timeout = 0 \/ age <= Timeout \/ age <= TicketLifetime

\* Under SSL_VERIFY_REQUIRED a full handshake makes a session only with a
\* client that showed a good certificate, unless a key was shared before.
RequiredIsVerified ==
  \A e \in made :
    e.conn = conns /\ setting.auth["srv"] = "REQUIRED" /\ ~ByPsk
      => e.session.verify = "good" /\ e.session.cert = setting.cert["cli"]

\* Data arrive complete and in order, across a renegotiation too; only a
\* client that lets ssl_write or ssl_renegotiate drive it may lose some.
DeliveredInOrder ==
  \A s \in Ends : ~(s = "cli" /\ lost) =>
    /\ Len(got[s]) <= sent[Peer(s)]
    /\ \A i \in DOMAIN got[s] : got[s][i] = i

\* The cache is never longer than it may be, and a session leaves it only
\* when it has expired, or when the cache is full and no entry is older
\* (ssl_cache.c:142-292).
OldestLeaves ==
  [][Len(chain') <= MaxEntries /\ \A i \in DOMAIN chain :
       boot' # boot \/ Expired(chain[i])
       \/ (\E j \in DOMAIN chain' : chain'[j].session = chain[i].session)
       \/ /\ Len(chain) = MaxEntries
          /\ \A j \in DOMAIN chain : chain[i].stamp <= chain[j].stamp]_vars

\* Every handshake comes to an end, unless a client asks a server to
\* renegotiate that does not do so: it ignores the alert and waits on.
HandshakesEnd ==
  \A s \in Ends :
    ssl[s].st # "HANDSHAKE_OVER" ~>
      \/ ssl[s].st = "HANDSHAKE_OVER" \/ ssl[s].err # "OK"
      \/ WaitsInRenegotiation(s) /\ ~setting.reneg["srv"]
=============================================================================
