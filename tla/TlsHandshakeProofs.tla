------------------------- MODULE TlsHandshakeProofs -------------------------
(***************************************************************************)
(* Proofs about TlsHandshake: that data arrive in order, that a session is *)
(* made only with a client that was verified where that is required, what  *)
(* leaves the cache, and that both ends come to the same session and keys, *)
(* for any suites, settings, plans and bounds.                             *)
(***************************************************************************)
EXTENDS TlsHandshake, SequenceTheorems, WellFoundedInduction, TLAPS

-----------------------------------------------------------------------------
(* States, contexts and sequences.                                          *)

\* The state after each state of a handshake.
LEMMA NextState ==
  /\ After("HELLO_REQUEST") = "CLIENT_HELLO" /\ After("CLIENT_HELLO") = "SERVER_HELLO"
  /\ After("SERVER_HELLO") = "SERVER_CERTIFICATE"
  /\ After("SERVER_CERTIFICATE") = "SERVER_KEY_EXCHANGE"
  /\ After("SERVER_KEY_EXCHANGE") = "CERTIFICATE_REQUEST"
  /\ After("CERTIFICATE_REQUEST") = "SERVER_HELLO_DONE"
  /\ After("SERVER_HELLO_DONE") = "CLIENT_CERTIFICATE"
  /\ After("CLIENT_CERTIFICATE") = "CLIENT_KEY_EXCHANGE"
  /\ After("CLIENT_KEY_EXCHANGE") = "CERTIFICATE_VERIFY"
  /\ After("CERTIFICATE_VERIFY") = "CLIENT_CHANGE_CIPHER_SPEC"
  /\ After("CLIENT_CHANGE_CIPHER_SPEC") = "CLIENT_FINISHED"
  /\ After("CLIENT_FINISHED") = "SERVER_CHANGE_CIPHER_SPEC"
  /\ After("SERVER_CHANGE_CIPHER_SPEC") = "SERVER_FINISHED"
  /\ After("SERVER_FINISHED") = "FLUSH_BUFFERS"
  /\ After("FLUSH_BUFFERS") = "HANDSHAKE_WRAPUP"
BY DEF After, States

\* The fields of a context, and of a session.
ContextFields == {"st", "reneg", "err", "neg", "sess", "resume", "due", "cr", "sr", "log",
                  "held", "asked", "in", "out", "own", "peer", "seen"}
SessionFields == {"id", "suite", "master", "cert", "verify", "ticket", "start"}

\* What the library makes has the fields of what it is made from.
LEMMA NewShapes ==
  /\ DOMAIN NewContext = ContextFields /\ DOMAIN NoSession = SessionFields
  /\ \A x : DOMAIN Reset(x) = ContextFields
  /\ \A x : DOMAIN Onward(x) = DOMAIN x
  /\ \A x : DOMAIN Fresh(x) = DOMAIN x
  /\ \A x : DOMAIN Renewed(x) = DOMAIN x
BY DEF NewContext, NoSession, Reset, Onward, Fresh, Renewed, ContextFields, SessionFields

\* A sequence of whatever it may hold.
IsSequence(w) == \E S : w \in Seq(S)

\* What appending to a sequence gives.
LEMMA Appended ==
  ASSUME NEW w, IsSequence(w), NEW e
  PROVE  /\ IsSequence(Append(w, e)) /\ Len(Append(w, e)) = Len(w) + 1 /\ Len(w) \in Nat
         /\ \A i \in 1..Len(w) : Append(w, e)[i] = w[i]
         /\ Append(w, e)[Len(w) + 1] = e
         /\ DOMAIN w = 1..Len(w)
<1>1. PICK S : w \in Seq(S)
  BY DEF IsSequence
<1>2. w \in Seq(S \cup {e}) /\ e \in S \cup {e}
  BY <1>1, SeqMonotonic
<1> QED BY <1>2, AppendProperties DEF IsSequence

\* What taking the head off a sequence leaves.
LEMMA Shortened ==
  ASSUME NEW w, IsSequence(w), w # <<>>
  PROVE  /\ IsSequence(Tail(w)) /\ Len(Tail(w)) = Len(w) - 1 /\ Len(w) \in Nat \ {0}
         /\ \A i \in 1..Len(Tail(w)) : Tail(w)[i] = w[i + 1]
         /\ Head(w) = w[1]
<1>1. PICK S : w \in Seq(S)
  BY DEF IsSequence
<1> QED BY <1>1, HeadTailProperties DEF IsSequence

-----------------------------------------------------------------------------
(* What a step of one end does to the other: nothing, but for the record it writes. *)

\* The contexts are records with the same fields, the wires are sequences.
Shapes ==
  /\ DOMAIN ssl = Ends /\ \A s \in Ends : DOMAIN ssl[s] = ContextFields
  /\ DOMAIN wire = Ends /\ \A s \in Ends : IsSequence(wire[s])

\* What a message of the client says of its settings is so.
Honest(m) == /\ m.msg = "CLIENT_HELLO" => m.offer = setting.offer
             /\ m.msg = "CERTIFICATE" => m.cert = setting.cert["cli"]

\* A step of s that moves no data of the programs: it reads no data record unless the
\* connection fails, and writes at most one record.
Relay(s) ==
  /\ ssl[s].err = "OK" /\ ssl'[Peer(s)] = ssl[Peer(s)]
  /\ \/ wire'[s] = wire[s]
     \/ /\ wire[s] # <<>> /\ wire'[s] = Tail(wire[s])
        /\ Head(wire[s]).m.msg = "DATA" => ssl'[s].err # "OK"
  /\ \/ wire'[Peer(s)] = wire[Peer(s)]
     \/ \E r : /\ r.m.msg # "DATA" /\ (s = "cli" => Honest(r.m))
               /\ wire'[Peer(s)] = Append(wire[Peer(s)], r)
  /\ UNCHANGED setting

\* A step of s leaves these shapes as they are.
Shaped(s) ==
  /\ DOMAIN ssl' = Ends /\ DOMAIN ssl'[s] = ContextFields /\ DOMAIN wire' = Ends

\* The two ends are each other's peer.
LEMMA Peers == /\ Peer("cli") = "srv" /\ Peer("srv") = "cli" /\ "cli" \in Ends /\ "srv" \in Ends
               /\ \A s \in Ends : Peer(s) \in Ends /\ Peer(s) # s /\ Peer(Peer(s)) = s
BY DEF Peer, Ends

\* ssl_write_record of a message that carries no data.
LEMMA SayRelays ==
  ASSUME Shapes, NEW s \in Ends, ssl[s].err = "OK", NEW x, DOMAIN x = ContextFields,
         NEW m, m.msg # "DATA", s = "cli" => Honest(m), Say(s, x, m), UNCHANGED setting
  PROVE  Relay(s) /\ Shaped(s)
<1>1. /\ wire' = [wire EXCEPT ![Peer(s)] = Append(wire[Peer(s)], [keys |-> x.out, m |-> m])]
      /\ DOMAIN ssl' = Ends /\ ssl'[Peer(s)] = ssl[Peer(s)] /\ DOMAIN ssl'[s] = ContextFields
  BY Peers DEF Say, Shapes
<1>2. wire'[Peer(s)] = Append(wire[Peer(s)], [keys |-> x.out, m |-> m]) /\ wire'[s] = wire[s]
      /\ DOMAIN wire' = Ends
  BY <1>1, Peers DEF Shapes
<1>3. [keys |-> x.out, m |-> m].m = m
  OBVIOUS
<1> QED BY <1>1, <1>2, <1>3 DEF Relay, Shaped

\* A step of the state machine without a record.
LEMMA MoveRelays ==
  ASSUME Shapes, NEW s \in Ends, ssl[s].err = "OK", NEW x, DOMAIN x = ContextFields,
         Move(s, x), UNCHANGED setting
  PROVE  Relay(s) /\ Shaped(s)
BY Peers DEF Move, Relay, Shapes, Shaped

\* A record is read.
LEMMA HearRelays ==
  ASSUME Shapes, NEW s \in Ends, ssl[s].err = "OK", NEW x, DOMAIN x = ContextFields,
         wire[s] # <<>>, Msg(s).msg = "DATA" => x.err # "OK", Hear(s, x), UNCHANGED setting
  PROVE  Relay(s) /\ Shaped(s)
BY Peers DEF Hear, Relay, Shapes, Shaped, Msg

\* A record is read and answered by an alert.
LEMMA AnswerRelays ==
  ASSUME Shapes, NEW s \in Ends, ssl[s].err = "OK", NEW x, DOMAIN x = ContextFields,
         wire[s] # <<>>, Msg(s).msg = "DATA" => x.err # "OK",
         NEW alert \in {"fatal", "no_renegotiation"}, Answer(s, x, alert), UNCHANGED setting
  PROVE  Relay(s) /\ Shaped(s)
<1> DEFINE r == [keys |-> ssl[s].out, m |-> [msg |-> alert]]
<1>1. /\ wire'[s] = Tail(wire[s]) /\ wire'[Peer(s)] = Append(wire[Peer(s)], r)
      /\ DOMAIN wire' = Ends
  BY Peers DEF Answer, Shapes
<1>2. ssl'[Peer(s)] = ssl[Peer(s)] /\ ssl'[s] = x /\ DOMAIN ssl' = Ends
  BY Peers DEF Answer, Shapes
<1>3. r.m.msg = alert /\ Honest(r.m)
  BY DEF Honest
<1> HIDE DEF r
<1> QED BY <1>1, <1>2, <1>3 DEF Relay, Shaped, Msg

\* A call fails.
LEMMA FailRelays ==
  ASSUME Shapes, NEW s \in Ends, ssl[s].err = "OK", NEW err, err # "OK",
         wire[s] # <<>>, Fail(s, err) \/ Refuse(s, err), UNCHANGED setting
  PROVE  /\ Relay(s) /\ Shaped(s) /\ ssl'[s].err = err
<1> DEFINE x == [ssl[s] EXCEPT !.err = err]
<1>1. DOMAIN x = ContextFields /\ x.err = err
  BY DEF Shapes, ContextFields
<1>2. Hear(s, x) \/ Answer(s, x, "fatal")
  BY DEF Fail, Refuse
<1>3. ssl'[s] = x
  BY <1>2 DEF Hear, Answer, Shapes
<1> HIDE DEF x
<1> QED BY <1>1, <1>2, <1>3, HearRelays, AnswerRelays

\* Each handler of ssl_cli.c that writes.
LEMMA ClientWrites ==
  ASSUME Shapes, UNCHANGED setting,
         \/ WriteClientHello \/ WriteClientKeyExchange \/ WriteCertificateVerify
         \/ WriteCertificate("cli") \/ WriteChangeCipherSpec("cli") \/ WriteFinished("cli")
  PROVE  Relay("cli") /\ Shaped("cli")
<1>0. DOMAIN ssl["cli"] = ContextFields /\ "cli" \in Ends
  BY Peers DEF Shapes
<1>1. CASE WriteClientHello
  <2> DEFINE x == ssl["cli"]
             id == OfferedId(x)
             y == Onward([x EXCEPT !.cr = draws + 1, !.neg.id = IF id # 0 THEN id ELSE @])
             m == [msg |-> "CLIENT_HELLO", rnd |-> draws + 1, id |-> id,
                   offer |-> setting.offer,
                   info |-> IF x.reneg = "INITIAL" THEN NoInfo ELSE x.own,
                   tickets |-> setting.tickets["cli"],
                   ticket |-> IF setting.tickets["cli"] THEN x.neg.ticket ELSE NoTicket]
  <2>1. Say("cli", y, m) /\ ssl["cli"].err = "OK"
    BY <1>1 DEF WriteClientHello, At
  <2>2. DOMAIN y = ContextFields
    BY <1>0, NewShapes
  <2>3. m.msg = "CLIENT_HELLO" /\ Honest(m)
    BY DEF Honest
  <2> HIDE DEF y, m
  <2> QED BY <1>0, <2>1, <2>2, <2>3, SayRelays
<1>2. CASE WriteClientKeyExchange
  <2> DEFINE x == ssl["cli"]
             y == Onward([x EXCEPT !.neg.master = Master("cli", x, draws + 1)])
             m == [msg |-> "CLIENT_KEY_EXCHANGE", pms |-> draws + 1]
  <2>1. Say("cli", y, m) /\ ssl["cli"].err = "OK"
    BY <1>2 DEF WriteClientKeyExchange, At
  <2>2. DOMAIN y = ContextFields
    BY <1>0, NewShapes
  <2>3. m.msg = "CLIENT_KEY_EXCHANGE" /\ Honest(m)
    BY DEF Honest
  <2> HIDE DEF y, m
  <2> QED BY <1>0, <2>1, <2>2, <2>3, SayRelays
<1>3. CASE WriteCertificateVerify
  <2> DEFINE y == Onward(ssl["cli"])
             m == [msg |-> "CERTIFICATE_VERIFY", over |-> ssl["cli"].log]
  <2>1. (Say("cli", y, m) \/ Move("cli", y)) /\ ssl["cli"].err = "OK"
    BY <1>3 DEF WriteCertificateVerify, At
  <2>2. DOMAIN y = ContextFields
    BY <1>0, NewShapes
  <2>3. m.msg = "CERTIFICATE_VERIFY" /\ Honest(m)
    BY DEF Honest
  <2> HIDE DEF y, m
  <2> QED BY <1>0, <2>1, <2>2, <2>3, SayRelays, MoveRelays
<1>4. CASE WriteCertificate("cli")
  <2> DEFINE y == Onward(ssl["cli"])
             m == [msg |-> "CERTIFICATE", cert |-> setting.cert["cli"]]
  <2>1. (Say("cli", y, m) \/ Move("cli", y)) /\ ssl["cli"].err = "OK"
    BY <1>4 DEF WriteCertificate, At
  <2>2. DOMAIN y = ContextFields
    BY <1>0, NewShapes
  <2>3. m.msg = "CERTIFICATE" /\ Honest(m)
    BY DEF Honest
  <2> HIDE DEF y, m
  <2> QED BY <1>0, <2>1, <2>2, <2>3, SayRelays, MoveRelays
<1>5. CASE WriteChangeCipherSpec("cli")
  <2> DEFINE y == Onward(ssl["cli"])
             m == [msg |-> "CHANGE_CIPHER_SPEC"]
  <2>1. Say("cli", y, m) /\ ssl["cli"].err = "OK"
    BY <1>5 DEF WriteChangeCipherSpec, At
  <2>2. DOMAIN y = ContextFields
    BY <1>0, NewShapes
  <2>3. m.msg = "CHANGE_CIPHER_SPEC" /\ Honest(m)
    BY DEF Honest
  <2> HIDE DEF y, m
  <2> QED BY <1>0, <2>1, <2>2, <2>3, SayRelays
<1>6. CASE WriteFinished("cli")
  <2> DEFINE x == ssl["cli"]
             y == Ended("cli", [x EXCEPT !.own = Verify("cli", x), !.out = KeysOf("cli", x)], TRUE)
             m == [msg |-> "FINISHED", verify |-> Verify("cli", x)]
  <2>1. Say("cli", y, m) /\ ssl["cli"].err = "OK"
    BY <1>6 DEF WriteFinished, At
  <2>2. DOMAIN y = ContextFields
    BY <1>0, NewShapes DEF Ended
  <2>3. m.msg = "FINISHED" /\ Honest(m)
    BY DEF Honest
  <2> HIDE DEF y, m
  <2> QED BY <1>0, <2>1, <2>2, <2>3, SayRelays
<1> QED BY <1>1, <1>2, <1>3, <1>4, <1>5, <1>6

\* Each handler of ssl_srv.c that writes.
LEMMA ServerWrites ==
  ASSUME Shapes, UNCHANGED setting,
         \/ WriteServerHello \/ WriteServerKeyExchange \/ WriteCertificateRequest
         \/ WriteServerHelloDone \/ WriteNewSessionTicket
         \/ WriteCertificate("srv") \/ WriteChangeCipherSpec("srv") \/ WriteFinished("srv")
  PROVE  Relay("srv") /\ Shaped("srv")
<1>0. DOMAIN ssl["srv"] = ContextFields /\ "srv" \in Ends /\ "srv" # "cli"
  BY Peers DEF Shapes
<1>1. CASE WriteServerHello
  <2> DEFINE x == [Recalled(ssl["srv"]) EXCEPT !.sr = draws + 1]
             y == IF x.resume
                  THEN [x EXCEPT !.st = "SERVER_CHANGE_CIPHER_SPEC"]
                  ELSE Onward([x EXCEPT !.neg.start = clock,
                                        !.neg.id = IF x.due THEN 0 ELSE draws + 2])
             m == [msg |-> "SERVER_HELLO", rnd |-> draws + 1, id |-> y.neg.id,
                   suite |-> y.neg.suite,
                   info |-> IF x.reneg = "INITIAL" THEN NoInfo ELSE <<x.peer, x.own>>,
                   tickets |-> x.due]
  <2>1. Say("srv", y, m) /\ ssl["srv"].err = "OK"
    BY <1>1 DEF WriteServerHello, At
  <2>2. DOMAIN y = ContextFields
    <3>1. DOMAIN x = ContextFields
      BY <1>0 DEF Recalled
    <3> HIDE DEF x
    <3> QED BY <3>1, NewShapes
  <2>3. m.msg = "SERVER_HELLO"
    OBVIOUS
  <2> HIDE DEF y, m
  <2> QED BY <1>0, <2>1, <2>2, <2>3, SayRelays
<1>2. ASSUME NEW kind \in {"SERVER_KEY_EXCHANGE", "CERTIFICATE_REQUEST", "SERVER_HELLO_DONE",
                           "CHANGE_CIPHER_SPEC"},
             \/ Say("srv", Onward(ssl["srv"]), [msg |-> kind])
             \/ Move("srv", Onward(ssl["srv"])),
             ssl["srv"].err = "OK"
      PROVE  Relay("srv") /\ Shaped("srv")
  <2> DEFINE y == Onward(ssl["srv"])
             m == [msg |-> kind]
  <2>1. Say("srv", y, m) \/ Move("srv", y)
    BY <1>2
  <2>2. DOMAIN y = ContextFields
    BY <1>0, NewShapes
  <2>3. m.msg = kind
    OBVIOUS
  <2> HIDE DEF y, m
  <2> QED BY <1>0, <1>2, <2>1, <2>2, <2>3, SayRelays, MoveRelays
<1>3. CASE WriteServerKeyExchange \/ WriteCertificateRequest \/ WriteServerHelloDone
           \/ WriteChangeCipherSpec("srv")
  BY <1>2, <1>3 DEF WriteServerKeyExchange, WriteCertificateRequest, WriteServerHelloDone,
                    WriteChangeCipherSpec, At
<1>4. CASE WriteNewSessionTicket
  <2> DEFINE y == [ssl["srv"] EXCEPT !.due = FALSE]
             m == [msg |-> "NEW_SESSION_TICKET",
                   ticket |-> [key |-> boot, state |-> ssl["srv"].neg]]
  <2>1. Say("srv", y, m) /\ ssl["srv"].err = "OK"
    BY <1>4 DEF WriteNewSessionTicket, At
  <2>2. DOMAIN y = ContextFields
    BY <1>0
  <2>3. m.msg = "NEW_SESSION_TICKET"
    OBVIOUS
  <2> HIDE DEF y, m
  <2> QED BY <1>0, <2>1, <2>2, <2>3, SayRelays
<1>5. CASE WriteCertificate("srv")
  <2> DEFINE y == Onward(ssl["srv"])
             m == [msg |-> "CERTIFICATE", cert |-> setting.cert["srv"]]
  <2>1. (Say("srv", y, m) \/ Move("srv", y)) /\ ssl["srv"].err = "OK"
    BY <1>5 DEF WriteCertificate, At
  <2>2. DOMAIN y = ContextFields
    BY <1>0, NewShapes
  <2>3. m.msg = "CERTIFICATE"
    OBVIOUS
  <2> HIDE DEF y, m
  <2> QED BY <1>0, <2>1, <2>2, <2>3, SayRelays, MoveRelays
<1>6. CASE WriteFinished("srv")
  <2> DEFINE x == ssl["srv"]
             y == Ended("srv", [x EXCEPT !.own = Verify("srv", x), !.out = KeysOf("srv", x)], TRUE)
             m == [msg |-> "FINISHED", verify |-> Verify("srv", x)]
  <2>1. Say("srv", y, m) /\ ssl["srv"].err = "OK"
    BY <1>6 DEF WriteFinished, At
  <2>2. DOMAIN y = ContextFields
    BY <1>0, NewShapes DEF Ended
  <2>3. m.msg = "FINISHED"
    OBVIOUS
  <2> HIDE DEF y, m
  <2> QED BY <1>0, <2>1, <2>2, <2>3, SayRelays
<1> QED BY <1>1, <1>3, <1>4, <1>5, <1>6

\* Each handler of ssl_cli.c that reads.
LEMMA ClientReads ==
  ASSUME Shapes, UNCHANGED setting,
         \/ ParseServerHello \/ ParseServerKeyExchange \/ ParseCertificateRequest
         \/ ParseServerHelloDone \/ ParseNewSessionTicket
  PROVE  Relay("cli") /\ Shaped("cli")
<1>0. DOMAIN ssl["cli"] = ContextFields /\ "cli" \in Ends
  BY Peers DEF Shapes
<1>1. DOMAIN Heard("cli") = ContextFields
  BY <1>0 DEF Heard
<1>2. "DATA" \notin HandshakeMessages
  BY DEF HandshakeMessages
<1>3. CASE ParseServerHello
  <2> DEFINE m == Msg("cli")
             x == [Heard("cli") EXCEPT !.sr = m.rnd, !.due = m.tickets]
             y == [x EXCEPT !.st = "SERVER_CHANGE_CIPHER_SPEC"]
             z == Onward([x EXCEPT !.resume = FALSE, !.neg.start = clock,
                                   !.neg.suite = m.suite, !.neg.id = m.id])
  <2>1. /\ wire["cli"] # <<>> /\ Msg("cli").msg # "DATA" /\ ssl["cli"].err = "OK"
        /\ Refuse("cli", "SERVER_HELLO") \/ Hear("cli", y) \/ Hear("cli", z)
    BY <1>3 DEF ParseServerHello, CameAs, Comes, At
  <2>2. DOMAIN y = ContextFields /\ DOMAIN z = ContextFields
    BY <1>1, NewShapes
  <2> HIDE DEF y, z
  <2> QED BY <1>0, <2>1, <2>2, FailRelays, HearRelays
<1>4. CASE ParseServerKeyExchange
  <2> DEFINE y == Onward([Heard("cli") EXCEPT !.held = Msg("cli")])
  <2>1. DOMAIN y = ContextFields
    BY <1>1, NewShapes
  <2>2. DOMAIN Onward(ssl["cli"]) = ContextFields /\ DOMAIN Onward(Heard("cli")) = ContextFields
    BY <1>0, <1>1, NewShapes
  <2>3. /\ ssl["cli"].err = "OK"
        /\ \/ Move("cli", Onward(ssl["cli"]))
           \/ /\ wire["cli"] # <<>> /\ Msg("cli").msg # "DATA"
              /\ Hear("cli", Onward(Heard("cli"))) \/ Hear("cli", y)
    BY <1>2, <1>4 DEF ParseServerKeyExchange, CameAs, Comes, At
  <2> HIDE DEF y
  <2> QED BY <1>0, <2>1, <2>2, <2>3, MoveRelays, HearRelays
<1>5. CASE ParseCertificateRequest
  <2> DEFINE request == Msg("cli").msg = "CERTIFICATE_REQUEST"
             y == Onward([Heard("cli") EXCEPT !.asked = request,
                            !.held = IF request THEN NoMsg ELSE Msg("cli")])
  <2>1. DOMAIN y = ContextFields
    BY <1>1, NewShapes
  <2>2. DOMAIN Onward(ssl["cli"]) = ContextFields
    BY <1>0, NewShapes
  <2>3. /\ ssl["cli"].err = "OK"
        /\ \/ Move("cli", Onward(ssl["cli"]))
           \/ wire["cli"] # <<>> /\ Msg("cli").msg # "DATA" /\ Hear("cli", y)
    BY <1>2, <1>5 DEF ParseCertificateRequest, CameAs, Comes, At
  <2> HIDE DEF y
  <2> QED BY <1>0, <2>1, <2>2, <2>3, MoveRelays, HearRelays
<1>6. CASE ParseServerHelloDone
  <2> DEFINE y == Onward([ssl["cli"] EXCEPT !.held = NoMsg])
  <2>1. DOMAIN y = ContextFields
    BY <1>0, NewShapes
  <2>2. DOMAIN Onward(Heard("cli")) = ContextFields
    BY <1>1, NewShapes
  <2>3. /\ ssl["cli"].err = "OK"
        /\ \/ Move("cli", y)
           \/ /\ wire["cli"] # <<>> /\ Msg("cli").msg # "DATA"
              /\ Hear("cli", Onward(Heard("cli")))
    BY <1>6 DEF ParseServerHelloDone, CameAs, Comes, At
  <2> HIDE DEF y
  <2> QED BY <1>0, <2>1, <2>2, <2>3, MoveRelays, HearRelays
<1>7. CASE ParseNewSessionTicket
  <2> DEFINE y == [Heard("cli") EXCEPT !.due = FALSE, !.neg.id = 0,
                              !.neg.ticket = Msg("cli").ticket]
  <2>1. DOMAIN y = ContextFields
    BY <1>1
  <2>2. /\ ssl["cli"].err = "OK"
        /\ wire["cli"] # <<>> /\ Msg("cli").msg # "DATA" /\ Hear("cli", y)
    BY <1>7 DEF ParseNewSessionTicket, CameAs, Comes, At
  <2> HIDE DEF y
  <2> QED BY <1>0, <2>1, <2>2, HearRelays
<1> QED BY <1>3, <1>4, <1>5, <1>6, <1>7

\* Each handler of ssl_srv.c that reads.
LEMMA ServerReads ==
  ASSUME Shapes, UNCHANGED setting,
         ParseClientHello \/ ParseClientKeyExchange \/ ParseCertificateVerify
  PROVE  Relay("srv") /\ Shaped("srv")
<1>0. DOMAIN ssl["srv"] = ContextFields /\ "srv" \in Ends
  BY Peers DEF Shapes
<1>1. DOMAIN Heard("srv") = ContextFields
  BY <1>0 DEF Heard
<1>2. CASE ParseClientHello
  <2> DEFINE m == Msg("srv")
             x == Ticketed([Heard("srv") EXCEPT !.neg.id = m.id, !.cr = m.rnd], m)
             y == Onward([x EXCEPT !.neg.suite = Prefers[First(Common(m))]])
  <2>1. /\ wire["srv"] # <<>> /\ Msg("srv").msg # "DATA" /\ ssl["srv"].err = "OK"
        /\ Refuse("srv", "CLIENT_HELLO") \/ Hear("srv", y)
    BY <1>2 DEF ParseClientHello, CameAs, Comes, At
  <2>2. DOMAIN y = ContextFields
    <3>1. DOMAIN x = ContextFields
      BY <1>1 DEF Ticketed
    <3> HIDE DEF x
    <3> QED BY <3>1, NewShapes
  <2> HIDE DEF y
  <2> QED BY <1>0, <2>1, <2>2, FailRelays, HearRelays
<1>3. CASE ParseClientKeyExchange
  <2> DEFINE y == Onward([Heard("srv") EXCEPT !.neg.master =
                            Master("srv", Heard("srv"), Msg("srv").pms)])
  <2>1. DOMAIN y = ContextFields
    BY <1>1, NewShapes
  <2>2. /\ wire["srv"] # <<>> /\ Msg("srv").msg # "DATA" /\ ssl["srv"].err = "OK"
        /\ Hear("srv", y)
    BY <1>3 DEF ParseClientKeyExchange, CameAs, Comes, At
  <2> HIDE DEF y
  <2> QED BY <1>0, <2>1, <2>2, HearRelays
<1>4. CASE ParseCertificateVerify
  <2>1. DOMAIN Onward(ssl["srv"]) = ContextFields /\ DOMAIN Onward(Heard("srv")) = ContextFields
    BY <1>0, <1>1, NewShapes
  <2>2. /\ ssl["srv"].err = "OK"
        /\ \/ Move("srv", Onward(ssl["srv"]))
           \/ /\ wire["srv"] # <<>> /\ Msg("srv").msg # "DATA"
              /\ Hear("srv", Onward(Heard("srv"))) \/ Fail("srv", "CERTIFICATE_VERIFY")
    BY <1>4 DEF ParseCertificateVerify, CameAs, Comes, At
  <2> QED BY <1>0, <2>1, <2>2, FailRelays, HearRelays, MoveRelays
<1> QED BY <1>2, <1>3, <1>4

\* The handlers the two ends share (ssl_tls.c), and ssl_read with a handshake
\* message.
LEMMA EitherSteps ==
  ASSUME Shapes, UNCHANGED setting, NEW s \in Ends,
         \/ Begin(s) \/ SkipCertificate(s) \/ ParseCertificate(s) \/ ParseChangeCipherSpec(s)
         \/ ParseFinished(s) \/ FlushBuffers(s) \/ Unexpected(s) \/ ReadFails(s) \/ Wrapup(s)
         \/ ReadHandshake(s)
  PROVE  Relay(s) /\ Shaped(s)
<1>0. DOMAIN ssl[s] = ContextFields
  BY DEF Shapes
<1>1. DOMAIN Heard(s) = ContextFields /\ DOMAIN Onward(ssl[s]) = ContextFields
  BY <1>0, NewShapes DEF Heard
<1>2. CASE Begin(s) \/ FlushBuffers(s)
  BY <1>1, <1>2, MoveRelays DEF Begin, FlushBuffers, At
<1>3. CASE SkipCertificate(s)
  <2> DEFINE y == Onward([ssl[s] EXCEPT !.neg.verify = "skip"])
  <2>1. DOMAIN y = ContextFields
    BY <1>0, NewShapes
  <2>2. ssl[s].err = "OK" /\ (Move(s, Onward(ssl[s])) \/ Move(s, y))
    BY <1>3 DEF SkipCertificate, At
  <2> HIDE DEF y
  <2> QED BY <1>1, <2>1, <2>2, MoveRelays
<1>4. CASE ParseCertificate(s)
  <2> DEFINE cert == Msg(s).cert
             verdict == IF cert = "none" THEN "missing"
                        ELSE IF setting.auth[s] = "NONE" THEN "none" ELSE cert
             y == Onward([Heard(s) EXCEPT !.neg.cert = cert, !.neg.verify = verdict])
  <2>1. DOMAIN y = ContextFields
    BY <1>1, NewShapes
  <2>2. /\ wire[s] # <<>> /\ Msg(s).msg # "DATA" /\ ssl[s].err = "OK"
        /\ Hear(s, y) \/ Fail(s, "CERTIFICATE")
    BY <1>4 DEF ParseCertificate, ReadsCertificate, CameAs, Comes, At
  <2> HIDE DEF y
  <2> QED BY <2>1, <2>2, HearRelays, FailRelays
<1>5. CASE ParseChangeCipherSpec(s)
  BY <1>1, <1>5, HearRelays DEF ParseChangeCipherSpec, CameAs, Comes, At
<1>6. CASE ParseFinished(s)
  <2> DEFINE x == [Heard(s) EXCEPT !.in = KeysOf(Peer(s), ssl[s]), !.peer = Remembered(s)]
             y == Ended(s, x, FALSE)
  <2>1. DOMAIN y = ContextFields
    <3>1. DOMAIN x = ContextFields
      BY <1>1
    <3> HIDE DEF x
    <3> QED BY <3>1, NewShapes DEF Ended
  <2>2. /\ wire[s] # <<>> /\ Msg(s).msg # "DATA" /\ ssl[s].err = "OK"
        /\ Hear(s, y) \/ Fail(s, "FINISHED")
    BY <1>6 DEF ParseFinished, CameAs, Comes, At
  <2> HIDE DEF y
  <2> QED BY <2>1, <2>2, HearRelays, FailRelays
<1>7. CASE Unexpected(s)
  <2> DEFINE y == [ssl[s] EXCEPT !.err = "UNEXPECTED"]
  <2>1. DOMAIN y = ContextFields
    BY <1>0
  <2>2. /\ ssl[s].err = "OK"
        /\ (wire[s] # <<>> /\ Fail(s, "UNEXPECTED")) \/ Move(s, y)
    BY <1>7 DEF Unexpected, Reads, Comes, At
  <2> HIDE DEF y
  <2> QED BY <2>1, <2>2, MoveRelays, FailRelays
<1>8. CASE ReadFails(s)
  <2> DEFINE y == [ssl[s] EXCEPT !.err = "CONN_EOF"]
  <2>1. DOMAIN y = ContextFields
    BY <1>0
  <2>2. /\ ssl[s].err = "OK"
        /\ \/ wire[s] # <<>> /\ Refuse(s, "INVALID_MAC")
           \/ wire[s] # <<>> /\ Fail(s, Msg(s).msg) /\ Msg(s).msg # "OK"
           \/ Move(s, y)
    BY <1>8 DEF ReadFails, Reads, Comes, Msg
  <2> HIDE DEF y
  <2> QED BY <2>1, <2>2, MoveRelays, FailRelays
<1>9. CASE Wrapup(s)
  <2> DEFINE done == [Fresh(ssl[s]) EXCEPT !.sess = ssl[s].neg, !.st = "HANDSHAKE_OVER"]
             y == [done EXCEPT !.reneg = "DONE", !.seen = 0]
  <2>1. DOMAIN done = ContextFields /\ DOMAIN y = ContextFields
    BY <1>0, NewShapes
  <2>2. ssl[s].err = "OK" /\ (Move(s, done) \/ Move(s, y))
    BY <1>9 DEF Wrapup, At
  <2> HIDE DEF done, y
  <2> QED BY <2>1, <2>2, MoveRelays
<1>10. CASE ReadHandshake(s)
  <2>1. DOMAIN Renewed(ssl[s]) = ContextFields
    BY <1>0, NewShapes
  <2>2. "DATA" \notin HandshakeMessages
    BY DEF HandshakeMessages
  <2>3. /\ ssl[s].err = "OK" /\ wire[s] # <<>> /\ Msg(s).msg # "DATA"
        /\ \/ Fail(s, "UNEXPECTED") \/ Answer(s, ssl[s], "no_renegotiation")
           \/ Hear(s, Renewed(ssl[s])) \/ Move(s, Renewed(ssl[s]))
    BY <1>10, <2>2 DEF ReadHandshake, Over, Comes
  <2> QED BY <1>0, <2>1, <2>3, FailRelays, AnswerRelays, HearRelays, MoveRelays
<1> QED BY <1>2, <1>3, <1>4, <1>5, <1>6, <1>7, <1>8, <1>9, <1>10

\* ssl_renegotiate and ssl_close_notify.
LEMMA ProgramSteps ==
  ASSUME Shapes, UNCHANGED setting, NEW s \in Ends, Renegotiate(s) \/ Close(s)
  PROVE  Relay(s) /\ Shaped(s)
<1>0. DOMAIN ssl[s] = ContextFields
  BY DEF Shapes
<1>1. CASE Renegotiate(s)
  <2> DEFINE y == [ssl[s] EXCEPT !.reneg = "PENDING"]
             m == [msg |-> "HELLO_REQUEST"]
  <2>1. DOMAIN y = ContextFields /\ DOMAIN Renewed(ssl[s]) = ContextFields
    BY <1>0, NewShapes
  <2>2. ssl[s].err = "OK" /\ (Move(s, Renewed(ssl[s])) \/ Say(s, y, m))
    BY <1>1 DEF Renegotiate, Over
  <2>3. m.msg = "HELLO_REQUEST" /\ Honest(m)
    BY DEF Honest
  <2> HIDE DEF y, m
  <2> QED BY <2>1, <2>2, <2>3, MoveRelays, SayRelays
<1>2. CASE Close(s)
  <2> DEFINE y == [ssl[s] EXCEPT !.err = "CLOSED"]
             m == [msg |-> "close_notify"]
  <2>1. DOMAIN y = ContextFields
    BY <1>0
  <2>2. ssl[s].err = "OK" /\ Say(s, y, m)
    BY <1>2 DEF Close, Over
  <2>3. m.msg = "close_notify" /\ Honest(m)
    BY DEF Honest
  <2> HIDE DEF y, m
  <2> QED BY <2>1, <2>2, <2>3, SayRelays
<1> QED BY <1>1, <1>2

\* Every step of an end but those that read or write data.
LEMMA HandshakeRelays ==
  ASSUME Shapes, NEW s \in Ends,
         Handshake(s) \/ ReadHandshake(s) \/ Renegotiate(s) \/ Close(s)
  PROVE  Relay(s) /\ Shaped(s)
<1>1. UNCHANGED setting
  BY DEF Handshake, ReadHandshake, Renegotiate, Close, envvars, setting
<1>2. CASE Handshake(s)
  <2>1. CASE s = "cli" /\ ClientStep
    BY <1>1, <2>1, ClientWrites, ClientReads DEF ClientStep
  <2>2. CASE s = "srv" /\ ServerStep
    BY <1>1, <2>2, ServerWrites, ServerReads DEF ServerStep
  <2>3. CASE WriteCertificate(s) \/ WriteChangeCipherSpec(s) \/ WriteFinished(s)
    BY <1>1, <2>3, ClientWrites, ServerWrites DEF Ends
  <2> QED BY <1>1, <1>2, <2>1, <2>2, <2>3, EitherSteps DEF Handshake
<1>3. CASE ReadHandshake(s)
  BY <1>1, <1>3, EitherSteps
<1>4. CASE Renegotiate(s) \/ Close(s)
  BY <1>1, <1>4, ProgramSteps
<1> QED BY <1>2, <1>3, <1>4

-----------------------------------------------------------------------------
(* Data arrive complete and in order.                                       *)

\* f counts the data of w that came before: from a, to b.
Counts(f, w, a, b) ==
  /\ f \in [0..Len(w) -> Nat] /\ f[0] = a /\ f[Len(w)] = b
  /\ \A i, j \in 0..Len(w) : i <= j => f[i] <= f[j]
  /\ \A i \in 1..Len(w) :
       IF w[i].m.msg = "DATA" THEN w[i].m.n = f[i] /\ f[i] = f[i - 1] + 1
                              ELSE f[i] = f[i - 1]

\* The data on w are numbered from a + 1 to b, without a gap.
Numbered(w, a, b) == \E f : Counts(f, w, a, b)

\* A wire without records carries no data.
LEMMA NoneNumbered == Numbered(<<>>, 0, 0)
<1> DEFINE f == [i \in 0..0 |-> 0]
<1>1. Len(<<>>) = 0 /\ 0..0 = {0} /\ 1..0 = {}
  OBVIOUS
<1>2. f[0] = 0 /\ f \in [0..0 -> Nat]
  BY <1>1
<1> HIDE DEF f
<1>3. Counts(f, <<>>, 0, 0)
  BY <1>1, <1>2 DEF Counts
<1> QED BY <1>3 DEF Numbered

\* The numbers on a wire go up.
LEMMA NumberedBounds ==
  ASSUME NEW w, IsSequence(w), NEW a, NEW b, Numbered(w, a, b)
  PROVE  a \in Nat /\ b \in Nat /\ a <= b
<1>1. PICK f : Counts(f, w, a, b)
  BY DEF Numbered
<1>2. Len(w) \in Nat /\ 0 \in 0..Len(w) /\ Len(w) \in 0..Len(w)
  BY Appended
<1> QED BY <1>1, <1>2 DEF Counts

\* A record is added to a numbered wire.
LEMMA NumberedMore ==
  ASSUME NEW w, IsSequence(w), NEW a, NEW b, Numbered(w, a, b), NEW r,
         NEW c \in Nat,
         \/ r.m.msg # "DATA" /\ c = b
         \/ r.m.msg = "DATA" /\ r.m.n = b + 1 /\ c = b + 1
  PROVE  Numbered(Append(w, r), a, c)
<1>1. PICK f : Counts(f, w, a, b)
  BY DEF Numbered
<1> DEFINE v == Append(w, r)
           n == Len(w)
           g == [i \in 0..(n + 1) |-> IF i = n + 1 THEN c ELSE f[i]]
<1>2. /\ Len(v) = n + 1 /\ n \in Nat /\ v[n + 1] = r
      /\ \A i \in 1..n : v[i] = w[i]
  BY Appended
<1>3. f \in [0..n -> Nat] /\ f[0] = a /\ f[n] = b /\ b \in Nat /\ b <= c
  BY <1>1, <1>2 DEF Counts
<1>4. g \in [0..Len(v) -> Nat] /\ g[0] = a /\ g[Len(v)] = c /\ \A i \in 0..n : g[i] = f[i]
  BY <1>2, <1>3
<1>5. \A i, j \in 0..Len(v) : i <= j => g[i] <= g[j]
  <2> SUFFICES ASSUME NEW i \in 0..Len(v), NEW j \in 0..Len(v), i <= j PROVE g[i] <= g[j]
    OBVIOUS
  <2>1. \A k \in 0..n : f[k] <= b /\ f[k] \in Nat
    <3> SUFFICES ASSUME NEW k \in 0..n PROVE f[k] <= b /\ f[k] \in Nat
      OBVIOUS
    <3>1. n \in 0..n /\ k <= n
      BY <1>2
    <3> QED BY <1>1, <1>3, <3>1 DEF Counts
  <2>2. CASE j = n + 1
    BY <1>2, <1>3, <1>4, <2>1, <2>2
  <2>3. CASE j # n + 1
    <3>1. i \in 0..n /\ j \in 0..n
      BY <1>2, <2>3
    <3> QED BY <1>1, <1>4, <3>1 DEF Counts
  <2> QED BY <2>2, <2>3
<1>6. \A i \in 1..Len(v) :
         IF v[i].m.msg = "DATA" THEN v[i].m.n = g[i] /\ g[i] = g[i - 1] + 1
                                ELSE g[i] = g[i - 1]
  <2> SUFFICES ASSUME NEW i \in 1..Len(v)
               PROVE  IF v[i].m.msg = "DATA" THEN v[i].m.n = g[i] /\ g[i] = g[i - 1] + 1
                                             ELSE g[i] = g[i - 1]
    OBVIOUS
  <2>1. CASE i = n + 1
    <3>1. v[i] = r /\ g[i] = c /\ g[i - 1] = b
      BY <1>2, <1>3, <1>4, <2>1
    <3> QED BY <3>1
  <2>2. CASE i # n + 1
    <3>1. i \in 1..n /\ i - 1 \in 0..n /\ i \in 0..n
      BY <1>2, <2>2
    <3>2. v[i] = w[i] /\ g[i] = f[i] /\ g[i - 1] = f[i - 1]
      BY <1>2, <1>4, <3>1
    <3> QED BY <1>1, <3>1, <3>2 DEF Counts
  <2> QED BY <2>1, <2>2
<1> HIDE DEF g, v
<1>7. Counts(g, v, a, c)
  BY <1>4, <1>5, <1>6 DEF Counts
<1> QED BY <1>7 DEF Numbered, v

\* A record is taken from a numbered wire: if it holds data, those are the next.
LEMMA NumberedLess ==
  ASSUME NEW w, IsSequence(w), w # <<>>, NEW a, NEW b, Numbered(w, a, b)
  PROVE  /\ Head(w).m.msg # "DATA" => Numbered(Tail(w), a, b)
         /\ Head(w).m.msg = "DATA" => Head(w).m.n = a + 1 /\ Numbered(Tail(w), a + 1, b)
<1>1. PICK f : Counts(f, w, a, b)
  BY DEF Numbered
<1> DEFINE v == Tail(w)
           n == Len(w)
           g == [i \in 0..(n - 1) |-> f[i + 1]]
<1>2. /\ Len(v) = n - 1 /\ n \in Nat \ {0} /\ Head(w) = w[1]
      /\ \A i \in 1..(n - 1) : v[i] = w[i + 1]
  BY Shortened
<1>3. f \in [0..n -> Nat] /\ f[0] = a /\ f[n] = b
  BY <1>1 DEF Counts
<1>4. g \in [0..Len(v) -> Nat] /\ g[Len(v)] = b /\ \A i \in 0..Len(v) : g[i] = f[i + 1]
  BY <1>2, <1>3
<1>5. \A i, j \in 0..Len(v) : i <= j => g[i] <= g[j]
  <2> SUFFICES ASSUME NEW i \in 0..Len(v), NEW j \in 0..Len(v), i <= j PROVE g[i] <= g[j]
    OBVIOUS
  <2>1. i + 1 \in 0..n /\ j + 1 \in 0..n /\ i + 1 <= j + 1
    BY <1>2
  <2>2. f[i + 1] <= f[j + 1]
    BY <1>1, <2>1 DEF Counts
  <2> QED BY <1>4, <2>2
<1>6. \A i \in 1..Len(v) :
         IF v[i].m.msg = "DATA" THEN v[i].m.n = g[i] /\ g[i] = g[i - 1] + 1
                                ELSE g[i] = g[i - 1]
  <2> SUFFICES ASSUME NEW i \in 1..Len(v)
               PROVE  IF v[i].m.msg = "DATA" THEN v[i].m.n = g[i] /\ g[i] = g[i - 1] + 1
                                             ELSE g[i] = g[i - 1]
    OBVIOUS
  <2>1. i + 1 \in 1..n /\ (i + 1) - 1 = i /\ i \in 0..Len(v) /\ i - 1 \in 0..Len(v)
    BY <1>2
  <2>2. v[i] = w[i + 1] /\ g[i] = f[i + 1] /\ g[i - 1] = f[i]
    BY <1>2, <1>4, <2>1
  <2>3. IF w[i + 1].m.msg = "DATA" THEN w[i + 1].m.n = f[i + 1] /\ f[i + 1] = f[i] + 1
                                   ELSE f[i + 1] = f[i]
    BY <1>1, <2>1 DEF Counts
  <2> QED BY <2>2, <2>3
<1>7. Counts(g, v, f[1], b)
  <2>1. g[0] = f[1]
    BY <1>2, <1>4
  <2> HIDE DEF g, v
  <2> QED BY <1>4, <1>5, <1>6, <2>1 DEF Counts
<1>8. IF Head(w).m.msg = "DATA" THEN Head(w).m.n = f[1] /\ f[1] = a + 1 ELSE f[1] = a
  <2>1. 1 \in 1..n /\ 1 - 1 = 0
    BY <1>2
  <2> QED BY <1>1, <1>2, <1>3, <2>1 DEF Counts
<1> QED BY <1>7, <1>8 DEF Numbered

\* What was sent to s and what s was given: the wire between holds the rest.
Delivery(s) ==
  ~(s = "cli" /\ lost) =>
    /\ Len(got[s]) <= sent[Peer(s)]
    /\ \A i \in DOMAIN got[s] : got[s][i] = i
    /\ ssl[s].err = "OK" => Numbered(wire[s], Len(got[s]), sent[Peer(s)])

\* The inductive invariant of the delivery.
Delivered ==
  /\ Shapes
  /\ sent \in [Ends -> Nat] /\ DOMAIN got = Ends /\ \A s \in Ends : IsSequence(got[s])
  /\ \A s \in Ends : Delivery(s)

\* A step that relays delivers nothing and loses nothing.
LEMMA RelayDelivers ==
  ASSUME Delivered, NEW s \in Ends, Relay(s), Shaped(s), UNCHANGED <<sent, got, lost>>
  PROVE  Delivered'
<1> DEFINE p == Peer(s)
<1>1. p \in Ends /\ p # s /\ Peer(p) = s /\ \A t \in Ends : t = s \/ t = p
  BY Peers DEF Ends, Peer
<1> HIDE DEF p
<1>2. p = Peer(s)
  BY DEF p
<1>3. IsSequence(wire[s]) /\ IsSequence(wire[p]) /\ DOMAIN ssl[p] = ContextFields
  BY <1>1 DEF Delivered, Shapes
<1>4. IsSequence(wire'[s]) /\ IsSequence(wire'[p])
  <2>1. IsSequence(wire'[s])
    BY <1>3, Shortened DEF Relay
  <2>2. wire'[p] = wire[p] \/ \E r : wire'[p] = Append(wire[p], r)
    BY <1>2 DEF Relay
  <2>3. \A r : IsSequence(Append(wire[p], r))
    BY <1>3, Appended
  <2> QED BY <1>3, <2>1, <2>2, <2>3
<1>5. Shapes'
  BY <1>1, <1>2, <1>3, <1>4 DEF Shapes, Shaped, Relay
<1>6. Delivery(s)'
  <2>1. Delivery(s)
    BY DEF Delivered
  <2>2. ASSUME ssl'[s].err = "OK", ~(s = "cli" /\ lost)
        PROVE  Numbered(wire'[s], Len(got[s]), sent[Peer(s)])
    BY <1>3, <2>1, <2>2, NumberedLess DEF Relay, Delivery
  <2> QED BY <2>1, <2>2 DEF Delivery
<1>7. Delivery(p)'
  <2>1. Delivery(p)
    BY <1>1 DEF Delivered
  <2>2. ASSUME ssl'[p].err = "OK", ~(p = "cli" /\ lost)
        PROVE  Numbered(wire'[p], Len(got[p]), sent[Peer(p)])
    <3>1. Numbered(wire[p], Len(got[p]), sent[Peer(p)])
      BY <1>2, <2>1, <2>2 DEF Delivery, Relay
    <3>2. CASE wire'[p] = wire[p]
      BY <3>1, <3>2
    <3>3. ASSUME NEW r, r.m.msg # "DATA", wire'[p] = Append(wire[p], r)
          PROVE  Numbered(wire'[p], Len(got[p]), sent[Peer(p)])
      <4>1. sent[Peer(p)] \in Nat
        BY <1>1 DEF Delivered
      <4> QED BY <1>3, <3>1, <3>3, <4>1, NumberedMore
    <3> QED BY <1>2, <3>2, <3>3 DEF Relay
  <2> QED BY <2>1, <2>2 DEF Delivery
<1> QED BY <1>1, <1>5, <1>6, <1>7 DEF Delivered

\* ssl_read gives its program the next data, drops what is none, or loses data for
\* a client that lets another call drive it.
LEMMA ReadDataDelivers ==
  ASSUME Delivered, NEW s \in Ends, ReadData(s)
  PROVE  Delivered'
<1> DEFINE p == Peer(s)
           seen == ssl[s].reneg \in {"PENDING", "RENEGOTIATION"}
           x == [ssl[s] EXCEPT !.seen = IF seen THEN @ + 1 ELSE @]
<1>1. p \in Ends /\ p # s /\ Peer(p) = s /\ \A t \in Ends : t = s \/ t = p
  BY Peers DEF Ends, Peer
<1>2. /\ ssl[s].err = "OK" /\ wire[s] # <<>> /\ UNCHANGED setting /\ sent' = sent
      /\ s = "srv" => ~WaitsInRenegotiation(s)
  BY Peers DEF ReadData, Over, WaitsInRenegotiation, At, Comes, envvars, setting
<1>3. DOMAIN x = ContextFields /\ x.err = ssl[s].err /\ Shapes
  BY DEF Delivered, Shapes, ContextFields
<1>4. \/ Fail(s, "RENEGOTIATION") /\ UNCHANGED <<got, lost>>
      \/ Hear(s, x) /\ Msg(s).msg # "DATA" /\ UNCHANGED <<got, lost>>
      \/ Hear(s, x) /\ Msg(s).msg = "DATA" /\ Given(s) /\ UNCHANGED lost
      \/ Hear(s, x) /\ s = "cli" /\ lost' = TRUE /\ UNCHANGED got
  BY <1>2, Peers DEF ReadData, Ends
<1> HIDE DEF x
<1>5. CASE Fail(s, "RENEGOTIATION") /\ UNCHANGED <<got, lost>>
  BY <1>2, <1>3, <1>5, FailRelays, RelayDelivers
<1>6. CASE Hear(s, x) /\ Msg(s).msg # "DATA" /\ UNCHANGED <<got, lost>>
  BY <1>2, <1>3, <1>6, HearRelays, RelayDelivers
<1>7. CASE Hear(s, x) /\ ((Msg(s).msg = "DATA" /\ Given(s) /\ UNCHANGED lost)
                          \/ (s = "cli" /\ lost' = TRUE /\ UNCHANGED got))
  <2> HIDE DEF p
  <2>1. /\ ssl'[s] = x /\ ssl'[p] = ssl[p] /\ wire'[s] = Tail(wire[s]) /\ wire'[p] = wire[p]
        /\ DOMAIN ssl' = Ends /\ DOMAIN wire' = Ends
    BY <1>1, <1>3, <1>7 DEF Hear, Shapes
  <2>2. Shapes'
    <3>1. IsSequence(wire'[s]) /\ IsSequence(wire'[p])
      BY <1>1, <1>2, <1>3, <2>1, Shortened DEF Shapes
    <3> QED BY <1>1, <1>3, <2>1, <3>1 DEF Shapes
  <2>3. DOMAIN got' = Ends /\ got'[p] = got[p] /\ \A t \in Ends : IsSequence(got'[t])
    <3>1. CASE got' = got
      BY <3>1 DEF Delivered
    <3>2. CASE Given(s)
      <4>1. got'[s] = Append(got[s], Msg(s).n) /\ DOMAIN got' = Ends /\ got'[p] = got[p]
        BY <1>1, <3>2 DEF Given, Delivered
      <4>2. IsSequence(got'[s])
        BY <4>1, Appended DEF Delivered
      <4> QED BY <1>1, <4>1, <4>2 DEF Delivered
    <3> QED BY <1>7, <3>1, <3>2
  <2>4. Delivery(p)'
    <3>1. Delivery(p) /\ (p = "cli" => lost' = lost)
      BY <1>1, <1>7 DEF Delivered
    <3> QED BY <1>2, <2>1, <2>3, <3>1 DEF Delivery
  <2>5. Delivery(s)'
    <3>1. CASE s = "cli" /\ lost' = TRUE
      BY <3>1 DEF Delivery
    <3>2. CASE ~(s = "cli" /\ lost') /\ Msg(s).msg = "DATA" /\ Given(s) /\ lost' = lost
      <4>1. /\ Len(got[s]) <= sent[Peer(s)] /\ \A i \in DOMAIN got[s] : got[s][i] = i
            /\ Numbered(wire[s], Len(got[s]), sent[Peer(s)])
        BY <1>2, <3>2 DEF Delivered, Delivery
      <4>2. IsSequence(got[s]) /\ IsSequence(wire[s])
        BY <1>3 DEF Delivered, Shapes
      <4>3. Msg(s).n = Len(got[s]) + 1 /\ Numbered(Tail(wire[s]), Len(got[s]) + 1, sent[Peer(s)])
        BY <1>2, <3>2, <4>1, <4>2, NumberedLess DEF Msg
      <4>4. got'[s] = Append(got[s], Msg(s).n)
        BY <3>2 DEF Given, Delivered
      <4>5. /\ Len(got'[s]) = Len(got[s]) + 1 /\ Len(got[s]) \in Nat
            /\ IsSequence(got'[s]) /\ DOMAIN got[s] = 1..Len(got[s])
            /\ \A i \in 1..Len(got[s]) : got'[s][i] = got[s][i]
            /\ got'[s][Len(got[s]) + 1] = Msg(s).n
        BY <4>2, <4>4, Appended
      <4>6. DOMAIN got'[s] = 1..(Len(got[s]) + 1)
        BY <4>5, Appended
      <4>7. \A i \in DOMAIN got'[s] : got'[s][i] = i
        BY <4>1, <4>3, <4>5, <4>6
      <4>8. Len(got[s]) + 1 <= sent[Peer(s)]
        BY <2>1, <2>2, <4>3, NumberedBounds DEF Shapes
      <4> QED BY <1>2, <2>1, <4>3, <4>5, <4>7, <4>8 DEF Delivery
    <3> QED BY <1>7, <3>1, <3>2 DEF Delivery
  <2>6. sent' \in [Ends -> Nat]
    BY <1>2 DEF Delivered
  <2> QED BY <1>1, <2>2, <2>3, <2>4, <2>5, <2>6 DEF Delivered
<1> QED BY <1>4, <1>5, <1>6, <1>7

\* ssl_write numbers on.
LEMMA WriteDelivers ==
  ASSUME Delivered, NEW s \in Ends, Write(s)
  PROVE  Delivered'
<1> DEFINE p == Peer(s)
           r == [keys |-> ssl[s].out, m |-> [msg |-> "DATA", n |-> sent[s] + 1]]
<1>1. p \in Ends /\ p # s /\ Peer(p) = s /\ Peer(s) = p /\ \A t \in Ends : t = s \/ t = p
  BY Peers DEF Ends, Peer
<1>2. r.m.msg = "DATA" /\ r.m.n = sent[s] + 1
  OBVIOUS
<1>3. Shapes /\ IsSequence(wire[p]) /\ IsSequence(wire[s]) /\ DOMAIN ssl[s] = ContextFields
  BY <1>1 DEF Delivered, Shapes
<1>4. "DATA" \notin HandshakeMessages
  BY DEF HandshakeMessages
<1>5. ssl'[s] = ssl[s] /\ ssl'[p] = ssl[p] /\ DOMAIN ssl' = Ends
  BY <1>1, <1>3, <1>4 DEF Write, Say, Shapes
<1>6. wire'[p] = Append(wire[p], r) /\ wire'[s] = wire[s] /\ DOMAIN wire' = Ends
  BY <1>1, <1>3 DEF Write, Say, Shapes
<1>7. /\ sent' \in [Ends -> Nat] /\ sent'[s] = sent[s] + 1 /\ sent'[p] = sent[p]
      /\ sent[s] \in Nat /\ got' = got /\ lost' = lost
  BY <1>1 DEF Write, Delivered
<1> HIDE DEF p, r
<1>8. Shapes'
  <2>1. IsSequence(wire'[p])
    BY <1>3, <1>6, Appended
  <2> QED BY <1>1, <1>3, <1>5, <1>6, <2>1 DEF Shapes
<1>9. Delivery(s)'
  BY <1>1, <1>5, <1>6, <1>7 DEF Delivery, Delivered
<1>10. Delivery(p)'
  <2> SUFFICES ASSUME ~(p = "cli" /\ lost) PROVE Delivery(p)'
    BY <1>7 DEF Delivery
  <2>1. /\ Len(got[p]) <= sent[s] /\ \A i \in DOMAIN got[p] : got[p][i] = i
        /\ ssl[p].err = "OK" => Numbered(wire[p], Len(got[p]), sent[s])
    BY <1>1 DEF Delivered, Delivery
  <2>2. Len(got[p]) \in Nat
    BY <1>1, Appended DEF Delivered
  <2>3. ssl[p].err = "OK" => Numbered(wire'[p], Len(got[p]), sent[s] + 1)
    BY <1>2, <1>3, <1>6, <1>7, <2>1, NumberedMore
  <2>4. Len(got[p]) <= sent[s] + 1
    BY <1>7, <2>1, <2>2
  <2> QED BY <1>1, <1>5, <1>7, <2>1, <2>3, <2>4 DEF Delivery
<1> QED BY <1>1, <1>7, <1>8, <1>9, <1>10 DEF Delivered

\* A connection that begins has had no data.
LEMMA EmptyDelivers ==
  /\ Len(<<>>) = 0 /\ DOMAIN <<>> = {} /\ IsSequence(<<>>)
<1>1. <<>> \in Seq({})
  OBVIOUS
<1> QED BY <1>1 DEF IsSequence

\* A new connection begins with nothing sent and nothing on the wires.
LEMMA ConnectDelivers ==
  ASSUME Connect
  PROVE  Delivered'
<1>1. /\ DOMAIN ssl' = Ends /\ \A s \in Ends : DOMAIN ssl'[s] = ContextFields
  <2> DEFINE kept == IF ssl["cli"].sess # NoSession THEN ssl["cli"].sess ELSE saved
             x == Reset(ssl["cli"])
             y == [x EXCEPT !.neg = kept, !.resume = TRUE]
  <2>1. DOMAIN x = ContextFields /\ DOMAIN y = ContextFields
        /\ DOMAIN Reset(ssl["srv"]) = ContextFields
    BY NewShapes
  <2>2. ssl' = [cli |-> IF kept = NoSession THEN x ELSE y, srv |-> Reset(ssl["srv"])]
    BY DEF Connect
  <2> HIDE DEF x, y
  <2> QED BY <2>1, <2>2 DEF Ends
<1>2. /\ wire' = [s \in Ends |-> <<>>] /\ got' = [s \in Ends |-> <<>>]
      /\ sent' = [s \in Ends |-> 0] /\ lost' = FALSE
  BY DEF Connect
<1>3. Shapes'
  BY <1>1, <1>2, EmptyDelivers DEF Shapes
<1>4. \A s \in Ends : Delivery(s)'
  BY <1>2, EmptyDelivers, NoneNumbered, Peers DEF Delivery
<1> QED BY <1>2, <1>3, <1>4, EmptyDelivers DEF Delivered

\* The invariant holds at the start.
LEMMA InitDelivers == Init => Delivered
<1> SUFFICES ASSUME Init PROVE Delivered
  OBVIOUS
<1>1. Shapes
  BY NewShapes, EmptyDelivers DEF Init, Shapes
<1>2. \A s \in Ends : Delivery(s)
  BY EmptyDelivers, NoneNumbered, Peers DEF Delivery, Init
<1> QED BY <1>1, <1>2, EmptyDelivers DEF Delivered, Init

\* Every step keeps the invariant.
LEMMA NextDelivers == Delivered /\ [Next]_vars => Delivered'
<1> SUFFICES ASSUME Delivered, [Next]_vars PROVE Delivered'
  OBVIOUS
<1>1. ASSUME UNCHANGED <<ssl, wire, sent, got, lost>> PROVE Delivered'
  <2>1. Shapes' /\ \A s \in Ends : Delivery(s)'
    BY <1>1 DEF Delivered, Shapes, Delivery
  <2> QED BY <1>1, <2>1 DEF Delivered
<1>2. ASSUME NEW s \in Ends, Handshake(s) \/ ReadHandshake(s) \/ Renegotiate(s) \/ Close(s)
      PROVE  Delivered'
  <2>1. UNCHANGED <<sent, got, lost>>
    BY <1>2 DEF Handshake, ReadHandshake, Renegotiate, Close, appvars
  <2>2. Shapes
    BY DEF Delivered
  <2> QED BY <1>2, <2>1, <2>2, HandshakeRelays, RelayDelivers
<1>3. CASE Tick \/ OtherClient \/ Reboot
  BY <1>1, <1>3 DEF Tick, OtherClient, Reboot, hsvars, appvars
<1>4. CASE UNCHANGED vars
  BY <1>1, <1>4 DEF vars
<1> QED BY <1>2, <1>3, <1>4, ReadDataDelivers, WriteDelivers, ConnectDelivers DEF Next

\* The invariant holds always.
LEMMA DeliveredAlways == Spec => []Delivered
BY InitDelivers, NextDelivers, PTL DEF Spec

\* The data of ssl_write arrive at ssl_read complete and in order, whatever handshakes,
\* renegotiations, alerts and reconnections come between; only a client that lets
\* ssl_write or ssl_renegotiate drive a renegotiation may lose some.
THEOREM DataArriveInOrder == Spec => []DeliveredInOrder
<1>1. Delivered => DeliveredInOrder
  BY DEF Delivered, Delivery, DeliveredInOrder
<1> QED BY <1>1, DeliveredAlways, PTL

-----------------------------------------------------------------------------
(* The certificate of the client.                                           *)

\* The states of the server after it has read the certificate of the client.
Judging == {"CLIENT_KEY_EXCHANGE", "CERTIFICATE_VERIFY", "CLIENT_CHANGE_CIPHER_SPEC",
  "CLIENT_FINISHED", "SERVER_CHANGE_CIPHER_SPEC", "SERVER_FINISHED", "FLUSH_BUFFERS",
  "HANDSHAKE_WRAPUP"}

\* Those in which it makes a session.
Making == {"SERVER_CERTIFICATE", "SERVER_KEY_EXCHANGE", "CERTIFICATE_REQUEST",
  "SERVER_HELLO_DONE", "CLIENT_CERTIFICATE"} \cup Judging

\* Those it leaves without having learned anything.
Calm == {"HELLO_REQUEST", "SERVER_CERTIFICATE", "SERVER_KEY_EXCHANGE",
  "CERTIFICATE_REQUEST", "SERVER_HELLO_DONE"} \cup (Judging \ {"HANDSHAKE_WRAPUP"})

\* The server requires a certificate and the suite has the client show one.
MustVerify == setting.auth["srv"] = "REQUIRED" /\ ~ByPsk

\* What a full handshake has established when the server's context is x.
Judged(x) ==
  ~x.resume =>
    /\ DOMAIN x.neg = SessionFields
    /\ x.st \notin {"HELLO_REQUEST", "CLIENT_HELLO", "HANDSHAKE_OVER"} => x.neg.suite = Chosen
    /\ x.st \in Judging /\ MustVerify =>
         x.neg.verify = "good" /\ x.neg.cert = setting.cert["cli"]

\* The id of a session in the making is drawn with the server's hello, and stays.
Drawn(x, y) ==
  ~y.resume /\ y.st \in Making /\ y.neg.id # 0 =>
    \/ ~x.resume /\ x.st \in Making /\ y.neg.id = x.neg.id
    \/ y.neg.id = draws + 2 /\ draws' = draws + 2

\* The server's context may become y.
Follows(y) == Judged(y) /\ Drawn(ssl["srv"], y)

\* The inductive invariant: the server has the client's word for what it works with, and
\* the sessions that were made are of connections up to this one.
Verified ==
  /\ Shapes
  /\ \A i \in 1..Len(wire["srv"]) : Honest(wire["srv"][i].m)
  /\ Judged(ssl["srv"])
  /\ conns \in Nat /\ \A e \in made : e.conn \in Nat /\ e.conn <= conns
  /\ RequiredIsVerified

\* Contexts that agree in what Judged looks at.
Alike(y, x) == y.st = x.st /\ y.neg = x.neg /\ y.resume = x.resume

\* Judged looks at nothing else.
LEMMA AlikeJudged ==
  ASSUME NEW x, Judged(x), NEW y, Alike(y, x)
  PROVE  Judged(y)
BY DEF Judged, Alike

\* A context that stays alike is a step that is allowed.
LEMMA AlikeFollows ==
  ASSUME Judged(ssl["srv"]), NEW y, Alike(y, ssl["srv"])
  PROVE  Follows(y)
BY AlikeJudged DEF Alike, Drawn, Follows

\* The context an end steps to, but for its log.
LEMMA StepsTo ==
  ASSUME Shapes, NEW s \in Ends, NEW x, DOMAIN x = ContextFields, NEW m,
         Say(s, x, m) \/ Move(s, x) \/ Hear(s, x) \/ Answer(s, x, m)
  PROVE  Alike(ssl'[s], x)
<1> DEFINE y == [x EXCEPT !.log = Append(@, Hashed(m))]
<1>1. Alike(y, x)
  BY DEF Alike, ContextFields
<1>2. ssl'[s] = x \/ ssl'[s] = y
  BY DEF Say, Move, Hear, Answer, Shapes
<1> HIDE DEF y
<1> QED BY <1>1, <1>2 DEF Alike

\* A call that fails changes err alone.
LEMMA FailsFrom ==
  ASSUME Shapes, NEW s \in Ends, NEW e,
         Fail(s, e) \/ Refuse(s, e) \/ Move(s, [ssl[s] EXCEPT !.err = e])
  PROVE  Alike(ssl'[s], ssl[s])
<1> DEFINE y == [ssl[s] EXCEPT !.err = e]
<1>1. Alike(y, ssl[s])
  BY DEF Alike, ContextFields, Shapes
<1>2. ssl'[s] = y
  BY DEF Fail, Refuse, Hear, Answer, Move, Shapes
<1> HIDE DEF y
<1> QED BY <1>1, <1>2

\* ssl->state++ changes the state alone.
LEMMA OnwardFields ==
  ASSUME NEW x, DOMAIN x = ContextFields
  PROVE  /\ Onward(x).st = After(x.st) /\ Onward(x).neg = x.neg /\ Onward(x).resume = x.resume
         /\ DOMAIN Onward(x) = ContextFields
BY DEF Onward, ContextFields

\* Reading a message changes the log alone.
LEMMA HeardFields ==
  ASSUME Shapes, NEW s \in Ends
  PROVE  Alike(Heard(s), ssl[s]) /\ DOMAIN Heard(s) = ContextFields
BY DEF Heard, ContextFields, Alike, Shapes

\* The steps after which nothing more is known than before.
LEMMA OnwardJudged ==
  ASSUME NEW x, DOMAIN x = ContextFields, Judged(x), NEW y, Alike(y, Onward(x)),
         x.st \in {"HELLO_REQUEST", "SERVER_HELLO", "SERVER_CERTIFICATE",
            "SERVER_KEY_EXCHANGE", "CERTIFICATE_REQUEST", "SERVER_HELLO_DONE"} \cup Judging,
         x.st # "HANDSHAKE_WRAPUP"
  PROVE  Judged(y)
<1>0. y.st = After(x.st) /\ y.neg = x.neg /\ y.resume = x.resume
  BY OnwardFields DEF Alike
<1>1. CASE x.st = "HELLO_REQUEST"
  BY <1>0, <1>1, NextState DEF Judged, Judging
<1>2. CASE x.st \in {"SERVER_HELLO", "SERVER_CERTIFICATE",
            "SERVER_KEY_EXCHANGE", "CERTIFICATE_REQUEST", "SERVER_HELLO_DONE"}
  <2>1. y.st \notin Judging \cup {"HELLO_REQUEST", "CLIENT_HELLO", "HANDSHAKE_OVER"}
        /\ x.st \notin {"HELLO_REQUEST", "CLIENT_HELLO", "HANDSHAKE_OVER"}
    BY <1>0, <1>2, NextState DEF Judging
  <2> QED BY <1>0, <2>1 DEF Judged
<1>3. CASE x.st \in Judging
  <2>1. x.st \notin {"HELLO_REQUEST", "CLIENT_HELLO", "HANDSHAKE_OVER"}
    BY <1>3 DEF Judging
  <2> QED BY <1>0, <1>3, <2>1 DEF Judged
<1> QED BY <1>1, <1>2, <1>3

\* Moving on from a calm state is a step that is allowed.
LEMMA OnwardFollows ==
  ASSUME NEW x, DOMAIN x = ContextFields, Judged(x), NEW y, Alike(y, Onward(x)), x.st \in Calm,
         x.st = ssl["srv"].st, x.resume = ssl["srv"].resume,
         ~x.resume => x.neg.id = ssl["srv"].neg.id
  PROVE  Follows(y)
<1>1. Judged(y)
  BY OnwardJudged DEF Calm, Judging
<1>2. y.st = After(x.st) /\ y.neg = x.neg /\ y.resume = x.resume
  BY OnwardFields DEF Alike
<1>3. CASE x.st = "HELLO_REQUEST"
  <2>1. y.st \notin Making
    BY <1>2, <1>3, NextState DEF Making, Judging
  <2> QED BY <1>1, <2>1 DEF Drawn, Follows
<1>4. CASE x.st # "HELLO_REQUEST"
  <2>1. x.st \in Making
    BY <1>4 DEF Making, Calm
  <2> QED BY <1>1, <1>2, <2>1 DEF Drawn, Follows
<1> QED BY <1>3, <1>4

\* A step of the server that only moves on, or fails.
LEMMA PlainFollows ==
  ASSUME Verified,
         \/ Begin("srv") \/ WriteCertificate("srv") \/ WriteServerKeyExchange
         \/ WriteCertificateRequest \/ WriteServerHelloDone \/ ParseCertificateVerify
         \/ WriteNewSessionTicket \/ WriteChangeCipherSpec("srv")
         \/ ParseChangeCipherSpec("srv") \/ FlushBuffers("srv")
         \/ Unexpected("srv") \/ ReadFails("srv")
  PROVE  Follows(ssl'["srv"])
<1> DEFINE x == ssl["srv"]
           y == ssl'["srv"]
<1>0. DOMAIN x = ContextFields /\ Judged(x) /\ Shapes /\ "srv" \in Ends /\ "srv" # "cli"
  BY Peers DEF Verified, Shapes
<1>1. DOMAIN Heard("srv") = ContextFields /\ Judged(Heard("srv")) /\ Alike(Heard("srv"), x)
  BY <1>0, HeardFields, AlikeJudged
<1>2. ASSUME x.st \in Calm, NEW z \in {x, Heard("srv")}, NEW m,
             Say("srv", Onward(z), m) \/ Move("srv", Onward(z)) \/ Hear("srv", Onward(z))
      PROVE  Follows(y)
  <2>1. DOMAIN z = ContextFields /\ Judged(z) /\ Alike(z, x)
    BY <1>0, <1>1, <1>2 DEF Alike
  <2>2. Alike(y, Onward(z))
    BY <1>0, <1>2, <2>1, OnwardFields, StepsTo
  <2> QED BY <1>2, <2>1, <2>2, OnwardFollows DEF Alike
<1>3. ASSUME NEW e, Fail("srv", e) \/ Refuse("srv", e) \/ Move("srv", [x EXCEPT !.err = e])
      PROVE  Follows(y)
  BY <1>0, <1>3, FailsFrom, AlikeFollows
<1>4. CASE WriteNewSessionTicket
  <2> DEFINE z == [x EXCEPT !.due = FALSE]
             m == [msg |-> "NEW_SESSION_TICKET", ticket |-> [key |-> boot, state |-> x.neg]]
  <2>1. Alike(z, x) /\ DOMAIN z = ContextFields
    BY <1>0 DEF ContextFields, Alike
  <2>2. Say("srv", z, m)
    BY <1>4 DEF WriteNewSessionTicket
  <2> HIDE DEF z, m
  <2> QED BY <1>0, <2>1, <2>2, StepsTo, AlikeFollows DEF Alike
<1>5. CASE Begin("srv") \/ FlushBuffers("srv")
  <2>1. x.st \in Calm /\ Move("srv", Onward(x))
    BY <1>5 DEF Begin, FlushBuffers, At, Calm, Judging
  <2> QED BY <1>2, <2>1
<1>6. CASE WriteCertificate("srv")
  <2>1. x.st \in Calm /\ (Move("srv", Onward(x)) \/ \E m : Say("srv", Onward(x), m))
    BY <1>0, <1>6 DEF WriteCertificate, CertState, At, Calm
  <2> QED BY <1>2, <2>1
<1>7. CASE WriteServerKeyExchange \/ WriteCertificateRequest \/ WriteServerHelloDone
  <2>1. x.st \in Calm /\ (Move("srv", Onward(x)) \/ \E m : Say("srv", Onward(x), m))
    BY <1>7 DEF WriteServerKeyExchange, WriteCertificateRequest, WriteServerHelloDone, At, Calm
  <2> QED BY <1>2, <2>1
<1>8. CASE WriteChangeCipherSpec("srv") \/ ParseChangeCipherSpec("srv")
  <2>1. x.st \in Calm /\ (Hear("srv", Onward(x)) \/ \E m : Say("srv", Onward(x), m))
    BY <1>0, <1>8, Peers
       DEF WriteChangeCipherSpec, ParseChangeCipherSpec, Change, At, Calm, Judging
  <2> QED BY <1>2, <2>1
<1>9. CASE ParseCertificateVerify
  <2>1. x.st \in Calm /\ \/ Move("srv", Onward(x)) \/ Hear("srv", Onward(Heard("srv")))
                         \/ Fail("srv", "CERTIFICATE_VERIFY")
    BY <1>9 DEF ParseCertificateVerify, At, Calm, Judging
  <2> QED BY <1>2, <1>3, <2>1
<1>10. CASE Unexpected("srv") \/ ReadFails("srv")
  <2>1. \E e : Fail("srv", e) \/ Refuse("srv", e) \/ Move("srv", [x EXCEPT !.err = e])
    BY <1>10 DEF Unexpected, ReadFails
  <2> QED BY <1>3, <2>1
<1> QED BY <1>4, <1>5, <1>6, <1>7, <1>8, <1>9, <1>10

\* The server chooses among what the client offered.
LEMMA HelloFollows ==
  ASSUME Verified, ParseClientHello
  PROVE  Follows(ssl'["srv"])
<1> DEFINE m == Msg("srv")
           h == [Heard("srv") EXCEPT !.neg.id = m.id, !.cr = m.rnd]
           x == Ticketed(h, m)
           z == [x EXCEPT !.neg.suite = Prefers[First(Common(m))]]
<1>0. /\ Judged(ssl["srv"]) /\ Shapes /\ "srv" \in Ends /\ ssl["srv"].st = "CLIENT_HELLO"
      /\ wire["srv"] # <<>> /\ Msg("srv").msg = "CLIENT_HELLO"
  BY Peers DEF Verified, ParseClientHello, At, CameAs, Comes
<1>1. Refuse("srv", "CLIENT_HELLO") \/ Hear("srv", Onward(z))
  BY DEF ParseClientHello
<1>2. m.offer = setting.offer
  <2>1. IsSequence(wire["srv"])
    BY <1>0 DEF Shapes
  <2>2. Len(wire["srv"]) \in Nat \ {0} /\ Head(wire["srv"]) = wire["srv"][1]
    BY <1>0, <2>1, Shortened
  <2>3. 1 \in 1..Len(wire["srv"])
    BY <2>2
  <2> QED BY <1>0, <2>2, <2>3 DEF Verified, Honest, Msg
<1>3. Prefers[First(Common(m))] = Chosen
  BY <1>2 DEF Common, Chosen
<1>4. /\ DOMAIN h = ContextFields /\ h.resume = ssl["srv"].resume /\ h.st = "CLIENT_HELLO"
      /\ ~h.resume => DOMAIN h.neg = SessionFields
  <2>1. DOMAIN Heard("srv") = ContextFields /\ Alike(Heard("srv"), ssl["srv"])
    BY <1>0, HeardFields
  <2>2. ~ssl["srv"].resume => DOMAIN ssl["srv"].neg = SessionFields
    BY <1>0 DEF Judged
  <2> QED BY <1>0, <2>1, <2>2 DEF Alike, ContextFields
<1> HIDE DEF h
<1>5. /\ DOMAIN x = ContextFields /\ x.st = "CLIENT_HELLO"
      /\ ~x.resume => DOMAIN x.neg = SessionFields
  BY <1>4 DEF Ticketed, ContextFields
<1> HIDE DEF x, m
<1>6. /\ DOMAIN z = ContextFields /\ z.st = "CLIENT_HELLO"
      /\ ~z.resume => DOMAIN z.neg = SessionFields /\ z.neg.suite = Chosen
  BY <1>3, <1>5 DEF ContextFields, SessionFields
<1> HIDE DEF z
<1>7. CASE Refuse("srv", "CLIENT_HELLO")
  BY <1>0, <1>7, FailsFrom, AlikeFollows
<1>8. CASE Hear("srv", Onward(z))
  <2>1. Alike(ssl'["srv"], Onward(z)) /\ Onward(z).st = "SERVER_HELLO"
    BY <1>0, <1>6, <1>8, StepsTo, OnwardFields, NextState
  <2>2. "SERVER_HELLO" \notin Judging /\ "SERVER_HELLO" \notin Making
    BY DEF Judging, Making
  <2> QED BY <1>6, <2>1, <2>2, OnwardFields DEF Judged, Drawn, Follows, Alike
<1> QED BY <1>1, <1>7, <1>8

\* ssl_write_server_hello resumes, or draws an id for a new session.
LEMMA ServerHelloFollows ==
  ASSUME Verified, WriteServerHello
  PROVE  Follows(ssl'["srv"])
<1> DEFINE r == Recalled(ssl["srv"])
           x == [r EXCEPT !.sr = draws + 1]
           w == [x EXCEPT !.neg.start = clock, !.neg.id = IF x.due THEN 0 ELSE draws + 2]
           v == [x EXCEPT !.st = "SERVER_CHANGE_CIPHER_SPEC"]
           y == IF x.resume THEN v ELSE Onward(w)
<1>0. /\ Judged(ssl["srv"]) /\ Shapes /\ "srv" \in Ends /\ ssl["srv"].st = "SERVER_HELLO"
      /\ DOMAIN ssl["srv"] = ContextFields
  BY Peers DEF Verified, WriteServerHello, At, Shapes
<1>1. \E m : Say("srv", y, m)
  BY DEF WriteServerHello
<1>2. DOMAIN r = ContextFields /\ r.st = "SERVER_HELLO" /\ Judged(r)
  <2>1. CASE r = ssl["srv"]
    BY <1>0, <2>1
  <2>2. CASE r # ssl["srv"]
    <3>1. DOMAIN r = ContextFields /\ r.st = "SERVER_HELLO" /\ r.resume = TRUE
      BY <1>0, <2>2 DEF Recalled, ContextFields
    <3> QED BY <3>1 DEF Judged
  <2> QED BY <2>1, <2>2
<1> HIDE DEF r
<1>3. DOMAIN x = ContextFields /\ Alike(x, r)
  BY <1>2 DEF ContextFields, Alike
<1>4. Judged(x) /\ x.st = "SERVER_HELLO"
  BY <1>2, <1>3, AlikeJudged DEF Alike
<1> HIDE DEF x
<1>5. CASE x.resume
  <2>1. DOMAIN v = ContextFields /\ v.resume = x.resume
    BY <1>3 DEF ContextFields
  <2>2. y = v
    BY <1>5
  <2> HIDE DEF v, y
  <2>3. Alike(ssl'["srv"], v)
    BY <1>0, <1>1, <2>1, <2>2, StepsTo
  <2> QED BY <1>5, <2>1, <2>3 DEF Judged, Drawn, Follows, Alike
<1>6. CASE ~x.resume
  <2>1. DOMAIN x.neg = SessionFields /\ x.neg.suite = Chosen
    BY <1>4, <1>6 DEF Judged
  <2>2. /\ DOMAIN w = ContextFields /\ w.st = "SERVER_HELLO" /\ w.resume = x.resume
        /\ DOMAIN w.neg = SessionFields /\ w.neg.suite = Chosen
        /\ w.neg.id = IF x.due THEN 0 ELSE draws + 2
    BY <1>3, <1>4, <2>1 DEF ContextFields, SessionFields
  <2>3. "SERVER_HELLO" \notin Judging
    BY DEF Judging
  <2>4. Judged(w)
    BY <2>2, <2>3 DEF Judged
  <2>5. y = Onward(w)
    BY <1>6
  <2> HIDE DEF w, y
  <2>6. Alike(ssl'["srv"], Onward(w))
    BY <1>0, <1>1, <2>2, <2>5, OnwardFields, StepsTo
  <2>7. Judged(ssl'["srv"])
    BY <2>2, <2>4, <2>6, OnwardJudged
  <2>8. ssl'["srv"].neg.id \in {0, draws + 2} /\ draws' = draws + 2
    BY <2>2, <2>6, OnwardFields DEF Alike, WriteServerHello
  <2> QED BY <2>7, <2>8 DEF Drawn, Follows
<1> QED BY <1>5, <1>6

\* Where the server passes the client's certificate, it is the one shown.
LEMMA CertificateFollows ==
  ASSUME Verified, SkipCertificate("srv") \/ ParseCertificate("srv")
  PROVE  Follows(ssl'["srv"])
<1> DEFINE x == ssl["srv"]
           cert == Msg("srv").cert
           verdict == IF cert = "none" THEN "missing"
                      ELSE IF setting.auth["srv"] = "NONE" THEN "none" ELSE cert
           skip == [x EXCEPT !.neg.verify = "skip"]
           pass == [Heard("srv") EXCEPT !.neg.cert = cert, !.neg.verify = verdict]
<1>0. /\ Judged(x) /\ Shapes /\ "srv" \in Ends /\ x.st = "CLIENT_CERTIFICATE"
      /\ DOMAIN x = ContextFields /\ "srv" # "cli"
  BY Peers DEF Verified, Shapes, SkipCertificate, ParseCertificate, ReadsCertificate, At,
               CertState
<1>1. ~x.resume => DOMAIN x.neg = SessionFields /\ x.neg.suite = Chosen
  BY <1>0 DEF Judged
<1>2. ~x.resume => (ByPsk <=> KxOf("srv") \in {"PSK", "RSA_PSK"})
  BY <1>1 DEF ByPsk, KxOf
<1>3. ASSUME NEW z, DOMAIN z = ContextFields, z.st = x.st, z.resume = x.resume,
             Move("srv", Onward(z)) \/ Hear("srv", Onward(z)),
             ~x.resume => /\ DOMAIN z.neg = SessionFields /\ z.neg.suite = x.neg.suite
                          /\ z.neg.id = x.neg.id
                          /\ MustVerify => z.neg.verify = "good"
                                           /\ z.neg.cert = setting.cert["cli"]
      PROVE  Follows(ssl'["srv"])
  <2>1. Alike(ssl'["srv"], Onward(z))
    BY <1>0, <1>3, OnwardFields, StepsTo
  <2>2. Judged(Onward(z))
    BY <1>0, <1>1, <1>3, OnwardFields, NextState DEF Judged
  <2>3. Judged(ssl'["srv"])
    BY <2>1, <2>2, AlikeJudged
  <2>4. x.st \in Making
    BY <1>0 DEF Making
  <2>5. Drawn(x, ssl'["srv"])
    BY <1>3, <2>1, <2>4, OnwardFields DEF Drawn, Alike
  <2> QED BY <2>3, <2>5 DEF Follows
<1>4. CASE SkipCertificate("srv")
  <2>1. DOMAIN skip = ContextFields /\ skip.st = x.st /\ skip.resume = x.resume
    BY <1>0 DEF ContextFields
  <2>2. ~x.resume => DOMAIN skip.neg = SessionFields /\ skip.neg.suite = x.neg.suite
                    /\ skip.neg.id = x.neg.id
    BY <1>0, <1>1 DEF ContextFields, SessionFields
  <2>3. ~x.resume => ~MustVerify
    BY <1>2, <1>4 DEF SkipCertificate, MustVerify
  <2>4. Move("srv", Onward(x)) \/ Move("srv", Onward(skip))
    BY <1>4 DEF SkipCertificate
  <2> HIDE DEF skip
  <2> QED BY <1>0, <1>1, <1>3, <2>1, <2>2, <2>3, <2>4
<1>5. CASE ParseCertificate("srv")
  <2>0. wire["srv"] # <<>> /\ Msg("srv").msg = "CERTIFICATE"
    BY <1>5 DEF ParseCertificate, CameAs, Comes
  <2>1. cert = setting.cert["cli"]
    <3>1. IsSequence(wire["srv"])
      BY <1>0 DEF Shapes
    <3>2. Len(wire["srv"]) \in Nat \ {0} /\ Head(wire["srv"]) = wire["srv"][1]
      BY <2>0, <3>1, Shortened
    <3>3. 1 \in 1..Len(wire["srv"])
      BY <3>2
    <3> QED BY <2>0, <3>2, <3>3 DEF Verified, Honest, Msg
  <2>2. \/ Fail("srv", "CERTIFICATE")
        \/ Passes("srv", cert) /\ Hear("srv", Onward(pass))
    BY <1>5 DEF ParseCertificate
  <2>3. DOMAIN Heard("srv") = ContextFields /\ Alike(Heard("srv"), x)
    BY <1>0, HeardFields
  <2>4. DOMAIN pass = ContextFields /\ pass.st = x.st /\ pass.resume = x.resume
    BY <2>3 DEF ContextFields, Alike
  <2>5. ~x.resume => /\ DOMAIN pass.neg = SessionFields /\ pass.neg.suite = x.neg.suite
                     /\ pass.neg.verify = verdict /\ pass.neg.cert = cert
                     /\ pass.neg.id = x.neg.id
    BY <1>1, <2>3 DEF ContextFields, SessionFields, Alike
  <2>6. Passes("srv", cert) /\ MustVerify => verdict = "good"
    BY DEF Passes, MustVerify
  <2>7. CASE Fail("srv", "CERTIFICATE")
    BY <1>0, <2>7, FailsFrom, AlikeFollows
  <2> HIDE DEF pass, verdict, cert
  <2>8. CASE Passes("srv", cert) /\ Hear("srv", Onward(pass))
    BY <1>3, <2>1, <2>4, <2>5, <2>6, <2>8
  <2> QED BY <2>2, <2>7, <2>8
<1> QED BY <1>4, <1>5

\* ssl_parse_client_key_exchange sets the master secret alone.
LEMMA KeysFollows ==
  ASSUME Verified, ParseClientKeyExchange
  PROVE  Follows(ssl'["srv"])
<1> DEFINE x == Heard("srv")
           z == [x EXCEPT !.neg.master = Master("srv", x, Msg("srv").pms)]
<1>0. /\ Judged(ssl["srv"]) /\ Shapes /\ "srv" \in Ends /\ ssl["srv"].st = "CLIENT_KEY_EXCHANGE"
  BY Peers DEF Verified, ParseClientKeyExchange, At
<1>1. /\ DOMAIN x = ContextFields /\ Judged(x) /\ x.st = "CLIENT_KEY_EXCHANGE"
      /\ Alike(x, ssl["srv"])
  BY <1>0, HeardFields, AlikeJudged DEF Alike
<1>2. Hear("srv", Onward(z))
  BY DEF ParseClientKeyExchange
<1> HIDE DEF x
<1>3. /\ DOMAIN z = ContextFields /\ z.st = x.st /\ z.resume = x.resume
      /\ DOMAIN x.neg = SessionFields => /\ DOMAIN z.neg = SessionFields
                                         /\ z.neg.suite = x.neg.suite
                                         /\ z.neg.verify = x.neg.verify
                                         /\ z.neg.cert = x.neg.cert
                                         /\ z.neg.id = x.neg.id
  BY <1>1 DEF ContextFields, SessionFields
<1> HIDE DEF z
<1>4. Judged(z) /\ z.st \in Calm /\ (~z.resume => z.neg.id = x.neg.id)
  BY <1>1, <1>3 DEF Judged, Judging, Calm
<1>5. Alike(ssl'["srv"], Onward(z))
  BY <1>0, <1>2, <1>3, OnwardFields, StepsTo
<1> QED BY <1>1, <1>3, <1>4, <1>5, OnwardFollows DEF Alike

\* A Finished message ends a full handshake in the order of its states.
LEMMA FinishedFollows ==
  ASSUME Verified, WriteFinished("srv") \/ ParseFinished("srv")
  PROVE  Follows(ssl'["srv"])
<1> DEFINE x == ssl["srv"]
           w == [x EXCEPT !.own = Verify("srv", x), !.out = KeysOf("srv", x)]
           r == [Heard("srv") EXCEPT !.in = KeysOf(Peer("srv"), x), !.peer = Remembered("srv")]
<1>0. /\ Judged(x) /\ Shapes /\ "srv" \in Ends /\ DOMAIN x = ContextFields
      /\ x.st \in {"SERVER_FINISHED", "CLIENT_FINISHED"}
  BY Peers DEF Verified, Shapes, WriteFinished, ParseFinished, At, Finished
<1>1. ASSUME NEW z, DOMAIN z = ContextFields, Alike(z, x), NEW b, NEW m,
             Say("srv", Ended("srv", z, b), m) \/ Hear("srv", Ended("srv", z, b))
      PROVE  Follows(ssl'["srv"])
  <2>1. DOMAIN Ended("srv", z, b) = ContextFields
    BY <1>1, OnwardFields DEF Ended
  <2>2. Alike(ssl'["srv"], Ended("srv", z, b))
    BY <1>0, <1>1, <2>1, StepsTo
  <2>3. CASE z.resume
    <3>1. Ended("srv", z, b).resume = z.resume
      BY <1>1, <2>3 DEF Ended, ContextFields
    <3> QED BY <2>2, <2>3, <3>1 DEF Judged, Drawn, Follows, Alike
  <2>4. CASE ~z.resume
    <3>1. Alike(ssl'["srv"], Onward(z))
      BY <2>2, <2>4 DEF Ended
    <3>2. Judged(z) /\ z.st \in Calm
      BY <1>0, <1>1, AlikeJudged DEF Alike, Calm, Judging
    <3> QED BY <1>1, <3>1, <3>2, OnwardFollows DEF Alike
  <2> QED BY <2>3, <2>4
<1>2. CASE WriteFinished("srv")
  <2>1. DOMAIN w = ContextFields /\ Alike(w, x)
    BY <1>0 DEF ContextFields, Alike
  <2>2. \E m : Say("srv", Ended("srv", w, TRUE), m)
    BY <1>2 DEF WriteFinished
  <2> HIDE DEF w
  <2> QED BY <1>1, <2>1, <2>2
<1>3. CASE ParseFinished("srv")
  <2>1. DOMAIN Heard("srv") = ContextFields /\ Alike(Heard("srv"), x)
    BY <1>0, HeardFields
  <2>2. DOMAIN r = ContextFields /\ Alike(r, x)
    BY <2>1 DEF ContextFields, Alike
  <2>3. Hear("srv", Ended("srv", r, FALSE)) \/ Fail("srv", "FINISHED")
    BY <1>3 DEF ParseFinished
  <2>4. CASE Fail("srv", "FINISHED")
    BY <1>0, <2>4, FailsFrom, AlikeFollows
  <2> HIDE DEF r
  <2> QED BY <1>1, <2>2, <2>3, <2>4
<1> QED BY <1>2, <1>3

\* A context whose handshake is over, or starts again.
LEMMA NewFollows ==
  ASSUME Verified, Wrapup("srv") \/ ReadHandshake("srv")
  PROVE  Follows(ssl'["srv"])
<1> DEFINE x == ssl["srv"]
           done == [Fresh(x) EXCEPT !.sess = x.neg, !.st = "HANDSHAKE_OVER"]
           again == [done EXCEPT !.reneg = "DONE", !.seen = 0]
<1>0. Judged(x) /\ Shapes /\ "srv" \in Ends /\ DOMAIN x = ContextFields
  BY Peers DEF Verified, Shapes
<1>1. /\ Fresh(x).neg = NoSession /\ Fresh(x).st = "HELLO_REQUEST"
      /\ DOMAIN Fresh(x) = ContextFields
  BY <1>0 DEF Fresh, ContextFields
<1>2. /\ "HELLO_REQUEST" \notin Judging \cup Making
      /\ "HANDSHAKE_OVER" \notin Judging \cup Making
  BY DEF Judging, Making
<1>3. CASE Wrapup("srv")
  <2>1. /\ DOMAIN done = ContextFields /\ done.st = "HANDSHAKE_OVER" /\ done.neg = NoSession
        /\ DOMAIN again = ContextFields /\ again.st = "HANDSHAKE_OVER" /\ again.neg = NoSession
    BY <1>1 DEF ContextFields
  <2>2. Move("srv", done) \/ Move("srv", again)
    BY <1>3 DEF Wrapup
  <2> HIDE DEF done, again
  <2>3. ssl'["srv"] \in {done, again}
    BY <1>0, <2>2 DEF Move, Shapes
  <2> QED BY <1>2, <2>1, <2>3, NewShapes DEF Judged, Drawn, Follows
<1>4. CASE ReadHandshake("srv")
  <2>1. /\ Renewed(x).st = "HELLO_REQUEST" /\ Renewed(x).neg = NoSession
    BY <1>1 DEF Renewed, ContextFields
  <2>2. \/ Fail("srv", "UNEXPECTED") \/ Answer("srv", x, "no_renegotiation")
        \/ Hear("srv", Renewed(x)) \/ Move("srv", Renewed(x))
    BY <1>4 DEF ReadHandshake
  <2>3. ssl'["srv"] = Renewed(x) \/ Alike(ssl'["srv"], x)
    BY <1>0, <2>2, FailsFrom, StepsTo DEF Hear, Move, Shapes
  <2> QED BY <1>0, <1>2, <2>1, <2>3, NewShapes, AlikeFollows DEF Judged, Drawn, Follows
<1> QED BY <1>3, <1>4

\* The server's own steps, whatever they are.
LEMMA ServerFollows ==
  ASSUME Verified, \/ Handshake("srv") \/ ReadHandshake("srv") \/ Renegotiate("srv")
                   \/ Close("srv") \/ Write("srv") \/ ReadData("srv")
  PROVE  Follows(ssl'["srv"])
<1> DEFINE x == ssl["srv"]
<1>0. Judged(x) /\ Shapes /\ "srv" \in Ends /\ DOMAIN x = ContextFields /\ "srv" # "cli"
  BY Peers DEF Verified, Shapes
<1>1. CASE Handshake("srv")
  <2>1. CASE ServerStep
    BY <2>1, HelloFollows, ServerHelloFollows, KeysFollows, PlainFollows DEF ServerStep
  <2> QED BY <1>0, <1>1, <2>1, PlainFollows, CertificateFollows, FinishedFollows, NewFollows
          DEF Handshake
<1>2. CASE ReadHandshake("srv")
  BY <1>2, NewFollows
<1>3. CASE Renegotiate("srv") \/ Close("srv") \/ Write("srv")
  <2> DEFINE y == [x EXCEPT !.reneg = "PENDING"]
             z == [x EXCEPT !.err = "CLOSED"]
  <2>1. DOMAIN y = ContextFields /\ Alike(y, x) /\ DOMAIN z = ContextFields /\ Alike(z, x)
    BY <1>0 DEF ContextFields, Alike
  <2>2. \E m : Say("srv", x, m) \/ Say("srv", y, m) \/ Say("srv", z, m)
    BY <1>0, <1>3 DEF Renegotiate, Close, Write
  <2> HIDE DEF y, z
  <2>3. PICK m : Say("srv", x, m) \/ Say("srv", y, m) \/ Say("srv", z, m)
    BY <2>2
  <2>4. Alike(ssl'["srv"], x)
    BY <1>0, <2>1, <2>3, StepsTo DEF Alike
  <2> QED BY <1>0, <2>4, AlikeFollows
<1>4. CASE ReadData("srv")
  <2> DEFINE counts == x.reneg \in {"PENDING", "RENEGOTIATION"}
             y == [x EXCEPT !.seen = IF counts THEN @ + 1 ELSE @]
  <2>1. DOMAIN y = ContextFields /\ Alike(y, x)
    BY <1>0 DEF ContextFields, Alike
  <2>2. Fail("srv", "RENEGOTIATION") \/ Hear("srv", y)
    BY <1>4 DEF ReadData
  <2> HIDE DEF y
  <2>3. Alike(ssl'["srv"], x)
    BY <1>0, <2>1, <2>2, FailsFrom, StepsTo DEF Alike
  <2> QED BY <1>0, <2>3, AlikeFollows
<1> QED BY <1>1, <1>2, <1>3, <1>4

\* A step of either end leaves the records and the context of the other alone, but for
\* what it writes.
LEMMA EndSteps ==
  ASSUME Shapes, NEW s \in Ends,
         \/ Handshake(s) \/ ReadHandshake(s) \/ Renegotiate(s) \/ Close(s)
         \/ Write(s) \/ ReadData(s)
  PROVE  /\ ssl'[Peer(s)] = ssl[Peer(s)] /\ UNCHANGED <<setting, conns>>
         /\ wire'[s] = wire[s] \/ (wire[s] # <<>> /\ wire'[s] = Tail(wire[s]))
         /\ \/ wire'[Peer(s)] = wire[Peer(s)]
            \/ \E r : (s = "cli" => Honest(r.m)) /\ wire'[Peer(s)] = Append(wire[Peer(s)], r)
         /\ Shapes'
<1> DEFINE p == Peer(s)
<1>0. /\ p \in Ends /\ p # s /\ Peer(p) = s /\ (\A t \in Ends : t = s \/ t = p)
      /\ DOMAIN ssl[s] = ContextFields /\ DOMAIN ssl[p] = ContextFields
      /\ IsSequence(wire[s]) /\ IsSequence(wire[p])
  BY Peers DEF Ends, Peer, Shapes
<1>1. UNCHANGED <<setting, conns>>
  BY DEF Handshake, ReadHandshake, Renegotiate, Close, Write, ReadData, envvars, setting
<1>2. /\ ssl'[p] = ssl[p] /\ Shaped(s)
      /\ wire'[s] = wire[s] \/ (wire[s] # <<>> /\ wire'[s] = Tail(wire[s]))
      /\ \/ wire'[p] = wire[p]
         \/ \E r : (s = "cli" => Honest(r.m)) /\ wire'[p] = Append(wire[p], r)
  <2>1. CASE Handshake(s) \/ ReadHandshake(s) \/ Renegotiate(s) \/ Close(s)
    BY <2>1, HandshakeRelays DEF Relay
  <2>2. CASE Write(s)
    <3> DEFINE r == [keys |-> ssl[s].out, m |-> [msg |-> "DATA", n |-> sent[s] + 1]]
    <3>1. r.m.msg = "DATA" /\ "DATA" \notin HandshakeMessages
      BY DEF HandshakeMessages
    <3>2. Honest(r.m)
      BY <3>1 DEF Honest
    <3>3. wire' = [wire EXCEPT ![p] = Append(@, r)] /\ ssl' = [ssl EXCEPT ![s] = ssl[s]]
      BY <2>2, <3>1 DEF Write, Say
    <3> HIDE DEF r, p
    <3> QED BY <1>0, <3>2, <3>3 DEF Shapes, Shaped
  <2>3. CASE ReadData(s)
    <3> DEFINE counts == ssl[s].reneg \in {"PENDING", "RENEGOTIATION"}
               x == [ssl[s] EXCEPT !.seen = IF counts THEN @ + 1 ELSE @]
               z == [ssl[s] EXCEPT !.err = "RENEGOTIATION"]
    <3>1. DOMAIN x = ContextFields /\ DOMAIN z = ContextFields
      BY <1>0
    <3>2. wire[s] # <<>> /\ (Hear(s, z) \/ Hear(s, x))
      BY <2>3 DEF ReadData, Comes, Fail
    <3> HIDE DEF x, z, p
    <3> QED BY <1>0, <3>1, <3>2 DEF Hear, Shapes, Shaped
  <2> QED BY <2>1, <2>2, <2>3
<1>3. Shapes'
  <2> HIDE DEF p
  <2>1. IsSequence(wire'[s])
    BY <1>0, <1>2, Shortened
  <2>2. \A r : IsSequence(Append(wire[p], r))
    BY <1>0, Appended
  <2>3. wire'[p] = wire[p] \/ \E r : wire'[p] = Append(wire[p], r)
    BY <1>2 DEF p
  <2>4. IsSequence(wire'[p])
    BY <1>0, <2>2, <2>3
  <2> QED BY <1>0, <1>2, <2>1, <2>4 DEF Shapes, Shaped
<1> QED BY <1>1, <1>2, <1>3

\* What the server is told of the client's settings stays honest.
LEMMA StaysHonest ==
  ASSUME Verified, NEW s \in Ends,
         \/ Handshake(s) \/ ReadHandshake(s) \/ Renegotiate(s) \/ Close(s)
         \/ Write(s) \/ ReadData(s)
  PROVE  \A i \in 1..Len(wire'["srv"]) : Honest(wire'["srv"][i].m)
<1> DEFINE w == wire["srv"]
           v == wire'["srv"]
<1>0. IsSequence(w) /\ \A i \in 1..Len(w) : Honest(w[i].m)
  BY Peers DEF Verified, Shapes
<1>1. \/ v = w \/ (w # <<>> /\ v = Tail(w))
      \/ \E r : Honest(r.m) /\ v = Append(w, r)
  <2>1. /\ wire'[s] = wire[s] \/ (wire[s] # <<>> /\ wire'[s] = Tail(wire[s]))
        /\ \/ wire'[Peer(s)] = wire[Peer(s)]
           \/ \E r : (s = "cli" => Honest(r.m)) /\ wire'[Peer(s)] = Append(wire[Peer(s)], r)
    BY EndSteps DEF Verified
  <2>2. CASE s = "cli"
    <3>1. wire'["srv"] = w \/ \E r : Honest(r.m) /\ wire'["srv"] = Append(w, r)
      BY <2>1, <2>2, Peers
    <3> QED BY <3>1
  <2>3. CASE s = "srv"
    <3>1. wire'["srv"] = w \/ (w # <<>> /\ wire'["srv"] = Tail(w))
      BY <2>1, <2>3
    <3> QED BY <3>1
  <2> QED BY <2>2, <2>3 DEF Ends
<1> SUFFICES ASSUME NEW i \in 1..Len(v) PROVE Honest(v[i].m)
  OBVIOUS
<1> HIDE DEF w, v
<1>2. CASE v = w
  BY <1>0, <1>2
<1>3. CASE w # <<>> /\ v = Tail(w)
  <2>1. Len(v) = Len(w) - 1 /\ Len(w) \in Nat \ {0} /\ \A j \in 1..Len(v) : v[j] = w[j + 1]
    BY <1>0, <1>3, Shortened
  <2>2. v[i] = w[i + 1] /\ i + 1 \in 1..Len(w)
    BY <2>1
  <2> QED BY <1>0, <2>2
<1>4. ASSUME NEW r, Honest(r.m), v = Append(w, r) PROVE Honest(v[i].m)
  <2>1. /\ Len(v) = Len(w) + 1 /\ Len(w) \in Nat /\ v[Len(w) + 1] = r
        /\ \A j \in 1..Len(w) : v[j] = w[j]
    BY <1>0, <1>4, Appended
  <2>2. i = Len(w) + 1 \/ i \in 1..Len(w)
    BY <2>1
  <2> QED BY <1>0, <1>4, <2>1, <2>2
<1> QED BY <1>1, <1>2, <1>3, <1>4

\* The sessions made are those of the connections so far, and each was judged.
LEMMA MadeVerified ==
  ASSUME Verified, NEW s \in Ends, Wrapup(s), UNCHANGED <<setting, conns>>
  PROVE  /\ \A e \in made' : e.conn \in Nat /\ e.conn <= conns
         /\ \A e \in made' : e.conn = conns /\ MustVerify =>
               e.session.verify = "good" /\ e.session.cert = setting.cert["cli"]
<1> DEFINE x == ssl[s]
           n == [session |-> x.neg, conn |-> conns]
<1>0. /\ conns \in Nat /\ \A e \in made : e.conn \in Nat /\ e.conn <= conns
      /\ \A e \in made : e.conn = conns /\ MustVerify =>
           e.session.verify = "good" /\ e.session.cert = setting.cert["cli"]
  BY DEF Verified, RequiredIsVerified, MustVerify
<1>1. CASE made' = made
  BY <1>0, <1>1
<1>2. CASE made' # made
  <2>1. s = "srv" /\ ~x.resume /\ made' = made \cup {n} /\ x.st = "HANDSHAKE_WRAPUP"
    BY <1>2 DEF Wrapup, At
  <2>2. Judged(x) /\ x.st \in Judging
    BY <2>1 DEF Verified, Judging
  <2>3. MustVerify => n.session.verify = "good" /\ n.session.cert = setting.cert["cli"]
    BY <2>1, <2>2 DEF Judged
  <2>4. n.conn = conns
    OBVIOUS
  <2> HIDE DEF n
  <2> QED BY <1>0, <2>1, <2>3, <2>4
<1> QED BY <1>1, <1>2

\* Every step of an end keeps Verified.
LEMMA EndVerified ==
  ASSUME Verified, NEW s \in Ends,
         \/ Handshake(s) \/ ReadHandshake(s) \/ Renegotiate(s) \/ Close(s)
         \/ Write(s) \/ ReadData(s)
  PROVE  Verified'
<1>0. Shapes /\ s \in {"cli", "srv"}
  BY DEF Verified, Ends
<1>1. Shapes' /\ UNCHANGED <<setting, conns>>
  BY <1>0, EndSteps
<1>2. \A i \in 1..Len(wire'["srv"]) : Honest(wire'["srv"][i].m)
  BY StaysHonest
<1>3. Judged(ssl'["srv"])
  <2>1. CASE s = "srv"
    BY <2>1, ServerFollows DEF Follows
  <2>2. CASE s = "cli"
    BY <1>0, <2>2, EndSteps, Peers DEF Verified
  <2> QED BY <1>0, <2>1, <2>2
<1>4. /\ \A e \in made' : e.conn \in Nat /\ e.conn <= conns
      /\ \A e \in made' : e.conn = conns /\ MustVerify =>
            e.session.verify = "good" /\ e.session.cert = setting.cert["cli"]
  <2>1. CASE Wrapup(s)
    BY <1>1, <2>1, MadeVerified
  <2>2. CASE ~Wrapup(s)
    <3>1. made' = made
      BY <2>2 DEF Handshake, ReadHandshake, Renegotiate, Close, Write, ReadData
    <3> QED BY <3>1 DEF Verified, RequiredIsVerified, MustVerify
  <2> QED BY <2>1, <2>2
<1>5. (\A i \in 1..Len(wire["srv"]) : Honest(wire["srv"][i].m))'
  BY <1>1, <1>2 DEF Honest
<1>6. Judged(ssl["srv"])'
  BY <1>1, <1>3 DEF Judged, MustVerify, ByPsk, Chosen
<1>7. RequiredIsVerified'
  BY <1>1, <1>4 DEF RequiredIsVerified, MustVerify, ByPsk, Chosen
<1>8. (conns \in Nat /\ \A e \in made : e.conn \in Nat /\ e.conn <= conns)'
  BY <1>1, <1>4 DEF Verified
<1> QED BY <1>1, <1>5, <1>6, <1>7, <1>8 DEF Verified

\* A context of the server from which no handshake has begun.
LEMMA UnjudgedYet ==
  ASSUME NEW x, x.st = "HELLO_REQUEST", x.neg = NoSession
  PROVE  Judged(x)
BY NewShapes DEF Judged, Judging

\* A context that is new or was reset has no session.
LEMMA NewContexts ==
  /\ NewContext.st = "HELLO_REQUEST" /\ NewContext.neg = NoSession
  /\ \A x : Reset(x).st = "HELLO_REQUEST" /\ Reset(x).neg = NoSession
BY DEF NewContext, Reset

\* A new connection has no session yet.
LEMMA ConnectVerified ==
  ASSUME Verified, Connect
  PROVE  Verified'
<1>1. /\ wire' = [s \in Ends |-> <<>>] /\ conns' = conns + 1 /\ made' = made
      /\ ssl'["srv"] = Reset(ssl["srv"])
  BY DEF Connect
<1>2. Shapes'
  BY ConnectDelivers DEF Delivered
<1>3. (\A i \in 1..Len(wire["srv"]) : Honest(wire["srv"][i].m))'
  BY <1>1, EmptyDelivers, Peers
<1>4. Judged(ssl["srv"])'
  <2>1. (ssl["srv"].st = "HELLO_REQUEST" /\ ssl["srv"].neg = NoSession)'
    BY <1>1, NewContexts
  <2> QED BY <2>1, NewShapes DEF Judged, Judging
<1>5. (conns \in Nat /\ \A e \in made : e.conn \in Nat /\ e.conn <= conns)'
  BY <1>1 DEF Verified
<1>6. RequiredIsVerified'
  <2>1. \A e \in made : e.conn # conns + 1
    BY DEF Verified
  <2> QED BY <1>1, <2>1 DEF RequiredIsVerified
<1> QED BY <1>2, <1>3, <1>4, <1>5, <1>6 DEF Verified

\* The invariant holds at the start.
LEMMA InitVerified == Init => Verified
<1> SUFFICES ASSUME Init PROVE Verified
  OBVIOUS
<1>1. /\ ssl["srv"] = NewContext /\ wire["srv"] = <<>> /\ conns = 1 /\ made = {} /\ Shapes
  BY InitDelivers, Peers DEF Init, Delivered
<1> QED BY <1>1, UnjudgedYet, NewContexts, EmptyDelivers DEF Verified, RequiredIsVerified

\* Every step keeps the invariant.
LEMMA NextVerified == Verified /\ [Next]_vars => Verified'
<1> SUFFICES ASSUME Verified, [Next]_vars PROVE Verified'
  OBVIOUS
<1>1. ASSUME UNCHANGED <<ssl, wire, plan, conns, made>> PROVE Verified'
  BY <1>1 DEF Verified, Shapes, Judged, MustVerify, ByPsk, Chosen, RequiredIsVerified,
              Honest, setting
<1>2. CASE Tick \/ OtherClient \/ Reboot
  BY <1>1, <1>2 DEF Tick, OtherClient, Reboot, hsvars
<1>3. CASE UNCHANGED vars
  BY <1>1, <1>3 DEF vars
<1> QED BY <1>2, <1>3, EndVerified, ConnectVerified DEF Next

\* Under SSL_VERIFY_REQUIRED no full handshake of the server makes a session unless the
\* client showed its certificate in this connection and it was found good, or the suite
\* is one of a key shared before, for every order of the steps of both ends.
THEOREM RequiredMeansVerified == Spec => []RequiredIsVerified
<1>1. Verified => RequiredIsVerified
  BY DEF Verified
<1> QED BY <1>1, InitVerified, NextVerified, PTL DEF Spec

-----------------------------------------------------------------------------
(* The cache of sessions.                                                   *)

\* A set of numbers that is not empty has a least element.
LEMMA Least ==
  ASSUME NEW T \in SUBSET Nat, T # {}
  PROVE  \E x \in T : \A y \in T : x <= y
<1>1. PICK x \in T : \A y \in T : ~(<<y, x>> \in OpToRel(<, Nat))
  BY NatLessThanWellFounded, WFMin
<1>2. ASSUME NEW y \in T
      PROVE  x <= y
  <2>1. ~(y < x)
    BY <1>1 DEF OpToRel
  <2> QED BY <2>1
<1> QED BY <1>2

\* The first of some positions is one of them.
LEMMA FirstOf ==
  ASSUME NEW T \in SUBSET Nat, T # {}
  PROVE  First(T) \in T
BY Least DEF First

\* The entries of a chain, whose ids go up to d.
Entries(c, d) ==
  /\ IsSequence(c) /\ Len(c) <= MaxEntries
  /\ \A i \in 1..Len(c) :
       c[i].stamp \in Nat /\ c[i].session.id \in Nat /\ c[i].session.id <= d

\* The entry i of the chain may be missing in c.
MayLeave(c, i) ==
  \/ Expired(chain[i])
  \/ \E j \in DOMAIN c : c[j].session = chain[i].session
  \/ /\ Len(chain) = MaxEntries
     /\ \A j \in DOMAIN chain : chain[i].stamp <= chain[j].stamp

\* The entry ssl_cache_set drops is one that none is older than.
LEMMA OldestIsOldest ==
  ASSUME NEW d \in Nat, Entries(chain, d), chain # <<>>
  PROVE  /\ Oldest \in 1..Len(chain) /\ DOMAIN chain = 1..Len(chain)
         /\ \A j \in DOMAIN chain : chain[Oldest].stamp <= chain[j].stamp
<1> DEFINE n == Len(chain)
           T == {chain[i].stamp : i \in 1..n}
           O == {i \in DOMAIN chain : \A j \in DOMAIN chain : chain[i].stamp <= chain[j].stamp}
<1>1. n \in Nat \ {0} /\ DOMAIN chain = 1..n
  BY Appended, Shortened DEF Entries
<1>2. T \in SUBSET Nat /\ T # {}
  <2>1. 1 \in 1..n
    BY <1>1
  <2> QED BY <2>1 DEF Entries
<1>3. PICK t \in T : \A u \in T : t <= u
  BY <1>2, Least
<1>4. O # {} /\ O \in SUBSET Nat
  BY <1>1, <1>3
<1>5. Oldest \in O
  BY <1>4, FirstOf DEF Oldest
<1> QED BY <1>1, <1>5

\* The chain with the entry i replaced.
Put(i, session) == [chain EXCEPT ![i] = [stamp |-> clock, session |-> session]]

\* What replacing an entry leaves.
LEMMA Replaced ==
  ASSUME NEW d \in Nat, Entries(chain, d), NEW i \in 1..Len(chain), clock \in Nat,
         NEW session, session.id \in Nat, session.id <= d
  PROVE  /\ Entries(Put(i, session), d) /\ DOMAIN Put(i, session) = 1..Len(chain)
         /\ Len(Put(i, session)) = Len(chain)
         /\ \A j \in 1..Len(chain) : j # i => Put(i, session)[j] = chain[j]
         /\ \A j \in 1..Len(chain) :
              Put(i, session)[j].session.id \in {chain[j].session.id, session.id}
<1> DEFINE e == [stamp |-> clock, session |-> session]
           c == Put(i, session)
<1>0. c = [chain EXCEPT ![i] = e]
  BY DEF Put
<1> HIDE DEF c
<1>1. PICK S : chain \in Seq(S)
  BY DEF Entries, IsSequence
<1>2. chain \in Seq(S \cup {e})
  BY <1>1, SeqMonotonic
<1>3. DOMAIN chain = 1..Len(chain) /\ Len(chain) \in Nat
  BY <1>1
<1>4. c \in Seq(S \cup {e}) /\ Len(c) = Len(chain)
  BY <1>0, <1>2, ExceptSeq
<1>5. /\ DOMAIN c = 1..Len(chain) /\ c[i] = e
      /\ \A j \in 1..Len(chain) : j # i => c[j] = chain[j]
  BY <1>0, <1>3
<1>6. e.stamp = clock /\ e.session = session
  OBVIOUS
<1> HIDE DEF e
<1> QED BY <1>3, <1>4, <1>5, <1>6 DEF Entries, IsSequence, c

\* What ssl_cache_set does to the chain, with a session whose id is new to it.
LEMMA StoredEntries ==
  ASSUME NEW d \in Nat, Entries(chain, d), clock \in Nat, NEW session,
         session.id \in Nat, session.id <= d,
         \A i \in 1..Len(chain) : chain[i].session.id # session.id
  PROVE  /\ Entries(Stored(session), d)
         /\ \A i \in DOMAIN chain : MayLeave(Stored(session), i)
         /\ \A j \in 1..Len(Stored(session)) :
              \/ Stored(session)[j].session.id = session.id
              \/ \E i \in 1..Len(chain) : Stored(session)[j].session.id = chain[i].session.id
<1> DEFINE n == Len(chain)
           c == Stored(session)
<1>0. n \in Nat /\ DOMAIN chain = 1..n
  BY Appended DEF Entries
<1>1. CASE Slots(session.id) # {}
  <2> DEFINE i == First(Slots(session.id))
  <2>1. i \in Slots(session.id)
    <3>1. Slots(session.id) \in SUBSET Nat
      BY <1>0 DEF Slots
    <3> QED BY <1>1, <3>1, FirstOf
  <2>2. i \in 1..n /\ Expired(chain[i])
    BY <1>0, <2>1 DEF Slots
  <2>3. c = [chain EXCEPT ![i] = [stamp |-> IF Expired(@) THEN clock ELSE @.stamp,
                                  session |-> session]]
    BY <1>1 DEF Stored
  <2> HIDE DEF i, c
  <2>4. c = Put(i, session)
    BY <1>0, <2>2, <2>3 DEF Put
  <2>5. /\ Entries(c, d) /\ DOMAIN c = 1..n /\ Len(c) = n
        /\ \A j \in 1..n : j # i => c[j] = chain[j]
        /\ \A j \in 1..n : c[j].session.id \in {chain[j].session.id, session.id}
    <3>1. i \in 1..Len(chain)
      BY <2>2
    <3> QED BY <2>4, <3>1, Replaced
  <2>6. \A j \in DOMAIN chain : MayLeave(c, j)
    BY <1>0, <2>2, <2>5 DEF MayLeave
  <2> QED BY <2>5, <2>6 DEF c
<1>2. CASE Slots(session.id) = {} /\ n < MaxEntries
  <2> DEFINE e == [stamp |-> clock, session |-> session]
  <2>1. c = Append(chain, e)
    BY <1>2 DEF Stored
  <2>2. e.stamp = clock /\ e.session = session
    OBVIOUS
  <2> HIDE DEF c, e
  <2>3. /\ IsSequence(c) /\ Len(c) = n + 1 /\ c[n + 1] = e
        /\ \A i \in 1..n : c[i] = chain[i]
    BY <2>1, Appended DEF Entries
  <2>4. DOMAIN c = 1..(n + 1)
    BY <2>3, Appended
  <2>5. \A j \in 1..(n + 1) : j \in 1..n \/ j = n + 1
    BY <1>0
  <2>6. Entries(c, d)
    BY <1>0, <1>2, <2>2, <2>3, <2>5, CacheAssumption DEF Entries
  <2>7. \A i \in DOMAIN chain : MayLeave(c, i)
    <3>1. \A i \in 1..n : i \in 1..(n + 1)
      BY <1>0
    <3> QED BY <1>0, <2>3, <2>4, <3>1 DEF MayLeave
  <2> QED BY <2>2, <2>3, <2>5, <2>6, <2>7 DEF c
<1>3. CASE Slots(session.id) = {} /\ ~(n < MaxEntries) /\ chain = <<>>
  BY <1>0, <1>3 DEF Stored, MayLeave
<1>4. CASE Slots(session.id) = {} /\ ~(n < MaxEntries) /\ chain # <<>>
  <2>1. c = Put(Oldest, session)
    BY <1>4 DEF Stored, Put
  <2>2. Oldest \in 1..n /\ \A j \in DOMAIN chain : chain[Oldest].stamp <= chain[j].stamp
    BY <1>4, OldestIsOldest
  <2>3. n = MaxEntries
    <3>1. n <= MaxEntries /\ MaxEntries \in Nat
      BY CacheAssumption DEF Entries
    <3>2. ~(n < MaxEntries)
      BY <1>4
    <3> HIDE DEF n
    <3> QED BY <1>0, <3>1, <3>2
  <2> HIDE DEF c
  <2>4. /\ Entries(c, d) /\ DOMAIN c = 1..n /\ Len(c) = n
        /\ \A j \in 1..n : j # Oldest => c[j] = chain[j]
        /\ \A j \in 1..n : c[j].session.id \in {chain[j].session.id, session.id}
    BY <2>1, <2>2, Replaced
  <2>5. \A j \in DOMAIN chain : MayLeave(c, j)
    BY <1>0, <2>2, <2>3, <2>4 DEF MayLeave
  <2> QED BY <2>4, <2>5 DEF c
<1> QED BY <1>1, <1>2, <1>3, <1>4

\* The id of the session the server is making is in no entry of the cache.
Unstored(x, c, d) ==
  ~x.resume /\ x.st \in Making /\ x.neg.id # 0 =>
    /\ x.neg.id \in Nat /\ x.neg.id <= d
    /\ \A i \in 1..Len(c) : c[i].session.id # x.neg.id

\* The inductive invariant of the cache.
Cached ==
  /\ Verified /\ draws \in Nat /\ clock \in Nat /\ boot \in Nat
  /\ Entries(chain, draws)
  /\ Unstored(ssl["srv"], chain, draws)

\* Ids stay below what was drawn as more are drawn.
LEMMA MoreDraws ==
  ASSUME NEW d \in Nat, NEW e \in Nat, d <= e, NEW c, Entries(c, d)
  PROVE  Entries(c, e)
<1> SUFFICES ASSUME NEW i \in 1..Len(c) PROVE c[i].session.id <= e
  BY DEF Entries
<1>1. c[i].session.id \in Nat /\ c[i].session.id <= d
  BY DEF Entries
<1> QED BY <1>1

\* No step takes back what was drawn.
LEMMA DrawsGrow ==
  ASSUME draws \in Nat, NEW s \in Ends,
         \/ Handshake(s) \/ ReadHandshake(s) \/ Renegotiate(s) \/ Close(s)
         \/ Write(s) \/ ReadData(s)
  PROVE  draws' \in Nat /\ draws <= draws'
<1>1. CASE ReadHandshake(s) \/ Renegotiate(s) \/ Close(s) \/ Write(s) \/ ReadData(s)
  BY <1>1 DEF ReadHandshake, Renegotiate, Close, Write, ReadData
<1>2. CASE Handshake(s)
  <2>1. CASE ClientStep
    <3>1. draws' \in {draws, draws + 1, draws + 2}
      BY <2>1 DEF ClientStep, WriteClientHello, ParseServerHello, ParseServerKeyExchange,
                  ParseCertificateRequest, ParseServerHelloDone, WriteClientKeyExchange,
                  WriteCertificateVerify, ParseNewSessionTicket
    <3> QED BY <3>1
  <2>2. CASE ServerStep
    <3>1. draws' \in {draws, draws + 2}
      BY <2>2 DEF ServerStep, ParseClientHello, WriteServerHello, WriteServerKeyExchange,
                  WriteCertificateRequest, WriteServerHelloDone, ParseClientKeyExchange,
                  ParseCertificateVerify, WriteNewSessionTicket
    <3> QED BY <3>1
  <2>3. CASE ~ClientStep /\ ~ServerStep
    <3>1. draws' = draws
      BY <1>2, <2>3 DEF Handshake, Begin, WriteCertificate, SkipCertificate, ParseCertificate,
                  WriteChangeCipherSpec, ParseChangeCipherSpec, WriteFinished, ParseFinished,
                  FlushBuffers, Unexpected, ReadFails, Wrapup
    <3> QED BY <3>1
  <2> QED BY <2>1, <2>2, <2>3
<1> QED BY <1>1, <1>2

\* What a step does to the server's context does not disturb Unstored, while the chain
\* stays as it is.
LEMMA EndUnstored ==
  ASSUME Cached, NEW s \in Ends, chain' = chain,
         \/ Handshake(s) \/ ReadHandshake(s) \/ Renegotiate(s) \/ Close(s)
         \/ Write(s) \/ ReadData(s)
  PROVE  Unstored(ssl'["srv"], chain, draws')
<1> DEFINE x == ssl["srv"]
           y == ssl'["srv"]
<1>0. Verified /\ draws \in Nat /\ Entries(chain, draws) /\ Unstored(x, chain, draws)
  BY DEF Cached
<1>1. draws' \in Nat /\ draws <= draws'
  BY <1>0, DrawsGrow
<1>2. Alike(y, x) \/ Drawn(x, y)
  <2>1. CASE s = "srv"
    BY <1>0, <2>1, ServerFollows DEF Follows
  <2>2. CASE s = "cli"
    BY <1>0, <2>2, EndSteps, Peers DEF Verified, Alike
  <2> QED BY <2>1, <2>2 DEF Ends
<1> HIDE DEF x, y
<1> SUFFICES ASSUME ~y.resume, y.st \in Making, y.neg.id # 0
             PROVE  /\ y.neg.id \in Nat /\ y.neg.id <= draws'
                    /\ \A i \in 1..Len(chain) : chain[i].session.id # y.neg.id
  BY DEF Unstored, y
<1>3. CASE ~x.resume /\ x.st \in Making /\ y.neg.id = x.neg.id
  BY <1>0, <1>1, <1>3 DEF Unstored
<1>4. CASE y.neg.id = draws + 2 /\ draws' = draws + 2
  <2>1. \A i \in 1..Len(chain) : chain[i].session.id \in Nat /\ chain[i].session.id <= draws
    BY <1>0 DEF Entries
  <2> QED BY <1>0, <1>4, <2>1
<1> QED BY <1>2, <1>3, <1>4 DEF Alike, Drawn

\* The part of OldestLeaves that is about the entries.
Kept == \A i \in DOMAIN chain : boot' # boot \/ MayLeave(chain', i)

\* Where the chain stays, nothing leaves it.
LEMMA SameKept ==
  ASSUME chain' = chain
  PROVE  Kept
BY DEF Kept, MayLeave

\* A step of an end changes the chain only at the end of a full handshake of the server.
LEMMA EndCached ==
  ASSUME Cached, NEW s \in Ends,
         \/ Handshake(s) \/ ReadHandshake(s) \/ Renegotiate(s) \/ Close(s)
         \/ Write(s) \/ ReadData(s)
  PROVE  Cached' /\ Kept
<1> DEFINE x == ssl["srv"]
<1>0. /\ Verified /\ draws \in Nat /\ clock \in Nat /\ Entries(chain, draws)
      /\ Unstored(x, chain, draws) /\ boot \in Nat
  BY DEF Cached
<1>1. Verified' /\ draws' \in Nat /\ draws <= draws' /\ clock' = clock /\ boot' = boot
  <2>1. clock' = clock /\ boot' = boot
    BY DEF Handshake, ReadHandshake, Renegotiate, Close, Write, ReadData, envvars
  <2> QED BY <1>0, <2>1, EndVerified, DrawsGrow
<1>2. CASE chain' = chain
  <2>1. Entries(chain, draws')
    BY <1>0, <1>1, MoreDraws
  <2>2. Unstored(ssl'["srv"], chain, draws')
    BY <1>2, EndUnstored
  <2>3. Cached'
    BY <1>0, <1>1, <1>2, <2>1, <2>2 DEF Cached, Entries, Unstored
  <2> QED BY <1>2, <2>3, SameKept
<1>3. CASE chain' # chain
  <2>1. Wrapup(s)
    BY <1>3 DEF Handshake, ReadHandshake, Renegotiate, Close, Write, ReadData
  <2>2. /\ s = "srv" /\ x.neg.id # 0 /\ ~x.resume /\ x.st = "HANDSHAKE_WRAPUP"
        /\ chain' = Stored(x.neg) /\ draws' = draws
    BY <1>3, <2>1 DEF Wrapup, Wrapped, At
  <2>3. x.st \in Making
    BY <2>2 DEF Making, Judging
  <2>4. /\ x.neg.id \in Nat /\ x.neg.id <= draws
        /\ \A i \in 1..Len(chain) : chain[i].session.id # x.neg.id
    BY <1>0, <2>2, <2>3 DEF Unstored
  <2>5. Entries(chain', draws) /\ \A i \in DOMAIN chain : MayLeave(chain', i)
    BY <1>0, <2>2, <2>4, StoredEntries
  <2>6. ssl'["srv"].st = "HANDSHAKE_OVER"
    <3> DEFINE done == [Fresh(x) EXCEPT !.sess = x.neg, !.st = "HANDSHAKE_OVER"]
               again == [done EXCEPT !.reneg = "DONE", !.seen = 0]
    <3>1. DOMAIN x = ContextFields /\ DOMAIN ssl = Ends /\ "srv" \in Ends
      BY <1>0, Peers DEF Verified, Shapes
    <3>2. DOMAIN Fresh(x) = ContextFields
      BY <3>1, NewShapes
    <3>3. done.st = "HANDSHAKE_OVER" /\ again.st = "HANDSHAKE_OVER"
      BY <3>2 DEF ContextFields
    <3>4. Move("srv", done) \/ Move("srv", again)
      BY <2>1, <2>2 DEF Wrapup
    <3> HIDE DEF done, again
    <3> QED BY <3>1, <3>3, <3>4 DEF Move
  <2>7. "HANDSHAKE_OVER" \notin Making
    BY DEF Making, Judging
  <2>8. Cached'
    BY <1>0, <1>1, <2>2, <2>5, <2>6, <2>7 DEF Cached, Entries, Unstored
  <2> QED BY <2>5, <2>8 DEF Kept
<1> QED BY <1>2, <1>3

\* The session of another client has an id of its own.
LEMMA OtherCached ==
  ASSUME Cached, OtherClient
  PROVE  Cached' /\ Kept
<1> DEFINE n == [NoSession EXCEPT !.id = draws + 1, !.suite = Prefers[1],
                        !.master = <<draws + 1, 0, 0, 0>>, !.start = clock]
           x == ssl["srv"]
<1>0. /\ Verified /\ draws \in Nat /\ clock \in Nat /\ Entries(chain, draws)
      /\ Unstored(x, chain, draws) /\ boot \in Nat
  BY DEF Cached
<1>1. /\ n.id = draws + 1 /\ chain' = Stored(n) /\ draws' = draws + 1 /\ clock' = clock
      /\ ssl' = ssl /\ boot' = boot
  BY DEF OtherClient, NoSession, hsvars
<1>2. Verified'
  BY <1>0, NextVerified DEF Next
<1> HIDE DEF n
<1>3. Entries(chain, draws + 1)
  BY <1>0, MoreDraws
<1>4. \A i \in 1..Len(chain) : chain[i].session.id # n.id
  BY <1>0, <1>1 DEF Entries
<1>5. /\ Entries(chain', draws + 1) /\ \A i \in DOMAIN chain : MayLeave(chain', i)
      /\ \A j \in 1..Len(chain') :
           \/ chain'[j].session.id = n.id
           \/ \E i \in 1..Len(chain) : chain'[j].session.id = chain[i].session.id
  BY <1>0, <1>1, <1>3, <1>4, StoredEntries
<1>6. Unstored(x, chain', draws + 1)
  <2> HIDE DEF x
  <2> SUFFICES ASSUME ~x.resume, x.st \in Making, x.neg.id # 0
               PROVE  /\ x.neg.id \in Nat /\ x.neg.id <= draws + 1
                      /\ \A j \in 1..Len(chain') : chain'[j].session.id # x.neg.id
    BY DEF Unstored
  <2>1. /\ x.neg.id \in Nat /\ x.neg.id <= draws
        /\ \A i \in 1..Len(chain) : chain[i].session.id # x.neg.id
    BY <1>0 DEF Unstored
  <2>2. n.id # x.neg.id /\ x.neg.id <= draws + 1
    BY <1>0, <1>1, <2>1
  <2> QED BY <1>5, <2>1, <2>2
<1>7. Cached'
  BY <1>0, <1>1, <1>2, <1>5, <1>6 DEF Cached, Entries, Unstored
<1> QED BY <1>5, <1>7 DEF Kept

\* A new connection leaves the cache alone.
LEMMA ConnectCached ==
  ASSUME Cached, Connect
  PROVE  Cached' /\ Kept
<1>0. /\ Verified /\ draws \in Nat /\ clock \in Nat /\ Entries(chain, draws)
      /\ chain' = chain /\ clock' = clock /\ boot \in Nat /\ boot' = boot
  BY DEF Cached, Connect
<1>1. Verified'
  BY <1>0, ConnectVerified
<1>2. draws' \in Nat /\ draws <= draws'
  <2>1. conns \in Nat /\ Stride \in Nat
    BY <1>0, HandshakeAssumption DEF Verified
  <2>2. Stride * conns \in Nat
    BY <2>1
  <2>3. draws' = IF draws < Stride * conns THEN Stride * conns ELSE draws
    BY DEF Connect
  <2> DEFINE k == Stride * conns
  <2> HIDE DEF k
  <2>4. k \in Nat /\ draws' = IF draws < k THEN k ELSE draws
    BY <2>2, <2>3 DEF k
  <2> QED BY <1>0, <2>4
<1>3. Entries(chain, draws')
  BY <1>0, <1>2, MoreDraws
<1>4. ssl'["srv"].st = "HELLO_REQUEST"
  BY NewContexts DEF Connect
<1>5. "HELLO_REQUEST" \notin Making
  BY DEF Making, Judging
<1>6. Cached'
  BY <1>0, <1>1, <1>2, <1>3, <1>4, <1>5 DEF Cached, Entries, Unstored
<1> QED BY <1>0, <1>6, SameKept

\* The invariant holds at the start.
LEMMA InitCached == Init => Cached
<1> SUFFICES ASSUME Init PROVE Cached
  OBVIOUS
<1>1. Verified
  BY InitVerified
<1>2. draws = 0 /\ chain = <<>> /\ clock \in Nat /\ boot = 1 /\ ssl["srv"].st = "HELLO_REQUEST"
  BY HandshakeAssumption, NewContexts, Peers DEF Init
<1>3. Entries(<<>>, 0)
  BY EmptyDelivers, CacheAssumption DEF Entries
<1>4. "HELLO_REQUEST" \notin Making
  BY DEF Making, Judging
<1> QED BY <1>1, <1>2, <1>3, <1>4 DEF Cached, Unstored

\* Every step keeps the invariant, and no entry leaves but those that may.
LEMMA NextCached == Cached /\ [Next]_vars => Cached' /\ Kept
<1> SUFFICES ASSUME Cached, [Next]_vars PROVE Cached' /\ Kept
  OBVIOUS
<1>0. /\ Verified /\ draws \in Nat /\ clock \in Nat /\ Entries(chain, draws)
      /\ Unstored(ssl["srv"], chain, draws) /\ Verified' /\ boot \in Nat
  BY NextVerified DEF Cached
<1>1. CASE UNCHANGED vars
  <2>1. Cached'
    BY <1>0, <1>1 DEF Cached, Entries, Unstored, vars
  <2> QED BY <1>1, <2>1, SameKept DEF vars
<1>2. CASE Tick
  <2>1. Cached' /\ chain' = chain
    BY <1>0, <1>2 DEF Cached, Entries, Unstored, Tick, hsvars
  <2> QED BY <2>1, SameKept
<1>3. CASE Reboot
  <2>1. /\ ssl' = ssl /\ chain' = <<>> /\ draws' = draws /\ clock' = clock /\ boot' = boot + 1
        /\ Quiet
    BY <1>3 DEF Reboot, hsvars
  <2>2. Entries(chain', draws')
    BY <2>1, EmptyDelivers, CacheAssumption DEF Entries
  <2>3. Unstored(ssl["srv"], chain, draws)'
    <3>1. ssl["srv"].st = "HELLO_REQUEST" /\ "HELLO_REQUEST" \notin Making
      BY <2>1, Peers DEF Quiet, At, Making, Judging
    <3> QED BY <2>1, <3>1 DEF Unstored
  <2>4. Cached'
    BY <1>0, <2>1, <2>2, <2>3 DEF Cached
  <2>5. Kept
    BY <1>0, <2>1 DEF Kept
  <2> QED BY <2>4, <2>5
<1> QED BY <1>1, <1>2, <1>3, EndCached, OtherCached, ConnectCached DEF Next

\* The cache never holds more than max_entries, and a session leaves it only when it has
\* expired, when the server restarts, or when the cache is full and no entry is older:
\* in particular a session never takes the place of another of the same id, whose age
\* ssl_cache_set would then keep.
THEOREM OldestLeavesCache == Spec => OldestLeaves
<1>1. Cached' /\ Kept =>
        /\ Len(chain') <= MaxEntries
        /\ \A i \in DOMAIN chain :
             boot' # boot \/ Expired(chain[i])
             \/ (\E j \in DOMAIN chain' : chain'[j].session = chain[i].session)
             \/ /\ Len(chain) = MaxEntries
                /\ \A j \in DOMAIN chain : chain[i].stamp <= chain[j].stamp
  BY DEF Cached, Entries, Kept, MayLeave
<1> QED BY <1>1, InitCached, NextCached, PTL DEF Spec, OldestLeaves

-----------------------------------------------------------------------------
(* Both ends come to the same session.                                      *)

\* w holds a message of the kind k; at most one.
Has(w, k) == \E i \in 1..Len(w) : w[i].m.msg = k
Single(w, k) == \A i, j \in 1..Len(w) : w[i].m.msg = k /\ w[j].m.msg = k => i = j

\* Taking the first message from a wire.
LEMMA HasLess ==
  ASSUME NEW w, IsSequence(w), w # <<>>, NEW k
  PROVE  /\ Has(Tail(w), k) => Has(w, k)
         /\ Single(w, k) => Single(Tail(w), k)
         /\ Head(w).m.msg = k => Has(w, k) /\ (Single(w, k) => ~Has(Tail(w), k))
<1> DEFINE v == Tail(w)
<1>1. /\ Len(v) = Len(w) - 1 /\ Len(w) \in Nat \ {0} /\ Head(w) = w[1]
      /\ \A i \in 1..Len(v) : v[i] = w[i + 1]
  BY Shortened
<1> HIDE DEF v
<1>2. \A i \in 1..Len(v) : i + 1 \in 1..Len(w) /\ i + 1 # 1
  BY <1>1
<1>3. 1 \in 1..Len(w)
  BY <1>1
<1>4. Has(v, k) => Has(w, k)
  BY <1>1, <1>2 DEF Has
<1>5. ASSUME Single(w, k) PROVE Single(v, k)
  <2> SUFFICES ASSUME NEW i \in 1..Len(v), NEW j \in 1..Len(v), v[i].m.msg = k, v[j].m.msg = k
               PROVE  i = j
    BY DEF Single
  <2>1. i + 1 = j + 1
    BY <1>1, <1>2, <1>5 DEF Single
  <2> QED BY <2>1
<1>6. Head(w).m.msg = k => Has(w, k)
  BY <1>1, <1>3 DEF Has
<1>7. Head(w).m.msg = k /\ Single(w, k) => ~Has(v, k)
  BY <1>1, <1>2, <1>3 DEF Has, Single
<1> QED BY <1>4, <1>5, <1>6, <1>7 DEF v

\* Adding a message to a wire.
LEMMA HasMore ==
  ASSUME NEW w, IsSequence(w), NEW r, NEW k
  PROVE  /\ Has(Append(w, r), k) <=> Has(w, k) \/ r.m.msg = k
         /\ Single(w, k) /\ (r.m.msg = k => ~Has(w, k)) => Single(Append(w, r), k)
<1> DEFINE v == Append(w, r)
<1>1. /\ Len(v) = Len(w) + 1 /\ Len(w) \in Nat /\ v[Len(w) + 1] = r
      /\ \A i \in 1..Len(w) : v[i] = w[i]
  BY Appended
<1> HIDE DEF v
<1>2. \A i : i \in 1..Len(v) <=> i \in 1..Len(w) \/ i = Len(w) + 1
  BY <1>1
<1>3. Has(v, k) <=> Has(w, k) \/ r.m.msg = k
  BY <1>1, <1>2 DEF Has
<1>4. ASSUME Single(w, k), r.m.msg = k => ~Has(w, k) PROVE Single(v, k)
  BY <1>1, <1>2, <1>4 DEF Has, Single
<1> QED BY <1>3, <1>4 DEF v

\* A token that is in one place at most: a hello on its way, the end that has read it and
\* owes its Finished, or that Finished on its way; and only while the other end waits.
Ring(waits, w, hello, owes, v) ==
  /\ Single(w, hello) /\ Single(v, "FINISHED")
  /\ Has(w, hello) => waits /\ ~owes /\ ~Has(v, "FINISHED")
  /\ owes => waits /\ ~Has(w, hello) /\ ~Has(v, "FINISHED")
  /\ Has(v, "FINISHED") => waits /\ ~owes /\ ~Has(w, hello)

\* A step of the end that sent the hello.
LEMMA RingWaits ==
  ASSUME NEW waits \in BOOLEAN, NEW waited \in BOOLEAN, NEW owes \in BOOLEAN, NEW hello,
         NEW w, NEW w1, NEW v, NEW v1, IsSequence(w), IsSequence(v),
         Ring(waited, w, hello, owes, v),
         \/ v1 = v /\ (waited => waits)
         \/ /\ v # <<>> /\ v1 = Tail(v)
            /\ waited /\ ~waits => Head(v).m.msg = "FINISHED",
         \/ w1 = w
         \/ \E r : w1 = Append(w, r) /\ (r.m.msg = hello => ~waited /\ waits)
  PROVE  Ring(waits, w1, hello, owes, v1)
<1> DEFINE F == "FINISHED"
<1>1. /\ Single(v1, F) /\ (Has(v1, F) => Has(v, F))
      /\ waited /\ ~waits => Has(v, F) /\ ~Has(v1, F)
  BY HasLess DEF Ring
<1>2. CASE w1 = w
  BY <1>1, <1>2 DEF Ring
<1>3. ASSUME NEW r, w1 = Append(w, r), r.m.msg = hello => ~waited /\ waits
      PROVE  Ring(waits, w1, hello, owes, v1)
  <2>1. /\ Has(w1, hello) <=> Has(w, hello) \/ r.m.msg = hello
        /\ Single(w, hello) /\ (r.m.msg = hello => ~Has(w, hello)) => Single(w1, hello)
    BY <1>3, HasMore
  <2>2. Single(w1, hello)
    BY <1>3, <2>1 DEF Ring
  <2>3. CASE r.m.msg = hello
    BY <1>1, <1>3, <2>1, <2>2, <2>3 DEF Ring
  <2>4. CASE r.m.msg # hello
    BY <1>1, <1>3, <2>1, <2>2, <2>4 DEF Ring
  <2> QED BY <2>3, <2>4
<1> QED BY <1>2, <1>3

\* A step of the end that reads the hello.
LEMMA RingOwes ==
  ASSUME NEW waits \in BOOLEAN, NEW owes \in BOOLEAN, NEW owed \in BOOLEAN, NEW hello,
         NEW w, NEW w1, NEW v, NEW v1, IsSequence(w), IsSequence(v),
         Ring(waits, w, hello, owed, v),
         \/ w1 = w /\ (owes => owed)
         \/ /\ w # <<>> /\ w1 = Tail(w)
            /\ owes /\ ~owed => Head(w).m.msg = hello,
         \/ v1 = v
         \/ \E r : v1 = Append(v, r) /\ (r.m.msg = "FINISHED" => owed /\ ~owes)
  PROVE  Ring(waits, w1, hello, owes, v1)
<1> DEFINE F == "FINISHED"
<1>1. /\ Single(w1, hello) /\ (Has(w1, hello) => Has(w, hello))
      /\ owes /\ ~owed => Has(w, hello) /\ ~Has(w1, hello)
  BY HasLess DEF Ring
<1>2. CASE v1 = v
  BY <1>1, <1>2 DEF Ring
<1>3. ASSUME NEW r, v1 = Append(v, r), r.m.msg = F => owed /\ ~owes
      PROVE  Ring(waits, w1, hello, owes, v1)
  <2>1. /\ Has(v1, F) <=> Has(v, F) \/ r.m.msg = F
        /\ Single(v, F) /\ (r.m.msg = F => ~Has(v, F)) => Single(v1, F)
    BY <1>3, HasMore
  <2>2. Single(v1, F)
    BY <1>3, <2>1 DEF Ring
  <2>3. CASE r.m.msg = F
    BY <1>1, <1>3, <2>1, <2>2, <2>3 DEF Ring
  <2>4. CASE r.m.msg # F
    BY <1>1, <1>3, <2>1, <2>2, <2>4 DEF Ring
  <2> QED BY <2>3, <2>4
<1> QED BY <1>2, <1>3

\* The states of a full handshake that one with a resumed session leaves out.
Full == {"SERVER_CERTIFICATE", "SERVER_KEY_EXCHANGE", "CERTIFICATE_REQUEST",
  "SERVER_HELLO_DONE", "CLIENT_CERTIFICATE", "CLIENT_KEY_EXCHANGE", "CERTIFICATE_VERIFY"}
\* From the change of the client's cipher to its Finished, of the server's to its, and what
\* comes after both.
ToClient == {"CLIENT_CHANGE_CIPHER_SPEC", "CLIENT_FINISHED"}
ToServer == {"SERVER_CHANGE_CIPHER_SPEC", "SERVER_FINISHED"}
Ending == {"FLUSH_BUFFERS", "HANDSHAKE_WRAPUP"}

\* From the server's hello to the client's Finished, and from the client's hello to the
\* server's Finished, as a context that is in x counts them.
UntilClient(x) ==
  \/ x.st \in ToClient
  \/ x.resume /\ x.st \in ToServer
  \/ ~x.resume /\ x.st \in Full
UntilServer(x) ==
  \/ x.st \in {"SERVER_HELLO"} \cup ToServer
  \/ ~x.resume /\ x.st \in Full \cup ToClient

\* s waits for the Finished that answers its hello; s owes the one to the hello it read.
Waits(s, x) == IF s = "cli" THEN UntilServer(x) ELSE UntilClient(x)
Owes(s, x) == IF s = "cli" THEN UntilClient(x) ELSE UntilServer(x)
Hello(s) == IF s = "cli" THEN "CLIENT_HELLO" ELSE "SERVER_HELLO"

\* The Finished of the server was taken for another message and is held: the client will
\* find out at the end of the server's hello.
Mistaken(x) == x.held.msg = "FINISHED"

\* The keys k are those of the session n.
Keyed(k, n) == k[2] = n.suite /\ k[3] = n.master

\* What an end knows by itself.
Fit(s, x) ==
  /\ x.resume => x.st \notin Full \cup {"FLUSH_BUFFERS", "HANDSHAKE_OVER"}
  /\ Mistaken(x) => /\ s = "cli" /\ x.st \in {"CERTIFICATE_REQUEST", "SERVER_HELLO_DONE"}
                    /\ x.st = "CERTIFICATE_REQUEST" => Kx[x.neg.suite] \in {"PSK", "RSA_PSK"}
  /\ s = "cli" => DOMAIN x.neg = SessionFields /\ DOMAIN x.sess = SessionFields
  /\ ~UntilClient(x) /\ x.st \in ToServer \cup Ending =>
       Keyed(IF s = "cli" THEN x.out ELSE x.in, x.neg)
  /\ ~UntilServer(x) /\ x.st \in ToClient \cup Ending =>
       Keyed(IF s = "cli" THEN x.in ELSE x.out, x.neg)
  /\ x.st = "HANDSHAKE_OVER" => Keyed(x.in, x.sess) /\ Keyed(x.out, x.sess)

\* The Finished that comes to s is the last its peer wrote; when none is on its way, s reads
\* with the keys and has kept the verify data of the last.
Matches(s) ==
  LET p == Peer(s)
  IN /\ \A i \in 1..Len(wire[s]) : wire[s][i].m.msg = "FINISHED" =>
          wire[s][i].keys = ssl[p].out /\ wire[s][i].m.verify = ssl[p].own
     /\ ssl[s].err = "OK" /\ ~Mistaken(ssl[s]) /\ ~Has(wire[s], "FINISHED") =>
          ssl[s].in = ssl[p].out /\ ssl[s].peer = ssl[p].own

\* The token that goes from s to its peer and back.
RingOf(s) ==
  Ring(Waits(s, ssl[s]), wire[Peer(s)], Hello(s), Owes(Peer(s), ssl[Peer(s)]), wire[s])

\* The inductive invariant of the agreement.
Agreeing ==
  /\ Shapes /\ DOMAIN saved = SessionFields
  /\ \A s \in Ends : Fit(s, ssl[s]) /\ RingOf(s) /\ Matches(s)

\* What the step of s that turns its context from x to y does with the record it reads.
Reading(s, x, y) ==
  \/ /\ wire'[s] = wire[s] /\ (Waits(s, x) => Waits(s, y)) /\ (Owes(s, y) => Owes(s, x))
     /\ y.in = x.in /\ y.peer = x.peer
  \/ /\ wire[s] # <<>> /\ wire'[s] = Tail(wire[s])
     /\ Waits(s, x) /\ ~Waits(s, y) => Msg(s).msg = "FINISHED"
     /\ Owes(s, y) /\ ~Owes(s, x) => Msg(s).msg = Hello(Peer(s))
     /\ Msg(s).msg # "FINISHED" => y.in = x.in /\ y.peer = x.peer
     /\ Msg(s).msg = "FINISHED" => \/ y.in = Head(wire[s]).keys /\ y.peer = Msg(s).verify
                                   \/ y.err # "OK" \/ Mistaken(y) \/ ~Waits(s, x)

\* And with the one it writes.
Writing(s, x, y) ==
  \/ wire'[Peer(s)] = wire[Peer(s)] /\ y.out = x.out /\ y.own = x.own
  \/ \E r : /\ wire'[Peer(s)] = Append(wire[Peer(s)], r) /\ r.keys = y.out
            /\ r.m.msg = Hello(s) => ~Waits(s, x) /\ Waits(s, y)
            /\ r.m.msg # "FINISHED" => y.out = x.out /\ y.own = x.own
            /\ r.m.msg = "FINISHED" => Owes(s, x) /\ ~Owes(s, y) /\ r.m.verify = y.own

\* A step that keeps it.
Turn(s) ==
  /\ ssl'[Peer(s)] = ssl[Peer(s)] /\ ssl[s].err = "OK"
  /\ Reading(s, ssl[s], ssl'[s]) /\ Writing(s, ssl[s], ssl'[s])
  /\ Mistaken(ssl[s]) => Mistaken(ssl'[s]) \/ ssl'[s].err # "OK"
  /\ Fit(s, ssl'[s])

\* Both are truth values.
LEMMA Booleans ==
  ASSUME NEW s, NEW x
  PROVE  Waits(s, x) \in BOOLEAN /\ Owes(s, x) \in BOOLEAN
BY DEF Waits, Owes, UntilClient, UntilServer

\* A turn keeps the invariant.
LEMMA TurnAgrees ==
  ASSUME Agreeing, NEW s \in Ends, Turn(s), Shapes', saved' = saved
  PROVE  Agreeing'
<1> DEFINE p == Peer(s)
           x == ssl[s]
           y == ssl'[s]
           F == "FINISHED"
<1>0. /\ p \in Ends /\ p # s /\ Peer(p) = s /\ Peer(s) = p /\ \A t \in Ends : t = s \/ t = p
      /\ IsSequence(wire[s]) /\ IsSequence(wire[p])
      /\ Fit(p, ssl[p]) /\ RingOf(s) /\ RingOf(p) /\ Matches(s) /\ Matches(p)
  BY Peers DEF Ends, Peer, Agreeing, Shapes
<1>1. /\ ssl'[p] = ssl[p] /\ x.err = "OK" /\ Reading(s, x, y) /\ Writing(s, x, y)
      /\ (Mistaken(x) => Mistaken(y) \/ y.err # "OK") /\ Fit(s, y)
  BY DEF Turn
<1> HIDE DEF p, x, y
<1>2. /\ Ring(Waits(s, x), wire[p], Hello(s), Owes(p, ssl[p]), wire[s])
      /\ Ring(Waits(p, ssl[p]), wire[s], Hello(p), Owes(s, x), wire[p])
  BY <1>0 DEF RingOf, x
<1>3. /\ Waits(s, x) \in BOOLEAN /\ Waits(s, y) \in BOOLEAN /\ Owes(s, x) \in BOOLEAN
      /\ Owes(s, y) \in BOOLEAN /\ Waits(p, ssl[p]) \in BOOLEAN /\ Owes(p, ssl[p]) \in BOOLEAN
  BY Booleans
<1>4. /\ \/ wire'[s] = wire[s] /\ (Waits(s, x) => Waits(s, y)) /\ (Owes(s, y) => Owes(s, x))
         \/ /\ wire[s] # <<>> /\ wire'[s] = Tail(wire[s])
            /\ Waits(s, x) /\ ~Waits(s, y) => Head(wire[s]).m.msg = F
            /\ Owes(s, y) /\ ~Owes(s, x) => Head(wire[s]).m.msg = Hello(p)
      /\ \/ wire'[p] = wire[p]
         \/ \E r : /\ wire'[p] = Append(wire[p], r)
                   /\ r.m.msg = Hello(s) => ~Waits(s, x) /\ Waits(s, y)
                   /\ r.m.msg = F => Owes(s, x) /\ ~Owes(s, y)
  BY <1>0, <1>1 DEF Reading, Writing, Msg
<1>5. Ring(Waits(s, y), wire'[p], Hello(s), Owes(p, ssl[p]), wire'[s])
  <2> DEFINE a == Waits(s, y)
             b == Waits(s, x)
             c == Owes(p, ssl[p])
             h == Hello(s)
             w == wire[p]
             v == wire[s]
             w1 == wire'[p]
             v1 == wire'[s]
  <2>1. /\ \/ v1 = v /\ (b => a)
           \/ v # <<>> /\ v1 = Tail(v) /\ (b /\ ~a => Head(v).m.msg = F)
        /\ w1 = w \/ \E r : w1 = Append(w, r) /\ (r.m.msg = h => ~b /\ a)
    BY <1>4
  <2>2. /\ a \in BOOLEAN /\ b \in BOOLEAN /\ c \in BOOLEAN /\ IsSequence(w) /\ IsSequence(v)
        /\ Ring(b, w, h, c, v)
    BY <1>0, <1>2, <1>3
  <2> HIDE DEF a, b, c, h, w, v, w1, v1
  <2>3. Ring(a, w1, h, c, v1)
    BY <2>1, <2>2, RingWaits
  <2> QED BY <2>3 DEF a, c, h, w1, v1
<1>6. Ring(Waits(p, ssl[p]), wire'[s], Hello(p), Owes(s, y), wire'[p])
  <2> DEFINE a == Waits(p, ssl[p])
             b == Owes(s, x)
             c == Owes(s, y)
             h == Hello(p)
             w == wire[s]
             v == wire[p]
             w1 == wire'[s]
             v1 == wire'[p]
  <2>1. /\ \/ w1 = w /\ (c => b)
           \/ w # <<>> /\ w1 = Tail(w) /\ (c /\ ~b => Head(w).m.msg = h)
        /\ v1 = v \/ \E r : v1 = Append(v, r) /\ (r.m.msg = F => b /\ ~c)
    BY <1>4
  <2>2. /\ a \in BOOLEAN /\ b \in BOOLEAN /\ c \in BOOLEAN /\ IsSequence(w) /\ IsSequence(v)
        /\ Ring(a, w, h, b, v)
    BY <1>0, <1>2, <1>3
  <2> HIDE DEF a, b, c, h, w, v, w1, v1
  <2>3. Ring(a, w1, h, c, v1)
    BY <2>1, <2>2, RingOwes
  <2> QED BY <2>3 DEF a, c, h, w1, v1
<1>7. /\ \A i \in 1..Len(wire[s]) : wire[s][i].m.msg = F =>
           wire[s][i].keys = ssl[p].out /\ wire[s][i].m.verify = ssl[p].own
      /\ ~Mistaken(x) /\ ~Has(wire[s], F) => x.in = ssl[p].out /\ x.peer = ssl[p].own
      /\ \A i \in 1..Len(wire[p]) : wire[p][i].m.msg = F =>
           wire[p][i].keys = x.out /\ wire[p][i].m.verify = x.own
      /\ ssl[p].err = "OK" /\ ~Mistaken(ssl[p]) /\ ~Has(wire[p], F) =>
           ssl[p].in = x.out /\ ssl[p].peer = x.own
  BY <1>0, <1>1 DEF Matches, x
<1>8. /\ \A i \in 1..Len(wire'[s]) : wire'[s][i].m.msg = F =>
           wire'[s][i].keys = ssl[p].out /\ wire'[s][i].m.verify = ssl[p].own
      /\ y.err = "OK" /\ ~Mistaken(y) /\ ~Has(wire'[s], F) =>
           y.in = ssl[p].out /\ y.peer = ssl[p].own
  <2>1. CASE wire'[s] = wire[s] /\ y.in = x.in /\ y.peer = x.peer
    BY <1>1, <1>7, <2>1
  <2>2. CASE /\ wire[s] # <<>> /\ wire'[s] = Tail(wire[s])
             /\ Msg(s).msg # F => y.in = x.in /\ y.peer = x.peer
             /\ Msg(s).msg = F => \/ y.in = Head(wire[s]).keys /\ y.peer = Msg(s).verify
                                  \/ y.err # "OK" \/ Mistaken(y) \/ ~Waits(s, x)
    <3> DEFINE w == wire[s]
               v == wire'[s]
    <3>1. /\ Len(v) = Len(w) - 1 /\ Len(w) \in Nat \ {0} /\ Head(w) = w[1]
          /\ \A i \in 1..Len(v) : v[i] = w[i + 1]
      BY <1>0, <2>2, Shortened
    <3>2. Has(w, F) => Waits(s, x)
      BY <1>2 DEF Ring
    <3>3. /\ Msg(s).msg = F => Has(w, F)
          /\ Msg(s).msg # F /\ ~Has(v, F) => ~Has(w, F)
      <4>1. Msg(s).msg = F => Has(w, F)
        BY <1>0, <2>2, HasLess DEF Msg
      <4>2. ASSUME Msg(s).msg # F, Has(w, F) PROVE Has(v, F)
        <5>1. PICK i \in 1..Len(w) : w[i].m.msg = F
          BY <4>2 DEF Has
        <5>2. i # 1
          BY <3>1, <4>2, <5>1 DEF Msg
        <5>3. i - 1 \in 1..Len(v) /\ (i - 1) + 1 = i
          BY <3>1, <5>2
        <5>4. v[i - 1] = w[i]
          BY <3>1, <5>3
        <5> QED BY <5>1, <5>3, <5>4 DEF Has
      <4> QED BY <4>1, <4>2
    <3>4. \A i \in 1..Len(v) : v[i].m.msg = F =>
            v[i].keys = ssl[p].out /\ v[i].m.verify = ssl[p].own
      <4>1. \A i \in 1..Len(v) : i + 1 \in 1..Len(w)
        BY <3>1
      <4> QED BY <1>7, <3>1, <4>1
    <3>5. Msg(s).msg = F => Head(w).keys = ssl[p].out /\ Msg(s).verify = ssl[p].own
      <4>1. 1 \in 1..Len(w)
        BY <3>1
      <4> QED BY <1>7, <3>1, <4>1 DEF Msg
    <3> QED BY <1>1, <1>7, <2>2, <3>2, <3>3, <3>4, <3>5
  <2> QED BY <1>1, <2>1, <2>2 DEF Reading
<1>9. /\ \A i \in 1..Len(wire'[p]) : wire'[p][i].m.msg = F =>
           wire'[p][i].keys = y.out /\ wire'[p][i].m.verify = y.own
      /\ ssl[p].err = "OK" /\ ~Mistaken(ssl[p]) /\ ~Has(wire'[p], F) =>
           ssl[p].in = y.out /\ ssl[p].peer = y.own
  <2>1. CASE wire'[p] = wire[p] /\ y.out = x.out /\ y.own = x.own
    BY <1>7, <2>1
  <2>2. ASSUME NEW r, wire'[p] = Append(wire[p], r),
               r.m.msg # F => y.out = x.out /\ y.own = x.own,
               r.m.msg = F => Owes(s, x) /\ r.keys = y.out /\ r.m.verify = y.own
        PROVE  <1>9!:
    <3> DEFINE w == wire[p]
               v == wire'[p]
    <3>1. /\ Len(v) = Len(w) + 1 /\ Len(w) \in Nat /\ v[Len(w) + 1] = r
          /\ \A i \in 1..Len(w) : v[i] = w[i]
      BY <1>0, <2>2, Appended
    <3>2. \A i \in 1..Len(v) : i \in 1..Len(w) \/ i = Len(w) + 1
      BY <3>1
    <3>3. Has(v, F) <=> Has(w, F) \/ r.m.msg = F
      BY <1>0, <2>2, HasMore
    <3>4. CASE r.m.msg = F
      <4>1. ~Has(w, F)
        BY <1>2, <2>2, <3>4 DEF Ring
      <4>2. \A i \in 1..Len(w) : w[i].m.msg # F
        BY <4>1 DEF Has
      <4> QED BY <2>2, <3>1, <3>2, <3>3, <3>4, <4>2
    <3>5. CASE r.m.msg # F
      BY <1>7, <2>2, <3>1, <3>2, <3>3, <3>5
    <3> QED BY <3>4, <3>5
  <2> QED BY <1>0, <1>1, <2>1, <2>2 DEF Writing
<1>10. Fit(s, y) /\ Fit(p, ssl[p]) /\ ssl'[s] = y /\ ssl'[p] = ssl[p]
  BY <1>0, <1>1 DEF y
<1>11. (Fit(s, ssl[s]) /\ RingOf(s) /\ Matches(s))'
  BY <1>0, <1>5, <1>8, <1>10 DEF RingOf, Matches
<1>12. (Fit(p, ssl[p]) /\ RingOf(p) /\ Matches(p))'
  BY <1>0, <1>6, <1>9, <1>10 DEF RingOf, Matches
<1> QED BY <1>0, <1>11, <1>12 DEF Agreeing

\* Contexts with the same keys and verify data; and those that agree in all that counts here.
SameKeys(y, x) == y.in = x.in /\ y.out = x.out /\ y.own = x.own /\ y.peer = x.peer
Twin(y, x) ==
  /\ y.st = x.st /\ y.resume = x.resume /\ y.held = x.held /\ y.sess = x.sess
  /\ y.neg.suite = x.neg.suite /\ y.neg.master = x.neg.master /\ SameKeys(y, x)

\* The client's sessions are whole.
Whole(s, x) == s = "cli" => DOMAIN x.neg = SessionFields /\ DOMAIN x.sess = SessionFields

\* A step from x to y leaves what s waits for and owes.
Holds(s, x, y) == Waits(s, y) = Waits(s, x) /\ Owes(s, y) = Owes(s, x)

\* A context that stays a twin fits as well.
LEMMA TwinFits ==
  ASSUME NEW s \in Ends, NEW x, NEW y, Fit(s, x), Twin(y, x), Whole(s, y)
  PROVE  Fit(s, y) /\ Holds(s, x, y) /\ Mistaken(y) = Mistaken(x)
<1>1. /\ UntilClient(y) = UntilClient(x) /\ UntilServer(y) = UntilServer(x)
      /\ Mistaken(y) = Mistaken(x) /\ Keyed(y.in, y.neg) = Keyed(x.in, x.neg)
      /\ Keyed(y.out, y.neg) = Keyed(x.out, x.neg)
      /\ Keyed(y.in, y.sess) = Keyed(x.in, x.sess)
      /\ Keyed(y.out, y.sess) = Keyed(x.out, x.sess)
      /\ y.st = x.st /\ y.resume = x.resume /\ y.neg.suite = x.neg.suite
  BY DEF Twin, SameKeys, UntilClient, UntilServer, Mistaken, Keyed
<1>2. Fit(s, y)
  <2>1. s = "cli" => DOMAIN y.neg = SessionFields /\ DOMAIN y.sess = SessionFields
    BY DEF Whole
  <2> QED BY <1>1, <2>1 DEF Fit
<1> QED BY <1>1, <1>2 DEF Holds, Waits, Owes

\* So does the next context of a full handshake, and the first of any.
LEMMA FullFits ==
  ASSUME NEW s \in Ends, NEW x, NEW y, Fit(s, x), x.st \in Full \cup {"HELLO_REQUEST"},
         y.st = After(x.st), y.resume = x.resume, Whole(s, y),
         Mistaken(y) => /\ s = "cli" /\ y.st \in {"CERTIFICATE_REQUEST", "SERVER_HELLO_DONE"}
                        /\ y.st = "CERTIFICATE_REQUEST" => Kx[y.neg.suite] \in {"PSK", "RSA_PSK"}
  PROVE  Fit(s, y) /\ Holds(s, x, y)
<1>1. CASE x.st = "HELLO_REQUEST"
  <2>1. y.st = "CLIENT_HELLO"
    BY <1>1, NextState
  <2> QED BY <1>1, <2>1 DEF Fit, Whole, Holds, Waits, Owes, UntilClient, UntilServer, Full,
                            ToClient, ToServer, Ending
<1>2. CASE x.st \in Full
  <2>1. ~x.resume /\ ~y.resume
    BY <1>2 DEF Fit
  <2>2. y.st \in (Full \ {"SERVER_CERTIFICATE"}) \cup {"CLIENT_CHANGE_CIPHER_SPEC"}
    BY <1>2, NextState DEF Full
  <2>3. UntilClient(x) /\ UntilClient(y) /\ UntilServer(x) /\ UntilServer(y)
    BY <1>2, <2>1, <2>2 DEF UntilClient, UntilServer, ToClient
  <2>4. y.st \notin {"HANDSHAKE_OVER"}
    BY <2>2 DEF Full
  <2>5. Fit(s, y)
    BY <2>1, <2>3, <2>4 DEF Fit, Whole
  <2> QED BY <2>3, <2>5 DEF Holds, Waits, Owes
<1> QED BY <1>1, <1>2

\* So does the next one around the changes of the cipher.
LEMMA LateFits ==
  ASSUME NEW s \in Ends, NEW x, NEW y, NEW st, Fit(s, x),
         x.st \in {"CLIENT_CHANGE_CIPHER_SPEC", "SERVER_CHANGE_CIPHER_SPEC", "FLUSH_BUFFERS"},
         st = After(x.st), Twin(y, [x EXCEPT !.st = st]), DOMAIN x = ContextFields,
         Whole(s, y)
  PROVE  Fit(s, y) /\ Holds(s, x, y) /\ ~Mistaken(x)
<1>1. /\ y.st = st /\ y.resume = x.resume /\ y.held = x.held
      /\ y.neg.suite = x.neg.suite /\ y.neg.master = x.neg.master
      /\ y.in = x.in /\ y.out = x.out
  BY DEF Twin, SameKeys, ContextFields
<1>2. ~Mistaken(x) /\ ~Mistaken(y)
  BY <1>1 DEF Fit, Mistaken
<1>3. /\ Keyed(y.in, y.neg) = Keyed(x.in, x.neg) /\ Keyed(y.out, y.neg) = Keyed(x.out, x.neg)
  BY <1>1 DEF Keyed
<1>4. /\ UntilClient(y) = UntilClient(x) /\ UntilServer(y) = UntilServer(x)
      /\ y.resume => y.st \notin Full \cup {"FLUSH_BUFFERS", "HANDSHAKE_OVER"}
      /\ y.st \in ToServer \cup Ending => x.st \in ToServer \cup Ending
      /\ y.st \in ToClient \cup Ending => x.st \in ToClient \cup Ending
      /\ y.st # "HANDSHAKE_OVER"
  <2>1. CASE x.st = "CLIENT_CHANGE_CIPHER_SPEC"
    <3>1. y.st = "CLIENT_FINISHED"
      BY <1>1, <2>1, NextState
    <3> QED BY <1>1, <2>1, <3>1 DEF UntilClient, UntilServer, Full, ToClient, ToServer, Ending
  <2>2. CASE x.st = "SERVER_CHANGE_CIPHER_SPEC"
    <3>1. y.st = "SERVER_FINISHED"
      BY <1>1, <2>2, NextState
    <3> QED BY <1>1, <2>2, <3>1 DEF UntilClient, UntilServer, Full, ToClient, ToServer, Ending
  <2>3. CASE x.st = "FLUSH_BUFFERS"
    <3>1. y.st = "HANDSHAKE_WRAPUP"
      BY <1>1, <2>3, NextState
    <3>2. ~x.resume
      BY <2>3 DEF Fit
    <3> QED BY <1>1, <2>3, <3>1, <3>2
         DEF UntilClient, UntilServer, Full, ToClient, ToServer, Ending
  <2> QED BY <2>1, <2>2, <2>3
<1>5. Fit(s, y)
  BY <1>2, <1>3, <1>4 DEF Fit, Whole
<1> QED BY <1>2, <1>4, <1>5 DEF Holds, Waits, Owes

\* The four ways an end steps.
LEMMA Stepping ==
  ASSUME Shapes, NEW s \in Ends, NEW x, DOMAIN x = ContextFields
  PROVE  /\ \A m : Say(s, x, m) =>
              /\ Twin(ssl'[s], x) /\ ssl'[s].err = x.err /\ ssl'[s].neg = x.neg
              /\ wire'[s] = wire[s]
              /\ wire'[Peer(s)] = Append(wire[Peer(s)], [keys |-> x.out, m |-> m])
         /\ Move(s, x) => ssl'[s] = x /\ wire' = wire
         /\ Hear(s, x) => /\ ssl'[s] = x /\ wire'[s] = Tail(wire[s])
                          /\ wire'[Peer(s)] = wire[Peer(s)]
         /\ \A a : Answer(s, x, a) =>
              /\ ssl'[s] = x /\ wire'[s] = Tail(wire[s])
              /\ wire'[Peer(s)] = Append(wire[Peer(s)], [keys |-> ssl[s].out, m |-> [msg |-> a]])
<1>0. /\ Peer(s) \in Ends /\ Peer(s) # s /\ DOMAIN ssl = Ends /\ DOMAIN wire = Ends
  BY Peers DEF Shapes
<1>1. ASSUME NEW m, Say(s, x, m)
      PROVE  /\ Twin(ssl'[s], x) /\ ssl'[s].err = x.err /\ ssl'[s].neg = x.neg
             /\ wire'[s] = wire[s]
             /\ wire'[Peer(s)] = Append(wire[Peer(s)], [keys |-> x.out, m |-> m])
  <2> DEFINE y == [x EXCEPT !.log = Append(@, Hashed(m))]
  <2>1. Twin(y, x) /\ y.err = x.err /\ y.neg = x.neg
    BY DEF Twin, SameKeys, ContextFields
  <2>2. Twin(x, x)
    BY DEF Twin, SameKeys
  <2>3. ssl'[s] = x \/ ssl'[s] = y
    BY <1>0, <1>1 DEF Say
  <2>4. /\ wire'[s] = wire[s]
        /\ wire'[Peer(s)] = Append(wire[Peer(s)], [keys |-> x.out, m |-> m])
    BY <1>0, <1>1 DEF Say
  <2> HIDE DEF y
  <2> QED BY <2>1, <2>2, <2>3, <2>4
<1>2. Move(s, x) => ssl'[s] = x /\ wire' = wire
  BY <1>0 DEF Move
<1>3. Hear(s, x) => /\ ssl'[s] = x /\ wire'[s] = Tail(wire[s])
                    /\ wire'[Peer(s)] = wire[Peer(s)]
  BY <1>0 DEF Hear
<1>4. ASSUME NEW a, Answer(s, x, a)
      PROVE  /\ ssl'[s] = x /\ wire'[s] = Tail(wire[s])
             /\ wire'[Peer(s)] = Append(wire[Peer(s)], [keys |-> ssl[s].out, m |-> [msg |-> a]])
  BY <1>0, <1>4 DEF Answer
<1> QED BY <1>1, <1>2, <1>3, <1>4

\* A step that writes: s owes what it owed or has paid with its Finished, and waits if it
\* did, or begins to with its hello.
LEMMA SayTurns ==
  ASSUME Agreeing, NEW s \in Ends, ssl[s].err = "OK", NEW y, DOMAIN y = ContextFields,
         NEW m, Say(s, y, m), ssl'[Peer(s)] = ssl[Peer(s)],
         Fit(s, y), Mistaken(ssl[s]) => Mistaken(y),
         Waits(s, ssl[s]) => Waits(s, y), Owes(s, y) => Owes(s, ssl[s]),
         y.in = ssl[s].in, y.peer = ssl[s].peer,
         m.msg = Hello(s) => ~Waits(s, ssl[s]) /\ Waits(s, y),
         m.msg # "FINISHED" => y.out = ssl[s].out /\ y.own = ssl[s].own,
         m.msg = "FINISHED" => Owes(s, ssl[s]) /\ ~Owes(s, y) /\ m.verify = y.own
  PROVE  Turn(s)
<1> DEFINE x == ssl[s]
           z == ssl'[s]
           r == [keys |-> y.out, m |-> m]
<1>1. /\ Twin(z, y) /\ z.err = y.err /\ z.neg = y.neg /\ wire'[s] = wire[s]
      /\ wire'[Peer(s)] = Append(wire[Peer(s)], r)
  BY Stepping DEF Agreeing
<1>2. Whole(s, z)
  BY <1>1 DEF Whole, Twin, Fit
<1>3. Fit(s, z) /\ Holds(s, y, z) /\ Mistaken(z) = Mistaken(y)
  BY <1>1, <1>2, TwinFits
<1>4. z.in = x.in /\ z.peer = x.peer /\ z.out = y.out /\ z.own = y.own
  BY <1>1 DEF Twin, SameKeys
<1>5. r.keys = y.out /\ r.m = m
  OBVIOUS
<1>6. /\ x.err = "OK" /\ (Mistaken(x) => Mistaken(y)) /\ (Waits(s, x) => Waits(s, y))
      /\ (Owes(s, y) => Owes(s, x)) /\ (m.msg = Hello(s) => ~Waits(s, x) /\ Waits(s, y))
      /\ (m.msg # "FINISHED" => y.out = x.out /\ y.own = x.own)
      /\ (m.msg = "FINISHED" => Owes(s, x) /\ ~Owes(s, y) /\ m.verify = y.own)
  OBVIOUS
<1> HIDE DEF x, z, r
<1>7. Reading(s, x, z)
  BY <1>1, <1>3, <1>4, <1>6 DEF Reading, Holds
<1>8. Writing(s, x, z)
  BY <1>1, <1>3, <1>4, <1>5, <1>6 DEF Writing, Holds
<1> QED BY <1>3, <1>6, <1>7, <1>8 DEF Turn, x, z

\* A step that writes nothing: s owes what it owed, or begins to with the hello it reads;
\* it waits if it did, or has read the Finished.
LEMMA ReadTurns ==
  ASSUME Agreeing, NEW s \in Ends, ssl[s].err = "OK", NEW y, DOMAIN y = ContextFields,
         ssl'[Peer(s)] = ssl[Peer(s)], Fit(s, y), Mistaken(ssl[s]) => Mistaken(y) \/ y.err # "OK",
         y.out = ssl[s].out, y.own = ssl[s].own,
         \/ /\ Move(s, y) /\ (Waits(s, ssl[s]) => Waits(s, y))
            /\ Owes(s, y) => Owes(s, ssl[s])
            /\ y.in = ssl[s].in /\ y.peer = ssl[s].peer
         \/ /\ Hear(s, y) \/ (\E a \in {"fatal", "no_renegotiation"} : Answer(s, y, a))
            /\ wire[s] # <<>>
            /\ Waits(s, ssl[s]) /\ ~Waits(s, y) => Msg(s).msg = "FINISHED"
            /\ Owes(s, y) /\ ~Owes(s, ssl[s]) => Msg(s).msg = Hello(Peer(s))
            /\ Msg(s).msg # "FINISHED" => y.in = ssl[s].in /\ y.peer = ssl[s].peer
            /\ Msg(s).msg = "FINISHED" => \/ y.in = Head(wire[s]).keys /\ y.peer = Msg(s).verify
                                          \/ y.err # "OK" \/ Mistaken(y) \/ ~Waits(s, ssl[s])
  PROVE  Turn(s)
<1>0. Shapes /\ Peer(s) \in Ends /\ Hello(s) \in {"CLIENT_HELLO", "SERVER_HELLO"}
  BY Peers DEF Agreeing, Hello
<1>1. CASE Move(s, y) /\ (Waits(s, ssl[s]) => Waits(s, y)) /\ (Owes(s, y) => Owes(s, ssl[s]))
           /\ y.in = ssl[s].in /\ y.peer = ssl[s].peer
  <2>1. ssl'[s] = y /\ wire' = wire
    BY <1>0, <1>1, Stepping
  <2> QED BY <1>1, <2>1 DEF Turn, Reading, Writing
<1>2. CASE /\ Hear(s, y) \/ (\E a \in {"fatal", "no_renegotiation"} : Answer(s, y, a))
           /\ wire[s] # <<>>
           /\ Waits(s, ssl[s]) /\ ~Waits(s, y) => Msg(s).msg = "FINISHED"
           /\ Owes(s, y) /\ ~Owes(s, ssl[s]) => Msg(s).msg = Hello(Peer(s))
           /\ Msg(s).msg # "FINISHED" => y.in = ssl[s].in /\ y.peer = ssl[s].peer
           /\ Msg(s).msg = "FINISHED" => \/ y.in = Head(wire[s]).keys /\ y.peer = Msg(s).verify
                                         \/ y.err # "OK" \/ Mistaken(y) \/ ~Waits(s, ssl[s])
  <2>1. ssl'[s] = y /\ wire'[s] = Tail(wire[s])
    BY <1>0, <1>2, Stepping
  <2>2. Reading(s, ssl[s], y)
    BY <1>2, <2>1 DEF Reading
  <2>3. Writing(s, ssl[s], y)
    <3>1. CASE Hear(s, y)
      BY <1>0, <3>1, Stepping DEF Writing
    <3>2. ASSUME NEW a \in {"fatal", "no_renegotiation"}, Answer(s, y, a)
          PROVE  Writing(s, ssl[s], y)
      <4> DEFINE r == [keys |-> ssl[s].out, m |-> [msg |-> a]]
      <4>1. wire'[Peer(s)] = Append(wire[Peer(s)], r) /\ r.m.msg = a /\ r.keys = ssl[s].out
        BY <1>0, <3>2, Stepping
      <4> HIDE DEF r
      <4> QED BY <1>0, <4>1 DEF Writing
    <3> QED BY <1>2, <3>1, <3>2
  <2> QED BY <2>1, <2>2, <2>3 DEF Turn
<1> QED BY <1>1, <1>2

\* What a step within a handshake reads or writes when it is neither a hello nor the
\* Finished that is waited for.
Plain(s, y) ==
  \/ \E m : m.msg \notin {"FINISHED", Hello(s)} /\ Say(s, y, m)
  \/ Move(s, y)
  \/ /\ Hear(s, y) \/ (\E a \in {"fatal", "no_renegotiation"} : Answer(s, y, a))
     /\ wire[s] # <<>>
     /\ Msg(s).msg = "FINISHED" => y.err # "OK" \/ Mistaken(y) \/ ~Waits(s, ssl[s])

\* Such a step leaves what is owed and waited for.
LEMMA PlainTurns ==
  ASSUME Agreeing, NEW s \in Ends, ssl[s].err = "OK", NEW y, DOMAIN y = ContextFields,
         Plain(s, y), ssl'[Peer(s)] = ssl[Peer(s)], Fit(s, y), Mistaken(ssl[s]) => Mistaken(y),
         Holds(s, ssl[s], y), SameKeys(y, ssl[s])
  PROVE  Turn(s)
<1>1. /\ Waits(s, y) = Waits(s, ssl[s]) /\ Owes(s, y) = Owes(s, ssl[s])
      /\ y.in = ssl[s].in /\ y.peer = ssl[s].peer /\ y.out = ssl[s].out /\ y.own = ssl[s].own
  BY DEF Holds, SameKeys
<1>2. ASSUME NEW m, m.msg \notin {"FINISHED", Hello(s)}, Say(s, y, m) PROVE Turn(s)
  BY <1>1, <1>2, SayTurns
<1>3. ASSUME ~\E m : m.msg \notin {"FINISHED", Hello(s)} /\ Say(s, y, m) PROVE Turn(s)
  BY <1>1, <1>3, ReadTurns DEF Plain
<1> QED BY <1>2, <1>3

\* The same where the context stays alike.
LEMMA TwinTurns ==
  ASSUME Agreeing, NEW s \in Ends, ssl[s].err = "OK", NEW y, DOMAIN y = ContextFields,
         Plain(s, y), ssl'[Peer(s)] = ssl[Peer(s)], Twin(y, ssl[s]), Whole(s, y)
  PROVE  Turn(s)
<1>1. Fit(s, y) /\ Holds(s, ssl[s], y) /\ Mistaken(y) = Mistaken(ssl[s])
  BY TwinFits DEF Agreeing
<1> QED BY <1>1, PlainTurns DEF Twin

\* What is used of the invariant in every step.
LEMMA AgreeingFacts ==
  ASSUME Agreeing, NEW s \in Ends
  PROVE  /\ Shapes /\ DOMAIN ssl[s] = ContextFields /\ Fit(s, ssl[s]) /\ Whole(s, ssl[s])
         /\ DOMAIN Heard(s) = ContextFields /\ Twin(Heard(s), ssl[s])
         /\ Heard(s).neg = ssl[s].neg /\ Heard(s).err = ssl[s].err
<1>1. Shapes /\ DOMAIN ssl[s] = ContextFields /\ Fit(s, ssl[s])
  BY DEF Agreeing, Shapes
<1>2. Whole(s, ssl[s])
  BY <1>1 DEF Fit, Whole
<1>3. /\ DOMAIN Heard(s) = ContextFields /\ Twin(Heard(s), ssl[s])
      /\ Heard(s).neg = ssl[s].neg /\ Heard(s).err = ssl[s].err
  BY <1>1 DEF Heard, ContextFields, Twin, SameKeys
<1> QED BY <1>1, <1>2, <1>3

\* A call that fails.
LEMMA FailTurns ==
  ASSUME Agreeing, NEW s \in Ends, ssl[s].err = "OK", NEW e, e # "OK",
         \/ wire[s] # <<>> /\ (Fail(s, e) \/ Refuse(s, e))
         \/ Move(s, [ssl[s] EXCEPT !.err = e]),
         ssl'[Peer(s)] = ssl[Peer(s)]
  PROVE  Turn(s)
<1> DEFINE y == [ssl[s] EXCEPT !.err = e]
<1>1. DOMAIN ssl[s] = ContextFields /\ Whole(s, ssl[s])
  BY AgreeingFacts
<1>2. DOMAIN y = ContextFields /\ y.err = e /\ Twin(y, ssl[s]) /\ Whole(s, y)
  BY <1>1 DEF ContextFields, Twin, SameKeys, Whole
<1>3. Move(s, y) \/ (wire[s] # <<>> /\ (Hear(s, y) \/ Answer(s, y, "fatal")))
  BY DEF Fail, Refuse
<1> HIDE DEF y
<1>4. Plain(s, y)
  BY <1>2, <1>3 DEF Plain
<1> QED BY <1>2, <1>4, TwinTurns

\* A step from one state of a full handshake to the next, or to the first of any.
LEMMA FullTurns ==
  ASSUME Agreeing, NEW s \in Ends, ssl[s].err = "OK", NEW y, DOMAIN y = ContextFields,
         Plain(s, y), ssl'[Peer(s)] = ssl[Peer(s)],
         ssl[s].st \in Full \cup {"HELLO_REQUEST"}, y.st = After(ssl[s].st),
         y.resume = ssl[s].resume, SameKeys(y, ssl[s]), Whole(s, y),
         Mistaken(ssl[s]) => Mistaken(y),
         Mistaken(y) => /\ s = "cli" /\ y.st \in {"CERTIFICATE_REQUEST", "SERVER_HELLO_DONE"}
                        /\ y.st = "CERTIFICATE_REQUEST" => Kx[y.neg.suite] \in {"PSK", "RSA_PSK"}
  PROVE  Turn(s)
<1>1. Fit(s, ssl[s])
  BY AgreeingFacts
<1>2. Fit(s, y) /\ Holds(s, ssl[s], y)
  BY <1>1, FullFits
<1> QED BY <1>2, PlainTurns

\* A step of the end of a handshake that leaves all but the state.
LEMMA LateTurns ==
  ASSUME Agreeing, NEW s \in Ends, ssl[s].err = "OK",
         Plain(s, Onward(ssl[s])), ssl'[Peer(s)] = ssl[Peer(s)],
         ssl[s].st \in {"CLIENT_CHANGE_CIPHER_SPEC", "SERVER_CHANGE_CIPHER_SPEC", "FLUSH_BUFFERS"}
  PROVE  Turn(s)
<1> DEFINE x == ssl[s]
           y == Onward(x)
           st == After(x.st)
<1>1. DOMAIN x = ContextFields /\ Whole(s, x) /\ Fit(s, x)
  BY AgreeingFacts
<1>2. /\ DOMAIN y = ContextFields /\ Twin(y, [x EXCEPT !.st = st]) /\ Whole(s, y)
      /\ SameKeys(y, x)
  BY <1>1 DEF Onward, ContextFields, Twin, SameKeys, Whole
<1> HIDE DEF y, st
<1>3. Fit(s, y) /\ Holds(s, x, y) /\ ~Mistaken(x)
  BY <1>1, <1>2, LateFits DEF st
<1> QED BY <1>2, <1>3, PlainTurns DEF y

\* ssl_start_renegotiation
LEMMA RenewTurns ==
  ASSUME Agreeing, NEW s \in Ends, Over(s), Plain(s, Renewed(ssl[s])),
         ssl'[Peer(s)] = ssl[Peer(s)]
  PROVE  Turn(s)
<1> DEFINE x == ssl[s]
           y == Renewed(x)
<1>1. DOMAIN x = ContextFields /\ Whole(s, x) /\ Fit(s, x) /\ x.st = "HANDSHAKE_OVER"
      /\ x.err = "OK"
  BY AgreeingFacts DEF Over
<1>2. ~Mistaken(x) /\ ~x.resume
  BY <1>1 DEF Fit
<1>3. /\ DOMAIN y = ContextFields /\ y.st = "HELLO_REQUEST" /\ ~y.resume /\ y.neg = NoSession
      /\ y.sess = x.sess /\ y.held = x.held /\ SameKeys(y, x)
  BY <1>1 DEF Renewed, Fresh, ContextFields, SameKeys
<1> HIDE DEF y
<1>4. ~Mistaken(y) /\ Whole(s, y)
  BY <1>1, <1>2, <1>3, NewShapes DEF Mistaken, Whole
<1>5. /\ UntilClient(x) = FALSE /\ UntilServer(x) = FALSE
      /\ UntilClient(y) = FALSE /\ UntilServer(y) = FALSE
  BY <1>1, <1>2, <1>3 DEF UntilClient, UntilServer, Full, ToClient, ToServer
<1>6. Fit(s, y)
  BY <1>3, <1>4 DEF Fit, Whole, Full, ToClient, ToServer, Ending
<1>7. Holds(s, x, y)
  BY <1>5 DEF Holds, Waits, Owes
<1> QED BY <1>1, <1>2, <1>3, <1>6, <1>7, PlainTurns DEF y

\* ssl_write_client_hello: the client begins to wait.
LEMMA ClientHelloTurns ==
  ASSUME Agreeing, WriteClientHello, ssl'["srv"] = ssl["srv"]
  PROVE  Turn("cli")
<1> DEFINE x == ssl["cli"]
           id == OfferedId(x)
           y == Onward([x EXCEPT !.cr = draws + 1, !.neg.id = IF id # 0 THEN id ELSE @])
           m == [msg |-> "CLIENT_HELLO", rnd |-> draws + 1, id |-> id,
                 offer |-> setting.offer,
                 info |-> IF x.reneg = "INITIAL" THEN NoInfo ELSE x.own,
                 tickets |-> setting.tickets["cli"],
                 ticket |-> IF setting.tickets["cli"] THEN x.neg.ticket ELSE NoTicket]
<1>1. /\ "cli" \in Ends /\ DOMAIN x = ContextFields /\ Whole("cli", x) /\ Fit("cli", x)
      /\ x.st = "CLIENT_HELLO" /\ x.err = "OK" /\ Hello("cli") = "CLIENT_HELLO"
  BY AgreeingFacts, Peers DEF WriteClientHello, At, Hello
<1>2. Say("cli", y, m) /\ m.msg = "CLIENT_HELLO"
  BY DEF WriteClientHello
<1>3. /\ DOMAIN y = ContextFields /\ y.st = "SERVER_HELLO" /\ y.resume = x.resume
      /\ y.sess = x.sess /\ y.held = x.held /\ SameKeys(y, x) /\ DOMAIN y.neg = DOMAIN x.neg
  BY <1>1, NextState DEF Onward, ContextFields, SameKeys
<1> HIDE DEF y, m
<1>4. ~Mistaken(x) /\ ~Mistaken(y) /\ Whole("cli", y)
  BY <1>1, <1>3 DEF Fit, Mistaken, Whole
<1>5. Fit("cli", y)
  BY <1>3, <1>4 DEF Fit, Whole, Full, ToClient, ToServer, Ending
<1>6. ~Waits("cli", x) /\ Waits("cli", y) /\ ~Owes("cli", y)
  BY <1>1, <1>3 DEF Waits, Owes, UntilClient, UntilServer, Full, ToClient, ToServer
<1> QED BY <1>1, <1>2, <1>3, <1>4, <1>5, <1>6, Peers, SayTurns DEF SameKeys

\* ssl_parse_server_hello: the client begins to owe its Finished.
LEMMA ServerHelloTurns ==
  ASSUME Agreeing, ParseServerHello, ssl'["srv"] = ssl["srv"]
  PROVE  Turn("cli")
<1> DEFINE o == ssl["cli"]
           m == Msg("cli")
           x == [Heard("cli") EXCEPT !.sr = m.rnd, !.due = m.tickets]
           v == [x EXCEPT !.st = "SERVER_CHANGE_CIPHER_SPEC"]
           u == [x EXCEPT !.resume = FALSE, !.neg.start = clock,
                          !.neg.suite = m.suite, !.neg.id = m.id]
           w == Onward(u)
<1>1. /\ "cli" \in Ends /\ DOMAIN o = ContextFields /\ Whole("cli", o) /\ Fit("cli", o)
      /\ o.st = "SERVER_HELLO" /\ o.err = "OK" /\ wire["cli"] # <<>> /\ m.msg = "SERVER_HELLO"
      /\ Hello("srv") = "SERVER_HELLO" /\ Peer("cli") = "srv"
      /\ DOMAIN Heard("cli") = ContextFields /\ Twin(Heard("cli"), o)
      /\ Heard("cli").neg = o.neg
  BY AgreeingFacts, Peers DEF ParseServerHello, At, CameAs, Comes, Hello
<1>2. \/ Refuse("cli", "SERVER_HELLO")
      \/ o.resume /\ Hear("cli", v)
      \/ Hear("cli", w)
  BY DEF ParseServerHello, Resumes
<1>3. /\ DOMAIN x = ContextFields /\ x.neg = o.neg /\ Twin(x, o)
  BY <1>1 DEF ContextFields, Twin, SameKeys
<1> HIDE DEF x
<1>4. Waits("cli", o) /\ ~Mistaken(o)
  BY <1>1 DEF Waits, UntilServer, Fit
<1>5. CASE Refuse("cli", "SERVER_HELLO")
  BY <1>1, <1>5, FailTurns
<1>6. CASE o.resume /\ Hear("cli", v)
  <2>1. /\ DOMAIN v = ContextFields /\ v.st = "SERVER_CHANGE_CIPHER_SPEC" /\ v.resume
        /\ v.neg = o.neg /\ v.held = o.held /\ v.sess = o.sess /\ SameKeys(v, o)
    BY <1>3, <1>6 DEF ContextFields, Twin, SameKeys
  <2> HIDE DEF v
  <2>2. ~Mistaken(v) /\ Whole("cli", v)
    BY <1>1, <1>4, <2>1 DEF Mistaken, Whole
  <2>3. UntilClient(v) /\ UntilServer(v)
    BY <2>1 DEF UntilClient, UntilServer, ToServer
  <2>4. Fit("cli", v)
    BY <2>1, <2>2, <2>3 DEF Fit, Whole, Full
  <2>5. Waits("cli", v)
    BY <2>3 DEF Waits
  <2> QED BY <1>1, <1>4, <1>6, <2>1, <2>4, <2>5, ReadTurns DEF SameKeys
<1>7. CASE Hear("cli", w)
  <2>1. /\ DOMAIN u = ContextFields /\ u.st = "SERVER_HELLO" /\ u.resume = FALSE
        /\ DOMAIN u.neg = DOMAIN o.neg /\ u.held = o.held /\ u.sess = o.sess /\ SameKeys(u, o)
    BY <1>1, <1>3 DEF ContextFields, Twin, SameKeys
  <2> HIDE DEF u
  <2>2. /\ DOMAIN w = ContextFields /\ w.st = "SERVER_CERTIFICATE" /\ ~w.resume
        /\ DOMAIN w.neg = DOMAIN o.neg /\ w.held = o.held /\ w.sess = o.sess /\ SameKeys(w, o)
    BY <2>1, NextState DEF Onward, ContextFields, SameKeys
  <2> HIDE DEF w
  <2>3. ~Mistaken(w) /\ Whole("cli", w)
    BY <1>1, <1>4, <2>2 DEF Mistaken, Whole
  <2>4. UntilClient(w) /\ UntilServer(w)
    BY <2>2 DEF UntilClient, UntilServer, Full
  <2>5. Fit("cli", w)
    BY <2>2, <2>3, <2>4 DEF Fit, Whole
  <2>6. Waits("cli", w)
    BY <2>4 DEF Waits
  <2> QED BY <1>1, <1>4, <1>7, <2>2, <2>5, <2>6, ReadTurns DEF SameKeys
<1> QED BY <1>2, <1>5, <1>6, <1>7

\* ssl_parse_server_key_exchange and ssl_parse_certificate_request may take the Finished
\* for another message: then the client holds it, and does not get to the end.
LEMMA HeldTurns ==
  ASSUME Agreeing, ParseServerKeyExchange \/ ParseCertificateRequest \/ ParseServerHelloDone,
         ssl'["srv"] = ssl["srv"]
  PROVE  Turn("cli")
<1> DEFINE x == ssl["cli"]
           h == Heard("cli")
           m == Msg("cli")
           Psk == {"PSK", "RSA_PSK"}
<1>1. /\ "cli" \in Ends /\ DOMAIN x = ContextFields /\ Whole("cli", x) /\ Fit("cli", x)
      /\ x.err = "OK" /\ Peer("cli") = "srv" /\ Hello("cli") = "CLIENT_HELLO"
      /\ DOMAIN h = ContextFields /\ Twin(h, x) /\ h.neg = x.neg
  BY AgreeingFacts, Peers DEF ParseServerKeyExchange, ParseCertificateRequest,
                              ParseServerHelloDone, At, Hello
<1> HIDE DEF h
<1>2. ASSUME NEW y, DOMAIN y = ContextFields, y.neg = x.neg, y.resume = x.resume,
             y.sess = x.sess, SameKeys(y, x),
             x.st \in {"SERVER_KEY_EXCHANGE", "CERTIFICATE_REQUEST", "SERVER_HELLO_DONE"},
             y.st = After(x.st), Mistaken(x) => Mistaken(y),
             Mistaken(y) => x.st # "SERVER_HELLO_DONE",
             Mistaken(y) /\ x.st = "SERVER_KEY_EXCHANGE" => KxOf("cli") \in Psk,
             \/ Move("cli", y)
             \/ Hear("cli", y) /\ wire["cli"] # <<>> /\ (m.msg = "FINISHED" => Mistaken(y))
      PROVE  Turn("cli")
  <2>1. Plain("cli", y)
    BY <1>2 DEF Plain
  <2>2. x.st \in Full \cup {"HELLO_REQUEST"}
    BY <1>2 DEF Full
  <2>3. /\ Mistaken(y) => y.st \in {"CERTIFICATE_REQUEST", "SERVER_HELLO_DONE"}
        /\ Mistaken(y) /\ y.st = "CERTIFICATE_REQUEST" => Kx[y.neg.suite] \in Psk
    BY <1>2, NextState DEF KxOf
  <2>4. Whole("cli", y)
    BY <1>1, <1>2 DEF Whole
  <2> QED BY <1>1, <1>2, <2>1, <2>2, <2>3, <2>4, FullTurns
<1>3. ASSUME NEW z, DOMAIN z = ContextFields, z.neg = x.neg, z.resume = x.resume,
             z.sess = x.sess, SameKeys(z, x), z.st = x.st
      PROVE  LET y == Onward(z)
             IN /\ DOMAIN y = ContextFields /\ y.neg = x.neg /\ y.resume = x.resume
                /\ y.sess = x.sess /\ SameKeys(y, x) /\ y.held = z.held
                /\ y.st = After(x.st) /\ Mistaken(y) = Mistaken(z)
  BY <1>3 DEF Onward, ContextFields, SameKeys, Mistaken
<1>4. SameKeys(x, x)
  BY DEF SameKeys
<1>5. CASE ParseServerKeyExchange
  <2> DEFINE g == [h EXCEPT !.held = m]
  <2>1. x.st = "SERVER_KEY_EXCHANGE" /\ ~Mistaken(x)
    BY <1>1, <1>5 DEF ParseServerKeyExchange, At, Fit
  <2>2. \/ Move("cli", Onward(x))
        \/ Hear("cli", Onward(h)) /\ wire["cli"] # <<>> /\ m.msg = "SERVER_KEY_EXCHANGE"
        \/ Hear("cli", Onward(g)) /\ wire["cli"] # <<>> /\ KxOf("cli") \in Psk
    BY <1>5 DEF ParseServerKeyExchange, CameAs, Comes, WithPsk, h
  <2>3. /\ DOMAIN g = ContextFields /\ g.neg = x.neg /\ g.resume = x.resume
        /\ g.sess = x.sess /\ SameKeys(g, x) /\ g.st = x.st /\ g.held = m
    BY <1>1 DEF ContextFields, Twin, SameKeys
  <2>4. /\ h.resume = x.resume /\ h.sess = x.sess /\ SameKeys(h, x) /\ h.st = x.st
        /\ h.held = x.held
    BY <1>1 DEF Twin
  <2> HIDE DEF g
  <2>5. CASE Move("cli", Onward(x))
    <3>1. ~Mistaken(Onward(x))
      BY <1>1, <1>3, <1>4, <2>1
    <3> QED BY <1>1, <1>2, <1>3, <1>4, <2>1, <2>5, <3>1
  <2>6. CASE Hear("cli", Onward(h)) /\ wire["cli"] # <<>> /\ m.msg = "SERVER_KEY_EXCHANGE"
    <3>1. ~Mistaken(Onward(h))
      BY <1>1, <1>3, <2>1, <2>4 DEF Mistaken
    <3> QED BY <1>1, <1>2, <1>3, <2>1, <2>4, <2>6, <3>1
  <2>7. CASE Hear("cli", Onward(g)) /\ wire["cli"] # <<>> /\ KxOf("cli") \in Psk
    <3>1. m.msg = "FINISHED" => Mistaken(Onward(g))
      BY <1>3, <2>3 DEF Mistaken
    <3> QED BY <1>2, <1>3, <2>1, <2>3, <2>7, <3>1
  <2> QED BY <2>2, <2>5, <2>6, <2>7
<1>6. CASE ParseCertificateRequest
  <2> DEFINE request == m.msg = "CERTIFICATE_REQUEST"
             g == [h EXCEPT !.asked = request, !.held = IF request THEN NoMsg ELSE m]
  <2>1. x.st = "CERTIFICATE_REQUEST"
    BY <1>6 DEF ParseCertificateRequest, At
  <2>2. \/ Move("cli", Onward(x))
        \/ Hear("cli", Onward(g)) /\ wire["cli"] # <<>> /\ KxOf("cli") \notin Psk
    BY <1>6 DEF ParseCertificateRequest, Comes, WithPsk, h
  <2>3. /\ DOMAIN g = ContextFields /\ g.neg = x.neg /\ g.resume = x.resume
        /\ g.sess = x.sess /\ SameKeys(g, x) /\ g.st = x.st
        /\ m.msg = "FINISHED" => g.held = m
    BY <1>1 DEF ContextFields, Twin, SameKeys
  <2> HIDE DEF g
  <2>4. CASE Move("cli", Onward(x))
    <3>1. Mistaken(Onward(x)) = Mistaken(x)
      BY <1>1, <1>3, <1>4
    <3> QED BY <1>1, <1>2, <1>3, <1>4, <2>1, <2>4, <3>1
  <2>5. CASE Hear("cli", Onward(g)) /\ wire["cli"] # <<>> /\ KxOf("cli") \notin Psk
    <3>1. m.msg = "FINISHED" => Mistaken(Onward(g))
      BY <1>3, <2>3 DEF Mistaken
    <3>2. ~Mistaken(x)
      BY <1>1, <2>1, <2>5 DEF Fit, KxOf
    <3> QED BY <1>2, <1>3, <2>1, <2>3, <2>5, <3>1, <3>2
  <2> QED BY <2>2, <2>4, <2>5
<1>7. CASE ParseServerHelloDone
  <2> DEFINE g == [x EXCEPT !.held = NoMsg]
  <2>1. x.st = "SERVER_HELLO_DONE" /\ ~Mistaken(x)
    BY <1>7 DEF ParseServerHelloDone, At, Mistaken, NoMsg
  <2>2. \/ Move("cli", Onward(g))
        \/ Hear("cli", Onward(h)) /\ wire["cli"] # <<>> /\ m.msg = "SERVER_HELLO_DONE"
    BY <1>7 DEF ParseServerHelloDone, CameAs, Comes, h
  <2>3. /\ DOMAIN g = ContextFields /\ g.neg = x.neg /\ g.resume = x.resume
        /\ g.sess = x.sess /\ SameKeys(g, x) /\ g.st = x.st /\ ~Mistaken(g)
    BY <1>1 DEF ContextFields, SameKeys, Mistaken, NoMsg
  <2>4. /\ h.resume = x.resume /\ h.sess = x.sess /\ SameKeys(h, x) /\ h.st = x.st
        /\ ~Mistaken(h)
    BY <1>1, <2>1 DEF Twin, Mistaken
  <2> HIDE DEF g
  <2>5. CASE Move("cli", Onward(g))
    <3>1. ~Mistaken(Onward(g))
      BY <1>3, <2>3
    <3> QED BY <1>2, <1>3, <2>1, <2>3, <2>5, <3>1
  <2>6. CASE Hear("cli", Onward(h)) /\ wire["cli"] # <<>> /\ m.msg = "SERVER_HELLO_DONE"
    <3>1. ~Mistaken(Onward(h))
      BY <1>1, <1>3, <2>4
    <3> QED BY <1>1, <1>2, <1>3, <2>1, <2>4, <2>6, <3>1
  <2> QED BY <2>2, <2>5, <2>6
<1> QED BY <1>5, <1>6, <1>7

\* A step on from a state of a full handshake in which no Finished is held.
LEMMA OnwardTurns ==
  ASSUME Agreeing, NEW s \in Ends, ssl[s].err = "OK", NEW z, DOMAIN z = ContextFields,
         Plain(s, Onward(z)), ssl'[Peer(s)] = ssl[Peer(s)],
         ssl[s].st \in Full \cup {"HELLO_REQUEST"}, ~Mistaken(ssl[s]),
         z.st = ssl[s].st, z.held = ssl[s].held, z.resume = ssl[s].resume,
         SameKeys(z, ssl[s]), Whole(s, z)
  PROVE  Turn(s)
<1> DEFINE y == Onward(z)
<1>1. /\ DOMAIN y = ContextFields /\ y.st = After(ssl[s].st) /\ y.resume = ssl[s].resume
      /\ y.held = ssl[s].held /\ SameKeys(y, ssl[s]) /\ Whole(s, y)
  BY DEF Onward, ContextFields, SameKeys, Whole
<1>2. ~Mistaken(y)
  BY <1>1 DEF Mistaken
<1> HIDE DEF y
<1> QED BY <1>1, <1>2, FullTurns DEF y

\* What the client does between the server's hello and its own change of cipher.
LEMMA ClientKeyTurns ==
  ASSUME Agreeing, ssl'["srv"] = ssl["srv"],
         WriteClientKeyExchange \/ WriteCertificateVerify \/ ParseNewSessionTicket
  PROVE  Turn("cli")
<1> DEFINE x == ssl["cli"]
<1>1. /\ "cli" \in Ends /\ DOMAIN x = ContextFields /\ Whole("cli", x) /\ Fit("cli", x)
      /\ x.err = "OK" /\ Peer("cli") = "srv" /\ Hello("cli") = "CLIENT_HELLO"
      /\ DOMAIN Heard("cli") = ContextFields /\ Twin(Heard("cli"), x)
      /\ Heard("cli").neg = x.neg
  BY AgreeingFacts, Peers DEF WriteClientKeyExchange, WriteCertificateVerify,
                              ParseNewSessionTicket, At, Hello
<1>2. CASE WriteClientKeyExchange
  <2> DEFINE z == [x EXCEPT !.neg.master = Master("cli", x, draws + 1)]
             m == [msg |-> "CLIENT_KEY_EXCHANGE", pms |-> draws + 1]
  <2>1. Say("cli", Onward(z), m) /\ m.msg = "CLIENT_KEY_EXCHANGE"
        /\ x.st = "CLIENT_KEY_EXCHANGE"
    BY <1>2 DEF WriteClientKeyExchange, At
  <2>2. /\ DOMAIN z = ContextFields /\ z.st = x.st /\ z.held = x.held /\ z.resume = x.resume
        /\ SameKeys(z, x) /\ DOMAIN z.neg = DOMAIN x.neg /\ z.sess = x.sess
    BY <1>1 DEF ContextFields, SameKeys
  <2> HIDE DEF z, m
  <2>3. Whole("cli", z) /\ ~Mistaken(x) /\ x.st \in Full \cup {"HELLO_REQUEST"}
    BY <1>1, <2>1, <2>2 DEF Whole, Fit, Full
  <2>4. Plain("cli", Onward(z))
    BY <1>1, <2>1 DEF Plain
  <2> QED BY <1>1, <2>2, <2>3, <2>4, OnwardTurns
<1>3. CASE WriteCertificateVerify
  <2> DEFINE m == [msg |-> "CERTIFICATE_VERIFY", over |-> x.log]
  <2>1. /\ Move("cli", Onward(x)) \/ Say("cli", Onward(x), m)
        /\ m.msg = "CERTIFICATE_VERIFY" /\ x.st = "CERTIFICATE_VERIFY"
    BY <1>3 DEF WriteCertificateVerify, At
  <2> HIDE DEF m
  <2>2. ~Mistaken(x) /\ x.st \in Full \cup {"HELLO_REQUEST"} /\ SameKeys(x, x)
    BY <1>1, <2>1 DEF Fit, Full, SameKeys
  <2>3. Plain("cli", Onward(x))
    BY <1>1, <2>1 DEF Plain
  <2> QED BY <1>1, <2>2, <2>3, OnwardTurns
<1>4. CASE ParseNewSessionTicket
  <2> DEFINE h == Heard("cli")
             y == [h EXCEPT !.due = FALSE, !.neg.id = 0, !.neg.ticket = Msg("cli").ticket]
  <2>1. Hear("cli", y) /\ wire["cli"] # <<>> /\ Msg("cli").msg = "NEW_SESSION_TICKET"
    BY <1>4 DEF ParseNewSessionTicket, CameAs, Comes
  <2> HIDE DEF h
  <2>2. DOMAIN h.neg = SessionFields
    BY <1>1 DEF Whole, h
  <2>3. /\ DOMAIN y = ContextFields /\ DOMAIN y.neg = SessionFields /\ Twin(y, h)
        /\ y.sess = h.sess
    <3>1. y.neg = [h.neg EXCEPT !.id = 0, !.ticket = Msg("cli").ticket]
      BY <1>1 DEF h, ContextFields
    <3>2. y.neg.suite = h.neg.suite /\ y.neg.master = h.neg.master
          /\ DOMAIN y.neg = SessionFields
      BY <2>2, <3>1 DEF SessionFields
    <3>3. /\ DOMAIN y = ContextFields /\ y.st = h.st /\ y.resume = h.resume /\ y.held = h.held
          /\ y.sess = h.sess /\ SameKeys(y, h)
      BY <1>1 DEF h, ContextFields, SameKeys
    <3> QED BY <3>2, <3>3 DEF Twin
  <2>4. Twin(y, x) /\ Whole("cli", y)
    <3>1. Twin(h, x) /\ DOMAIN x.sess = SessionFields
      BY <1>1 DEF h, Whole
    <3> QED BY <2>3, <3>1 DEF Twin, SameKeys, Whole
  <2> HIDE DEF y
  <2>5. Plain("cli", y)
    BY <2>1 DEF Plain
  <2> QED BY <1>1, <2>3, <2>4, <2>5, TwinTurns
<1> QED BY <1>2, <1>3, <1>4

\* ssl_parse_client_hello: the server begins to owe its Finished.
LEMMA ParseHelloTurns ==
  ASSUME Agreeing, ParseClientHello, ssl'["cli"] = ssl["cli"]
  PROVE  Turn("srv")
<1> DEFINE o == ssl["srv"]
           m == Msg("srv")
           h == [Heard("srv") EXCEPT !.neg.id = m.id, !.cr = m.rnd]
           x == Ticketed(h, m)
           z == [x EXCEPT !.neg.suite = Prefers[First(Common(m))]]
           y == Onward(z)
<1>1. /\ "srv" \in Ends /\ Fit("srv", o) /\ o.st = "CLIENT_HELLO" /\ o.err = "OK"
      /\ wire["srv"] # <<>> /\ m.msg = "CLIENT_HELLO" /\ Hello("cli") = "CLIENT_HELLO"
      /\ Peer("srv") = "cli" /\ "srv" # "cli"
      /\ DOMAIN Heard("srv") = ContextFields /\ Twin(Heard("srv"), o)
  BY AgreeingFacts, Peers DEF ParseClientHello, At, CameAs, Comes, Hello
<1>2. Refuse("srv", "CLIENT_HELLO") \/ Hear("srv", y)
  BY DEF ParseClientHello
<1>3. DOMAIN h = ContextFields /\ h.st = o.st /\ h.held = o.held /\ SameKeys(h, o)
  BY <1>1 DEF ContextFields, Twin, SameKeys
<1> HIDE DEF h
<1>4. DOMAIN x = ContextFields /\ x.st = o.st /\ x.held = o.held /\ SameKeys(x, o)
  BY <1>3 DEF Ticketed, ContextFields, SameKeys
<1> HIDE DEF x
<1>5. DOMAIN z = ContextFields /\ z.st = o.st /\ z.held = o.held /\ SameKeys(z, o)
  BY <1>4 DEF ContextFields, SameKeys
<1> HIDE DEF z
<1>6. DOMAIN y = ContextFields /\ y.st = "SERVER_HELLO" /\ y.held = o.held /\ SameKeys(y, o)
  BY <1>1, <1>5, NextState DEF Onward, ContextFields, SameKeys
<1> HIDE DEF y
<1>7. ~Mistaken(o) /\ ~Mistaken(y)
  BY <1>1, <1>6 DEF Fit, Mistaken
<1>8. Fit("srv", y) /\ ~Waits("srv", o)
  BY <1>1, <1>6, <1>7 DEF Fit, Waits, UntilClient, Full, ToClient, ToServer, Ending
<1>9. CASE Refuse("srv", "CLIENT_HELLO")
  BY <1>1, <1>9, FailTurns
<1>10. CASE Hear("srv", y)
  BY <1>1, <1>6, <1>7, <1>8, <1>10, ReadTurns DEF SameKeys
<1> QED BY <1>2, <1>9, <1>10

\* ssl_write_server_hello: the server begins to wait.
LEMMA WriteHelloTurns ==
  ASSUME Agreeing, WriteServerHello, ssl'["cli"] = ssl["cli"]
  PROVE  Turn("srv")
<1> DEFINE o == ssl["srv"]
           r == Recalled(o)
           x == [r EXCEPT !.sr = draws + 1]
           w == [x EXCEPT !.neg.start = clock, !.neg.id = IF x.due THEN 0 ELSE draws + 2]
           v == [x EXCEPT !.st = "SERVER_CHANGE_CIPHER_SPEC"]
           y == IF x.resume THEN v ELSE Onward(w)
           m == [msg |-> "SERVER_HELLO", rnd |-> draws + 1, id |-> y.neg.id,
                 suite |-> y.neg.suite,
                 info |-> IF x.reneg = "INITIAL" THEN NoInfo ELSE <<x.peer, x.own>>,
                 tickets |-> x.due]
<1>1. /\ "srv" \in Ends /\ Fit("srv", o) /\ o.st = "SERVER_HELLO" /\ o.err = "OK"
      /\ Hello("srv") = "SERVER_HELLO" /\ Peer("srv") = "cli" /\ "srv" # "cli"
      /\ DOMAIN o = ContextFields
  BY AgreeingFacts, Peers DEF WriteServerHello, At, Hello
<1>2. Say("srv", y, m) /\ m.msg = "SERVER_HELLO"
  BY DEF WriteServerHello
<1> HIDE DEF m
<1>3. DOMAIN r = ContextFields /\ r.st = o.st /\ r.held = o.held /\ SameKeys(r, o)
  BY <1>1 DEF Recalled, ContextFields, SameKeys
<1> HIDE DEF r
<1>4. DOMAIN x = ContextFields /\ x.st = o.st /\ x.held = o.held /\ SameKeys(x, o)
  BY <1>3 DEF ContextFields, SameKeys
<1> HIDE DEF x
<1>5. /\ DOMAIN y = ContextFields /\ y.held = o.held /\ SameKeys(y, o)
      /\ \/ y.resume /\ y.st = "SERVER_CHANGE_CIPHER_SPEC"
         \/ ~y.resume /\ y.st = "SERVER_CERTIFICATE"
  <2>1. CASE x.resume
    BY <1>4, <2>1 DEF ContextFields, SameKeys
  <2>2. CASE ~x.resume
    <3>1. /\ DOMAIN w = ContextFields /\ w.st = o.st /\ w.held = o.held /\ SameKeys(w, o)
          /\ w.resume = x.resume
      BY <1>4 DEF ContextFields, SameKeys
    <3> HIDE DEF w
    <3>2. y = Onward(w)
      BY <2>2
    <3> HIDE DEF y
    <3> QED BY <1>1, <2>2, <3>1, <3>2, NextState DEF Onward, ContextFields, SameKeys
  <2> QED BY <2>1, <2>2
<1> HIDE DEF y
<1>6. ~Mistaken(o) /\ ~Mistaken(y)
  BY <1>1, <1>5 DEF Fit, Mistaken
<1>7. UntilClient(y) /\ UntilServer(y) /\ UntilServer(o) /\ ~UntilClient(o)
  BY <1>1, <1>5 DEF UntilClient, UntilServer, Full, ToClient, ToServer
<1>8. Fit("srv", y)
  BY <1>1, <1>5, <1>6, <1>7 DEF Fit, Full
<1>9. Waits("srv", y) /\ ~Waits("srv", o) /\ Owes("srv", o)
  BY <1>1, <1>7 DEF Waits, Owes
<1> QED BY <1>1, <1>2, <1>5, <1>6, <1>8, <1>9, SayTurns DEF SameKeys

\* What the server does after its hello.
LEMMA ServerKeyTurns ==
  ASSUME Agreeing, ssl'["cli"] = ssl["cli"],
         \/ WriteServerKeyExchange \/ WriteCertificateRequest \/ WriteServerHelloDone
         \/ ParseClientKeyExchange \/ ParseCertificateVerify \/ WriteNewSessionTicket
  PROVE  Turn("srv")
<1> DEFINE x == ssl["srv"]
           h == Heard("srv")
<1>1. /\ "srv" \in Ends /\ DOMAIN x = ContextFields /\ Fit("srv", x) /\ x.err = "OK"
      /\ Peer("srv") = "cli" /\ Hello("srv") = "SERVER_HELLO" /\ "srv" # "cli"
      /\ DOMAIN h = ContextFields /\ Twin(h, x)
  BY AgreeingFacts, Peers DEF WriteServerKeyExchange, WriteCertificateRequest,
       WriteServerHelloDone, ParseClientKeyExchange, ParseCertificateVerify,
       WriteNewSessionTicket, At, Hello
<1>2. ~Mistaken(x) /\ (\A z : Whole("srv", z)) /\ SameKeys(x, x)
  BY <1>1 DEF Fit, Whole, SameKeys
<1>3. CASE WriteServerKeyExchange \/ WriteCertificateRequest \/ WriteServerHelloDone
  <2>1. ASSUME NEW kind \in {"SERVER_KEY_EXCHANGE", "CERTIFICATE_REQUEST", "SERVER_HELLO_DONE"},
               Say("srv", Onward(x), [msg |-> kind])
        PROVE  Plain("srv", Onward(x))
    <3> DEFINE m == [msg |-> kind]
    <3>1. m.msg = kind /\ Say("srv", Onward(x), m)
      BY <2>1
    <3> HIDE DEF m
    <3> QED BY <1>1, <3>1 DEF Plain
  <2>2. /\ x.st \in Full \cup {"HELLO_REQUEST"}
        /\ \/ Move("srv", Onward(x))
           \/ \E kind \in {"SERVER_KEY_EXCHANGE", "CERTIFICATE_REQUEST", "SERVER_HELLO_DONE"} :
                Say("srv", Onward(x), [msg |-> kind])
    BY <1>3 DEF WriteServerKeyExchange, WriteCertificateRequest, WriteServerHelloDone, At, Full
  <2>3. Plain("srv", Onward(x))
    BY <2>1, <2>2 DEF Plain
  <2> QED BY <1>1, <1>2, <2>2, <2>3, OnwardTurns
<1>4. CASE ParseClientKeyExchange
  <2> DEFINE z == [h EXCEPT !.neg.master = Master("srv", h, Msg("srv").pms)]
  <2>1. /\ Hear("srv", Onward(z)) /\ wire["srv"] # <<>> /\ Msg("srv").msg = "CLIENT_KEY_EXCHANGE"
        /\ x.st \in Full \cup {"HELLO_REQUEST"}
    BY <1>4 DEF ParseClientKeyExchange, CameAs, Comes, At, Full
  <2>2. /\ DOMAIN z = ContextFields /\ z.st = x.st /\ z.held = x.held /\ z.resume = x.resume
        /\ SameKeys(z, x)
    BY <1>1 DEF ContextFields, Twin, SameKeys
  <2> HIDE DEF z
  <2>3. Plain("srv", Onward(z))
    BY <2>1 DEF Plain
  <2> QED BY <1>1, <1>2, <2>1, <2>2, <2>3, OnwardTurns
<1>5. CASE ParseCertificateVerify
  <2>1. /\ x.st \in Full \cup {"HELLO_REQUEST"}
        /\ \/ Move("srv", Onward(x))
           \/ /\ wire["srv"] # <<>> /\ Msg("srv").msg = "CERTIFICATE_VERIFY"
              /\ Hear("srv", Onward(h)) \/ Fail("srv", "CERTIFICATE_VERIFY")
    BY <1>5 DEF ParseCertificateVerify, CameAs, Comes, At, Full
  <2>2. CASE Move("srv", Onward(x))
    <3>1. Plain("srv", Onward(x))
      BY <2>2 DEF Plain
    <3> QED BY <1>1, <1>2, <2>1, <3>1, OnwardTurns
  <2>3. CASE wire["srv"] # <<>> /\ Msg("srv").msg = "CERTIFICATE_VERIFY" /\ Hear("srv", Onward(h))
    <3>1. Plain("srv", Onward(h))
      BY <2>3 DEF Plain
    <3>2. h.st = x.st /\ h.held = x.held /\ h.resume = x.resume /\ SameKeys(h, x)
      BY <1>1 DEF Twin
    <3> HIDE DEF h
    <3> QED BY <1>1, <1>2, <2>1, <3>1, <3>2, OnwardTurns
  <2>4. CASE wire["srv"] # <<>> /\ Fail("srv", "CERTIFICATE_VERIFY")
    BY <1>1, <2>4, FailTurns
  <2> QED BY <2>1, <2>2, <2>3, <2>4
<1>6. CASE WriteNewSessionTicket
  <2> DEFINE y == [x EXCEPT !.due = FALSE]
             m == [msg |-> "NEW_SESSION_TICKET",
                   ticket |-> [key |-> boot, state |-> x.neg]]
  <2>1. Say("srv", y, m) /\ m.msg = "NEW_SESSION_TICKET"
    BY <1>6 DEF WriteNewSessionTicket
  <2>2. DOMAIN y = ContextFields /\ Twin(y, x)
    BY <1>1 DEF ContextFields, Twin, SameKeys
  <2> HIDE DEF y, m
  <2>3. Plain("srv", y)
    BY <1>1, <2>1 DEF Plain
  <2> QED BY <1>1, <1>2, <2>2, <2>3, TwinTurns
<1> QED BY <1>3, <1>4, <1>5, <1>6

\* The handlers of the certificates.
LEMMA CertificateTurns ==
  ASSUME Agreeing, NEW s \in Ends, ssl'[Peer(s)] = ssl[Peer(s)],
         Begin(s) \/ WriteCertificate(s) \/ SkipCertificate(s) \/ ParseCertificate(s)
  PROVE  Turn(s)
<1> DEFINE x == ssl[s]
           h == Heard(s)
<1>1. /\ DOMAIN x = ContextFields /\ Fit(s, x) /\ x.err = "OK" /\ Whole(s, x)
      /\ DOMAIN h = ContextFields /\ Twin(h, x) /\ h.neg = x.neg
      /\ Hello(s) \in {"CLIENT_HELLO", "SERVER_HELLO"}
  BY AgreeingFacts DEF Begin, WriteCertificate, SkipCertificate, ParseCertificate,
                       ReadsCertificate, At, Hello
<1>2. x.st \in {"HELLO_REQUEST", "SERVER_CERTIFICATE", "CLIENT_CERTIFICATE"}
  BY DEF Begin, WriteCertificate, SkipCertificate, ParseCertificate, ReadsCertificate, At,
         CertState
<1>3. ~Mistaken(x) /\ x.st \in Full \cup {"HELLO_REQUEST"} /\ SameKeys(x, x)
  BY <1>1, <1>2 DEF Fit, Full, SameKeys
<1>4. CASE Begin(s) \/ WriteCertificate(s)
  <2> DEFINE m == [msg |-> "CERTIFICATE", cert |-> setting.cert[s]]
  <2>1. (Move(s, Onward(x)) \/ Say(s, Onward(x), m)) /\ m.msg = "CERTIFICATE"
    BY <1>4 DEF Begin, WriteCertificate
  <2> HIDE DEF m
  <2>2. Plain(s, Onward(x))
    BY <1>1, <2>1 DEF Plain
  <2> QED BY <1>1, <1>3, <2>2, OnwardTurns
<1>5. CASE SkipCertificate(s)
  <2> DEFINE z == [x EXCEPT !.neg.verify = "skip"]
  <2>1. Move(s, Onward(x)) \/ (s = "srv" /\ Move(s, Onward(z)))
    BY <1>5 DEF SkipCertificate
  <2>2. /\ DOMAIN z = ContextFields /\ z.st = x.st /\ z.held = x.held /\ z.resume = x.resume
        /\ SameKeys(z, x)
    BY <1>1 DEF ContextFields, SameKeys
  <2> HIDE DEF z
  <2>3. CASE Move(s, Onward(x))
    <3>1. Plain(s, Onward(x))
      BY <2>3 DEF Plain
    <3> QED BY <1>1, <1>3, <3>1, OnwardTurns
  <2>4. CASE s = "srv" /\ Move(s, Onward(z))
    <3>1. Plain(s, Onward(z)) /\ Whole(s, z)
      BY <2>4 DEF Plain, Whole
    <3> QED BY <1>1, <1>3, <2>2, <3>1, OnwardTurns
  <2> QED BY <2>1, <2>3, <2>4
<1>6. CASE ParseCertificate(s)
  <2> DEFINE cert == Msg(s).cert
             verdict == IF cert = "none" THEN "missing"
                        ELSE IF setting.auth[s] = "NONE" THEN "none" ELSE cert
             z == [h EXCEPT !.neg.cert = cert, !.neg.verify = verdict]
  <2>1. /\ wire[s] # <<>> /\ Msg(s).msg = "CERTIFICATE"
        /\ Hear(s, Onward(z)) \/ Fail(s, "CERTIFICATE")
    BY <1>6 DEF ParseCertificate, CameAs, Comes
  <2> HIDE DEF verdict, cert
  <2>2. /\ DOMAIN z = ContextFields /\ z.st = x.st /\ z.held = x.held /\ z.resume = x.resume
        /\ SameKeys(z, x) /\ DOMAIN z.neg = DOMAIN x.neg /\ z.sess = x.sess
    BY <1>1 DEF ContextFields, SameKeys, Twin
  <2> HIDE DEF z
  <2>3. CASE Hear(s, Onward(z))
    <3>1. Plain(s, Onward(z)) /\ Whole(s, z)
      BY <1>1, <2>1, <2>2, <2>3 DEF Plain, Whole
    <3> QED BY <1>1, <1>3, <2>2, <3>1, OnwardTurns
  <2>4. CASE Fail(s, "CERTIFICATE")
    BY <1>1, <2>1, <2>4, FailTurns
  <2> QED BY <2>1, <2>3, <2>4
<1> QED BY <1>4, <1>5, <1>6

\* The changes of the cipher, and what fails.
LEMMA ChangeTurns ==
  ASSUME Agreeing, NEW s \in Ends, ssl'[Peer(s)] = ssl[Peer(s)],
         \/ WriteChangeCipherSpec(s) \/ ParseChangeCipherSpec(s) \/ FlushBuffers(s)
         \/ Unexpected(s) \/ ReadFails(s)
  PROVE  Turn(s)
<1> DEFINE x == ssl[s]
<1>1. /\ DOMAIN x = ContextFields /\ x.err = "OK" /\ Hello(s) \in {"CLIENT_HELLO", "SERVER_HELLO"}
  BY AgreeingFacts DEF WriteChangeCipherSpec, ParseChangeCipherSpec, FlushBuffers,
                       Unexpected, ReadFails, Reads, At, Hello
<1>2. CASE WriteChangeCipherSpec(s) \/ ParseChangeCipherSpec(s) \/ FlushBuffers(s)
  <2> DEFINE m == [msg |-> "CHANGE_CIPHER_SPEC"]
             y == Onward(x)
  <2>1. x.st \in {"CLIENT_CHANGE_CIPHER_SPEC", "SERVER_CHANGE_CIPHER_SPEC", "FLUSH_BUFFERS"}
    BY <1>2 DEF WriteChangeCipherSpec, ParseChangeCipherSpec, FlushBuffers, At, Change
  <2>2. /\ m.msg = "CHANGE_CIPHER_SPEC"
        /\ \/ Say(s, y, m) \/ Move(s, y)
           \/ Hear(s, y) /\ wire[s] # <<>> /\ Msg(s).msg = "CHANGE_CIPHER_SPEC"
    BY <1>2 DEF WriteChangeCipherSpec, ParseChangeCipherSpec, FlushBuffers, CameAs, Comes
  <2> HIDE DEF y, m
  <2>3. Plain(s, y)
    BY <1>1, <2>2 DEF Plain
  <2> QED BY <1>1, <2>1, <2>3, LateTurns DEF y
<1>3. CASE Unexpected(s) \/ ReadFails(s)
  <2>1. \E e : /\ e # "OK"
               /\ \/ wire[s] # <<>> /\ (Fail(s, e) \/ Refuse(s, e))
                  \/ Move(s, [x EXCEPT !.err = e])
    <3>1. CASE Unexpected(s)
      BY <3>1 DEF Unexpected, Comes
    <3>2. CASE ReadFails(s)
      <4>1. CASE wire[s] # <<>> /\ Head(wire[s]).keys # InKeys(s)
        BY <3>2, <4>1 DEF ReadFails
      <4>2. CASE wire[s] # <<>> /\ Head(wire[s]).keys = InKeys(s)
        <5>1. Fail(s, Msg(s).msg) /\ Msg(s).msg \in {"fatal", "close_notify"}
          BY <3>2, <4>2 DEF ReadFails, Comes
        <5> QED BY <4>2, <5>1
      <4>3. CASE wire[s] = <<>>
        BY <3>2, <4>3 DEF ReadFails
      <4> QED BY <4>1, <4>2, <4>3
    <3> QED BY <1>3, <3>1, <3>2
  <2> QED BY <1>1, <2>1, FailTurns
<1> QED BY <1>2, <1>3

\* Where a Finished leads.
LEMMA EndedFields ==
  ASSUME NEW s \in Ends, NEW x, DOMAIN x = ContextFields, NEW wrote \in BOOLEAN
  PROVE  LET y == Ended(s, x, wrote)
         IN /\ DOMAIN y = ContextFields /\ y.resume = x.resume /\ y.held = x.held
            /\ y.neg = x.neg /\ y.sess = x.sess /\ SameKeys(y, x) /\ y.err = x.err
            /\ y.st = IF ~x.resume THEN After(x.st)
                      ELSE IF (s = "cli") = wrote THEN "HANDSHAKE_WRAPUP"
                      ELSE "CLIENT_CHANGE_CIPHER_SPEC"
BY DEF Ended, Onward, ContextFields, SameKeys

\* ssl_write_finished: s owes nothing any more, and its keys are those of the session.
LEMMA WriteFinishedTurns ==
  ASSUME Agreeing, NEW s \in Ends, WriteFinished(s), ssl'[Peer(s)] = ssl[Peer(s)]
  PROVE  Turn(s)
<1> DEFINE x == ssl[s]
           z == [x EXCEPT !.own = Verify(s, x), !.out = KeysOf(s, x)]
           y == Ended(s, z, TRUE)
           m == [msg |-> "FINISHED", verify |-> Verify(s, x)]
<1>1. /\ DOMAIN x = ContextFields /\ Fit(s, x) /\ x.err = "OK" /\ Whole(s, x)
      /\ x.st = Finished(s) /\ Hello(s) \in {"CLIENT_HELLO", "SERVER_HELLO"}
  BY AgreeingFacts DEF WriteFinished, At, Hello
<1>2. Say(s, y, m) /\ m.msg = "FINISHED" /\ m.verify = Verify(s, x)
  BY DEF WriteFinished
<1>3. /\ DOMAIN z = ContextFields /\ z.resume = x.resume /\ z.held = x.held /\ z.neg = x.neg
      /\ z.sess = x.sess /\ z.st = x.st /\ z.in = x.in /\ z.peer = x.peer
      /\ z.own = Verify(s, x) /\ z.out = KeysOf(s, x)
  BY <1>1 DEF ContextFields
<1> HIDE DEF z, m
<1>4. /\ DOMAIN y = ContextFields /\ y.resume = x.resume /\ y.held = x.held /\ y.neg = x.neg
      /\ y.sess = x.sess /\ y.in = x.in /\ y.peer = x.peer
      /\ y.own = Verify(s, x) /\ y.out = KeysOf(s, x)
      /\ y.st = IF ~x.resume THEN After(x.st)
                ELSE IF s = "cli" THEN "HANDSHAKE_WRAPUP" ELSE "CLIENT_CHANGE_CIPHER_SPEC"
  <2>1. /\ DOMAIN y = ContextFields /\ y.resume = z.resume /\ y.held = z.held
        /\ y.neg = z.neg /\ y.sess = z.sess /\ SameKeys(y, z)
        /\ y.st = IF ~z.resume THEN After(z.st)
                  ELSE IF (s = "cli") = TRUE THEN "HANDSHAKE_WRAPUP"
                  ELSE "CLIENT_CHANGE_CIPHER_SPEC"
    BY <1>3, EndedFields
  <2> QED BY <1>3, <2>1 DEF SameKeys
<1> HIDE DEF y
<1>5. Keyed(y.out, y.neg) /\ Keyed(y.in, y.neg) = Keyed(x.in, x.neg)
  BY <1>4 DEF Keyed, KeysOf
<1>6. ~Mistaken(x) /\ ~Mistaken(y)
  BY <1>1, <1>4 DEF Fit, Mistaken, Finished
<1>7. CASE s = "cli"
  <2>1. /\ x.st = "CLIENT_FINISHED"
        /\ \/ ~x.resume /\ y.st = "SERVER_CHANGE_CIPHER_SPEC"
           \/ x.resume /\ y.st = "HANDSHAKE_WRAPUP"
    BY <1>1, <1>4, <1>7, NextState DEF Finished
  <2>2. /\ UntilClient(x) /\ ~UntilClient(y) /\ (UntilServer(x) => UntilServer(y))
        /\ x.resume => ~UntilServer(x)
        /\ ~x.resume => UntilServer(y)
    BY <1>4, <2>1 DEF UntilClient, UntilServer, Full, ToClient, ToServer
  <2>3. x.resume => Keyed(x.in, x.neg)
    BY <1>1, <1>7, <2>1, <2>2 DEF Fit, ToClient
  <2>4. y.st \in Ending => x.resume
    BY <2>1 DEF Ending
  <2>5. Fit(s, y)
    BY <1>1, <1>4, <1>5, <1>6, <1>7, <2>1, <2>2, <2>3, <2>4
    DEF Fit, Whole, Full, ToClient, ToServer, Ending
  <2>6. (Waits(s, x) => Waits(s, y)) /\ Owes(s, x) /\ ~Owes(s, y)
    BY <1>7, <2>2 DEF Waits, Owes
  <2> QED BY <1>1, <1>2, <1>4, <1>6, <2>5, <2>6, SayTurns
<1>8. CASE s = "srv"
  <2>0. s # "cli"
    BY <1>8
  <2>1. /\ x.st = "SERVER_FINISHED"
        /\ \/ ~x.resume /\ y.st = "FLUSH_BUFFERS"
           \/ x.resume /\ y.st = "CLIENT_CHANGE_CIPHER_SPEC"
    BY <1>1, <1>4, <2>0, NextState DEF Finished
  <2>2. /\ UntilServer(x) /\ ~UntilServer(y) /\ (UntilClient(x) => UntilClient(y))
        /\ ~x.resume => ~UntilClient(x)
        /\ x.resume => UntilClient(y)
    BY <1>4, <2>1 DEF UntilClient, UntilServer, Full, ToClient, ToServer
  <2>3. ~x.resume => Keyed(x.in, x.neg)
    BY <1>1, <2>0, <2>1, <2>2 DEF Fit, ToServer
  <2>5. Fit(s, y)
    BY <1>1, <1>4, <1>5, <1>6, <2>0, <2>1, <2>2, <2>3
    DEF Fit, Whole, Full, ToClient, ToServer, Ending
  <2>6. (Waits(s, x) => Waits(s, y)) /\ Owes(s, x) /\ ~Owes(s, y)
    BY <2>0, <2>2 DEF Waits, Owes
  <2> QED BY <1>1, <1>2, <1>4, <1>6, <2>5, <2>6, SayTurns
<1> QED BY <1>7, <1>8 DEF Ends

\* ssl_parse_finished: s waits for nothing any more, and reads with the keys of the session.
LEMMA ParseFinishedTurns ==
  ASSUME Agreeing, NEW s \in Ends, ParseFinished(s), ssl'[Peer(s)] = ssl[Peer(s)]
  PROVE  Turn(s)
<1> DEFINE x == ssl[s]
           h == Heard(s)
           z == [h EXCEPT !.in = KeysOf(Peer(s), x), !.peer = Remembered(s)]
           y == Ended(s, z, FALSE)
<1>1. /\ DOMAIN x = ContextFields /\ Fit(s, x) /\ x.err = "OK" /\ Whole(s, x)
      /\ x.st = Finished(Peer(s)) /\ wire[s] # <<>> /\ Msg(s).msg = "FINISHED"
      /\ Head(wire[s]).keys = InKeys(s) /\ Peer(s) \in Ends
      /\ DOMAIN h = ContextFields /\ Twin(h, x) /\ h.neg = x.neg
  BY AgreeingFacts, Peers DEF ParseFinished, At, CameAs, Comes
<1>2. \/ Fail(s, "FINISHED")
      \/ Hear(s, y) /\ Msg(s).verify = Verify(Peer(s), x)
  BY DEF ParseFinished
<1>3. /\ DOMAIN z = ContextFields /\ z.resume = x.resume /\ z.held = x.held /\ z.neg = x.neg
      /\ z.sess = x.sess /\ z.st = x.st /\ z.out = x.out /\ z.own = x.own
      /\ z.in = KeysOf(Peer(s), x) /\ z.peer = Verify(Peer(s), x)
  BY <1>1 DEF ContextFields, Twin, SameKeys, Remembered
<1> HIDE DEF z
<1>4. /\ DOMAIN y = ContextFields /\ y.resume = x.resume /\ y.held = x.held /\ y.neg = x.neg
      /\ y.sess = x.sess /\ y.out = x.out /\ y.own = x.own
      /\ y.in = KeysOf(Peer(s), x) /\ y.peer = Verify(Peer(s), x)
      /\ y.st = IF ~x.resume THEN After(x.st)
                ELSE IF s = "cli" THEN "CLIENT_CHANGE_CIPHER_SPEC" ELSE "HANDSHAKE_WRAPUP"
  <2>1. /\ DOMAIN y = ContextFields /\ y.resume = z.resume /\ y.held = z.held
        /\ y.neg = z.neg /\ y.sess = z.sess /\ SameKeys(y, z)
        /\ y.st = IF ~z.resume THEN After(z.st)
                  ELSE IF (s = "cli") = FALSE THEN "HANDSHAKE_WRAPUP"
                  ELSE "CLIENT_CHANGE_CIPHER_SPEC"
    BY <1>3, EndedFields
  <2> QED BY <1>3, <2>1 DEF SameKeys
<1> HIDE DEF y
<1>5. Keyed(y.in, y.neg) /\ Keyed(y.out, y.neg) = Keyed(x.out, x.neg)
  BY <1>4 DEF Keyed, KeysOf
<1>6. ~Mistaken(x) /\ ~Mistaken(y)
  BY <1>1, <1>4 DEF Fit, Mistaken, Finished
<1>7. CASE Fail(s, "FINISHED")
  BY <1>1, <1>7, FailTurns
<1>8. ASSUME Hear(s, y), Msg(s).verify = Verify(Peer(s), x), s = "cli" PROVE Turn(s)
  <2>1. /\ x.st = "SERVER_FINISHED" /\ Head(wire[s]).keys = y.in
        /\ \/ ~x.resume /\ y.st = "FLUSH_BUFFERS"
           \/ x.resume /\ y.st = "CLIENT_CHANGE_CIPHER_SPEC"
    BY <1>1, <1>4, <1>8, NextState DEF Finished, Peer, InKeys
  <2>2. /\ UntilServer(x) /\ ~UntilServer(y) /\ (UntilClient(y) => UntilClient(x))
        /\ ~x.resume => ~UntilClient(x)
        /\ x.resume => UntilClient(y)
    BY <1>4, <2>1 DEF UntilClient, UntilServer, Full, ToClient, ToServer
  <2>3. ~x.resume => Keyed(x.out, x.neg)
    BY <1>1, <1>8, <2>1, <2>2 DEF Fit, ToServer
  <2>4. Fit(s, y)
    BY <1>1, <1>4, <1>5, <1>6, <1>8, <2>1, <2>2, <2>3
    DEF Fit, Whole, Full, ToClient, ToServer, Ending
  <2>5. Owes(s, y) => Owes(s, x)
    BY <1>8, <2>2 DEF Owes
  <2> QED BY <1>1, <1>4, <1>6, <1>8, <2>1, <2>4, <2>5, ReadTurns
<1>9. ASSUME Hear(s, y), Msg(s).verify = Verify(Peer(s), x), s # "cli" PROVE Turn(s)
  <2>1. /\ x.st = "CLIENT_FINISHED" /\ Head(wire[s]).keys = y.in
        /\ \/ ~x.resume /\ y.st = "SERVER_CHANGE_CIPHER_SPEC"
           \/ x.resume /\ y.st = "HANDSHAKE_WRAPUP"
    BY <1>1, <1>4, <1>9, NextState DEF Finished, Peer, InKeys
  <2>2. /\ UntilClient(x) /\ ~UntilClient(y) /\ (UntilServer(y) => UntilServer(x))
        /\ x.resume => ~UntilServer(x)
        /\ ~x.resume => UntilServer(y)
    BY <1>4, <2>1 DEF UntilClient, UntilServer, Full, ToClient, ToServer
  <2>3. x.resume => Keyed(x.out, x.neg)
    BY <1>1, <1>9, <2>1, <2>2 DEF Fit, ToClient
  <2>4. Fit(s, y)
    BY <1>1, <1>4, <1>5, <1>6, <1>9, <2>1, <2>2, <2>3
    DEF Fit, Whole, Full, ToClient, ToServer, Ending
  <2>5. Owes(s, y) => Owes(s, x)
    BY <1>9, <2>2 DEF Owes
  <2> QED BY <1>1, <1>4, <1>6, <1>9, <2>1, <2>4, <2>5, ReadTurns
<1> QED BY <1>2, <1>7, <1>8, <1>9

\* ssl_handshake_wrapup: the session made is the one of the keys.
LEMMA WrapupTurns ==
  ASSUME Agreeing, NEW s \in Ends, Wrapup(s), ssl'[Peer(s)] = ssl[Peer(s)]
  PROVE  Turn(s)
<1> DEFINE x == ssl[s]
           d == [Fresh(x) EXCEPT !.sess = x.neg, !.st = "HANDSHAKE_OVER"]
           y == IF x.reneg = "RENEGOTIATION" THEN [d EXCEPT !.reneg = "DONE", !.seen = 0] ELSE d
<1>1. /\ DOMAIN x = ContextFields /\ Fit(s, x) /\ x.err = "OK" /\ Whole(s, x)
      /\ x.st = "HANDSHAKE_WRAPUP"
  BY AgreeingFacts DEF Wrapup, At
<1>2. Move(s, y)
  BY DEF Wrapup
<1>3. /\ DOMAIN d = ContextFields /\ d.st = "HANDSHAKE_OVER" /\ ~d.resume /\ d.sess = x.neg
      /\ d.neg = NoSession /\ d.held = x.held /\ SameKeys(d, x)
  BY <1>1 DEF Fresh, ContextFields, SameKeys
<1> HIDE DEF d
<1>4. /\ DOMAIN y = ContextFields /\ y.st = "HANDSHAKE_OVER" /\ ~y.resume /\ y.sess = x.neg
      /\ y.neg = NoSession /\ y.held = x.held /\ SameKeys(y, x)
  BY <1>3 DEF ContextFields, SameKeys
<1> HIDE DEF y
<1>5. ~UntilClient(x) /\ ~UntilServer(x) /\ ~UntilClient(y) /\ ~UntilServer(y)
  BY <1>1, <1>4 DEF UntilClient, UntilServer, Full, ToClient, ToServer
<1>6. ~Mistaken(x) /\ ~Mistaken(y)
  BY <1>1, <1>4 DEF Fit, Mistaken
<1>7. Keyed(x.in, x.neg) /\ Keyed(x.out, x.neg)
  BY <1>1, <1>5 DEF Fit, Ending
<1>8. Keyed(y.in, y.sess) /\ Keyed(y.out, y.sess)
  BY <1>4, <1>7 DEF SameKeys
<1>9. Whole(s, y)
  BY <1>1, <1>4, NewShapes DEF Whole
<1>10. Fit(s, y)
  BY <1>4, <1>6, <1>8, <1>9 DEF Fit, Whole, ToClient, ToServer, Ending
<1>11. ~Waits(s, x) /\ ~Owes(s, y)
  BY <1>5 DEF Waits, Owes
<1> QED BY <1>1, <1>2, <1>4, <1>6, <1>10, <1>11, ReadTurns DEF SameKeys

\* The programs' calls outside a handshake, and data in a renegotiation.
LEMMA ProgramTurns ==
  ASSUME Agreeing, NEW s \in Ends, ssl'[Peer(s)] = ssl[Peer(s)],
         ReadHandshake(s) \/ Renegotiate(s) \/ Close(s) \/ Write(s) \/ ReadData(s)
  PROVE  Turn(s)
<1> DEFINE x == ssl[s]
<1>1. /\ DOMAIN x = ContextFields /\ Fit(s, x) /\ x.err = "OK" /\ Whole(s, x) /\ Twin(x, x)
      /\ Hello(s) \in {"CLIENT_HELLO", "SERVER_HELLO"}
  BY AgreeingFacts DEF ReadHandshake, Renegotiate, Close, Write, ReadData, Over, At,
                       WaitsInRenegotiation, Hello, Twin, SameKeys
<1>2. CASE ReadHandshake(s)
  <2>1. /\ wire[s] # <<>> /\ Over(s)
        /\ \/ Fail(s, "UNEXPECTED")
           \/ Answer(s, x, "no_renegotiation")
           \/ s = "cli" /\ Msg(s).msg = "HELLO_REQUEST" /\ Hear(s, Renewed(x))
           \/ Move(s, Renewed(x))
    BY <1>2 DEF ReadHandshake, Comes
  <2>2. ~Waits(s, x)
    BY <2>1 DEF Over, Waits, UntilClient, UntilServer, Full, ToClient, ToServer
  <2>3. CASE Fail(s, "UNEXPECTED")
    BY <1>1, <2>1, <2>3, FailTurns
  <2>4. CASE Answer(s, x, "no_renegotiation")
    <3>1. Plain(s, x)
      BY <2>1, <2>2, <2>4 DEF Plain
    <3> QED BY <1>1, <3>1, TwinTurns
  <2>5. CASE Move(s, Renewed(x)) \/ (Msg(s).msg = "HELLO_REQUEST" /\ Hear(s, Renewed(x)))
    <3>1. Plain(s, Renewed(x))
      BY <2>1, <2>5 DEF Plain
    <3> QED BY <2>1, <3>1, RenewTurns
  <2> QED BY <2>1, <2>3, <2>4, <2>5
<1>3. CASE Renegotiate(s)
  <2> DEFINE y == [x EXCEPT !.reneg = "PENDING"]
             m == [msg |-> "HELLO_REQUEST"]
  <2>1. Over(s) /\ (Move(s, Renewed(x)) \/ Say(s, y, m)) /\ m.msg = "HELLO_REQUEST"
    BY <1>3 DEF Renegotiate
  <2>2. DOMAIN y = ContextFields /\ Twin(y, x) /\ Whole(s, y)
    BY <1>1 DEF ContextFields, Twin, SameKeys, Whole
  <2> HIDE DEF y, m
  <2>3. CASE Move(s, Renewed(x))
    <3>1. Plain(s, Renewed(x))
      BY <2>3 DEF Plain
    <3> QED BY <2>1, <3>1, RenewTurns
  <2>4. CASE Say(s, y, m)
    <3>1. Plain(s, y)
      BY <1>1, <2>1, <2>4 DEF Plain
    <3> QED BY <1>1, <2>2, <3>1, TwinTurns
  <2> QED BY <2>1, <2>3, <2>4
<1>4. CASE Close(s)
  <2> DEFINE y == [x EXCEPT !.err = "CLOSED"]
             m == [msg |-> "close_notify"]
  <2>1. Say(s, y, m) /\ m.msg = "close_notify"
    BY <1>4 DEF Close
  <2>2. DOMAIN y = ContextFields /\ Twin(y, x) /\ Whole(s, y)
    BY <1>1 DEF ContextFields, Twin, SameKeys, Whole
  <2> HIDE DEF y, m
  <2>3. Plain(s, y)
    BY <1>1, <2>1 DEF Plain
  <2> QED BY <1>1, <2>2, <2>3, TwinTurns
<1>5. CASE Write(s)
  <2> DEFINE m == [msg |-> "DATA", n |-> sent[s] + 1]
  <2>1. Say(s, x, m) /\ m.msg = "DATA"
    BY <1>5 DEF Write
  <2> HIDE DEF m
  <2>2. Plain(s, x)
    BY <1>1, <2>1 DEF Plain
  <2> QED BY <1>1, <2>2, TwinTurns
<1>6. CASE ReadData(s)
  <2> DEFINE counts == x.reneg \in {"PENDING", "RENEGOTIATION"}
             y == [x EXCEPT !.seen = IF counts THEN @ + 1 ELSE @]
  <2>1. /\ wire[s] # <<>> /\ Msg(s).msg # "FINISHED"
        /\ Fail(s, "RENEGOTIATION") \/ Hear(s, y)
    <3>1. "FINISHED" \in HandshakeMessages
      BY DEF HandshakeMessages
    <3> QED BY <1>6, <3>1 DEF ReadData, Comes
  <2>2. DOMAIN y = ContextFields /\ Twin(y, x) /\ Whole(s, y)
    BY <1>1 DEF ContextFields, Twin, SameKeys, Whole
  <2> HIDE DEF y
  <2>3. CASE Fail(s, "RENEGOTIATION")
    BY <1>1, <2>1, <2>3, FailTurns
  <2>4. CASE Hear(s, y)
    <3>1. Plain(s, y)
      BY <2>1, <2>4 DEF Plain
    <3> QED BY <1>1, <2>2, <3>1, TwinTurns
  <2> QED BY <2>1, <2>3, <2>4
<1> QED BY <1>2, <1>3, <1>4, <1>5, <1>6

\* Every step of an end takes its turn.
LEMMA EndTurns ==
  ASSUME Agreeing, NEW s \in Ends,
         \/ Handshake(s) \/ ReadHandshake(s) \/ Renegotiate(s) \/ Close(s)
         \/ Write(s) \/ ReadData(s)
  PROVE  Turn(s) /\ Shapes'
<1>0. ssl'[Peer(s)] = ssl[Peer(s)] /\ Shapes'
  BY EndSteps DEF Agreeing
<1> SUFFICES Turn(s)
  BY <1>0
<1>1. CASE Handshake(s)
  <2>1. CASE s = "cli" /\ ClientStep
    <3>1. ssl'["srv"] = ssl["srv"]
      BY <1>0, <2>1, Peers
    <3> QED BY <2>1, <3>1, ClientHelloTurns, ServerHelloTurns, HeldTurns, ClientKeyTurns
            DEF ClientStep
  <2>2. CASE s = "srv" /\ ServerStep
    <3>1. ssl'["cli"] = ssl["cli"]
      BY <1>0, <2>2, Peers
    <3> QED BY <2>2, <3>1, ParseHelloTurns, WriteHelloTurns, ServerKeyTurns
            DEF ServerStep
  <2>3. CASE Begin(s) \/ WriteCertificate(s) \/ SkipCertificate(s) \/ ParseCertificate(s)
    BY <1>0, <2>3, CertificateTurns
  <2>4. CASE \/ WriteChangeCipherSpec(s) \/ ParseChangeCipherSpec(s) \/ FlushBuffers(s)
             \/ Unexpected(s) \/ ReadFails(s)
    BY <1>0, <2>4, ChangeTurns
  <2>5. CASE WriteFinished(s) \/ ParseFinished(s) \/ Wrapup(s)
    BY <1>0, <2>5, WriteFinishedTurns, ParseFinishedTurns, WrapupTurns
  <2> QED BY <1>1, <2>1, <2>2, <2>3, <2>4, <2>5 DEF Handshake
<1>2. CASE ~Handshake(s)
  BY <1>0, <1>2, ProgramTurns
<1> QED BY <1>1, <1>2

\* Every step of an end keeps the invariant.
LEMMA EndAgrees ==
  ASSUME Agreeing, NEW s \in Ends,
         \/ Handshake(s) \/ ReadHandshake(s) \/ Renegotiate(s) \/ Close(s)
         \/ Write(s) \/ ReadData(s)
  PROVE  Agreeing'
<1>1. Turn(s) /\ Shapes'
  BY EndTurns
<1>2. saved' = saved
  BY DEF Handshake, ReadHandshake, Renegotiate, Close, Write, ReadData, envvars
<1> QED BY <1>1, <1>2, TurnAgrees

\* Between contexts that have just been set up nothing is to be said.
LEMMA NothingYet ==
  ASSUME NEW s \in Ends, NEW x, x.st = "HELLO_REQUEST", x.held = NoMsg, Whole(s, x)
  PROVE  Fit(s, x) /\ ~Waits(s, x) /\ ~Owes(s, x)
<1>1. ~UntilClient(x) /\ ~UntilServer(x) /\ ~Mistaken(x)
  BY DEF UntilClient, UntilServer, Mistaken, Full, ToClient, ToServer, NoMsg
<1> QED BY <1>1 DEF Fit, Whole, Full, ToClient, ToServer, Ending, Waits, Owes

\* Empty wires hold no token.
LEMMA NothingSent ==
  ASSUME NEW waits \in BOOLEAN, NEW owes \in BOOLEAN, ~waits, ~owes, NEW hello
  PROVE  Ring(waits, <<>>, hello, owes, <<>>)
BY EmptyDelivers DEF Ring, Has, Single

\* A context that is new, or was reset, has no keys and no verify data.
LEMMA NewFields ==
  /\ DOMAIN NewContext = ContextFields /\ NewContext.held = NoMsg
  /\ NewContext.in = NoKeys /\ NewContext.out = NoKeys /\ NewContext.own = NoInfo
  /\ NewContext.peer = NoInfo /\ NewContext.sess = NoSession
  /\ \A x : /\ DOMAIN Reset(x) = ContextFields /\ Reset(x).held = NoMsg
           /\ Reset(x).in = NoKeys /\ Reset(x).out = NoKeys /\ Reset(x).own = NoInfo
           /\ Reset(x).peer = NoInfo /\ Reset(x).sess = NoSession
BY DEF NewContext, Reset, ContextFields

\* A new connection has nothing to agree on yet.
LEMMA ConnectAgrees ==
  ASSUME Agreeing, Connect
  PROVE  Agreeing'
<1> DEFINE kept == IF ssl["cli"].sess # NoSession THEN ssl["cli"].sess ELSE saved
           x == Reset(ssl["cli"])
           y == [x EXCEPT !.neg = kept, !.resume = TRUE]
           c == IF kept = NoSession THEN x ELSE y
           v == Reset(ssl["srv"])
<1>1. /\ wire' = [s \in Ends |-> <<>>] /\ saved' = kept /\ ssl' = [cli |-> c, srv |-> v]
  BY DEF Connect
<1>2. Shapes'
  BY ConnectDelivers DEF Delivered
<1>3. DOMAIN kept = SessionFields
  BY Peers DEF Agreeing, Fit
<1>4. /\ x.st = "HELLO_REQUEST" /\ x.held = NoMsg /\ x.in = NoKeys /\ x.out = NoKeys
      /\ x.own = NoInfo /\ x.peer = NoInfo /\ x.neg = NoSession /\ x.sess = NoSession
      /\ DOMAIN x = ContextFields
      /\ v.st = "HELLO_REQUEST" /\ v.held = NoMsg /\ v.in = NoKeys /\ v.out = NoKeys
      /\ v.own = NoInfo /\ v.peer = NoInfo
  BY NewContexts, NewFields
<1> HIDE DEF kept, x, v
<1>5. /\ c.st = "HELLO_REQUEST" /\ c.held = NoMsg /\ c.in = NoKeys /\ c.out = NoKeys
      /\ c.own = NoInfo /\ c.peer = NoInfo /\ c.sess = NoSession /\ DOMAIN c.neg = SessionFields
  <2>1. CASE c = x
    BY <1>4, <2>1, NewShapes
  <2>2. CASE c = y
    BY <1>3, <1>4, <2>2 DEF ContextFields
  <2> QED BY <2>1, <2>2
<1> HIDE DEF c
<1>6. ssl'["cli"] = c /\ ssl'["srv"] = v
  BY <1>1
<1>7. \A s \in Ends : /\ wire'[s] = <<>> /\ ssl'[s].st = "HELLO_REQUEST"
                      /\ ssl'[s].held = NoMsg /\ Whole(s, ssl'[s])
                      /\ ssl'[s].in = NoKeys /\ ssl'[s].out = NoKeys
                      /\ ssl'[s].own = NoInfo /\ ssl'[s].peer = NoInfo
  BY <1>1, <1>4, <1>5, <1>6, NewShapes DEF Ends, Whole
<1>8. (DOMAIN saved = SessionFields)'
  BY <1>1, <1>3
<1>9. ASSUME NEW s \in Ends PROVE (Fit(s, ssl[s]) /\ RingOf(s) /\ Matches(s))'
  <2>1. /\ Peer(s) \in Ends /\ wire'[s] = <<>> /\ wire'[Peer(s)] = <<>>
    BY <1>7, Peers
  <2>2. Fit(s, ssl'[s]) /\ ~Waits(s, ssl'[s]) /\ ~Owes(Peer(s), ssl'[Peer(s)])
    BY <1>7, <2>1, NothingYet
  <2>3. RingOf(s)'
    BY <2>1, <2>2, Booleans, NothingSent DEF RingOf
  <2>4. Matches(s)'
    BY <1>7, <2>1, EmptyDelivers DEF Matches
  <2> QED BY <2>2, <2>3, <2>4
<1> QED BY <1>2, <1>8, <1>9 DEF Agreeing

\* The invariant holds at the start.
LEMMA InitAgrees == Init => Agreeing
<1> SUFFICES ASSUME Init PROVE Agreeing
  OBVIOUS
<1>1. Shapes
  BY InitDelivers DEF Delivered
<1>2. /\ DOMAIN saved = SessionFields
      /\ \A s \in Ends : ssl[s] = NewContext /\ wire[s] = <<>>
  BY NewShapes DEF Init
<1>3. ASSUME NEW s \in Ends PROVE Fit(s, ssl[s]) /\ RingOf(s) /\ Matches(s)
  <2>1. \A t \in Ends : Fit(t, ssl[t]) /\ ~Waits(t, ssl[t]) /\ ~Owes(t, ssl[t])
    <3>1. ASSUME NEW t \in Ends
          PROVE  Fit(t, ssl[t]) /\ ~Waits(t, ssl[t]) /\ ~Owes(t, ssl[t])
      <4>1. Whole(t, NewContext)
        BY NewContexts, NewFields, NewShapes DEF Whole
      <4>2. /\ NewContext.st = "HELLO_REQUEST" /\ NewContext.held = NoMsg
            /\ ssl[t] = NewContext
        BY <1>2, NewContexts, NewFields
      <4> QED BY <4>1, <4>2, NothingYet
    <3> QED BY <3>1
  <2>2. Peer(s) \in Ends
    BY Peers
  <2>3. RingOf(s)
    BY <1>2, <2>1, <2>2, Booleans, NothingSent DEF RingOf
  <2>4. Matches(s)
    <3>1. /\ wire[s] = <<>> /\ ssl[s].in = NoKeys /\ ssl[Peer(s)].out = NoKeys
          /\ ssl[s].peer = NoInfo /\ ssl[Peer(s)].own = NoInfo
      BY <1>2, <2>2, NewFields
    <3> QED BY <3>1, EmptyDelivers DEF Matches
  <2> QED BY <2>1, <2>3, <2>4
<1> QED BY <1>1, <1>2, <1>3 DEF Agreeing

\* Every step keeps the invariant.
LEMMA NextAgrees == Agreeing /\ [Next]_vars => Agreeing'
<1> SUFFICES ASSUME Agreeing, [Next]_vars PROVE Agreeing'
  OBVIOUS
<1>1. ASSUME UNCHANGED <<ssl, wire, saved>> PROVE Agreeing'
  BY <1>1 DEF Agreeing, Shapes, RingOf, Matches
<1>2. CASE Tick \/ OtherClient \/ Reboot
  BY <1>1, <1>2 DEF Tick, OtherClient, Reboot, hsvars
<1>3. CASE UNCHANGED vars
  BY <1>1, <1>3 DEF vars
<1> QED BY <1>2, <1>3, EndAgrees, ConnectAgrees DEF Next

\* When both ends are done they hold the same session, each reads with the keys the
\* other writes with, and each has kept the verify data of the other, for every order of
\* their handlers, of data, alerts, renegotiations of either side and reconnections.
THEOREM EndsAgree == Spec => []Agreement
<1>1. Agreeing => Agreement
  <2> SUFFICES ASSUME Agreeing, \A s \in Ends : Over(s) PROVE Agreement
    BY DEF Agreement
  <2>1. ASSUME NEW s \in Ends
        PROVE  /\ ssl[s].in = ssl[Peer(s)].out /\ ssl[s].peer = ssl[Peer(s)].own
               /\ Keyed(ssl[s].in, ssl[s].sess) /\ Keyed(ssl[s].out, ssl[s].sess)
    <3>1. ssl[s].st = "HANDSHAKE_OVER" /\ ssl[s].err = "OK"
      BY DEF Over
    <3>2. Fit(s, ssl[s]) /\ RingOf(s) /\ Matches(s)
      BY DEF Agreeing
    <3>3. ~Mistaken(ssl[s])
      BY <3>1, <3>2 DEF Fit
    <3>4. ~Waits(s, ssl[s])
      BY <3>1 DEF Waits, UntilClient, UntilServer, Full, ToClient, ToServer
    <3>5. ~Has(wire[s], "FINISHED")
      BY <3>2, <3>4 DEF RingOf, Ring
    <3> QED BY <3>1, <3>2, <3>3, <3>5 DEF Matches, Fit
  <2>2. /\ "cli" \in Ends /\ "srv" \in Ends /\ Peer("cli") = "srv" /\ Peer("srv") = "cli"
    BY Peers
  <2>3. /\ ssl["cli"].sess.suite = ssl["srv"].sess.suite
        /\ ssl["cli"].sess.master = ssl["srv"].sess.master
    BY <2>1, <2>2 DEF Keyed
  <2> QED BY <2>1, <2>3 DEF Agreement, Keyed
<1> QED BY <1>1, InitAgrees, NextAgrees, PTL DEF Spec

=============================================================================
