--------------------------- MODULE TlsSessionProofs ---------------------------
(***************************************************************************)
(* Proofs about the sessions of TlsHandshake: what the server resumes, from *)
(* its cache or by a ticket, was made by a full handshake with the client   *)
(* and is no older than sessions get.                                       *)
(***************************************************************************)
EXTENDS TlsHandshakeProofs

-----------------------------------------------------------------------------
(* What the ends, the cache and the records know of sessions.               *)

\* The states in which the key exchange is over, and those of them from which a server
\* that makes a session comes to the end of the handshake without reading.
Secret == {"CERTIFICATE_VERIFY", "CLIENT_CHANGE_CIPHER_SPEC", "CLIENT_FINISHED",
  "SERVER_CHANGE_CIPHER_SPEC", "SERVER_FINISHED", "FLUSH_BUFFERS", "HANDSHAKE_WRAPUP"}
Certain == {"SERVER_CHANGE_CIPHER_SPEC", "SERVER_FINISHED", "FLUSH_BUFFERS",
  "HANDSHAKE_WRAPUP"}

\* The suite f says belongs to the server's random value n, of those drawn up to d.
Bond(f, d, n, suite) == n \in Nat /\ n <= d /\ f[n] = suite

\* A session is of the suite that was chosen along with the random value in its secret.
Bonded(f, d, n) == Bond(f, d, n.master[4], n.suite)

\* What a context has of that, whoever's it is.
Chose(f, d, x) ==
  /\ ~x.resume /\ x.st \in Making => Bond(f, d, x.sr, x.neg.suite)
  /\ ~x.resume /\ x.st \in Secret => x.neg.master[4] = x.sr

\* An entry of the cache is a session that was made, of its age.
Genuine(mds, e) == \E m \in mds : m.session = e.session /\ e.stamp = e.session.start

\* The entries c of the cache that have the id n are genuine.
Known(c, mds, d, n) ==
  /\ n \in Nat /\ n <= d
  /\ \A i \in 1..Len(c) : n # 0 /\ c[i].session.id = n => Genuine(mds, c[i])

\* The server, whose context is v, is about to make the session it works with.
Sure(v) == ~v.resume /\ v.st \in Certain

\* What a ticket is: of a session that was made or is about to be, or too old ever to be
\* accepted, as those are that the server issues in a resumption.
Issued(mds, v, t) ==
  \/ t = NoTicket \/ t.state.start = 0
  \/ \E m \in mds : m.session = t.state
  \/ Sure(v) /\ v.neg = t.state

\* What the client knows a session by.
Presents(c, mds, d, v, n) == Known(c, mds, d, n.id) /\ Issued(mds, v, n.ticket)

\* The client's context x.
ClientKnows(f, c, mds, d, v, x) ==
  /\ Presents(c, mds, d, v, x.neg) /\ Presents(c, mds, d, v, x.sess)
  /\ Chose(f, d, x)
  /\ x.resume => Bonded(f, d, x.neg)
  /\ x.sess # NoSession => Bonded(f, d, x.sess)

\* A session is still young enough at the time t.
Young(t, n) == Timeout = 0 \/ t - n.start <= Timeout \/ t - n.start <= TicketLifetime

\* The session n has what one that was made has: all but the suite, and all.
Kin(n, m) == n.master = m.master /\ n.verify = m.verify /\ n.cert = m.cert
Grounded(mds, t, n) == \E m \in mds : Kin(n, m.session) /\ Young(t, m.session)
Firm(mds, t, n) ==
  \E m \in mds : Kin(n, m.session) /\ n.suite = m.session.suite /\ Young(t, m.session)

\* The server's context v, at the time t.
ServerKnows(f, c, mds, d, t, v) ==
  /\ DOMAIN v.neg = SessionFields /\ Known(c, mds, d, v.neg.id)
  /\ Chose(f, d, v)
  /\ ~v.resume /\ v.st \in Making => v.neg.start = t
  /\ ~v.resume /\ v.st \in {"HELLO_REQUEST", "CLIENT_HELLO", "SERVER_HELLO"} => v.neg.start = 0
  /\ v.st \in {"HELLO_REQUEST", "CLIENT_HELLO"} => ~v.resume /\ ~v.due
  /\ v.resume => Grounded(mds, t, v.neg) /\ (v.due => v.neg.start = 0)
  /\ v.resume /\ v.st = "HANDSHAKE_WRAPUP" => Firm(mds, t, v.neg)
  /\ v.st = "HANDSHAKE_OVER" => Firm(mds, t, v.sess)
  /\ Sure(v) => v.err = "OK"

\* What the records on the wires say.
ToldServer(f, c, mds, d, v, r) ==
  /\ r.m.msg = "CLIENT_HELLO" => Known(c, mds, d, r.m.id) /\ Issued(mds, v, r.m.ticket)
  /\ r.m.msg = "FINISHED" => Bond(f, d, r.keys[3][4], r.keys[2])
ToldClient(f, c, mds, d, v, r) ==
  /\ r.m.msg = "SERVER_HELLO" => Known(c, mds, d, r.m.id) /\ Bond(f, d, r.m.rnd, r.m.suite)
  /\ r.m.msg = "NEW_SESSION_TICKET" => Issued(mds, v, r.m.ticket)

\* The sessions that were made.
Records(f, d, mds) ==
  \A m \in mds : /\ DOMAIN m.session = SessionFields /\ m.session.start \in Nat
                 /\ Bonded(f, d, m.session)

\* All of it, for the choices f of the suites.
Traced(f) ==
  /\ ClientKnows(f, chain, made, draws, ssl["srv"], ssl["cli"])
  /\ ServerKnows(f, chain, made, draws, clock, ssl["srv"])
  /\ Presents(chain, made, draws, ssl["srv"], saved)
  /\ saved # NoSession => Bonded(f, draws, saved)
  /\ \A i \in 1..Len(wire["srv"]) :
       ToldServer(f, chain, made, draws, ssl["srv"], wire["srv"][i])
  /\ \A i \in 1..Len(wire["cli"]) :
       ToldClient(f, chain, made, draws, ssl["srv"], wire["cli"][i])
  /\ Records(f, draws, made)

\* The inductive invariant of the sessions.
Tracing == Cached /\ Agreeing /\ Start <= clock /\ \E f : Traced(f)

\* The chain, the sessions made, what was drawn and the server's context go from
\* c, mds, d, v to k, mdt, e, w without a trace being lost.
Grows(c, mds, d, v, k, mdt, e, w) ==
  /\ d \in Nat /\ e \in Nat /\ d <= e /\ mds \subseteq mdt
  /\ \A j \in 1..Len(k) : \/ Genuine(mdt, k[j]) \/ (\E i \in 1..Len(c) : c[i] = k[j])
                          \/ k[j].session.id \in Nat /\ k[j].session.id > d
  /\ Sure(v) => (Sure(w) /\ w.neg = v.neg) \/ \E m \in mdt : m.session = v.neg

\* What was known stays known.
LEMMA Carried ==
  ASSUME NEW c, NEW mds, NEW d, NEW v, NEW k, NEW mdt, NEW e, NEW w,
         Grows(c, mds, d, v, k, mdt, e, w)
  PROVE  /\ \A n : Known(c, mds, d, n) => Known(k, mdt, e, n)
         /\ \A t : Issued(mds, v, t) => Issued(mdt, w, t)
         /\ \A f, n, u : Bond(f, d, n, u) => Bond(f, e, n, u)
<1>1. ASSUME NEW n, Known(c, mds, d, n) PROVE Known(k, mdt, e, n)
  <2>1. n \in Nat /\ n <= d /\ d \in Nat /\ e \in Nat /\ d <= e
    BY <1>1 DEF Known, Grows
  <2>2. ASSUME NEW j \in 1..Len(k), n # 0, k[j].session.id = n PROVE Genuine(mdt, k[j])
    <3>1. CASE \E i \in 1..Len(c) : c[i] = k[j]
      BY <1>1, <2>2, <3>1 DEF Known, Genuine, Grows
    <3>2. CASE k[j].session.id \in Nat /\ k[j].session.id > d
      BY <2>1, <2>2, <3>2
    <3> QED BY <3>1, <3>2 DEF Grows
  <2> QED BY <2>1, <2>2 DEF Known
<1>2. ASSUME NEW t, Issued(mds, v, t) PROVE Issued(mdt, w, t)
  BY <1>2 DEF Issued, Grows
<1>3. ASSUME NEW f, NEW n, NEW u, Bond(f, d, n, u) PROVE Bond(f, e, n, u)
  BY <1>3 DEF Bond, Grows
<1> QED BY <1>1, <1>2, <1>3

\* So is what the ends, the records and the program know.
LEMMA CarriedOver ==
  ASSUME NEW c, NEW mds, NEW d, NEW v, NEW k, NEW mdt, NEW e, NEW w,
         Grows(c, mds, d, v, k, mdt, e, w), NEW f
  PROVE  /\ \A n : Presents(c, mds, d, v, n) => Presents(k, mdt, e, w, n)
         /\ \A n : Bonded(f, d, n) => Bonded(f, e, n)
         /\ \A x : Chose(f, d, x) => Chose(f, e, x)
         /\ \A x : ClientKnows(f, c, mds, d, v, x) => ClientKnows(f, k, mdt, e, w, x)
         /\ \A r : ToldServer(f, c, mds, d, v, r) => ToldServer(f, k, mdt, e, w, r)
         /\ \A r : ToldClient(f, c, mds, d, v, r) => ToldClient(f, k, mdt, e, w, r)
         /\ \A t, n : Grounded(mds, t, n) => Grounded(mdt, t, n)
         /\ \A t, n : Firm(mds, t, n) => Firm(mdt, t, n)
<1>1. /\ \A n : Known(c, mds, d, n) => Known(k, mdt, e, n)
      /\ \A t : Issued(mds, v, t) => Issued(mdt, w, t)
      /\ \A n, u : Bond(f, d, n, u) => Bond(f, e, n, u)
  BY Carried
<1>2. \A n : Presents(c, mds, d, v, n) => Presents(k, mdt, e, w, n)
  BY <1>1 DEF Presents
<1>3. \A n : Bonded(f, d, n) => Bonded(f, e, n)
  BY <1>1 DEF Bonded
<1>4. \A x : Chose(f, d, x) => Chose(f, e, x)
  BY <1>1 DEF Chose
<1>5. \A x : ClientKnows(f, c, mds, d, v, x) => ClientKnows(f, k, mdt, e, w, x)
  BY <1>2, <1>3, <1>4 DEF ClientKnows
<1>6. \A r : ToldServer(f, c, mds, d, v, r) => ToldServer(f, k, mdt, e, w, r)
  BY <1>1 DEF ToldServer
<1>7. \A r : ToldClient(f, c, mds, d, v, r) => ToldClient(f, k, mdt, e, w, r)
  BY <1>1 DEF ToldClient
<1>8. mds \subseteq mdt
  BY DEF Grows
<1>9. (\A t, n : Grounded(mds, t, n) => Grounded(mdt, t, n))
      /\ \A t, n : Firm(mds, t, n) => Firm(mdt, t, n)
  BY <1>8 DEF Grounded, Firm
<1> QED BY <1>2, <1>3, <1>4, <1>5, <1>6, <1>7, <1>9

\* Contexts that agree in what is said here of sessions.
Near(y, x) == /\ y.st = x.st /\ y.resume = x.resume /\ y.neg = x.neg /\ y.sess = x.sess
              /\ y.sr = x.sr /\ y.due = x.due /\ y.err = x.err

\* Records that were on the wire, or are the new one.
LEMMA OnTheWire ==
  ASSUME NEW w, IsSequence(w)
  PROVE  /\ w # <<>> => /\ \A i \in 1..Len(Tail(w)) : \E j \in 1..Len(w) : Tail(w)[i] = w[j]
                        /\ Head(w) = w[1] /\ 1 \in 1..Len(w)
         /\ \A r : \A i \in 1..Len(Append(w, r)) :
              Append(w, r)[i] = r \/ \E j \in 1..Len(w) : Append(w, r)[i] = w[j]
<1>1. ASSUME w # <<>>
      PROVE  /\ \A i \in 1..Len(Tail(w)) : \E j \in 1..Len(w) : Tail(w)[i] = w[j]
             /\ Head(w) = w[1] /\ 1 \in 1..Len(w)
  <2>1. /\ Len(Tail(w)) = Len(w) - 1 /\ Len(w) \in Nat \ {0} /\ Head(w) = w[1]
        /\ \A i \in 1..Len(Tail(w)) : Tail(w)[i] = w[i + 1]
    BY <1>1, Shortened
  <2>2. \A i \in 1..Len(Tail(w)) : i + 1 \in 1..Len(w)
    BY <2>1
  <2> QED BY <2>1, <2>2
<1>2. ASSUME NEW r, NEW i \in 1..Len(Append(w, r))
      PROVE  Append(w, r)[i] = r \/ \E j \in 1..Len(w) : Append(w, r)[i] = w[j]
  <2>1. /\ Len(Append(w, r)) = Len(w) + 1 /\ Len(w) \in Nat /\ Append(w, r)[Len(w) + 1] = r
        /\ \A j \in 1..Len(w) : Append(w, r)[j] = w[j]
    BY Appended
  <2>2. i = Len(w) + 1 \/ i \in 1..Len(w)
    BY <2>1
  <2> QED BY <2>1, <2>2
<1> QED BY <1>1, <1>2

\* The four ways an end steps, as far as they matter here.
LEMMA NearSteps ==
  ASSUME Shapes, NEW s \in Ends, NEW y, DOMAIN y = ContextFields
  PROVE  /\ \A m : Say(s, y, m) =>
              /\ Near(ssl'[s], y) /\ wire'[s] = wire[s]
              /\ wire'[Peer(s)] = Append(wire[Peer(s)], [keys |-> y.out, m |-> m])
         /\ Move(s, y) => Near(ssl'[s], y) /\ wire'[s] = wire[s] /\ wire'[Peer(s)] = wire[Peer(s)]
         /\ Hear(s, y) => /\ Near(ssl'[s], y) /\ wire'[s] = Tail(wire[s])
                          /\ wire'[Peer(s)] = wire[Peer(s)]
         /\ \A a : Answer(s, y, a) =>
              /\ Near(ssl'[s], y) /\ wire'[s] = Tail(wire[s])
              /\ wire'[Peer(s)] = Append(wire[Peer(s)], [keys |-> ssl[s].out, m |-> [msg |-> a]])
<1>0. /\ Peer(s) \in Ends /\ Peer(s) # s /\ DOMAIN ssl = Ends /\ DOMAIN wire = Ends
  BY Peers DEF Shapes
<1>1. ASSUME NEW m, Say(s, y, m)
      PROVE  /\ Near(ssl'[s], y) /\ wire'[s] = wire[s]
             /\ wire'[Peer(s)] = Append(wire[Peer(s)], [keys |-> y.out, m |-> m])
  <2> DEFINE z == [y EXCEPT !.log = Append(@, Hashed(m))]
  <2>1. Near(z, y) /\ Near(y, y)
    BY DEF Near, ContextFields
  <2>2. ssl'[s] = y \/ ssl'[s] = z
    BY <1>0, <1>1 DEF Say
  <2>3. /\ wire'[s] = wire[s]
        /\ wire'[Peer(s)] = Append(wire[Peer(s)], [keys |-> y.out, m |-> m])
    BY <1>0, <1>1 DEF Say
  <2> HIDE DEF z
  <2> QED BY <2>1, <2>2, <2>3
<1>2. Near(y, y)
  BY DEF Near
<1>3. Move(s, y) => Near(ssl'[s], y) /\ wire'[s] = wire[s] /\ wire'[Peer(s)] = wire[Peer(s)]
  BY <1>0, <1>2 DEF Move
<1>4. Hear(s, y) => /\ Near(ssl'[s], y) /\ wire'[s] = Tail(wire[s])
                    /\ wire'[Peer(s)] = wire[Peer(s)]
  BY <1>0, <1>2 DEF Hear
<1>5. ASSUME NEW a, Answer(s, y, a)
      PROVE  /\ Near(ssl'[s], y) /\ wire'[s] = Tail(wire[s])
             /\ wire'[Peer(s)] = Append(wire[Peer(s)], [keys |-> ssl[s].out, m |-> [msg |-> a]])
  BY <1>0, <1>2, <1>5 DEF Answer
<1> QED BY <1>1, <1>3, <1>4, <1>5


-----------------------------------------------------------------------------
(* Steps that leave the session an end works with.                          *)

\* Before a server has chosen what to do about a hello, and before it has read one.
Early == {"HELLO_REQUEST", "CLIENT_HELLO", "SERVER_HELLO"}
Unasked == {"HELLO_REQUEST", "CLIENT_HELLO"}

\* From each of these an end may go on to the next, and knows no more of its session.
Plodding == (Making \ {"CLIENT_KEY_EXCHANGE", "HANDSHAKE_WRAPUP"}) \cup {"HELLO_REQUEST"}

\* s goes from a state x to a state y that says no more of its session.
Strolls(s, x, y) ==
  /\ ~x.resume => (y.st \in Making => x.st \in Making) /\ (y.st \in Secret => x.st \in Secret)
  /\ y.st \in Early => x.st \in Early
  /\ y.st \in Unasked => x.st \in Unasked
  /\ y.st = "HANDSHAKE_OVER" => x.st = "HANDSHAKE_OVER"
  /\ s = "srv" => /\ ~x.resume /\ x.st \in Certain => y.st \in Certain
                  /\ x.resume /\ y.st = "HANDSHAKE_WRAPUP" => x.st = "HANDSHAKE_WRAPUP"
                  /\ y.err = x.err \/ (y.st = x.st /\ x.st \notin Certain)

\* And it has the same session in hand, but for what a certificate says.
Still(s, x, y) ==
  /\ y.resume = x.resume /\ y.due = x.due /\ y.sess = x.sess /\ y.sr = x.sr
  /\ DOMAIN y.neg = DOMAIN x.neg /\ y.neg.id = x.neg.id /\ y.neg.ticket = x.neg.ticket
  /\ y.neg.suite = x.neg.suite /\ y.neg.master = x.neg.master /\ y.neg.start = x.neg.start
  /\ x.resume \/ Sure(x) => y.neg = x.neg
  /\ Strolls(s, x, y)

\* The record such a step writes, if any.
Told(s, r) ==
  /\ r.m.msg \notin {"CLIENT_HELLO", "SERVER_HELLO", "NEW_SESSION_TICKET"}
  /\ r.m.msg = "FINISHED" => r.keys = KeysOf(s, ssl[s]) /\ ssl[s].st = Finished(s)

\* The step as a whole.
Idles(s) ==
  /\ Still(s, ssl[s], ssl'[s])
  /\ \/ wire'[Peer(s)] = wire[Peer(s)]
     \/ \E r : Told(s, r) /\ wire'[Peer(s)] = Append(wire[Peer(s)], r)

\* The context is near one that is still the same, and what is written says nothing new.
LEMMA IdleSteps ==
  ASSUME Shapes, NEW s \in Ends, NEW y, DOMAIN y = ContextFields, Still(s, ssl[s], y),
         \/ \E m : /\ m.msg \notin {"CLIENT_HELLO", "SERVER_HELLO", "NEW_SESSION_TICKET"}
                   /\ m.msg = "FINISHED" => y.out = KeysOf(s, ssl[s]) /\ ssl[s].st = Finished(s)
                   /\ Say(s, y, m)
         \/ Move(s, y) \/ Hear(s, y)
         \/ \E a \in {"fatal", "no_renegotiation"} : Answer(s, y, a)
  PROVE  Idles(s)
<1>1. Near(ssl'[s], y) => Still(s, ssl[s], ssl'[s])
  BY DEF Near, Still, Strolls, Sure
<1>2. ASSUME NEW m, m.msg \notin {"CLIENT_HELLO", "SERVER_HELLO", "NEW_SESSION_TICKET"},
             m.msg = "FINISHED" => y.out = KeysOf(s, ssl[s]) /\ ssl[s].st = Finished(s),
             Say(s, y, m)
      PROVE  Idles(s)
  <2> DEFINE r == [keys |-> y.out, m |-> m]
  <2>1. Near(ssl'[s], y) /\ wire'[Peer(s)] = Append(wire[Peer(s)], r)
    BY <1>2, NearSteps
  <2>2. r.keys = y.out /\ r.m = m
    OBVIOUS
  <2> HIDE DEF r
  <2>3. Told(s, r)
    BY <1>2, <2>2 DEF Told
  <2> QED BY <1>1, <2>1, <2>3 DEF Idles
<1>3. CASE Move(s, y) \/ Hear(s, y)
  BY <1>1, <1>3, NearSteps DEF Idles
<1>4. ASSUME NEW a \in {"fatal", "no_renegotiation"}, Answer(s, y, a)
      PROVE  Idles(s)
  <2> DEFINE r == [keys |-> ssl[s].out, m |-> [msg |-> a]]
  <2>1. Near(ssl'[s], y) /\ wire'[Peer(s)] = Append(wire[Peer(s)], r)
    BY <1>4, NearSteps
  <2>2. r.m.msg = a
    OBVIOUS
  <2> HIDE DEF r
  <2>3. Told(s, r)
    BY <2>2 DEF Told
  <2> QED BY <1>1, <2>1, <2>3 DEF Idles
<1> QED BY <1>2, <1>3, <1>4

\* ssl->state++ in a state where nothing is learned.
LEMMA Plods ==
  ASSUME NEW s, NEW x, NEW y, x.st \in Plodding, y.st = After(x.st), y.err = x.err,
         x.st = "FLUSH_BUFFERS" => ~x.resume
  PROVE  Strolls(s, x, y)
<1>1. /\ x.st # "HANDSHAKE_WRAPUP" /\ x.st # "CLIENT_KEY_EXCHANGE"
      /\ x.st \in Making \/ x.st = "HELLO_REQUEST"
  BY DEF Plodding
<1>2. CASE x.st = "HELLO_REQUEST"
  <2>1. y.st = "CLIENT_HELLO"
    BY <1>2, NextState
  <2> QED BY <1>2, <2>1 DEF Strolls, Making, Judging, Secret, Early, Unasked, Certain
<1>3. CASE x.st \in {"SERVER_CERTIFICATE", "SERVER_KEY_EXCHANGE", "CERTIFICATE_REQUEST",
                     "SERVER_HELLO_DONE", "CLIENT_CERTIFICATE"}
  <2>1. /\ x.st \in Making /\ x.st \notin Certain
        /\ y.st \in {"SERVER_KEY_EXCHANGE", "CERTIFICATE_REQUEST", "SERVER_HELLO_DONE",
                     "CLIENT_CERTIFICATE", "CLIENT_KEY_EXCHANGE"}
    BY <1>3, NextState DEF Making, Certain
  <2>2. y.st \notin Secret \cup Early \cup Unasked \cup {"HANDSHAKE_OVER", "HANDSHAKE_WRAPUP"}
    BY <2>1 DEF Secret, Early, Unasked
  <2> QED BY <2>1, <2>2 DEF Strolls
<1>4. CASE x.st \in Secret \ {"HANDSHAKE_WRAPUP"}
  <2>1. /\ x.st \in Making /\ x.st \in Secret
        /\ x.st \in Certain => y.st \in Certain
        /\ y.st = "HANDSHAKE_WRAPUP" => ~x.resume
        /\ y.st \notin Early \cup Unasked \cup {"HANDSHAKE_OVER"}
    BY <1>4, NextState DEF Making, Judging, Secret, Certain, Early, Unasked
  <2> QED BY <2>1 DEF Strolls
<1>5. x.st \in Making => x.st \in Secret \/ x.st = "CLIENT_KEY_EXCHANGE" \/
        x.st \in {"SERVER_CERTIFICATE", "SERVER_KEY_EXCHANGE", "CERTIFICATE_REQUEST",
                  "SERVER_HELLO_DONE", "CLIENT_CERTIFICATE"}
  BY DEF Making, Judging, Secret
<1> QED BY <1>1, <1>2, <1>3, <1>4, <1>5

\* Staying in the state.
LEMMA Rests ==
  ASSUME NEW s, NEW x, NEW y, y.st = x.st, s = "srv" => y.err = x.err \/ x.st \notin Certain
  PROVE  Strolls(s, x, y)
BY DEF Strolls

\* An end that goes on in such a state, whatever else it notes down.
LEMMA GoesOn ==
  ASSUME NEW s, NEW x, NEW y, x.st \in Plodding, x.st = "FLUSH_BUFFERS" => ~x.resume,
         y.st = After(x.st), y.resume = x.resume, y.due = x.due, y.sess = x.sess,
         y.sr = x.sr, y.neg = x.neg, y.err = x.err
  PROVE  Still(s, x, y)
BY Plods DEF Still

\* One that stays where it is.
LEMMA Lingers ==
  ASSUME NEW s, NEW x, NEW y, y.st = x.st, y.resume = x.resume, y.due = x.due, y.sess = x.sess,
         y.sr = x.sr, y.neg = x.neg, s = "srv" => y.err = x.err \/ x.st \notin Certain
  PROVE  Still(s, x, y)
BY Rests DEF Still

\* The fields of a context after ssl->state++ and after a message was read.
LEMMA OnwardKeeps ==
  ASSUME NEW x, DOMAIN x = ContextFields
  PROVE  LET y == Onward(x)
         IN /\ DOMAIN y = ContextFields /\ y.st = After(x.st) /\ y.resume = x.resume
            /\ y.due = x.due /\ y.sess = x.sess /\ y.sr = x.sr /\ y.neg = x.neg /\ y.err = x.err
            /\ y.out = x.out /\ y.in = x.in
BY DEF Onward, ContextFields

LEMMA HeardKeeps ==
  ASSUME Shapes, NEW s \in Ends
  PROVE  LET y == Heard(s)
             x == ssl[s]
         IN /\ DOMAIN y = ContextFields /\ y.st = x.st /\ y.resume = x.resume
            /\ y.due = x.due /\ y.sess = x.sess /\ y.sr = x.sr /\ y.neg = x.neg /\ y.err = x.err
            /\ y.out = x.out /\ y.in = x.in
BY DEF Heard, ContextFields, Shapes

\* A call of s fails: a server that is about to make a session reads nothing.
LEMMA FailIdles ==
  ASSUME Shapes, NEW s \in Ends, NEW e,
         Fail(s, e) \/ Refuse(s, e) \/ Move(s, [ssl[s] EXCEPT !.err = e]),
         s = "srv" => ssl[s].st \notin Certain
  PROVE  Idles(s)
<1> DEFINE x == ssl[s]
           y == [x EXCEPT !.err = e]
<1>1. DOMAIN x = ContextFields
  BY DEF Shapes
<1>2. /\ DOMAIN y = ContextFields /\ y.st = x.st /\ y.resume = x.resume /\ y.due = x.due
      /\ y.sess = x.sess /\ y.sr = x.sr /\ y.neg = x.neg
  BY <1>1 DEF ContextFields
<1>3. Hear(s, y) \/ Answer(s, y, "fatal") \/ Move(s, y)
  BY DEF Fail, Refuse
<1> HIDE DEF y
<1>4. Still(s, x, y)
  BY <1>2, Lingers
<1> QED BY <1>2, <1>3, <1>4, IdleSteps

\* s goes on from its context, or from what it is once the message was read.
LEMMA OnwardIdles ==
  ASSUME Agreeing, NEW s \in Ends, ssl[s].st \in Plodding,
         NEW z, DOMAIN z = ContextFields, z.st = ssl[s].st, z.resume = ssl[s].resume,
         z.due = ssl[s].due, z.sess = ssl[s].sess, z.sr = ssl[s].sr, z.neg = ssl[s].neg,
         z.err = ssl[s].err,
         \/ Move(s, Onward(z)) \/ Hear(s, Onward(z))
         \/ \E m : /\ m.msg \notin {"CLIENT_HELLO", "SERVER_HELLO", "NEW_SESSION_TICKET",
                                    "FINISHED"}
                   /\ Say(s, Onward(z), m)
  PROVE  Idles(s)
<1> DEFINE x == ssl[s]
           y == Onward(z)
<1>1. Shapes /\ Fit(s, x)
  BY AgreeingFacts
<1>2. /\ DOMAIN y = ContextFields /\ y.st = After(x.st) /\ y.resume = x.resume
      /\ y.due = x.due /\ y.sess = x.sess /\ y.sr = x.sr /\ y.neg = x.neg /\ y.err = x.err
  BY OnwardKeeps
<1>3. x.st = "FLUSH_BUFFERS" => ~x.resume
  BY <1>1 DEF Fit
<1> HIDE DEF x, y
<1>4. Still(s, x, y)
  BY <1>2, <1>3, GoesOn DEF x
<1> QED BY <1>1, <1>2, <1>4, IdleSteps DEF x, y

\* The messages that say something of a session.
LEMMA Kinds ==
  /\ \A m \in {"CERTIFICATE", "SERVER_KEY_EXCHANGE", "CERTIFICATE_REQUEST", "SERVER_HELLO_DONE",
               "CERTIFICATE_VERIFY", "CHANGE_CIPHER_SPEC", "DATA", "close_notify",
               "HELLO_REQUEST"} :
       m \notin {"CLIENT_HELLO", "SERVER_HELLO", "NEW_SESSION_TICKET", "FINISHED"}
  /\ {"SERVER_CERTIFICATE", "SERVER_KEY_EXCHANGE", "CERTIFICATE_REQUEST", "SERVER_HELLO_DONE",
      "CLIENT_CERTIFICATE", "CERTIFICATE_VERIFY", "CLIENT_CHANGE_CIPHER_SPEC",
      "CLIENT_FINISHED", "SERVER_CHANGE_CIPHER_SPEC", "SERVER_FINISHED", "FLUSH_BUFFERS",
      "HELLO_REQUEST"} \subseteq Plodding
  /\ {"HANDSHAKE_OVER", "SERVER_HELLO", "CLIENT_HELLO", "SERVER_HELLO_DONE", "CLIENT_CERTIFICATE",
      "CLIENT_KEY_EXCHANGE", "CERTIFICATE_VERIFY", "CLIENT_CHANGE_CIPHER_SPEC",
      "CLIENT_FINISHED"} \cap Certain = {}
BY DEF Plodding, Making, Judging, Certain

\* The steps of either end that only go on.
LEMMA EitherIdles ==
  ASSUME Agreeing, NEW s \in Ends,
         \/ Begin(s) \/ WriteCertificate(s) \/ WriteChangeCipherSpec(s)
         \/ ParseChangeCipherSpec(s) \/ FlushBuffers(s)
  PROVE  Idles(s)
<1> DEFINE x == ssl[s]
<1>0. Shapes /\ DOMAIN x = ContextFields
  BY AgreeingFacts
<1>1. ASSUME x.st \in Plodding,
             \/ Move(s, Onward(x)) \/ Hear(s, Onward(x))
             \/ \E m : /\ m.msg \notin {"CLIENT_HELLO", "SERVER_HELLO", "NEW_SESSION_TICKET",
                                        "FINISHED"}
                       /\ Say(s, Onward(x), m)
      PROVE  Idles(s)
  BY <1>0, <1>1, OnwardIdles
<1>2. CASE Begin(s) \/ FlushBuffers(s)
  BY <1>1, <1>2, Kinds DEF Begin, FlushBuffers, At
<1>3. CASE WriteCertificate(s)
  <2> DEFINE m == [msg |-> "CERTIFICATE", cert |-> setting.cert[s]]
  <2>1. x.st \in Plodding
    BY <1>3, Kinds DEF WriteCertificate, At, CertState
  <2>2. m.msg = "CERTIFICATE" /\ (Move(s, Onward(x)) \/ Say(s, Onward(x), m))
    BY <1>3 DEF WriteCertificate
  <2> HIDE DEF m
  <2> QED BY <1>1, <2>1, <2>2, Kinds
<1>4. CASE WriteChangeCipherSpec(s)
  <2> DEFINE m == [msg |-> "CHANGE_CIPHER_SPEC"]
  <2>1. x.st \in Plodding
    BY <1>4, Kinds DEF WriteChangeCipherSpec, At, Change
  <2>2. m.msg = "CHANGE_CIPHER_SPEC" /\ Say(s, Onward(x), m)
    BY <1>4 DEF WriteChangeCipherSpec
  <2> HIDE DEF m
  <2> QED BY <1>1, <2>1, <2>2, Kinds
<1>5. CASE ParseChangeCipherSpec(s)
  <2>1. x.st \in Plodding /\ Hear(s, Onward(x))
    BY <1>5, Kinds DEF ParseChangeCipherSpec, At, Change
  <2> QED BY <1>1, <2>1
<1> QED BY <1>2, <1>3, <1>4, <1>5

\* ssl_parse_certificate notes the certificate and the verdict on it.
LEMMA CertificateIdles ==
  ASSUME Agreeing, NEW s \in Ends, DOMAIN ssl[s].neg = SessionFields,
         SkipCertificate(s) \/ ParseCertificate(s)
  PROVE  Idles(s)
<1> DEFINE x == ssl[s]
           h == Heard(s)
           cert == Msg(s).cert
           verdict == IF cert = "none" THEN "missing"
                      ELSE IF setting.auth[s] = "NONE" THEN "none" ELSE cert
           z1 == [x EXCEPT !.neg.verify = "skip"]
           z2 == [h EXCEPT !.neg.cert = cert, !.neg.verify = verdict]
<1>0. Shapes /\ Fit(s, x) /\ DOMAIN x = ContextFields
  BY AgreeingFacts
<1>1. x.st \in {"SERVER_CERTIFICATE", "CLIENT_CERTIFICATE"}
  BY DEF SkipCertificate, ParseCertificate, ReadsCertificate, At, CertState
<1>2. ~x.resume /\ x.st \notin Certain /\ x.st \in Plodding
  BY <1>0, <1>1, Kinds DEF Fit, Full, Certain
<1>3. /\ DOMAIN h = ContextFields /\ h.st = x.st /\ h.resume = x.resume
      /\ h.due = x.due /\ h.sess = x.sess /\ h.sr = x.sr /\ h.neg = x.neg /\ h.err = x.err
  BY <1>0, HeardKeeps
<1> HIDE DEF h
<1>4. ASSUME NEW z \in {z1, z2}
      PROVE  /\ DOMAIN z = ContextFields /\ z.st = x.st /\ z.resume = x.resume
             /\ z.due = x.due /\ z.sess = x.sess /\ z.sr = x.sr /\ z.err = x.err
             /\ DOMAIN z.neg = DOMAIN x.neg /\ z.neg.id = x.neg.id
             /\ z.neg.ticket = x.neg.ticket /\ z.neg.suite = x.neg.suite
             /\ z.neg.master = x.neg.master /\ z.neg.start = x.neg.start
  <2>1. CASE z = z1
    BY <1>0, <2>1 DEF ContextFields, SessionFields
  <2>2. CASE z = z2
    <3> HIDE DEF cert, verdict
    <3> QED BY <1>3, <2>2 DEF ContextFields, SessionFields
  <2> QED BY <1>4, <2>1, <2>2
<1> HIDE DEF z1, z2
<1>5. ASSUME NEW z \in {z1, z2}, Move(s, Onward(z)) \/ Hear(s, Onward(z))
      PROVE  Idles(s)
  <2> DEFINE y == Onward(z)
  <2>1. DOMAIN z = ContextFields
    BY <1>4
  <2>2. /\ DOMAIN y = ContextFields /\ y.st = After(z.st) /\ y.resume = z.resume
        /\ y.due = z.due /\ y.sess = z.sess /\ y.sr = z.sr /\ y.neg = z.neg /\ y.err = z.err
    BY <2>1, OnwardKeeps
  <2> HIDE DEF y
  <2>3. y.st = After(x.st) /\ y.err = x.err
    BY <1>4, <2>2
  <2>4. Strolls(s, x, y)
    BY <1>1, <1>2, <2>3, Plods
  <2>5. Still(s, x, y)
    BY <1>2, <1>4, <2>2, <2>4 DEF Still, Sure
  <2> QED BY <1>0, <1>5, <2>2, <2>5, IdleSteps DEF y
<1>6. CASE SkipCertificate(s)
  <2>1. Move(s, Onward(x)) \/ Move(s, Onward(z1))
    BY <1>6 DEF SkipCertificate, z1
  <2> QED BY <1>0, <1>2, <1>5, <2>1, OnwardIdles
<1>7. CASE ParseCertificate(s)
  <2>1. Hear(s, Onward(z2)) \/ Fail(s, "CERTIFICATE")
    BY <1>7 DEF ParseCertificate, z2, h
  <2> QED BY <1>0, <1>2, <1>5, <2>1, FailIdles
<1> QED BY <1>6, <1>7

\* ssl_write_finished, and ssl_parse_finished but for a server that resumes a session.
LEMMA FinishedIdles ==
  ASSUME Agreeing, NEW s \in Ends,
         WriteFinished(s) \/ (ParseFinished(s) /\ (s = "srv" => ~ssl[s].resume))
  PROVE  Idles(s)
<1> DEFINE x == ssl[s]
           h == Heard(s)
           z1 == [x EXCEPT !.own = Verify(s, x), !.out = KeysOf(s, x)]
           z2 == [h EXCEPT !.in = KeysOf(Peer(s), x), !.peer = Remembered(s)]
           m == [msg |-> "FINISHED", verify |-> Verify(s, x)]
<1>0. Shapes /\ Fit(s, x) /\ DOMAIN x = ContextFields
  BY AgreeingFacts
<1>1. /\ x.st \in {"CLIENT_FINISHED", "SERVER_FINISHED"} /\ x.err = "OK"
      /\ WriteFinished(s) => x.st = Finished(s)
      /\ ParseFinished(s) /\ s = "srv" => x.st = "CLIENT_FINISHED"
  BY Peers DEF WriteFinished, ParseFinished, At, Finished
<1>2. /\ DOMAIN h = ContextFields /\ h.st = x.st /\ h.resume = x.resume
      /\ h.due = x.due /\ h.sess = x.sess /\ h.sr = x.sr /\ h.neg = x.neg /\ h.err = x.err
  BY <1>0, HeardKeeps
<1> HIDE DEF h
<1>3. ASSUME NEW z \in {z1, z2}
      PROVE  /\ DOMAIN z = ContextFields /\ z.st = x.st /\ z.resume = x.resume
             /\ z.due = x.due /\ z.sess = x.sess /\ z.sr = x.sr /\ z.err = x.err
             /\ z.neg = x.neg
  <2>1. CASE z = z1
    BY <1>0, <2>1 DEF ContextFields
  <2>2. CASE z = z2
    BY <1>2, <2>2 DEF ContextFields
  <2> QED BY <1>3, <2>1, <2>2
<1>4. z1.out = KeysOf(s, x)
  BY <1>0 DEF ContextFields
<1>5. m.msg = "FINISHED"
  OBVIOUS
<1> HIDE DEF z1, z2, m
<1>6. ASSUME NEW z \in {z1, z2}, NEW wrote, s = "srv" /\ x.resume => wrote = TRUE /\ x.st = "SERVER_FINISHED"
      PROVE  LET y == Ended(s, z, wrote)
             IN DOMAIN y = ContextFields /\ Still(s, x, y) /\ y.out = z.out
  <2> DEFINE y == Ended(s, z, wrote)
             w == [z EXCEPT !.st = "HANDSHAKE_WRAPUP"]
             u == [z EXCEPT !.st = "CLIENT_CHANGE_CIPHER_SPEC"]
  <2>0. DOMAIN z = ContextFields
    BY <1>3
  <2>1. CASE ~x.resume
    <3>1. y = Onward(z)
      BY <1>3, <2>1 DEF Ended
    <3>2. /\ DOMAIN y = ContextFields /\ y.st = After(z.st) /\ y.resume = z.resume
          /\ y.due = z.due /\ y.sess = z.sess /\ y.sr = z.sr /\ y.neg = z.neg /\ y.err = z.err
          /\ y.out = z.out
      BY <2>0, <3>1, OnwardKeeps
    <3> HIDE DEF y
    <3>3. x.st \in Plodding /\ x.st # "FLUSH_BUFFERS"
      BY <1>1, Kinds
    <3>4. Still(s, x, y)
      BY <1>3, <3>2, <3>3, GoesOn
    <3> QED BY <3>2, <3>4 DEF y
  <2>2. CASE x.resume
    <3>1. y = w \/ y = u
      BY <1>3, <2>2 DEF Ended
    <3>2. s = "srv" => y = u
      BY <1>3, <1>6, <2>2 DEF Ended
    <3>3. /\ DOMAIN y = ContextFields /\ y.resume = z.resume
          /\ y.due = z.due /\ y.sess = z.sess /\ y.sr = z.sr /\ y.neg = z.neg /\ y.err = z.err
          /\ y.out = z.out /\ y.st \in {"HANDSHAKE_WRAPUP", "CLIENT_CHANGE_CIPHER_SPEC"}
      BY <2>0, <3>1 DEF ContextFields
    <3>4. s = "srv" => y.st = "CLIENT_CHANGE_CIPHER_SPEC"
      BY <2>0, <3>2 DEF ContextFields
    <3> HIDE DEF y
    <3>5. Strolls(s, x, y)
      BY <1>1, <1>3, <2>2, <3>3, <3>4 DEF Strolls, Early, Unasked
    <3>6. Still(s, x, y)
      BY <1>3, <2>2, <3>3, <3>5 DEF Still
    <3> QED BY <3>3, <3>6 DEF y
  <2> QED BY <2>1, <2>2
<1>7. CASE WriteFinished(s)
  <2> DEFINE y == Ended(s, z1, TRUE)
  <2>1. Say(s, y, m)
    BY <1>7 DEF WriteFinished, z1, m
  <2>2. s = "srv" => x.st = "SERVER_FINISHED"
    BY <1>1, <1>7 DEF Finished
  <2>3. DOMAIN y = ContextFields /\ Still(s, x, y) /\ y.out = KeysOf(s, x)
    BY <1>4, <1>6, <2>2
  <2> HIDE DEF y, x
  <2> QED BY <1>0, <1>1, <1>5, <1>7, <2>1, <2>3, IdleSteps DEF x
<1>8. CASE ParseFinished(s) /\ (s = "srv" => ~x.resume)
  <2> DEFINE y == Ended(s, z2, FALSE)
  <2>1. Hear(s, y) \/ Fail(s, "FINISHED")
    BY <1>8 DEF ParseFinished, z2, h
  <2>2. DOMAIN y = ContextFields /\ Still(s, x, y)
    BY <1>6, <1>8
  <2>3. s = "srv" => x.st \notin Certain
    BY <1>1, <1>8, Kinds
  <2> HIDE DEF y
  <2> QED BY <1>0, <2>1, <2>2, <2>3, IdleSteps, FailIdles
<1> QED BY <1>7, <1>8

\* The client's steps that learn nothing of its session.
LEMMA ClientIdles ==
  ASSUME Agreeing,
         \/ ParseServerKeyExchange \/ ParseCertificateRequest \/ ParseServerHelloDone
         \/ WriteCertificateVerify
  PROVE  Idles("cli")
<1> DEFINE x == ssl["cli"]
           h == Heard("cli")
           r == Msg("cli").msg = "CERTIFICATE_REQUEST"
           z1 == [h EXCEPT !.held = Msg("cli")]
           z2 == [h EXCEPT !.asked = r, !.held = IF r THEN NoMsg ELSE Msg("cli")]
           z3 == [x EXCEPT !.held = NoMsg]
           m == [msg |-> "CERTIFICATE_VERIFY", over |-> x.log]
<1>0. Shapes /\ DOMAIN x = ContextFields /\ "cli" \in Ends
  BY AgreeingFacts, Peers
<1>1. /\ DOMAIN h = ContextFields /\ h.st = x.st /\ h.resume = x.resume
      /\ h.due = x.due /\ h.sess = x.sess /\ h.sr = x.sr /\ h.neg = x.neg /\ h.err = x.err
  BY <1>0, HeardKeeps
<1> HIDE DEF h
<1>2. ASSUME NEW z \in {x, h, z1, z2, z3}
      PROVE  /\ DOMAIN z = ContextFields /\ z.st = x.st /\ z.resume = x.resume
             /\ z.due = x.due /\ z.sess = x.sess /\ z.sr = x.sr /\ z.err = x.err
             /\ z.neg = x.neg
  <2>1. CASE z \in {x, h}
    BY <1>0, <1>1, <2>1
  <2>2. CASE z = z1
    BY <1>1, <2>2 DEF ContextFields
  <2>3. CASE z = z2
    <3> HIDE DEF r
    <3> QED BY <1>1, <2>3 DEF ContextFields
  <2>4. CASE z = z3
    BY <1>0, <2>4 DEF ContextFields
  <2> QED BY <1>2, <2>1, <2>2, <2>3, <2>4
<1>3. m.msg = "CERTIFICATE_VERIFY"
  OBVIOUS
<1> HIDE DEF z1, z2, z3, m
<1>4. ASSUME NEW z \in {x, h, z1, z2, z3}, x.st \in Plodding,
             Move("cli", Onward(z)) \/ Hear("cli", Onward(z)) \/ Say("cli", Onward(z), m)
      PROVE  Idles("cli")
  BY <1>0, <1>2, <1>3, <1>4, Kinds, OnwardIdles
<1>5. x.st \in Plodding
  BY Kinds DEF ParseServerKeyExchange, ParseCertificateRequest, ParseServerHelloDone,
       WriteCertificateVerify, At
<1>6. CASE ParseServerKeyExchange
  <2>1. \/ Move("cli", Onward(x)) \/ Hear("cli", Onward(h)) \/ Hear("cli", Onward(z1))
    BY <1>6 DEF ParseServerKeyExchange, z1, h
  <2> QED BY <1>4, <1>5, <2>1
<1>7. CASE ParseCertificateRequest
  <2>1. Move("cli", Onward(x)) \/ Hear("cli", Onward(z2))
    BY <1>7 DEF ParseCertificateRequest, z2, h
  <2> QED BY <1>4, <1>5, <2>1
<1>8. CASE ParseServerHelloDone
  <2>1. Move("cli", Onward(z3)) \/ Hear("cli", Onward(h))
    BY <1>8 DEF ParseServerHelloDone, z3, h
  <2> QED BY <1>4, <1>5, <2>1
<1>9. CASE WriteCertificateVerify
  <2>1. Move("cli", Onward(x)) \/ Say("cli", Onward(x), m)
    BY <1>9 DEF WriteCertificateVerify, m
  <2> QED BY <1>4, <1>5, <2>1
<1> QED BY <1>6, <1>7, <1>8, <1>9

\* The server's.
LEMMA ServerIdles ==
  ASSUME Agreeing,
         \/ WriteServerKeyExchange \/ WriteCertificateRequest \/ WriteServerHelloDone
         \/ ParseCertificateVerify
  PROVE  Idles("srv")
<1> DEFINE x == ssl["srv"]
           h == Heard("srv")
<1>0. Shapes /\ DOMAIN x = ContextFields /\ "srv" \in Ends
  BY AgreeingFacts, Peers
<1>1. /\ DOMAIN h = ContextFields /\ h.st = x.st /\ h.resume = x.resume
      /\ h.due = x.due /\ h.sess = x.sess /\ h.sr = x.sr /\ h.neg = x.neg /\ h.err = x.err
  BY <1>0, HeardKeeps
<1>2. x.st \in Plodding
  BY Kinds DEF WriteServerKeyExchange, WriteCertificateRequest, WriteServerHelloDone,
       ParseCertificateVerify, At
<1>3. ASSUME NEW kind \in {"SERVER_KEY_EXCHANGE", "CERTIFICATE_REQUEST", "SERVER_HELLO_DONE"},
             Move("srv", Onward(x)) \/ Say("srv", Onward(x), [msg |-> kind])
      PROVE  Idles("srv")
  <2> DEFINE m == [msg |-> kind]
  <2>1. m.msg = kind /\ (Move("srv", Onward(x)) \/ Say("srv", Onward(x), m))
    BY <1>3
  <2> HIDE DEF m
  <2> QED BY <1>0, <1>2, <2>1, Kinds, OnwardIdles
<1>4. CASE ParseCertificateVerify
  <2>1. \/ Move("srv", Onward(x)) \/ Hear("srv", Onward(h)) \/ Fail("srv", "CERTIFICATE_VERIFY")
    BY <1>4 DEF ParseCertificateVerify
  <2>2. x.st \notin Certain
    BY <1>4, Kinds DEF ParseCertificateVerify, At
  <2> HIDE DEF h
  <2> QED BY <1>0, <1>1, <1>2, <2>1, <2>2, OnwardIdles, FailIdles
<1> QED BY <1>3, <1>4 DEF WriteServerKeyExchange, WriteCertificateRequest, WriteServerHelloDone

\* A record that is of no use, or does not open.
LEMMA UselessIdles ==
  ASSUME Shapes, NEW s \in Ends, Unexpected(s) \/ ReadFails(s)
  PROVE  Idles(s)
<1>1. \E e : Fail(s, e) \/ Refuse(s, e) \/ Move(s, [ssl[s] EXCEPT !.err = e])
  BY DEF Unexpected, ReadFails
<1>2. s = "srv" => ssl[s].st \notin Certain
  BY Kinds DEF Unexpected, ReadFails, Reads, CertState, At
<1> QED BY <1>1, <1>2, FailIdles

\* What the programs do, but for starting over.
LEMMA ProgramIdles ==
  ASSUME Shapes, NEW s \in Ends,
         \/ ReadData(s) \/ Write(s) \/ Close(s)
         \/ (ReadHandshake(s) \/ Renegotiate(s)) /\ ~Move(s, Renewed(ssl[s]))
            /\ ~Hear(s, Renewed(ssl[s]))
  PROVE  Idles(s)
<1> DEFINE x == ssl[s]
           counts == x.reneg \in {"PENDING", "RENEGOTIATION"}
           z1 == [x EXCEPT !.seen = IF counts THEN @ + 1 ELSE @]
           z2 == [x EXCEPT !.reneg = "PENDING"]
           z3 == [x EXCEPT !.err = "CLOSED"]
           m1 == [msg |-> "DATA", n |-> sent[s] + 1]
           m2 == [msg |-> "HELLO_REQUEST"]
           m3 == [msg |-> "close_notify"]
<1>0. DOMAIN x = ContextFields
  BY DEF Shapes
<1>1. s = "srv" => x.st \notin Certain
  BY Kinds DEF ReadData, ReadHandshake, Write, Renegotiate, Close, Over, WaitsInRenegotiation
<1>2. ASSUME NEW z \in {x, z1, z2, z3}
      PROVE  DOMAIN z = ContextFields /\ Still(s, x, z)
  <2>1. /\ DOMAIN z = ContextFields /\ z.st = x.st /\ z.resume = x.resume
        /\ z.due = x.due /\ z.sess = x.sess /\ z.sr = x.sr /\ z.neg = x.neg
    <3> HIDE DEF counts
    <3> QED BY <1>0, <1>2 DEF ContextFields
  <2> QED BY <1>1, <2>1, Lingers
<1>3. /\ m1.msg = "DATA" /\ m2.msg = "HELLO_REQUEST" /\ m3.msg = "close_notify"
  OBVIOUS
<1> HIDE DEF z1, z2, z3, m1, m2, m3
<1>4. ASSUME NEW z \in {x, z1, z2, z3}, NEW m \in {m1, m2, m3},
             \/ Say(s, z, m) \/ Hear(s, z) \/ Answer(s, z, "no_renegotiation")
      PROVE  Idles(s)
  <2>1. m.msg \notin {"CLIENT_HELLO", "SERVER_HELLO", "NEW_SESSION_TICKET", "FINISHED"}
    BY <1>3, <1>4, Kinds
  <2> QED BY <1>2, <1>4, <2>1, IdleSteps
<1>5. CASE ReadData(s)
  <2>1. Fail(s, "RENEGOTIATION") \/ Hear(s, z1)
    BY <1>5 DEF ReadData, z1
  <2> QED BY <1>1, <1>4, <2>1, FailIdles
<1>6. CASE Write(s)
  BY <1>4, <1>6 DEF Write, m1
<1>7. CASE Close(s)
  BY <1>4, <1>7 DEF Close, z3, m3
<1>8. CASE ReadHandshake(s) /\ ~Move(s, Renewed(x)) /\ ~Hear(s, Renewed(x))
  <2>1. Fail(s, "UNEXPECTED") \/ Answer(s, x, "no_renegotiation")
    BY <1>8 DEF ReadHandshake
  <2> QED BY <1>1, <1>4, <2>1, FailIdles
<1>9. CASE Renegotiate(s) /\ ~Move(s, Renewed(x))
  <2>1. Say(s, z2, m2)
    BY <1>9 DEF Renegotiate, z2, m2
  <2> QED BY <1>4, <2>1
<1> QED BY <1>5, <1>6, <1>7, <1>8, <1>9

-----------------------------------------------------------------------------
(* The client's steps.                                                      *)

\* The client's context and what it writes say nothing that is not so.
ClientMoves(f) ==
  /\ ClientKnows(f, chain, made, draws', ssl["srv"], ssl'["cli"])
  /\ \/ wire'["srv"] = wire["srv"]
     \/ \E r : /\ ToldServer(f, chain, made, draws', ssl["srv"], r)
               /\ wire'["srv"] = Append(wire["srv"], r)

\* Whatever an end does.
EndActs(s) ==
  \/ Handshake(s) \/ ReadHandshake(s) \/ Renegotiate(s) \/ Close(s) \/ Write(s) \/ ReadData(s)

\* Drawing more loses no trace.
LEMMA MoreGrows ==
  ASSUME NEW c, NEW mds, NEW d \in Nat, NEW e \in Nat, d <= e, NEW v
  PROVE  Grows(c, mds, d, v, c, mds, e, v)
BY DEF Grows

\* What is known of no session.
LEMMA NothingKnown ==
  ASSUME NEW c, NEW mds, NEW d \in Nat, NEW v
  PROVE  /\ Known(c, mds, d, 0) /\ Issued(mds, v, NoTicket) /\ Presents(c, mds, d, v, NoSession)
BY DEF Known, Issued, Presents, NoSession

\* A client that has the same session still knows what it knew.
LEMMA StillKnows ==
  ASSUME NEW f, NEW c, NEW mds, NEW d, NEW v, NEW x, ClientKnows(f, c, mds, d, v, x), NEW y,
         Still("cli", x, y)
  PROVE  ClientKnows(f, c, mds, d, v, y)
<1>1. /\ y.resume = x.resume /\ y.sess = x.sess /\ y.sr = x.sr /\ y.neg.id = x.neg.id
      /\ y.neg.ticket = x.neg.ticket /\ y.neg.suite = x.neg.suite
      /\ y.neg.master = x.neg.master
      /\ ~x.resume => (y.st \in Making => x.st \in Making) /\ (y.st \in Secret => x.st \in Secret)
  BY DEF Still, Strolls
<1> QED BY <1>1 DEF ClientKnows, Presents, Chose, Bonded

\* The client's trace leads to the server's.
LEMMA ClientTraces ==
  ASSUME Cached, NEW f, Traced(f), EndActs("cli"), ClientMoves(f), chain' = chain, made' = made
  PROVE  Traced(f)'
<1> DEFINE v == ssl["srv"]
<1>0. Shapes /\ draws \in Nat /\ "cli" \in Ends /\ IsSequence(wire["cli"]) /\ IsSequence(wire["srv"])
  BY Peers DEF Cached, Verified, Shapes
<1>1. /\ ssl'["srv"] = v /\ draws' \in Nat /\ draws <= draws' /\ UNCHANGED <<saved, clock>>
      /\ wire'["cli"] = wire["cli"] \/ (wire["cli"] # <<>> /\ wire'["cli"] = Tail(wire["cli"]))
  <2>1. UNCHANGED <<saved, clock>>
    BY DEF EndActs, Handshake, ReadHandshake, Renegotiate, Close, Write, ReadData, envvars
  <2>2. /\ ssl'["srv"] = v
        /\ wire'["cli"] = wire["cli"] \/ (wire["cli"] # <<>> /\ wire'["cli"] = Tail(wire["cli"]))
    BY <1>0, EndSteps, Peers DEF EndActs
  <2>3. draws' \in Nat /\ draws <= draws'
    BY <1>0, DrawsGrow DEF EndActs
  <2> QED BY <2>1, <2>2, <2>3
<1> HIDE DEF v
<1>2. Grows(chain, made, draws, v, chain, made, draws', v)
  BY <1>0, <1>1, MoreGrows
<1>3. /\ \A n : Presents(chain, made, draws, v, n) => Presents(chain, made, draws', v, n)
      /\ \A n : Bonded(f, draws, n) => Bonded(f, draws', n)
      /\ \A x : Chose(f, draws, x) => Chose(f, draws', x)
      /\ \A n : Known(chain, made, draws, n) => Known(chain, made, draws', n)
      /\ \A r : ToldServer(f, chain, made, draws, v, r) => ToldServer(f, chain, made, draws', v, r)
      /\ \A r : ToldClient(f, chain, made, draws, v, r) => ToldClient(f, chain, made, draws', v, r)
  BY <1>2, Carried, CarriedOver
<1>4. ServerKnows(f, chain, made, draws', clock, v)
  BY <1>3 DEF Traced, ServerKnows, v
<1>5. \A i \in 1..Len(wire'["srv"]) : ToldServer(f, chain, made, draws', v, wire'["srv"][i])
  <2>1. CASE wire'["srv"] = wire["srv"]
    BY <1>3, <2>1 DEF Traced, v
  <2>2. ASSUME NEW r, ToldServer(f, chain, made, draws', v, r),
               wire'["srv"] = Append(wire["srv"], r)
        PROVE  \A i \in 1..Len(wire'["srv"]) : ToldServer(f, chain, made, draws', v, wire'["srv"][i])
    <3>1. \A i \in 1..Len(wire["srv"]) : ToldServer(f, chain, made, draws', v, wire["srv"][i])
      BY <1>3 DEF Traced, v
    <3>2. \A i \in 1..Len(wire'["srv"]) :
            wire'["srv"][i] = r \/ \E j \in 1..Len(wire["srv"]) : wire'["srv"][i] = wire["srv"][j]
      BY <1>0, <2>2, OnTheWire
    <3> QED BY <2>2, <3>1, <3>2
  <2> QED BY <2>1, <2>2 DEF ClientMoves, v
<1>6. \A i \in 1..Len(wire'["cli"]) : ToldClient(f, chain, made, draws', v, wire'["cli"][i])
  <2>1. \A i \in 1..Len(wire["cli"]) : ToldClient(f, chain, made, draws', v, wire["cli"][i])
    BY <1>3 DEF Traced, v
  <2>2. CASE wire["cli"] # <<>> /\ wire'["cli"] = Tail(wire["cli"])
    <3>1. \A i \in 1..Len(Tail(wire["cli"])) :
            \E j \in 1..Len(wire["cli"]) : Tail(wire["cli"])[i] = wire["cli"][j]
      BY <1>0, <2>2, OnTheWire
    <3> QED BY <2>1, <2>2, <3>1
  <2> QED BY <1>1, <2>1, <2>2
<1>7. Records(f, draws', made)
  BY <1>3 DEF Traced, Records
<1>8. ClientKnows(f, chain, made, draws', v, ssl'["cli"])
  BY DEF ClientMoves, v
<1>9. Presents(chain, made, draws', v, saved) /\ (saved # NoSession => Bonded(f, draws', saved))
  BY <1>3 DEF Traced, v
<1> QED BY <1>1, <1>4, <1>5, <1>6, <1>7, <1>8, <1>9 DEF Traced

\* What the client knows, with more drawn.
LEMMA ClientCarries ==
  ASSUME Cached, NEW f, Traced(f), draws' \in Nat, draws <= draws'
  PROVE  LET x == ssl["cli"]
             v == ssl["srv"]
         IN /\ ClientKnows(f, chain, made, draws', v, x)
            /\ wire["cli"] # <<>> => ToldClient(f, chain, made, draws', v, Head(wire["cli"]))
            /\ NoSession.id = 0 /\ NoSession.ticket = NoTicket
            /\ Known(chain, made, draws', 0) /\ Issued(made, v, NoTicket)
<1> DEFINE v == ssl["srv"]
<1>0. Shapes /\ draws \in Nat /\ IsSequence(wire["cli"])
  BY Peers DEF Cached, Verified, Shapes
<1>1. Grows(chain, made, draws, v, chain, made, draws', v)
  BY <1>0, MoreGrows
<1>2. ClientKnows(f, chain, made, draws', v, ssl["cli"])
  BY <1>1, CarriedOver DEF Traced
<1>3. wire["cli"] # <<>> => ToldClient(f, chain, made, draws', v, Head(wire["cli"]))
  BY <1>0, <1>1, CarriedOver, OnTheWire DEF Traced
<1> QED BY <1>2, <1>3, NothingKnown DEF NoSession

\* A step that leaves the session.
LEMMA IdleClient ==
  ASSUME Cached, Agreeing, NEW f, Traced(f), draws' \in Nat, draws <= draws', Idles("cli")
  PROVE  ClientMoves(f)
<1> DEFINE x == ssl["cli"]
           v == ssl["srv"]
<1>1. ClientKnows(f, chain, made, draws', v, x)
  BY ClientCarries
<1>2. ClientKnows(f, chain, made, draws', v, ssl'["cli"])
  BY <1>1, StillKnows DEF Idles
<1>3. ASSUME NEW r, Told("cli", r) PROVE ToldServer(f, chain, made, draws', v, r)
  <2>1. r.m.msg # "CLIENT_HELLO"
    BY <1>3 DEF Told
  <2>2. ASSUME r.m.msg = "FINISHED" PROVE Bond(f, draws', r.keys[3][4], r.keys[2])
    <3>1. x.st = "CLIENT_FINISHED" /\ r.keys[3] = x.neg.master /\ r.keys[2] = x.neg.suite
      BY <1>3, <2>2 DEF Told, Finished, KeysOf
    <3>2. x.st \in Making /\ x.st \in Secret
      BY <3>1 DEF Making, Judging, Secret
    <3> QED BY <1>1, <3>1, <3>2 DEF ClientKnows, Chose, Bonded
  <2> QED BY <2>1, <2>2 DEF ToldServer
<1> QED BY <1>2, <1>3, Peers DEF Idles, ClientMoves

\* ssl_write_client_hello
LEMMA ClientHelloMoves ==
  ASSUME Cached, Agreeing, NEW f, Traced(f), WriteClientHello
  PROVE  ClientMoves(f)
<1> DEFINE x == ssl["cli"]
           v == ssl["srv"]
           id == OfferedId(x)
           z == [x EXCEPT !.cr = draws + 1, !.neg.id = IF id # 0 THEN id ELSE @]
           y == Onward(z)
           ticket == IF setting.tickets["cli"] THEN x.neg.ticket ELSE NoTicket
           m == [msg |-> "CLIENT_HELLO", rnd |-> draws + 1, id |-> id, offer |-> setting.offer,
                 info |-> IF x.reneg = "INITIAL" THEN NoInfo ELSE x.own,
                 tickets |-> setting.tickets["cli"], ticket |-> ticket]
           r == [keys |-> y.out, m |-> m]
<1>0. /\ Shapes /\ Fit("cli", x) /\ DOMAIN x = ContextFields /\ "cli" \in Ends
      /\ draws \in Nat /\ Entries(chain, draws)
  BY AgreeingFacts, Peers DEF Cached
<1>1. draws' = draws + 2 /\ Say("cli", y, m) /\ x.st = "CLIENT_HELLO"
  BY DEF WriteClientHello, At
<1>2. /\ DOMAIN z = ContextFields /\ z.st = x.st /\ z.sess = x.sess /\ z.resume = x.resume
      /\ z.neg.id = (IF id # 0 THEN id ELSE x.neg.id) /\ z.neg.suite = x.neg.suite
      /\ z.neg.master = x.neg.master /\ z.neg.ticket = x.neg.ticket
  <2>1. DOMAIN x.neg = SessionFields
    BY <1>0 DEF Fit
  <2> HIDE DEF id, x
  <2> QED BY <1>0, <2>1 DEF ContextFields, SessionFields, x
<1>3. r.m.msg = "CLIENT_HELLO" /\ r.m.id = id /\ r.m.ticket = ticket
  OBVIOUS
<1> HIDE DEF z, m
<1>4. /\ DOMAIN y = ContextFields /\ y.st = "SERVER_HELLO" /\ y.sess = x.sess
      /\ y.resume = x.resume /\ y.neg = z.neg
  BY <1>1, <1>2, OnwardKeeps, NextState
<1>5. /\ Near(ssl'["cli"], y) /\ wire'["srv"] = Append(wire["srv"], r)
  BY <1>0, <1>1, <1>4, NearSteps, Peers
<1> HIDE DEF y, r
<1>6. /\ ClientKnows(f, chain, made, draws', v, x) /\ Issued(made, v, NoTicket)
      /\ Known(chain, made, draws', 0)
  <2>1. draws' \in Nat /\ draws <= draws'
    BY <1>0, <1>1
  <2> QED BY <2>1, ClientCarries
<1>7. Known(chain, made, draws', id)
  <2>1. Known(chain, made, draws', draws + 2)
    <3>1. \A i \in 1..Len(chain) : chain[i].session.id # draws + 2
      BY <1>0 DEF Entries
    <3> QED BY <1>0, <1>1, <3>1 DEF Known
  <2>2. Known(chain, made, draws', x.neg.id)
    BY <1>6 DEF ClientKnows, Presents
  <2> QED BY <1>6, <2>1, <2>2 DEF OfferedId
<1>8. Issued(made, v, ticket)
  BY <1>6 DEF ClientKnows, Presents
<1> HIDE DEF id, ticket
<1>9. ToldServer(f, chain, made, draws', v, r)
  BY <1>3, <1>7, <1>8 DEF ToldServer
<1>10. ClientKnows(f, chain, made, draws', v, ssl'["cli"])
  <2>1. Known(chain, made, draws', z.neg.id)
    BY <1>2, <1>6, <1>7 DEF ClientKnows, Presents
  <2>2. "SERVER_HELLO" \notin Making /\ "SERVER_HELLO" \notin Secret
    BY DEF Making, Judging, Secret
  <2> QED BY <1>2, <1>4, <1>5, <1>6, <2>1, <2>2 DEF ClientKnows, Presents, Chose, Bonded, Near
<1> QED BY <1>5, <1>9, <1>10 DEF ClientMoves

\* ssl_parse_server_hello: the session goes on, or a new one takes its place.
LEMMA ServerHelloMoves ==
  ASSUME Cached, Agreeing, NEW f, Traced(f), ParseServerHello
  PROVE  ClientMoves(f)
<1> DEFINE x == ssl["cli"]
           v == ssl["srv"]
           m == Msg("cli")
           h == [Heard("cli") EXCEPT !.sr = m.rnd, !.due = m.tickets]
           y == [h EXCEPT !.st = "SERVER_CHANGE_CIPHER_SPEC"]
           z == [h EXCEPT !.resume = FALSE, !.neg.start = clock, !.neg.suite = m.suite,
                          !.neg.id = m.id]
<1>0. /\ Shapes /\ Fit("cli", x) /\ DOMAIN x = ContextFields /\ "cli" \in Ends
      /\ draws \in Nat /\ draws' = draws /\ x.st = "SERVER_HELLO"
      /\ wire["cli"] # <<>> /\ m.msg = "SERVER_HELLO" /\ DOMAIN x.neg = SessionFields
  BY AgreeingFacts, Peers DEF Cached, ParseServerHello, CameAs, Comes, At, Fit
<1>1. \/ Refuse("cli", "SERVER_HELLO") \/ (Hear("cli", y) /\ Resumes(x, m))
      \/ Hear("cli", Onward(z))
  BY DEF ParseServerHello
<1>2. /\ ClientKnows(f, chain, made, draws', v, x)
      /\ ToldClient(f, chain, made, draws', v, Head(wire["cli"]))
  <2>1. draws' \in Nat /\ draws <= draws'
    BY <1>0
  <2> QED BY <1>0, <2>1, ClientCarries
<1>3. Known(chain, made, draws', m.id) /\ Bond(f, draws', m.rnd, m.suite)
  BY <1>0, <1>2 DEF ToldClient, Msg
<1>4. /\ DOMAIN h = ContextFields /\ h.sr = m.rnd /\ h.st = x.st /\ h.neg = x.neg
      /\ h.sess = x.sess /\ h.resume = x.resume
  <2>1. /\ DOMAIN Heard("cli") = ContextFields /\ Heard("cli").st = x.st
        /\ Heard("cli").neg = x.neg /\ Heard("cli").sess = x.sess /\ Heard("cli").resume = x.resume
    BY <1>0, HeardKeeps
  <2> QED BY <2>1 DEF ContextFields
<1> HIDE DEF h, x, m
<1>5. CASE Refuse("cli", "SERVER_HELLO")
  <2>1. Idles("cli")
    BY <1>0, <1>5, FailIdles
  <2> QED BY <1>0, <2>1, IdleClient
<1>6. CASE Hear("cli", y) /\ Resumes(x, m)
  <2>1. /\ DOMAIN y = ContextFields /\ y.neg = x.neg /\ y.sess = x.sess /\ y.resume = x.resume
    BY <1>4 DEF ContextFields
  <2>2. Near(ssl'["cli"], y) /\ wire'["srv"] = wire["srv"]
    BY <1>0, <1>6, <2>1, NearSteps, Peers
  <2> HIDE DEF y
  <2>3. x.resume
    BY <1>6 DEF Resumes
  <2> QED BY <1>2, <2>1, <2>2, <2>3 DEF ClientKnows, Chose, Near, ClientMoves
<1>7. CASE Hear("cli", Onward(z))
  <2>1. /\ DOMAIN z = ContextFields /\ ~z.resume /\ z.neg.suite = m.suite /\ z.neg.id = m.id
        /\ z.neg.ticket = x.neg.ticket /\ z.sess = x.sess /\ z.sr = m.rnd /\ z.st = x.st
    BY <1>0, <1>4 DEF ContextFields, SessionFields
  <2> DEFINE w == Onward(z)
  <2> HIDE DEF z
  <2>2. /\ DOMAIN w = ContextFields /\ ~w.resume /\ w.neg = z.neg /\ w.sess = x.sess
        /\ w.sr = m.rnd /\ w.st = "SERVER_CERTIFICATE"
    BY <1>0, <2>1, OnwardKeeps, NextState
  <2>3. Near(ssl'["cli"], w) /\ wire'["srv"] = wire["srv"]
    BY <1>0, <1>7, <2>2, NearSteps, Peers
  <2> HIDE DEF w
  <2>4. w.st \notin Secret
    BY <2>2 DEF Secret
  <2>5. Chose(f, draws', w)
    BY <1>3, <2>1, <2>2, <2>4 DEF Chose
  <2>6. Presents(chain, made, draws', v, w.neg)
    BY <1>2, <1>3, <2>1, <2>2 DEF ClientKnows, Presents
  <2>7. ClientKnows(f, chain, made, draws', v, ssl'["cli"])
    BY <1>2, <2>2, <2>3, <2>5, <2>6 DEF ClientKnows, Chose, Near
  <2> QED BY <2>3, <2>7 DEF ClientMoves
<1> QED BY <1>1, <1>5, <1>6, <1>7

\* ssl_write_client_key_exchange: the secret has the server's random value in it.
LEMMA ClientKeyMoves ==
  ASSUME Cached, Agreeing, NEW f, Traced(f), WriteClientKeyExchange
  PROVE  ClientMoves(f)
<1> DEFINE x == ssl["cli"]
           v == ssl["srv"]
           z == [x EXCEPT !.neg.master = Master("cli", x, draws + 1)]
           y == Onward(z)
           m == [msg |-> "CLIENT_KEY_EXCHANGE", pms |-> draws + 1]
           r == [keys |-> y.out, m |-> m]
<1>0. /\ Shapes /\ Fit("cli", x) /\ DOMAIN x = ContextFields /\ "cli" \in Ends
      /\ draws \in Nat /\ draws' = draws + 1 /\ x.st = "CLIENT_KEY_EXCHANGE"
      /\ DOMAIN x.neg = SessionFields /\ Say("cli", y, m)
  BY AgreeingFacts, Peers DEF Cached, WriteClientKeyExchange, At, Fit
<1>1. ~x.resume /\ x.st \in Making
  BY <1>0 DEF Fit, Full, Making, Judging
<1>2. ClientKnows(f, chain, made, draws', v, x)
  <2>1. draws' \in Nat /\ draws <= draws'
    BY <1>0
  <2> QED BY <2>1, ClientCarries
<1>3. Master("cli", x, draws + 1)[4] = x.sr
  BY DEF Master
<1>4. /\ DOMAIN z = ContextFields /\ z.st = x.st /\ z.sess = x.sess /\ z.resume = x.resume
      /\ z.neg.master[4] = x.sr /\ z.neg.id = x.neg.id /\ z.neg.suite = x.neg.suite
      /\ z.neg.ticket = x.neg.ticket /\ z.sr = x.sr
  <2> DEFINE k == Master("cli", x, draws + 1)
  <2> HIDE DEF k, x
  <2>1. k[4] = x.sr
    BY <1>3 DEF k, x
  <2>2. z = [x EXCEPT !.neg.master = k]
    BY DEF k, x
  <2> QED BY <1>0, <2>1, <2>2 DEF ContextFields, SessionFields
<1>5. r.m.msg = "CLIENT_KEY_EXCHANGE"
  OBVIOUS
<1> HIDE DEF z, m
<1>6. /\ DOMAIN y = ContextFields /\ y.st = "CERTIFICATE_VERIFY" /\ y.sess = x.sess
      /\ y.resume = x.resume /\ y.neg = z.neg /\ y.sr = x.sr
  BY <1>0, <1>4, OnwardKeeps, NextState
<1>7. Near(ssl'["cli"], y) /\ wire'["srv"] = Append(wire["srv"], r)
  BY <1>0, <1>6, NearSteps, Peers
<1> HIDE DEF y, r, x
<1>8. Bond(f, draws', x.sr, x.neg.suite)
  BY <1>1, <1>2 DEF ClientKnows, Chose
<1>9. ClientKnows(f, chain, made, draws', v, ssl'["cli"])
  BY <1>1, <1>2, <1>4, <1>6, <1>7, <1>8 DEF ClientKnows, Presents, Chose, Near
<1>10. ToldServer(f, chain, made, draws', v, r)
  BY <1>5 DEF ToldServer
<1> QED BY <1>7, <1>9, <1>10 DEF ClientMoves

\* ssl_parse_new_session_ticket
LEMMA TicketMoves ==
  ASSUME Cached, Agreeing, NEW f, Traced(f), ParseNewSessionTicket
  PROVE  ClientMoves(f)
<1> DEFINE x == ssl["cli"]
           v == ssl["srv"]
           h == Heard("cli")
           m == Msg("cli")
           y == [h EXCEPT !.due = FALSE, !.neg.id = 0, !.neg.ticket = m.ticket]
<1>0. /\ Shapes /\ Fit("cli", x) /\ DOMAIN x = ContextFields /\ "cli" \in Ends
      /\ draws \in Nat /\ draws' = draws /\ wire["cli"] # <<>> /\ m.msg = "NEW_SESSION_TICKET"
      /\ DOMAIN x.neg = SessionFields /\ Hear("cli", y)
  BY AgreeingFacts, Peers DEF Cached, ParseNewSessionTicket, CameAs, Comes, Fit
<1>1. /\ ClientKnows(f, chain, made, draws', v, x) /\ Known(chain, made, draws', 0)
      /\ ToldClient(f, chain, made, draws', v, Head(wire["cli"]))
  <2>1. draws' \in Nat /\ draws <= draws'
    BY <1>0
  <2> QED BY <1>0, <2>1, ClientCarries
<1>2. Issued(made, v, m.ticket)
  BY <1>0, <1>1 DEF ToldClient, Msg
<1>3. /\ DOMAIN h = ContextFields /\ h.sr = x.sr /\ h.st = x.st /\ h.neg = x.neg
      /\ h.sess = x.sess /\ h.resume = x.resume
  BY <1>0, HeardKeeps
<1> HIDE DEF h, m
<1>4. /\ DOMAIN y = ContextFields /\ y.st = x.st /\ y.sess = x.sess /\ y.resume = x.resume
      /\ y.neg.id = 0 /\ y.neg.ticket = m.ticket /\ y.neg.suite = x.neg.suite
      /\ y.neg.master = x.neg.master /\ y.sr = x.sr
  BY <1>0, <1>3 DEF ContextFields, SessionFields
<1> HIDE DEF y
<1>5. Near(ssl'["cli"], y) /\ wire'["srv"] = wire["srv"]
  BY <1>0, <1>4, NearSteps, Peers
<1>6. ClientKnows(f, chain, made, draws', v, ssl'["cli"])
  BY <1>1, <1>2, <1>4, <1>5 DEF ClientKnows, Presents, Chose, Bonded, Near
<1> QED BY <1>5, <1>6 DEF ClientMoves

\* The context at the end of a handshake, and at the end of a renegotiation.
Done(x) == [Fresh(x) EXCEPT !.sess = x.neg, !.st = "HANDSHAKE_OVER"]
DoneAgain(x) == [Done(x) EXCEPT !.reneg = "DONE", !.seen = 0]

\* What w has from x when its handshake is over, and when it starts over.
Rid(w, x) ==
  /\ DOMAIN w = ContextFields /\ w.neg = NoSession /\ w.resume = FALSE /\ w.due = FALSE
  /\ w.err = x.err
IsOver(w, x) == Rid(w, x) /\ w.sess = x.neg /\ w.st = "HANDSHAKE_OVER"
IsRenewed(w, x) == Rid(w, x) /\ w.sess = x.sess /\ w.st = "HELLO_REQUEST"

\* ssl_handshake_wrapup and ssl_start_renegotiation do that.
LEMMA DoneFields ==
  ASSUME NEW x, DOMAIN x = ContextFields
  PROVE  IsOver(Done(x), x) /\ IsOver(DoneAgain(x), x) /\ IsRenewed(Renewed(x), x)
<1> DEFINE u == Fresh(x)
           y == Done(x)
<1>1. /\ DOMAIN u = ContextFields /\ u.sess = x.sess /\ u.st = "HELLO_REQUEST"
      /\ u.neg = NoSession /\ u.resume = FALSE /\ u.due = FALSE /\ u.err = x.err
  BY DEF Fresh, ContextFields
<1>2. IsRenewed(Renewed(x), x)
  <2> HIDE DEF u
  <2>1. Renewed(x) = [u EXCEPT !.reneg = "RENEGOTIATION"]
    BY DEF Renewed, u
  <2> QED BY <1>1, <2>1 DEF IsRenewed, Rid, ContextFields
<1>3. IsOver(y, x)
  <2> HIDE DEF u
  <2>1. y = [u EXCEPT !.sess = x.neg, !.st = "HANDSHAKE_OVER"]
    BY DEF Done, u
  <2> QED BY <1>1, <2>1 DEF IsOver, Rid, ContextFields
<1>4. IsOver(DoneAgain(x), x)
  <2> HIDE DEF y
  <2>1. DoneAgain(x) = [y EXCEPT !.reneg = "DONE", !.seen = 0]
    BY DEF DoneAgain, y
  <2> QED BY <1>3, <2>1 DEF IsOver, Rid, ContextFields
<1> QED BY <1>2, <1>3, <1>4

\* ssl_handshake_wrapup of the client, and its starting over.
LEMMA ClientEnds ==
  ASSUME Cached, Agreeing, NEW f, Traced(f), draws' = draws,
         \/ Wrapup("cli")
         \/ Move("cli", Renewed(ssl["cli"])) \/ Hear("cli", Renewed(ssl["cli"]))
  PROVE  ClientMoves(f)
<1> DEFINE x == ssl["cli"]
           v == ssl["srv"]
           y == Done(x)
           z == DoneAgain(x)
           n == Renewed(x)
<1>0. /\ Shapes /\ DOMAIN x = ContextFields /\ "cli" \in Ends /\ draws \in Nat
  BY AgreeingFacts, Peers DEF Cached
<1>1. (\A w \in {y, z} : IsOver(w, x)) /\ IsRenewed(n, x)
  BY <1>0, DoneFields
<1>2. /\ ClientKnows(f, chain, made, draws', v, x) /\ Known(chain, made, draws', 0)
      /\ Issued(made, v, NoTicket) /\ NoSession.id = 0 /\ NoSession.ticket = NoTicket
  <2>1. draws' \in Nat /\ draws <= draws'
    BY <1>0
  <2> QED BY <2>1, ClientCarries
<1>3. "HANDSHAKE_OVER" \notin Making /\ "HELLO_REQUEST" \notin Making
      /\ "HANDSHAKE_OVER" \notin Secret /\ "HELLO_REQUEST" \notin Secret
  BY DEF Making, Judging, Secret
<1>4. Presents(chain, made, draws', v, NoSession)
  BY <1>2 DEF Presents
<1>5. CASE Wrapup("cli")
  <2>1. x.st = "HANDSHAKE_WRAPUP" /\ (Move("cli", y) \/ Move("cli", z))
    BY <1>5 DEF Wrapup, At, Done, DoneAgain
  <2> HIDE DEF y, z, n
  <2>2. PICK w \in {y, z} : Move("cli", w)
    BY <2>1
  <2>3. Near(ssl'["cli"], w) /\ wire'["srv"] = wire["srv"]
    BY <1>0, <1>1, <2>2, NearSteps, Peers DEF IsOver, Rid
  <2>4. Bonded(f, draws', x.neg)
    <3>1. x.st \in Making /\ x.st \in Secret
      BY <2>1 DEF Making, Judging, Secret
    <3> QED BY <1>2, <3>1 DEF ClientKnows, Chose, Bonded
  <2>5. ClientKnows(f, chain, made, draws', v, ssl'["cli"])
    BY <1>1, <1>2, <1>3, <1>4, <2>3, <2>4 DEF ClientKnows, Chose, Near, IsOver, Rid
  <2> QED BY <2>3, <2>5 DEF ClientMoves
<1>6. CASE Move("cli", n) \/ Hear("cli", n)
  <2> HIDE DEF n, y, z
  <2>1. Near(ssl'["cli"], n) /\ wire'["srv"] = wire["srv"]
    BY <1>0, <1>1, <1>6, NearSteps, Peers DEF IsRenewed, Rid
  <2>2. ClientKnows(f, chain, made, draws', v, ssl'["cli"])
    BY <1>1, <1>2, <1>3, <1>4, <2>1 DEF ClientKnows, Chose, Near, IsRenewed, Rid
  <2> QED BY <2>1, <2>2 DEF ClientMoves
<1> QED BY <1>5, <1>6

\* Every step of the client.
LEMMA ClientTraced ==
  ASSUME Cached, Agreeing, NEW f, Traced(f), EndActs("cli")
  PROVE  Traced(f)'
<1>0. /\ Shapes /\ draws \in Nat /\ "cli" \in Ends /\ DOMAIN ssl["cli"].neg = SessionFields
  BY AgreeingFacts, Peers DEF Cached, Fit
<1>1. draws' \in Nat /\ draws <= draws'
  BY <1>0, DrawsGrow DEF EndActs
<1>2. chain' = chain /\ made' = made
  <2>1. Wrapup("cli") => chain' = chain /\ made' = made
    BY DEF Wrapup, Wrapped
  <2> QED BY <2>1 DEF EndActs, Handshake, ReadHandshake, Renegotiate, Close, Write, ReadData
<1>3. Idles("cli") => ClientMoves(f)
  BY <1>1, IdleClient
<1>4. CASE ReadHandshake("cli") \/ Renegotiate("cli") \/ Close("cli") \/ Write("cli")
           \/ ReadData("cli")
  <2>1. CASE Move("cli", Renewed(ssl["cli"])) \/ Hear("cli", Renewed(ssl["cli"]))
    <3>1. CASE draws' = draws
      BY <2>1, <3>1, ClientEnds, <1>2, ClientTraces
    <3>2. draws' = draws
      BY <1>4 DEF ReadHandshake, Renegotiate, Close, Write, ReadData
    <3> QED BY <3>1, <3>2
  <2>2. CASE ~Move("cli", Renewed(ssl["cli"])) /\ ~Hear("cli", Renewed(ssl["cli"]))
    <3>1. Idles("cli")
      BY <1>0, <1>4, <2>2, ProgramIdles
    <3> QED BY <1>2, <1>3, <3>1, ClientTraces
  <2> QED BY <2>1, <2>2
<1>5. CASE Handshake("cli")
  <2>1. CASE \/ Begin("cli") \/ WriteCertificate("cli") \/ WriteChangeCipherSpec("cli")
             \/ ParseChangeCipherSpec("cli") \/ FlushBuffers("cli")
    BY <1>0, <1>2, <1>3, <2>1, EitherIdles, ClientTraces
  <2>2. CASE SkipCertificate("cli") \/ ParseCertificate("cli")
    BY <1>0, <1>2, <1>3, <2>2, CertificateIdles, ClientTraces
  <2>3. CASE WriteFinished("cli") \/ ParseFinished("cli")
    <3>1. Idles("cli")
      BY <1>0, <2>3, FinishedIdles
    <3> QED BY <1>2, <1>3, <3>1, ClientTraces
  <2>4. CASE Unexpected("cli") \/ ReadFails("cli")
    BY <1>0, <1>2, <1>3, <2>4, UselessIdles, ClientTraces
  <2>5. CASE Wrapup("cli")
    <3>1. draws' = draws
      BY <2>5 DEF Wrapup
    <3> QED BY <1>2, <2>5, <3>1, ClientEnds, ClientTraces
  <2>6. CASE \/ ParseServerKeyExchange \/ ParseCertificateRequest \/ ParseServerHelloDone
             \/ WriteCertificateVerify
    BY <1>2, <1>3, <2>6, ClientIdles, ClientTraces
  <2>7. CASE WriteClientHello \/ ParseServerHello \/ WriteClientKeyExchange
             \/ ParseNewSessionTicket
    BY <1>2, <2>7, ClientHelloMoves, ServerHelloMoves, ClientKeyMoves, TicketMoves, ClientTraces
  <2>8. "cli" # "srv"
    OBVIOUS
  <2> QED BY <1>5, <2>1, <2>2, <2>3, <2>4, <2>5, <2>6, <2>7, <2>8 DEF Handshake, ClientStep
<1> QED BY <1>4, <1>5 DEF EndActs

-----------------------------------------------------------------------------
(* The server's steps.                                                      *)

\* The server's context, what it makes and what it writes say nothing that is not so.
ServerMoves(f) ==
  /\ Grows(chain, made, draws, ssl["srv"], chain', made', draws', ssl'["srv"])
  /\ ServerKnows(f, chain', made', draws', clock, ssl'["srv"])
  /\ \/ wire'["cli"] = wire["cli"]
     \/ \E r : /\ ToldClient(f, chain', made', draws', ssl'["srv"], r)
               /\ wire'["cli"] = Append(wire["cli"], r)
  /\ Records(f, draws', made')

\* The server's trace leads to the client's.
LEMMA ServerTraces ==
  ASSUME Cached, NEW f, Traced(f), EndActs("srv"), ServerMoves(f)
  PROVE  Traced(f)'
<1> DEFINE v == ssl["srv"]
           w == ssl'["srv"]
<1>0. Shapes /\ draws \in Nat /\ "srv" \in Ends /\ IsSequence(wire["cli"]) /\ IsSequence(wire["srv"])
  BY Peers DEF Cached, Verified, Shapes
<1>1. /\ ssl'["cli"] = ssl["cli"] /\ UNCHANGED <<saved, clock>>
      /\ wire'["srv"] = wire["srv"] \/ (wire["srv"] # <<>> /\ wire'["srv"] = Tail(wire["srv"]))
  <2>1. UNCHANGED <<saved, clock>>
    BY DEF EndActs, Handshake, ReadHandshake, Renegotiate, Close, Write, ReadData, envvars
  <2>2. /\ ssl'["cli"] = ssl["cli"]
        /\ wire'["srv"] = wire["srv"] \/ (wire["srv"] # <<>> /\ wire'["srv"] = Tail(wire["srv"]))
    BY <1>0, EndSteps, Peers DEF EndActs
  <2> QED BY <2>1, <2>2
<1>2. Grows(chain, made, draws, v, chain', made', draws', w)
  BY DEF ServerMoves
<1>3. /\ \A n : Presents(chain, made, draws, v, n) => Presents(chain', made', draws', w, n)
      /\ \A n : Bonded(f, draws, n) => Bonded(f, draws', n)
      /\ \A x : ClientKnows(f, chain, made, draws, v, x) => ClientKnows(f, chain', made', draws', w, x)
      /\ \A r : ToldServer(f, chain, made, draws, v, r) => ToldServer(f, chain', made', draws', w, r)
      /\ \A r : ToldClient(f, chain, made, draws, v, r) => ToldClient(f, chain', made', draws', w, r)
  <2> HIDE DEF v, w
  <2> QED BY <1>2, CarriedOver
<1>4. ServerKnows(f, chain', made', draws', clock, w) /\ Records(f, draws', made')
  BY DEF ServerMoves
<1>5. ClientKnows(f, chain', made', draws', w, ssl["cli"])
  BY <1>3 DEF Traced
<1>6. Presents(chain', made', draws', w, saved) /\ (saved # NoSession => Bonded(f, draws', saved))
  BY <1>3 DEF Traced
<1>7. \A i \in 1..Len(wire'["cli"]) : ToldClient(f, chain', made', draws', w, wire'["cli"][i])
  <2>1. \A i \in 1..Len(wire["cli"]) : ToldClient(f, chain', made', draws', w, wire["cli"][i])
    BY <1>3 DEF Traced
  <2>2. ASSUME NEW r, ToldClient(f, chain', made', draws', w, r),
               wire'["cli"] = Append(wire["cli"], r)
        PROVE  \A i \in 1..Len(wire'["cli"]) : ToldClient(f, chain', made', draws', w, wire'["cli"][i])
    <3>1. \A i \in 1..Len(wire'["cli"]) :
            wire'["cli"][i] = r \/ \E j \in 1..Len(wire["cli"]) : wire'["cli"][i] = wire["cli"][j]
      BY <1>0, <2>2, OnTheWire
    <3> QED BY <2>1, <2>2, <3>1
  <2>3. \/ wire'["cli"] = wire["cli"]
        \/ \E r : /\ ToldClient(f, chain', made', draws', w, r)
                  /\ wire'["cli"] = Append(wire["cli"], r)
    BY DEF ServerMoves
  <2> QED BY <2>1, <2>2, <2>3
<1>8. \A i \in 1..Len(wire'["srv"]) : ToldServer(f, chain', made', draws', w, wire'["srv"][i])
  <2>1. \A i \in 1..Len(wire["srv"]) : ToldServer(f, chain', made', draws', w, wire["srv"][i])
    BY <1>3 DEF Traced
  <2>2. CASE wire["srv"] # <<>> /\ wire'["srv"] = Tail(wire["srv"])
    <3>1. \A i \in 1..Len(Tail(wire["srv"])) :
            \E j \in 1..Len(wire["srv"]) : Tail(wire["srv"])[i] = wire["srv"][j]
      BY <1>0, <2>2, OnTheWire
    <3> QED BY <2>1, <2>2, <3>1
  <2> QED BY <1>1, <2>1, <2>2
<1> QED BY <1>1, <1>4, <1>5, <1>6, <1>7, <1>8 DEF Traced

\* A step of the server that makes nothing and draws nothing.
LEMMA StillServer ==
  ASSUME Cached, NEW f, Traced(f), draws' = draws, chain' = chain, made' = made,
         Sure(ssl["srv"]) => Sure(ssl'["srv"]) /\ ssl'["srv"].neg = ssl["srv"].neg,
         ServerKnows(f, chain, made, draws, clock, ssl'["srv"]),
         \/ wire'["cli"] = wire["cli"]
         \/ \E r : /\ ToldClient(f, chain, made, draws, ssl'["srv"], r)
                   /\ wire'["cli"] = Append(wire["cli"], r)
  PROVE  ServerMoves(f)
<1>1. draws \in Nat
  BY DEF Cached
<1>2. Grows(chain, made, draws, ssl["srv"], chain, made, draws, ssl'["srv"])
  BY <1>1 DEF Grows
<1> QED BY <1>2 DEF ServerMoves, Traced

\* A step that leaves the session.
LEMMA IdleServer ==
  ASSUME Cached, NEW f, Traced(f), draws' = draws, chain' = chain, made' = made,
         ssl["srv"].err = "OK", Idles("srv")
  PROVE  ServerMoves(f)
<1> DEFINE x == ssl["srv"]
           y == ssl'["srv"]
<1>1. ServerKnows(f, chain, made, draws, clock, x)
  BY DEF Traced
<1>2. /\ y.resume = x.resume /\ y.due = x.due /\ y.sess = x.sess /\ y.sr = x.sr
      /\ DOMAIN y.neg = DOMAIN x.neg /\ y.neg.id = x.neg.id
      /\ y.neg.suite = x.neg.suite /\ y.neg.master = x.neg.master /\ y.neg.start = x.neg.start
      /\ (x.resume \/ Sure(x) => y.neg = x.neg)
      /\ Strolls("srv", x, y)
  BY DEF Idles, Still
<1>3. /\ \/ wire'["cli"] = wire["cli"]
         \/ \E r : Told("srv", r) /\ wire'["cli"] = Append(wire["cli"], r)
      /\ x.err = "OK"
  BY Peers DEF Idles
<1> HIDE DEF x, y
<1>4. /\ ~x.resume => (y.st \in Making => x.st \in Making) /\ (y.st \in Secret => x.st \in Secret)
      /\ y.st \in Early => x.st \in Early
      /\ y.st \in Unasked => x.st \in Unasked
      /\ y.st = "HANDSHAKE_OVER" => x.st = "HANDSHAKE_OVER"
      /\ ~x.resume /\ x.st \in Certain => y.st \in Certain
      /\ x.resume /\ y.st = "HANDSHAKE_WRAPUP" => x.st = "HANDSHAKE_WRAPUP"
      /\ y.err = x.err \/ (y.st = x.st /\ x.st \notin Certain)
  BY <1>2 DEF Strolls
<1>5. Sure(x) => Sure(y) /\ y.neg = x.neg
  BY <1>2, <1>4 DEF Sure
<1>6. Sure(y) => y.err = "OK"
  BY <1>3, <1>4 DEF Sure
<1>7. Chose(f, draws, y)
  BY <1>1, <1>2, <1>4 DEF ServerKnows, Chose
<1>8. ServerKnows(f, chain, made, draws, clock, y)
  BY <1>1, <1>2, <1>4, <1>6, <1>7 DEF ServerKnows, Early, Unasked
<1>9. \A r : Told("srv", r) => ToldClient(f, chain, made, draws, y, r)
  BY DEF Told, ToldClient
<1> QED BY <1>3, <1>5, <1>8, <1>9, StillServer DEF x, y

\* What the server knows when it reads a record.
LEMMA ServerFacts ==
  ASSUME Cached, Agreeing, NEW f, Traced(f)
  PROVE  LET x == ssl["srv"]
         IN /\ Shapes /\ DOMAIN x = ContextFields /\ Fit("srv", x) /\ "srv" \in Ends
            /\ ServerKnows(f, chain, made, draws, clock, x) /\ DOMAIN x.neg = SessionFields
            /\ wire["srv"] # <<>> => ToldServer(f, chain, made, draws, x, Head(wire["srv"]))
            /\ draws \in Nat /\ clock \in Nat /\ Records(f, draws, made) /\ Entries(chain, draws)
<1>1. IsSequence(wire["srv"]) /\ "srv" \in Ends
  BY Peers DEF Cached, Verified, Shapes
<1>2. wire["srv"] # <<>> => ToldServer(f, chain, made, draws, ssl["srv"], Head(wire["srv"]))
  BY <1>1, OnTheWire DEF Traced
<1> QED BY <1>1, <1>2, AgreeingFacts DEF Cached, Traced, ServerKnows

\* ssl_parse_client_hello: a ticket that is accepted is of a session that was made, and
\* young enough.
LEMMA ParseHelloMoves ==
  ASSUME Cached, Agreeing, Start <= clock, NEW f, Traced(f), ParseClientHello, UNCHANGED <<chain, made>>
  PROVE  ServerMoves(f)
<1> DEFINE x == ssl["srv"]
           m == Msg("srv")
           h == [Heard("srv") EXCEPT !.neg.id = m.id, !.cr = m.rnd]
           k == Ticketed(h, m)
           z == [k EXCEPT !.neg.suite = Prefers[First(Common(m))]]
           y == Onward(z)
<1>0. /\ Shapes /\ DOMAIN x = ContextFields /\ Fit("srv", x) /\ "srv" \in Ends
      /\ ServerKnows(f, chain, made, draws, clock, x) /\ DOMAIN x.neg = SessionFields
      /\ draws \in Nat /\ clock \in Nat /\ Records(f, draws, made)
      /\ wire["srv"] # <<>> => ToldServer(f, chain, made, draws, x, Head(wire["srv"]))
  BY ServerFacts
<1>1. /\ draws' = draws /\ x.st = "CLIENT_HELLO" /\ x.err = "OK"
      /\ wire["srv"] # <<>> /\ m.msg = "CLIENT_HELLO"
      /\ Hear("srv", y) \/ Refuse("srv", "CLIENT_HELLO")
  BY DEF ParseClientHello, At, CameAs, Comes
<1>2. ~x.resume /\ ~x.due /\ x.neg.start = 0
  BY <1>0, <1>1 DEF ServerKnows
<1>3. Known(chain, made, draws, m.id) /\ Issued(made, x, m.ticket)
  BY <1>0, <1>1 DEF ToldServer, Msg
<1>4. /\ DOMAIN h = ContextFields /\ h.st = x.st /\ h.err = "OK" /\ ~h.resume /\ ~h.due
      /\ DOMAIN h.neg = SessionFields /\ h.neg.id = m.id /\ h.neg.start = 0
  <2>1. /\ DOMAIN Heard("srv") = ContextFields /\ Heard("srv").st = x.st
        /\ Heard("srv").neg = x.neg /\ Heard("srv").err = x.err
        /\ Heard("srv").resume = x.resume /\ Heard("srv").due = x.due
    BY <1>0, HeardKeeps
  <2> HIDE DEF m, x
  <2> QED BY <1>0, <1>1, <1>2, <2>1 DEF ContextFields, SessionFields
<1> HIDE DEF h
<1>5. CASE Refuse("srv", "CLIENT_HELLO")
  <2>1. Idles("srv")
    BY <1>0, <1>1, <1>5, Kinds, FailIdles
  <2> QED BY <1>1, <2>1, IdleServer
<1>6. CASE Hear("srv", y)
  <2> DEFINE n == [m.ticket.state EXCEPT !.id = h.neg.id]
             k1 == [h EXCEPT !.resume = TRUE, !.neg = n]
             k2 == [h EXCEPT !.due = TRUE]
  <2>1. k = h \/ k = k2 \/ (k = k1 /\ Accepted(m.ticket))
    <3>1. k = Ticketed(h, m)
      OBVIOUS
    <3>2. CASE ~setting.tickets["srv"] \/ ~m.tickets
      BY <3>2 DEF Ticketed
    <3>3. CASE ~(~setting.tickets["srv"] \/ ~m.tickets) /\ h.reneg = "INITIAL" /\ Accepted(m.ticket)
      BY <3>3 DEF Ticketed
    <3>4. CASE /\ ~(~setting.tickets["srv"] \/ ~m.tickets)
               /\ ~(h.reneg = "INITIAL" /\ Accepted(m.ticket))
      BY <3>4 DEF Ticketed
    <3> HIDE DEF k, m, x, k1, k2
    <3> QED BY <3>2, <3>3, <3>4
  <2>2. CASE k = k1 /\ Accepted(m.ticket)
    <3>1. PICK e \in made : e.session = m.ticket.state
      <4>1. m.ticket.state.start # 0
        BY <1>0, <2>2, HandshakeAssumption DEF Accepted
      <4>2. ~Sure(x)
        BY <1>1 DEF Sure, Certain
      <4> QED BY <1>3, <2>2, <4>1, <4>2 DEF Issued, Accepted
    <3>2. /\ DOMAIN m.ticket.state = SessionFields /\ e.session.start \in Nat
          /\ clock - e.session.start <= TicketLifetime
      BY <1>0, <2>2, <3>1 DEF Records, Accepted
    <3> HIDE DEF m, x
    <3>3. /\ DOMAIN n = SessionFields /\ n.id = m.id /\ n.master = e.session.master
          /\ n.verify = e.session.verify /\ n.cert = e.session.cert
      BY <1>4, <3>1, <3>2 DEF SessionFields
    <3> HIDE DEF n
    <3>4. /\ DOMAIN k = ContextFields /\ k.st = x.st /\ k.err = "OK" /\ k.resume /\ ~k.due
          /\ k.neg = n
      BY <1>4, <2>2 DEF ContextFields
    <3> HIDE DEF k
    <3>5. /\ DOMAIN z = ContextFields /\ z.st = x.st /\ z.err = "OK" /\ z.resume /\ ~z.due
          /\ DOMAIN z.neg = SessionFields /\ z.neg.id = n.id /\ z.neg.master = n.master
          /\ z.neg.verify = n.verify /\ z.neg.cert = n.cert
      BY <3>3, <3>4 DEF ContextFields, SessionFields
    <3> HIDE DEF z
    <3>6. /\ DOMAIN y = ContextFields /\ y.st = "SERVER_HELLO" /\ y.err = "OK" /\ y.resume
          /\ ~y.due /\ y.neg = z.neg
      BY <1>1, <3>5, OnwardKeeps, NextState
    <3>7. Near(ssl'["srv"], y) /\ wire'["cli"] = wire["cli"]
      BY <1>0, <1>6, <3>6, NearSteps, Peers
    <3> HIDE DEF y
    <3>8. Grounded(made, clock, y.neg)
      BY <3>1, <3>2, <3>3, <3>5, <3>6 DEF Grounded, Kin, Young
    <3>9. ServerKnows(f, chain, made, draws, clock, ssl'["srv"])
      BY <1>3, <3>3, <3>5, <3>6, <3>7, <3>8 DEF ServerKnows, Chose, Near, Sure
    <3>10. ~Sure(x)
      BY <1>1 DEF Sure, Certain
    <3> QED BY <1>1, <3>7, <3>9, <3>10, StillServer DEF x
  <2>3. CASE k = h \/ k = k2
    <3>1. /\ DOMAIN k = ContextFields /\ k.st = x.st /\ k.err = "OK" /\ ~k.resume
          /\ k.neg = h.neg
      BY <1>4, <2>3 DEF ContextFields
    <3> HIDE DEF k, m, x
    <3>2. /\ DOMAIN z = ContextFields /\ z.st = x.st /\ z.err = "OK" /\ ~z.resume
          /\ DOMAIN z.neg = SessionFields /\ z.neg.id = m.id /\ z.neg.start = 0
      BY <1>4, <3>1 DEF ContextFields, SessionFields
    <3> HIDE DEF z
    <3>3. /\ DOMAIN y = ContextFields /\ y.st = "SERVER_HELLO" /\ y.err = "OK" /\ ~y.resume
          /\ y.neg = z.neg
      BY <1>1, <3>2, OnwardKeeps, NextState
    <3>4. Near(ssl'["srv"], y) /\ wire'["cli"] = wire["cli"]
      BY <1>0, <1>6, <3>3, NearSteps, Peers
    <3> HIDE DEF y
    <3>5. "SERVER_HELLO" \notin Making /\ "SERVER_HELLO" \notin Secret
      BY DEF Making, Judging, Secret
    <3>6. ServerKnows(f, chain, made, draws, clock, ssl'["srv"])
      BY <1>3, <3>2, <3>3, <3>4, <3>5 DEF ServerKnows, Chose, Near, Sure
    <3>7. ~Sure(x)
      BY <1>1 DEF Sure, Certain
    <3> QED BY <1>1, <3>4, <3>6, <3>7, StillServer DEF x
  <2> QED BY <2>1, <2>2, <2>3
<1> QED BY <1>1, <1>5, <1>6

\* What ssl_cache_get finds is a session that was made, and young enough.
LEMMA FoundGenuine ==
  ASSUME NEW n, n.id # 0, Known(chain, made, draws, n.id), Found(n.id, n.suite) # {},
         NEW f, Records(f, draws, made), IsSequence(chain), clock \in Nat
  PROVE  LET old == Get(n.id, n.suite)
         IN \E m \in made : m.session = old /\ Young(clock, m.session)
<1> DEFINE i == First(Found(n.id, n.suite))
<1>1. i \in Found(n.id, n.suite)
  <2>1. DOMAIN chain = 1..Len(chain) /\ Len(chain) \in Nat
    BY Appended
  <2>2. Found(n.id, n.suite) \in SUBSET Nat
    BY <2>1 DEF Found
  <2> QED BY <2>2, FirstOf
<1>2. i \in 1..Len(chain) /\ ~Expired(chain[i]) /\ chain[i].session.id = n.id
  <2>1. DOMAIN chain = 1..Len(chain)
    BY Appended
  <2> QED BY <1>1, <2>1 DEF Found
<1>3. PICK m \in made : m.session = chain[i].session /\ chain[i].stamp = chain[i].session.start
  BY <1>2 DEF Known, Genuine
<1>4. m.session.start \in Nat
  BY DEF Records
<1>5. Young(clock, m.session)
  BY <1>2, <1>3, <1>4, CacheAssumption DEF Expired, Young
<1> QED BY <1>3, <1>5 DEF Get

\* ssl_write_server_hello, where the suite goes with the random value it draws.
LEMMA WriteHelloMoves ==
  ASSUME Cached, Agreeing, NEW f, Traced(f), WriteServerHello, UNCHANGED <<chain, made>>,
         f[draws + 1] = ssl["srv"].neg.suite
  PROVE  ServerMoves(f)
<1> DEFINE v == ssl["srv"]
           k == Recalled(v)
           x == [k EXCEPT !.sr = draws + 1]
           y1 == [x EXCEPT !.st = "SERVER_CHANGE_CIPHER_SPEC"]
           z == [x EXCEPT !.neg.start = clock, !.neg.id = IF x.due THEN 0 ELSE draws + 2]
           y == IF x.resume THEN y1 ELSE Onward(z)
           m == [msg |-> "SERVER_HELLO", rnd |-> draws + 1, id |-> y.neg.id,
                 suite |-> y.neg.suite,
                 info |-> IF x.reneg = "INITIAL" THEN NoInfo ELSE <<x.peer, x.own>>,
                 tickets |-> x.due]
           r == [keys |-> y.out, m |-> m]
<1>0. /\ Shapes /\ DOMAIN v = ContextFields /\ Fit("srv", v) /\ "srv" \in Ends
      /\ ServerKnows(f, chain, made, draws, clock, v) /\ DOMAIN v.neg = SessionFields
      /\ draws \in Nat /\ clock \in Nat /\ Records(f, draws, made) /\ Entries(chain, draws)
  BY ServerFacts
<1>1. draws' = draws + 2 /\ v.st = "SERVER_HELLO" /\ v.err = "OK" /\ Say("srv", y, m)
  BY DEF WriteServerHello, At
<1>2. /\ DOMAIN k = ContextFields /\ k.st = v.st /\ k.err = "OK" /\ k.due = v.due
      /\ DOMAIN k.neg = SessionFields /\ k.neg.id = v.neg.id /\ k.neg.suite = v.neg.suite
      /\ k.neg.start = v.neg.start
      /\ k.resume => Grounded(made, clock, k.neg)
      /\ v.resume => k.resume
  <2>1. CASE /\ ~v.resume /\ v.reneg = "INITIAL" /\ v.neg.id # 0
             /\ Found(v.neg.id, v.neg.suite) # {}
    <3> DEFINE old == Get(v.neg.id, v.neg.suite)
    <3>1. k = [v EXCEPT !.resume = TRUE, !.neg.master = old.master, !.neg.verify = old.verify,
                        !.neg.cert = old.cert]
      BY <2>1 DEF Recalled
    <3>2. \E e \in made : e.session = old /\ Young(clock, e.session)
      <4>1. Known(chain, made, draws, v.neg.id) /\ IsSequence(chain)
        BY <1>0 DEF ServerKnows, Entries
      <4> HIDE DEF v
      <4> QED BY <1>0, <2>1, <4>1, FoundGenuine
    <3> HIDE DEF old, k, v
    <3>3. /\ DOMAIN k = ContextFields /\ k.st = v.st /\ k.err = v.err /\ k.due = v.due
          /\ DOMAIN k.neg = SessionFields /\ k.neg.id = v.neg.id /\ k.neg.suite = v.neg.suite
          /\ k.neg.start = v.neg.start /\ k.neg.master = old.master
          /\ k.neg.verify = old.verify /\ k.neg.cert = old.cert
      BY <1>0, <3>1 DEF ContextFields, SessionFields
    <3>4. Grounded(made, clock, k.neg)
      BY <3>2, <3>3 DEF Grounded, Kin
    <3> QED BY <1>1, <2>1, <3>3, <3>4
  <2>2. CASE ~(/\ ~v.resume /\ v.reneg = "INITIAL" /\ v.neg.id # 0
               /\ Found(v.neg.id, v.neg.suite) # {})
    <3>1. k = v
      BY <2>2 DEF Recalled
    <3> HIDE DEF k
    <3> QED BY <1>0, <1>1, <3>1 DEF ServerKnows
  <2> QED BY <2>1, <2>2
<1> HIDE DEF k
<1>3. /\ DOMAIN x = ContextFields /\ x.st = v.st /\ x.err = "OK" /\ x.due = v.due
      /\ x.neg = k.neg /\ x.resume = k.resume /\ x.sr = draws + 1
  BY <1>2 DEF ContextFields
<1> HIDE DEF x
<1>4. /\ DOMAIN y = ContextFields /\ y.err = "OK" /\ y.resume = x.resume /\ y.sr = draws + 1
      /\ y.due = x.due /\ DOMAIN y.neg = SessionFields /\ y.neg.suite = v.neg.suite
      /\ x.resume => y.st = "SERVER_CHANGE_CIPHER_SPEC" /\ y.neg = x.neg
      /\ ~x.resume => /\ y.st = "SERVER_CERTIFICATE" /\ y.neg.start = clock
                      /\ y.neg.id \in {0, draws + 2}
  <2>1. CASE x.resume
    <3>1. y = y1
      BY <2>1
    <3> HIDE DEF y
    <3> QED BY <1>2, <1>3, <2>1, <3>1 DEF ContextFields
  <2>2. CASE ~x.resume
    <3>1. /\ DOMAIN z = ContextFields /\ z.err = "OK" /\ z.resume = x.resume /\ z.sr = x.sr
          /\ z.due = x.due /\ DOMAIN z.neg = SessionFields /\ z.neg.suite = v.neg.suite
          /\ z.st = v.st /\ z.neg.start = clock /\ z.neg.id \in {0, draws + 2}
      BY <1>2, <1>3 DEF ContextFields, SessionFields
    <3>2. y = Onward(z)
      BY <2>2
    <3> HIDE DEF y, z
    <3> QED BY <1>1, <1>3, <2>2, <3>1, <3>2, OnwardKeeps, NextState
  <2> QED BY <2>1, <2>2
<1>5. r.m.msg = "SERVER_HELLO" /\ r.m.rnd = draws + 1 /\ r.m.id = y.neg.id /\ r.m.suite = y.neg.suite
  OBVIOUS
<1> HIDE DEF y, m
<1>6. Near(ssl'["srv"], y) /\ wire'["cli"] = Append(wire["cli"], r)
  BY <1>0, <1>1, <1>4, NearSteps, Peers
<1> HIDE DEF r, v
<1>7. draws' \in Nat /\ draws <= draws'
  BY <1>0, <1>1
<1>8. Grows(chain, made, draws, v, chain, made, draws', ssl'["srv"])
  <2>1. ~Sure(v)
    BY <1>1 DEF Sure, Certain
  <2> QED BY <1>0, <1>7, <2>1 DEF Grows
<1>9. Known(chain, made, draws', y.neg.id)
  <2>1. Known(chain, made, draws', draws + 2)
    <3>1. \A i \in 1..Len(chain) : chain[i].session.id # draws + 2
      BY <1>0 DEF Entries
    <3> QED BY <1>0, <1>1, <3>1 DEF Known
  <2>2. Known(chain, made, draws', 0)
    BY <1>7, NothingKnown
  <2>3. Known(chain, made, draws', v.neg.id)
    <3>1. Known(chain, made, draws, v.neg.id)
      BY <1>0 DEF ServerKnows
    <3> QED BY <1>8, <3>1, Carried
  <2> QED BY <1>2, <1>3, <1>4, <2>1, <2>2, <2>3
<1>10. Bond(f, draws', draws + 1, y.neg.suite)
  BY <1>0, <1>1, <1>4 DEF Bond, v
<1>11. ToldClient(f, chain, made, draws', ssl'["srv"], r)
  BY <1>5, <1>9, <1>10 DEF ToldClient
<1>12. Records(f, draws', made)
  <2>1. \A n : Bonded(f, draws, n) => Bonded(f, draws', n)
    BY <1>8, CarriedOver
  <2> QED BY <1>0, <2>1 DEF Records
<1>13. ServerKnows(f, chain, made, draws', clock, ssl'["srv"])
  <2>1. Chose(f, draws', y)
    BY <1>4, <1>10 DEF Chose, Secret
  <2>2. CASE x.resume
    <3>1. y.due => y.neg.start = 0
      BY <1>0, <1>1, <1>2, <1>3, <1>4, <2>2 DEF ServerKnows
    <3>2. Grounded(made, clock, y.neg)
      BY <1>2, <1>3, <1>4, <2>2
    <3> QED BY <1>4, <1>6, <1>9, <2>1, <2>2, <3>1, <3>2 DEF ServerKnows, Chose, Near, Sure
  <2>3. CASE ~x.resume
    <3> QED BY <1>4, <1>6, <1>9, <2>1, <2>3 DEF ServerKnows, Chose, Near, Sure
  <2> QED BY <2>2, <2>3
<1> QED BY <1>6, <1>8, <1>11, <1>12, <1>13 DEF ServerMoves, v

\* ssl_parse_client_key_exchange: the secret has the server's random value in it.
LEMMA ServerKeyMoves ==
  ASSUME Cached, Agreeing, NEW f, Traced(f), ParseClientKeyExchange, UNCHANGED <<chain, made>>
  PROVE  ServerMoves(f)
<1> DEFINE x == ssl["srv"]
           h == Heard("srv")
           k == Master("srv", h, Msg("srv").pms)
           z == [h EXCEPT !.neg.master = k]
           y == Onward(z)
<1>0. /\ Shapes /\ DOMAIN x = ContextFields /\ Fit("srv", x) /\ "srv" \in Ends
      /\ ServerKnows(f, chain, made, draws, clock, x) /\ DOMAIN x.neg = SessionFields
      /\ draws \in Nat /\ clock \in Nat
  BY ServerFacts
<1>1. draws' = draws /\ x.st = "CLIENT_KEY_EXCHANGE" /\ x.err = "OK" /\ Hear("srv", y)
  BY DEF ParseClientKeyExchange, At
<1>2. ~x.resume /\ x.st \in Making /\ x.st \notin Certain
  BY <1>0, <1>1 DEF Fit, Full, Making, Judging, Certain
<1>3. /\ DOMAIN h = ContextFields /\ h.st = x.st /\ h.resume = x.resume
      /\ h.due = x.due /\ h.sess = x.sess /\ h.sr = x.sr /\ h.neg = x.neg /\ h.err = x.err
  BY <1>0, HeardKeeps
<1>4. k[4] = x.sr
  BY <1>3 DEF Master
<1> HIDE DEF h, k, x
<1>5. /\ DOMAIN z = ContextFields /\ z.st = x.st /\ z.resume = x.resume
      /\ z.due = x.due /\ z.sess = x.sess /\ z.sr = x.sr /\ z.err = x.err
      /\ DOMAIN z.neg = SessionFields /\ z.neg.master[4] = x.sr /\ z.neg.id = x.neg.id
      /\ z.neg.suite = x.neg.suite /\ z.neg.start = x.neg.start
  BY <1>0, <1>3, <1>4 DEF ContextFields, SessionFields
<1> HIDE DEF z
<1>6. /\ DOMAIN y = ContextFields /\ y.st = "CERTIFICATE_VERIFY" /\ y.resume = x.resume
      /\ y.due = x.due /\ y.sess = x.sess /\ y.sr = x.sr /\ y.neg = z.neg
  BY <1>1, <1>5, OnwardKeeps, NextState
<1>7. Near(ssl'["srv"], y) /\ wire'["cli"] = wire["cli"]
  BY <1>0, <1>1, <1>6, NearSteps, Peers
<1> HIDE DEF y
<1>8. Bond(f, draws, x.sr, x.neg.suite) /\ x.neg.start = clock /\ Known(chain, made, draws, x.neg.id)
  BY <1>0, <1>2 DEF ServerKnows, Chose
<1>9. ServerKnows(f, chain, made, draws, clock, ssl'["srv"])
  BY <1>2, <1>5, <1>6, <1>7, <1>8 DEF ServerKnows, Chose, Near, Sure, Certain
<1>10. ~Sure(x)
  BY <1>2 DEF Sure
<1> QED BY <1>1, <1>7, <1>9, <1>10, StillServer DEF x

\* ssl_parse_finished at the end of a resumption: the keys it was read with tell that the
\* suite is that of the session that was made.
LEMMA ResumedMoves ==
  ASSUME Cached, Agreeing, NEW f, Traced(f), ParseFinished("srv"), ssl["srv"].resume,
         UNCHANGED <<chain, made>>
  PROVE  ServerMoves(f)
<1> DEFINE x == ssl["srv"]
           h == Heard("srv")
           z == [h EXCEPT !.in = KeysOf(Peer("srv"), x), !.peer = Remembered("srv")]
           y == [z EXCEPT !.st = "HANDSHAKE_WRAPUP"]
<1>0. /\ Shapes /\ DOMAIN x = ContextFields /\ Fit("srv", x) /\ "srv" \in Ends
      /\ ServerKnows(f, chain, made, draws, clock, x) /\ DOMAIN x.neg = SessionFields
      /\ draws \in Nat /\ clock \in Nat /\ Records(f, draws, made)
      /\ wire["srv"] # <<>> => ToldServer(f, chain, made, draws, x, Head(wire["srv"]))
  BY ServerFacts
<1>1. /\ draws' = draws /\ x.st = "CLIENT_FINISHED" /\ x.err = "OK" /\ wire["srv"] # <<>>
      /\ Msg("srv").msg = "FINISHED" /\ Head(wire["srv"]).keys = KeysOf("cli", x)
      /\ Hear("srv", Ended("srv", z, FALSE)) \/ Fail("srv", "FINISHED")
  BY Peers DEF ParseFinished, At, Finished, CameAs, Comes, InKeys
<1>2. /\ DOMAIN h = ContextFields /\ h.st = x.st /\ h.resume = x.resume
      /\ h.due = x.due /\ h.sess = x.sess /\ h.sr = x.sr /\ h.neg = x.neg /\ h.err = x.err
  BY <1>0, HeardKeeps
<1> HIDE DEF h
<1>3. /\ DOMAIN z = ContextFields /\ z.resume = x.resume
      /\ z.due = x.due /\ z.sess = x.sess /\ z.sr = x.sr /\ z.neg = x.neg /\ z.err = x.err
  BY <1>2 DEF ContextFields
<1> HIDE DEF z
<1>4. /\ DOMAIN y = ContextFields /\ y.st = "HANDSHAKE_WRAPUP" /\ y.resume = x.resume
      /\ y.due = x.due /\ y.sess = x.sess /\ y.sr = x.sr /\ y.neg = x.neg /\ y.err = x.err
  BY <1>3 DEF ContextFields
<1>5. Hear("srv", y) \/ Fail("srv", "FINISHED")
  <2>1. Ended("srv", z, FALSE) = y
    BY <1>3 DEF Ended
  <2> QED BY <1>1, <2>1
<1> HIDE DEF y
<1>6. Firm(made, clock, x.neg)
  <2>1. Bond(f, draws, x.neg.master[4], x.neg.suite)
    <3>1. Bond(f, draws, Head(wire["srv"]).keys[3][4], Head(wire["srv"]).keys[2])
      BY <1>0, <1>1 DEF ToldServer, Msg
    <3> QED BY <1>1, <3>1 DEF KeysOf
  <2>2. PICK m \in made : Kin(x.neg, m.session) /\ Young(clock, m.session)
    BY <1>0 DEF ServerKnows, Grounded
  <2>3. Bond(f, draws, m.session.master[4], m.session.suite)
    BY <1>0 DEF Records, Bonded
  <2>4. x.neg.suite = m.session.suite
    BY <2>1, <2>2, <2>3 DEF Bond, Kin
  <2> QED BY <2>2, <2>4 DEF Firm
<1>7. CASE Hear("srv", y)
  <2>1. Near(ssl'["srv"], y) /\ wire'["cli"] = wire["cli"]
    BY <1>0, <1>4, <1>7, NearSteps, Peers
  <2>2. ServerKnows(f, chain, made, draws, clock, ssl'["srv"])
    <3>1. Known(chain, made, draws, x.neg.id) /\ Grounded(made, clock, x.neg)
          /\ (x.due => x.neg.start = 0)
      BY <1>0 DEF ServerKnows
    <3> QED BY <1>0, <1>4, <1>6, <2>1, <3>1 DEF ServerKnows, Chose, Near, Sure
  <2>3. ~Sure(x)
    BY DEF Sure
  <2> QED BY <1>1, <2>1, <2>2, <2>3, StillServer
<1>8. CASE Fail("srv", "FINISHED")
  <2>1. Idles("srv")
    BY <1>0, <1>1, <1>8, Kinds, FailIdles
  <2> QED BY <1>1, <2>1, IdleServer
<1> QED BY <1>5, <1>7, <1>8

\* ssl_write_new_session_ticket: of the session the server is about to make, or of one it
\* resumed by a ticket it would not take, which has no start.
LEMMA WriteTicketMoves ==
  ASSUME Cached, Agreeing, NEW f, Traced(f), WriteNewSessionTicket, UNCHANGED <<chain, made>>
  PROVE  ServerMoves(f)
<1> DEFINE x == ssl["srv"]
           y == [x EXCEPT !.due = FALSE]
           m == [msg |-> "NEW_SESSION_TICKET", ticket |-> [key |-> boot, state |-> x.neg]]
           r == [keys |-> y.out, m |-> m]
<1>0. /\ Shapes /\ DOMAIN x = ContextFields /\ Fit("srv", x) /\ "srv" \in Ends
      /\ ServerKnows(f, chain, made, draws, clock, x) /\ DOMAIN x.neg = SessionFields
      /\ draws \in Nat /\ clock \in Nat
  BY ServerFacts
<1>1. draws' = draws /\ x.st = "SERVER_CHANGE_CIPHER_SPEC" /\ x.err = "OK" /\ x.due /\ Say("srv", y, m)
  BY DEF WriteNewSessionTicket, At
<1>2. /\ DOMAIN y = ContextFields /\ y.st = x.st /\ y.resume = x.resume /\ ~y.due
      /\ y.sess = x.sess /\ y.sr = x.sr /\ y.neg = x.neg /\ y.err = x.err
  BY <1>0 DEF ContextFields
<1>3. r.m.msg = "NEW_SESSION_TICKET" /\ r.m.ticket.state = x.neg
  OBVIOUS
<1> HIDE DEF y, m
<1>4. Near(ssl'["srv"], y) /\ wire'["cli"] = Append(wire["cli"], r)
  BY <1>0, <1>1, <1>2, NearSteps, Peers
<1> HIDE DEF r, x
<1>5. ServerKnows(f, chain, made, draws, clock, ssl'["srv"])
  BY <1>0, <1>1, <1>2, <1>4 DEF ServerKnows, Chose, Near, Sure
<1>6. Sure(x) => Sure(ssl'["srv"]) /\ ssl'["srv"].neg = x.neg
  BY <1>2, <1>4 DEF Sure, Near
<1>7. Issued(made, ssl'["srv"], r.m.ticket)
  <2>1. CASE x.resume
    BY <1>0, <1>1, <1>3, <2>1 DEF ServerKnows, Issued
  <2>2. CASE ~x.resume
    <3>1. Sure(ssl'["srv"]) /\ ssl'["srv"].neg = x.neg
      BY <1>1, <1>6, <2>2 DEF Sure, Certain
    <3> QED BY <1>3, <3>1 DEF Issued
  <2> QED BY <2>1, <2>2
<1>8. ToldClient(f, chain, made, draws, ssl'["srv"], r)
  BY <1>3, <1>7 DEF ToldClient
<1> QED BY <1>1, <1>4, <1>5, <1>6, <1>8, StillServer DEF x

\* What ssl_cache_set leaves in the cache, and what it puts there.
LEMMA StoredFrom ==
  ASSUME IsSequence(chain), NEW session,
         \A i \in 1..Len(chain) : chain[i].session.id # session.id
  PROVE  \A j \in 1..Len(Stored(session)) :
           \/ Stored(session)[j] = [stamp |-> clock, session |-> session]
           \/ \E i \in 1..Len(chain) : chain[i] = Stored(session)[j]
<1> DEFINE n == Len(chain)
           c == Stored(session)
           e == [stamp |-> clock, session |-> session]
<1>0. n \in Nat /\ DOMAIN chain = 1..n
  BY Appended
<1>1. ASSUME NEW i, c = [chain EXCEPT ![i] = e]
      PROVE  \A j \in 1..Len(c) : c[j] = e \/ \E k \in 1..n : chain[k] = c[j]
  <2>1. DOMAIN c = 1..n /\ \A j \in 1..n : c[j] = (IF j = i THEN e ELSE chain[j])
    <3> HIDE DEF c, e
    <3> QED BY <1>0, <1>1
  <2>2. Len(c) = n
    <3>1. PICK S : chain \in Seq(S)
      BY DEF IsSequence
    <3>2. chain \in Seq(S \cup {e}) /\ e \in S \cup {e}
      BY <3>1, SeqMonotonic
    <3>3. c \in [1..n -> S \cup {e}]
      <4>1. \A j \in 1..n : chain[j] \in S \cup {e}
        BY <1>0, <3>2
      <4>2. \A j \in 1..n : c[j] \in S \cup {e}
        <5> HIDE DEF c, e
        <5> QED BY <2>1, <3>2, <4>1
      <4>3. c = [j \in 1..n |-> c[j]]
        <5> HIDE DEF c, e
        <5> QED BY <1>0, <1>1, <2>1
      <4> HIDE DEF c
      <4> QED BY <4>2, <4>3
    <3> HIDE DEF c, n
    <3> QED BY <1>0, <3>3
  <2> HIDE DEF c, e
  <2> QED BY <2>1, <2>2
<1>2. CASE Slots(session.id) # {}
  <2> DEFINE i == First(Slots(session.id))
  <2>1. i \in Slots(session.id)
    <3>1. Slots(session.id) \in SUBSET Nat
      BY <1>0 DEF Slots
    <3> QED BY <1>2, <3>1, FirstOf
  <2>2. i \in 1..n /\ Expired(chain[i])
    BY <1>0, <2>1 DEF Slots
  <2>3. c = [chain EXCEPT ![i] = [stamp |-> IF Expired(@) THEN clock ELSE @.stamp,
                                  session |-> session]]
    BY <1>2 DEF Stored
  <2> HIDE DEF i, c
  <2>4. c = [chain EXCEPT ![i] = e]
    BY <1>0, <2>2, <2>3
  <2> HIDE DEF e, n
  <2> QED BY <1>1, <2>4 DEF c, e, n
<1>3. CASE Slots(session.id) = {} /\ n < MaxEntries
  <2>1. c = Append(chain, e)
    BY <1>3 DEF Stored
  <2> HIDE DEF c, e
  <2>2. \A j \in 1..Len(c) : c[j] = e \/ \E k \in 1..n : c[j] = chain[k]
    BY <2>1, OnTheWire
  <2> QED BY <2>2 DEF c, e
<1>4. CASE Slots(session.id) = {} /\ ~(n < MaxEntries)
  <2>1. c = chain \/ c = [chain EXCEPT ![Oldest] = e]
    BY <1>4 DEF Stored
  <2> HIDE DEF c, e
  <2>2. \A j \in 1..Len(c) : c[j] = e \/ \E k \in 1..n : chain[k] = c[j]
    BY <1>1, <2>1
  <2> QED BY <2>2 DEF c, e
<1> QED BY <1>2, <1>3, <1>4

\* The chain of a server after it stored a session that was made at the time of its entry.
LEMMA StoredGrows ==
  ASSUME IsSequence(chain), NEW n, \A i \in 1..Len(chain) : chain[i].session.id # n.id,
         NEW d \in Nat, NEW e \in Nat, d <= e, NEW mds, NEW mdt, mds \subseteq mdt, NEW v, NEW w,
         \/ n.start = clock /\ \E m \in mdt : m.session = n
         \/ n.id \in Nat /\ n.id > d,
         Sure(v) => (Sure(w) /\ w.neg = v.neg) \/ \E m \in mdt : m.session = v.neg
  PROVE  Grows(chain, mds, d, v, Stored(n), mdt, e, w)
<1> SUFFICES ASSUME NEW j \in 1..Len(Stored(n))
             PROVE  \/ Genuine(mdt, Stored(n)[j]) \/ \E i \in 1..Len(chain) : chain[i] = Stored(n)[j]
                    \/ Stored(n)[j].session.id \in Nat /\ Stored(n)[j].session.id > d
  BY DEF Grows
<1> DEFINE x == [stamp |-> clock, session |-> n]
<1>1. Stored(n)[j] = x \/ \E i \in 1..Len(chain) : chain[i] = Stored(n)[j]
  BY StoredFrom
<1>2. x.stamp = clock /\ x.session = n
  OBVIOUS
<1> HIDE DEF x
<1> QED BY <1>1, <1>2 DEF Genuine

\* ssl_handshake_wrapup of the server: a full handshake makes its session.
LEMMA ServerEnds ==
  ASSUME Cached, Agreeing, NEW f, Traced(f), Wrapup("srv")
  PROVE  ServerMoves(f)
<1> DEFINE x == ssl["srv"]
           e == [session |-> x.neg, conn |-> conns]
           y == ssl'["srv"]
<1>0. /\ Shapes /\ DOMAIN x = ContextFields /\ Fit("srv", x) /\ "srv" \in Ends
      /\ ServerKnows(f, chain, made, draws, clock, x) /\ DOMAIN x.neg = SessionFields
      /\ draws \in Nat /\ clock \in Nat /\ Records(f, draws, made) /\ Entries(chain, draws)
  BY ServerFacts
<1>1. /\ draws' = draws /\ x.st = "HANDSHAKE_WRAPUP" /\ x.err = "OK"
      /\ Move("srv", Done(x)) \/ Move("srv", DoneAgain(x))
      /\ chain' = IF x.neg.id # 0 /\ ~x.resume THEN Stored(x.neg) ELSE chain
      /\ made' = IF ~x.resume THEN made \cup {e} ELSE made
  BY DEF Wrapup, Wrapped, At, Done, DoneAgain
<1>2. IsOver(y, x) /\ wire'["cli"] = wire["cli"]
  <2>1. /\ IsOver(Done(x), x) /\ IsOver(DoneAgain(x), x)
    BY <1>0, DoneFields
  <2> HIDE DEF x, y
  <2>2. PICK z \in {Done(x), DoneAgain(x)} : Move("srv", z)
    BY <1>1
  <2>3. Near(y, z) /\ wire'["cli"] = wire["cli"] /\ DOMAIN ssl'["srv"] = ContextFields
    <3>1. DOMAIN z = ContextFields
      BY <2>1, <2>2 DEF IsOver, Rid
    <3> QED BY <1>0, <2>2, <3>1, Stepping, NearSteps, Peers DEF y
  <2> QED BY <2>1, <2>2, <2>3 DEF IsOver, Rid, Near, y
<1>3. e.session = x.neg
  OBVIOUS
<1> HIDE DEF e, y
<1>4. Known(chain', made', draws', 0) /\ NoSession.id = 0 /\ DOMAIN NoSession = SessionFields
  BY <1>0, <1>1, NothingKnown, NewShapes DEF NoSession
<1>5. ~x.resume => x.neg.start = clock /\ Bonded(f, draws, x.neg) /\ Sure(x)
  <2>1. x.st \in Making /\ x.st \in Secret /\ x.st \in Certain
    BY <1>1 DEF Making, Judging, Secret, Certain
  <2> QED BY <1>0, <2>1 DEF ServerKnows, Chose, Bonded, Sure
<1>6. Firm(made', clock, x.neg)
  <2>1. CASE x.resume
    BY <1>0, <1>1, <2>1 DEF ServerKnows
  <2>2. CASE ~x.resume
    <3>1. e \in made' /\ Kin(x.neg, e.session) /\ x.neg.suite = e.session.suite
      BY <1>1, <1>3, <2>2 DEF Kin
    <3>2. Young(clock, e.session)
      BY <1>0, <1>3, <1>5, <2>2, HandshakeAssumption DEF Young
    <3> QED BY <3>1, <3>2 DEF Firm
  <2> QED BY <2>1, <2>2
<1>7. Sure(x) => \E m \in made' : m.session = x.neg
  BY <1>1, <1>3 DEF Sure
<1>8. made \subseteq made'
  BY <1>1
<1>9. Records(f, draws', made')
  <2>1. ASSUME NEW m \in made'
        PROVE  /\ DOMAIN m.session = SessionFields /\ m.session.start \in Nat
               /\ Bonded(f, draws, m.session)
    BY <1>0, <1>1, <1>3, <1>5 DEF Records
  <2> QED BY <1>1, <2>1 DEF Records
<1>10. Grows(chain, made, draws, x, chain', made', draws', y)
  <2>1. CASE chain' = chain
    BY <1>0, <1>1, <1>7, <1>8, <2>1 DEF Grows
  <2>2. CASE x.neg.id # 0 /\ ~x.resume /\ chain' = Stored(x.neg)
    <3>1. \A i \in 1..Len(chain) : chain[i].session.id # x.neg.id
      <4>1. x.st \in Making
        BY <1>1 DEF Making, Judging
      <4> QED BY <2>2, <4>1 DEF Cached, Unstored
    <3>2. IsSequence(chain) /\ \E m \in made' : m.session = x.neg
      BY <1>0, <1>5, <1>7, <2>2 DEF Entries
    <3>3. x.neg.start = clock
      BY <1>5, <2>2
    <3> HIDE DEF x
    <3> DEFINE n == x.neg
               mdt == made'
    <3>4. IsSequence(chain) /\ \A i \in 1..Len(chain) : chain[i].session.id # n.id
      BY <3>1, <3>2
    <3>5. made \subseteq mdt /\ (Sure(x) => \E m \in mdt : m.session = x.neg)
          /\ n.start = clock /\ (\E m \in mdt : m.session = n) /\ draws <= draws
      BY <1>0, <1>7, <1>8, <3>2, <3>3
    <3> HIDE DEF n, mdt
    <3>6. Grows(chain, made, draws, x, Stored(n), mdt, draws, y)
      BY <1>0, <3>4, <3>5, StoredGrows
    <3> QED BY <1>1, <2>2, <3>6 DEF n, mdt
  <2> QED BY <1>1, <2>1, <2>2
<1>11. ServerKnows(f, chain', made', draws', clock, y)
  <2>1. "HANDSHAKE_OVER" \notin Making \cup Secret \cup Certain
    BY DEF Making, Judging, Secret, Certain
  <2> HIDE DEF x
  <2>2. /\ y.neg = NoSession /\ y.resume = FALSE /\ y.st = "HANDSHAKE_OVER" /\ y.sess = x.neg
    BY <1>2 DEF IsOver, Rid
  <2> QED BY <1>4, <1>6, <2>1, <2>2 DEF ServerKnows, Chose, Sure
<1> QED BY <1>2, <1>9, <1>10, <1>11 DEF ServerMoves, y

\* ssl_start_renegotiation of the server.
LEMMA ServerRenews ==
  ASSUME Cached, Agreeing, NEW f, Traced(f), Over("srv"), draws' = draws,
         UNCHANGED <<chain, made>>,
         Move("srv", Renewed(ssl["srv"])) \/ Hear("srv", Renewed(ssl["srv"]))
  PROVE  ServerMoves(f)
<1> DEFINE x == ssl["srv"]
           n == Renewed(x)
           y == ssl'["srv"]
<1>0. /\ Shapes /\ DOMAIN x = ContextFields /\ "srv" \in Ends /\ draws \in Nat
      /\ ServerKnows(f, chain, made, draws, clock, x) /\ x.st = "HANDSHAKE_OVER"
  BY ServerFacts DEF Over
<1>1. IsRenewed(n, x)
  BY <1>0, DoneFields
<1> HIDE DEF n
<1>2. Near(y, n) /\ wire'["cli"] = wire["cli"]
  BY <1>0, <1>1, NearSteps, Peers DEF IsRenewed, Rid, n
<1> HIDE DEF x, y
<1>3. Known(chain, made, draws, 0) /\ NoSession.id = 0 /\ DOMAIN NoSession = SessionFields
      /\ NoSession.start = 0
  BY <1>0, NothingKnown, NewShapes DEF NoSession
<1>4. "HELLO_REQUEST" \notin Making \cup Secret \cup Certain
  BY DEF Making, Judging, Secret, Certain
<1>5. ServerKnows(f, chain, made, draws, clock, y)
  BY <1>1, <1>2, <1>3, <1>4 DEF ServerKnows, Chose, Sure, Near, IsRenewed, Rid
<1>6. ~Sure(x)
  BY <1>0 DEF Sure, Certain
<1> QED BY <1>2, <1>5, <1>6, StillServer DEF x, y

\* Every step of the server but its hello, which chooses a suite for a random value.
LEMMA ServerTraced ==
  ASSUME Cached, Agreeing, Start <= clock, NEW f, Traced(f), EndActs("srv"),
         WriteServerHello => f[draws + 1] = ssl["srv"].neg.suite
  PROVE  Traced(f)'
<1>0. Shapes /\ draws \in Nat /\ "srv" \in Ends /\ DOMAIN ssl["srv"].neg = SessionFields
  BY ServerFacts
<1> SUFFICES ServerMoves(f)
  BY ServerTraces
<1>1. ssl["srv"].err = "OK"
  BY DEF EndActs, Handshake, ReadHandshake, Renegotiate, Close, Write, ReadData, Over, Begin,
         WaitsInRenegotiation, At, WriteCertificate, SkipCertificate, ParseCertificate,
         ReadsCertificate, WriteChangeCipherSpec, ParseChangeCipherSpec, WriteFinished,
         ParseFinished, FlushBuffers, Unexpected, ReadFails, Reads, Wrapup, ServerStep,
         ParseClientHello, WriteServerHello, WriteServerKeyExchange, WriteCertificateRequest,
         WriteServerHelloDone, ParseClientKeyExchange, ParseCertificateVerify,
         WriteNewSessionTicket
<1>2. CASE ReadHandshake("srv") \/ Renegotiate("srv") \/ Close("srv") \/ Write("srv")
           \/ ReadData("srv")
  <2>0. draws' = draws /\ chain' = chain /\ made' = made
    BY <1>2 DEF ReadHandshake, Renegotiate, Close, Write, ReadData
  <2>1. CASE /\ ReadHandshake("srv") \/ Renegotiate("srv")
             /\ Move("srv", Renewed(ssl["srv"])) \/ Hear("srv", Renewed(ssl["srv"]))
    <3>1. Over("srv")
      BY <2>1 DEF ReadHandshake, Renegotiate
    <3> QED BY <2>0, <2>1, <3>1, ServerRenews
  <2>2. CASE ~(/\ ReadHandshake("srv") \/ Renegotiate("srv")
               /\ Move("srv", Renewed(ssl["srv"])) \/ Hear("srv", Renewed(ssl["srv"])))
    <3>1. Idles("srv")
      BY <1>0, <1>2, <2>2, ProgramIdles
    <3> QED BY <1>1, <2>0, <3>1, IdleServer
  <2> QED BY <2>1, <2>2
<1>3. CASE Handshake("srv")
  <2>0. UNCHANGED <<chain, made>> \/ Wrapup("srv")
    BY <1>3 DEF Handshake
  <2>1. CASE Wrapup("srv")
    BY <2>1, ServerEnds
  <2>2. CASE UNCHANGED <<chain, made>> /\ ~Wrapup("srv")
    <3>1. CASE \/ Begin("srv") \/ WriteCertificate("srv") \/ WriteChangeCipherSpec("srv")
               \/ ParseChangeCipherSpec("srv") \/ FlushBuffers("srv")
      <4>1. draws' = draws
        BY <3>1 DEF Begin, WriteCertificate, WriteChangeCipherSpec, ParseChangeCipherSpec,
                    FlushBuffers
      <4> QED BY <1>0, <1>1, <2>2, <3>1, <4>1, EitherIdles, IdleServer
    <3>2. CASE SkipCertificate("srv") \/ ParseCertificate("srv")
      <4>1. draws' = draws
        BY <3>2 DEF SkipCertificate, ParseCertificate
      <4> QED BY <1>0, <1>1, <2>2, <3>2, <4>1, CertificateIdles, IdleServer
    <3>3. CASE WriteFinished("srv") \/ (ParseFinished("srv") /\ ~ssl["srv"].resume)
      <4>1. draws' = draws
        BY <3>3 DEF WriteFinished, ParseFinished
      <4>2. Idles("srv")
        BY <1>0, <3>3, FinishedIdles
      <4> QED BY <1>1, <2>2, <4>1, <4>2, IdleServer
    <3>4. CASE ParseFinished("srv") /\ ssl["srv"].resume
      BY <2>2, <3>4, ResumedMoves
    <3>5. CASE Unexpected("srv") \/ ReadFails("srv")
      <4>1. draws' = draws
        BY <3>5 DEF Unexpected, ReadFails
      <4> QED BY <1>0, <1>1, <2>2, <3>5, <4>1, UselessIdles, IdleServer
    <3>6. CASE \/ WriteServerKeyExchange \/ WriteCertificateRequest \/ WriteServerHelloDone
               \/ ParseCertificateVerify
      <4>1. draws' = draws
        BY <3>6 DEF WriteServerKeyExchange, WriteCertificateRequest, WriteServerHelloDone,
                    ParseCertificateVerify
      <4> QED BY <1>1, <2>2, <3>6, <4>1, ServerIdles, IdleServer
    <3>7. CASE ParseClientHello
      BY <2>2, <3>7, ParseHelloMoves
    <3>8. CASE WriteServerHello
      BY <2>2, <3>8, WriteHelloMoves
    <3>9. CASE ParseClientKeyExchange \/ WriteNewSessionTicket
      BY <2>2, <3>9, ServerKeyMoves, WriteTicketMoves
    <3>10. "cli" # "srv"
      OBVIOUS
    <3> QED BY <1>3, <2>2, <3>1, <3>2, <3>3, <3>4, <3>5, <3>6, <3>7, <3>8, <3>9, <3>10
         DEF Handshake, ServerStep
  <2> QED BY <2>0, <2>1, <2>2
<1> QED BY <1>2, <1>3 DEF EndActs

-----------------------------------------------------------------------------
(* The world, and every step together.                                      *)

\* Only what was drawn matters of the choices.
LEMMA Retold ==
  ASSUME NEW f, draws \in Nat, Traced(f), NEW g, \A n \in Nat : n <= draws => g[n] = f[n]
  PROVE  Traced(g)
<1>1. \A n, u : Bond(f, draws, n, u) => Bond(g, draws, n, u)
  BY DEF Bond
<1>2. /\ \A n : Bonded(f, draws, n) => Bonded(g, draws, n)
      /\ \A x : Chose(f, draws, x) => Chose(g, draws, x)
  BY <1>1 DEF Bonded, Chose
<1>3. /\ \A c, mds, v, x : ClientKnows(f, c, mds, draws, v, x) => ClientKnows(g, c, mds, draws, v, x)
      /\ \A c, mds, v, r : ToldServer(f, c, mds, draws, v, r) => ToldServer(g, c, mds, draws, v, r)
      /\ \A c, mds, v, r : ToldClient(f, c, mds, draws, v, r) => ToldClient(g, c, mds, draws, v, r)
      /\ \A mds : Records(f, draws, mds) => Records(g, draws, mds)
  BY <1>1, <1>2 DEF ClientKnows, ToldServer, ToldClient, Records
<1>4. ServerKnows(g, chain, made, draws, clock, ssl["srv"])
  BY <1>2 DEF ServerKnows, Traced
<1> QED BY <1>2, <1>3, <1>4 DEF Traced

\* A server that has begun nothing knows that, at any time.
LEMMA NewServer ==
  ASSUME NEW x, x.st = "HELLO_REQUEST", ~x.resume, ~x.due, x.neg = NoSession,
         NEW f, NEW c, NEW mds, NEW d \in Nat, NEW t
  PROVE  ServerKnows(f, c, mds, d, t, x) /\ ~Sure(x)
<1>1. "HELLO_REQUEST" \notin Making \cup Secret \cup Certain
  BY DEF Making, Judging, Secret, Certain
<1>2. Known(c, mds, d, 0) /\ NoSession.id = 0 /\ NoSession.start = 0
      /\ DOMAIN NoSession = SessionFields
  BY NothingKnown, NewShapes DEF NoSession
<1> QED BY <1>1, <1>2 DEF ServerKnows, Chose, Sure

\* A connection begins: both contexts are reset, and the client is given the session it
\* had, or the one its program kept.
LEMMA ConnectTraced ==
  ASSUME Cached, Agreeing, NEW f, Traced(f), Connect
  PROVE  Traced(f)'
<1> DEFINE kept == IF ssl["cli"].sess # NoSession THEN ssl["cli"].sess ELSE saved
           x == Reset(ssl["cli"])
           y == Reset(ssl["srv"])
           z == [x EXCEPT !.neg = kept, !.resume = TRUE]
           v == ssl["srv"]
<1>0. /\ draws \in Nat /\ draws' \in Nat /\ draws <= draws' /\ chain' = chain /\ made' = made
      /\ saved' = kept /\ wire'["cli"] = <<>> /\ wire'["srv"] = <<>> /\ clock' = clock
      /\ ssl'["srv"] = y /\ ssl'["cli"] = IF kept = NoSession THEN x ELSE z
  <2>1. /\ chain' = chain /\ made' = made /\ clock' = clock
        /\ saved' = kept /\ wire'["cli"] = <<>> /\ wire'["srv"] = <<>>
        /\ ssl'["srv"] = y /\ ssl'["cli"] = IF kept = NoSession THEN x ELSE z
        /\ draws' = IF draws < Stride * conns THEN Stride * conns ELSE draws
    <3> HIDE DEF x, y, z, kept
    <3> QED BY Peers DEF Connect, x, y, z, kept
  <2>2. Verified /\ conns \in Nat /\ Stride \in Nat /\ draws \in Nat
    BY HandshakeAssumption DEF Cached, Verified
  <2>3. Stride * conns \in Nat
    BY <2>2
  <2> DEFINE k == Stride * conns
  <2>4. k \in Nat /\ draws' = IF draws < k THEN k ELSE draws
    BY <2>1, <2>3
  <2> HIDE DEF k, x, y, z, kept
  <2> QED BY <2>1, <2>2, <2>4
<1>1. /\ x.st = "HELLO_REQUEST" /\ ~x.resume /\ x.neg = NoSession /\ x.sess = NoSession
      /\ z.st = "HELLO_REQUEST" /\ z.resume /\ z.neg = kept /\ z.sess = NoSession
      /\ y.st = "HELLO_REQUEST" /\ ~y.resume /\ ~y.due /\ y.neg = NoSession
  BY DEF Reset, NewContext
<1>2. ~Sure(v)
  <2>1. v.err # "OK"
    BY Peers DEF Connect
  <2> QED BY <2>1 DEF Traced, ServerKnows
<1>3. Presents(chain, made, draws, v, kept) /\ (kept # NoSession => Bonded(f, draws, kept))
  BY DEF Traced, ClientKnows
<1> HIDE DEF kept, x, y, z, v
<1>4. Grows(chain, made, draws, v, chain, made, draws', y)
  BY <1>0, <1>2 DEF Grows
<1>5. /\ Presents(chain, made, draws', y, kept) /\ Presents(chain, made, draws', y, NoSession)
      /\ kept # NoSession => Bonded(f, draws', kept)
      /\ \A n : Bonded(f, draws, n) => Bonded(f, draws', n)
  BY <1>0, <1>3, <1>4, CarriedOver, NothingKnown
<1>6. ClientKnows(f, chain, made, draws', y, ssl'["cli"])
  <2>1. "HELLO_REQUEST" \notin Making \cup Secret
    BY DEF Making, Judging, Secret
  <2>2. Chose(f, draws', x) /\ Chose(f, draws', z)
    BY <1>1, <2>1 DEF Chose
  <2> QED BY <1>0, <1>1, <1>5, <2>2 DEF ClientKnows
<1>7. ServerKnows(f, chain, made, draws', clock, y)
  BY <1>0, <1>1, NewServer
<1>8. Records(f, draws', made)
  BY <1>5 DEF Records, Traced
<1> QED BY <1>0, <1>5, <1>6, <1>7, <1>8, EmptyDelivers DEF Traced

\* Time, another client and a restart come when the server has begun nothing.
LEMMA WorldTraced ==
  ASSUME Cached, Agreeing, NEW f, Traced(f), Tick \/ OtherClient \/ Reboot
  PROVE  Traced(f)'
<1> DEFINE v == ssl["srv"]
<1>0. /\ ssl' = ssl /\ wire' = wire /\ saved' = saved /\ made' = made /\ Quiet
      /\ draws \in Nat /\ clock \in Nat /\ IsSequence(chain)
  BY DEF Tick, OtherClient, Reboot, hsvars, Cached, Entries
<1>1. v.st = "HELLO_REQUEST" /\ ~Sure(v)
  BY <1>0, Peers DEF Quiet, At, Sure, Certain
<1>2. draws' \in Nat /\ Grows(chain, made, draws, v, chain', made, draws', v)
  <2>1. CASE Tick
    BY <1>0, <1>1, <2>1 DEF Tick, Grows
  <2>2. CASE Reboot
    <3>1. draws' = draws /\ chain' = <<>> /\ Len(<<>>) = 0
      BY <2>2 DEF Reboot
    <3>2. \A j : j \notin 1..0
      OBVIOUS
    <3> QED BY <1>0, <1>1, <3>1, <3>2 DEF Grows
  <2>3. CASE OtherClient
    <3> DEFINE n == [NoSession EXCEPT !.id = draws + 1, !.suite = Prefers[1],
                       !.master = <<draws + 1, 0, 0, 0>>, !.start = clock]
    <3>1. draws' = draws + 1 /\ chain' = Stored(n)
      BY <2>3 DEF OtherClient
    <3>2. n.id = draws + 1
      BY DEF NoSession
    <3>3. \A i \in 1..Len(chain) : chain[i].session.id # n.id
      BY <1>0, <3>2 DEF Cached, Entries
    <3> HIDE DEF n, v
    <3>4. n.id \in Nat /\ n.id > draws /\ draws + 1 \in Nat /\ draws <= draws + 1
          /\ made \subseteq made
      BY <1>0, <3>2
    <3>5. Grows(chain, made, draws, v, Stored(n), made, draws + 1, v)
      BY <1>0, <1>1, <3>3, <3>4, StoredGrows
    <3> QED BY <3>1, <3>4, <3>5
  <2> QED BY <2>1, <2>2, <2>3
<1>3. /\ ClientKnows(f, chain', made, draws', v, ssl["cli"])
      /\ Presents(chain', made, draws', v, saved)
      /\ \A n : Bonded(f, draws, n) => Bonded(f, draws', n)
      /\ Known(chain', made, draws', v.neg.id)
      /\ \A i \in 1..Len(wire["srv"]) : ToldServer(f, chain', made, draws', v, wire["srv"][i])
      /\ \A i \in 1..Len(wire["cli"]) : ToldClient(f, chain', made, draws', v, wire["cli"][i])
  <2> DEFINE c == chain'
             d == draws'
  <2> HIDE DEF v, c, d
  <2>1. Grows(chain, made, draws, v, c, made, d, v)
    BY <1>2 DEF c, d
  <2>2. /\ ClientKnows(f, chain, made, draws, v, ssl["cli"])
        /\ Presents(chain, made, draws, v, saved) /\ Known(chain, made, draws, v.neg.id)
        /\ \A i \in 1..Len(wire["srv"]) : ToldServer(f, chain, made, draws, v, wire["srv"][i])
        /\ \A i \in 1..Len(wire["cli"]) : ToldClient(f, chain, made, draws, v, wire["cli"][i])
    BY DEF Traced, ServerKnows, v
  <2>3. \A n : Known(chain, made, draws, n) => Known(c, made, d, n)
    BY <2>1, Carried
  <2>4. /\ \A n : Presents(chain, made, draws, v, n) => Presents(c, made, d, v, n)
        /\ \A n : Bonded(f, draws, n) => Bonded(f, d, n)
        /\ \A x : ClientKnows(f, chain, made, draws, v, x) => ClientKnows(f, c, made, d, v, x)
        /\ \A r : ToldServer(f, chain, made, draws, v, r) => ToldServer(f, c, made, d, v, r)
        /\ \A r : ToldClient(f, chain, made, draws, v, r) => ToldClient(f, c, made, d, v, r)
    BY <2>1, CarriedOver
  <2> QED BY <2>2, <2>3, <2>4 DEF c, d
<1>4. ServerKnows(f, chain', made, draws', clock', v)
  <2>1. "HELLO_REQUEST" \notin Making \cup Secret \cup Certain
    BY DEF Making, Judging, Secret, Certain
  <2>2. ServerKnows(f, chain, made, draws, clock, v)
    BY DEF Traced
  <2> HIDE DEF v
  <2> QED BY <1>1, <1>3, <2>1, <2>2 DEF ServerKnows, Chose, Sure
<1>5. Records(f, draws', made)
  BY <1>3 DEF Records, Traced
<1> QED BY <1>0, <1>3, <1>4, <1>5 DEF Traced

LEMMA InitTraces == Init => Tracing
<1> SUFFICES ASSUME Init PROVE Tracing
  OBVIOUS
<1>1. Cached /\ Agreeing
  BY InitCached, InitAgrees
<1>2. /\ ssl["srv"] = NewContext /\ ssl["cli"] = NewContext /\ saved = NoSession /\ draws = 0
      /\ wire["srv"] = <<>> /\ wire["cli"] = <<>> /\ made = {} /\ clock = Start
  BY Peers DEF Init
<1> DEFINE f == 0
<1>3. /\ NewContext.st = "HELLO_REQUEST" /\ ~NewContext.resume /\ ~NewContext.due
      /\ NewContext.neg = NoSession /\ NewContext.sess = NoSession
  BY DEF NewContext
<1>4. ServerKnows(f, chain, made, draws, clock, NewContext)
  BY <1>2, <1>3, NewServer
<1>5. Presents(chain, made, draws, NewContext, NoSession)
  BY <1>2, NothingKnown
<1>6. ClientKnows(f, chain, made, draws, NewContext, NewContext)
  <2>1. "HELLO_REQUEST" \notin Making \cup Secret
    BY DEF Making, Judging, Secret
  <2> QED BY <1>3, <1>5, <2>1 DEF ClientKnows, Chose
<1>7. Records(f, draws, made)
  BY <1>2 DEF Records
<1>8. Traced(f)
  BY <1>2, <1>4, <1>5, <1>6, <1>7, EmptyDelivers DEF Traced
<1>9. Start <= clock
  BY <1>2, HandshakeAssumption
<1> QED BY <1>1, <1>8, <1>9 DEF Tracing

\* Every step keeps the trace; the server's hello adds its choice to it.
LEMMA NextTraces == Tracing /\ [Next]_vars => Tracing'
<1> SUFFICES ASSUME Tracing, [Next]_vars PROVE Tracing'
  OBVIOUS
<1>0. /\ Cached /\ Agreeing /\ Cached' /\ Agreeing' /\ Start <= clock /\ clock \in Nat
      /\ Start \in Nat /\ draws \in Nat
  BY NextCached, NextAgrees, HandshakeAssumption DEF Tracing, Cached
<1>1. Start <= clock'
  <2>1. clock' = clock \/ clock' = clock + 1
    BY DEF Next, vars, Tick, OtherClient, Reboot, Connect, Handshake, ReadHandshake, Renegotiate,
           Close, Write, ReadData, envvars
  <2> QED BY <1>0, <2>1
<1>2. PICK f : Traced(f)
  BY DEF Tracing
<1>3. \E g : Traced(g)'
  <2>1. CASE UNCHANGED vars
    <3>1. Traced(f)'
      BY <1>2, <2>1 DEF vars, Traced
    <3> QED BY <3>1
  <2>2. CASE Connect
    <3>1. Traced(f)'
      BY <1>0, <1>2, <2>2, ConnectTraced
    <3> QED BY <3>1
  <2>3. CASE Tick \/ OtherClient \/ Reboot
    <3>1. Traced(f)'
      BY <1>0, <1>2, <2>3, WorldTraced
    <3> QED BY <3>1
  <2>4. CASE EndActs("cli")
    <3>1. Traced(f)'
      BY <1>0, <1>2, <2>4, ClientTraced
    <3> QED BY <3>1
  <2>5. CASE EndActs("srv")
    <3>1. \E g : Traced(g) /\ g[draws + 1] = ssl["srv"].neg.suite
      <4> DEFINE u == ssl["srv"].neg.suite
                 g == [n \in Nat |-> IF n = draws + 1 THEN u ELSE f[n]]
      <4>1. g[draws + 1] = u /\ \A n \in Nat : n <= draws => g[n] = f[n]
        BY <1>0
      <4> HIDE DEF g
      <4>2. Traced(g)
        BY <1>0, <1>2, <4>1, Retold
      <4> QED BY <4>1, <4>2
    <3>2. PICK g : Traced(g) /\ g[draws + 1] = ssl["srv"].neg.suite
      BY <3>1
    <3>3. Traced(g)'
      BY <1>0, <2>5, <3>2, ServerTraced
    <3> QED BY <3>3
  <2> QED BY <2>1, <2>2, <2>3, <2>4, <2>5 DEF Next, EndActs, Ends
<1> QED BY <1>0, <1>1, <1>3 DEF Tracing

\* Every session the server comes to work with, by a full handshake, from its cache or by
\* a ticket, has the secret, the suite and the verdict on the certificate of a full
\* handshake the server made with this client, no longer ago than the cache or a ticket
\* keeps a session, whatever sessions of others the cache holds, however it replaces its
\* entries, and whatever the client offers after restarts and renegotiations.
THEOREM SessionsAreAsMade == Spec => []ResumedAsMade
<1>1. Tracing => ResumedAsMade
  <2> SUFFICES ASSUME Tracing, Over("srv") PROVE ResumedAsMade
    BY DEF ResumedAsMade
  <2>1. PICK f : Traced(f)
    BY DEF Tracing
  <2>2. Firm(made, clock, ssl["srv"].sess)
    BY <2>1 DEF Over, Traced, ServerKnows
  <2> QED BY <2>2 DEF Firm, Kin, Young, ResumedAsMade
<1> QED BY <1>1, InitTraces, NextTraces, PTL DEF Spec
=============================================================================
