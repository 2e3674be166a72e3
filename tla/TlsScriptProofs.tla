--------------------------- MODULE TlsScriptProofs ---------------------------
(***************************************************************************)
(* Proofs about TlsHandshake: what one end writes is what the other reads  *)
(* next, so that no record fails to open and no Finished or signature is   *)
(* wrong, for any suites, settings, plans and bounds.                      *)
(***************************************************************************)
EXTENDS TlsSessionProofs

-----------------------------------------------------------------------------
(* The script of a handshake.                                               *)

\* What an end has of the handshake: the last message it wrote or read in it, the log, and
\* the premaster secret.  Before the first handshake of a connection it is at New, between
\* handshakes at None.
New == "new"
None == "none"
Idle(t) == [at |-> t, log |-> <<>>, pms |-> 0]
Asks == {"CLIENT_HELLO", "CLIENT_HELLO_AGAIN"}

\* What is written in no handshake.
Noise(m) == m.msg \in {"DATA", "HELLO_REQUEST", "no_renegotiation", "close_notify", "fatal"}

\* The settings, and the session the client comes back with.
Rules == [auth |-> setting.auth, cert |-> setting.cert, psk |-> setting.psk, saved |-> saved]

\* The ticket kept with the session n is of another.
OldTicket(n) == n.ticket # NoTicket /\ n.ticket.state.master # n.master

\* The rules are g; the log l begins with both hellos.
Psk(kx) == kx \in {"PSK", "RSA_PSK"}
KxIn(l) == Kx[l[2].suite]
Resumed(l) == l[2].id # 0 /\ l[2].id = l[1].id
Shown(g) == g.auth["srv"] # "NONE"
Signs(g, kx) == ~Psk(kx) /\ Shown(g) /\ g.cert["cli"] # "none"

\* The last message before the server's request for a certificate, and before the end of
\* its first flight.
BeforeRequest(kx) ==
  IF kx = "PSK" THEN "SERVER_HELLO"
  ELSE IF kx = "DHE_RSA" THEN "SERVER_KEY_EXCHANGE" ELSE "SERVER_CERTIFICATE"
BeforeDone(g, kx) ==
  IF ~Psk(kx) /\ Shown(g) THEN "CERTIFICATE_REQUEST" ELSE BeforeRequest(kx)

\* The messages of the client and of the server that follow one of their own or the other's.
CliTurn == {New, None, "SERVER_HELLO_DONE", "CLIENT_CERTIFICATE", "CLIENT_KEY_EXCHANGE",
  "CERTIFICATE_VERIFY", "CLIENT_CHANGE_CIPHER_SPEC", "SERVER_FINISHED"}
SrvTurn == Asks \cup {"SERVER_HELLO", "SERVER_CERTIFICATE", "SERVER_KEY_EXCHANGE",
  "CERTIFICATE_REQUEST", "CLIENT_FINISHED", "NEW_SESSION_TICKET", "SERVER_CHANGE_CIPHER_SPEC"}
TurnOf(p, at) == at \in IF p = "cli" THEN CliTurn ELSE SrvTurn

\* The message m of the server leads from the view a on to t.
SrvLeads(g, a, m, t) ==
  LET kx == KxIn(a.log) re == Resumed(a.log) tk == a.log[2].tickets
  IN \/ /\ m.msg = "SERVER_HELLO" /\ a.at \in Asks /\ t = "SERVER_HELLO"
        /\ {"rnd", "id", "suite", "tickets"} \subseteq DOMAIN m
        /\ m.tickets \in BOOLEAN
     \/ /\ m.msg = "CERTIFICATE" /\ a.at = "SERVER_HELLO" /\ t = "SERVER_CERTIFICATE"
        /\ ~re /\ kx # "PSK" /\ m.cert = g.cert["srv"]
     \/ /\ m.msg = "SERVER_KEY_EXCHANGE" /\ a.at = "SERVER_CERTIFICATE"
        /\ t = "SERVER_KEY_EXCHANGE" /\ kx = "DHE_RSA"
     \/ /\ m.msg = "CERTIFICATE_REQUEST" /\ a.at = BeforeRequest(kx)
        /\ t = "CERTIFICATE_REQUEST" /\ ~Psk(kx) /\ Shown(g)
     \/ /\ m.msg = "SERVER_HELLO_DONE" /\ a.at = BeforeDone(g, kx)
        /\ t = "SERVER_HELLO_DONE" /\ ~re
     \/ /\ m.msg = "NEW_SESSION_TICKET" /\ t = "NEW_SESSION_TICKET" /\ tk
        /\ a.at = (IF re THEN "SERVER_HELLO" ELSE "CLIENT_FINISHED")
     \/ /\ m.msg = "CHANGE_CIPHER_SPEC" /\ t = "SERVER_CHANGE_CIPHER_SPEC"
        /\ a.at = IF tk THEN "NEW_SESSION_TICKET"
                  ELSE IF re THEN "SERVER_HELLO" ELSE "CLIENT_FINISHED"
     \/ /\ m.msg = "FINISHED" /\ a.at = "SERVER_CHANGE_CIPHER_SPEC"
        /\ t = IF re THEN "SERVER_FINISHED" ELSE None

\* The message m of the client.
CliLeads(g, a, m, t) ==
  LET kx == KxIn(a.log) re == Resumed(a.log)
  IN \/ /\ m.msg = "CLIENT_HELLO" /\ a.at = New /\ t = "CLIENT_HELLO"
        /\ {"rnd", "id"} \subseteq DOMAIN m
     \/ /\ m.msg = "CLIENT_HELLO" /\ a.at = None /\ t = "CLIENT_HELLO_AGAIN"
        /\ {"rnd", "id"} \subseteq DOMAIN m /\ m.id = 0
     \/ /\ m.msg = "CERTIFICATE" /\ a.at = "SERVER_HELLO_DONE" /\ t = "CLIENT_CERTIFICATE"
        /\ kx # "PSK" /\ (~Psk(kx) => Shown(g)) /\ m.cert = g.cert["cli"]
     \/ /\ m.msg = "CLIENT_KEY_EXCHANGE" /\ t = "CLIENT_KEY_EXCHANGE"
        /\ \/ a.at = "CLIENT_CERTIFICATE"
           \/ a.at = "SERVER_HELLO_DONE" /\ (Psk(kx) \/ ~Shown(g))
     \/ /\ m.msg = "CERTIFICATE_VERIFY" /\ a.at = "CLIENT_KEY_EXCHANGE"
        /\ t = "CERTIFICATE_VERIFY" /\ Signs(g, kx) /\ m.over = a.log
     \/ /\ m.msg = "CHANGE_CIPHER_SPEC" /\ t = "CLIENT_CHANGE_CIPHER_SPEC"
        /\ a.at = IF re THEN "SERVER_FINISHED"
                  ELSE IF Signs(g, kx) THEN "CERTIFICATE_VERIFY" ELSE "CLIENT_KEY_EXCHANGE"
     \/ /\ m.msg = "FINISHED" /\ a.at = "CLIENT_CHANGE_CIPHER_SPEC"
        /\ t = IF re THEN None ELSE "CLIENT_FINISHED"

Leads(g, p, a, m, t) == IF p = "cli" THEN CliLeads(g, a, m, t) ELSE SrvLeads(g, a, m, t)

\* How p seals and fills its Finished.
Sealed(g, p, a, r) ==
  LET l == a.log
      v == r.m.verify
  IN /\ r.keys = <<p, l[2].suite, v.master, l[1].rnd, l[2].rnd>>
     /\ v = [from |-> p, master |-> v.master, log |-> l]
     /\ ~Resumed(l) => v.master = <<a.pms, IF Psk(KxIn(l)) THEN g.psk[p] ELSE 0,
                                    l[1].rnd, l[2].rnd>>
     /\ Resumed(l) => OldTicket(g.saved) \/ v.master = g.saved.master

\* The view after the scripted record r that leads to t.
Onto(a, r, t) ==
  IF t = None THEN Idle(None)
  ELSE [at |-> t,
        log |-> IF r.m.msg = "CHANGE_CIPHER_SPEC" THEN a.log ELSE Append(a.log, Hashed(r.m)),
        pms |-> IF r.m.msg = "CLIENT_KEY_EXCHANGE" THEN r.m.pms ELSE a.pms]

\* What p may write without leading on, while its peer is at that place.
Hush(p, at, m) == Noise(m) /\ (at = None \/ (at = "CLIENT_HELLO_AGAIN" /\ p = "srv"))

\* p's record r takes the view a to b.
Tells(g, p, a, r, b) ==
  \E t : /\ Leads(g, p, a, r.m, t) /\ b = Onto(a, r, t)
         /\ r.m.msg = "FINISHED" => Sealed(g, p, a, r)
Goes(g, p, a, r, b) == (Hush(p, a.at, r.m) /\ b = a) \/ Tells(g, p, a, r, b)

\* The records w of p lead from a to b.
Path(g, p, w, a, b) ==
  \E v : /\ v[0] = a /\ v[Len(w)] = b
         /\ \A i \in 1..Len(w) : Goes(g, p, v[i - 1], w[i], v[i])
AllHush(p, at, w) == \A i \in 1..Len(w) : Hush(p, at, w[i].m)

\* p is ahead of its peer, which is at a while p is at b: w is on its way to the peer, u to p.
Ahead(g, p, a, b, w, u) ==
  Path(g, p, w, a, b) /\ AllHush(Peer(p), b.at, u) /\ b.at # Change(Peer(p))

\* The client waits for a hello the server did not take up.
Ignored(v, w) ==
  /\ v["cli"].at = "CLIENT_HELLO_AGAIN" /\ v["srv"].at = None
  /\ w["srv"] = <<>> /\ AllHush("srv", "CLIENT_HELLO_AGAIN", w["cli"])

\* s has failed: its peer, which is at b, has from it nothing more of a handshake on its
\* way, w.
Dead(s, b, w) ==
  /\ \A i \in 1..Len(w) : Hush(s, b.at, w[i].m) \/ w[i].m.msg = "fatal"
  /\ b.at # Change(s)

\* Where the ends are, v, what is on its way, w, and who has failed, d.
InScript(g, v, w, d) ==
  \/ \E p \in Ends : Ahead(g, p, v[Peer(p)], v[p], w[Peer(p)], w[p])
  \/ Ignored(v, w)
  \/ \E s \in Ends : d[s] /\ Dead(s, v[Peer(s)], w[Peer(s)])

-----------------------------------------------------------------------------
(* Where a context is in the script.                                        *)

\* The states in which the master secret of a full handshake is known.
Keyful == {"CERTIFICATE_VERIFY", "CLIENT_CHANGE_CIPHER_SPEC", "CLIENT_FINISHED",
  "SERVER_CHANGE_CIPHER_SPEC", "SERVER_FINISHED"}

\* s, whose context is x, has begun no handshake, or is through with one.
Settled(g, s, x, a) ==
  IF x.st \in Unasked
  THEN /\ a = Idle(IF x.reneg = "INITIAL" THEN New ELSE None) /\ x.log = <<>>
       /\ ~x.resume => x.neg = NoSession
       /\ x.resume => s = "cli" /\ x.reneg = "INITIAL" /\ x.neg = g.saved
  ELSE a = Idle(None)

\* It has written or read the hello of the client.
Greets(g, s, x, a) ==
  LET l == x.log
  IN /\ a.at = (IF x.reneg = "INITIAL" THEN "CLIENT_HELLO" ELSE "CLIENT_HELLO_AGAIN")
     /\ a.log = l /\ IsSequence(l) /\ Len(l) = 1 /\ x.cr = l[1].rnd
     /\ s = "srv" \/ x.resume => x.neg.id = l[1].id
     /\ s = "srv" => (x.resume => x.neg.id # 0) /\ (~x.resume => x.neg.cert = "none")

\* What it has of both hellos, and of the premaster secret.
Agreed(g, s, x, a) ==
  LET l == x.log
      kx == KxIn(l)
  IN /\ a.log = l /\ IsSequence(l) /\ Len(l) >= 2 /\ x.cr = l[1].rnd /\ x.sr = l[2].rnd
     /\ x.neg.suite = l[2].suite
     /\ x.resume => Resumed(l)
     /\ ~x.resume /\ Resumed(l) =>
          /\ s = "cli"
          /\ \/ x.st = "SERVER_CERTIFICATE"
             \/ x.st = "SERVER_KEY_EXCHANGE" /\ kx = "PSK"
             \/ x.held.msg = "NEW_SESSION_TICKET"
     /\ ~x.resume /\ (s = "srv" \/ x.neg.id # 0) => x.neg.id = l[2].id
     /\ x.due => l[2].tickets
     /\ ~x.resume /\ x.st \notin {"SERVER_CHANGE_CIPHER_SPEC", "SERVER_FINISHED"} =>
          x.due = l[2].tickets
     /\ ~x.resume /\ x.st \in Keyful =>
          x.neg.master = <<a.pms, IF Psk(kx) THEN g.psk[s] ELSE 0, x.cr, x.sr>>

\* The last message in the states of either end.
Placed(g, x, at) ==
  LET kx == KxIn(x.log)
      re == Resumed(x.log)
  IN /\ x.st = "SERVER_CERTIFICATE" => at = "SERVER_HELLO"
     /\ x.st = "SERVER_KEY_EXCHANGE" =>
          at = IF kx = "PSK" THEN "SERVER_HELLO" ELSE "SERVER_CERTIFICATE"
     /\ x.st = "CERTIFICATE_REQUEST" /\ x.held = NoMsg => at = BeforeRequest(kx)
     /\ x.st = "SERVER_HELLO_DONE" /\ x.held = NoMsg => at = BeforeDone(g, kx)
     /\ x.st = "CLIENT_CERTIFICATE" => at = "SERVER_HELLO_DONE"
     /\ x.st = "CERTIFICATE_VERIFY" => at = "CLIENT_KEY_EXCHANGE"
     /\ x.st = "CLIENT_CHANGE_CIPHER_SPEC" =>
          at = IF re THEN "SERVER_FINISHED"
               ELSE IF Signs(g, kx) THEN "CERTIFICATE_VERIFY" ELSE "CLIENT_KEY_EXCHANGE"
     /\ x.st = "CLIENT_FINISHED" => at = "CLIENT_CHANGE_CIPHER_SPEC"
     /\ x.st = "SERVER_CHANGE_CIPHER_SPEC" =>
          at = IF x.log[2].tickets /\ ~x.due THEN "NEW_SESSION_TICKET"
               ELSE IF re THEN "SERVER_HELLO" ELSE "CLIENT_FINISHED"
     /\ x.st = "SERVER_FINISHED" => at = "SERVER_CHANGE_CIPHER_SPEC"

\* What the client knows of the request for its certificate, and of a message it holds.
CliPlaced(g, x, at) ==
  LET kx == KxIn(x.log)
  IN /\ x.st = "CERTIFICATE_REQUEST" => (x.held = NoMsg <=> ~Psk(kx))
     /\ x.st = "SERVER_HELLO_DONE" /\ x.held = NoMsg => ~Psk(kx) /\ Shown(g) /\ x.asked
     /\ x.held # NoMsg =>
          /\ x.st \in {"CERTIFICATE_REQUEST", "SERVER_HELLO_DONE"} /\ at = x.held.msg
          /\ \/ x.held.msg = "NEW_SESSION_TICKET" /\ Psk(kx) /\ Resumed(x.log)
             \/ /\ x.held.msg = "SERVER_HELLO_DONE"
                /\ ~Psk(kx) => ~Shown(g) /\ ~x.asked
     /\ x.st \in {"CLIENT_CERTIFICATE", "CLIENT_KEY_EXCHANGE", "CERTIFICATE_VERIFY"} /\ ~Psk(kx)
          => x.asked = Shown(g)
     /\ x.st = "CLIENT_KEY_EXCHANGE" =>
          at = IF kx # "PSK" /\ x.asked THEN "CLIENT_CERTIFICATE" ELSE "SERVER_HELLO_DONE"

\* What the server knows of the client's certificate.
SrvPlaced(g, x, at) ==
  LET kx == KxIn(x.log)
  IN /\ ~x.resume /\ x.st \in {"SERVER_CERTIFICATE", "SERVER_KEY_EXCHANGE", "CERTIFICATE_REQUEST",
                      "SERVER_HELLO_DONE", "CLIENT_CERTIFICATE"} => x.neg.cert = "none"
     /\ x.st \in {"CLIENT_KEY_EXCHANGE", "CERTIFICATE_VERIFY"} /\ ~Psk(kx) =>
          (x.neg.cert # "none" <=> Signs(g, kx))
     /\ x.st = "CLIENT_KEY_EXCHANGE" =>
          at = IF ~Psk(kx) /\ Shown(g) THEN "CLIENT_CERTIFICATE" ELSE "SERVER_HELLO_DONE"

\* The states outside of a handshake.
Resting == Unasked \cup Ending \cup {"HANDSHAKE_OVER"}

\* s is, with its context x, at a.
Stands(g, s, x, a) ==
  /\ x.asked \in BOOLEAN /\ x.resume \in BOOLEAN /\ x.due \in BOOLEAN
  /\ x.resume => OldTicket(g.saved) \/ x.neg.master = g.saved.master
  /\ s = "srv" \/ x.st \in Resting \cup {"SERVER_HELLO"} => x.held = NoMsg
  /\ x.st \in Resting => Settled(g, s, x, a)
  /\ x.st = "SERVER_HELLO" => Greets(g, s, x, a)
  /\ x.st \notin Resting \cup {"SERVER_HELLO"} =>
       /\ Agreed(g, s, x, a) /\ Placed(g, x, a.at)
       /\ IF s = "cli" THEN CliPlaced(g, x, a.at) ELSE SrvPlaced(g, x, a.at)

-----------------------------------------------------------------------------
(* Sessions of one id.                                                      *)

\* What the chain c and the server, whose context is v, have of the session n by its id is
\* its secret: or there is a ticket, so that the id is not used.
Tied(c, d, v, n) ==
  n.ticket = NoTicket /\ n.id # 0 =>
    /\ n.id \in Nat /\ n.id <= d
    /\ \A i \in 1..Len(c) : c[i].session.id = n.id => c[i].session.master = n.master
    /\ ~v.resume /\ v.st \in Making /\ v.neg.id = n.id => v.st \in Ending /\ v.neg.master = n.master

\* The session the server's last Finished was of, if it made it.
Written(v) == [id |-> v.own.log[2].id, master |-> v.own.master, ticket |-> NoTicket]

\* What a hello offers by the id n when the client's program kept the session z.
Named(z, n) == [id |-> n, master |-> z.master, ticket |-> NoTicket]
Offers(c, d, v, z, m) ==
  /\ m.ticket = NoTicket \/ (m.ticket = z.ticket /\ m.id # 0)
  /\ m.id \in Nat /\ m.id <= d /\ Tied(c, d, v, Named(z, m.id))

Ties(c, d, z, x, v, w) ==
  /\ Tied(c, d, v, z) /\ Tied(c, d, v, x.sess)
  /\ x.resume \/ x.st \in Ending => Tied(c, d, v, x.neg)
  /\ v.own = NoInfo \/ Resumed(v.own.log) \/ Tied(c, d, v, Written(v))
  /\ \A i \in 1..Len(w) : w[i].m.msg = "CLIENT_HELLO" => Offers(c, d, v, z, w[i].m)
  /\ v.st = "SERVER_HELLO" /\ ~v.resume =>
       v.neg.id \in Nat /\ v.neg.id <= d /\ Tied(c, d, v, Named(z, v.neg.id))

\* The keys of the records on their way to an end that reads with k, from one that writes
\* with o: what comes after the last Finished is under o, what comes before one under k.
Opens(w, k, o) ==
  \A i \in 1..Len(w) :
    w[i].keys = IF \E j \in 1..Len(w) : i < j /\ w[j].m.msg = "FINISHED" THEN k ELSE o

\* The inductive invariant.
Scripted(g, v) ==
  /\ \A s \in Ends : /\ ssl[s].asked \in BOOLEAN
                     /\ ssl[s].err = "OK" => Stands(g, s, ssl[s], v[s])
  /\ InScript(g, v, wire, [s \in Ends |-> ssl[s].err # "OK"])
Opening ==
  /\ Tracing
  /\ \E v : Scripted(Rules, v)
  /\ Ties(chain, draws, saved, ssl["cli"], ssl["srv"], wire["srv"])
  /\ \A s \in Ends : ssl[s].err = "OK" => Opens(wire[s], ssl[s].in, ssl[Peer(s)].out)

-----------------------------------------------------------------------------
(* Paths.                                                                   *)

\* An empty wire leads from a view to itself only.
LEMMA PathEmpty ==
  ASSUME NEW g, NEW p, NEW a, NEW b
  PROVE  Path(g, p, <<>>, a, b) <=> a = b
<1>1. Len(<<>>) = 0 /\ \A i : i \notin 1..0
  OBVIOUS
<1>2. Path(g, p, <<>>, a, b) => a = b
  BY <1>1 DEF Path
<1>3. ASSUME a = b PROVE Path(g, p, <<>>, a, b)
  <2> DEFINE v == [i \in {0} |-> a]
  <2>1. v[0] = a
    OBVIOUS
  <2> HIDE DEF v
  <2> QED BY <1>1, <1>3, <2>1 DEF Path
<1> QED BY <1>2, <1>3

\* Writing a record that goes on from b.
LEMMA PathMore ==
  ASSUME NEW g, NEW p, NEW w, IsSequence(w), NEW a, NEW b, NEW c, NEW r,
         Path(g, p, w, a, b), Goes(g, p, b, r, c)
  PROVE  Path(g, p, Append(w, r), a, c)
<1> DEFINE u == Append(w, r)
           n == Len(w)
<1>1. /\ Len(u) = n + 1 /\ n \in Nat /\ u[n + 1] = r /\ \A i \in 1..n : u[i] = w[i]
  BY Appended
<1>2. PICK v : v[0] = a /\ v[n] = b /\ \A i \in 1..n : Goes(g, p, v[i - 1], w[i], v[i])
  BY DEF Path
<1> DEFINE z == [i \in 0..(n + 1) |-> IF i = n + 1 THEN c ELSE v[i]]
<1> HIDE DEF u, n
<1>3. z[n + 1] = c /\ \A i \in 0..n : z[i] = v[i]
  BY <1>1
<1> HIDE DEF z
<1>4. z[0] = a /\ z[n] = b
  BY <1>1, <1>2, <1>3
<1>5. ASSUME NEW i \in 1..(n + 1) PROVE Goes(g, p, z[i - 1], u[i], z[i])
  <2>1. CASE i = n + 1
    <3>1. i - 1 = n
      BY <1>1, <2>1
    <3> QED BY <1>1, <1>3, <1>4, <2>1, <3>1
  <2>2. CASE i \in 1..n
    <3>1. i \in 0..n /\ i - 1 \in 0..n
      BY <1>1, <2>2
    <3> QED BY <1>1, <1>2, <1>3, <2>2, <3>1
  <2> QED BY <1>1, <2>1, <2>2
<1> QED BY <1>1, <1>3, <1>4, <1>5 DEF Path, u

\* Reading the first record.
LEMMA PathLess ==
  ASSUME NEW g, NEW p, NEW w, IsSequence(w), w # <<>>, NEW a, NEW b, Path(g, p, w, a, b)
  PROVE  \E c : Goes(g, p, a, Head(w), c) /\ Path(g, p, Tail(w), c, b)
<1> DEFINE u == Tail(w)
<1>1. /\ Len(u) = Len(w) - 1 /\ Len(w) \in Nat \ {0} /\ Head(w) = w[1]
      /\ \A i \in 1..Len(u) : u[i] = w[i + 1]
  BY Shortened
<1>2. PICK v : /\ v[0] = a /\ v[Len(w)] = b
               /\ \A i \in 1..Len(w) : Goes(g, p, v[i - 1], w[i], v[i])
  BY DEF Path
<1> DEFINE z == [i \in 0..Len(u) |-> v[i + 1]]
<1>3. 1 \in 1..Len(w) /\ 1 - 1 = 0
  BY <1>1
<1>4. Goes(g, p, a, Head(w), v[1])
  BY <1>1, <1>2, <1>3
<1> HIDE DEF u
<1>5. Len(u) \in Nat /\ Len(u) + 1 = Len(w) /\ \A i \in 0..Len(u) : z[i] = v[i + 1]
  BY <1>1
<1> HIDE DEF z
<1>6. z[0] = v[1] /\ z[Len(u)] = b
  BY <1>2, <1>5
<1>7. ASSUME NEW i \in 1..Len(u) PROVE Goes(g, p, z[i - 1], u[i], z[i])
  <2>0. Len(w) \in Nat /\ Len(u) \in Nat /\ Len(w) = Len(u) + 1 /\ i \in Int /\ 1 <= i /\ i <= Len(u)
    BY <1>1, <1>5
  <2>1. /\ i \in 0..Len(u) /\ i - 1 \in 0..Len(u) /\ i + 1 \in 1..Len(w)
        /\ (i - 1) + 1 = i /\ (i + 1) - 1 = i
    BY <2>0
  <2>2. z[i - 1] = v[i] /\ z[i] = v[i + 1] /\ u[i] = w[i + 1]
    BY <1>1, <1>5, <2>1
  <2>3. Goes(g, p, v[(i + 1) - 1], w[i + 1], v[i + 1])
    BY <1>2, <2>1
  <2> QED BY <2>1, <2>2, <2>3
<1>8. Path(g, p, u, v[1], b)
  BY <1>6, <1>7 DEF Path
<1> QED BY <1>4, <1>8 DEF u

\* A property that every record carries on holds at the end of a path.
LEMMA PathKeeps ==
  ASSUME NEW g, NEW p, NEW w, IsSequence(w), NEW a, NEW b, Path(g, p, w, a, b),
         NEW K, a \in K,
         \A x \in K : \A i \in 1..Len(w) : \A y : Goes(g, p, x, w[i], y) => y \in K
  PROVE  b \in K /\ \A i \in 1..Len(w) : \E x \in K, y \in K : Goes(g, p, x, w[i], y)
<1> DEFINE n == Len(w)
<1>1. n \in Nat
  BY Appended
<1>2. PICK v : v[0] = a /\ v[n] = b /\ \A i \in 1..n : Goes(g, p, v[i - 1], w[i], v[i])
  BY DEF Path
<1> HIDE DEF n
<1> DEFINE T == {i \in 0..n : v[i] \notin K}
<1>3. T = {}
  <2> SUFFICES ASSUME T # {} PROVE FALSE
    OBVIOUS
  <2>1. T \in SUBSET Nat
    BY <1>1
  <2>2. PICK i \in T : \A j \in T : i <= j
    BY <2>1, Least
  <2>3. i \in 0..n /\ v[i] \notin K /\ i # 0
    BY <1>2, <2>2
  <2>4. i \in 1..n /\ i - 1 \in 0..n /\ i - 1 \in Nat /\ i \in Nat /\ ~(i <= i - 1)
    BY <1>1, <2>3
  <2>5. v[i - 1] \in K
    BY <2>2, <2>4
  <2> QED BY <1>2, <2>3, <2>4, <2>5 DEF n
<1>4. \A i \in 0..n : v[i] \in K
  BY <1>3
<1>5. ASSUME NEW i \in 1..n PROVE \E x \in K, y \in K : Goes(g, p, x, w[i], y)
  <2>1. i \in 0..n /\ i - 1 \in 0..n
    BY <1>1
  <2> QED BY <1>2, <1>4, <2>1
<1> QED BY <1>1, <1>2, <1>4, <1>5 DEF n

-----------------------------------------------------------------------------
(* Turns.                                                                   *)

\* Who leads on has the turn, what is hushed leads nowhere, and the peer keeps the turn
\* of the one or gets it.
LEMMA LeadsTurn ==
  ASSUME NEW g, NEW p \in Ends, NEW a, NEW m, NEW t, Leads(g, p, a, m, t)
  PROVE  /\ TurnOf(p, a.at) /\ ~TurnOf(Peer(p), a.at) /\ ~Noise(m)
         /\ t # Change(Peer(p)) /\ t # New
         /\ a.at = Change(p) => m.msg = "FINISHED"
         /\ t = Change(p) => m.msg = "CHANGE_CIPHER_SPEC"
         /\ m.msg = "FINISHED" => a.at = Change(p)
         /\ m.msg = "CLIENT_HELLO" => p = "cli" /\ a.at \in {New, None} /\ t \in Asks
         /\ m.msg = "CLIENT_HELLO" /\ a.at = None => t = "CLIENT_HELLO_AGAIN"
         /\ p = "cli" /\ a.at = None => t = "CLIENT_HELLO_AGAIN"
<1>1. CASE p = "cli"
  <2>1. CliLeads(g, a, m, t)
    BY <1>1 DEF Leads
  <2>2. /\ TurnOf("cli", a.at) /\ ~TurnOf("srv", a.at) /\ ~Noise(m)
        /\ t # Change("srv") /\ t # New
        /\ a.at = Change("cli") => m.msg = "FINISHED"
        /\ t = Change("cli") => m.msg = "CHANGE_CIPHER_SPEC"
        /\ m.msg = "FINISHED" => a.at = Change("cli")
        /\ m.msg = "CLIENT_HELLO" => a.at \in {New, None} /\ t \in Asks
        /\ m.msg = "CLIENT_HELLO" /\ a.at = None => t = "CLIENT_HELLO_AGAIN"
        /\ a.at = None => t = "CLIENT_HELLO_AGAIN"
    BY <2>1 DEF CliLeads, TurnOf, CliTurn, SrvTurn, Asks, Noise, Change, New, None
  <2> QED BY <1>1, <2>2 DEF Peer
<1>2. CASE p = "srv"
  <2>1. SrvLeads(g, a, m, t)
    BY <1>2 DEF Leads
  <2>2. /\ TurnOf("srv", a.at) /\ ~TurnOf("cli", a.at) /\ ~Noise(m)
        /\ t # Change("cli") /\ t # New
        /\ a.at = Change("srv") => m.msg = "FINISHED"
        /\ t = Change("srv") => m.msg = "CHANGE_CIPHER_SPEC"
        /\ m.msg = "FINISHED" => a.at = Change("srv")
        /\ m.msg # "CLIENT_HELLO"
    BY <2>1 DEF SrvLeads, TurnOf, CliTurn, SrvTurn, Asks, Noise, Change, New, None,
                BeforeRequest, BeforeDone
  <2> QED BY <1>2, <2>2 DEF Peer
<1> QED BY <1>1, <1>2 DEF Ends

\* Hushed records of the peer stay so when an end leads on.
LEMMA HushOn ==
  ASSUME NEW g, NEW p \in Ends, NEW a, NEW m, NEW t, Leads(g, p, a, m, t),
         NEW n, Hush(Peer(p), a.at, n)
  PROVE  Hush(Peer(p), t, n)
<1>1. TurnOf(p, a.at)
  BY LeadsTurn
<1>2. "CLIENT_HELLO_AGAIN" \notin CliTurn /\ None \notin SrvTurn /\ New # None
  BY DEF CliTurn, SrvTurn, Asks, New, None
<1>3. p = "cli" /\ a.at = None /\ Peer(p) = "srv"
  BY <1>1, <1>2 DEF Hush, TurnOf, Peer, Ends
<1> QED BY <1>3, LeadsTurn DEF Hush

\* Without the turn nobody leads on.
LEMMA PathStays ==
  ASSUME NEW g, NEW p \in Ends, NEW w, IsSequence(w), NEW a, NEW b, Path(g, p, w, a, b),
         ~TurnOf(p, a.at)
  PROVE  b = a /\ AllHush(p, a.at, w)
<1>1. \A r, y : Goes(g, p, a, r, y) => y = a /\ Hush(p, a.at, r.m)
  BY LeadsTurn DEF Goes, Tells
<1>2. b \in {a} /\ \A i \in 1..Len(w) : \E x \in {a}, y \in {a} : Goes(g, p, x, w[i], y)
  <2> DEFINE K == {a}
  <2>1. a \in K /\ \A x \in K : \A i \in 1..Len(w) : \A y : Goes(g, p, x, w[i], y) => y \in K
    BY <1>1
  <2> HIDE DEF K
  <2>2. b \in K /\ \A i \in 1..Len(w) : \E x \in K, y \in K : Goes(g, p, x, w[i], y)
    BY <2>1, PathKeeps
  <2> QED BY <2>2 DEF K
<1> QED BY <1>1, <1>2 DEF AllHush

\* Hushed records lead nowhere.
LEMMA PathHush ==
  ASSUME NEW g, NEW p, NEW w, IsSequence(w), NEW a, AllHush(p, a.at, w)
  PROVE  Path(g, p, w, a, a)
<1> DEFINE v == [i \in 0..Len(w) |-> a]
<1>1. Len(w) \in Nat
  BY Appended
<1>2. \A i \in 0..Len(w) : v[i] = a
  OBVIOUS
<1> HIDE DEF v
<1>3. v[0] = a /\ v[Len(w)] = a
  BY <1>1, <1>2
<1>4. ASSUME NEW i \in 1..Len(w) PROVE Goes(g, p, v[i - 1], w[i], v[i])
  <2>1. i \in 0..Len(w) /\ i - 1 \in 0..Len(w)
    BY <1>1
  <2> QED BY <1>2, <2>1 DEF AllHush, Goes
<1> QED BY <1>3, <1>4 DEF Path

\* From None the client gets no further than its hello.
LEMMA PathAsks ==
  ASSUME NEW g, NEW w, IsSequence(w), NEW a, NEW b, Path(g, "cli", w, a, b), a.at = None
  PROVE  b.at \in {None, "CLIENT_HELLO_AGAIN"}
<1> DEFINE after(r) == [at |-> "CLIENT_HELLO_AGAIN", log |-> Append(a.log, Hashed(r.m)),
                        pms |-> a.pms]
           K == {a} \cup {after(w[i]) : i \in 1..Len(w)}
<1>1. \A r : after(r).at = "CLIENT_HELLO_AGAIN"
  OBVIOUS
<1>2. \A x \in K : x = a \/ x.at = "CLIENT_HELLO_AGAIN"
  BY <1>1
<1>3. ASSUME NEW r, NEW y, Goes(g, "cli", a, r, y) PROVE y = a \/ y = after(r)
  <2>1. CASE Tells(g, "cli", a, r, y)
    <3>1. PICK t : Leads(g, "cli", a, r.m, t) /\ y = Onto(a, r, t)
      BY <2>1 DEF Tells
    <3>2. t = "CLIENT_HELLO_AGAIN" /\ r.m.msg = "CLIENT_HELLO"
      BY <3>1 DEF Leads, CliLeads, New, None
    <3> QED BY <3>1, <3>2 DEF Onto, None
  <2> QED BY <1>3, <2>1 DEF Goes
<1>4. ASSUME NEW x, x.at = "CLIENT_HELLO_AGAIN", NEW r, NEW y, Goes(g, "cli", x, r, y) PROVE y = x
  <2>1. ~TurnOf("cli", x.at) /\ "cli" \in Ends
    BY <1>4 DEF TurnOf, CliTurn, New, None, Ends
  <2>2. ~Tells(g, "cli", x, r, y)
    BY <2>1, LeadsTurn DEF Tells
  <2> QED BY <1>4, <2>2 DEF Goes
<1> HIDE DEF after
<1>5. ASSUME NEW x \in K, NEW i \in 1..Len(w), NEW y, Goes(g, "cli", x, w[i], y) PROVE y \in K
  BY <1>2, <1>3, <1>4, <1>5
<1>6. a \in K
  OBVIOUS
<1> HIDE DEF K
<1>7. b \in K
  BY <1>5, <1>6, PathKeeps
<1> QED BY <1>2, <1>7

-----------------------------------------------------------------------------
(* Steps of the script.                                                     *)

\* What a message leads to is settled.
LEMMA GoesOnce ==
  ASSUME NEW g, NEW p \in Ends, NEW a, NEW r, NEW b, NEW c,
         Goes(g, p, a, r, b), Goes(g, p, a, r, c)
  PROVE  b = c
<1>1. CASE Hush(p, a.at, r.m)
  <2>1. ~Tells(g, p, a, r, b) /\ ~Tells(g, p, a, r, c)
    BY <1>1, LeadsTurn DEF Tells, Hush
  <2> QED BY <2>1 DEF Goes
<1>2. CASE ~Hush(p, a.at, r.m)
  <2>1. PICK t : Leads(g, p, a, r.m, t) /\ b = Onto(a, r, t)
    BY <1>2 DEF Goes, Tells
  <2>2. PICK u : Leads(g, p, a, r.m, u) /\ c = Onto(a, r, u)
    BY <1>2 DEF Goes, Tells
  <2>3. CASE p = "cli"
    <3>1. CliLeads(g, a, r.m, t) /\ CliLeads(g, a, r.m, u)
      BY <2>1, <2>2, <2>3 DEF Leads
    <3>2. t = u
      BY <3>1 DEF CliLeads, New, None
    <3> QED BY <2>1, <2>2, <3>2
  <2>4. CASE p = "srv"
    <3>1. SrvLeads(g, a, r.m, t) /\ SrvLeads(g, a, r.m, u)
      BY <2>1, <2>2, <2>4, "cli" # "srv" DEF Leads
    <3>2. t = u
      BY <3>1 DEF SrvLeads
    <3> QED BY <2>1, <2>2, <3>2
  <2> QED BY <2>3, <2>4 DEF Ends
<1> QED BY <1>1, <1>2

\* Where a message is awaited from p, and where it leads.
LEMMA TellsAt ==
  ASSUME NEW g, NEW p \in Ends, NEW a, NEW r, NEW b, Tells(g, p, a, r, b)
  PROVE  /\ TurnOf(p, a.at) /\ ~TurnOf(Peer(p), a.at) /\ ~Noise(r.m)
         /\ b.at # Change(Peer(p)) /\ a.at # Change(Peer(p)) /\ b.at # New
         /\ \A n : Hush(Peer(p), a.at, n) => Hush(Peer(p), b.at, n)
<1>1. PICK t : Leads(g, p, a, r.m, t) /\ b = Onto(a, r, t)
  BY DEF Tells
<1>2. b.at = t
  BY <1>1 DEF Onto, Idle
<1>3. TurnOf(Peer(p), Change(Peer(p))) /\ Peer(p) \in Ends
  BY Peers DEF TurnOf, Change, CliTurn, SrvTurn, Ends
<1> QED BY <1>1, <1>2, <1>3, LeadsTurn, HushOn

\* A step of e, which is at a and then at b, and fails if f: u and z are the records on their
\* way to it and from it, x and y those after the step.
Humming(u, x) == x = u \/ (u # <<>> /\ x = Tail(u))
Paces(g, e, a, b, u, z, x, y, f) ==
  \/ \* It writes the next message of the script,
     /\ x = u /\ \E r : Tells(g, e, a, r, b) /\ y = Append(z, r)
  \/ \* or reads it,
     /\ u # <<>> /\ x = Tail(u) /\ Goes(g, Peer(e), a, Head(u), b) /\ y = z
  \/ \* or does neither,
     /\ b = a /\ x = u /\ y = z
  \/ \* or is between handshakes,
     /\ b = a /\ a.at = None
     /\ x = u \/ (u # <<>> /\ x = Tail(u) /\ Noise(Head(u).m))
     /\ y = z \/ \E r : Noise(r.m) /\ y = Append(z, r)
  \/ \* or declines a handshake,
     /\ e = "srv" /\ b = a /\ a.at = None /\ u # <<>> /\ x = Tail(u)
     /\ Head(u).m.msg = "CLIENT_HELLO" /\ \E r : Noise(r.m) /\ y = Append(z, r)
  \/ \* or fails, and may say so.
     /\ f /\ b = a /\ Humming(u, x)
     /\ \/ y = z
        \/ /\ u # <<>> /\ x = Tail(u) /\ ~Noise(Head(u).m)
           /\ \E r : r.m.msg = "fatal" /\ y = Append(z, r)

\* Hushed records stay so as one is read, or a hushed one is written.
LEMMA HushLess ==
  ASSUME NEW p, NEW at, NEW u, IsSequence(u), AllHush(p, at, u)
  PROVE  /\ u # <<>> => Hush(p, at, Head(u).m) /\ AllHush(p, at, Tail(u))
         /\ \A r : Hush(p, at, r.m) => AllHush(p, at, Append(u, r))
<1>1. ASSUME u # <<>> PROVE Hush(p, at, Head(u).m) /\ AllHush(p, at, Tail(u))
  BY <1>1, OnTheWire DEF AllHush
<1>2. ASSUME NEW r, Hush(p, at, r.m) PROVE AllHush(p, at, Append(u, r))
  BY <1>2, OnTheWire DEF AllHush
<1> QED BY <1>1, <1>2

\* The end that is ahead steps.
LEMMA AheadSteps ==
  ASSUME NEW g, NEW e \in Ends, NEW a, NEW b, NEW c, NEW u, NEW z, NEW x, NEW y,
         NEW f, IsSequence(u), IsSequence(z),
         Paces(g, e, a, b, u, z, x, y, f), Ahead(g, e, c, a, z, u)
  PROVE  Ahead(g, e, c, b, y, x)
<1> DEFINE p == Peer(e)
<1>0. /\ p \in Ends /\ Path(g, e, z, c, a) /\ AllHush(p, a.at, u) /\ a.at # Change(p)
      /\ u # <<>> => Hush(p, a.at, Head(u).m) /\ AllHush(p, a.at, Tail(u))
  BY Peers, HushLess DEF Ahead
<1>1. ASSUME x = u, NEW r, Tells(g, e, a, r, b), y = Append(z, r)
      PROVE  Ahead(g, e, c, b, y, x)
  <2>1. Path(g, e, y, c, b)
    BY <1>0, <1>1, PathMore DEF Goes
  <2> QED BY <1>0, <1>1, <2>1, TellsAt DEF Ahead, AllHush
<1>2. CASE u # <<>> /\ x = Tail(u) /\ Goes(g, p, a, Head(u), b) /\ y = z
  <2>1. Goes(g, p, a, Head(u), a)
    BY <1>0, <1>2 DEF Goes
  <2>2. b = a
    BY <1>0, <1>2, <2>1, GoesOnce
  <2> QED BY <1>0, <1>2, <2>2 DEF Ahead
<1>3. CASE b = a /\ Humming(u, x) /\ y = z
  BY <1>0, <1>3 DEF Ahead, Humming
<1>4. ASSUME b = a, a.at = None, Humming(u, x), NEW r, Noise(r.m), y = Append(z, r)
      PROVE  Ahead(g, e, c, b, y, x)
  <2>1. Goes(g, e, a, r, a)
    BY <1>4 DEF Goes, Hush
  <2>2. Path(g, e, y, c, a)
    BY <1>0, <1>4, <2>1, PathMore
  <2> QED BY <1>0, <1>4, <2>2 DEF Ahead, Humming
<1>5. u # <<>> => Noise(Head(u).m)
  BY <1>0 DEF Hush
<1> QED BY <1>1, <1>2, <1>3, <1>4, <1>5 DEF Paces, Humming

\* Its peer steps.
LEMMA BehindSteps ==
  ASSUME NEW g, NEW e \in Ends, NEW a, NEW b, NEW c, NEW u, NEW z, NEW x, NEW y,
         NEW f, IsSequence(u), IsSequence(z),
         Paces(g, e, a, b, u, z, x, y, f), Ahead(g, Peer(e), a, c, u, z)
  PROVE  \/ Ahead(g, Peer(e), b, c, x, y) \/ Ahead(g, e, c, b, y, x)
         \/ f /\ Dead(e, c, y)
         \/ /\ e = "srv" /\ c.at = "CLIENT_HELLO_AGAIN" /\ b.at = None
            /\ x = <<>> /\ AllHush("srv", "CLIENT_HELLO_AGAIN", y)
<1> DEFINE p == Peer(e)
           goal == \/ Ahead(g, p, b, c, x, y) \/ Ahead(g, e, c, b, y, x)
                   \/ f /\ Dead(e, c, y)
                   \/ /\ e = "srv" /\ c.at = "CLIENT_HELLO_AGAIN" /\ b.at = None
                      /\ x = <<>> /\ AllHush("srv", "CLIENT_HELLO_AGAIN", y)
<1>0. /\ p \in Ends /\ Peer(p) = e /\ Path(g, p, u, a, c) /\ AllHush(e, c.at, z)
      /\ c.at # Change(e)
  BY Peers DEF Ahead
<1>00. /\ New # None /\ None \notin SrvTurn /\ "CLIENT_HELLO_AGAIN" \notin CliTurn
  BY DEF New, None, CliTurn, SrvTurn, Asks
<1>1. ASSUME x = u, NEW r, Tells(g, e, a, r, b), y = Append(z, r) PROVE goal
  <2>1. ~TurnOf(p, a.at) /\ a.at # Change(p)
    BY <1>1, TellsAt
  <2>2. c = a /\ AllHush(p, a.at, u)
    BY <1>0, <2>1, PathStays
  <2>3. Path(g, e, z, a, a)
    BY <1>0, <2>2, PathHush
  <2>4. Ahead(g, e, c, a, z, u)
    BY <2>1, <2>2, <2>3 DEF Ahead
  <2>5. Paces(g, e, a, b, u, z, x, y, f)
    OBVIOUS
  <2> QED BY <2>4, <2>5, AheadSteps
<1>2. CASE u # <<>> /\ x = Tail(u) /\ Goes(g, p, a, Head(u), b) /\ y = z
  <2>1. PICK d : Goes(g, p, a, Head(u), d) /\ Path(g, p, Tail(u), d, c)
    BY <1>0, <1>2, PathLess
  <2>2. d = b
    BY <1>0, <1>2, <2>1, GoesOnce
  <2> QED BY <1>0, <1>2, <2>1, <2>2 DEF Ahead
<1>3. CASE b = a /\ x = u /\ y = z
  BY <1>0, <1>3 DEF Ahead
<1>4. CASE /\ b = a /\ a.at = None
           /\ x = u \/ (u # <<>> /\ x = Tail(u) /\ Noise(Head(u).m))
           /\ y = z \/ \E r : Noise(r.m) /\ y = Append(z, r)
  <2>1. Path(g, p, x, a, c)
    <3>1. CASE u # <<>> /\ x = Tail(u) /\ Noise(Head(u).m)
      <4>1. PICK d : Goes(g, p, a, Head(u), d) /\ Path(g, p, Tail(u), d, c)
        BY <1>0, <3>1, PathLess
      <4>2. ~Tells(g, p, a, Head(u), d)
        BY <1>0, <3>1, TellsAt
      <4> QED BY <3>1, <4>1, <4>2 DEF Goes
    <3> QED BY <1>0, <1>4, <3>1
  <2>2. c.at = None \/ (c.at = "CLIENT_HELLO_AGAIN" /\ e = "srv")
    <3>1. CASE e = "cli"
      <4>1. p = "srv" /\ ~TurnOf(p, a.at)
        BY <1>00, <1>4, <3>1, Peers DEF TurnOf
      <4> QED BY <1>0, <1>4, <4>1, PathStays
    <3>2. CASE e = "srv"
      <4>1. p = "cli"
        BY <3>2, Peers
      <4> QED BY <1>0, <1>4, <3>2, <4>1, PathAsks
    <3> QED BY <3>1, <3>2 DEF Ends
  <2>3. AllHush(e, c.at, y)
    <3>1. ASSUME NEW r, Noise(r.m), y = Append(z, r) PROVE AllHush(e, c.at, y)
      <4>1. Hush(e, c.at, r.m)
        BY <2>2, <3>1 DEF Hush
      <4> QED BY <1>0, <3>1, <4>1, HushLess
    <3> QED BY <1>0, <1>4, <3>1
  <2> QED BY <1>0, <1>4, <2>1, <2>3 DEF Ahead
<1>5. CASE /\ e = "srv" /\ b = a /\ a.at = None /\ u # <<>> /\ x = Tail(u)
           /\ Head(u).m.msg = "CLIENT_HELLO" /\ \E r : Noise(r.m) /\ y = Append(z, r)
  <2>0. p = "cli"
    BY <1>5, Peers
  <2>1. PICK d : Goes(g, p, a, Head(u), d) /\ Path(g, p, Tail(u), d, c)
    BY <1>0, <1>5, PathLess
  <2>2. Tells(g, p, a, Head(u), d)
    BY <1>5, <2>1 DEF Goes, Hush, Noise
  <2>3. PICK t : Leads(g, p, a, Head(u).m, t) /\ d = Onto(a, Head(u), t)
    BY <2>2 DEF Tells
  <2>4. d.at = "CLIENT_HELLO_AGAIN"
    <3>1. t = "CLIENT_HELLO_AGAIN"
      BY <1>0, <1>5, <2>0, <2>3, LeadsTurn
    <3> QED BY <2>3, <3>1 DEF Onto, None
  <2>5. ~TurnOf(p, d.at)
    BY <1>00, <2>0, <2>4 DEF TurnOf
  <2>6. IsSequence(Tail(u))
    BY <1>5, Shortened
  <2>7. c = d /\ AllHush(p, d.at, Tail(u))
    BY <1>0, <2>1, <2>5, <2>6, PathStays
  <2>8. Tail(u) = <<>>
    <3>1. SUFFICES ASSUME Tail(u) # <<>> PROVE FALSE
      OBVIOUS
    <3>2. Hush(p, d.at, Head(Tail(u)).m)
      BY <2>6, <2>7, <3>1, HushLess
    <3> QED BY <2>0, <2>4, <3>2 DEF Hush, None
  <2>9. AllHush("srv", "CLIENT_HELLO_AGAIN", y)
    <3>1. PICK r : Noise(r.m) /\ y = Append(z, r)
      BY <1>5
    <3>2. Hush("srv", "CLIENT_HELLO_AGAIN", r.m) /\ AllHush("srv", "CLIENT_HELLO_AGAIN", z)
      BY <1>0, <1>5, <2>4, <2>7, <3>1 DEF Hush
    <3> QED BY <3>1, <3>2, HushLess
  <2> QED BY <1>5, <2>4, <2>7, <2>8, <2>9
<1>6. CASE /\ f /\ b = a /\ Humming(u, x)
           /\ y = z \/ \E r : r.m.msg = "fatal" /\ y = Append(z, r)
  <2>1. \A i \in 1..Len(y) : Hush(e, c.at, y[i].m) \/ y[i].m.msg = "fatal"
    BY <1>0, <1>6, OnTheWire DEF AllHush
  <2> QED BY <1>0, <1>6, <2>1 DEF Dead
<1> QED BY <1>1, <1>2, <1>3, <1>4, <1>5, <1>6 DEF Paces

\* Neither end leads while the client waits for a hello.
LEMMA IgnoredSteps ==
  ASSUME NEW g, NEW e \in Ends, NEW a, NEW b, NEW u, NEW z, NEW x, NEW y,
         NEW f, IsSequence(u), IsSequence(z), Paces(g, e, a, b, u, z, x, y, f),
         \/ /\ e = "cli" /\ a.at = "CLIENT_HELLO_AGAIN" /\ z = <<>>
            /\ AllHush("srv", "CLIENT_HELLO_AGAIN", u)
         \/ /\ e = "srv" /\ a.at = None /\ u = <<>>
            /\ AllHush("srv", "CLIENT_HELLO_AGAIN", z)
  PROVE  /\ b = a
         /\ e = "cli" => y = <<>> /\ AllHush("srv", "CLIENT_HELLO_AGAIN", x)
         /\ e = "srv" => x = <<>> /\ AllHush("srv", "CLIENT_HELLO_AGAIN", y)
<1>00. /\ None # "CLIENT_HELLO_AGAIN" /\ None \notin SrvTurn
       /\ "CLIENT_HELLO_AGAIN" \notin CliTurn /\ "cli" # "srv"
  BY DEF New, None, CliTurn, SrvTurn, Asks
<1>1. ~\E r : Tells(g, e, a, r, b)
  <2>1. ~TurnOf(e, a.at)
    BY <1>00 DEF TurnOf
  <2> QED BY <2>1, TellsAt
<1>2. CASE e = "cli"
  <2>1. a.at = "CLIENT_HELLO_AGAIN" /\ z = <<>> /\ AllHush("srv", "CLIENT_HELLO_AGAIN", u)
        /\ Peer(e) = "srv" /\ "srv" \in Ends
    BY <1>00, <1>2, Peers
  <2>2. u # <<>> => Hush("srv", a.at, Head(u).m) /\ AllHush("srv", "CLIENT_HELLO_AGAIN", Tail(u))
    BY <2>1, HushLess
  <2>3. u # <<>> /\ Goes(g, "srv", a, Head(u), b) => b = a
    <3>1. u # <<>> => Goes(g, "srv", a, Head(u), a)
      BY <2>2 DEF Goes
    <3> QED BY <2>1, <3>1, GoesOnce
  <2>4. u # <<>> => Noise(Head(u).m)
    BY <2>2 DEF Hush
  <2> QED BY <1>00, <1>1, <1>2, <2>1, <2>2, <2>3, <2>4 DEF Paces, Humming
<1>3. CASE e = "srv"
  <2>1. a.at = None /\ u = <<>> /\ AllHush("srv", "CLIENT_HELLO_AGAIN", z)
    BY <1>00, <1>3
  <2>2. b = a /\ x = <<>> /\ (y = z \/ \E r : Noise(r.m) /\ y = Append(z, r))
    BY <1>1, <2>1 DEF Paces, Humming
  <2>3. ASSUME NEW r, Noise(r.m), y = Append(z, r) PROVE AllHush("srv", "CLIENT_HELLO_AGAIN", y)
    <3>1. Hush("srv", "CLIENT_HELLO_AGAIN", r.m)
      BY <2>3 DEF Hush
    <3> QED BY <2>1, <2>3, <3>1, HushLess
  <2> QED BY <1>00, <1>3, <2>1, <2>2, <2>3
<1> QED BY <1>2, <1>3 DEF Ends

\* The peer has failed.
LEMMA DeadSteps ==
  ASSUME NEW g, NEW e \in Ends, NEW a, NEW b, NEW u, NEW z, NEW x, NEW y,
         NEW f, IsSequence(u), IsSequence(z), Paces(g, e, a, b, u, z, x, y, f),
         Dead(Peer(e), a, u)
  PROVE  Dead(Peer(e), b, x)
<1> DEFINE p == Peer(e)
<1>0. /\ p \in Ends /\ Peer(p) = e /\ a.at # Change(p)
      /\ \A i \in 1..Len(u) : Hush(p, a.at, u[i].m) \/ u[i].m.msg = "fatal"
  BY Peers DEF Dead
<1>1. \A i \in 1..Len(x) : Hush(p, a.at, x[i].m) \/ x[i].m.msg = "fatal"
  <2>1. x = u \/ (u # <<>> /\ x = Tail(u))
    BY DEF Paces, Humming
  <2> QED BY <1>0, <2>1, OnTheWire
<1>2. CASE b = a
  BY <1>0, <1>1, <1>2 DEF Dead
<1>3. ASSUME NEW r, Tells(g, e, a, r, b) PROVE Dead(p, b, x)
  BY <1>0, <1>1, <1>3, TellsAt DEF Dead
<1>4. CASE u # <<>> /\ Goes(g, p, a, Head(u), b)
  <2>1. Hush(p, a.at, Head(u).m) \/ Head(u).m.msg = "fatal"
    BY <1>0, <1>4, OnTheWire
  <2>2. Noise(Head(u).m)
    BY <2>1 DEF Hush, Noise
  <2>3. b = a
    BY <1>0, <1>4, <2>2, TellsAt DEF Goes
  <2> QED BY <1>2, <2>3
<1> QED BY <1>2, <1>3, <1>4 DEF Paces

\* The script goes on.
LEMMA ScriptGoesOn ==
  ASSUME NEW g, NEW e \in Ends, NEW v, NEW w, NEW d, NEW b, NEW x, NEW y, NEW f,
         \A s \in Ends : IsSequence(w[s]), ~d[e],
         Paces(g, e, v[e], b, w[e], w[Peer(e)], x, y, f), InScript(g, v, w, d),
         NEW v1, v1[e] = b, v1[Peer(e)] = v[Peer(e)],
         NEW w1, w1[e] = x, w1[Peer(e)] = y,
         NEW d1, d1[e] = f, d1[Peer(e)] = d[Peer(e)]
  PROVE  InScript(g, v1, w1, d1)
<1> DEFINE p == Peer(e)
<1>0. /\ p \in Ends /\ Peer(p) = e /\ Ends = {e, p} /\ p # e
      /\ IsSequence(w[e]) /\ IsSequence(w[p])
      /\ Paces(g, e, v[e], b, w[e], w[p], x, y, f)
  BY Peers DEF Ends
<1>1. CASE Ahead(g, e, v[p], v[e], w[p], w[e])
  <2>1. Ahead(g, e, v[p], b, y, x)
    BY <1>0, <1>1, AheadSteps
  <2> QED BY <1>0, <2>1 DEF InScript
<1>2. CASE Ahead(g, p, v[e], v[p], w[e], w[p])
  <2>1. \/ Ahead(g, p, b, v[p], x, y) \/ Ahead(g, e, v[p], b, y, x)
        \/ f /\ Dead(e, v[p], y)
        \/ /\ e = "srv" /\ v[p].at = "CLIENT_HELLO_AGAIN" /\ b.at = None
           /\ x = <<>> /\ AllHush("srv", "CLIENT_HELLO_AGAIN", y)
    <3> DEFINE a == v[e]
               c == v[p]
               u == w[e]
               z == w[p]
    <3>1. /\ Paces(g, e, a, b, u, z, x, y, f) /\ Ahead(g, Peer(e), a, c, u, z)
          /\ IsSequence(u) /\ IsSequence(z)
      BY <1>0, <1>2
    <3> HIDE DEF a, c, u, z
    <3> QED BY <3>1, BehindSteps DEF c
  <2>2. e = "srv" => p = "cli"
    BY Peers
  <2> QED BY <1>0, <2>1, <2>2 DEF InScript, Ignored
<1>3. CASE Ignored(v, w)
  <2>1. /\ b = v[e]
        /\ e = "cli" => y = <<>> /\ AllHush("srv", "CLIENT_HELLO_AGAIN", x)
        /\ e = "srv" => x = <<>> /\ AllHush("srv", "CLIENT_HELLO_AGAIN", y)
    <3>1. /\ e = "cli" => p = "srv"
          /\ e = "srv" => p = "cli"
      BY Peers
    <3>2. \/ /\ e = "cli" /\ v[e].at = "CLIENT_HELLO_AGAIN" /\ w[p] = <<>>
             /\ AllHush("srv", "CLIENT_HELLO_AGAIN", w[e])
          \/ /\ e = "srv" /\ v[e].at = None /\ w[e] = <<>>
             /\ AllHush("srv", "CLIENT_HELLO_AGAIN", w[p])
      BY <1>3, <3>1 DEF Ignored, Ends
    <3> DEFINE a == v[e]
               u == w[e]
               z == w[p]
    <3>3. /\ Paces(g, e, a, b, u, z, x, y, f) /\ IsSequence(u) /\ IsSequence(z)
          /\ \/ /\ e = "cli" /\ a.at = "CLIENT_HELLO_AGAIN" /\ z = <<>>
                /\ AllHush("srv", "CLIENT_HELLO_AGAIN", u)
             \/ /\ e = "srv" /\ a.at = None /\ u = <<>>
                /\ AllHush("srv", "CLIENT_HELLO_AGAIN", z)
      BY <1>0, <3>2
    <3> HIDE DEF a, u, z
    <3> QED BY <3>3, IgnoredSteps DEF a
  <2>2. CASE e = "cli"
    <3>1. p = "srv"
      BY <2>2, Peers
    <3> QED BY <1>3, <2>1, <2>2, <3>1 DEF InScript, Ignored
  <2>3. CASE e = "srv"
    <3>1. p = "cli"
      BY <2>3, Peers
    <3> QED BY <1>3, <2>1, <2>3, <3>1 DEF InScript, Ignored
  <2> QED BY <2>2, <2>3 DEF Ends
<1>4. CASE d[p] /\ Dead(p, v[e], w[e])
  <2>1. Dead(p, b, x)
    BY <1>0, <1>4, DeadSteps
  <2> QED BY <1>0, <1>4, <2>1 DEF InScript
<1> QED BY <1>0, <1>1, <1>2, <1>3, <1>4 DEF InScript

\* What an end that has not failed reads next is in the script, or its peer's farewell.
LEMMA InScriptHead ==
  ASSUME NEW g, NEW e \in Ends, NEW v, NEW w, NEW d, ~d[e], w[e] # <<>>,
         \A s \in Ends : IsSequence(w[s]), InScript(g, v, w, d)
  PROVE  \/ \E b : Goes(g, Peer(e), v[e], Head(w[e]), b)
         \/ Head(w[e]).m.msg = "fatal" /\ v[e].at # Change(Peer(e))
<1> DEFINE p == Peer(e)
<1>0. /\ p \in Ends /\ Peer(p) = e /\ Ends = {e, p} /\ p # e
      /\ IsSequence(w[e]) /\ IsSequence(w[p])
  BY Peers DEF Ends
<1>1. CASE Ahead(g, e, v[p], v[e], w[p], w[e])
  BY <1>0, <1>1, HushLess DEF Ahead, Goes
<1>2. CASE Ahead(g, p, v[e], v[p], w[e], w[p])
  BY <1>0, <1>2, PathLess DEF Ahead
<1>3. CASE Ignored(v, w)
  <2>1. e = "cli" /\ p = "srv"
    BY <1>3, Peers DEF Ignored, Ends
  <2> QED BY <1>0, <1>3, <2>1, HushLess DEF Ignored, Goes
<1>4. CASE d[p] /\ Dead(p, v[e], w[e])
  <2>1. Hush(p, v[e].at, Head(w[e]).m) \/ Head(w[e]).m.msg = "fatal"
    BY <1>0, <1>4, OnTheWire DEF Dead
  <2> QED BY <1>4, <2>1 DEF Dead, Goes
<1> QED BY <1>0, <1>1, <1>2, <1>3, <1>4 DEF InScript

-----------------------------------------------------------------------------
(* Contexts in the middle of a handshake.                                   *)

\* A log that has both hellos keeps them.
LEMMA LogKept ==
  ASSUME NEW l, IsSequence(l), Len(l) >= 2, NEW k, k = l \/ \E h : k = Append(l, h)
  PROVE  /\ IsSequence(k) /\ Len(k) >= 2 /\ k[1] = l[1] /\ k[2] = l[2]
         /\ KxIn(k) = KxIn(l) /\ Resumed(k) = Resumed(l)
<1>1. IsSequence(k) /\ Len(k) >= 2 /\ k[1] = l[1] /\ k[2] = l[2]
  <2>1. ASSUME NEW h, k = Append(l, h) PROVE <1>1!:
    <3>1. /\ IsSequence(k) /\ Len(k) = Len(l) + 1 /\ Len(l) \in Nat
          /\ \A i \in 1..Len(l) : k[i] = l[i]
      BY <2>1, Appended
    <3>2. 1 \in 1..Len(l) /\ 2 \in 1..Len(l) /\ Len(l) + 1 >= 2
      BY <3>1
    <3> QED BY <3>1, <3>2
  <2> QED BY <2>1
<1> QED BY <1>1 DEF KxIn, Resumed

\* What an end knows in the middle of a handshake.
Halfway(x) == x.st \notin Resting \cup {"SERVER_HELLO"}

\* Such an end agrees with the log, and is where the script says.
LEMMA MidFacts ==
  ASSUME NEW g, NEW s, NEW x, NEW a, Stands(g, s, x, a), Halfway(x)
  PROVE  /\ Agreed(g, s, x, a) /\ Placed(g, x, a.at) /\ Kx[x.neg.suite] = KxIn(x.log)
         /\ s = "cli" => CliPlaced(g, x, a.at)
         /\ s # "cli" => SrvPlaced(g, x, a.at)
         /\ s = "srv" => x.held = NoMsg
         /\ a.log = x.log
BY DEF Stands, Halfway, Agreed, KxIn

\* What stays from one state in the middle to the next.
Along(y, x) ==
  /\ y.resume = x.resume /\ y.due = x.due /\ y.cr = x.cr /\ y.sr = x.sr
  /\ y.neg.suite = x.neg.suite /\ y.neg.id = x.neg.id

\* The log is the same or has one message more.
Longer(k, l) == k = l \/ \E h : k = Append(l, h)

\* What lets a context that is past both hellos and makes a session answer by the id the
\* client offered.
Echoes(s, y) ==
  /\ s = "cli"
  /\ \/ y.st = "SERVER_CERTIFICATE"
     \/ y.st = "SERVER_KEY_EXCHANGE" /\ KxIn(y.log) = "PSK"
     \/ y.held.msg = "NEW_SESSION_TICKET"

\* The context y of s at b comes after x at a, in the middle of a handshake.
Further(g, s, x, a, y, b) ==
  /\ Halfway(y) /\ Along(y, x) /\ y.asked \in BOOLEAN
  /\ y.neg.master = x.neg.master \/ ~x.resume
  /\ s = "srv" => y.held = NoMsg
  /\ b.log = y.log /\ Longer(y.log, x.log)
  /\ ~y.resume /\ Resumed(y.log) => Echoes(s, y)
  /\ x.st \in {"SERVER_CHANGE_CIPHER_SPEC", "SERVER_FINISHED"} /\ ~x.resume =>
       y.st \in {"SERVER_CHANGE_CIPHER_SPEC", "SERVER_FINISHED"}
  /\ ~y.resume /\ y.st \in Keyful =>
       \/ y.neg.master = x.neg.master /\ b.pms = a.pms /\ x.st \in Keyful
       \/ y.neg.master = <<b.pms, IF Psk(KxIn(y.log)) THEN g.psk[s] ELSE 0, y.cr, y.sr>>
  /\ Placed(g, y, b.at)
  /\ s = "cli" => CliPlaced(g, y, b.at)
  /\ s # "cli" => SrvPlaced(g, y, b.at)

\* Going on in the middle of a handshake.
LEMMA MidOn ==
  ASSUME NEW g, NEW s, NEW x, NEW a, NEW y, NEW b,
         Stands(g, s, x, a), Halfway(x), Further(g, s, x, a, y, b)
  PROVE  Stands(g, s, y, b)
<1>1. /\ Agreed(g, s, x, a) /\ x.resume \in BOOLEAN /\ x.due \in BOOLEAN
      /\ x.resume => OldTicket(g.saved) \/ x.neg.master = g.saved.master
  BY DEF Stands, Halfway
<1>2. IsSequence(x.log) /\ Len(x.log) >= 2 /\ Longer(y.log, x.log) /\ Along(y, x)
  BY <1>1 DEF Agreed, Further
<1>3. /\ IsSequence(y.log) /\ Len(y.log) >= 2 /\ y.log[1] = x.log[1] /\ y.log[2] = x.log[2]
      /\ KxIn(y.log) = KxIn(x.log) /\ Resumed(y.log) = Resumed(x.log)
  <2> DEFINE l == x.log
             k == y.log
  <2>1. IsSequence(l) /\ Len(l) >= 2 /\ (k = l \/ \E h : k = Append(l, h))
    BY <1>2 DEF Longer
  <2> HIDE DEF l, k
  <2>2. /\ IsSequence(k) /\ Len(k) >= 2 /\ k[1] = l[1] /\ k[2] = l[2]
        /\ KxIn(k) = KxIn(l) /\ Resumed(k) = Resumed(l)
    BY <2>1, LogKept
  <2> QED BY <2>2 DEF l, k
<1>4. /\ y.resume = x.resume /\ y.due = x.due /\ y.cr = x.cr /\ y.sr = x.sr
      /\ y.neg.suite = x.neg.suite /\ y.neg.id = x.neg.id
  BY <1>2 DEF Along
<1>5. Agreed(g, s, y, b)
  <2>1. /\ b.log = y.log
        /\ y.cr = y.log[1].rnd /\ y.sr = y.log[2].rnd /\ y.neg.suite = y.log[2].suite
        /\ y.resume => Resumed(y.log)
    BY <1>1, <1>3, <1>4 DEF Agreed, Further
  <2>2. /\ ~y.resume /\ (s = "srv" \/ y.neg.id # 0) => y.neg.id = y.log[2].id
        /\ y.due => y.log[2].tickets
    BY <1>1, <1>3, <1>4 DEF Agreed
  <2>3. ~y.resume /\ Resumed(y.log) => Echoes(s, y)
    BY DEF Further
  <2>4. ~y.resume /\ y.st \notin {"SERVER_CHANGE_CIPHER_SPEC", "SERVER_FINISHED"} =>
          y.due = y.log[2].tickets
    <3>1. SUFFICES ASSUME ~y.resume,
                          y.st \notin {"SERVER_CHANGE_CIPHER_SPEC", "SERVER_FINISHED"}
                   PROVE  y.due = y.log[2].tickets
      OBVIOUS
    <3>2. x.st \notin {"SERVER_CHANGE_CIPHER_SPEC", "SERVER_FINISHED"} /\ ~x.resume
      BY <1>4, <3>1 DEF Further
    <3>3. x.due = x.log[2].tickets
      BY <1>1, <3>2 DEF Agreed
    <3> QED BY <3>3, <1>3, <1>4
  <2>5. ~y.resume /\ y.st \in Keyful =>
          y.neg.master = <<b.pms, IF Psk(KxIn(y.log)) THEN g.psk[s] ELSE 0, y.cr, y.sr>>
    <3>1. SUFFICES ASSUME ~y.resume, y.st \in Keyful,
                          y.neg.master = x.neg.master, b.pms = a.pms, x.st \in Keyful
                   PROVE  y.neg.master = <<b.pms, IF Psk(KxIn(y.log)) THEN g.psk[s] ELSE 0,
                                           y.cr, y.sr>>
      BY DEF Further
    <3>2. x.neg.master = <<a.pms, IF Psk(KxIn(x.log)) THEN g.psk[s] ELSE 0, x.cr, x.sr>>
      BY <1>1, <1>4, <3>1 DEF Agreed
    <3> QED BY <3>1, <3>2, <1>3, <1>4
  <2> HIDE DEF Further
  <2> QED BY <1>3, <2>1, <2>2, <2>3, <2>4, <2>5 DEF Agreed, Echoes
<1>6. /\ y.resume \in BOOLEAN /\ y.due \in BOOLEAN
      /\ y.resume => OldTicket(g.saved) \/ y.neg.master = g.saved.master
  BY <1>1, <1>4 DEF Further
<1>7. /\ Halfway(y) /\ y.asked \in BOOLEAN
      /\ s = "srv" => y.held = NoMsg
      /\ Placed(g, y, b.at) /\ IF s = "cli" THEN CliPlaced(g, y, b.at) ELSE SrvPlaced(g, y, b.at)
  BY DEF Further
<1> QED BY <1>5, <1>6, <1>7 DEF Stands, Halfway

\* The four ways an end steps.
LEMMA StepParts ==
  ASSUME Shapes, NEW s \in Ends, NEW x, DOMAIN x = ContextFields
  PROVE  /\ \A m : Say(s, x, m) =>
              /\ Along(ssl'[s], x) /\ ssl'[s].st = x.st /\ ssl'[s].err = x.err
              /\ ssl'[s].neg = x.neg /\ ssl'[s].held = x.held /\ ssl'[s].asked = x.asked
              /\ ssl'[s].reneg = x.reneg
              /\ ssl'[s].log = (IF m.msg \in HandshakeMessages \ {"HELLO_REQUEST"}
                                THEN Append(x.log, Hashed(m)) ELSE x.log)
              /\ wire'[s] = wire[s]
              /\ wire'[Peer(s)] = Append(wire[Peer(s)], [keys |-> x.out, m |-> m])
         /\ Move(s, x) => ssl'[s] = x /\ wire'[s] = wire[s] /\ wire'[Peer(s)] = wire[Peer(s)]
         /\ Hear(s, x) => /\ ssl'[s] = x /\ wire'[s] = Tail(wire[s])
                          /\ wire'[Peer(s)] = wire[Peer(s)]
         /\ \A m : Answer(s, x, m) =>
              /\ ssl'[s] = x /\ wire'[s] = Tail(wire[s])
              /\ wire'[Peer(s)] = Append(wire[Peer(s)], [keys |-> ssl[s].out, m |-> [msg |-> m]])
<1>0. /\ Peer(s) \in Ends /\ Peer(s) # s /\ DOMAIN ssl = Ends /\ DOMAIN wire = Ends
  BY Peers DEF Shapes
<1>1. ASSUME NEW m, Say(s, x, m)
      PROVE  /\ Along(ssl'[s], x) /\ ssl'[s].st = x.st /\ ssl'[s].err = x.err
             /\ ssl'[s].neg = x.neg /\ ssl'[s].held = x.held /\ ssl'[s].asked = x.asked
             /\ ssl'[s].reneg = x.reneg
             /\ ssl'[s].log = (IF m.msg \in HandshakeMessages \ {"HELLO_REQUEST"}
                               THEN Append(x.log, Hashed(m)) ELSE x.log)
  <2> DEFINE k == Append(x.log, Hashed(m))
             y == [x EXCEPT !.log = k]
             in == m.msg \in HandshakeMessages \ {"HELLO_REQUEST"}
  <2>1. ssl'[s] = IF in THEN y ELSE x
    BY <1>0, <1>1 DEF Say
  <2>2. /\ Along(y, x) /\ y.st = x.st /\ y.err = x.err /\ y.neg = x.neg /\ y.held = x.held
        /\ y.asked = x.asked /\ y.reneg = x.reneg /\ y.log = k /\ Along(x, x)
    BY DEF Along, ContextFields
  <2> HIDE DEF y, k, in
  <2> QED BY <2>1, <2>2 DEF k, in
<1>2. ASSUME NEW m, Say(s, x, m)
      PROVE  /\ wire'[s] = wire[s]
             /\ wire'[Peer(s)] = Append(wire[Peer(s)], [keys |-> x.out, m |-> m])
  BY <1>0, <1>2 DEF Say
<1>3. Move(s, x) => ssl'[s] = x /\ wire'[s] = wire[s] /\ wire'[Peer(s)] = wire[Peer(s)]
  BY <1>0 DEF Move
<1>4. Hear(s, x) => /\ ssl'[s] = x /\ wire'[s] = Tail(wire[s])
                    /\ wire'[Peer(s)] = wire[Peer(s)]
  BY <1>0 DEF Hear
<1>5. ASSUME NEW m, Answer(s, x, m)
      PROVE  /\ ssl'[s] = x /\ wire'[s] = Tail(wire[s])
             /\ wire'[Peer(s)] = Append(wire[Peer(s)], [keys |-> ssl[s].out, m |-> [msg |-> m]])
  BY <1>0, <1>5 DEF Answer
<1> QED BY <1>1, <1>2, <1>3, <1>4, <1>5

-----------------------------------------------------------------------------
(* What a step of an end does in the script.                                *)

\* The rules are g; s is at a and may step.
Ready(g, s, a) ==
  /\ g = Rules /\ Agreeing /\ DOMAIN ssl[s].neg = SessionFields
  /\ ssl[s].err = "OK" /\ Stands(g, s, ssl[s], a)
  /\ wire[s] # <<>> => \/ \E b : Goes(g, Peer(s), a, Head(wire[s]), b)
                       \/ Msg(s).msg = "fatal" /\ a.at # Change(Peer(s))

\* It steps as the script has it.
Paced(g, s, a) ==
  /\ ssl'[s].asked \in BOOLEAN
  /\ \E b : /\ ssl'[s].err = "OK" => Stands(g, s, ssl'[s], b)
            /\ Paces(g, s, a, b, wire[s], wire[Peer(s)], wire'[s], wire'[Peer(s)],
                     ssl'[s].err # "OK")

\* What is known when it may.
LEMMA ReadyFacts ==
  ASSUME NEW g, NEW s \in Ends, NEW a, Ready(g, s, a)
  PROVE  /\ Shapes /\ DOMAIN ssl[s] = ContextFields /\ Fit(s, ssl[s])
         /\ DOMAIN ssl[s].neg = SessionFields
         /\ ssl[s].asked \in BOOLEAN /\ ssl[s].resume \in BOOLEAN /\ ssl[s].due \in BOOLEAN
         /\ g.auth = setting.auth /\ g.cert = setting.cert /\ g.psk = setting.psk
         /\ g.saved = saved
         /\ Along(Heard(s), ssl[s]) /\ Heard(s).st = ssl[s].st /\ Heard(s).err = ssl[s].err
         /\ Heard(s).neg = ssl[s].neg /\ Heard(s).held = ssl[s].held
         /\ Heard(s).asked = ssl[s].asked /\ Heard(s).reneg = ssl[s].reneg
         /\ Heard(s).log = Append(ssl[s].log, Hashed(Msg(s))) /\ DOMAIN Heard(s) = ContextFields
<1>1. /\ Shapes /\ DOMAIN ssl[s] = ContextFields /\ Fit(s, ssl[s])
      /\ DOMAIN ssl[s].neg = SessionFields
      /\ ssl[s].asked \in BOOLEAN /\ ssl[s].resume \in BOOLEAN /\ ssl[s].due \in BOOLEAN
  BY AgreeingFacts DEF Ready, Stands
<1>2. /\ g.auth = setting.auth /\ g.cert = setting.cert /\ g.psk = setting.psk
      /\ g.saved = saved
  BY DEF Ready, Rules
<1>3. /\ Along(Heard(s), ssl[s]) /\ Heard(s).st = ssl[s].st /\ Heard(s).err = ssl[s].err
      /\ Heard(s).neg = ssl[s].neg /\ Heard(s).held = ssl[s].held
      /\ Heard(s).asked = ssl[s].asked /\ Heard(s).reneg = ssl[s].reneg
      /\ Heard(s).log = Append(ssl[s].log, Hashed(Msg(s))) /\ DOMAIN Heard(s) = ContextFields
  BY <1>1 DEF Heard, Along, ContextFields
<1> QED BY <1>1, <1>2, <1>3

\* ssl->state++ alone.
LEMMA OnwardParts ==
  ASSUME NEW x, DOMAIN x = ContextFields
  PROVE  /\ Along(Onward(x), x) /\ Onward(x).st = After(x.st) /\ Onward(x).err = x.err
         /\ Onward(x).neg = x.neg /\ Onward(x).held = x.held /\ Onward(x).asked = x.asked
         /\ Onward(x).reneg = x.reneg /\ Onward(x).log = x.log /\ Onward(x).out = x.out
         /\ DOMAIN Onward(x) = ContextFields
BY DEF Onward, Along, ContextFields

\* A call that fails.
LEMMA FailPaced ==
  ASSUME NEW g, NEW s \in Ends, NEW a, Ready(g, s, a), NEW e, e # "OK",
         \/ wire[s] # <<>> /\ Fail(s, e)
         \/ wire[s] # <<>> /\ ~Noise(Msg(s)) /\ Refuse(s, e)
         \/ Move(s, [ssl[s] EXCEPT !.err = e])
  PROVE  Paced(g, s, a)
<1> DEFINE y == [ssl[s] EXCEPT !.err = e]
<1>1. Shapes /\ DOMAIN y = ContextFields /\ y.err # "OK" /\ y.asked \in BOOLEAN
  BY ReadyFacts DEF ContextFields
<1>2. \/ wire[s] # <<>> /\ Hear(s, y)
      \/ wire[s] # <<>> /\ ~Noise(Msg(s)) /\ Answer(s, y, "fatal")
      \/ Move(s, y)
  BY DEF Fail, Refuse
<1> HIDE DEF y
<1>3. CASE wire[s] # <<>> /\ Hear(s, y)
  BY <1>1, <1>3, StepParts DEF Paced, Paces, Humming
<1>4. CASE wire[s] # <<>> /\ ~Noise(Msg(s)) /\ Answer(s, y, "fatal")
  <2> DEFINE r == [keys |-> ssl[s].out, m |-> [msg |-> "fatal"]]
  <2>1. /\ ssl'[s] = y /\ wire'[s] = Tail(wire[s])
        /\ wire'[Peer(s)] = Append(wire[Peer(s)], r) /\ r.m.msg = "fatal"
    BY <1>1, <1>4, StepParts
  <2> HIDE DEF r
  <2> QED BY <1>1, <1>4, <2>1 DEF Paced, Paces, Humming, Msg
<1>5. CASE Move(s, y)
  BY <1>1, <1>5, StepParts DEF Paced, Paces, Humming
<1> QED BY <1>2, <1>3, <1>4, <1>5

-----------------------------------------------------------------------------
(* A full handshake.                                                        *)

\* What a step does on the wire when it goes on in the script from a to b.
Carries(g, s, a, b) ==
  \/ wire'[s] = wire[s] /\ wire'[Peer(s)] = wire[Peer(s)] /\ b = a
  \/ /\ wire[s] # <<>> /\ wire'[s] = Tail(wire[s]) /\ wire'[Peer(s)] = wire[Peer(s)]
     /\ Goes(g, Peer(s), a, Head(wire[s]), b)
  \/ /\ wire'[s] = wire[s]
     /\ \E r : Tells(g, s, a, r, b) /\ wire'[Peer(s)] = Append(wire[Peer(s)], r)

\* Such a step is one of the script.
LEMMA CarriedPaced ==
  ASSUME NEW g, NEW s \in Ends, NEW a, NEW b, Carries(g, s, a, b), ssl'[s].asked \in BOOLEAN,
         Stands(g, s, ssl'[s], b)
  PROVE  Paced(g, s, a)
BY DEF Carries, Paced, Paces

\* Where a record leads that is not hushed.
LEMMA OntoFields ==
  ASSUME NEW a, NEW r, NEW t, t # None
  PROVE  /\ Onto(a, r, t).at = t
         /\ Onto(a, r, t).log = IF r.m.msg = "CHANGE_CIPHER_SPEC" THEN a.log
                                ELSE Append(a.log, Hashed(r.m))
         /\ Onto(a, r, t).pms = IF r.m.msg = "CLIENT_KEY_EXCHANGE" THEN r.m.pms ELSE a.pms
BY DEF Onto

\* The same of a message that is in the log.
LEMMA OntoMessage ==
  ASSUME NEW a, NEW r, NEW t, t # None, NEW m, r.m = m, m.msg # "CHANGE_CIPHER_SPEC"
  PROVE  /\ Onto(a, r, t).at = t /\ Onto(a, r, t).log = Append(a.log, Hashed(m))
         /\ Onto(a, r, t).pms = IF m.msg = "CLIENT_KEY_EXCHANGE" THEN m.pms ELSE a.pms
BY DEF Onto

\* A message that is read in a handshake leads on.
LEMMA ReadTells ==
  ASSUME NEW g, NEW s \in Ends, NEW a, Ready(g, s, a), wire[s] # <<>>, ~Noise(Msg(s))
  PROVE  \E t : /\ Leads(g, Peer(s), a, Msg(s), t)
                /\ Goes(g, Peer(s), a, Head(wire[s]), Onto(a, Head(wire[s]), t))
                /\ Msg(s).msg = "FINISHED" => Sealed(g, Peer(s), a, Head(wire[s]))
<1>1. PICK b : Goes(g, Peer(s), a, Head(wire[s]), b)
  BY DEF Ready, Noise
<1>2. Tells(g, Peer(s), a, Head(wire[s]), b)
  BY <1>1 DEF Goes, Hush, Msg
<1> QED BY <1>1, <1>2 DEF Tells, Msg

\* The context y of s at b is the next in a full handshake after x at a.
FullStep(g, s, x, a, y, b) ==
  /\ y.st = After(x.st) /\ Along(y, x) /\ y.asked \in BOOLEAN
  /\ s = "srv" => y.held = NoMsg
  /\ b.log = y.log /\ Longer(y.log, x.log)
  /\ x.st = "CLIENT_KEY_EXCHANGE" =>
       y.neg.master = <<b.pms, IF Psk(KxIn(x.log)) THEN g.psk[s] ELSE 0, x.cr, x.sr>>
  /\ x.st = "CERTIFICATE_VERIFY" => y.neg.master = x.neg.master /\ b.pms = a.pms
  /\ Resumed(x.log) => Echoes(s, y)
  /\ Placed(g, y, b.at)
  /\ s = "cli" => CliPlaced(g, y, b.at)
  /\ s # "cli" => SrvPlaced(g, y, b.at)

\* What is known in a full handshake.
LEMMA FullFacts ==
  ASSUME NEW g, NEW s \in Ends, NEW a, Ready(g, s, a), ssl[s].st \in Full
  PROVE  /\ ~ssl[s].resume /\ Halfway(ssl[s])
         /\ Agreed(g, s, ssl[s], a) /\ Placed(g, ssl[s], a.at)
         /\ s = "cli" => CliPlaced(g, ssl[s], a.at)
         /\ s # "cli" => SrvPlaced(g, ssl[s], a.at)
         /\ s = "srv" => ssl[s].held = NoMsg
         /\ a.log = ssl[s].log /\ KxOf(s) = KxIn(ssl[s].log)
         /\ WithPsk(s) = Psk(KxIn(ssl[s].log))
         /\ IsSequence(ssl[s].log) /\ Len(ssl[s].log) >= 2
         /\ Resumed(ssl[s].log) => Echoes(s, ssl[s])
<1>1. ~ssl[s].resume
  BY ReadyFacts DEF Fit
<1>2. Halfway(ssl[s]) /\ Stands(g, s, ssl[s], a)
  BY DEF Halfway, Full, Resting, Unasked, Ending, Ready
<1>3. /\ Agreed(g, s, ssl[s], a) /\ Placed(g, ssl[s], a.at)
      /\ Kx[ssl[s].neg.suite] = KxIn(ssl[s].log)
      /\ s = "cli" => CliPlaced(g, ssl[s], a.at)
      /\ s # "cli" => SrvPlaced(g, ssl[s], a.at)
      /\ s = "srv" => ssl[s].held = NoMsg
      /\ a.log = ssl[s].log
  BY <1>2, MidFacts
<1>4. KxOf(s) = KxIn(ssl[s].log) /\ WithPsk(s) = Psk(KxIn(ssl[s].log))
  BY <1>3 DEF KxOf, WithPsk, Psk
<1>5. /\ IsSequence(ssl[s].log) /\ Len(ssl[s].log) >= 2
      /\ Resumed(ssl[s].log) => Echoes(s, ssl[s])
  BY <1>1, <1>3 DEF Agreed, Echoes
<1> QED BY <1>1, <1>2, <1>3, <1>4, <1>5

\* The next state of a full handshake is one of a full handshake, or the change of the
\* client's cipher.
LEMMA FullNext ==
  ASSUME NEW st \in Full
  PROVE  /\ After(st) \in (Full \ {"SERVER_CERTIFICATE"}) \cup {"CLIENT_CHANGE_CIPHER_SPEC"}
         /\ After(st) \in Keyful => st \in {"CLIENT_KEY_EXCHANGE", "CERTIFICATE_VERIFY"}
         /\ st = "CERTIFICATE_VERIFY" => st \in Keyful
BY NextState DEF Full, Keyful

\* Such a step keeps to the script.
LEMMA FullPaced ==
  ASSUME NEW g, NEW s \in Ends, NEW a, Ready(g, s, a), ssl[s].st \in Full, NEW b,
         FullStep(g, s, ssl[s], a, ssl'[s], b), Carries(g, s, a, b)
  PROVE  Paced(g, s, a)
<1> DEFINE x == ssl[s]
           y == ssl'[s]
<1>1. /\ ~x.resume /\ Halfway(x) /\ Stands(g, s, x, a)
      /\ IsSequence(x.log) /\ Len(x.log) >= 2 /\ x.st \in Full
  BY FullFacts DEF Ready
<1>2. FullStep(g, s, x, a, y, b)
  OBVIOUS
<1> HIDE DEF x, y
<1>3. /\ y.st \in (Full \ {"SERVER_CERTIFICATE"}) \cup {"CLIENT_CHANGE_CIPHER_SPEC"}
      /\ y.st \in Keyful => x.st \in {"CLIENT_KEY_EXCHANGE", "CERTIFICATE_VERIFY"}
      /\ x.st = "CERTIFICATE_VERIFY" => x.st \in Keyful
  BY <1>1, <1>2, FullNext DEF FullStep
<1>4. Along(y, x) /\ Longer(y.log, x.log)
  BY <1>2 DEF FullStep
<1>5. KxIn(y.log) = KxIn(x.log) /\ Resumed(y.log) = Resumed(x.log)
  BY <1>1, <1>4, LogKept DEF Longer
<1>6. Further(g, s, x, a, y, b)
  <2>1. Halfway(y) /\ x.st \notin {"SERVER_CHANGE_CIPHER_SPEC", "SERVER_FINISHED"}
    BY <1>1, <1>3 DEF Halfway, Resting, Unasked, Ending, Full
  <2>2. Resumed(y.log) => Echoes(s, y)
    BY <1>2, <1>5 DEF FullStep
  <2>3. y.st \in Keyful =>
           \/ y.neg.master = x.neg.master /\ b.pms = a.pms /\ x.st \in Keyful
           \/ y.neg.master = <<b.pms, IF Psk(KxIn(y.log)) THEN g.psk[s] ELSE 0, y.cr, y.sr>>
    BY <1>2, <1>3, <1>4, <1>5 DEF FullStep, Along
  <2>4. /\ y.asked \in BOOLEAN /\ b.log = y.log
        /\ s = "srv" => y.held = NoMsg
        /\ Placed(g, y, b.at)
        /\ s = "cli" => CliPlaced(g, y, b.at)
        /\ s # "cli" => SrvPlaced(g, y, b.at)
    BY <1>2 DEF FullStep
  <2> QED BY <1>1, <1>4, <2>1, <2>2, <2>3, <2>4 DEF Further
<1>7. Stands(g, s, y, b) /\ y.asked \in BOOLEAN
  BY <1>1, <1>2, <1>6, MidOn DEF FullStep
<1> QED BY <1>7, CarriedPaced DEF y

\* A step of a full handshake without a record.
LEMMA FullMovePaced ==
  ASSUME NEW g, NEW s \in Ends, NEW a, Ready(g, s, a),
         ssl[s].st \in Full \ {"CLIENT_KEY_EXCHANGE"},
         NEW y, DOMAIN y = ContextFields, Move(s, y), y.st = After(ssl[s].st),
         Along(y, ssl[s]), y.asked = ssl[s].asked, y.log = ssl[s].log,
         y.neg.master = ssl[s].neg.master, s = "srv" => y.held = NoMsg,
         Resumed(y.log) => Echoes(s, y), Placed(g, y, a.at),
         s = "cli" => CliPlaced(g, y, a.at), s # "cli" => SrvPlaced(g, y, a.at)
  PROVE  Paced(g, s, a)
<1>1. ssl'[s] = y /\ Carries(g, s, a, a)
  <2>1. Shapes
    BY ReadyFacts
  <2>2. ssl'[s] = y /\ wire'[s] = wire[s] /\ wire'[Peer(s)] = wire[Peer(s)]
    BY <2>1, StepParts
  <2> QED BY <2>2 DEF Carries
<1>2. a.log = ssl[s].log /\ ssl[s].asked \in BOOLEAN
  <2>1. ssl[s].st \in Full
    OBVIOUS
  <2>2. a.log = ssl[s].log
    BY <2>1, FullFacts
  <2> QED BY <2>2, ReadyFacts
<1>3. FullStep(g, s, ssl[s], a, y, a)
  BY <1>2 DEF FullStep, Longer
<1> QED BY <1>1, <1>3, FullPaced

\* The server's certificate or its keys are left out, or its request for a certificate.
LEMMA FirstSkips ==
  ASSUME NEW g, NEW s \in Ends, NEW a, Ready(g, s, a), Move(s, Onward(ssl[s])),
         \/ ssl[s].st = "SERVER_CERTIFICATE" /\ KxOf(s) = "PSK"
         \/ ssl[s].st = "SERVER_KEY_EXCHANGE" /\ s = "srv" /\ KxOf(s) # "DHE_RSA"
         \/ ssl[s].st = "SERVER_KEY_EXCHANGE" /\ KxOf(s) = "RSA"
         \/ ssl[s].st = "CERTIFICATE_REQUEST" /\ WithPsk(s)
         \/ ssl[s].st = "CERTIFICATE_REQUEST" /\ s = "srv" /\ setting.auth["srv"] = "NONE"
  PROVE  Paced(g, s, a)
<1> DEFINE x == ssl[s]
           y == Onward(x)
           kx == KxIn(x.log)
<1>1. x.st \in Full \ {"CLIENT_KEY_EXCHANGE"} /\ g.auth = setting.auth
  BY ReadyFacts DEF Full
<1>2. /\ DOMAIN y = ContextFields /\ y.st = After(x.st) /\ Along(y, x) /\ y.asked = x.asked
      /\ y.log = x.log /\ y.neg = x.neg /\ y.held = x.held
  BY ReadyFacts, OnwardParts
<1>3. /\ Placed(g, x, a.at)
      /\ s = "cli" => CliPlaced(g, x, a.at)
      /\ s # "cli" => SrvPlaced(g, x, a.at)
      /\ s = "srv" => x.held = NoMsg
      /\ KxOf(s) = kx /\ WithPsk(s) = Psk(kx) /\ ~x.resume
      /\ Resumed(x.log) => Echoes(s, x)
  BY <1>1, FullFacts
<1>4. s # "cli" => s = "srv"
  BY DEF Ends
<1> HIDE DEF x, y
<1>5. \/ x.st = "SERVER_CERTIFICATE" /\ kx = "PSK"
      \/ x.st = "SERVER_KEY_EXCHANGE" /\ s = "srv" /\ kx # "DHE_RSA"
      \/ x.st = "SERVER_KEY_EXCHANGE" /\ kx = "RSA"
      \/ x.st = "CERTIFICATE_REQUEST" /\ Psk(kx)
      \/ x.st = "CERTIFICATE_REQUEST" /\ s = "srv" /\ ~Shown(g)
  BY <1>1, <1>3 DEF x, Shown
<1>6. CASE x.st = "SERVER_CERTIFICATE" /\ kx = "PSK"
  <2>1. y.st = "SERVER_KEY_EXCHANGE" /\ a.at = "SERVER_HELLO"
    BY <1>2, <1>3, <1>6, NextState DEF Placed
  <2>2. Placed(g, y, a.at)
    BY <1>2, <1>6, <2>1 DEF Placed
  <2>3. x.held = NoMsg
    BY <1>3, <1>4, <1>6 DEF CliPlaced
  <2>4. CliPlaced(g, y, a.at)
    BY <1>2, <2>1, <2>3 DEF CliPlaced
  <2>5. s # "cli" => SrvPlaced(g, y, a.at)
    BY <1>2, <1>3, <1>6, <2>1 DEF SrvPlaced
  <2>6. Resumed(y.log) => Echoes(s, y)
    BY <1>2, <1>3, <1>6, <2>1 DEF Echoes
  <2> QED BY <1>1, <1>2, <1>3, <2>2, <2>4, <2>5, <2>6, FullMovePaced DEF x, y
<1>7. CASE x.st = "SERVER_KEY_EXCHANGE" /\ ((s = "srv" /\ kx # "DHE_RSA") \/ kx = "RSA")
  <2>1. y.st = "CERTIFICATE_REQUEST" /\ a.at = BeforeRequest(kx)
    BY <1>2, <1>3, <1>7, NextState DEF Placed, BeforeRequest
  <2>2. Placed(g, y, a.at)
    BY <1>2, <2>1 DEF Placed
  <2>3. x.held = NoMsg
    BY <1>3, <1>4, <1>7 DEF CliPlaced
  <2>4. s = "cli" => CliPlaced(g, y, a.at)
    BY <1>2, <1>7, <2>1, <2>3, "cli" # "srv" DEF CliPlaced, Psk
  <2>5. s # "cli" => SrvPlaced(g, y, a.at)
    BY <1>2, <1>3, <1>7, <2>1 DEF SrvPlaced
  <2>6. Resumed(y.log) => Echoes(s, y)
    BY <1>2, <1>3, <1>7, <2>3, "cli" # "srv" DEF Echoes, NoMsg
  <2> QED BY <1>1, <1>2, <1>3, <2>2, <2>4, <2>5, <2>6, FullMovePaced DEF x, y
<1>8. CASE x.st = "CERTIFICATE_REQUEST" /\ (Psk(kx) \/ (s = "srv" /\ ~Shown(g)))
  <2>1. y.st = "SERVER_HELLO_DONE"
    BY <1>2, <1>8, NextState
  <2>2. y.held = NoMsg => a.at = BeforeDone(g, kx)
    BY <1>2, <1>3, <1>8 DEF Placed, BeforeDone
  <2>3. Placed(g, y, a.at)
    BY <1>2, <2>1, <2>2 DEF Placed
  <2>4. s = "cli" => CliPlaced(g, y, a.at)
    BY <1>2, <1>3, <1>8, <2>1, "cli" # "srv" DEF CliPlaced
  <2>5. s # "cli" => SrvPlaced(g, y, a.at)
    BY <1>2, <1>3, <1>8, <2>1 DEF SrvPlaced
  <2>6. Resumed(y.log) => Echoes(s, y)
    BY <1>2, <1>3, <1>8 DEF Echoes
  <2> QED BY <1>1, <1>2, <1>3, <2>3, <2>4, <2>5, <2>6, FullMovePaced DEF x, y
<1> QED BY <1>5, <1>6, <1>7, <1>8

\* The client shows no certificate, or does not sign; what is held is the end of the
\* server's hello; the server waits for neither.
LEMMA LastSkips ==
  ASSUME NEW g, NEW s \in Ends, NEW a, Ready(g, s, a),
         \/ /\ ssl[s].st = "CLIENT_CERTIFICATE" /\ s = "cli" /\ Move(s, Onward(ssl[s]))
            /\ KxOf(s) = "PSK" \/ ~ssl[s].asked
         \/ /\ ssl[s].st = "CLIENT_CERTIFICATE" /\ s = "srv"
            /\ \/ KxOf(s) = "PSK" /\ Move(s, Onward(ssl[s]))
               \/ /\ setting.auth[s] = "NONE" \/ KxOf(s) = "RSA_PSK"
                  /\ Move(s, Onward([ssl[s] EXCEPT !.neg.verify = "skip"]))
         \/ /\ ssl[s].st = "SERVER_HELLO_DONE" /\ s = "cli"
            /\ ssl[s].held.msg = "SERVER_HELLO_DONE"
            /\ Move(s, Onward([ssl[s] EXCEPT !.held = NoMsg]))
         \/ /\ ssl[s].st = "CERTIFICATE_VERIFY" /\ s = "cli" /\ Move(s, Onward(ssl[s]))
            /\ WithPsk(s) \/ ~ssl[s].asked \/ setting.cert["cli"] = "none"
         \/ /\ ssl[s].st = "CERTIFICATE_VERIFY" /\ s = "srv" /\ Move(s, Onward(ssl[s]))
            /\ WithPsk(s) \/ ssl[s].neg.cert = "none"
  PROVE  Paced(g, s, a)
<1> DEFINE x == ssl[s]
           kx == KxIn(x.log)
<1>1. /\ x.st \in Full \ {"CLIENT_KEY_EXCHANGE"} /\ g.auth = setting.auth /\ g.cert = setting.cert
      /\ DOMAIN x = ContextFields /\ DOMAIN x.neg = SessionFields /\ x.asked \in BOOLEAN
  BY ReadyFacts DEF Full
<1>2. /\ Placed(g, x, a.at)
      /\ s = "cli" => CliPlaced(g, x, a.at)
      /\ s # "cli" => SrvPlaced(g, x, a.at)
      /\ s = "srv" => x.held = NoMsg
      /\ KxOf(s) = kx /\ WithPsk(s) = Psk(kx) /\ ~x.resume
      /\ Resumed(x.log) => Echoes(s, x)
  <2>1. x.st \in Full
    BY <1>1
  <2> QED BY <2>1, FullFacts
<1>3. "cli" # "srv" /\ (s = "cli" \/ s = "srv")
  BY DEF Ends
<1>4. CASE x.st = "CLIENT_CERTIFICATE" /\ s = "cli"
  <2> DEFINE y == Onward(x)
  <2>1. /\ DOMAIN y = ContextFields /\ y.st = After(x.st) /\ Along(y, x) /\ y.asked = x.asked
        /\ y.log = x.log /\ y.neg = x.neg /\ y.held = x.held
    BY <1>1, OnwardParts
  <2>2. Move(s, y) /\ (kx = "PSK" \/ ~x.asked)
    BY <1>2, <1>3, <1>4
  <2> HIDE DEF x, y
  <2>3. /\ y.st = "CLIENT_KEY_EXCHANGE" /\ a.at = "SERVER_HELLO_DONE" /\ x.held = NoMsg
        /\ ~Psk(kx) => x.asked = Shown(g)
    BY <1>2, <1>4, <2>1, NextState DEF Placed, CliPlaced
  <2>4. Placed(g, y, a.at)
    BY <2>3 DEF Placed
  <2>5. CliPlaced(g, y, a.at)
    BY <1>1, <2>1, <2>2, <2>3 DEF CliPlaced
  <2>6. Resumed(y.log) => Echoes(s, y)
    BY <1>2, <1>4, <2>1, <2>3 DEF Echoes, NoMsg
  <2> QED BY <1>1, <1>2, <1>3, <1>4, <2>1, <2>2, <2>4, <2>5, <2>6, FullMovePaced DEF x, y
<1>5. CASE x.st = "CLIENT_CERTIFICATE" /\ s = "srv"
  <2> DEFINE z == [x EXCEPT !.neg.verify = "skip"]
  <2>1. PICK y \in {Onward(x), Onward(z)} :
          Move(s, y) /\ (kx = "PSK" \/ setting.auth[s] = "NONE" \/ kx = "RSA_PSK")
    BY <1>2, <1>3, <1>5
  <2>2. /\ DOMAIN z = ContextFields /\ Along(z, x) /\ z.st = x.st /\ z.asked = x.asked
        /\ z.log = x.log /\ z.neg.master = x.neg.master /\ z.neg.cert = x.neg.cert
        /\ z.held = x.held /\ Along(x, x)
    BY <1>1 DEF Along, ContextFields, SessionFields
  <2>3. /\ DOMAIN y = ContextFields /\ y.st = After(x.st) /\ Along(y, x) /\ y.asked = x.asked
        /\ y.log = x.log /\ y.neg.master = x.neg.master /\ y.neg.cert = x.neg.cert
        /\ y.held = x.held
    <3> HIDE DEF z, x
    <3>1. y = Onward(x) \/ y = Onward(z)
      OBVIOUS
    <3> QED BY <1>1, <2>2, <3>1, OnwardParts DEF Along
  <2> HIDE DEF x, z
  <2>4. /\ y.st = "CLIENT_KEY_EXCHANGE" /\ a.at = "SERVER_HELLO_DONE" /\ x.held = NoMsg
        /\ x.neg.cert = "none" /\ (Psk(kx) \/ ~Shown(g))
    BY <1>1, <1>2, <1>3, <1>5, <2>1, <2>3, NextState DEF Placed, SrvPlaced, Psk, Shown
  <2>5. Placed(g, y, a.at)
    BY <2>4 DEF Placed
  <2>6. KxIn(y.log) = kx
    BY <2>3
  <2>7. SrvPlaced(g, y, a.at)
    BY <2>3, <2>4, <2>6 DEF SrvPlaced, Signs
  <2>8. ~Resumed(y.log)
    BY <1>2, <1>3, <1>5, <2>3 DEF Echoes
  <2> QED BY <1>1, <1>2, <1>3, <1>5, <2>1, <2>3, <2>4, <2>5, <2>7, <2>8, FullMovePaced DEF x
<1>6. CASE x.st = "SERVER_HELLO_DONE"
  <2> DEFINE z == [x EXCEPT !.held = NoMsg]
             y == Onward(z)
  <2>1. Move(s, y) /\ s = "cli" /\ x.held.msg = "SERVER_HELLO_DONE"
    BY <1>6
  <2>2. /\ DOMAIN z = ContextFields /\ Along(z, x) /\ z.st = x.st /\ z.asked = x.asked
        /\ z.log = x.log /\ z.neg = x.neg /\ z.held = NoMsg
    BY <1>1 DEF Along, ContextFields
  <2> HIDE DEF z
  <2>3. /\ DOMAIN y = ContextFields /\ y.st = After(x.st) /\ Along(y, x) /\ y.asked = x.asked
        /\ y.log = x.log /\ y.neg = x.neg /\ y.held = NoMsg
    BY <2>2, OnwardParts DEF Along
  <2> HIDE DEF x, y
  <2>4. /\ y.st = "CLIENT_CERTIFICATE" /\ a.at = "SERVER_HELLO_DONE"
        /\ ~Psk(kx) => ~Shown(g) /\ ~x.asked
    BY <1>2, <1>6, <2>1, <2>3, NextState DEF CliPlaced, NoMsg
  <2>5. Placed(g, y, a.at)
    BY <2>4 DEF Placed
  <2>6. CliPlaced(g, y, a.at)
    <3>1. Shown(g) \in BOOLEAN /\ KxIn(y.log) = kx
      BY <2>3 DEF Shown
    <3>2. ~Psk(kx) => y.asked = Shown(g)
      BY <1>1, <2>3, <2>4, <3>1
    <3> QED BY <2>3, <2>4, <3>1, <3>2 DEF CliPlaced
  <2>7. ~Resumed(y.log)
    BY <1>2, <1>6, <2>1, <2>3 DEF Echoes
  <2> QED BY <1>1, <1>2, <1>3, <2>1, <2>3, <2>5, <2>6, <2>7, FullMovePaced DEF x, y
<1>7. CASE x.st = "CERTIFICATE_VERIFY"
  <2> DEFINE y == Onward(x)
  <2>1. /\ DOMAIN y = ContextFields /\ y.st = After(x.st) /\ Along(y, x) /\ y.asked = x.asked
        /\ y.log = x.log /\ y.neg = x.neg /\ y.held = x.held
    BY <1>1, OnwardParts
  <2>2. /\ Move(s, y)
        /\ s = "cli" => Psk(kx) \/ ~x.asked \/ g.cert["cli"] = "none"
        /\ s = "srv" => Psk(kx) \/ x.neg.cert = "none"
    BY <1>1, <1>2, <1>3, <1>7
  <2> HIDE DEF x, y
  <2>3. /\ y.st = "CLIENT_CHANGE_CIPHER_SPEC" /\ a.at = "CLIENT_KEY_EXCHANGE" /\ x.held = NoMsg
        /\ s = "cli" /\ ~Psk(kx) => x.asked = Shown(g)
    BY <1>2, <1>3, <1>7, <2>1, NextState DEF Placed, CliPlaced
  <2>4. ~Signs(g, kx)
    BY <1>1, <1>2, <1>3, <1>7, <2>2, <2>3 DEF SrvPlaced, Signs
  <2>5. ~Resumed(y.log) /\ KxIn(y.log) = kx
    BY <1>2, <1>7, <2>1, <2>3 DEF Echoes, NoMsg
  <2>6. Placed(g, y, a.at)
    BY <2>3, <2>4, <2>5 DEF Placed
  <2>7. CliPlaced(g, y, a.at) /\ SrvPlaced(g, y, a.at)
    BY <2>1, <2>3 DEF CliPlaced, SrvPlaced
  <2> QED BY <1>1, <1>2, <2>1, <2>2, <2>5, <2>6, <2>7, FullMovePaced DEF x, y
<1> QED BY <1>3, <1>4, <1>5, <1>6, <1>7

\* The place of a context does not depend on what its log has after both hellos.
LEMMA PlacedLike ==
  ASSUME NEW g, NEW y, NEW z, NEW at, y.st = z.st, y.held = z.held, y.due = z.due,
         y.asked = z.asked, y.neg.cert = z.neg.cert, y.resume = z.resume,
         KxIn(y.log) = KxIn(z.log), Resumed(y.log) = Resumed(z.log), y.log[2] = z.log[2]
  PROVE  /\ Placed(g, y, at) = Placed(g, z, at)
         /\ CliPlaced(g, y, at) = CliPlaced(g, z, at)
         /\ SrvPlaced(g, y, at) = SrvPlaced(g, z, at)
BY DEF Placed, CliPlaced, SrvPlaced

\* A message of a full handshake is written.
LEMMA FullSayPaced ==
  ASSUME NEW g, NEW s \in Ends, NEW a, Ready(g, s, a), ssl[s].st \in Full,
         NEW y, DOMAIN y = ContextFields, NEW m, Say(s, y, m),
         m.msg \in HandshakeMessages \ {"HELLO_REQUEST", "FINISHED"},
         y.st = After(ssl[s].st), Along(y, ssl[s]), y.asked = ssl[s].asked,
         y.log = ssl[s].log, s = "srv" => y.held = NoMsg,
         ssl[s].st = "CLIENT_KEY_EXCHANGE" =>
           /\ m.msg = "CLIENT_KEY_EXCHANGE"
           /\ y.neg.master = <<m.pms, IF Psk(KxIn(y.log)) THEN g.psk[s] ELSE 0, y.cr, y.sr>>,
         ssl[s].st = "CERTIFICATE_VERIFY" =>
           m.msg # "CLIENT_KEY_EXCHANGE" /\ y.neg.master = ssl[s].neg.master,
         NEW t, t # None, Leads(g, s, a, m, t), ~Resumed(y.log), Placed(g, y, t),
         s = "cli" => CliPlaced(g, y, t), s # "cli" => SrvPlaced(g, y, t)
  PROVE  Paced(g, s, a)
<1> DEFINE x == ssl[s]
           z == ssl'[s]
           r == [keys |-> y.out, m |-> m]
           b == Onto(a, r, t)
           l == x.log
<1>1. /\ Along(z, y) /\ z.st = y.st /\ z.neg = y.neg /\ z.held = y.held /\ z.asked = y.asked
      /\ z.log = Append(l, Hashed(m)) /\ wire'[s] = wire[s]
      /\ wire'[Peer(s)] = Append(wire[Peer(s)], r)
  <2>1. Shapes
    BY ReadyFacts
  <2> HIDE DEF x, l
  <2>2. /\ Along(z, y) /\ z.st = y.st /\ z.neg = y.neg /\ z.held = y.held /\ z.asked = y.asked
        /\ z.log = (IF m.msg \in HandshakeMessages \ {"HELLO_REQUEST"}
                    THEN Append(y.log, Hashed(m)) ELSE y.log)
        /\ wire'[s] = wire[s] /\ wire'[Peer(s)] = Append(wire[Peer(s)], r)
    BY <2>1, StepParts
  <2>3. y.log = l
    BY DEF l, x
  <2> QED BY <2>2, <2>3
<1>2. a.log = l /\ IsSequence(l) /\ Len(l) >= 2
  BY FullFacts
<1>3. x.asked \in BOOLEAN
  BY ReadyFacts
<1>4. /\ b.at = t /\ b.log = Append(a.log, Hashed(m))
      /\ b.pms = IF m.msg = "CLIENT_KEY_EXCHANGE" THEN m.pms ELSE a.pms
  <2>1. r.m = m /\ m.msg # "CHANGE_CIPHER_SPEC"
    BY DEF HandshakeMessages
  <2> HIDE DEF r
  <2> QED BY <2>1, OntoMessage
<1>5. Tells(g, s, a, r, b)
  <2>1. r.m = m /\ m.msg # "FINISHED"
    OBVIOUS
  <2> QED BY <2>1 DEF Tells
<1>6. Carries(g, s, a, b)
  BY <1>1, <1>5 DEF Carries
<1>7. /\ y.st = After(x.st) /\ Along(y, x) /\ y.asked = x.asked /\ y.log = l
      /\ s = "srv" => y.held = NoMsg
      /\ x.st = "CLIENT_KEY_EXCHANGE" =>
           /\ m.msg = "CLIENT_KEY_EXCHANGE"
           /\ y.neg.master = <<m.pms, IF Psk(KxIn(l)) THEN g.psk[s] ELSE 0, y.cr, y.sr>>
      /\ x.st = "CERTIFICATE_VERIFY" =>
           m.msg # "CLIENT_KEY_EXCHANGE" /\ y.neg.master = x.neg.master
      /\ ~Resumed(l)
  OBVIOUS
<1>71. Placed(g, y, t) /\ (s = "cli" => CliPlaced(g, y, t)) /\ (s # "cli" => SrvPlaced(g, y, t))
  OBVIOUS
<1> HIDE DEF x, z, r, b, l
<1>8. KxIn(z.log) = KxIn(l) /\ Resumed(z.log) = Resumed(l) /\ z.log[2] = l[2]
  <2>1. \E h : z.log = Append(l, h)
    BY <1>1
  <2>2. IsSequence(l) /\ Len(l) >= 2
    BY <1>2
  <2> QED BY <2>1, <2>2, LogKept
<1>9. z.due = y.due /\ z.resume = y.resume /\ z.cr = y.cr /\ z.sr = y.sr /\ Along(z, x)
  BY <1>1, <1>7 DEF Along
<1>10. /\ Placed(g, z, b.at)
       /\ s = "cli" => CliPlaced(g, z, b.at)
       /\ s # "cli" => SrvPlaced(g, z, b.at)
  <2>1. /\ z.st = y.st /\ z.held = y.held /\ z.due = y.due /\ z.asked = y.asked
        /\ z.neg.cert = y.neg.cert /\ z.resume = y.resume
        /\ KxIn(z.log) = KxIn(y.log) /\ Resumed(z.log) = Resumed(y.log)
        /\ z.log[2] = y.log[2]
    BY <1>1, <1>7, <1>8, <1>9
  <2>2. /\ Placed(g, z, t) = Placed(g, y, t) /\ CliPlaced(g, z, t) = CliPlaced(g, y, t)
        /\ SrvPlaced(g, z, t) = SrvPlaced(g, y, t)
    BY <2>1, PlacedLike
  <2> QED BY <1>4, <1>71, <2>2
<1>11. FullStep(g, s, x, a, z, b)
  <2>1. /\ z.st = After(x.st) /\ Along(z, x) /\ z.asked \in BOOLEAN
        /\ s = "srv" => z.held = NoMsg
        /\ b.log = z.log /\ Longer(z.log, x.log) /\ ~Resumed(x.log)
    BY <1>1, <1>2, <1>3, <1>4, <1>7, <1>9 DEF Longer, l, x
  <2>2. x.st = "CLIENT_KEY_EXCHANGE" =>
          z.neg.master = <<b.pms, IF Psk(KxIn(x.log)) THEN g.psk[s] ELSE 0, x.cr, x.sr>>
    BY <1>1, <1>4, <1>7 DEF Along, l
  <2>3. x.st = "CERTIFICATE_VERIFY" => z.neg.master = x.neg.master /\ b.pms = a.pms
    BY <1>1, <1>4, <1>7
  <2> QED BY <1>10, <2>1, <2>2, <2>3 DEF FullStep
<1> QED BY <1>6, <1>11, FullPaced DEF x, z

\* A message of a full handshake is read.
LEMMA FullHearPaced ==
  ASSUME NEW g, NEW s \in Ends, NEW a, Ready(g, s, a), ssl[s].st \in Full,
         wire[s] # <<>>, ~Noise(Msg(s)),
         Msg(s).msg \notin {"FINISHED", "CHANGE_CIPHER_SPEC"},
         NEW y, Hear(s, y), DOMAIN y = ContextFields,
         y.st = After(ssl[s].st), Along(y, ssl[s]), y.asked \in BOOLEAN,
         y.log = Append(ssl[s].log, Hashed(Msg(s))), s = "srv" => y.held = NoMsg,
         ssl[s].st = "CLIENT_KEY_EXCHANGE" =>
           /\ Msg(s).msg = "CLIENT_KEY_EXCHANGE"
           /\ y.neg.master = <<Msg(s).pms, IF Psk(KxIn(ssl[s].log)) THEN g.psk[s] ELSE 0,
                               y.cr, y.sr>>,
         ssl[s].st = "CERTIFICATE_VERIFY" =>
           Msg(s).msg # "CLIENT_KEY_EXCHANGE" /\ y.neg.master = ssl[s].neg.master,
         \A t : Leads(g, Peer(s), a, Msg(s), t) =>
           /\ t # None /\ (Resumed(ssl[s].log) => Echoes(s, y))
           /\ Placed(g, y, t)
           /\ s = "cli" => CliPlaced(g, y, t)
           /\ s # "cli" => SrvPlaced(g, y, t)
  PROVE  Paced(g, s, a)
<1> DEFINE x == ssl[s]
           r == Head(wire[s])
<1>1. PICK t : /\ Leads(g, Peer(s), a, Msg(s), t)
               /\ Goes(g, Peer(s), a, r, Onto(a, r, t))
  BY ReadTells
<1> DEFINE b == Onto(a, r, t)
<1>2. ssl'[s] = y /\ Carries(g, s, a, b)
  <2>1. Shapes
    BY ReadyFacts
  <2>2. ssl'[s] = y /\ wire'[s] = Tail(wire[s]) /\ wire'[Peer(s)] = wire[Peer(s)]
    BY <2>1, StepParts
  <2> QED BY <1>1, <2>2 DEF Carries
<1>3. a.log = x.log
  BY FullFacts
<1>4. /\ b.at = t /\ b.log = Append(a.log, Hashed(Msg(s)))
      /\ b.pms = IF Msg(s).msg = "CLIENT_KEY_EXCHANGE" THEN Msg(s).pms ELSE a.pms
  <2>1. t # None /\ r.m = Msg(s)
    BY <1>1 DEF Msg
  <2>2. Msg(s).msg # "CHANGE_CIPHER_SPEC"
    OBVIOUS
  <2> HIDE DEF r
  <2> QED BY <2>1, <2>2, OntoMessage
<1>5. FullStep(g, s, x, a, y, b)
  <2>1. /\ y.st = After(x.st) /\ Along(y, x) /\ y.asked \in BOOLEAN
        /\ s = "srv" => y.held = NoMsg
        /\ b.log = y.log /\ Longer(y.log, x.log) /\ (Resumed(x.log) => Echoes(s, y))
    BY <1>1, <1>3, <1>4 DEF Longer
  <2>2. x.st = "CLIENT_KEY_EXCHANGE" =>
          y.neg.master = <<b.pms, IF Psk(KxIn(x.log)) THEN g.psk[s] ELSE 0, x.cr, x.sr>>
    BY <1>4, <2>1 DEF Along
  <2>3. x.st = "CERTIFICATE_VERIFY" => y.neg.master = x.neg.master /\ b.pms = a.pms
    BY <1>4
  <2>4. /\ Placed(g, y, b.at)
        /\ s = "cli" => CliPlaced(g, y, b.at)
        /\ s # "cli" => SrvPlaced(g, y, b.at)
    BY <1>1, <1>4
  <2> HIDE DEF b, x
  <2> QED BY <2>1, <2>2, <2>3, <2>4 DEF FullStep
<1> QED BY <1>2, <1>5, FullPaced

\* The server's messages in a full handshake.
LEMMA ServerSays ==
  ASSUME NEW g, NEW a, Ready(g, "srv", a), NEW m, Say("srv", Onward(ssl["srv"]), m),
         \/ /\ ssl["srv"].st = "SERVER_CERTIFICATE" /\ KxOf("srv") # "PSK"
            /\ m = [msg |-> "CERTIFICATE", cert |-> setting.cert["srv"]]
         \/ /\ ssl["srv"].st = "SERVER_KEY_EXCHANGE" /\ KxOf("srv") = "DHE_RSA"
            /\ m = [msg |-> "SERVER_KEY_EXCHANGE"]
         \/ /\ ssl["srv"].st = "CERTIFICATE_REQUEST"
            /\ ~WithPsk("srv") /\ setting.auth["srv"] # "NONE"
            /\ m = [msg |-> "CERTIFICATE_REQUEST"]
         \/ ssl["srv"].st = "SERVER_HELLO_DONE" /\ m = [msg |-> "SERVER_HELLO_DONE"]
  PROVE  Paced(g, "srv", a)
<1> DEFINE x == ssl["srv"]
           y == Onward(x)
           kx == KxIn(x.log)
<1>0. "srv" \in Ends /\ "srv" # "cli"
  BY DEF Ends
<1>1. /\ x.st \in Full \ {"CLIENT_KEY_EXCHANGE", "CERTIFICATE_VERIFY"}
      /\ g.auth = setting.auth /\ g.cert = setting.cert
  BY <1>0, ReadyFacts DEF Full
<1>2. /\ DOMAIN y = ContextFields /\ y.st = After(x.st) /\ Along(y, x) /\ y.asked = x.asked
      /\ y.log = x.log /\ y.neg = x.neg /\ y.held = x.held
  <2>1. DOMAIN x = ContextFields
    BY <1>0, ReadyFacts
  <2> QED BY <2>1, OnwardParts
<1>3. /\ Placed(g, x, a.at) /\ SrvPlaced(g, x, a.at) /\ x.held = NoMsg /\ a.log = x.log
      /\ KxOf("srv") = kx /\ WithPsk("srv") = Psk(kx) /\ ~x.resume /\ ~Resumed(x.log)
  <2>1. x.st \in Full
    BY <1>1
  <2> QED BY <1>0, <2>1, FullFacts DEF Echoes
<1>4. m.msg \in HandshakeMessages \ {"HELLO_REQUEST", "FINISHED"}
  BY DEF HandshakeMessages
<1> HIDE DEF y
<1>6. CASE x.st = "SERVER_CERTIFICATE"
  <2> DEFINE t == "SERVER_CERTIFICATE"
  <2>1. kx # "PSK" /\ m.msg = "CERTIFICATE" /\ m.cert = g.cert["srv"]
    BY <1>1, <1>3, <1>6
  <2>2. Leads(g, "srv", a, m, t)
    BY <1>0, <1>3, <1>6, <2>1 DEF Leads, SrvLeads, Placed
  <2>3. y.st = "SERVER_KEY_EXCHANGE"
    BY <1>2, <1>6, NextState
  <2>4. Placed(g, y, t) /\ SrvPlaced(g, y, t)
    BY <1>2, <1>3, <1>6, <2>1, <2>3 DEF Placed, SrvPlaced
  <2>5. t # None
    BY DEF None
  <2> HIDE DEF t
  <2> QED BY <1>0, <1>1, <1>2, <1>3, <1>4, <2>2, <2>4, <2>5, FullSayPaced DEF y
<1>7. CASE x.st = "SERVER_KEY_EXCHANGE"
  <2> DEFINE t == "SERVER_KEY_EXCHANGE"
  <2>1. kx = "DHE_RSA" /\ m.msg = "SERVER_KEY_EXCHANGE"
    BY <1>1, <1>3, <1>7
  <2>2. Leads(g, "srv", a, m, t)
    BY <1>0, <1>3, <1>7, <2>1 DEF Leads, SrvLeads, Placed
  <2>3. y.st = "CERTIFICATE_REQUEST"
    BY <1>2, <1>7, NextState
  <2>4. Placed(g, y, t) /\ SrvPlaced(g, y, t)
    BY <1>2, <1>3, <1>7, <2>1, <2>3 DEF Placed, SrvPlaced, BeforeRequest
  <2>5. t # None
    BY DEF None
  <2> HIDE DEF t
  <2> QED BY <1>0, <1>1, <1>2, <1>3, <1>4, <2>2, <2>4, <2>5, FullSayPaced DEF y
<1>8. CASE x.st = "CERTIFICATE_REQUEST"
  <2> DEFINE t == "CERTIFICATE_REQUEST"
  <2>1. ~Psk(kx) /\ Shown(g) /\ m.msg = "CERTIFICATE_REQUEST"
    BY <1>1, <1>3, <1>8 DEF Shown
  <2>2. Leads(g, "srv", a, m, t)
    BY <1>0, <1>3, <1>8, <2>1 DEF Leads, SrvLeads, Placed
  <2>3. y.st = "SERVER_HELLO_DONE"
    BY <1>2, <1>8, NextState
  <2>4. Placed(g, y, t) /\ SrvPlaced(g, y, t)
    BY <1>2, <1>3, <1>8, <2>1, <2>3 DEF Placed, SrvPlaced, BeforeDone
  <2>5. t # None
    BY DEF None
  <2> HIDE DEF t
  <2> QED BY <1>0, <1>1, <1>2, <1>3, <1>4, <2>2, <2>4, <2>5, FullSayPaced DEF y
<1>9. CASE x.st = "SERVER_HELLO_DONE"
  <2> DEFINE t == "SERVER_HELLO_DONE"
  <2>1. m.msg = "SERVER_HELLO_DONE"
    BY <1>9
  <2>2. Leads(g, "srv", a, m, t)
    BY <1>0, <1>3, <1>9, <2>1 DEF Leads, SrvLeads, Placed
  <2>3. y.st = "CLIENT_CERTIFICATE"
    BY <1>2, <1>9, NextState
  <2>4. Placed(g, y, t) /\ SrvPlaced(g, y, t)
    BY <1>2, <1>3, <1>9, <2>3 DEF Placed, SrvPlaced
  <2>5. t # None
    BY DEF None
  <2> HIDE DEF t
  <2> QED BY <1>0, <1>1, <1>2, <1>3, <1>4, <2>2, <2>4, <2>5, FullSayPaced DEF y
<1> QED BY <1>6, <1>7, <1>8, <1>9

\* The client's messages in a full handshake.
LEMMA ClientSays ==
  ASSUME NEW g, NEW a, Ready(g, "cli", a),
         \/ /\ ssl["cli"].st = "CLIENT_CERTIFICATE" /\ KxOf("cli") # "PSK" /\ ssl["cli"].asked
            /\ Say("cli", Onward(ssl["cli"]), [msg |-> "CERTIFICATE", cert |-> setting.cert["cli"]])
         \/ WriteClientKeyExchange
         \/ /\ ssl["cli"].st = "CERTIFICATE_VERIFY" /\ ~WithPsk("cli") /\ ssl["cli"].asked
            /\ setting.cert["cli"] # "none"
            /\ Say("cli", Onward(ssl["cli"]),
                   [msg |-> "CERTIFICATE_VERIFY", over |-> ssl["cli"].log])
  PROVE  Paced(g, "cli", a)
<1> DEFINE x == ssl["cli"]
           kx == KxIn(x.log)
<1>0. "cli" \in Ends /\ "srv" # "cli"
  BY DEF Ends
<1>1. /\ x.st \in {"CLIENT_CERTIFICATE", "CLIENT_KEY_EXCHANGE", "CERTIFICATE_VERIFY"}
      /\ g.auth = setting.auth /\ g.cert = setting.cert /\ g.psk = setting.psk
      /\ DOMAIN x = ContextFields /\ DOMAIN x.neg = SessionFields
  BY <1>0, ReadyFacts DEF WriteClientKeyExchange, At
<1>2. /\ Placed(g, x, a.at) /\ CliPlaced(g, x, a.at) /\ a.log = x.log
      /\ KxOf("cli") = kx /\ WithPsk("cli") = Psk(kx) /\ ~x.resume
      /\ Resumed(x.log) => Echoes("cli", x)
  <2>1. x.st \in Full
    BY <1>1 DEF Full
  <2> QED BY <1>0, <2>1, FullFacts
<1>3. /\ x.held = NoMsg /\ ~Resumed(x.log)
      /\ ~Psk(kx) => x.asked = Shown(g)
  BY <1>1, <1>2 DEF CliPlaced, Echoes, NoMsg
<1>4. CASE x.st = "CLIENT_CERTIFICATE"
  <2> DEFINE t == "CLIENT_CERTIFICATE"
             y == Onward(x)
             m == [msg |-> "CERTIFICATE", cert |-> setting.cert["cli"]]
  <2>1. kx # "PSK" /\ x.asked /\ Say("cli", y, m)
    BY <1>2, <1>4 DEF WriteClientKeyExchange, At
  <2>2. m.msg = "CERTIFICATE" /\ m.cert = g.cert["cli"] /\ m.msg \in HandshakeMessages
    BY <1>1 DEF HandshakeMessages
  <2>3. /\ DOMAIN y = ContextFields /\ y.st = After(x.st) /\ Along(y, x) /\ y.asked = x.asked
        /\ y.log = x.log /\ y.neg = x.neg /\ y.held = x.held
    BY <1>1, OnwardParts
  <2> HIDE DEF y, m
  <2>4. Leads(g, "cli", a, m, t)
    BY <1>2, <1>3, <1>4, <2>1, <2>2 DEF Leads, CliLeads, Placed
  <2>5. y.st = "CLIENT_KEY_EXCHANGE"
    BY <1>4, <2>3, NextState
  <2>6. Placed(g, y, t) /\ CliPlaced(g, y, t)
    BY <1>3, <2>1, <2>3, <2>5 DEF Placed, CliPlaced
  <2>7. t # None
    BY DEF None
  <2> HIDE DEF t
  <2> QED BY <1>0, <1>2, <1>3, <1>4, <2>1, <2>2, <2>3, <2>4, <2>6, <2>7, FullSayPaced DEF Full, x
<1>5. CASE x.st = "CLIENT_KEY_EXCHANGE"
  <2> DEFINE t == "CLIENT_KEY_EXCHANGE"
             k == Master("cli", x, draws + 1)
             z == [x EXCEPT !.neg.master = k]
             y == Onward(z)
             m == [msg |-> "CLIENT_KEY_EXCHANGE", pms |-> draws + 1]
  <2>1. Say("cli", y, m)
    BY <1>5 DEF WriteClientKeyExchange, At
  <2>2. m.msg = "CLIENT_KEY_EXCHANGE" /\ m.msg \in HandshakeMessages /\ m.pms = draws + 1
    BY DEF HandshakeMessages
  <2> HIDE DEF m
  <2>3. k = <<m.pms, IF Psk(kx) THEN g.psk["cli"] ELSE 0, x.cr, x.sr>>
    BY <1>1, <1>2, <2>2 DEF Master
  <2> HIDE DEF k
  <2>4. /\ DOMAIN z = ContextFields /\ Along(z, x) /\ z.st = x.st /\ z.asked = x.asked
        /\ z.log = x.log /\ z.neg.master = k /\ z.held = x.held
    BY <1>1 DEF Along, ContextFields, SessionFields
  <2> HIDE DEF z
  <2>5. /\ DOMAIN y = ContextFields /\ y.st = After(x.st) /\ Along(y, x) /\ y.asked = x.asked
        /\ y.log = x.log /\ y.neg.master = k /\ y.held = x.held /\ y.cr = x.cr /\ y.sr = x.sr
    BY <2>4, OnwardParts DEF Along
  <2> HIDE DEF y
  <2>6. Leads(g, "cli", a, m, t)
    <3>1. a.at = IF kx # "PSK" /\ x.asked THEN "CLIENT_CERTIFICATE" ELSE "SERVER_HELLO_DONE"
      BY <1>2, <1>5 DEF CliPlaced
    <3>2. a.at = "CLIENT_CERTIFICATE" \/ (a.at = "SERVER_HELLO_DONE" /\ (Psk(kx) \/ ~Shown(g)))
      BY <1>3, <3>1 DEF Psk
    <3> QED BY <1>2, <2>2, <3>2 DEF Leads, CliLeads
  <2>7. y.st = "CERTIFICATE_VERIFY"
    BY <1>5, <2>5, NextState
  <2>8. Placed(g, y, t) /\ CliPlaced(g, y, t)
    BY <1>3, <2>5, <2>7 DEF Placed, CliPlaced
  <2>9. t # None
    BY DEF None
  <2>10. x.st = "CLIENT_KEY_EXCHANGE" =>
           /\ m.msg = "CLIENT_KEY_EXCHANGE"
           /\ y.neg.master = <<m.pms, IF Psk(KxIn(y.log)) THEN g.psk["cli"] ELSE 0, y.cr, y.sr>>
    BY <2>2, <2>3, <2>5
  <2> HIDE DEF t
  <2>11. x.st \in Full /\ x.st # "CERTIFICATE_VERIFY" /\ m.msg \notin {"HELLO_REQUEST", "FINISHED"}
         /\ ~Resumed(y.log)
    BY <1>3, <1>5, <2>2, <2>5 DEF Full
  <2> QED BY <1>0, <2>1, <2>2, <2>5, <2>6, <2>8, <2>9, <2>10, <2>11, FullSayPaced DEF x
<1>6. CASE x.st = "CERTIFICATE_VERIFY"
  <2> DEFINE t == "CERTIFICATE_VERIFY"
             y == Onward(x)
             m == [msg |-> "CERTIFICATE_VERIFY", over |-> x.log]
  <2>1. ~Psk(kx) /\ x.asked /\ g.cert["cli"] # "none" /\ Say("cli", y, m)
    BY <1>1, <1>2, <1>6 DEF WriteClientKeyExchange, At
  <2>2. m.msg = "CERTIFICATE_VERIFY" /\ m.over = x.log /\ m.msg \in HandshakeMessages
    BY DEF HandshakeMessages
  <2>3. /\ DOMAIN y = ContextFields /\ y.st = After(x.st) /\ Along(y, x) /\ y.asked = x.asked
        /\ y.log = x.log /\ y.neg = x.neg /\ y.held = x.held
    BY <1>1, OnwardParts
  <2> HIDE DEF y, m
  <2>4. Leads(g, "cli", a, m, t) /\ Signs(g, kx)
    BY <1>2, <1>3, <1>6, <2>1, <2>2 DEF Leads, CliLeads, Placed, Signs
  <2>5. y.st = "CLIENT_CHANGE_CIPHER_SPEC"
    BY <1>6, <2>3, NextState
  <2>6. Placed(g, y, t) /\ CliPlaced(g, y, t)
    BY <1>3, <2>3, <2>4, <2>5 DEF Placed, CliPlaced
  <2>7. t # None
    BY DEF None
  <2> HIDE DEF t
  <2> QED BY <1>0, <1>2, <1>3, <1>6, <2>1, <2>2, <2>3, <2>4, <2>6, <2>7, FullSayPaced DEF Full, x
<1> QED BY <1>1, <1>4, <1>5, <1>6

\* What comes in a full handshake is no noise, unless it is the peer's farewell; and the log
\* with it says the same of both hellos.
LEMMA FullMeans ==
  ASSUME NEW g, NEW s \in Ends, NEW a, Ready(g, s, a), ssl[s].st \in Full, Comes(s),
         a.at \notin {None, "CLIENT_HELLO_AGAIN"}
  PROVE  /\ wire[s] # <<>> /\ ~Noise(Msg(s))
         /\ \A h : /\ KxIn(Append(ssl[s].log, h)) = KxIn(ssl[s].log)
                   /\ Resumed(Append(ssl[s].log, h)) = Resumed(ssl[s].log)
                   /\ Append(ssl[s].log, h)[2] = ssl[s].log[2]
<1>1. wire[s] # <<>> /\ Msg(s).msg # "fatal"
  BY DEF Comes
<1>2. PICK b : Goes(g, Peer(s), a, Head(wire[s]), b)
  BY <1>1 DEF Ready
<1>3. Tells(g, Peer(s), a, Head(wire[s]), b)
  BY <1>2 DEF Goes, Hush
<1>4. ~Noise(Msg(s))
  BY <1>3, Peers, TellsAt DEF Msg
<1>5. IsSequence(ssl[s].log) /\ Len(ssl[s].log) >= 2
  BY FullFacts
<1> DEFINE l == ssl[s].log
<1>6. IsSequence(l) /\ Len(l) >= 2
  BY <1>5
<1> HIDE DEF l
<1>7. ASSUME NEW h
      PROVE  /\ KxIn(Append(l, h)) = KxIn(l) /\ Resumed(Append(l, h)) = Resumed(l)
             /\ Append(l, h)[2] = l[2]
  <2> DEFINE k == Append(l, h)
  <2>1. \E i : k = Append(l, i)
    OBVIOUS
  <2> HIDE DEF k
  <2>2. KxIn(k) = KxIn(l) /\ Resumed(k) = Resumed(l) /\ k[2] = l[2]
    BY <1>6, <2>1, LogKept
  <2> QED BY <2>2 DEF k
<1> QED BY <1>1, <1>4, <1>7 DEF l

\* The context after the next message, when nothing else is kept of it.
LEMMA HeardOn ==
  ASSUME NEW g, NEW s \in Ends, NEW a, Ready(g, s, a), NEW y, y = Onward(Heard(s))
  PROVE  /\ DOMAIN y = ContextFields /\ y.st = After(ssl[s].st) /\ Along(y, ssl[s])
         /\ y.asked = ssl[s].asked /\ y.held = ssl[s].held /\ y.neg = ssl[s].neg
         /\ y.log = Append(ssl[s].log, Hashed(Msg(s))) /\ y.asked \in BOOLEAN
         /\ y.cr = ssl[s].cr /\ y.sr = ssl[s].sr
<1> DEFINE z == Heard(s)
<1>1. /\ Along(z, ssl[s]) /\ z.st = ssl[s].st /\ DOMAIN z = ContextFields
      /\ z.neg = ssl[s].neg /\ z.held = ssl[s].held /\ z.asked = ssl[s].asked
      /\ z.log = Append(ssl[s].log, Hashed(Msg(s))) /\ ssl[s].asked \in BOOLEAN
  BY ReadyFacts
<1> HIDE DEF z
<1>2. y = Onward(z)
  BY DEF z
<1> QED BY <1>1, <1>2, OnwardParts DEF Along

\* The certificate of the other end.
LEMMA CertificateHeard ==
  ASSUME NEW g, NEW s \in Ends, NEW a, Ready(g, s, a), ParseCertificate(s)
  PROVE  Paced(g, s, a)
<1> DEFINE x == ssl[s]
           kx == KxIn(x.log)
           cert == Msg(s).cert
           verdict == IF cert = "none" THEN "missing"
                      ELSE IF setting.auth[s] = "NONE" THEN "none" ELSE cert
           z == [Heard(s) EXCEPT !.neg.cert = cert, !.neg.verify = verdict]
           y == Onward(z)
           l == x.log
<1>1. /\ x.st = (IF s = "srv" THEN "CLIENT_CERTIFICATE" ELSE "SERVER_CERTIFICATE")
      /\ KxOf(s) # "PSK" /\ Comes(s) /\ Msg(s).msg = "CERTIFICATE"
      /\ s = "srv" => setting.auth["srv"] # "NONE" /\ KxOf(s) # "RSA_PSK"
      /\ Hear(s, y) \/ Fail(s, "CERTIFICATE")
  BY DEF ParseCertificate, ReadsCertificate, At, CertState, CameAs, Ends
<1>2. CASE Fail(s, "CERTIFICATE")
  BY <1>1, <1>2, FailPaced DEF Comes
<1>3. CASE Hear(s, y)
  <2>1. /\ g.auth = setting.auth /\ g.cert = setting.cert
        /\ DOMAIN Heard(s).neg = SessionFields /\ DOMAIN Heard(s) = ContextFields
        /\ Along(Heard(s), x) /\ Heard(s).st = x.st /\ Heard(s).held = x.held
        /\ Heard(s).asked = x.asked /\ x.asked \in BOOLEAN
        /\ Heard(s).log = Append(l, Hashed(Msg(s)))
    BY ReadyFacts
  <2>2. /\ DOMAIN z = ContextFields /\ Along(z, x) /\ z.st = x.st /\ z.asked = x.asked
        /\ z.held = x.held /\ z.log = Append(l, Hashed(Msg(s))) /\ z.neg.cert = cert
    BY <2>1 DEF Along, ContextFields, SessionFields
  <2>3. x.st \in Full
    BY <1>1 DEF Full
  <2>4. /\ Placed(g, x, a.at) /\ a.log = x.log
        /\ s = "cli" => CliPlaced(g, x, a.at)
        /\ s = "srv" => x.held = NoMsg
        /\ KxOf(s) = kx /\ (Resumed(l) => Echoes(s, x))
    BY <2>3, FullFacts
  <2> HIDE DEF z, verdict
  <2>5. /\ DOMAIN y = ContextFields /\ y.st = After(x.st) /\ Along(y, x) /\ y.asked = x.asked
        /\ y.log = Append(l, Hashed(Msg(s))) /\ y.held = x.held /\ y.neg.cert = cert
    BY <2>2, OnwardParts DEF Along
  <2> HIDE DEF y
  <2>6. a.at \in {"SERVER_HELLO", "SERVER_HELLO_DONE"}
    BY <1>1, <2>4 DEF Placed
  <2>7. wire[s] # <<>> /\ ~Noise(Msg(s)) /\ KxIn(y.log) = kx /\ Resumed(y.log) = Resumed(l)
    <3>1. a.at \notin {None, "CLIENT_HELLO_AGAIN"}
      BY <2>6 DEF None
    <3>2. /\ wire[s] # <<>> /\ ~Noise(Msg(s))
          /\ \A i : KxIn(Append(l, i)) = kx /\ Resumed(Append(l, i)) = Resumed(l)
      BY <1>1, <2>3, <3>1, FullMeans
    <3> QED BY <2>5, <3>2
  <2>8. ASSUME NEW t, Leads(g, Peer(s), a, Msg(s), t)
        PROVE  /\ t # None /\ (Resumed(l) => Echoes(s, y))
               /\ Placed(g, y, t)
               /\ s = "cli" => CliPlaced(g, y, t)
               /\ s # "cli" => SrvPlaced(g, y, t)
    <3> DEFINE m == Msg(s)
    <3> HIDE DEF x, l, m
    <3>1. CASE s = "cli"
      <4>1. t = "SERVER_CERTIFICATE" /\ ~Resumed(l)
        BY <1>1, <2>4, <2>8, <3>1, Peers DEF Leads, SrvLeads, l, m
      <4>2. y.st = "SERVER_KEY_EXCHANGE" /\ x.st = "SERVER_CERTIFICATE"
        BY <1>1, <2>5, <3>1, NextState DEF x
      <4>3. Placed(g, y, t) /\ t # None
        BY <1>1, <2>4, <2>7, <4>1, <4>2 DEF Placed, None
      <4>4. x.held = NoMsg
        BY <2>4, <3>1, <4>2 DEF CliPlaced
      <4>5. CliPlaced(g, y, t)
        BY <2>5, <4>2, <4>4 DEF CliPlaced
      <4> QED BY <3>1, <4>1, <4>3, <4>5
    <3>2. CASE s = "srv"
      <4>1. t = "CLIENT_CERTIFICATE" /\ cert = g.cert["cli"]
        BY <1>1, <2>8, <3>2, Peers DEF Leads, CliLeads
      <4>2. y.st = "CLIENT_KEY_EXCHANGE" /\ s # "cli" /\ ~Resumed(l)
        BY <1>1, <2>4, <2>5, <3>2, NextState, "cli" # "srv" DEF x, Echoes
      <4>3. Placed(g, y, t) /\ t # None
        BY <4>1, <4>2 DEF Placed, None
      <4>4. ~Psk(kx) /\ Shown(g)
        BY <1>1, <2>1, <2>4, <3>2 DEF Psk, Shown
      <4>5. SrvPlaced(g, y, t)
        BY <2>5, <2>7, <4>1, <4>2, <4>4 DEF SrvPlaced, Signs
      <4> QED BY <4>2, <4>3, <4>5
    <3> QED BY <3>1, <3>2 DEF Ends
  <2>9. x.st \notin {"CLIENT_KEY_EXCHANGE", "CERTIFICATE_VERIFY"}
    BY <1>1
  <2> QED BY <1>1, <1>3, <2>1, <2>3, <2>4, <2>5, <2>7, <2>8, <2>9, FullHearPaced
<1> QED BY <1>1, <1>2, <1>3

\* The server's keys, or the message in their place.
LEMMA ServerKeysHeard ==
  ASSUME NEW g, NEW a, Ready(g, "cli", a), ssl["cli"].st = "SERVER_KEY_EXCHANGE", Comes("cli"),
         \/ /\ KxOf("cli") = "DHE_RSA" /\ Msg("cli").msg = "SERVER_KEY_EXCHANGE"
            /\ Hear("cli", Onward(Heard("cli")))
         \/ /\ WithPsk("cli") /\ Msg("cli").msg \in HandshakeMessages
            /\ Hear("cli", Onward([Heard("cli") EXCEPT !.held = Msg("cli")]))
  PROVE  Paced(g, "cli", a)
<1> DEFINE x == ssl["cli"]
           kx == KxIn(x.log)
           l == x.log
           m == Msg("cli")
           z == [Heard("cli") EXCEPT !.held = m]
<1>0. "cli" \in Ends /\ x.st \in Full /\ "srv" = Peer("cli") /\ "cli" # "srv"
  BY Peers DEF Full
<1>1. /\ Placed(g, x, a.at) /\ a.log = l /\ CliPlaced(g, x, a.at)
      /\ KxOf("cli") = kx /\ WithPsk("cli") = Psk(kx) /\ (Resumed(l) => Echoes("cli", x))
  BY <1>0, FullFacts
<1>2. /\ a.at = (IF kx = "PSK" THEN "SERVER_HELLO" ELSE "SERVER_CERTIFICATE")
      /\ x.held = NoMsg /\ a.at \notin {None, "CLIENT_HELLO_AGAIN"}
      /\ Resumed(l) => kx = "PSK"
  BY <1>1 DEF Placed, CliPlaced, None, Echoes, NoMsg
<1>3. /\ wire["cli"] # <<>> /\ ~Noise(m)
      /\ \A h : KxIn(Append(l, h)) = kx /\ Resumed(Append(l, h)) = Resumed(l)
  BY <1>0, <1>2, FullMeans
<1>4. x.st \notin {"CLIENT_KEY_EXCHANGE", "CERTIFICATE_VERIFY"}
  OBVIOUS
<1>5. CASE KxOf("cli") = "DHE_RSA" /\ m.msg = "SERVER_KEY_EXCHANGE"
  <2> DEFINE y == Onward(Heard("cli"))
  <2>1. /\ DOMAIN y = ContextFields /\ y.st = After(x.st) /\ Along(y, x) /\ y.asked \in BOOLEAN
        /\ y.log = Append(l, Hashed(m)) /\ y.held = x.held
    BY <1>0, HeardOn
  <2>2. Hear("cli", y)
    BY <1>1, <1>5 DEF Psk
  <2> HIDE DEF y
  <2>3. y.st = "CERTIFICATE_REQUEST" /\ ~Resumed(l) /\ kx = "DHE_RSA" /\ KxIn(y.log) = kx
    BY <1>1, <1>2, <1>3, <1>5, <2>1, NextState
  <2>4. ASSUME NEW t, Leads(g, "srv", a, m, t)
        PROVE  t # None /\ Placed(g, y, t) /\ CliPlaced(g, y, t)
    <3> HIDE DEF x, l, m
    <3>1. t = "SERVER_KEY_EXCHANGE"
      BY <1>0, <1>5, <2>4 DEF Leads, SrvLeads
    <3> QED BY <1>2, <2>1, <2>3, <3>1 DEF Placed, CliPlaced, BeforeRequest, Psk, None
  <2> QED BY <1>0, <1>3, <1>4, <1>5, <2>1, <2>2, <2>3, <2>4, FullHearPaced
<1>6. CASE Psk(kx) /\ m.msg \in HandshakeMessages
  <2> DEFINE y == Onward(z)
  <2>1. /\ DOMAIN z = ContextFields /\ Along(z, x) /\ z.st = x.st /\ z.asked \in BOOLEAN
        /\ z.held = m /\ z.log = Append(l, Hashed(m))
    <3> DEFINE h == Heard("cli")
    <3>1. /\ Along(h, x) /\ h.st = x.st /\ DOMAIN h = ContextFields
          /\ h.asked = x.asked /\ h.log = Append(l, Hashed(m)) /\ x.asked \in BOOLEAN
      BY <1>0, ReadyFacts
    <3> HIDE DEF h, x, l, m
    <3>2. z = [h EXCEPT !.held = m]
      BY DEF h
    <3> QED BY <3>1, <3>2 DEF Along, ContextFields
  <2>2. Hear("cli", y)
    BY <1>1, <1>6 DEF Psk
  <2> HIDE DEF z
  <2>3. /\ DOMAIN y = ContextFields /\ y.st = After(x.st) /\ Along(y, x) /\ y.asked \in BOOLEAN
        /\ y.log = Append(l, Hashed(m)) /\ y.held = m
    BY <2>1, OnwardParts DEF Along
  <2> HIDE DEF y
  <2>4. y.st = "CERTIFICATE_REQUEST" /\ KxIn(y.log) = kx /\ Resumed(y.log) = Resumed(l)
    BY <1>3, <2>3, NextState
  <2>5. ASSUME NEW t, Leads(g, "srv", a, m, t)
        PROVE  /\ t # None /\ Placed(g, y, t) /\ CliPlaced(g, y, t)
               /\ Resumed(l) => Echoes("cli", y)
               /\ m.msg \notin {"FINISHED", "CHANGE_CIPHER_SPEC"}
    <3> HIDE DEF x, l, m
    <3>1. SrvLeads(g, a, m, t)
      BY <1>0, <2>5 DEF Leads
    <3>2. \/ m.msg = "SERVER_HELLO_DONE" /\ t = "SERVER_HELLO_DONE" /\ ~Resumed(l)
          \/ m.msg = "NEW_SESSION_TICKET" /\ t = "NEW_SESSION_TICKET" /\ Resumed(l)
      BY <1>1, <1>2, <1>6, <3>1 DEF SrvLeads, BeforeRequest, BeforeDone, HandshakeMessages, Psk,
         Asks, l
    <3>3. m # NoMsg
      BY <3>2 DEF NoMsg
    <3>4. Placed(g, y, t)
      BY <2>3, <2>4, <3>3 DEF Placed
    <3>5. CliPlaced(g, y, t)
      BY <1>6, <2>3, <2>4, <3>2, <3>3 DEF CliPlaced
    <3> QED BY <2>3, <3>2, <3>4, <3>5 DEF Echoes, None
  <2>6. m.msg \notin {"FINISHED", "CHANGE_CIPHER_SPEC"}
    <3>1. \E t : Leads(g, "srv", a, m, t)
      BY <1>0, <1>3, ReadTells
    <3> QED BY <2>5, <3>1
  <2> QED BY <1>0, <1>3, <1>4, <2>2, <2>3, <2>5, <2>6, FullHearPaced
<1> QED BY <1>1, <1>5, <1>6

\* The request for a certificate, or the end of the server's hello in its place.
LEMMA RequestHeard ==
  ASSUME NEW g, NEW a, Ready(g, "cli", a), ssl["cli"].st = "CERTIFICATE_REQUEST", Comes("cli"),
         ~WithPsk("cli"), Msg("cli").msg \in HandshakeMessages,
         LET request == Msg("cli").msg = "CERTIFICATE_REQUEST"
         IN Hear("cli", Onward([Heard("cli") EXCEPT
                          !.asked = request, !.held = IF request THEN NoMsg ELSE Msg("cli")]))
  PROVE  Paced(g, "cli", a)
<1> DEFINE x == ssl["cli"]
           kx == KxIn(x.log)
           l == x.log
           m == Msg("cli")
           request == m.msg = "CERTIFICATE_REQUEST"
           held == IF request THEN NoMsg ELSE m
           z == [Heard("cli") EXCEPT !.asked = request, !.held = held]
           y == Onward(z)
<1>0. "cli" \in Ends /\ x.st \in Full /\ "srv" = Peer("cli") /\ "cli" # "srv"
  BY Peers DEF Full
<1>1. /\ Placed(g, x, a.at) /\ a.log = l /\ CliPlaced(g, x, a.at)
      /\ KxOf("cli") = kx /\ ~Psk(kx) /\ (Resumed(l) => Echoes("cli", x))
  <2>1. WithPsk("cli") = Psk(kx)
    BY <1>0, FullFacts
  <2>2. KxOf("cli") = kx /\ Placed(g, x, a.at) /\ a.log = l /\ CliPlaced(g, x, a.at)
    BY <1>0, FullFacts
  <2>3. Resumed(l) => Echoes("cli", x)
    BY <1>0, FullFacts
  <2> QED BY <2>1, <2>2, <2>3
<1>2. /\ x.held = NoMsg /\ ~Resumed(l)
      /\ a.at = (IF kx = "DHE_RSA" THEN "SERVER_KEY_EXCHANGE" ELSE "SERVER_CERTIFICATE")
  BY <1>1 DEF Placed, CliPlaced, Echoes, NoMsg, BeforeRequest, Psk
<1>3. /\ wire["cli"] # <<>> /\ ~Noise(m)
      /\ \A h : KxIn(Append(l, h)) = kx /\ Resumed(Append(l, h)) = Resumed(l)
  <2>1. a.at \notin {None, "CLIENT_HELLO_AGAIN"}
    BY <1>2 DEF None
  <2> QED BY <1>0, <2>1, FullMeans
<1>4. /\ DOMAIN z = ContextFields /\ Along(z, x) /\ z.st = x.st /\ z.asked = request
      /\ z.held = held /\ z.log = Append(l, Hashed(m))
  <2> DEFINE h == Heard("cli")
  <2>1. /\ Along(h, x) /\ h.st = x.st /\ DOMAIN h = ContextFields
        /\ h.log = Append(l, Hashed(m))
    BY <1>0, ReadyFacts
  <2> HIDE DEF h, x, l, m, request, held
  <2>2. z = [h EXCEPT !.asked = request, !.held = held]
    BY DEF h
  <2> QED BY <2>1, <2>2 DEF Along, ContextFields
<1>5. Hear("cli", y)
  OBVIOUS
<1> HIDE DEF z
<1>6. /\ DOMAIN y = ContextFields /\ y.st = After(x.st) /\ Along(y, x) /\ y.asked = request
      /\ y.log = Append(l, Hashed(m)) /\ y.held = held
  BY <1>4, OnwardParts DEF Along
<1> HIDE DEF y
<1>7. y.st = "SERVER_HELLO_DONE" /\ KxIn(y.log) = kx
  BY <1>3, <1>6, NextState
<1>8. ASSUME NEW t, Leads(g, "srv", a, m, t)
      PROVE  /\ t # None /\ Placed(g, y, t) /\ CliPlaced(g, y, t)
             /\ m.msg \notin {"FINISHED", "CHANGE_CIPHER_SPEC"}
  <2>0. m.msg \in HandshakeMessages
    OBVIOUS
  <2> HIDE DEF x, l, m
  <2>1. SrvLeads(g, a, m, t)
    BY <1>0, <1>8 DEF Leads
  <2>2. \/ m.msg = "CERTIFICATE_REQUEST" /\ t = "CERTIFICATE_REQUEST" /\ Shown(g)
        \/ m.msg = "SERVER_HELLO_DONE" /\ t = "SERVER_HELLO_DONE" /\ ~Shown(g)
    BY <1>1, <1>2, <2>0, <2>1 DEF SrvLeads, BeforeRequest, BeforeDone, HandshakeMessages, l, Asks
  <2>3. CASE m.msg = "CERTIFICATE_REQUEST"
    <3>1. y.held = NoMsg /\ y.asked /\ t = "CERTIFICATE_REQUEST" /\ Shown(g)
      BY <1>6, <2>2, <2>3
    <3> QED BY <1>1, <1>7, <2>3, <3>1 DEF Placed, CliPlaced, BeforeDone, None
  <2>4. CASE m.msg = "SERVER_HELLO_DONE"
    <3>1. y.held = m /\ ~y.asked /\ t = "SERVER_HELLO_DONE" /\ ~Shown(g)
      BY <1>6, <2>2, <2>4
    <3>2. y.held # NoMsg
      BY <2>4, <3>1 DEF NoMsg
    <3> QED BY <1>1, <1>7, <2>4, <3>1, <3>2 DEF Placed, CliPlaced, None
  <2> QED BY <2>2, <2>3, <2>4
<1>9. m.msg \notin {"FINISHED", "CHANGE_CIPHER_SPEC"}
  <2>1. \E t : Leads(g, "srv", a, m, t)
    BY <1>0, <1>3, ReadTells
  <2> QED BY <1>8, <2>1
<1>10. x.st \notin {"CLIENT_KEY_EXCHANGE", "CERTIFICATE_VERIFY"} /\ y.asked \in BOOLEAN
  BY <1>6
<1> QED BY <1>0, <1>2, <1>3, <1>5, <1>6, <1>8, <1>9, <1>10, FullHearPaced

\* The end of the server's hello.
LEMMA DoneHeard ==
  ASSUME NEW g, NEW a, Ready(g, "cli", a), ssl["cli"].st = "SERVER_HELLO_DONE", Comes("cli"),
         ssl["cli"].held = NoMsg, Msg("cli").msg = "SERVER_HELLO_DONE",
         Hear("cli", Onward(Heard("cli")))
  PROVE  Paced(g, "cli", a)
<1> DEFINE x == ssl["cli"]
           l == x.log
           m == Msg("cli")
           kx == KxIn(l)
           y == Onward(Heard("cli"))
<1>0. "cli" \in Ends /\ x.st \in Full /\ "srv" = Peer("cli") /\ "cli" # "srv"
  BY Peers DEF Full
<1>1. /\ CliPlaced(g, x, a.at) /\ Placed(g, x, a.at) /\ (Resumed(l) => Echoes("cli", x))
      /\ a.log = l
  BY <1>0, FullFacts
<1>2. x.asked /\ Shown(g) /\ ~Psk(kx) /\ a.at = "CERTIFICATE_REQUEST" /\ ~Resumed(l)
  BY <1>1 DEF CliPlaced, Placed, BeforeDone, Echoes, NoMsg
<1>3. /\ DOMAIN y = ContextFields /\ y.st = After(x.st) /\ Along(y, x) /\ y.asked \in BOOLEAN
      /\ y.log = Append(l, Hashed(m)) /\ y.held = x.held /\ y.asked = x.asked
  BY <1>0, HeardOn
<1>4. Hear("cli", y) /\ y.held = NoMsg
  BY <1>3
<1> HIDE DEF y
<1>5. y.st = "CLIENT_CERTIFICATE"
  BY <1>3, NextState
<1>6. wire["cli"] # <<>> /\ ~Noise(m) /\ KxIn(y.log) = kx
  <2>1. a.at \notin {None, "CLIENT_HELLO_AGAIN"}
    BY <1>2 DEF None
  <2>2. wire["cli"] # <<>> /\ ~Noise(m) /\ \A i : KxIn(Append(l, i)) = kx
    BY <1>0, <2>1, FullMeans
  <2> QED BY <1>3, <2>2
<1>7. ASSUME NEW t, Leads(g, "srv", a, m, t)
      PROVE  t # None /\ Placed(g, y, t) /\ CliPlaced(g, y, t)
  <2>0. m.msg = "SERVER_HELLO_DONE"
    OBVIOUS
  <2> HIDE DEF x, l, m
  <2>1. t = "SERVER_HELLO_DONE"
    BY <1>0, <1>7, <2>0 DEF Leads, SrvLeads
  <2>2. y.asked = Shown(g)
    BY <1>2, <1>3 DEF Shown
  <2> QED BY <1>4, <1>5, <2>1, <2>2 DEF Placed, CliPlaced, None
<1>8. x.st \notin {"CLIENT_KEY_EXCHANGE", "CERTIFICATE_VERIFY"}
  OBVIOUS
<1> QED BY <1>0, <1>2, <1>3, <1>4, <1>6, <1>7, <1>8, FullHearPaced

\* The client's keys.
LEMMA ClientKeysHeard ==
  ASSUME NEW g, NEW a, Ready(g, "srv", a), ParseClientKeyExchange
  PROVE  Paced(g, "srv", a)
<1> DEFINE x == ssl["srv"]
           l == x.log
           m == Msg("srv")
           kx == KxIn(l)
           h == Heard("srv")
           k == Master("srv", h, m.pms)
           z == [h EXCEPT !.neg.master = k]
           y == Onward(z)
<1>0. "srv" \in Ends /\ "cli" = Peer("srv") /\ "cli" # "srv"
  BY Peers
<1>1. /\ x.st = "CLIENT_KEY_EXCHANGE" /\ Comes("srv") /\ m.msg = "CLIENT_KEY_EXCHANGE"
      /\ Hear("srv", y) /\ x.st \in Full
  BY DEF ParseClientKeyExchange, At, CameAs, Full
<1>2. /\ SrvPlaced(g, x, a.at) /\ Placed(g, x, a.at) /\ ~Resumed(l) /\ a.log = l
      /\ WithPsk("srv") = Psk(kx) /\ x.held = NoMsg
  BY <1>0, <1>1, FullFacts DEF Echoes
<1>3. /\ g.psk = setting.psk /\ Along(h, x) /\ h.st = x.st /\ DOMAIN h = ContextFields
      /\ DOMAIN h.neg = SessionFields /\ h.neg.cert = x.neg.cert
      /\ h.log = Append(l, Hashed(m)) /\ x.asked \in BOOLEAN
      /\ h.held = x.held /\ h.asked = x.asked
  BY <1>0, ReadyFacts
<1> HIDE DEF h
<1>4. k = <<m.pms, IF Psk(kx) THEN g.psk["srv"] ELSE 0, x.cr, x.sr>>
  BY <1>2, <1>3 DEF Master, Along
<1> HIDE DEF k
<1>5. /\ DOMAIN z = ContextFields /\ Along(z, x) /\ z.st = x.st /\ z.asked = x.asked
      /\ z.held = NoMsg /\ z.log = Append(l, Hashed(m)) /\ z.neg.cert = x.neg.cert
      /\ z.neg.master = k
  BY <1>2, <1>3 DEF Along, ContextFields, SessionFields
<1> HIDE DEF z
<1>6. /\ DOMAIN y = ContextFields /\ y.st = After(x.st) /\ Along(y, x) /\ y.asked \in BOOLEAN
      /\ y.log = Append(l, Hashed(m)) /\ y.held = NoMsg /\ y.neg.cert = x.neg.cert
      /\ y.neg.master = k /\ y.cr = x.cr /\ y.sr = x.sr
  BY <1>3, <1>5, OnwardParts DEF Along
<1> HIDE DEF y
<1>7. a.at \in {"CLIENT_CERTIFICATE", "SERVER_HELLO_DONE"}
  BY <1>1, <1>2 DEF SrvPlaced
<1>8. wire["srv"] # <<>> /\ ~Noise(m) /\ KxIn(y.log) = kx
  <2>1. a.at \notin {None, "CLIENT_HELLO_AGAIN"}
    BY <1>7 DEF None
  <2>2. wire["srv"] # <<>> /\ ~Noise(m) /\ \A i : KxIn(Append(l, i)) = kx
    BY <1>0, <1>1, <2>1, FullMeans
  <2> QED BY <1>6, <2>2
<1>9. y.st = "CERTIFICATE_VERIFY"
  BY <1>1, <1>6, NextState
<1>10. ASSUME NEW t, Leads(g, "cli", a, m, t)
       PROVE  t # None /\ Placed(g, y, t) /\ SrvPlaced(g, y, t)
  <2> HIDE DEF x, l, m
  <2>1. t = "CLIENT_KEY_EXCHANGE"
    BY <1>1, <1>10 DEF Leads, CliLeads
  <2>2. ~Psk(kx) => (x.neg.cert # "none" <=> Signs(g, kx))
    BY <1>1, <1>2 DEF SrvPlaced, l
  <2> QED BY <1>6, <1>8, <1>9, <2>1, <2>2 DEF Placed, SrvPlaced, None
<1>11. y.neg.master = <<m.pms, IF Psk(kx) THEN g.psk["srv"] ELSE 0, y.cr, y.sr>>
  BY <1>4, <1>6
<1>12. x.st # "CERTIFICATE_VERIFY" /\ m.msg \notin {"FINISHED", "CHANGE_CIPHER_SPEC"}
  BY <1>1
<1> QED BY <1>0, <1>1, <1>2, <1>6, <1>8, <1>10, <1>11, <1>12, FullHearPaced

\* The client's signature is over what the server has of the handshake.
LEMMA SignatureHeard ==
  ASSUME NEW g, NEW a, Ready(g, "srv", a), ssl["srv"].st = "CERTIFICATE_VERIFY",
         CameAs("srv", "CERTIFICATE_VERIFY"), ~WithPsk("srv"), ssl["srv"].neg.cert # "none"
  PROVE  /\ Msg("srv").over = ssl["srv"].log
         /\ Hear("srv", Onward(Heard("srv"))) => Paced(g, "srv", a)
<1> DEFINE x == ssl["srv"]
           l == x.log
           m == Msg("srv")
           kx == KxIn(l)
           y == Onward(Heard("srv"))
<1>0. "srv" \in Ends /\ "cli" = Peer("srv") /\ "cli" # "srv" /\ x.st \in Full
  BY Peers DEF Full
<1>1. /\ SrvPlaced(g, x, a.at) /\ Placed(g, x, a.at) /\ ~Resumed(l) /\ a.log = l
      /\ WithPsk("srv") = Psk(kx) /\ x.held = NoMsg
  BY <1>0, FullFacts DEF Echoes
<1>2. a.at = "CLIENT_KEY_EXCHANGE" /\ Signs(g, kx) /\ Comes("srv") /\ m.msg = "CERTIFICATE_VERIFY"
  BY <1>1 DEF SrvPlaced, Placed, CameAs
<1>3. /\ DOMAIN y = ContextFields /\ y.st = After(x.st) /\ Along(y, x) /\ y.asked \in BOOLEAN
      /\ y.log = Append(l, Hashed(m)) /\ y.held = x.held /\ y.neg = x.neg
  BY <1>0, HeardOn
<1>4. Hear("srv", Onward(Heard("srv"))) => Hear("srv", y)
  OBVIOUS
<1> HIDE DEF y
<1>5. y.st = "CLIENT_CHANGE_CIPHER_SPEC"
  BY <1>3, NextState
<1>6. wire["srv"] # <<>> /\ ~Noise(m) /\ KxIn(y.log) = kx /\ Resumed(y.log) = Resumed(l)
  <2>1. a.at \notin {None, "CLIENT_HELLO_AGAIN"}
    BY <1>2 DEF None
  <2>2. /\ wire["srv"] # <<>> /\ ~Noise(m)
        /\ \A i : KxIn(Append(l, i)) = kx /\ Resumed(Append(l, i)) = Resumed(l)
    BY <1>0, <1>2, <2>1, FullMeans
  <2> QED BY <1>3, <2>2
<1>7. ASSUME NEW t, Leads(g, "cli", a, m, t)
      PROVE  t # None /\ Placed(g, y, t) /\ SrvPlaced(g, y, t) /\ m.over = l
  <2> HIDE DEF x, l, m
  <2>1. t = "CERTIFICATE_VERIFY" /\ m.over = a.log
    BY <1>2, <1>7 DEF Leads, CliLeads
  <2> QED BY <1>1, <1>2, <1>5, <1>6, <2>1 DEF Placed, SrvPlaced, None
<1>8. m.over = l
  <2>1. \E t : Leads(g, "cli", a, m, t)
    BY <1>0, <1>6, ReadTells
  <2> QED BY <1>7, <2>1
<1>9. x.st # "CLIENT_KEY_EXCHANGE" /\ m.msg \notin {"FINISHED", "CHANGE_CIPHER_SPEC"}
      /\ m.msg # "CLIENT_KEY_EXCHANGE" /\ y.neg.master = x.neg.master /\ y.held = NoMsg
  BY <1>1, <1>2, <1>3
<1>10. Hear("srv", y) => Paced(g, "srv", a)
  BY <1>0, <1>1, <1>3, <1>6, <1>7, <1>9, FullHearPaced
<1> QED BY <1>4, <1>8, <1>10

-----------------------------------------------------------------------------
(* The end of a handshake.                                                  *)

Late == ToClient \cup ToServer

\* What is known at the end of a handshake.
LEMMA LateFacts ==
  ASSUME NEW g, NEW s \in Ends, NEW a, Ready(g, s, a), ssl[s].st \in Late
  PROVE  /\ Halfway(ssl[s]) /\ ssl[s].st \in Keyful
         /\ Agreed(g, s, ssl[s], a) /\ Placed(g, ssl[s], a.at)
         /\ ssl[s].held = NoMsg /\ ssl[s].resume = Resumed(ssl[s].log)
         /\ a.log = ssl[s].log /\ IsSequence(ssl[s].log) /\ Len(ssl[s].log) >= 2
<1>1. Halfway(ssl[s]) /\ Stands(g, s, ssl[s], a) /\ ssl[s].st \in Keyful
  BY DEF Halfway, Late, ToClient, ToServer, Resting, Unasked, Ending, Ready, Keyful
<1>2. /\ Agreed(g, s, ssl[s], a) /\ Placed(g, ssl[s], a.at)
      /\ s = "cli" => CliPlaced(g, ssl[s], a.at)
      /\ s = "srv" => ssl[s].held = NoMsg
      /\ a.log = ssl[s].log
  BY <1>1, MidFacts
<1>3. ssl[s].held = NoMsg
  BY <1>2 DEF CliPlaced, Late, ToClient, ToServer, Ends
<1>4. IsSequence(ssl[s].log) /\ Len(ssl[s].log) >= 2
  BY <1>2 DEF Agreed
<1>5. ssl[s].resume \in BOOLEAN /\ Resumed(ssl[s].log) \in BOOLEAN
  BY ReadyFacts DEF Resumed
<1>6. ssl[s].resume <=> Resumed(ssl[s].log)
  BY <1>2, <1>3 DEF Agreed, Late, ToClient, ToServer, NoMsg
<1> QED BY <1>1, <1>2, <1>3, <1>4, <1>5, <1>6

\* The context y of s at b comes after x at a, at the end of a handshake.
LateStep(g, s, x, a, y, b) ==
  /\ y.st \in Late /\ y.resume = x.resume /\ y.cr = x.cr /\ y.sr = x.sr
  /\ y.neg.suite = x.neg.suite /\ y.neg.master = x.neg.master
  /\ y.neg.id = x.neg.id \/ (s = "cli" /\ y.neg.id = 0)
  /\ y.held = NoMsg /\ y.asked \in BOOLEAN /\ y.due \in BOOLEAN
  /\ y.due = x.due \/ (~y.due /\ (y.resume \/ y.st \in ToServer))
  /\ x.st \in ToServer /\ y.st \in ToClient => y.resume
  /\ b.log = y.log /\ Longer(y.log, x.log) /\ b.pms = a.pms
  /\ Placed(g, y, b.at)

\* A handler of the end of a handshake that keeps to it stays in step with the script.
LEMMA LatePaced ==
  ASSUME NEW g, NEW s \in Ends, NEW a, Ready(g, s, a), ssl[s].st \in Late, NEW b,
         LateStep(g, s, ssl[s], a, ssl'[s], b), Carries(g, s, a, b)
  PROVE  Paced(g, s, a)
<1> DEFINE x == ssl[s]
           y == ssl'[s]
<1>1. /\ Agreed(g, s, x, a) /\ x.st \in Keyful /\ x.held = NoMsg /\ x.st \in Late
      /\ x.resume = Resumed(x.log) /\ IsSequence(x.log) /\ Len(x.log) >= 2
  BY LateFacts
<1>2. /\ x.resume \in BOOLEAN
      /\ x.resume => OldTicket(g.saved) \/ x.neg.master = g.saved.master
  BY DEF Ready, Stands
<1>3. LateStep(g, s, x, a, y, b)
  OBVIOUS
<1> HIDE DEF x, y
<1>4. KxIn(y.log) = KxIn(x.log) /\ Resumed(y.log) = Resumed(x.log)
      /\ IsSequence(y.log) /\ Len(y.log) >= 2 /\ y.log[1] = x.log[1] /\ y.log[2] = x.log[2]
  BY <1>1, <1>3, LogKept DEF LateStep, Longer
<1>5. Agreed(g, s, y, b)
  <2>1. /\ b.log = y.log /\ y.cr = y.log[1].rnd /\ y.sr = y.log[2].rnd
        /\ y.neg.suite = y.log[2].suite /\ (y.resume => Resumed(y.log))
        /\ ~(~y.resume /\ Resumed(y.log))
    BY <1>1, <1>2, <1>3, <1>4 DEF Agreed, LateStep
  <2>2. ~y.resume /\ (s = "srv" \/ y.neg.id # 0) => y.neg.id = y.log[2].id
    BY <1>1, <1>3, <1>4, "cli" # "srv" DEF Agreed, LateStep
  <2>3. y.due => y.log[2].tickets
    BY <1>1, <1>3, <1>4 DEF Agreed, LateStep
  <2>4. ~y.resume /\ y.st \notin {"SERVER_CHANGE_CIPHER_SPEC", "SERVER_FINISHED"} =>
          y.due = y.log[2].tickets
    <3>1. SUFFICES ASSUME ~y.resume, y.st \in ToClient PROVE y.due = y.log[2].tickets
      BY <1>3 DEF LateStep, Late, ToServer
    <3>2. x.st \in ToClient /\ y.due = x.due /\ ~x.resume
      BY <1>1, <1>3, <3>1 DEF LateStep, Late, ToClient, ToServer
    <3>3. x.due = x.log[2].tickets
      BY <1>1, <3>2 DEF Agreed, ToClient
    <3> QED BY <1>4, <3>2, <3>3
  <2>5. ~y.resume /\ y.st \in Keyful =>
          y.neg.master = <<b.pms, IF Psk(KxIn(y.log)) THEN g.psk[s] ELSE 0, y.cr, y.sr>>
    BY <1>1, <1>3, <1>4 DEF Agreed, LateStep
  <2> QED BY <1>4, <2>1, <2>2, <2>3, <2>4, <2>5 DEF Agreed
<1>6. Placed(g, y, b.at) /\ CliPlaced(g, y, b.at) /\ SrvPlaced(g, y, b.at)
  BY <1>3 DEF LateStep, CliPlaced, SrvPlaced, Late, ToClient, ToServer
<1>7. Stands(g, s, y, b) /\ y.asked \in BOOLEAN
  <2>1. y.st \notin Resting \cup {"SERVER_HELLO"}
    BY <1>3 DEF LateStep, Late, ToClient, ToServer, Resting, Unasked, Ending
  <2>2. /\ y.asked \in BOOLEAN /\ y.resume \in BOOLEAN /\ y.due \in BOOLEAN /\ y.held = NoMsg
        /\ y.resume => OldTicket(g.saved) \/ y.neg.master = g.saved.master
    BY <1>2, <1>3 DEF LateStep
  <2> QED BY <1>5, <1>6, <2>1, <2>2 DEF Stands
<1> QED BY <1>7, CarriedPaced DEF y

\* The handshake is over for s.
LEMMA OverPaced ==
  ASSUME NEW g, NEW s \in Ends, NEW a, Ready(g, s, a),
         ssl[s].st \in Late \cup Ending,
         ssl'[s].st \in Ending \cup {"HANDSHAKE_OVER"}, ssl'[s].held = NoMsg,
         ssl'[s].asked \in BOOLEAN, ssl'[s].resume \in BOOLEAN, ssl'[s].due \in BOOLEAN,
         ssl'[s].resume => ssl[s].resume /\ ssl'[s].neg.master = ssl[s].neg.master,
         Carries(g, s, a, Idle(None))
  PROVE  Paced(g, s, a)
<1>1. ssl[s].resume => OldTicket(g.saved) \/ ssl[s].neg.master = g.saved.master
  BY DEF Ready, Stands
<1>2. ssl'[s].st \in Resting /\ ssl'[s].st \notin Unasked /\ ssl'[s].st # "SERVER_HELLO"
  BY DEF Resting, Unasked, Ending
<1>3. Settled(g, s, ssl'[s], Idle(None))
  BY <1>2 DEF Settled
<1>4. Stands(g, s, ssl'[s], Idle(None))
  BY <1>1, <1>2, <1>3 DEF Stands
<1> QED BY <1>4, CarriedPaced

\* The server's session ticket is written.
LEMMA TicketSaid ==
  ASSUME NEW g, NEW a, Ready(g, "srv", a), WriteNewSessionTicket
  PROVE  Paced(g, "srv", a)
<1> DEFINE x == ssl["srv"]
           l == x.log
           z == ssl'["srv"]
           y == [x EXCEPT !.due = FALSE]
           m == [msg |-> "NEW_SESSION_TICKET", ticket |-> [key |-> boot, state |-> x.neg]]
           r == [keys |-> y.out, m |-> m]
           t == "NEW_SESSION_TICKET"
           b == Onto(a, r, t)
<1>0. "srv" \in Ends /\ "cli" = Peer("srv") /\ "cli" # "srv"
  BY Peers
<1>1. x.st = "SERVER_CHANGE_CIPHER_SPEC" /\ x.due /\ Say("srv", y, m) /\ x.st \in Late
  BY DEF WriteNewSessionTicket, At, Late, ToServer
<1>2. /\ Agreed(g, "srv", x, a) /\ Placed(g, x, a.at) /\ x.held = NoMsg /\ x.resume = Resumed(l)
      /\ a.log = l /\ IsSequence(l) /\ Len(l) >= 2
  BY <1>0, <1>1, LateFacts
<1>3. Shapes /\ DOMAIN x = ContextFields /\ x.asked \in BOOLEAN /\ x.due \in BOOLEAN
  BY <1>0, ReadyFacts
<1>4. /\ DOMAIN y = ContextFields /\ y.st = x.st /\ y.resume = x.resume /\ y.cr = x.cr
      /\ y.sr = x.sr /\ y.neg = x.neg /\ y.held = NoMsg /\ y.asked = x.asked /\ ~y.due
      /\ y.due \in BOOLEAN /\ y.log = l
  BY <1>2, <1>3 DEF ContextFields
<1>5. m.msg = t /\ m.msg \in HandshakeMessages \ {"HELLO_REQUEST"} /\ r.m = m /\ t # None
  BY DEF HandshakeMessages, None
<1> HIDE DEF y, m
<1>6. /\ Along(z, y) /\ z.st = y.st /\ z.neg = y.neg /\ z.held = y.held /\ z.asked = y.asked
      /\ z.log = (IF m.msg \in HandshakeMessages \ {"HELLO_REQUEST"}
                  THEN Append(y.log, Hashed(m)) ELSE y.log)
      /\ wire'["srv"] = wire["srv"] /\ wire'["cli"] = Append(wire["cli"], r)
  BY <1>0, <1>1, <1>3, <1>4, StepParts
<1> HIDE DEF r, t
<1>7. b.at = t /\ b.log = Append(l, Hashed(m)) /\ b.pms = a.pms
  <2>1. m.msg # "CHANGE_CIPHER_SPEC" /\ m.msg # "CLIENT_KEY_EXCHANGE"
    BY <1>5 DEF t
  <2> QED BY <1>2, <1>5, <2>1, OntoMessage
<1>8. Leads(g, "srv", a, m, t)
  <2>1. l[2].tickets /\ a.at = IF Resumed(l) THEN "SERVER_HELLO" ELSE "CLIENT_FINISHED"
    BY <1>1, <1>2 DEF Agreed, Placed
  <2> QED BY <1>0, <1>2, <1>5, <2>1 DEF Leads, SrvLeads, t
<1>9. Carries(g, "srv", a, b)
  <2>1. Tells(g, "srv", a, r, b)
    BY <1>5, <1>8 DEF Tells, t
  <2> QED BY <1>0, <1>6, <2>1 DEF Carries
<1> HIDE DEF b
<1>10. LateStep(g, "srv", x, a, z, b)
  <2>1. z.log = Append(l, Hashed(m)) /\ b.log = z.log /\ Longer(z.log, x.log)
    BY <1>4, <1>5, <1>6, <1>7 DEF Longer, l
  <2>2. KxIn(z.log) = KxIn(l) /\ Resumed(z.log) = Resumed(l) /\ z.log[2] = l[2]
    <3>1. \E i : z.log = Append(l, i)
      BY <2>1
    <3> QED BY <1>2, <3>1, LogKept DEF l
  <2>3. z.st = "SERVER_CHANGE_CIPHER_SPEC" /\ ~z.due /\ b.at = "NEW_SESSION_TICKET"
    BY <1>1, <1>4, <1>6, <1>7 DEF Along, t
  <2>4. z.log[2].tickets
    BY <1>1, <1>2, <2>2 DEF Agreed
  <2>5. Placed(g, z, b.at)
    BY <2>3, <2>4 DEF Placed
  <2> HIDE DEF x, z, l
  <2>6. /\ z.resume = x.resume /\ z.cr = x.cr /\ z.sr = x.sr /\ z.neg = x.neg
        /\ z.held = NoMsg /\ z.asked \in BOOLEAN /\ z.due \in BOOLEAN
    BY <1>3, <1>4, <1>6 DEF Along
  <2> QED BY <1>7, <2>1, <2>3, <2>5, <2>6 DEF LateStep, Late, ToServer, ToClient
<1> QED BY <1>0, <1>1, <1>9, <1>10, LatePaced DEF x, z

\* It is read.
LEMMA TicketHeard ==
  ASSUME NEW g, NEW a, Ready(g, "cli", a), ParseNewSessionTicket
  PROVE  Paced(g, "cli", a)
<1> DEFINE x == ssl["cli"]
           l == x.log
           m == Msg("cli")
           h == Heard("cli")
           y == [h EXCEPT !.due = FALSE, !.neg.id = 0, !.neg.ticket = m.ticket]
           r == Head(wire["cli"])
<1>0. "cli" \in Ends /\ "srv" = Peer("cli") /\ "cli" # "srv"
  BY Peers
<1>1. /\ x.st = "SERVER_CHANGE_CIPHER_SPEC" /\ x.due /\ Hear("cli", y) /\ x.st \in Late
      /\ m.msg = "NEW_SESSION_TICKET" /\ wire["cli"] # <<>> /\ r.m = m
  BY DEF ParseNewSessionTicket, At, Late, ToServer, CameAs, Comes, Msg
<1>2. /\ Agreed(g, "cli", x, a) /\ Placed(g, x, a.at) /\ x.held = NoMsg /\ x.resume = Resumed(l)
      /\ a.log = l /\ IsSequence(l) /\ Len(l) >= 2
  BY <1>0, <1>1, LateFacts
<1>3. Shapes /\ x.asked \in BOOLEAN /\ x.due \in BOOLEAN
  BY <1>0, ReadyFacts
<1>4. /\ Along(h, x) /\ h.st = x.st /\ DOMAIN h = ContextFields
      /\ DOMAIN h.neg = SessionFields /\ h.neg = x.neg
      /\ h.log = Append(l, Hashed(m)) /\ h.held = x.held /\ h.asked = x.asked
  BY <1>0, ReadyFacts
<1> HIDE DEF h
<1>5. /\ DOMAIN y = ContextFields /\ y.st = x.st /\ y.resume = x.resume /\ y.cr = x.cr
      /\ y.sr = x.sr /\ y.neg.suite = x.neg.suite /\ y.neg.master = x.neg.master
      /\ y.neg.id = 0 /\ y.held = NoMsg /\ y.asked = x.asked /\ ~y.due
      /\ y.due \in BOOLEAN /\ y.log = Append(l, Hashed(m))
  BY <1>2, <1>4 DEF Along, ContextFields, SessionFields
<1> HIDE DEF y
<1>6. PICK t : Leads(g, "srv", a, m, t) /\ Goes(g, "srv", a, r, Onto(a, r, t))
  BY <1>0, <1>1, ReadTells DEF Noise
<1> DEFINE b == Onto(a, r, t)
<1>7. t = "NEW_SESSION_TICKET" /\ t # None
  BY <1>0, <1>1, <1>6 DEF Leads, SrvLeads, None
<1>8. b.at = t /\ b.log = Append(l, Hashed(m)) /\ b.pms = a.pms
  <2> HIDE DEF r, m
  <2> QED BY <1>1, <1>2, <1>7, OntoMessage
<1>9. ssl'["cli"] = y /\ Carries(g, "cli", a, b)
  BY <1>0, <1>1, <1>3, <1>5, <1>6, StepParts DEF Carries
<1> HIDE DEF b, r
<1>10. LateStep(g, "cli", x, a, y, b)
  <2>1. b.log = y.log /\ Longer(y.log, x.log)
    BY <1>5, <1>8 DEF Longer
  <2>2. KxIn(y.log) = KxIn(l) /\ Resumed(y.log) = Resumed(l) /\ y.log[2] = l[2]
    BY <1>2, <2>1, LogKept DEF Longer
  <2>3. y.log[2].tickets
    BY <1>1, <1>2, <2>2 DEF Agreed
  <2>4. Placed(g, y, b.at)
    BY <1>1, <1>5, <1>7, <1>8, <2>3 DEF Placed
  <2> HIDE DEF x, l
  <2> QED BY <1>1, <1>3, <1>5, <1>8, <2>1, <2>4 DEF LateStep, Late, ToServer, ToClient
<1> QED BY <1>0, <1>1, <1>9, <1>10, LatePaced

\* The change of the cipher is written.
LEMMA ChangeSaid ==
  ASSUME NEW g, NEW s \in Ends, NEW a, Ready(g, s, a), WriteChangeCipherSpec(s)
  PROVE  Paced(g, s, a)
<1> DEFINE x == ssl[s]
           l == x.log
           z == ssl'[s]
           y == Onward(x)
           m == [msg |-> "CHANGE_CIPHER_SPEC"]
           r == [keys |-> y.out, m |-> m]
           t == Change(s)
           b == Onto(a, r, t)
<1>0. "cli" # "srv" /\ (s = "cli" \/ s = "srv")
  BY DEF Ends
<1>1. /\ x.st = Change(s) /\ Say(s, y, m) /\ x.st \in Late
      /\ ~(s = "srv" /\ x.due)
  BY DEF WriteChangeCipherSpec, At, Late, ToServer, ToClient, Change, Ends
<1>2. /\ Agreed(g, s, x, a) /\ Placed(g, x, a.at) /\ x.held = NoMsg /\ x.resume = Resumed(l)
      /\ a.log = l /\ IsSequence(l) /\ Len(l) >= 2
  BY <1>1, LateFacts
<1>3. Shapes /\ DOMAIN x = ContextFields /\ x.asked \in BOOLEAN /\ x.due \in BOOLEAN
  BY ReadyFacts
<1>4. /\ DOMAIN y = ContextFields /\ y.st = After(x.st) /\ Along(y, x) /\ y.neg = x.neg
      /\ y.held = NoMsg /\ y.asked = x.asked /\ y.log = l
  BY <1>2, <1>3, OnwardParts
<1>5. /\ m.msg = "CHANGE_CIPHER_SPEC" /\ m.msg \notin HandshakeMessages /\ r.m = m
      /\ t # None
  BY <1>0 DEF HandshakeMessages, None, Change
<1> HIDE DEF y, m
<1>6. /\ Along(z, y) /\ z.st = y.st /\ z.neg = y.neg /\ z.held = y.held /\ z.asked = y.asked
      /\ z.log = (IF m.msg \in HandshakeMessages \ {"HELLO_REQUEST"}
                  THEN Append(y.log, Hashed(m)) ELSE y.log)
      /\ wire'[s] = wire[s] /\ wire'[Peer(s)] = Append(wire[Peer(s)], r)
  BY <1>1, <1>3, <1>4, StepParts
<1> HIDE DEF r, t
<1>7. b.at = t /\ b.log = l /\ b.pms = a.pms
  BY <1>2, <1>5, OntoFields
<1>8. Leads(g, s, a, m, t)
  <2>1. CASE s = "cli"
    BY <1>0, <1>1, <1>2, <1>5, <2>1 DEF Leads, CliLeads, t, Change, Placed
  <2>2. CASE s = "srv"
    <3>1. a.at = IF l[2].tickets THEN "NEW_SESSION_TICKET"
                 ELSE IF Resumed(l) THEN "SERVER_HELLO" ELSE "CLIENT_FINISHED"
      BY <1>0, <1>1, <1>2, <2>2 DEF Placed, Change
    <3> QED BY <1>0, <1>1, <1>2, <1>5, <2>2, <3>1 DEF Leads, SrvLeads, t, Change
  <2> QED BY <1>0, <2>1, <2>2
<1>9. Carries(g, s, a, b)
  <2>1. Tells(g, s, a, r, b)
    BY <1>5, <1>8 DEF Tells
  <2> QED BY <1>6, <2>1 DEF Carries
<1> HIDE DEF b
<1>10. LateStep(g, s, x, a, z, b)
  <2>1. z.log = l /\ b.log = z.log /\ Longer(z.log, x.log)
    BY <1>4, <1>5, <1>6, <1>7 DEF Longer
  <2>2. b.at = Change(s)
    BY <1>7 DEF t
  <2>3. z.st = Finished(s)
    BY <1>0, <1>1, <1>4, <1>6, NextState DEF Change, Finished
  <2>4. Placed(g, z, b.at)
    BY <1>0, <2>2, <2>3 DEF Placed, Change, Finished
  <2>5. x.st \in ToServer /\ z.st \in ToClient => z.resume
    BY <1>0, <1>1, <2>3 DEF Change, Finished, ToServer, ToClient
  <2>6. z.st \in Late
    BY <1>0, <2>3 DEF Finished, Late, ToServer, ToClient
  <2> HIDE DEF x, z, l
  <2>7. /\ z.resume = x.resume /\ z.cr = x.cr /\ z.sr = x.sr /\ z.neg = x.neg /\ z.due = x.due
        /\ z.held = NoMsg /\ z.asked \in BOOLEAN /\ z.due \in BOOLEAN
    BY <1>3, <1>4, <1>6 DEF Along
  <2> QED BY <1>7, <2>1, <2>4, <2>5, <2>6, <2>7 DEF LateStep
<1> QED BY <1>1, <1>9, <1>10, LatePaced DEF x, z

\* It is read.
LEMMA ChangeHeard ==
  ASSUME NEW g, NEW s \in Ends, NEW a, Ready(g, s, a), ParseChangeCipherSpec(s)
  PROVE  Paced(g, s, a)
<1> DEFINE x == ssl[s]
           l == x.log
           y == Onward(x)
           m == Msg(s)
           r == Head(wire[s])
           p == Peer(s)
<1>0. /\ "cli" # "srv" /\ (s = "cli" \/ s = "srv") /\ p \in Ends
      /\ (p = "cli" \/ p = "srv") /\ (s = "cli" <=> p = "srv")
  BY Peers DEF Ends
<1>1. /\ x.st = Change(p) /\ Hear(s, y) /\ x.st \in Late
      /\ ~(s = "cli" /\ x.due)
      /\ m.msg = "CHANGE_CIPHER_SPEC" /\ wire[s] # <<>> /\ r.m = m
  BY <1>0 DEF ParseChangeCipherSpec, At, Late, ToServer, ToClient, Change, CameAs, Comes, Msg
<1>2. /\ Agreed(g, s, x, a) /\ Placed(g, x, a.at) /\ x.held = NoMsg /\ x.resume = Resumed(l)
      /\ a.log = l /\ IsSequence(l) /\ Len(l) >= 2
  BY <1>1, LateFacts
<1>3. Shapes /\ DOMAIN x = ContextFields /\ x.asked \in BOOLEAN /\ x.due \in BOOLEAN
  BY ReadyFacts
<1>4. /\ DOMAIN y = ContextFields /\ y.st = After(x.st) /\ Along(y, x) /\ y.neg = x.neg
      /\ y.held = NoMsg /\ y.asked = x.asked /\ y.log = l
  BY <1>2, <1>3, OnwardParts
<1> HIDE DEF y
<1>5. PICK t : Leads(g, p, a, m, t) /\ Goes(g, p, a, r, Onto(a, r, t))
  BY <1>1, ReadTells DEF Noise
<1> DEFINE b == Onto(a, r, t)
<1>6. t = Change(p) /\ t # None
  BY <1>0, <1>1, <1>5 DEF Leads, CliLeads, SrvLeads, Change, None
<1>7. b.at = t /\ b.log = l /\ b.pms = a.pms
  <2> HIDE DEF r, m
  <2> QED BY <1>1, <1>2, <1>6, OntoFields
<1>8. ssl'[s] = y /\ Carries(g, s, a, b)
  BY <1>1, <1>3, <1>4, <1>5, StepParts DEF Carries
<1> HIDE DEF b, r, m
<1>10. LateStep(g, s, x, a, y, b)
  <2>1. b.log = y.log /\ Longer(y.log, x.log)
    BY <1>4, <1>7 DEF Longer
  <2>3. y.st = Finished(p)
    BY <1>0, <1>1, <1>4, NextState DEF Change, Finished
  <2>4. Placed(g, y, b.at)
    BY <1>0, <1>6, <1>7, <2>3 DEF Placed, Change, Finished
  <2>5. x.st \in ToServer /\ y.st \in ToClient => y.resume
    BY <1>0, <1>1, <2>3 DEF Change, Finished, ToServer, ToClient
  <2>6. y.st \in Late
    BY <1>0, <2>3 DEF Finished, Late, ToServer, ToClient
  <2> HIDE DEF x, l
  <2>7. /\ y.resume = x.resume /\ y.cr = x.cr /\ y.sr = x.sr /\ y.neg = x.neg /\ y.due = x.due
        /\ y.held = NoMsg /\ y.asked \in BOOLEAN /\ y.due \in BOOLEAN
    BY <1>3, <1>4 DEF Along
  <2> QED BY <1>7, <2>1, <2>4, <2>5, <2>6, <2>7 DEF LateStep
<1> QED BY <1>1, <1>8, <1>10, LatePaced

\* The Finished of an end is written.
LEMMA FinishedSaid ==
  ASSUME NEW g, NEW s \in Ends, NEW a, Ready(g, s, a), WriteFinished(s)
  PROVE  Paced(g, s, a)
<1> DEFINE x == ssl[s]
           l == x.log
           z == ssl'[s]
           v == Verify(s, x)
           k == KeysOf(s, x)
           w == [x EXCEPT !.own = v, !.out = k]
           y == Ended(s, w, TRUE)
           m == [msg |-> "FINISHED", verify |-> v]
           r == [keys |-> y.out, m |-> m]
           kx == KxIn(l)
<1>0. "cli" # "srv" /\ (s = "cli" \/ s = "srv")
  BY DEF Ends
<1>1. x.st = Finished(s) /\ Say(s, y, m) /\ x.st \in Late
  BY DEF WriteFinished, At, Late, ToServer, ToClient, Finished, Ends
<1>2. /\ Agreed(g, s, x, a) /\ Placed(g, x, a.at) /\ x.held = NoMsg /\ x.resume = Resumed(l)
      /\ a.log = l /\ IsSequence(l) /\ Len(l) >= 2 /\ x.st \in Keyful
  BY <1>1, LateFacts
<1>3. /\ Shapes /\ DOMAIN x = ContextFields /\ x.asked \in BOOLEAN /\ x.due \in BOOLEAN
      /\ x.resume \in BOOLEAN /\ g.psk = setting.psk
  BY ReadyFacts
<1>4. v = [from |-> s, master |-> x.neg.master, log |-> l]
      /\ k = <<s, l[2].suite, x.neg.master, l[1].rnd, l[2].rnd>>
  BY <1>2 DEF Verify, KeysOf, Agreed
<1> HIDE DEF v, k
<1>5. /\ DOMAIN w = ContextFields /\ w.st = x.st /\ w.resume = x.resume /\ w.cr = x.cr
      /\ w.sr = x.sr /\ w.due = x.due /\ w.neg = x.neg /\ w.held = NoMsg /\ w.asked = x.asked
      /\ w.log = l /\ w.out = k
  BY <1>2, <1>3 DEF ContextFields
<1> HIDE DEF w
<1>6. /\ DOMAIN y = ContextFields /\ y.resume = x.resume /\ y.cr = x.cr
      /\ y.sr = x.sr /\ y.due = x.due /\ y.neg = x.neg /\ y.held = NoMsg /\ y.asked = x.asked
      /\ y.log = l /\ y.out = k
      /\ y.st = IF ~x.resume THEN After(x.st)
                ELSE IF s = "cli" THEN "HANDSHAKE_WRAPUP" ELSE "CLIENT_CHANGE_CIPHER_SPEC"
  BY <1>0, <1>5 DEF Ended, Onward, ContextFields
<1>7. m.msg = "FINISHED" /\ m.verify = v /\ m.msg \in HandshakeMessages \ {"HELLO_REQUEST"}
      /\ r.m = m /\ r.keys = k
  BY <1>6 DEF HandshakeMessages
<1> HIDE DEF y, m
<1>8. /\ Along(z, y) /\ z.st = y.st /\ z.neg = y.neg /\ z.held = y.held /\ z.asked = y.asked
      /\ z.log = (IF m.msg \in HandshakeMessages \ {"HELLO_REQUEST"}
                  THEN Append(y.log, Hashed(m)) ELSE y.log)
      /\ wire'[s] = wire[s] /\ wire'[Peer(s)] = Append(wire[Peer(s)], r)
  BY <1>1, <1>3, <1>6, StepParts
<1> HIDE DEF r
<1>9. Sealed(g, s, a, r)
  <2>1. v.master = x.neg.master /\ r.m.verify = v
    BY <1>4, <1>7
  <2>2. ~Resumed(l) => x.neg.master = <<a.pms, IF Psk(kx) THEN g.psk[s] ELSE 0,
                                        l[1].rnd, l[2].rnd>>
    BY <1>2 DEF Agreed
  <2>3. Resumed(l) => OldTicket(g.saved) \/ x.neg.master = g.saved.master
    BY <1>2 DEF Ready, Stands
  <2> HIDE DEF x, l
  <2> QED BY <1>2, <1>4, <1>7, <2>1, <2>2, <2>3 DEF Sealed
<1>10. z.log = Append(l, Hashed(m)) /\ z.resume = x.resume /\ z.due = x.due /\ z.neg = x.neg
       /\ z.held = NoMsg /\ z.asked = x.asked /\ z.cr = x.cr /\ z.sr = x.sr /\ z.st = y.st
  BY <1>6, <1>7, <1>8 DEF Along
<1>11. CASE Resumed(l) = (s = "cli")
  <2> DEFINE b == Onto(a, r, None)
  <2>1. Leads(g, s, a, m, None)
    <3>1. a.at = Change(s)
      BY <1>0, <1>1, <1>2 DEF Placed, Finished, Change
    <3> QED BY <1>0, <1>2, <1>7, <1>11, <3>1 DEF Leads, CliLeads, SrvLeads, Change
  <2>2. b = Idle(None) /\ Tells(g, s, a, r, b)
    BY <1>7, <1>9, <2>1 DEF Onto, Tells
  <2>3. Carries(g, s, a, Idle(None))
    BY <1>8, <2>2 DEF Carries
  <2>4. z.st \in Ending
    BY <1>0, <1>1, <1>2, <1>3, <1>6, <1>10, <1>11, NextState DEF Finished, Ending
  <2> QED BY <1>1, <1>3, <1>10, <2>3, <2>4, OverPaced
<1>12. CASE Resumed(l) # (s = "cli")
  <2> DEFINE t == Finished(s)
             b == Onto(a, r, t)
  <2>0. Resumed(l) \in BOOLEAN /\ t # None
    BY <1>0 DEF Resumed, Finished, None
  <2>1. Leads(g, s, a, m, t)
    <3>1. a.at = Change(s)
      BY <1>0, <1>1, <1>2 DEF Placed, Finished, Change
    <3> QED BY <1>0, <1>2, <1>7, <1>12, <2>0, <3>1 DEF Leads, CliLeads, SrvLeads, Change, Finished
  <2> HIDE DEF t
  <2>2. Tells(g, s, a, r, b)
    BY <1>7, <1>9, <2>1 DEF Tells
  <2>3. Carries(g, s, a, b)
    BY <1>8, <2>2 DEF Carries
  <2>4. b.at = t /\ b.log = Append(l, Hashed(m)) /\ b.pms = a.pms
    BY <1>2, <1>7, <2>0, OntoMessage
  <2> HIDE DEF b
  <2>5. LateStep(g, s, x, a, z, b)
    <3>1. b.log = z.log /\ Longer(z.log, x.log)
      BY <1>10, <2>4 DEF Longer
    <3>2. KxIn(z.log) = KxIn(l) /\ Resumed(z.log) = Resumed(l) /\ z.log[2] = l[2]
      BY <1>2, <3>1, LogKept DEF Longer
    <3>3. z.st = IF s = "cli" THEN "SERVER_CHANGE_CIPHER_SPEC" ELSE "CLIENT_CHANGE_CIPHER_SPEC"
      BY <1>0, <1>1, <1>2, <1>3, <1>6, <1>10, <1>12, <2>0, NextState DEF Finished
    <3>4. z.st \in Late /\ (s = "srv" => z.resume) /\ (s = "cli" => z.st \in ToServer)
      BY <1>0, <1>2, <1>3, <1>10, <1>12, <2>0, <3>3 DEF Late, ToServer, ToClient
    <3>5. s = "cli" => ~Resumed(l) /\ (l[2].tickets => x.due)
      BY <1>0, <1>1, <1>2, <1>3, <1>12, <2>0 DEF Agreed, Finished
    <3>6. Placed(g, z, b.at)
      BY <1>0, <1>10, <1>12, <2>0, <2>4, <3>2, <3>3, <3>5 DEF Placed, Finished, t
    <3>7. x.st \in ToServer /\ z.st \in ToClient => z.resume
      BY <1>0, <3>4 DEF ToServer, ToClient
    <3> HIDE DEF x, l, z
    <3> QED BY <1>3, <1>10, <2>4, <3>1, <3>4, <3>6, <3>7 DEF LateStep
  <2> QED BY <1>1, <2>3, <2>5, LatePaced DEF x, z
<1> QED BY <1>11, <1>12

\* It is read.
LEMMA FinishedHeard ==
  ASSUME NEW g, NEW s \in Ends, NEW a, Ready(g, s, a), ParseFinished(s)
  PROVE  Paced(g, s, a)
<1> DEFINE x == ssl[s]
           l == x.log
           p == Peer(s)
           k == KeysOf(p, x)
           v == Remembered(s)
           w == [Heard(s) EXCEPT !.in = k, !.peer = v]
           y == Ended(s, w, FALSE)
           m == Msg(s)
           r == Head(wire[s])
<1>0. /\ "cli" # "srv" /\ (s = "cli" \/ s = "srv") /\ p \in Ends
      /\ (p = "cli" \/ p = "srv") /\ (s = "cli" <=> p = "srv")
  BY Peers DEF Ends
<1>1. /\ x.st = Finished(p) /\ x.st \in Late /\ m.msg = "FINISHED" /\ wire[s] # <<>>
      /\ r.m = m /\ (Hear(s, y) \/ Fail(s, "FINISHED"))
  BY <1>0 DEF ParseFinished, At, Late, ToServer, ToClient, Finished, CameAs, Comes, Msg
<1>2. /\ Agreed(g, s, x, a) /\ Placed(g, x, a.at) /\ x.held = NoMsg /\ x.resume = Resumed(l)
      /\ a.log = l /\ IsSequence(l) /\ Len(l) >= 2 /\ x.st \in Keyful
  BY <1>1, LateFacts
<1>3. /\ Shapes /\ x.asked \in BOOLEAN /\ x.due \in BOOLEAN /\ x.resume \in BOOLEAN
  BY ReadyFacts
<1>4. CASE Fail(s, "FINISHED")
  BY <1>1, <1>4, FailPaced
<1>5. CASE Hear(s, y)
  <2>1. /\ DOMAIN w = ContextFields /\ w.st = x.st /\ w.resume = x.resume /\ w.cr = x.cr
        /\ w.sr = x.sr /\ w.due = x.due /\ w.neg = x.neg /\ w.held = NoMsg /\ w.asked = x.asked
        /\ w.log = Append(l, Hashed(m))
    <3> DEFINE h == Heard(s)
    <3>1. /\ Along(h, x) /\ h.st = x.st /\ DOMAIN h = ContextFields /\ h.neg = x.neg
          /\ h.log = Append(l, Hashed(m)) /\ h.held = x.held /\ h.asked = x.asked
      BY ReadyFacts
    <3> HIDE DEF h, k, v, x, l
    <3>2. w = [h EXCEPT !.in = k, !.peer = v]
      BY DEF h
    <3> QED BY <1>2, <3>1, <3>2 DEF ContextFields, Along
  <2> HIDE DEF w
  <2>2. /\ DOMAIN y = ContextFields /\ y.resume = x.resume /\ y.cr = x.cr
        /\ y.sr = x.sr /\ y.due = x.due /\ y.neg = x.neg /\ y.held = NoMsg /\ y.asked = x.asked
        /\ y.log = Append(l, Hashed(m))
        /\ y.st = IF ~x.resume THEN After(x.st)
                  ELSE IF s = "cli" THEN "CLIENT_CHANGE_CIPHER_SPEC" ELSE "HANDSHAKE_WRAPUP"
    BY <1>0, <2>1 DEF Ended, Onward, ContextFields
  <2> HIDE DEF y
  <2>3. PICK t : Leads(g, p, a, m, t) /\ Goes(g, p, a, r, Onto(a, r, t))
    BY <1>1, ReadTells DEF Noise
  <2> DEFINE b == Onto(a, r, t)
  <2>4. ssl'[s] = y /\ Carries(g, s, a, b)
    BY <1>1, <1>3, <1>5, <2>2, <2>3, StepParts DEF Carries
  <2>5. t = IF Resumed(l) = (p = "cli") THEN None ELSE Finished(p)
    BY <1>0, <1>1, <1>2, <2>3 DEF Leads, CliLeads, SrvLeads, Finished, Resumed
  <2>6. CASE t = None
    <3>1. Carries(g, s, a, Idle(None))
      BY <2>4, <2>6 DEF Onto
    <3>2. Resumed(l) = (p = "cli")
      BY <1>0, <2>5, <2>6 DEF Finished, None
    <3>3. y.st \in Ending
      BY <1>0, <1>1, <1>2, <1>3, <2>2, <3>2, NextState DEF Finished, Ending
    <3> QED BY <1>1, <1>3, <2>2, <2>4, <3>1, <3>3, OverPaced
  <2>7. CASE t # None
    <3>1. t = Finished(p) /\ Resumed(l) # (p = "cli") /\ Resumed(l) \in BOOLEAN
      BY <2>5, <2>7 DEF Resumed
    <3>2. b.at = t /\ b.log = Append(l, Hashed(m)) /\ b.pms = a.pms
      <4> HIDE DEF r, m
      <4> QED BY <1>1, <1>2, <2>7, OntoMessage
    <3> HIDE DEF b, r, m
    <3>3. LateStep(g, s, x, a, y, b)
      <4>1. b.log = y.log /\ Longer(y.log, x.log)
        BY <2>2, <3>2 DEF Longer
      <4>2. KxIn(y.log) = KxIn(l) /\ Resumed(y.log) = Resumed(l) /\ y.log[2] = l[2]
        BY <1>2, <4>1, LogKept DEF Longer
      <4>3. y.st = IF p = "cli" THEN "SERVER_CHANGE_CIPHER_SPEC" ELSE "CLIENT_CHANGE_CIPHER_SPEC"
        BY <1>0, <1>1, <1>2, <1>3, <2>2, <3>1, NextState DEF Finished
      <4>4. y.st \in Late /\ (p = "srv" => y.resume) /\ (p = "cli" => y.st \in ToServer)
        BY <1>0, <1>2, <1>3, <2>2, <3>1, <4>3 DEF Late, ToServer, ToClient
      <4>5. p = "cli" => ~Resumed(l) /\ (l[2].tickets => x.due)
        BY <1>0, <1>1, <1>2, <1>3, <3>1 DEF Agreed, Finished
      <4>6. Placed(g, y, b.at)
        BY <1>0, <2>2, <3>1, <3>2, <4>2, <4>3, <4>5 DEF Placed, Finished
      <4>7. x.st \in ToServer /\ y.st \in ToClient => y.resume
        BY <1>0, <4>4 DEF ToServer, ToClient
      <4> HIDE DEF x, l
      <4> QED BY <1>3, <2>2, <3>2, <4>1, <4>4, <4>6, <4>7 DEF LateStep
    <3> QED BY <1>1, <2>4, <3>3, LatePaced
  <2> QED BY <2>6, <2>7
<1> QED BY <1>1, <1>4, <1>5

\* What an end does after both.
LEMMA EndingPaced ==
  ASSUME NEW g, NEW s \in Ends, NEW a, Ready(g, s, a), FlushBuffers(s) \/ Wrapup(s)
  PROVE  Paced(g, s, a)
<1> DEFINE x == ssl[s]
<1>1. x.st \in Ending
  BY DEF FlushBuffers, Wrapup, At, Ending
<1>2. a = Idle(None) /\ x.held = NoMsg
  <2>1. x.st \in Resting /\ x.st \notin Unasked
    BY <1>1 DEF Resting, Ending, Unasked
  <2> QED BY <2>1 DEF Ready, Stands, Settled
<1>3. /\ Shapes /\ DOMAIN x = ContextFields /\ x.asked \in BOOLEAN /\ x.due \in BOOLEAN
      /\ x.resume \in BOOLEAN
  BY ReadyFacts
<1>4. ASSUME NEW y, DOMAIN y = ContextFields, Move(s, y), y.st \in Ending \cup {"HANDSHAKE_OVER"},
             y.held = NoMsg, y.asked = x.asked, y.resume \in BOOLEAN, y.due \in BOOLEAN,
             y.resume => x.resume /\ y.neg.master = x.neg.master
      PROVE  Paced(g, s, a)
  <2>1. ssl'[s] = y /\ Carries(g, s, a, Idle(None))
    BY <1>2, <1>3, <1>4, StepParts DEF Carries
  <2> QED BY <1>1, <1>3, <1>4, <2>1, OverPaced
<1>5. CASE FlushBuffers(s)
  <2> DEFINE y == Onward(x)
  <2>1. /\ DOMAIN y = ContextFields /\ y.st = After(x.st) /\ Along(y, x) /\ y.asked = x.asked
        /\ y.neg = x.neg /\ y.held = x.held
    BY <1>3, OnwardParts
  <2>2. Move(s, y) /\ x.st = "FLUSH_BUFFERS"
    BY <1>5 DEF FlushBuffers, At
  <2>3. y.st = "HANDSHAKE_WRAPUP"
    BY <2>1, <2>2, NextState
  <2> HIDE DEF y
  <2> QED BY <1>2, <1>3, <1>4, <2>1, <2>2, <2>3 DEF Along, Ending
<1>6. CASE Wrapup(s)
  <2> DEFINE d == [Fresh(x) EXCEPT !.sess = x.neg, !.st = "HANDSHAKE_OVER"]
             e == [d EXCEPT !.reneg = "DONE", !.seen = 0]
  <2>1. Move(s, d) \/ Move(s, e)
    BY <1>6 DEF Wrapup
  <2>2. /\ DOMAIN d = ContextFields /\ d.st = "HANDSHAKE_OVER" /\ d.asked = x.asked
        /\ d.held = x.held /\ ~d.resume /\ d.resume \in BOOLEAN /\ d.due \in BOOLEAN
    <3> DEFINE f == Fresh(x)
    <3>1. /\ DOMAIN f = ContextFields /\ f.asked = x.asked /\ f.held = x.held
          /\ f.resume = FALSE /\ f.due = FALSE
      BY <1>3 DEF Fresh, ContextFields
    <3> HIDE DEF f
    <3>2. d = [f EXCEPT !.sess = x.neg, !.st = "HANDSHAKE_OVER"]
      BY DEF f
    <3> HIDE DEF d
    <3> QED BY <3>1, <3>2 DEF ContextFields
  <2>3. /\ DOMAIN e = ContextFields /\ e.st = "HANDSHAKE_OVER" /\ e.asked = x.asked
        /\ e.held = x.held /\ ~e.resume /\ e.resume \in BOOLEAN /\ e.due \in BOOLEAN
    <3> HIDE DEF d
    <3> QED BY <2>2 DEF ContextFields
  <2> HIDE DEF d, e
  <2> QED BY <1>2, <1>4, <2>1, <2>2, <2>3
<1> QED BY <1>5, <1>6

-----------------------------------------------------------------------------
(* The hellos.                                                              *)

\* A handshake begins.
LEMMA BeginPaced ==
  ASSUME NEW g, NEW s \in Ends, NEW a, Ready(g, s, a), Begin(s)
  PROVE  Paced(g, s, a)
<1> DEFINE x == ssl[s]
           y == Onward(x)
<1>1. x.st = "HELLO_REQUEST" /\ Move(s, y)
  BY DEF Begin, At
<1>2. /\ Shapes /\ DOMAIN x = ContextFields /\ x.asked \in BOOLEAN /\ x.resume \in BOOLEAN
      /\ x.due \in BOOLEAN
  BY ReadyFacts
<1>3. /\ Along(y, x) /\ y.st = "CLIENT_HELLO" /\ y.neg = x.neg /\ y.held = x.held
      /\ y.asked = x.asked /\ y.reneg = x.reneg /\ y.log = x.log /\ DOMAIN y = ContextFields
  BY <1>1, <1>2, OnwardParts, NextState
<1>4. x.st \in Unasked /\ x.st \in Resting
  BY <1>1 DEF Unasked, Resting
<1>5. /\ Settled(g, s, x, a) /\ x.held = NoMsg
      /\ x.resume => OldTicket(g.saved) \/ x.neg.master = g.saved.master
  BY <1>4 DEF Ready, Stands
<1> HIDE DEF x, y
<1>6. Stands(g, s, y, a)
  <2>1. y.st \in Unasked /\ y.st \in Resting /\ y.st # "SERVER_HELLO"
    BY <1>3 DEF Unasked, Resting
  <2>2. Settled(g, s, y, a)
    BY <1>3, <1>4, <1>5, <2>1 DEF Settled, Along
  <2> QED BY <1>2, <1>3, <1>5, <2>1, <2>2 DEF Stands, Along
<1>7. ssl'[s] = y /\ Carries(g, s, a, a)
  BY <1>1, <1>2, <1>3, StepParts DEF Carries
<1> QED BY <1>2, <1>3, <1>6, <1>7, CarriedPaced

\* What goes into the log of a hello.
LEMMA HashedHello ==
  ASSUME NEW m
  PROVE  \A f \in DOMAIN m \ {"info", "over"} : Hashed(m)[f] = m[f]
BY DEF Hashed

\* A log that has the client's hello alone.
LEMMA LogBegins ==
  ASSUME NEW h
  PROVE  /\ IsSequence(Append(<<>>, h)) /\ Len(Append(<<>>, h)) = 1 /\ Append(<<>>, h)[1] = h
<1> DEFINE e == <<>>
<1>1. IsSequence(e) /\ Len(e) = 0
  BY DEF IsSequence
<1> HIDE DEF e
<1>2. IsSequence(Append(e, h)) /\ Len(Append(e, h)) = 1 /\ Append(e, h)[1] = h
  <2>1. /\ IsSequence(Append(e, h)) /\ Len(Append(e, h)) = Len(e) + 1
        /\ Append(e, h)[Len(e) + 1] = h
    BY <1>1, Appended
  <2>2. Len(e) + 1 = 1
    BY <1>1
  <2> QED BY <2>1, <2>2
<1> QED BY <1>2 DEF e

\* The client's hello is written.
LEMMA ClientHelloSaid ==
  ASSUME NEW g, NEW a, Ready(g, "cli", a), draws \in Nat, WriteClientHello
  PROVE  Paced(g, "cli", a)
<1> DEFINE x == ssl["cli"]
           id == OfferedId(x)
           w == [x EXCEPT !.cr = draws + 1, !.neg.id = IF id # 0 THEN id ELSE @]
           y == Onward(w)
           z == ssl'["cli"]
           ticket == IF setting.tickets["cli"] THEN x.neg.ticket ELSE NoTicket
           m == [msg |-> "CLIENT_HELLO", rnd |-> draws + 1, id |-> id, offer |-> setting.offer,
                 info |-> IF x.reneg = "INITIAL" THEN NoInfo ELSE x.own,
                 tickets |-> setting.tickets["cli"], ticket |-> ticket]
           r == [keys |-> y.out, m |-> m]
           h == Hashed(m)
           t == IF x.reneg = "INITIAL" THEN "CLIENT_HELLO" ELSE "CLIENT_HELLO_AGAIN"
           b == Onto(a, r, t)
<1>0. "cli" \in Ends /\ "srv" = Peer("cli") /\ "cli" # "srv"
  BY Peers
<1>1. x.st = "CLIENT_HELLO" /\ Say("cli", y, m)
  BY DEF WriteClientHello, At
<1>2. /\ Shapes /\ DOMAIN x = ContextFields /\ DOMAIN x.neg = SessionFields
      /\ x.asked \in BOOLEAN /\ x.resume \in BOOLEAN /\ x.due \in BOOLEAN
  BY <1>0, ReadyFacts
<1>3. /\ a = Idle(IF x.reneg = "INITIAL" THEN New ELSE None) /\ x.log = <<>>
      /\ x.resume => x.reneg = "INITIAL" /\ x.neg = g.saved
      /\ x.held = NoMsg
      /\ x.resume => OldTicket(g.saved) \/ x.neg.master = g.saved.master
  <2>1. x.st \in Unasked /\ x.st \in Resting
    BY <1>1 DEF Unasked, Resting
  <2> QED BY <2>1 DEF Ready, Stands, Settled
<1>4. /\ DOMAIN w = ContextFields /\ w.st = x.st /\ w.resume = x.resume /\ w.cr = draws + 1
      /\ w.neg.id = (IF id # 0 THEN id ELSE x.neg.id) /\ w.neg.master = x.neg.master
      /\ w.held = x.held /\ w.asked = x.asked /\ w.due = x.due /\ w.reneg = x.reneg
      /\ w.log = x.log
  <2> HIDE DEF id, x
  <2> QED BY <1>2 DEF ContextFields, SessionFields, x
<1>5. /\ m.msg = "CLIENT_HELLO" /\ m.msg \in HandshakeMessages \ {"HELLO_REQUEST"} /\ r.m = m
      /\ h.rnd = draws + 1 /\ h.id = id /\ {"rnd", "id"} \subseteq DOMAIN m /\ m.id = id
  <2>1. {"rnd", "id"} \subseteq DOMAIN m \ {"info", "over"} /\ m.rnd = draws + 1 /\ m.id = id
    OBVIOUS
  <2>2. m.msg = "CLIENT_HELLO" /\ r.m = m
    OBVIOUS
  <2> HIDE DEF m, id
  <2> QED BY <2>1, <2>2, HashedHello DEF HandshakeMessages
<1>6. x.reneg # "INITIAL" => id = 0
  BY DEF OfferedId
<1>7. x.resume => w.neg.id = id
  <2>1. x.resume => id = IF x.neg.ticket # NoTicket THEN draws + 2 ELSE x.neg.id
    BY <1>3 DEF OfferedId
  <2> HIDE DEF id, x, w
  <2>2. draws + 2 # 0
    OBVIOUS
  <2> QED BY <1>4, <2>1, <2>2
<1> HIDE DEF w, m, id, h
<1>8. /\ Along(y, w) /\ y.st = "SERVER_HELLO" /\ y.neg = w.neg /\ y.held = w.held
      /\ y.asked = w.asked /\ y.reneg = w.reneg /\ y.log = w.log /\ DOMAIN y = ContextFields
  BY <1>1, <1>4, OnwardParts, NextState
<1> HIDE DEF y
<1>9. /\ Along(z, y) /\ z.st = y.st /\ z.neg = y.neg /\ z.held = y.held /\ z.asked = y.asked
      /\ z.reneg = y.reneg
      /\ z.log = (IF m.msg \in HandshakeMessages \ {"HELLO_REQUEST"}
                  THEN Append(y.log, Hashed(m)) ELSE y.log)
      /\ wire'["cli"] = wire["cli"] /\ wire'["srv"] = Append(wire["srv"], r)
  BY <1>0, <1>1, <1>2, <1>8, StepParts
<1> HIDE DEF r, t, x, z
<1>10. z.log = Append(<<>>, h)
  BY <1>3, <1>4, <1>5, <1>8, <1>9 DEF h
<1>11. b.at = t /\ b.log = Append(<<>>, h)
  <2>1. m.msg # "CHANGE_CIPHER_SPEC" /\ t # None
    BY <1>5 DEF t, None
  <2>2. b.at = t /\ b.log = Append(a.log, h)
    BY <1>5, <2>1, OntoMessage DEF h
  <2> QED BY <1>3, <2>2 DEF Idle
<1>12. Carries(g, "cli", a, b)
  <2>1. Leads(g, "cli", a, m, t)
    <3>1. a.at = IF x.reneg = "INITIAL" THEN New ELSE None
      BY <1>3 DEF Idle
    <3> QED BY <1>5, <1>6, <3>1 DEF Leads, CliLeads, t
  <2>2. Tells(g, "cli", a, r, b)
    BY <1>5, <2>1 DEF Tells
  <2> QED BY <1>0, <1>9, <2>2 DEF Carries
<1> HIDE DEF b
<1>13. Greets(g, "cli", z, b)
  <2>1. IsSequence(z.log) /\ Len(z.log) = 1 /\ z.log[1] = h
    BY <1>10, LogBegins
  <2>2. z.cr = z.log[1].rnd /\ (z.resume => z.neg.id = z.log[1].id)
    BY <1>4, <1>5, <1>7, <1>8, <1>9, <2>1 DEF Along
  <2>3. b.at = IF z.reneg = "INITIAL" THEN "CLIENT_HELLO" ELSE "CLIENT_HELLO_AGAIN"
    BY <1>4, <1>8, <1>9, <1>11 DEF t
  <2> QED BY <1>0, <1>10, <1>11, <2>1, <2>2, <2>3 DEF Greets
<1>14. Stands(g, "cli", z, b) /\ z.asked \in BOOLEAN
  <2>1. z.st = "SERVER_HELLO" /\ z.st \notin Resting
    BY <1>8, <1>9 DEF Resting, Unasked, Ending
  <2>2. /\ z.asked = x.asked /\ z.resume = x.resume /\ z.due = x.due /\ z.held = NoMsg
        /\ z.neg.master = x.neg.master
    BY <1>3, <1>4, <1>8, <1>9 DEF Along
  <2> QED BY <1>2, <1>3, <1>13, <2>1, <2>2 DEF Stands
<1> QED BY <1>0, <1>12, <1>14, CarriedPaced DEF z

\* What the server makes of the ticket in a hello.
LEMMA TicketedFields ==
  ASSUME NEW x, DOMAIN x = ContextFields, DOMAIN x.neg = SessionFields, ~x.resume,
         x.due \in BOOLEAN, NEW m, x.resume \in BOOLEAN,
         Accepted(m.ticket) => DOMAIN m.ticket.state = SessionFields
  PROVE  LET k == Ticketed(x, m)
         IN /\ DOMAIN k = ContextFields /\ k.st = x.st /\ k.err = x.err /\ k.cr = x.cr
            /\ k.held = x.held /\ k.asked = x.asked /\ k.reneg = x.reneg /\ k.log = x.log
            /\ DOMAIN k.neg = SessionFields /\ k.neg.id = x.neg.id
            /\ k.due \in BOOLEAN /\ k.resume \in BOOLEAN
            /\ \/ ~k.resume /\ k.neg = x.neg
               \/ k.resume /\ m.ticket # NoTicket /\ k.neg.master = m.ticket.state.master
<1> DEFINE k == Ticketed(x, m)
           n == [m.ticket.state EXCEPT !.id = x.neg.id]
           k1 == [x EXCEPT !.resume = TRUE, !.neg = n]
           k2 == [x EXCEPT !.due = TRUE]
<1>1. k = x \/ k = k2 \/ (k = k1 /\ Accepted(m.ticket))
  <2>2. CASE ~setting.tickets["srv"] \/ ~m.tickets
    BY <2>2 DEF Ticketed
  <2>3. CASE ~(~setting.tickets["srv"] \/ ~m.tickets) /\ x.reneg = "INITIAL" /\ Accepted(m.ticket)
    BY <2>3 DEF Ticketed
  <2>4. CASE /\ ~(~setting.tickets["srv"] \/ ~m.tickets)
             /\ ~(x.reneg = "INITIAL" /\ Accepted(m.ticket))
    BY <2>4 DEF Ticketed
  <2> HIDE DEF k, k1, k2
  <2> QED BY <2>2, <2>3, <2>4
<1> HIDE DEF k
<1>2. CASE k = x
  BY <1>2 DEF k
<1>3. CASE k = k2
  <2>1. /\ DOMAIN k = ContextFields /\ k.st = x.st /\ k.err = x.err /\ k.cr = x.cr
        /\ k.held = x.held /\ k.asked = x.asked /\ k.reneg = x.reneg /\ k.log = x.log
        /\ k.neg = x.neg /\ k.due \in BOOLEAN /\ ~k.resume /\ k.resume = x.resume
    BY <1>3 DEF ContextFields
  <2> QED BY <2>1 DEF k
<1>4. CASE k = k1 /\ Accepted(m.ticket)
  <2>1. DOMAIN n = SessionFields /\ n.id = x.neg.id /\ n.master = m.ticket.state.master
    BY <1>4 DEF SessionFields
  <2> HIDE DEF n
  <2>2. /\ DOMAIN k = ContextFields /\ k.st = x.st /\ k.err = x.err /\ k.cr = x.cr
        /\ k.held = x.held /\ k.asked = x.asked /\ k.reneg = x.reneg /\ k.log = x.log
        /\ k.neg = n /\ k.due = x.due /\ k.resume
    BY <1>4 DEF ContextFields
  <2> HIDE DEF k1
  <2>3. m.ticket # NoTicket
    BY <1>4 DEF Accepted
  <2> QED BY <2>1, <2>2, <2>3 DEF k
<1> QED BY <1>1, <1>2, <1>3, <1>4

\* What is known of the ticket in the client's hello that comes to the server.
Sealing(m) ==
  /\ m.ticket # NoTicket => m.ticket = saved.ticket /\ m.id # 0
  /\ Accepted(m.ticket) => DOMAIN m.ticket.state = SessionFields

\* The client's hello is read.
LEMMA ClientHelloHeard ==
  ASSUME NEW g, NEW a, Ready(g, "srv", a), Sealing(Msg("srv")), ParseClientHello
  PROVE  Paced(g, "srv", a)
<1> DEFINE x == ssl["srv"]
           m == Msg("srv")
           q == Heard("srv")
           w == [q EXCEPT !.neg.id = m.id, !.cr = m.rnd]
           k == Ticketed(w, m)
           suite == Prefers[First(Common(m))]
           u == [k EXCEPT !.neg.suite = suite]
           y == Onward(u)
           r == Head(wire["srv"])
           h == Hashed(m)
           z == ssl'["srv"]
<1>0. "srv" \in Ends /\ "cli" = Peer("srv") /\ "cli" # "srv"
  BY Peers
<1>1. /\ x.st = "CLIENT_HELLO" /\ wire["srv"] # <<>> /\ m.msg = "CLIENT_HELLO" /\ r.m = m
      /\ Hear("srv", y) \/ Refuse("srv", "CLIENT_HELLO")
  <2>1. x.st = "CLIENT_HELLO" /\ wire["srv"] # <<>> /\ m.msg = "CLIENT_HELLO"
    BY DEF ParseClientHello, At, CameAs, Comes
  <2>2. Hear("srv", y) \/ Refuse("srv", "CLIENT_HELLO")
    BY DEF ParseClientHello
  <2>3. r.m = m
    BY DEF Msg
  <2> QED BY <2>1, <2>2, <2>3
<1>2. /\ Shapes /\ DOMAIN x = ContextFields /\ DOMAIN x.neg = SessionFields
      /\ x.asked \in BOOLEAN /\ x.resume \in BOOLEAN /\ x.due \in BOOLEAN
      /\ Along(q, x) /\ q.st = x.st /\ q.err = x.err /\ q.neg = x.neg /\ q.held = x.held
      /\ q.asked = x.asked /\ q.reneg = x.reneg /\ q.log = Append(x.log, h)
      /\ DOMAIN q = ContextFields /\ g.saved = saved
  BY <1>0, ReadyFacts
<1>3. /\ a = Idle(IF x.reneg = "INITIAL" THEN New ELSE None) /\ x.log = <<>>
      /\ ~x.resume /\ x.neg = NoSession /\ x.held = NoMsg
  <2>1. x.st \in Unasked /\ x.st \in Resting
    BY <1>1 DEF Unasked, Resting
  <2> QED BY <1>0, <1>2, <2>1 DEF Ready, Stands, Settled
<1>4. ~Noise(m)
  BY <1>1 DEF Noise
<1>5. CASE Refuse("srv", "CLIENT_HELLO")
  BY <1>0, <1>1, <1>4, <1>5, FailPaced
<1>6. CASE Hear("srv", y)
  <2>1. /\ DOMAIN w = ContextFields /\ w.st = x.st /\ w.resume = x.resume /\ w.cr = m.rnd
        /\ w.due = x.due /\ w.held = NoMsg /\ w.asked = x.asked /\ w.reneg = x.reneg
        /\ w.log = Append(<<>>, h) /\ DOMAIN w.neg = SessionFields /\ w.neg.id = m.id
        /\ w.neg.cert = "none"
    <3> HIDE DEF q, m, x, h
    <3>1. q.neg.cert = "none"
      BY <1>2, <1>3 DEF NoSession
    <3> QED BY <1>2, <1>3, <3>1 DEF ContextFields, SessionFields, Along
  <2> HIDE DEF w
  <2>2. /\ DOMAIN k = ContextFields /\ k.st = w.st /\ k.cr = w.cr
        /\ k.held = w.held /\ k.asked = w.asked /\ k.reneg = w.reneg /\ k.log = w.log
        /\ DOMAIN k.neg = SessionFields /\ k.neg.id = w.neg.id
        /\ k.due \in BOOLEAN /\ k.resume \in BOOLEAN
        /\ \/ ~k.resume /\ k.neg = w.neg
           \/ k.resume /\ m.ticket # NoTicket /\ k.neg.master = m.ticket.state.master
    <3>1. ~w.resume /\ w.resume \in BOOLEAN /\ w.due \in BOOLEAN
      BY <1>2, <1>3, <2>1
    <3>2. (Accepted(m.ticket) => DOMAIN m.ticket.state = SessionFields)
      BY DEF Sealing
    <3> HIDE DEF m, x
    <3> QED BY <2>1, <3>1, <3>2, TicketedFields
  <2> HIDE DEF k, suite, h, m, x
  <2>3. /\ DOMAIN u = ContextFields /\ u.st = k.st /\ u.cr = k.cr /\ u.resume = k.resume
        /\ u.held = k.held /\ u.asked = k.asked /\ u.reneg = k.reneg /\ u.log = k.log
        /\ u.due = k.due /\ u.neg.id = k.neg.id /\ u.neg.master = k.neg.master
        /\ u.neg.cert = k.neg.cert
    BY <2>2 DEF ContextFields, SessionFields
  <2> HIDE DEF u
  <2>4. /\ Along(y, u) /\ y.st = "SERVER_HELLO" /\ y.neg = u.neg /\ y.held = u.held
        /\ y.asked = u.asked /\ y.reneg = u.reneg /\ y.log = u.log /\ DOMAIN y = ContextFields
    BY <1>1, <2>1, <2>2, <2>3, OnwardParts, NextState
  <2> HIDE DEF y, z
  <2>5. z = y /\ wire'["srv"] = Tail(wire["srv"]) /\ wire'["cli"] = wire["cli"]
    BY <1>0, <1>2, <1>6, <2>4, StepParts DEF z
  <2>6. PICK t : /\ Leads(g, "cli", a, m, t) /\ Goes(g, "cli", a, r, Onto(a, r, t))
    BY <1>0, <1>1, <1>4, ReadTells DEF m
  <2>7. /\ t = IF x.reneg = "INITIAL" THEN "CLIENT_HELLO" ELSE "CLIENT_HELLO_AGAIN"
        /\ {"rnd", "id"} \subseteq DOMAIN m
    <3>1. CliLeads(g, a, m, t)
      BY <2>6 DEF Leads
    <3>2. a.at = (IF x.reneg = "INITIAL" THEN New ELSE None) /\ New # None
      BY <1>3 DEF Idle, New, None
    <3> QED BY <1>1, <3>1, <3>2 DEF CliLeads
  <2> DEFINE b == Onto(a, r, t)
  <2>8. b.at = t /\ b.log = Append(<<>>, h)
    <3>1. m.msg # "CHANGE_CIPHER_SPEC" /\ t # None
      BY <1>1, <2>7 DEF None
    <3>2. b.at = t /\ b.log = Append(a.log, h)
      BY <1>1, <3>1, OntoMessage DEF h
    <3> QED BY <1>3, <3>2 DEF Idle
  <2>9. Carries(g, "srv", a, b)
    BY <1>0, <1>1, <2>5, <2>6 DEF Carries
  <2> HIDE DEF b
  <2>10. h.rnd = m.rnd /\ h.id = m.id
    BY <2>7, HashedHello DEF h
  <2>11. z.log = Append(<<>>, h)
    BY <2>1, <2>2, <2>3, <2>4, <2>5
  <2>12. Greets(g, "srv", z, b)
    <3>1. IsSequence(z.log) /\ Len(z.log) = 1 /\ z.log[1] = h
      BY <2>11, LogBegins
    <3>2. z.cr = z.log[1].rnd /\ z.neg.id = z.log[1].id
      BY <2>1, <2>2, <2>3, <2>4, <2>5, <2>10, <3>1 DEF Along
    <3>3. z.resume => z.neg.id # 0
      BY <2>1, <2>2, <2>3, <2>4, <2>5 DEF Along, Sealing, m
    <3>4. ~z.resume => z.neg.cert = "none"
      BY <2>1, <2>2, <2>3, <2>4, <2>5 DEF Along
    <3>5. b.at = IF z.reneg = "INITIAL" THEN "CLIENT_HELLO" ELSE "CLIENT_HELLO_AGAIN"
      BY <2>1, <2>2, <2>3, <2>4, <2>5, <2>7, <2>8
    <3> QED BY <2>8, <2>11, <3>1, <3>2, <3>3, <3>4, <3>5 DEF Greets
  <2>13. Stands(g, "srv", z, b) /\ z.asked \in BOOLEAN
    <3>1. z.st = "SERVER_HELLO" /\ z.st \notin Resting
      BY <2>4, <2>5 DEF Resting, Unasked, Ending
    <3>2. /\ z.asked \in BOOLEAN /\ z.resume \in BOOLEAN /\ z.due \in BOOLEAN /\ z.held = NoMsg
      BY <1>2, <2>1, <2>2, <2>3, <2>4, <2>5 DEF Along
    <3>3. z.resume => OldTicket(g.saved) \/ z.neg.master = g.saved.master
      <4>1. z.resume => m.ticket # NoTicket /\ z.neg.master = m.ticket.state.master
        BY <2>2, <2>3, <2>4, <2>5 DEF Along
      <4>2. m.ticket # NoTicket => m.ticket = g.saved.ticket
        BY <1>2 DEF Sealing, m
      <4> QED BY <4>1, <4>2 DEF OldTicket
    <3> QED BY <2>12, <3>1, <3>2, <3>3 DEF Stands
  <2> QED BY <1>0, <2>9, <2>13, CarriedPaced DEF z
<1> QED BY <1>1, <1>5, <1>6

\* What is known of the id in the client's hello when the server, whose context is v,
\* answers it.
Naming(v) == ~v.resume =>
  v.neg.id \in Nat /\ v.neg.id <= draws /\ Tied(chain, draws, v, Named(saved, v.neg.id))

\* What the server finds in its cache.
LEMMA RecalledFields ==
  ASSUME NEW x, DOMAIN x = ContextFields, DOMAIN x.neg = SessionFields, x.resume \in BOOLEAN,
         IsSequence(chain), Naming(x)
  PROVE  LET k == Recalled(x)
         IN /\ DOMAIN k = ContextFields /\ k.st = x.st /\ k.err = x.err /\ k.cr = x.cr
            /\ k.held = x.held /\ k.asked = x.asked /\ k.reneg = x.reneg /\ k.log = x.log
            /\ k.due = x.due /\ DOMAIN k.neg = SessionFields /\ k.neg.id = x.neg.id
            /\ k.neg.suite = x.neg.suite /\ k.resume \in BOOLEAN
            /\ \/ k.resume = x.resume /\ k.neg = x.neg
               \/ k.resume /\ k.neg.id # 0 /\ k.neg.master = saved.master
<1> DEFINE k == Recalled(x)
           old == Get(x.neg.id, x.neg.suite)
           hit == /\ ~x.resume /\ x.reneg = "INITIAL" /\ x.neg.id # 0
                  /\ Found(x.neg.id, x.neg.suite) # {}
<1>1. CASE ~hit
  <2>1. k = x
    BY <1>1 DEF Recalled
  <2> QED BY <2>1
<1>2. CASE hit
  <2>1. k = [x EXCEPT !.resume = TRUE, !.neg.master = old.master, !.neg.verify = old.verify,
                      !.neg.cert = old.cert]
    BY <1>2 DEF Recalled
  <2>2. old.master = saved.master
    <3> DEFINE F == Found(x.neg.id, x.neg.suite)
               i == First(F)
    <3>1. DOMAIN chain = 1..Len(chain) /\ Len(chain) \in Nat
      BY Appended
    <3>2. i \in F
      <4>1. F \in SUBSET Nat /\ F # {}
        BY <1>2, <3>1 DEF Found
      <4> HIDE DEF F
      <4> QED BY <4>1, FirstOf
    <3>5. old = chain[i].session
      BY DEF Get
    <3> HIDE DEF i, old
    <3>3. i \in 1..Len(chain) /\ chain[i].session.id = x.neg.id
      BY <3>1, <3>2 DEF Found
    <3>4. \A j \in 1..Len(chain) :
             chain[j].session.id = x.neg.id => chain[j].session.master = saved.master
      BY <1>2 DEF Naming, Tied, Named
    <3> QED BY <3>3, <3>4, <3>5
  <2> HIDE DEF old, k
  <2>3. /\ DOMAIN k = ContextFields /\ k.st = x.st /\ k.err = x.err /\ k.cr = x.cr
        /\ k.held = x.held /\ k.asked = x.asked /\ k.reneg = x.reneg /\ k.log = x.log
        /\ k.due = x.due /\ DOMAIN k.neg = SessionFields /\ k.neg.id = x.neg.id
        /\ k.neg.suite = x.neg.suite /\ k.resume = TRUE /\ k.neg.master = old.master
    BY <2>1 DEF ContextFields, SessionFields
  <2> QED BY <1>2, <2>2, <2>3 DEF k
<1> QED BY <1>1, <1>2

\* A log of both hellos.
LEMMA LogOfTwo ==
  ASSUME NEW l, IsSequence(l), Len(l) = 1, NEW h
  PROVE  /\ IsSequence(Append(l, h)) /\ Len(Append(l, h)) >= 2
         /\ Append(l, h)[1] = l[1] /\ Append(l, h)[2] = h
<1>1. /\ IsSequence(Append(l, h)) /\ Len(Append(l, h)) = Len(l) + 1
      /\ \A i \in 1..Len(l) : Append(l, h)[i] = l[i]
      /\ Append(l, h)[Len(l) + 1] = h
  BY Appended, ZenonT(30)
<1>2. Len(l) + 1 = 2 /\ 1 \in 1..Len(l) /\ 2 >= 2
  OBVIOUS
<1> QED BY <1>1, <1>2

\* The server's hello is written.
LEMMA ServerHelloSaid ==
  ASSUME NEW g, NEW a, Ready(g, "srv", a), draws \in Nat, IsSequence(chain),
         Naming(ssl["srv"]), WriteServerHello
  PROVE  Paced(g, "srv", a)
<1> DEFINE v == ssl["srv"]
           l == v.log
           k == Recalled(v)
           x == [k EXCEPT !.sr = draws + 1]
           y1 == [x EXCEPT !.st = "SERVER_CHANGE_CIPHER_SPEC"]
           u == [x EXCEPT !.neg.start = clock, !.neg.id = IF x.due THEN 0 ELSE draws + 2]
           y == IF x.resume THEN y1 ELSE Onward(u)
           m == [msg |-> "SERVER_HELLO", rnd |-> draws + 1, id |-> y.neg.id,
                 suite |-> y.neg.suite,
                 info |-> IF x.reneg = "INITIAL" THEN NoInfo ELSE <<x.peer, x.own>>,
                 tickets |-> x.due]
           r == [keys |-> y.out, m |-> m]
           h == Hashed(m)
           z == ssl'["srv"]
           t == "SERVER_HELLO"
           b == Onto(a, r, t)
<1>0. "srv" \in Ends /\ "cli" = Peer("srv") /\ "cli" # "srv"
  BY Peers
<1>1. v.st = "SERVER_HELLO" /\ Say("srv", y, m)
  BY DEF WriteServerHello, At
<1>2. /\ Shapes /\ DOMAIN v = ContextFields /\ DOMAIN v.neg = SessionFields
      /\ v.asked \in BOOLEAN /\ v.resume \in BOOLEAN /\ v.due \in BOOLEAN /\ g.saved = saved
  BY <1>0, ReadyFacts
<1>3. /\ Greets(g, "srv", v, a) /\ v.held = NoMsg
      /\ v.resume => OldTicket(g.saved) \/ v.neg.master = g.saved.master
  BY <1>1 DEF Ready, Stands
<1>4. /\ a.at \in Asks /\ a.log = l /\ IsSequence(l) /\ Len(l) = 1 /\ v.cr = l[1].rnd
      /\ v.neg.id = l[1].id
      /\ v.resume => v.neg.id # 0
      /\ ~v.resume => v.neg.cert = "none"
  BY <1>3 DEF Greets, Asks
<1>5. ~v.resume => v.neg.id \in Nat /\ v.neg.id <= draws
  BY DEF Naming
<1> HIDE DEF v
<1>6. /\ DOMAIN k = ContextFields /\ k.st = v.st /\ k.cr = v.cr
      /\ k.held = v.held /\ k.asked = v.asked /\ k.reneg = v.reneg /\ k.log = v.log
      /\ k.due = v.due /\ DOMAIN k.neg = SessionFields /\ k.neg.id = v.neg.id
      /\ k.resume \in BOOLEAN
      /\ \/ k.resume = v.resume /\ k.neg = v.neg
         \/ k.resume /\ k.neg.id # 0 /\ k.neg.master = saved.master
  BY <1>2, RecalledFields DEF v
<1> HIDE DEF k
<1>7. /\ DOMAIN x = ContextFields /\ x.st = k.st /\ x.cr = k.cr /\ x.sr = draws + 1
      /\ x.held = k.held /\ x.asked = k.asked /\ x.reneg = k.reneg /\ x.log = k.log
      /\ x.due = k.due /\ x.neg = k.neg /\ x.resume = k.resume
  BY <1>6 DEF ContextFields
<1> HIDE DEF x
<1>8. /\ DOMAIN y = ContextFields /\ y.cr = x.cr /\ y.sr = x.sr /\ y.held = x.held
      /\ y.asked = x.asked /\ y.reneg = x.reneg /\ y.log = x.log /\ y.due = x.due
      /\ y.resume = x.resume /\ y.neg.suite = x.neg.suite /\ y.neg.cert = x.neg.cert
      /\ x.resume => y.st = "SERVER_CHANGE_CIPHER_SPEC" /\ y.neg = x.neg
      /\ ~x.resume => y.st = "SERVER_CERTIFICATE" /\ y.neg.id \in {0, draws + 2}
  <2>1. CASE x.resume
    <3>1. y = y1
      BY <2>1
    <3> HIDE DEF y
    <3> QED BY <1>7, <2>1, <3>1 DEF ContextFields
  <2>2. CASE ~x.resume
    <3>1. /\ DOMAIN u = ContextFields /\ u.st = x.st /\ u.cr = x.cr /\ u.sr = x.sr
          /\ u.held = x.held /\ u.asked = x.asked /\ u.reneg = x.reneg /\ u.log = x.log
          /\ u.due = x.due /\ u.resume = x.resume /\ u.neg.suite = x.neg.suite
          /\ u.neg.cert = x.neg.cert /\ u.neg.id \in {0, draws + 2}
      BY <1>6, <1>7 DEF ContextFields, SessionFields
    <3>2. y = Onward(u)
      BY <2>2
    <3> HIDE DEF y, u
    <3>3. /\ Along(y, u) /\ y.st = "SERVER_CERTIFICATE" /\ y.neg = u.neg /\ y.held = u.held
          /\ y.asked = u.asked /\ y.reneg = u.reneg /\ y.log = u.log /\ DOMAIN y = ContextFields
      BY <1>1, <1>6, <1>7, <3>1, <3>2, OnwardParts, NextState
    <3> QED BY <2>2, <3>1, <3>3 DEF Along
  <2> QED BY <2>1, <2>2
<1>9. /\ m.msg = "SERVER_HELLO" /\ m.msg \in HandshakeMessages \ {"HELLO_REQUEST"} /\ r.m = m
      /\ {"rnd", "id", "suite", "tickets"} \subseteq DOMAIN m /\ m.tickets \in BOOLEAN
      /\ h.rnd = draws + 1 /\ h.id = y.neg.id /\ h.suite = y.neg.suite /\ h.tickets = x.due
  <2>1. /\ {"rnd", "id", "suite", "tickets"} \subseteq DOMAIN m \ {"info", "over"}
        /\ m.rnd = draws + 1 /\ m.id = y.neg.id /\ m.suite = y.neg.suite /\ m.tickets = x.due
        /\ m.msg = "SERVER_HELLO" /\ r.m = m
    OBVIOUS
  <2> HIDE DEF m, y
  <2> QED BY <1>2, <1>6, <1>7, <2>1, HashedHello DEF HandshakeMessages
<1> HIDE DEF m, h, y
<1>10. /\ Along(z, y) /\ z.st = y.st /\ z.neg = y.neg /\ z.held = y.held /\ z.asked = y.asked
       /\ z.log = (IF m.msg \in HandshakeMessages \ {"HELLO_REQUEST"}
                   THEN Append(y.log, Hashed(m)) ELSE y.log)
       /\ wire'["srv"] = wire["srv"] /\ wire'["cli"] = Append(wire["cli"], r)
  BY <1>0, <1>1, <1>2, <1>8, StepParts
<1> HIDE DEF r, t, z
<1>11. z.log = Append(l, h)
  BY <1>6, <1>7, <1>8, <1>9, <1>10 DEF h
<1>12. b.at = t /\ b.log = Append(l, h) /\ b.pms = a.pms /\ t = "SERVER_HELLO"
  <2>1. m.msg # "CHANGE_CIPHER_SPEC" /\ m.msg # "CLIENT_KEY_EXCHANGE" /\ t # None
    BY <1>9 DEF t, None
  <2> QED BY <1>4, <1>9, <2>1, OntoMessage DEF h, t
<1>13. Carries(g, "srv", a, b)
  <2>1. Leads(g, "srv", a, m, t)
    BY <1>0, <1>4, <1>9 DEF Leads, SrvLeads, t
  <2>2. Tells(g, "srv", a, r, b)
    BY <1>9, <2>1 DEF Tells
  <2> QED BY <1>0, <1>10, <2>2 DEF Carries
<1> HIDE DEF b
<1>14. IsSequence(z.log) /\ Len(z.log) >= 2 /\ z.log[1] = l[1] /\ z.log[2] = h
  BY <1>4, <1>11, LogOfTwo
<1>15. /\ z.cr = z.log[1].rnd /\ z.sr = z.log[2].rnd /\ z.neg.suite = z.log[2].suite
       /\ z.due = z.log[2].tickets /\ z.neg.id = z.log[2].id
       /\ z.resume = x.resume
  BY <1>4, <1>6, <1>7, <1>8, <1>9, <1>10, <1>14 DEF Along
<1>16. z.resume = Resumed(z.log)
  <2>1. CASE x.resume
    <3>0. /\ y.neg.id = k.neg.id /\ k.neg.id = l[1].id /\ k.resume
          /\ k.resume = v.resume \/ k.neg.id # 0
      <4>1. y.neg = x.neg /\ x.neg = k.neg /\ k.resume
        BY <1>7, <1>8, <2>1
      <4>2. k.neg.id = v.neg.id /\ v.neg.id = l[1].id
        BY <1>4, <1>6
      <4>3. k.resume = v.resume \/ k.neg.id # 0
        BY <1>6
      <4> QED BY <4>1, <4>2, <4>3
    <3>1. y.neg.id = l[1].id /\ y.neg.id # 0
      BY <1>4, <3>0
    <3>2. Resumed(z.log)
      BY <1>9, <1>14, <3>1 DEF Resumed
    <3>3. z.resume = TRUE /\ Resumed(z.log) = TRUE
      BY <1>6, <1>7, <1>15, <2>1, <3>2 DEF Resumed
    <3> QED BY <3>3
  <2>2. CASE ~x.resume
    <3>1. ~v.resume /\ l[1].id \in Nat /\ l[1].id <= draws /\ h.id \in {0, draws + 2}
      BY <1>4, <1>5, <1>6, <1>7, <1>8, <1>9, <2>2
    <3>2. ~Resumed(z.log)
      BY <1>14, <3>1 DEF Resumed
    <3>3. z.resume = FALSE /\ Resumed(z.log) = FALSE
      BY <1>6, <1>7, <1>15, <2>2, <3>2 DEF Resumed
    <3> QED BY <3>3
  <2> QED BY <2>1, <2>2
<1>17. /\ z.resume => z.st = "SERVER_CHANGE_CIPHER_SPEC"
       /\ ~z.resume => z.st = "SERVER_CERTIFICATE" /\ z.neg.cert = "none"
  <2>1. ~z.resume => ~v.resume /\ z.neg.cert = v.neg.cert
    BY <1>6, <1>7, <1>8, <1>10, <1>15
  <2> QED BY <1>4, <1>8, <1>10, <1>15, <2>1
<1>18. Agreed(g, "srv", z, b)
  <2>1. ~z.resume => z.st \notin Keyful
    BY <1>17 DEF Keyful
  <2> QED BY <1>11, <1>12, <1>14, <1>15, <1>16, <2>1 DEF Agreed
<1>19. Placed(g, z, b.at) /\ SrvPlaced(g, z, b.at)
  <2>1. CASE z.resume
    BY <1>12, <1>15, <1>16, <1>17, <2>1 DEF Placed, SrvPlaced
  <2>2. CASE ~z.resume
    BY <1>12, <1>17, <2>2 DEF Placed, SrvPlaced
  <2> QED BY <2>1, <2>2
<1>20. Stands(g, "srv", z, b) /\ z.asked \in BOOLEAN
  <2>1. z.st \notin Resting \cup {"SERVER_HELLO"}
    BY <1>17 DEF Resting, Unasked, Ending
  <2>2. /\ z.asked \in BOOLEAN /\ z.resume \in BOOLEAN /\ z.due \in BOOLEAN /\ z.held = NoMsg
    BY <1>2, <1>3, <1>6, <1>7, <1>8, <1>10 DEF Along
  <2>3. z.resume => OldTicket(g.saved) \/ z.neg.master = g.saved.master
    <3>1. z.resume => z.neg = k.neg /\ k.resume
      BY <1>7, <1>8, <1>10, <1>15
    <3> QED BY <1>2, <1>3, <1>6, <3>1
  <2> QED BY <1>0, <1>18, <1>19, <2>1, <2>2, <2>3 DEF Stands
<1> QED BY <1>0, <1>13, <1>20, CarriedPaced DEF z

\* The server's hello is read.
LEMMA ServerHelloHeard ==
  ASSUME NEW g, NEW a, Ready(g, "cli", a), ParseServerHello
  PROVE  Paced(g, "cli", a)
<1> DEFINE x == ssl["cli"]
           l == x.log
           m == Msg("cli")
           q == Heard("cli")
           k == [q EXCEPT !.sr = m.rnd, !.due = m.tickets]
           y1 == [k EXCEPT !.st = "SERVER_CHANGE_CIPHER_SPEC"]
           u == [k EXCEPT !.resume = FALSE, !.neg.start = clock, !.neg.suite = m.suite,
                          !.neg.id = m.id]
           y2 == Onward(u)
           r == Head(wire["cli"])
           h == Hashed(m)
           z == ssl'["cli"]
           t == "SERVER_HELLO"
           b == Onto(a, r, t)
<1>0. "cli" \in Ends /\ "srv" = Peer("cli") /\ "cli" # "srv"
  BY Peers
<1>1. /\ x.st = "SERVER_HELLO" /\ wire["cli"] # <<>> /\ m.msg = "SERVER_HELLO" /\ r.m = m
      /\ \/ Refuse("cli", "SERVER_HELLO") \/ (Hear("cli", y1) /\ Resumes(x, m))
         \/ Hear("cli", y2)
  BY DEF ParseServerHello, At, CameAs, Comes, Msg
<1>2. /\ Shapes /\ DOMAIN x = ContextFields /\ DOMAIN x.neg = SessionFields
      /\ x.asked \in BOOLEAN /\ x.resume \in BOOLEAN /\ x.due \in BOOLEAN
      /\ Along(q, x) /\ q.st = x.st /\ q.err = x.err /\ q.neg = x.neg /\ q.held = x.held
      /\ q.asked = x.asked /\ q.reneg = x.reneg /\ q.log = Append(l, h)
      /\ DOMAIN q = ContextFields
  BY <1>0, ReadyFacts
<1>3. /\ Greets(g, "cli", x, a) /\ x.held = NoMsg
      /\ x.resume => OldTicket(g.saved) \/ x.neg.master = g.saved.master
  BY <1>0, <1>1 DEF Ready, Stands
<1>4. /\ a.at \in Asks /\ a.log = l /\ IsSequence(l) /\ Len(l) = 1 /\ x.cr = l[1].rnd
      /\ x.resume => x.neg.id = l[1].id
  BY <1>3 DEF Greets, Asks
<1>5. ~Noise(m)
  BY <1>1 DEF Noise
<1>6. /\ Goes(g, "srv", a, r, b)
      /\ {"rnd", "id", "suite", "tickets"} \subseteq DOMAIN m /\ m.tickets \in BOOLEAN
  <2>1. PICK tt : Leads(g, "srv", a, m, tt) /\ Goes(g, "srv", a, r, Onto(a, r, tt))
    BY <1>0, <1>1, <1>5, ReadTells DEF m
  <2>2. SrvLeads(g, a, m, tt)
    BY <1>0, <2>1 DEF Leads
  <2>3. /\ tt = t
        /\ {"rnd", "id", "suite", "tickets"} \subseteq DOMAIN m /\ m.tickets \in BOOLEAN
    BY <1>1, <2>2 DEF SrvLeads
  <2> QED BY <2>1, <2>3
<1>7. h.rnd = m.rnd /\ h.id = m.id /\ h.suite = m.suite /\ h.tickets = m.tickets
  BY <1>6, HashedHello
<1>8. b.at = t /\ b.log = Append(l, h) /\ b.pms = a.pms /\ t = "SERVER_HELLO"
  <2>1. m.msg # "CHANGE_CIPHER_SPEC" /\ m.msg # "CLIENT_KEY_EXCHANGE" /\ t # None
    BY <1>1 DEF None
  <2> DEFINE w == Onto(a, r, t)
  <2>2. /\ r.m.msg # "CHANGE_CIPHER_SPEC" /\ r.m.msg # "CLIENT_KEY_EXCHANGE"
        /\ Hashed(r.m) = h /\ IsSequence(a.log)
    BY <1>1, <1>4, <2>1
  <2> HIDE DEF t, m, h, r
  <2>3. w.at = t /\ w.log = Append(a.log, Hashed(r.m)) /\ w.pms = a.pms
    BY <2>1, <2>2, OntoMessage
  <2> HIDE DEF w
  <2>4. w.log = Append(l, h)
    BY <1>4, <2>2, <2>3
  <2> QED BY <2>3, <2>4 DEF b, t, w
<1> HIDE DEF b, t, q, m, h, x
<1>9. /\ DOMAIN k = ContextFields /\ k.st = x.st /\ k.cr = x.cr /\ k.sr = m.rnd
      /\ k.due = m.tickets /\ k.resume = x.resume /\ k.neg = x.neg /\ k.held = NoMsg
      /\ k.asked = x.asked /\ k.log = Append(l, h)
  BY <1>2, <1>3 DEF ContextFields, Along
<1> HIDE DEF k
<1>10. CASE Refuse("cli", "SERVER_HELLO")
  BY <1>0, <1>1, <1>5, <1>10, FailPaced DEF m
<1> DEFINE told == /\ z.cr = x.cr /\ z.sr = m.rnd /\ z.due = m.tickets /\ z.held = NoMsg
                   /\ z.asked = x.asked /\ z.log = Append(l, h) /\ z.neg.suite = m.suite
                   /\ z.neg.id = m.id
                   /\ wire'["cli"] = Tail(wire["cli"]) /\ wire'["srv"] = wire["srv"]
<1>11. ASSUME Hear("cli", y1), Resumes(x, m)
       PROVE  /\ told /\ z.resume /\ z.resume \in BOOLEAN /\ z.st = "SERVER_CHANGE_CIPHER_SPEC"
              /\ z.neg.master = x.neg.master /\ x.resume
              /\ m.id # 0 /\ m.id = l[1].id
  <2>1. /\ DOMAIN y1 = ContextFields /\ y1.st = "SERVER_CHANGE_CIPHER_SPEC" /\ y1.cr = k.cr
        /\ y1.sr = k.sr /\ y1.due = k.due /\ y1.resume = k.resume /\ y1.neg = k.neg
        /\ y1.held = k.held /\ y1.asked = k.asked /\ y1.log = k.log
    BY <1>9 DEF ContextFields
  <2> HIDE DEF y1
  <2>2. z = y1 /\ wire'["cli"] = Tail(wire["cli"]) /\ wire'["srv"] = wire["srv"]
    BY <1>0, <1>2, <1>11, <2>1, StepParts
  <2>3. x.resume /\ m.id # 0 /\ x.neg.suite = m.suite /\ x.neg.id = m.id
    BY <1>11 DEF Resumes
  <2> HIDE DEF z
  <2>4. /\ z.cr = x.cr /\ z.sr = m.rnd /\ z.due = m.tickets /\ z.held = NoMsg
        /\ z.asked = x.asked /\ z.log = Append(l, h) /\ z.neg = x.neg /\ z.resume = x.resume
        /\ z.st = "SERVER_CHANGE_CIPHER_SPEC"
    BY <1>9, <2>1, <2>2
  <2>5. told /\ z.neg.master = x.neg.master
    BY <2>2, <2>3, <2>4
  <2>6. x.resume = TRUE /\ m.id = l[1].id
    BY <1>2, <1>4, <2>3
  <2> QED BY <2>3, <2>4, <2>5, <2>6
<1>12. ASSUME Hear("cli", y2)
       PROVE  told /\ ~z.resume /\ z.resume \in BOOLEAN /\ z.st = "SERVER_CERTIFICATE"
  <2>1. /\ DOMAIN u = ContextFields /\ u.st = k.st /\ u.cr = k.cr
        /\ u.sr = k.sr /\ u.due = k.due /\ u.resume = FALSE /\ u.neg.suite = m.suite
        /\ u.neg.id = m.id /\ u.held = k.held /\ u.asked = k.asked /\ u.log = k.log
    BY <1>2, <1>9 DEF ContextFields, SessionFields
  <2> HIDE DEF u
  <2>2. /\ Along(y2, u) /\ y2.st = "SERVER_CERTIFICATE" /\ y2.neg = u.neg /\ y2.held = u.held
        /\ y2.asked = u.asked /\ y2.log = u.log /\ DOMAIN y2 = ContextFields
    BY <1>1, <1>9, <2>1, OnwardParts, NextState
  <2> HIDE DEF y2
  <2>3. z = y2 /\ wire'["cli"] = Tail(wire["cli"]) /\ wire'["srv"] = wire["srv"]
    BY <1>0, <1>2, <1>12, <2>2, StepParts
  <2> HIDE DEF z
  <2> QED BY <1>9, <2>1, <2>2, <2>3 DEF Along
<1> DEFINE new == ~z.resume /\ z.st = "SERVER_CERTIFICATE"
           old == /\ z.resume /\ z.st = "SERVER_CHANGE_CIPHER_SPEC"
                  /\ z.neg.master = x.neg.master /\ x.resume /\ m.id # 0 /\ m.id = l[1].id
<1>13. ASSUME told, z.resume \in BOOLEAN, new \/ old
       PROVE  Paced(g, "cli", a)
  <2> HIDE DEF z
  <2>1. IsSequence(z.log) /\ Len(z.log) >= 2 /\ z.log[1] = l[1] /\ z.log[2] = h
    BY <1>4, <1>13, LogOfTwo
  <2>2. /\ z.cr = z.log[1].rnd /\ z.sr = z.log[2].rnd /\ z.neg.suite = z.log[2].suite
        /\ z.due = z.log[2].tickets /\ z.neg.id = z.log[2].id
    BY <1>4, <1>7, <1>13, <2>1
  <2>3. z.resume => Resumed(z.log)
    BY <1>7, <1>13, <2>1 DEF Resumed
  <2>4. Agreed(g, "cli", z, b)
    <3>1. ~z.resume => z.st \notin Keyful
      BY <1>13 DEF Keyful
    <3>2. z.log = b.log
      BY <1>8, <1>13
    <3>3. ~z.resume => z.st = "SERVER_CERTIFICATE"
      BY <1>13
    <3> HIDE DEF new, old, told
    <3> QED BY <2>1, <2>2, <2>3, <3>1, <3>2, <3>3 DEF Agreed
  <2>5. Placed(g, z, b.at) /\ CliPlaced(g, z, b.at)
    <3>1. CASE new
      BY <1>8, <1>13, <3>1 DEF Placed, CliPlaced
    <3>2. CASE old
      BY <1>8, <1>13, <2>2, <2>3, <3>2 DEF Placed, CliPlaced
    <3> QED BY <1>13, <3>1, <3>2
  <2>6. Stands(g, "cli", z, b) /\ z.asked \in BOOLEAN
    <3>1. z.st \notin Resting \cup {"SERVER_HELLO"}
      BY <1>13 DEF Resting, Unasked, Ending
    <3>2. /\ z.asked \in BOOLEAN /\ z.resume \in BOOLEAN /\ z.due \in BOOLEAN /\ z.held = NoMsg
      BY <1>2, <1>6, <1>13
    <3>3. z.resume => OldTicket(g.saved) \/ z.neg.master = g.saved.master
      BY <1>3, <1>13
    <3> QED BY <1>0, <2>4, <2>5, <3>1, <3>2, <3>3 DEF Stands
  <2>7. Carries(g, "cli", a, b)
    BY <1>0, <1>1, <1>6, <1>13 DEF Carries
  <2> QED BY <1>0, <2>6, <2>7, CarriedPaced DEF z
<1> QED BY <1>1, <1>10, <1>11, <1>12, <1>13

-----------------------------------------------------------------------------
(* The steps of a handshake.                                                *)

\* What else the server has to know before it reads or answers the client's hello.
Wary(g, s, a) ==
  /\ Ready(g, s, a) /\ draws \in Nat /\ IsSequence(chain)
  /\ s = "srv" /\ wire[s] # <<>> /\ Msg(s).msg = "CLIENT_HELLO" => Sealing(Msg(s))
  /\ s = "srv" /\ ssl[s].st = "SERVER_HELLO" => Naming(ssl[s])

\* The steps of the client that are its own.
LEMMA ClientPaced ==
  ASSUME NEW g, NEW a, Wary(g, "cli", a), ClientStep
  PROVE  Paced(g, "cli", a)
<1>0. Ready(g, "cli", a) /\ "cli" \in Ends /\ draws \in Nat
  BY Peers DEF Wary
<1>1. CASE WriteClientHello
  BY <1>0, <1>1, ClientHelloSaid
<1>2. CASE ParseServerHello
  BY <1>0, <1>2, ServerHelloHeard
<1>3. CASE ParseServerKeyExchange
  <2>1. ssl["cli"].st = "SERVER_KEY_EXCHANGE"
    BY <1>3 DEF ParseServerKeyExchange, At
  <2>2. CASE KxOf("cli") = "RSA" /\ Move("cli", Onward(ssl["cli"]))
    BY <1>0, <2>1, <2>2, FirstSkips
  <2>3. CASE ~(KxOf("cli") = "RSA" /\ Move("cli", Onward(ssl["cli"])))
    <3>1. /\ Comes("cli")
          /\ \/ /\ KxOf("cli") = "DHE_RSA" /\ Msg("cli").msg = "SERVER_KEY_EXCHANGE"
                /\ Hear("cli", Onward(Heard("cli")))
             \/ /\ WithPsk("cli") /\ Msg("cli").msg \in HandshakeMessages
                /\ Hear("cli", Onward([Heard("cli") EXCEPT !.held = Msg("cli")]))
      BY <1>3, <2>3 DEF ParseServerKeyExchange, CameAs
    <3> QED BY <1>0, <2>1, <3>1, ServerKeysHeard
  <2> QED BY <2>2, <2>3
<1>4. CASE ParseCertificateRequest
  <2>1. ssl["cli"].st = "CERTIFICATE_REQUEST"
    BY <1>4 DEF ParseCertificateRequest, At
  <2>2. CASE WithPsk("cli")
    <3>1. Move("cli", Onward(ssl["cli"]))
      BY <1>4, <2>2 DEF ParseCertificateRequest
    <3> QED BY <1>0, <2>1, <2>2, <3>1, FirstSkips
  <2>3. CASE ~WithPsk("cli")
    <3>1. /\ Comes("cli") /\ Msg("cli").msg \in HandshakeMessages
          /\ LET request == Msg("cli").msg = "CERTIFICATE_REQUEST"
             IN Hear("cli", Onward([Heard("cli") EXCEPT
                              !.asked = request, !.held = IF request THEN NoMsg ELSE Msg("cli")]))
      BY <1>4, <2>3 DEF ParseCertificateRequest
    <3> QED BY <1>0, <2>1, <2>3, <3>1, RequestHeard
  <2> QED BY <2>2, <2>3
<1>5. CASE ParseServerHelloDone
  <2>1. ssl["cli"].st = "SERVER_HELLO_DONE"
    BY <1>5 DEF ParseServerHelloDone, At
  <2>2. CASE ssl["cli"].held.msg = "SERVER_HELLO_DONE"
    <3>1. Move("cli", Onward([ssl["cli"] EXCEPT !.held = NoMsg]))
      BY <1>5, <2>2 DEF ParseServerHelloDone, NoMsg
    <3> QED BY <1>0, <2>1, <2>2, <3>1, LastSkips
  <2>3. CASE ssl["cli"].held.msg # "SERVER_HELLO_DONE"
    <3>1. /\ Comes("cli") /\ ssl["cli"].held = NoMsg /\ Msg("cli").msg = "SERVER_HELLO_DONE"
          /\ Hear("cli", Onward(Heard("cli")))
      BY <1>5, <2>3 DEF ParseServerHelloDone, CameAs
    <3> QED BY <1>0, <2>1, <3>1, DoneHeard
  <2> QED BY <2>2, <2>3
<1>6. CASE WriteClientKeyExchange
  BY <1>0, <1>6, ClientSays
<1>7. CASE WriteCertificateVerify
  <2>1. ssl["cli"].st = "CERTIFICATE_VERIFY"
    BY <1>7 DEF WriteCertificateVerify, At
  <2>2. CASE WithPsk("cli") \/ ~ssl["cli"].asked \/ setting.cert["cli"] = "none"
    <3>1. Move("cli", Onward(ssl["cli"]))
      BY <1>7, <2>2 DEF WriteCertificateVerify
    <3> QED BY <1>0, <2>1, <2>2, <3>1, LastSkips
  <2>3. CASE ~(WithPsk("cli") \/ ~ssl["cli"].asked \/ setting.cert["cli"] = "none")
    <3>1. Say("cli", Onward(ssl["cli"]), [msg |-> "CERTIFICATE_VERIFY", over |-> ssl["cli"].log])
      BY <1>7, <2>3 DEF WriteCertificateVerify
    <3> QED BY <1>0, <2>1, <2>3, <3>1, ClientSays
  <2> QED BY <2>2, <2>3
<1>8. CASE ParseNewSessionTicket
  BY <1>0, <1>8, TicketHeard
<1> QED BY <1>1, <1>2, <1>3, <1>4, <1>5, <1>6, <1>7, <1>8 DEF ClientStep

\* The steps of the server that are its own.
LEMMA ServerPaced ==
  ASSUME NEW g, NEW a, Wary(g, "srv", a), ServerStep
  PROVE  Paced(g, "srv", a)
<1>0. Ready(g, "srv", a) /\ "srv" \in Ends /\ draws \in Nat /\ IsSequence(chain)
  BY Peers DEF Wary
<1>1. CASE ParseClientHello
  <2>1. Sealing(Msg("srv"))
    BY <1>1 DEF ParseClientHello, CameAs, Comes, Wary
  <2> QED BY <1>0, <1>1, <2>1, ClientHelloHeard
<1>2. CASE WriteServerHello
  <2>1. Naming(ssl["srv"])
    BY <1>2 DEF WriteServerHello, At, Wary
  <2> QED BY <1>0, <1>2, <2>1, ServerHelloSaid
<1>3. CASE WriteServerKeyExchange
  <2>1. ssl["srv"].st = "SERVER_KEY_EXCHANGE"
    BY <1>3 DEF WriteServerKeyExchange, At
  <2>2. CASE KxOf("srv") = "DHE_RSA"
    <3>1. Say("srv", Onward(ssl["srv"]), [msg |-> "SERVER_KEY_EXCHANGE"])
      BY <1>3, <2>2 DEF WriteServerKeyExchange
    <3> QED BY <1>0, <2>1, <2>2, <3>1, ServerSays
  <2>3. CASE KxOf("srv") # "DHE_RSA"
    <3>1. Move("srv", Onward(ssl["srv"]))
      BY <1>3, <2>3 DEF WriteServerKeyExchange
    <3> QED BY <1>0, <2>1, <2>3, <3>1, FirstSkips
  <2> QED BY <2>2, <2>3
<1>4. CASE WriteCertificateRequest
  <2>1. ssl["srv"].st = "CERTIFICATE_REQUEST"
    BY <1>4 DEF WriteCertificateRequest, At
  <2>2. CASE WithPsk("srv") \/ setting.auth["srv"] = "NONE"
    <3>1. Move("srv", Onward(ssl["srv"]))
      BY <1>4, <2>2 DEF WriteCertificateRequest
    <3> QED BY <1>0, <2>1, <2>2, <3>1, FirstSkips
  <2>3. CASE ~(WithPsk("srv") \/ setting.auth["srv"] = "NONE")
    <3>1. Say("srv", Onward(ssl["srv"]), [msg |-> "CERTIFICATE_REQUEST"])
      BY <1>4, <2>3 DEF WriteCertificateRequest
    <3> QED BY <1>0, <2>1, <2>3, <3>1, ServerSays
  <2> QED BY <2>2, <2>3
<1>5. CASE WriteServerHelloDone
  <2>1. /\ ssl["srv"].st = "SERVER_HELLO_DONE"
        /\ Say("srv", Onward(ssl["srv"]), [msg |-> "SERVER_HELLO_DONE"])
    BY <1>5 DEF WriteServerHelloDone, At
  <2> QED BY <1>0, <2>1, ServerSays
<1>6. CASE ParseClientKeyExchange
  BY <1>0, <1>6, ClientKeysHeard
<1>7. CASE ParseCertificateVerify
  <2> DEFINE none == WithPsk("srv") \/ ssl["srv"].neg.cert = "none"
  <2>1. ssl["srv"].st = "CERTIFICATE_VERIFY"
    BY <1>7 DEF ParseCertificateVerify, At
  <2>2. CASE none
    <3>1. Move("srv", Onward(ssl["srv"]))
      BY <1>7, <2>2 DEF ParseCertificateVerify
    <3> QED BY <1>0, <2>1, <2>2, <3>1, LastSkips
  <2>3. CASE ~none
    <3>1. /\ CameAs("srv", "CERTIFICATE_VERIFY")
          /\ Msg("srv").over = ssl["srv"].log => Hear("srv", Onward(Heard("srv")))
      BY <1>7, <2>3 DEF ParseCertificateVerify
    <3> QED BY <1>0, <2>1, <2>3, <3>1, SignatureHeard
  <2> QED BY <2>2, <2>3
<1>8. CASE WriteNewSessionTicket
  BY <1>0, <1>8, TicketSaid
<1> QED BY <1>1, <1>2, <1>3, <1>4, <1>5, <1>6, <1>7, <1>8 DEF ServerStep

\* The certificate of an end is written, or one is not read.
LEMMA CertificatesPaced ==
  ASSUME NEW g, NEW s \in Ends, NEW a, Ready(g, s, a), WriteCertificate(s) \/ SkipCertificate(s)
  PROVE  Paced(g, s, a)
<1>1. CASE WriteCertificate(s) /\ s = "srv"
  <2>1. ssl["srv"].st = "SERVER_CERTIFICATE"
    BY <1>1 DEF WriteCertificate, At, CertState
  <2>2. CASE KxOf("srv") = "PSK"
    <3>1. Move("srv", Onward(ssl["srv"]))
      BY <1>1, <2>2 DEF WriteCertificate
    <3> QED BY <1>1, <2>1, <2>2, <3>1, FirstSkips
  <2>3. CASE KxOf("srv") # "PSK"
    <3>1. Say("srv", Onward(ssl["srv"]), [msg |-> "CERTIFICATE", cert |-> setting.cert["srv"]])
      BY <1>1, <2>3, "srv" # "cli" DEF WriteCertificate
    <3> QED BY <1>1, <2>1, <2>3, <3>1, ServerSays
  <2> QED BY <2>2, <2>3
<1>2. CASE WriteCertificate(s) /\ s = "cli"
  <2>1. ssl["cli"].st = "CLIENT_CERTIFICATE"
    BY <1>2 DEF WriteCertificate, At, CertState
  <2>2. CASE KxOf("cli") = "PSK" \/ ~ssl["cli"].asked
    <3>1. Move("cli", Onward(ssl["cli"]))
      BY <1>2, <2>2 DEF WriteCertificate
    <3> QED BY <1>2, <2>1, <2>2, <3>1, LastSkips
  <2>3. CASE KxOf("cli") # "PSK" /\ ssl["cli"].asked
    <3>1. Say("cli", Onward(ssl["cli"]), [msg |-> "CERTIFICATE", cert |-> setting.cert["cli"]])
      BY <1>2, <2>3 DEF WriteCertificate
    <3> QED BY <1>2, <2>1, <2>3, <3>1, ClientSays
  <2> QED BY <2>2, <2>3
<1>3. CASE SkipCertificate(s) /\ s = "cli"
  <2>1. /\ ssl[s].st = "SERVER_CERTIFICATE" /\ KxOf(s) = "PSK" /\ Move(s, Onward(ssl[s]))
    BY <1>3 DEF SkipCertificate, At, CertState
  <2> QED BY <2>1, FirstSkips
<1>4. CASE SkipCertificate(s) /\ s = "srv"
  <2>1. ssl[s].st = "CLIENT_CERTIFICATE"
    BY <1>4 DEF SkipCertificate, At, CertState
  <2>2. \/ KxOf(s) = "PSK" /\ Move(s, Onward(ssl[s]))
        \/ /\ setting.auth[s] = "NONE" \/ KxOf(s) = "RSA_PSK"
           /\ Move(s, Onward([ssl[s] EXCEPT !.neg.verify = "skip"]))
    BY <1>4 DEF SkipCertificate
  <2> QED BY <1>4, <2>1, <2>2, LastSkips
<1> QED BY <1>1, <1>2, <1>3, <1>4 DEF Ends

\* What an end that waits for the client's or the server's Finished has before it.
LEMMA ChangeAt ==
  ASSUME NEW g, NEW s \in Ends, NEW a, Ready(g, s, a), Reads(s), a.at = Change(Peer(s))
  PROVE  ssl[s].st = Finished(Peer(s))
<1> DEFINE x == ssl[s]
           kx == KxIn(x.log)
<1>1. Stands(g, s, x, a)
  BY DEF Ready
<1>2. /\ New \notin {Change("cli"), Change("srv")} /\ None \notin {Change("cli"), Change("srv")}
      /\ Asks \cap {Change("cli"), Change("srv")} = {}
  BY DEF New, None, Change, Asks
<1>3. CASE x.st \in Resting
  <2>1. a.at \in {New, None}
    BY <1>1, <1>3 DEF Stands, Settled, Idle
  <2> QED BY <1>2, <2>1, Peers DEF Ends
<1>4. CASE x.st = "SERVER_HELLO"
  <2>1. x.st \notin Resting
    BY <1>4 DEF Resting, Unasked, Ending
  <2>2. a.at \in Asks
    BY <1>1, <1>4 DEF Stands, Greets, Asks
  <2> QED BY <1>2, <2>2, Peers DEF Ends
<1>5. CASE x.st \notin Resting \cup {"SERVER_HELLO"}
  <2>1. /\ Agreed(g, s, x, a) /\ Placed(g, x, a.at) /\ Kx[x.neg.suite] = kx
        /\ s = "cli" => CliPlaced(g, x, a.at)
        /\ s # "cli" => SrvPlaced(g, x, a.at)
    BY <1>1, <1>5, MidFacts DEF Halfway
  <2>2. x.st \notin {"HANDSHAKE_OVER", "SERVER_HELLO", "CLIENT_HELLO"} /\ x.held \in {x.held}
    BY <1>5 DEF Resting, Unasked
  <2>3. KxOf(s) = kx /\ WithPsk(s) = Psk(kx)
    BY <2>1 DEF KxOf, WithPsk, Psk
  <2>4. /\ BeforeRequest(kx) \in {"SERVER_HELLO", "SERVER_KEY_EXCHANGE", "SERVER_CERTIFICATE"}
        /\ BeforeDone(g, kx) \in {"SERVER_HELLO", "SERVER_KEY_EXCHANGE", "SERVER_CERTIFICATE",
                                  "CERTIFICATE_REQUEST"}
    BY DEF BeforeRequest, BeforeDone
  <2>5. CASE s = "cli"
    <3>1. /\ Change(Peer(s)) = "SERVER_CHANGE_CIPHER_SPEC" /\ CliPlaced(g, x, a.at)
          /\ Finished(Peer(s)) = "SERVER_FINISHED"
      BY <2>1, <2>5 DEF Change, Peer, Finished
    <3>2. \/ x.st = "SERVER_CERTIFICATE" \/ x.st \in {"SERVER_CHANGE_CIPHER_SPEC", "SERVER_FINISHED"}
          \/ x.st = "SERVER_KEY_EXCHANGE"
          \/ x.st = "CERTIFICATE_REQUEST" /\ ~WithPsk(s)
          \/ x.st = "SERVER_HELLO_DONE" /\ x.held = NoMsg
      BY <2>2, <2>5 DEF Reads, CertState
    <3> HIDE DEF x, kx
    <3>3. x.st = "SERVER_CERTIFICATE" => a.at = "SERVER_HELLO"
      BY <2>1 DEF Placed
    <3>4. x.st = "SERVER_KEY_EXCHANGE" => a.at \in {"SERVER_HELLO", "SERVER_CERTIFICATE"}
      BY <2>1 DEF Placed
    <3>5. x.st = "CERTIFICATE_REQUEST" /\ ~WithPsk(s) => a.at = BeforeRequest(kx)
      BY <2>1, <2>3, <3>1 DEF Placed, CliPlaced, kx
    <3>6. x.st = "SERVER_HELLO_DONE" /\ x.held = NoMsg => a.at = BeforeDone(g, kx)
      BY <2>1 DEF Placed, kx
    <3>7. x.st = "SERVER_CHANGE_CIPHER_SPEC" =>
            a.at \in {"NEW_SESSION_TICKET", "SERVER_HELLO", "CLIENT_FINISHED"}
      BY <2>1 DEF Placed
    <3> QED BY <2>4, <3>1, <3>2, <3>3, <3>4, <3>5, <3>6, <3>7 DEF x
  <2>6. CASE s = "srv"
    <3>1. /\ Change(Peer(s)) = "CLIENT_CHANGE_CIPHER_SPEC" /\ SrvPlaced(g, x, a.at)
          /\ Finished(Peer(s)) = "CLIENT_FINISHED"
      BY <2>1, <2>6 DEF Change, Peer, Finished
    <3>2. \/ x.st \in {"CLIENT_CERTIFICATE", "CLIENT_KEY_EXCHANGE", "CERTIFICATE_VERIFY"}
          \/ x.st \in {"CLIENT_CHANGE_CIPHER_SPEC", "CLIENT_FINISHED"}
      BY <2>2, <2>6 DEF Reads, CertState
    <3> HIDE DEF x
    <3>3. x.st = "CLIENT_CERTIFICATE" => a.at = "SERVER_HELLO_DONE"
      BY <2>1 DEF Placed
    <3>4. x.st = "CLIENT_KEY_EXCHANGE" => a.at \in {"CLIENT_CERTIFICATE", "SERVER_HELLO_DONE"}
      BY <3>1 DEF SrvPlaced
    <3>5. x.st = "CERTIFICATE_VERIFY" => a.at = "CLIENT_KEY_EXCHANGE"
      BY <2>1 DEF Placed
    <3>6. x.st = "CLIENT_CHANGE_CIPHER_SPEC" =>
            a.at \in {"SERVER_FINISHED", "CERTIFICATE_VERIFY", "CLIENT_KEY_EXCHANGE"}
      BY <2>1 DEF Placed
    <3> QED BY <3>1, <3>2, <3>3, <3>4, <3>5, <3>6 DEF x
  <2> QED BY <2>5, <2>6 DEF Ends
<1> QED BY <1>3, <1>4, <1>5

\* No other message is held in place of the server's Finished.
LEMMA NotMistaken ==
  ASSUME NEW g, NEW s \in Ends, NEW x, NEW a, Stands(g, s, x, a)
  PROVE  ~Mistaken(x)
<1>1. CASE x.st \in Resting \cup {"SERVER_HELLO"} \/ s = "srv"
  BY <1>1 DEF Stands, Mistaken, NoMsg
<1>2. CASE x.st \notin Resting \cup {"SERVER_HELLO"} /\ s = "cli"
  <2>1. CliPlaced(g, x, a.at)
    BY <1>2 DEF Stands
  <2> QED BY <2>1 DEF CliPlaced, Mistaken, NoMsg
<1> QED BY <1>1, <1>2 DEF Ends

\* A record that does not open is the peer's Finished.
LEMMA KeysFit ==
  ASSUME NEW g, NEW s \in Ends, NEW a, Ready(g, s, a), Reads(s), wire[s] # <<>>,
         Opens(wire[s], ssl[s].in, ssl[Peer(s)].out), Head(wire[s]).keys # InKeys(s)
  PROVE  /\ ssl[s].st = Finished(Peer(s)) /\ Msg(s).msg = "FINISHED" /\ ~Noise(Msg(s))
         /\ Sealed(g, Peer(s), a, Head(wire[s]))
<1> DEFINE p == Peer(s)
           w == wire[s]
<1>0. /\ p \in Ends /\ IsSequence(w) /\ ssl[s].err = "OK" /\ Stands(g, s, ssl[s], a) /\ Matches(s)
      /\ None \notin {Change("cli"), Change("srv")}
      /\ "CLIENT_HELLO_AGAIN" \notin {Change("cli"), Change("srv")}
      /\ w # <<>> /\ Change(p) \in {Change("cli"), Change("srv")}
  BY Peers, ReadyFacts DEF Ready, Agreeing, Shapes, None, Change, Ends
<1>1. CASE a.at = Change(p)
  <2>1. ssl[s].st = Finished(p)
    BY <1>1, ChangeAt
  <2>2. PICK b : Goes(g, p, a, Head(w), b)
    BY <1>0, <1>1 DEF Ready
  <2>3. ~Hush(p, a.at, Head(w).m)
    BY <1>0, <1>1 DEF Hush
  <2>4. PICK t : Leads(g, p, a, Head(w).m, t)
    BY <2>2, <2>3 DEF Goes, Tells
  <2>5. Head(w).m.msg = "FINISHED" /\ ~Noise(Head(w).m)
    BY <1>0, <1>1, <2>4, LeadsTurn
  <2>6. Msg(s).msg = "FINISHED" /\ ~Noise(Msg(s))
    BY <2>5 DEF Msg
  <2> QED BY <2>1, <2>6, ReadTells
<1>2. CASE a.at # Change(p)
  <2>1. ssl[s].st # Finished(p)
    <3>1. SUFFICES ASSUME ssl[s].st = Finished(p) PROVE FALSE
      OBVIOUS
    <3>2. ssl[s].st \notin Resting \cup {"SERVER_HELLO"}
      BY <3>1 DEF Finished, Resting, Unasked, Ending
    <3>3. Placed(g, ssl[s], a.at)
      BY <1>0, <3>2 DEF Stands
    <3>4. a.at = Change(p)
      BY <3>1, <3>3 DEF Placed, Finished, Change
    <3> QED BY <1>2, <3>4
  <2>2. InKeys(s) = ssl[s].in
    BY <2>1 DEF InKeys, Finished, Peer
  <2>3. Head(w).m.msg # "FINISHED"
    <3>1. SUFFICES ASSUME Msg(s).msg = "FINISHED" PROVE FALSE
      BY DEF Msg
    <3>2. PICK t : Leads(g, p, a, Msg(s), t)
      BY <1>0, <3>1, ReadTells DEF Noise
    <3> QED BY <1>0, <1>2, <3>1, <3>2, LeadsTurn
  <2>4. Len(w) \in Nat /\ 1 \in 1..Len(w) /\ Head(w) = w[1]
    BY <1>0, Shortened
  <2>5. ~\E j \in 1..Len(w) : 1 < j /\ w[j].m.msg = "FINISHED"
    BY <2>2, <2>4 DEF Opens
  <2>6. w[1].keys = ssl[p].out
    BY <2>4, <2>5 DEF Opens
  <2>7. ~Has(w, "FINISHED")
    <3>1. \A j \in 1..Len(w) : j = 1 \/ 1 < j
      BY <2>4
    <3> QED BY <2>3, <2>4, <2>5, <3>1 DEF Has
  <2>8. ssl[s].in = ssl[p].out
    BY <1>0, <2>7, NotMistaken DEF Matches
  <2> QED BY <2>2, <2>4, <2>6, <2>8
<1> QED BY <1>1, <1>2

\* A record that is not used, or cannot be read.
LEMMA UselessPaced ==
  ASSUME NEW g, NEW s \in Ends, NEW a, Ready(g, s, a), Unexpected(s) \/ ReadFails(s),
         Opens(wire[s], ssl[s].in, ssl[Peer(s)].out)
  PROVE  Paced(g, s, a)
<1>1. CASE Unexpected(s)
  <2>1. \/ wire[s] # <<>> /\ Fail(s, "UNEXPECTED")
        \/ Move(s, [ssl[s] EXCEPT !.err = "UNEXPECTED"])
    BY <1>1 DEF Unexpected, Comes
  <2> QED BY <2>1, FailPaced
<1>2. CASE ReadFails(s)
  <2>1. CASE wire[s] # <<>> /\ Head(wire[s]).keys # InKeys(s)
    <3>1. Refuse(s, "INVALID_MAC") \/ Move(s, [ssl[s] EXCEPT !.err = "CONN_EOF"])
      BY <1>2, <2>1 DEF ReadFails
    <3>2. ~Noise(Msg(s))
      BY <1>2, <2>1, KeysFit DEF ReadFails
    <3> QED BY <2>1, <3>1, <3>2, FailPaced
  <2>2. CASE wire[s] # <<>> /\ Head(wire[s]).keys = InKeys(s)
    <3>1. Msg(s).msg \in {"fatal", "close_notify"}
      BY <1>2, <2>2 DEF ReadFails, Comes
    <3>2. Fail(s, Msg(s).msg)
      BY <1>2, <2>2 DEF ReadFails
    <3> QED BY <2>2, <3>1, <3>2, FailPaced
  <2>3. CASE wire[s] = <<>>
    <3>1. Move(s, [ssl[s] EXCEPT !.err = "CONN_EOF"])
      BY <1>2, <2>3 DEF ReadFails
    <3> QED BY <3>1, FailPaced
  <2> QED BY <2>1, <2>2, <2>3
<1> QED BY <1>1, <1>2

-----------------------------------------------------------------------------
(* The programs.                                                            *)

\* Between handshakes an end reads and writes what is no handshake.
LEMMA HummingPaced ==
  ASSUME NEW g, NEW s \in Ends, NEW a, a.at = None, ssl'[s].asked \in BOOLEAN,
         ssl'[s].err = "OK" => Stands(g, s, ssl'[s], a),
         \/ wire'[s] = wire[s]
         \/ wire[s] # <<>> /\ wire'[s] = Tail(wire[s]) /\ Noise(Head(wire[s]).m),
         \/ wire'[Peer(s)] = wire[Peer(s)]
         \/ \E r : Noise(r.m) /\ wire'[Peer(s)] = Append(wire[Peer(s)], r)
  PROVE  Paced(g, s, a)
BY DEF Paced, Paces

\* An end whose handshake is over.
LEMMA OverFacts ==
  ASSUME NEW g, NEW s \in Ends, NEW a, Ready(g, s, a), ssl[s].st = "HANDSHAKE_OVER"
  PROVE  a = Idle(None) /\ a.at = None /\ ssl[s].held = NoMsg /\ ~ssl[s].resume
<1>1. Fit(s, ssl[s]) /\ Stands(g, s, ssl[s], a)
  BY ReadyFacts DEF Ready
<1>2. "HANDSHAKE_OVER" \in Resting /\ "HANDSHAKE_OVER" \notin Unasked
  BY DEF Resting, Unasked
<1>3. a = Idle(None) /\ ssl[s].held = NoMsg /\ ~ssl[s].resume
  BY <1>1, <1>2 DEF Stands, Settled, Fit
<1>4. a.at = None
  BY <1>3 DEF Idle
<1> QED BY <1>3, <1>4

\* Its context where only what does not matter changes.
LEMMA OverStands ==
  ASSUME NEW g, NEW s \in Ends, NEW a, Ready(g, s, a), ssl[s].st = "HANDSHAKE_OVER",
         NEW y, y.st = "HANDSHAKE_OVER", y.held = NoMsg,
         y.asked = ssl[s].asked, y.resume = ssl[s].resume, y.due = ssl[s].due
  PROVE  Stands(g, s, y, a)
<1>1. a = Idle(None) /\ ~ssl[s].resume
  BY OverFacts
<1>2. "HANDSHAKE_OVER" \in Resting /\ "HANDSHAKE_OVER" \notin Unasked
  BY DEF Resting, Unasked
<1>3. y.asked \in BOOLEAN /\ y.resume \in BOOLEAN /\ y.due \in BOOLEAN /\ ~y.resume
  BY <1>1, ReadyFacts
<1>4. Settled(g, s, y, a)
  BY <1>1, <1>2 DEF Settled
<1> QED BY <1>2, <1>3, <1>4 DEF Stands

\* It starts over.
LEMMA RenewedStands ==
  ASSUME NEW g, NEW s \in Ends, NEW a, Ready(g, s, a), ssl[s].st = "HANDSHAKE_OVER"
  PROVE  LET y == Renewed(ssl[s])
         IN /\ DOMAIN y = ContextFields /\ y.err = "OK" /\ y.asked \in BOOLEAN
            /\ Stands(g, s, y, a)
<1> DEFINE x == ssl[s]
           y == Renewed(x)
<1>1. /\ DOMAIN x = ContextFields /\ x.err = "OK" /\ x.asked \in BOOLEAN /\ x.held = NoMsg
      /\ a = Idle(None)
  <2>1. DOMAIN x = ContextFields /\ x.asked \in BOOLEAN
    BY ReadyFacts
  <2>2. ssl[s].held = NoMsg /\ a = Idle(None)
    BY OverFacts
  <2> QED BY <2>1, <2>2 DEF Ready
<1> HIDE DEF x
<1>2. /\ DOMAIN y = ContextFields /\ y.err = x.err /\ y.asked = x.asked /\ y.held = x.held
      /\ y.st = "HELLO_REQUEST" /\ y.reneg = "RENEGOTIATION" /\ y.log = <<>> /\ y.neg = NoSession
      /\ y.resume = FALSE /\ y.due = FALSE
  BY <1>1 DEF Renewed, Fresh, ContextFields
<1> HIDE DEF y
<1>3. y.st \in Unasked /\ y.st \in Resting /\ y.st # "SERVER_HELLO"
  BY <1>2 DEF Unasked, Resting
<1>4. Settled(g, s, y, a)
  BY <1>1, <1>2, <1>3 DEF Settled
<1>5. Stands(g, s, y, a)
  BY <1>1, <1>2, <1>3, <1>4 DEF Stands
<1> QED BY <1>1, <1>2, <1>5 DEF x, y

\* Data come.
LEMMA DataPaced ==
  ASSUME NEW g, NEW s \in Ends, NEW a, Ready(g, s, a), ReadData(s)
  PROVE  Paced(g, s, a)
<1> DEFINE x == ssl[s]
           n == IF x.reneg \in {"PENDING", "RENEGOTIATION"} THEN x.seen + 1 ELSE x.seen
           y == [x EXCEPT !.seen = n]
<1>1. /\ x.st = "HANDSHAKE_OVER" \/ (s = "cli" /\ x.st = "SERVER_HELLO" /\ x.reneg = "RENEGOTIATION")
      /\ wire[s] # <<>> /\ Msg(s).msg \notin HandshakeMessages /\ Msg(s).msg # "fatal"
      /\ Fail(s, "RENEGOTIATION") \/ Hear(s, y)
  <2>1. [x EXCEPT !.seen = IF x.reneg \in {"PENDING", "RENEGOTIATION"} THEN @ + 1 ELSE @] = y
    OBVIOUS
  <2>2. Fail(s, "RENEGOTIATION") \/ Hear(s, y)
    BY <2>1 DEF ReadData
  <2>3. /\ x.st = "HANDSHAKE_OVER" \/ (s = "cli" /\ x.st = "SERVER_HELLO" /\ x.reneg = "RENEGOTIATION")
        /\ wire[s] # <<>> /\ Msg(s).msg \notin HandshakeMessages /\ Msg(s).msg # "fatal"
    BY DEF ReadData, Over, WaitsInRenegotiation, At, Comes
  <2> QED BY <2>2, <2>3
<1>2. CASE Fail(s, "RENEGOTIATION")
  BY <1>1, <1>2, FailPaced
<1>3. CASE Hear(s, y)
  <2>1. a.at \in {None, "CLIENT_HELLO_AGAIN"}
    <3>1. CASE x.st = "HANDSHAKE_OVER"
      BY <3>1, OverFacts
    <3>2. CASE s = "cli" /\ x.st = "SERVER_HELLO" /\ x.reneg = "RENEGOTIATION"
      BY <3>2 DEF Ready, Stands, Greets
    <3> QED BY <1>1, <3>1, <3>2
  <2>2. Goes(g, Peer(s), a, Head(wire[s]), a)
    <3>1. PICK b : Goes(g, Peer(s), a, Head(wire[s]), b)
      BY <1>1 DEF Ready, Msg
    <3>2. ~Tells(g, Peer(s), a, Head(wire[s]), b)
      <4>1. SUFFICES ASSUME NEW t, Leads(g, Peer(s), a, Msg(s), t) PROVE FALSE
        BY DEF Tells, Msg
      <4>2. /\ None \notin {"CLIENT_HELLO_AGAIN", "CLIENT_HELLO", Change("cli"), Change("srv")}
            /\ "CLIENT_HELLO_AGAIN" \notin CliTurn /\ None \notin SrvTurn
        BY DEF None, New, Change, CliTurn, SrvTurn, Asks
      <4>3. CASE Peer(s) = "cli"
        <5>1. CliLeads(g, a, Msg(s), t) /\ a.at = None
          <6>1. TurnOf("cli", a.at)
            BY <4>1, <4>3, Peers, LeadsTurn
          <6> QED BY <2>1, <4>1, <4>2, <4>3, <6>1 DEF Leads, TurnOf
        <5> QED BY <1>1, <5>1 DEF CliLeads, HandshakeMessages, None, New
      <4>4. CASE Peer(s) = "srv"
        <5>1. SrvLeads(g, a, Msg(s), t) /\ a.at = "CLIENT_HELLO_AGAIN"
          <6>1. TurnOf("srv", a.at)
            BY <4>1, <4>4, Peers, LeadsTurn
          <6> QED BY <2>1, <4>1, <4>2, <4>4, <6>1 DEF Leads, TurnOf
        <5> QED BY <1>1, <5>1 DEF SrvLeads, HandshakeMessages
      <4> QED BY <4>3, <4>4, Peers DEF Ends
    <3> QED BY <3>1, <3>2 DEF Goes
  <2>3. /\ Shapes /\ DOMAIN x = ContextFields /\ x.asked \in BOOLEAN /\ Stands(g, s, x, a)
    BY ReadyFacts DEF Ready
  <2> HIDE DEF x, n
  <2>4. /\ DOMAIN y = ContextFields /\ y.st = x.st /\ y.reneg = x.reneg /\ y.asked = x.asked
        /\ y.resume = x.resume /\ y.due = x.due /\ y.held = x.held /\ y.neg = x.neg
        /\ y.log = x.log /\ y.cr = x.cr
    BY <2>3 DEF ContextFields
  <2> HIDE DEF y
  <2>5. ssl'[s] = y /\ Carries(g, s, a, a)
    <3>1. ssl'[s] = y /\ wire'[s] = Tail(wire[s]) /\ wire'[Peer(s)] = wire[Peer(s)]
      BY <1>3, <2>3, <2>4, StepParts
    <3> QED BY <1>1, <2>2, <3>1 DEF Carries
  <2>6. Stands(g, s, y, a)
    <3>1. CASE x.st = "HANDSHAKE_OVER"
      <4>1. /\ a = Idle(None) /\ ~x.resume /\ x.held = NoMsg
        BY <3>1, OverFacts DEF x
      <4> QED BY <2>4, <3>1, <4>1, OverStands DEF x
    <3>2. CASE s = "cli" /\ x.st = "SERVER_HELLO"
      <4>1. x.st \notin Resting
        BY <3>2 DEF Resting, Unasked, Ending
      <4>2. Greets(g, s, x, a)
        BY <2>3, <3>2 DEF Stands
      <4>3. Greets(g, s, y, a)
        BY <2>4, <4>2 DEF Greets
      <4> QED BY <2>3, <2>4, <3>2, <4>1, <4>3 DEF Stands
    <3> QED BY <1>1, <3>1, <3>2 DEF x
  <2> QED BY <2>3, <2>4, <2>5, <2>6, CarriedPaced
<1> QED BY <1>1, <1>2, <1>3

\* A handshake message comes after the handshake.
LEMMA AskedPaced ==
  ASSUME NEW g, NEW s \in Ends, NEW a, Ready(g, s, a), ReadHandshake(s)
  PROVE  Paced(g, s, a)
<1> DEFINE x == ssl[s]
           y == Renewed(x)
<1>1. /\ x.st = "HANDSHAKE_OVER" /\ wire[s] # <<>> /\ Msg(s).msg \in HandshakeMessages
      /\ \/ Fail(s, "UNEXPECTED")
         \/ Answer(s, x, "no_renegotiation") /\ (s = "cli" => Msg(s).msg = "HELLO_REQUEST")
         \/ s = "cli" /\ Msg(s).msg = "HELLO_REQUEST" /\ Hear(s, y)
         \/ Move(s, y)
  BY DEF ReadHandshake, Over, Comes
<1>2. Shapes /\ DOMAIN x = ContextFields /\ x.asked \in BOOLEAN /\ Stands(g, s, x, a)
  BY ReadyFacts DEF Ready
<1>3. a.at = None
  BY <1>1, OverFacts
<1>4. DOMAIN y = ContextFields /\ y.asked \in BOOLEAN /\ Stands(g, s, y, a)
  BY <1>1, RenewedStands
<1>5. CASE Fail(s, "UNEXPECTED")
  BY <1>1, <1>5, FailPaced
<1>6. CASE Answer(s, x, "no_renegotiation") /\ (s = "cli" => Msg(s).msg = "HELLO_REQUEST")
  <2> DEFINE r == [keys |-> x.out, m |-> [msg |-> "no_renegotiation"]]
  <2>1. /\ ssl'[s] = x /\ wire'[s] = Tail(wire[s])
        /\ wire'[Peer(s)] = Append(wire[Peer(s)], r) /\ Noise(r.m)
    <3>1. Noise(r.m)
      BY DEF Noise
    <3> QED BY <1>2, <1>6, <3>1, StepParts
  <2> HIDE DEF r
  <2>2. CASE Noise(Msg(s))
    BY <1>1, <1>2, <1>3, <2>1, <2>2, HummingPaced DEF Msg
  <2>3. CASE ~Noise(Msg(s))
    <3>1. s = "srv" /\ Peer(s) = "cli"
      BY <1>6, <2>3, Peers DEF Noise, Ends
    <3>2. PICK t : Leads(g, Peer(s), a, Msg(s), t)
      BY <1>1, <2>3, ReadTells
    <3>3. CliLeads(g, a, Msg(s), t)
      BY <3>1, <3>2 DEF Leads
    <3>4. Head(wire[s]).m.msg = "CLIENT_HELLO"
      BY <1>3, <3>3 DEF CliLeads, None, New, Msg
    <3> QED BY <1>1, <1>2, <1>3, <2>1, <3>1, <3>4 DEF Paced, Paces
  <2> QED BY <2>2, <2>3
<1>7. CASE s = "cli" /\ Msg(s).msg = "HELLO_REQUEST" /\ Hear(s, y)
  <2>1. /\ ssl'[s] = y /\ wire'[s] = Tail(wire[s]) /\ wire'[Peer(s)] = wire[Peer(s)]
    BY <1>2, <1>4, <1>7, StepParts
  <2>2. Noise(Head(wire[s]).m)
    BY <1>7 DEF Noise, Msg
  <2> HIDE DEF y
  <2> QED BY <1>1, <1>3, <1>4, <2>1, <2>2, HummingPaced
<1>8. CASE Move(s, y)
  <2>1. /\ ssl'[s] = y /\ wire'[s] = wire[s] /\ wire'[Peer(s)] = wire[Peer(s)]
    BY <1>2, <1>4, <1>8, StepParts
  <2> HIDE DEF y
  <2> QED BY <1>3, <1>4, <2>1, HummingPaced
<1> QED BY <1>1, <1>5, <1>6, <1>7, <1>8

\* The program writes, asks for a renegotiation or closes the connection.
LEMMA ProgramPaced ==
  ASSUME NEW g, NEW s \in Ends, NEW a, Ready(g, s, a), Write(s) \/ Renegotiate(s) \/ Close(s)
  PROVE  Paced(g, s, a)
<1> DEFINE x == ssl[s]
           y == Renewed(x)
           pending == [x EXCEPT !.reneg = "PENDING"]
           closed == [x EXCEPT !.err = "CLOSED"]
           data == [msg |-> "DATA", n |-> sent[s] + 1]
           request == [msg |-> "HELLO_REQUEST"]
           notify == [msg |-> "close_notify"]
<1>1. /\ x.st = "HANDSHAKE_OVER"
      /\ \/ Say(s, x, data) \/ Move(s, y) \/ Say(s, pending, request) \/ Say(s, closed, notify)
  BY DEF Write, Renegotiate, Close, Over
<1>2. Shapes /\ DOMAIN x = ContextFields /\ x.asked \in BOOLEAN /\ Stands(g, s, x, a)
  BY ReadyFacts DEF Ready
<1>3. a.at = None /\ x.held = NoMsg
  BY <1>1, OverFacts
<1>4. DOMAIN y = ContextFields /\ y.asked \in BOOLEAN /\ Stands(g, s, y, a)
  BY <1>1, RenewedStands
<1>5. Noise(data) /\ Noise(request) /\ Noise(notify)
  BY DEF Noise
<1>6. /\ data.msg \notin HandshakeMessages \ {"HELLO_REQUEST"}
      /\ request.msg \notin HandshakeMessages \ {"HELLO_REQUEST"}
      /\ notify.msg \notin HandshakeMessages \ {"HELLO_REQUEST"}
  BY DEF HandshakeMessages
<1> HIDE DEF data, request, notify
<1>7. CASE Move(s, y)
  <2>1. /\ ssl'[s] = y /\ wire'[s] = wire[s] /\ wire'[Peer(s)] = wire[Peer(s)]
    BY <1>2, <1>4, <1>7, StepParts
  <2> HIDE DEF y
  <2> QED BY <1>3, <1>4, <2>1, HummingPaced
<1>8. ASSUME NEW z, NEW m, Say(s, z, m), DOMAIN z = ContextFields, Noise(m),
             m.msg \notin HandshakeMessages \ {"HELLO_REQUEST"},
             z.asked \in BOOLEAN, z.err = "OK" => Stands(g, s, z, a)
      PROVE  Paced(g, s, a)
  <2> DEFINE r == [keys |-> z.out, m |-> m]
  <2>1. ssl'[s] = z
    BY <1>2, <1>8 DEF Say, Shapes
  <2>2. wire'[s] = wire[s] /\ wire'[Peer(s)] = Append(wire[Peer(s)], r) /\ Noise(r.m)
    BY <1>2, <1>8, StepParts
  <2> HIDE DEF r
  <2> QED BY <1>3, <1>8, <2>1, <2>2, HummingPaced
<1>9. CASE Say(s, x, data)
  BY <1>2, <1>5, <1>6, <1>8, <1>9
<1>10. CASE Say(s, pending, request)
  <2>1. /\ DOMAIN pending = ContextFields /\ pending.st = x.st /\ pending.held = x.held
        /\ pending.asked = x.asked /\ pending.resume = x.resume /\ pending.due = x.due
    BY <1>2 DEF ContextFields
  <2> HIDE DEF pending
  <2>2. Stands(g, s, pending, a)
    BY <1>1, <1>3, <2>1, OverStands
  <2> QED BY <1>2, <1>5, <1>6, <1>8, <1>10, <2>1, <2>2
<1>11. CASE Say(s, closed, notify)
  <2>1. DOMAIN closed = ContextFields /\ closed.asked = x.asked /\ closed.err # "OK"
    BY <1>2 DEF ContextFields
  <2> HIDE DEF closed
  <2> QED BY <1>2, <1>5, <1>6, <1>8, <1>11, <2>1
<1> QED BY <1>1, <1>7, <1>9, <1>10, <1>11

\* Whatever an end does keeps to the script.
LEMMA EndPaced ==
  ASSUME NEW g, NEW s \in Ends, NEW a, Wary(g, s, a),
         Opens(wire[s], ssl[s].in, ssl[Peer(s)].out),
         \/ Handshake(s) \/ ReadData(s) \/ ReadHandshake(s)
         \/ Write(s) \/ Renegotiate(s) \/ Close(s)
  PROVE  Paced(g, s, a)
<1>0. Ready(g, s, a)
  BY DEF Wary
<1>1. CASE s = "cli" /\ ClientStep
  BY <1>1, ClientPaced
<1>2. CASE s = "srv" /\ ServerStep
  BY <1>2, ServerPaced
<1>3. CASE Begin(s)
  BY <1>0, <1>3, BeginPaced
<1>4. CASE WriteCertificate(s) \/ SkipCertificate(s)
  BY <1>0, <1>4, CertificatesPaced
<1>5. CASE ParseCertificate(s)
  BY <1>0, <1>5, CertificateHeard
<1>6. CASE WriteChangeCipherSpec(s) \/ ParseChangeCipherSpec(s)
  BY <1>0, <1>6, ChangeSaid, ChangeHeard
<1>7. CASE WriteFinished(s) \/ ParseFinished(s)
  BY <1>0, <1>7, FinishedSaid, FinishedHeard
<1>8. CASE FlushBuffers(s) \/ Wrapup(s)
  BY <1>0, <1>8, EndingPaced
<1>9. CASE Unexpected(s) \/ ReadFails(s)
  BY <1>0, <1>9, UselessPaced
<1>10. CASE ReadData(s) \/ ReadHandshake(s)
  BY <1>0, <1>10, DataPaced, AskedPaced
<1>11. CASE Write(s) \/ Renegotiate(s) \/ Close(s)
  BY <1>0, <1>11, ProgramPaced
<1> QED BY <1>1, <1>2, <1>3, <1>4, <1>5, <1>6, <1>7, <1>8, <1>9, <1>10, <1>11 DEF Handshake

-----------------------------------------------------------------------------
(* The script goes on with every step of an end.                            *)

\* The ticket in a hello that comes is one the client's program kept, and what the server
\* accepts of it is a session.
LEMMA SealedTicket ==
  ASSUME Opening, wire["srv"] # <<>>, Msg("srv").msg = "CLIENT_HELLO"
  PROVE  Sealing(Msg("srv"))
<1> DEFINE m == Msg("srv")
<1>1. PICK f : Traced(f)
  BY DEF Opening, Tracing
<1>2. /\ IsSequence(wire["srv"]) /\ clock \in Nat /\ Start <= clock
  BY DEF Opening, Tracing, Agreeing, Shapes, Ends, Cached
<1>3. 1 \in 1..Len(wire["srv"]) /\ wire["srv"][1].m = m
  BY <1>2, OnTheWire DEF Msg
<1>4. Issued(made, ssl["srv"], m.ticket)
  BY <1>1, <1>3 DEF Traced, ToldServer
<1>5. Offers(chain, draws, ssl["srv"], saved, m)
  BY <1>3 DEF Opening, Ties
<1>6. m.ticket # NoTicket => m.ticket = saved.ticket /\ m.id # 0
  BY <1>5 DEF Offers
<1>7. ASSUME Accepted(m.ticket)
      PROVE  DOMAIN m.ticket.state = SessionFields
  <2>1. m.ticket # NoTicket /\ clock - m.ticket.state.start <= TicketLifetime
    BY <1>7 DEF Accepted
  <2>2. m.ticket.state.start # 0
    BY <2>1, <1>2, HandshakeAssumption
  <2>3. CASE \E e \in made : e.session = m.ticket.state
    BY <2>3, <1>1 DEF Traced, Records
  <2>4. CASE Sure(ssl["srv"]) /\ ssl["srv"].neg = m.ticket.state
    BY <2>4, <1>1 DEF Traced, ServerKnows
  <2> QED BY <2>1, <2>2, <2>3, <2>4, <1>4 DEF Issued
<1> QED BY <1>6, <1>7 DEF Sealing

\* An end that has not failed is ready for whatever it does.
LEMMA WaryNow ==
  ASSUME Opening, NEW v, Scripted(Rules, v), NEW s \in Ends, ssl[s].err = "OK"
  PROVE  Wary(Rules, s, v[s])
<1> DEFINE d == [t \in Ends |-> ssl[t].err # "OK"]
<1>1. PICK f : Traced(f)
  BY DEF Opening, Tracing
<1>2. Agreeing /\ Shapes /\ draws \in Nat /\ IsSequence(chain)
  BY DEF Opening, Tracing, Agreeing, Cached, Entries
<1>3. DOMAIN ssl[s].neg = SessionFields
  <2>1. Fit(s, ssl[s]) /\ DOMAIN ssl["srv"].neg = SessionFields
    BY <1>1, <1>2 DEF Agreeing, Traced, ServerKnows
  <2> QED BY <2>1 DEF Fit, Ends
<1>4. Stands(Rules, s, ssl[s], v[s]) /\ InScript(Rules, v, wire, d)
  BY DEF Scripted
<1>5. ~d[s] /\ \A t \in Ends : IsSequence(wire[t])
  BY <1>2 DEF Shapes
<1> HIDE DEF d
<1>6. wire[s] # <<>> => \/ \E b : Goes(Rules, Peer(s), v[s], Head(wire[s]), b)
                        \/ Msg(s).msg = "fatal" /\ v[s].at # Change(Peer(s))
  BY <1>4, <1>5, InScriptHead DEF Msg
<1>7. Ready(Rules, s, v[s])
  BY <1>2, <1>3, <1>4, <1>6 DEF Ready
<1>8. s = "srv" /\ wire[s] # <<>> /\ Msg(s).msg = "CLIENT_HELLO" => Sealing(Msg(s))
  BY SealedTicket
<1>9. s = "srv" /\ ssl[s].st = "SERVER_HELLO" => Naming(ssl[s])
  BY DEF Opening, Ties, Naming
<1> QED BY <1>2, <1>7, <1>8, <1>9 DEF Wary

\* The rules are the same throughout a connection.
LEMMA SameRules ==
  ASSUME Opening, NEW s \in Ends, EndActs(s)
  PROVE  Rules' = Rules /\ saved' = saved /\ UNCHANGED <<setting, boot, clock>>
<1>1. Shapes
  BY DEF Opening, Tracing, Agreeing
<1>2. UNCHANGED setting
  BY <1>1, EndSteps DEF EndActs
<1>3. saved' = saved /\ boot' = boot /\ clock' = clock
  BY DEF EndActs, Handshake, ReadHandshake, Renegotiate, Close, Write, ReadData, envvars
<1> QED BY <1>2, <1>3 DEF Rules

\* The script goes on.
LEMMA EndScripted ==
  ASSUME Opening, NEW s \in Ends, EndActs(s)
  PROVE  \E u : Scripted(Rules, u)'
<1> DEFINE p == Peer(s)
<1>1. PICK v : Scripted(Rules, v)
  BY DEF Opening
<1>2. Agreeing /\ Shapes /\ \A t \in Ends : IsSequence(wire[t])
  BY DEF Opening, Tracing, Agreeing, Shapes
<1>3. Turn(s) /\ Rules' = Rules
  BY <1>2, EndTurns, SameRules DEF EndActs
<1>4. ssl[s].err = "OK" /\ ssl'[p] = ssl[p] /\ p \in Ends /\ p # s
  BY <1>3, Peers DEF Turn
<1>5. Wary(Rules, s, v[s]) /\ Opens(wire[s], ssl[s].in, ssl[p].out)
  BY <1>1, <1>4, WaryNow DEF Opening
<1>6. Paced(Rules, s, v[s])
  BY <1>5, EndPaced DEF EndActs
<1>7. PICK b : /\ ssl'[s].err = "OK" => Stands(Rules, s, ssl'[s], b)
               /\ Paces(Rules, s, v[s], b, wire[s], wire[p], wire'[s], wire'[p],
                        ssl'[s].err # "OK")
  BY <1>6 DEF Paced
<1> DEFINE u == [t \in Ends |-> IF t = s THEN b ELSE v[t]]
           d == [t \in Ends |-> ssl[t].err # "OK"]
           e == [t \in Ends |-> ssl'[t].err # "OK"]
<1>8. /\ u[s] = b /\ u[p] = v[p] /\ ~d[s] /\ e[s] = (ssl'[s].err # "OK") /\ e[p] = d[p]
      /\ \A t \in Ends : t = s \/ t = p
  BY <1>4 DEF Ends
<1>9. InScript(Rules, v, wire, d)
  BY <1>1 DEF Scripted
<1>10. InScript(Rules, u, wire', e)
  <2> HIDE DEF u, d, e
  <2> QED BY <1>2, <1>7, <1>8, <1>9, ScriptGoesOn
<1>11. \A t \in Ends : /\ ssl'[t].asked \in BOOLEAN
                       /\ ssl'[t].err = "OK" => Stands(Rules, t, ssl'[t], u[t])
  <2> HIDE DEF u, d, e
  <2> QED BY <1>1, <1>4, <1>6, <1>7, <1>8 DEF Scripted, Paced
<1>12. Scripted(Rules, u)'
  <2> HIDE DEF u, d
  <2> QED BY <1>3, <1>10, <1>11 DEF Scripted
<1> QED BY <1>12

-----------------------------------------------------------------------------
(* The keys of the records on their way.                                    *)

\* Reading a record: when it is the Finished, the rest is under the keys it was written with.
LEMMA OpensLess ==
  ASSUME NEW w, IsSequence(w), w # <<>>, NEW k, NEW n, NEW o, Opens(w, k, o),
         Single(w, "FINISHED"), Head(w).m.msg # "FINISHED" => n = k
  PROVE  Opens(Tail(w), n, o)
<1> DEFINE t == Tail(w)
           Later(x, i) == \E j \in 1..Len(x) : i < j /\ x[j].m.msg = "FINISHED"
<1>1. /\ Len(t) = Len(w) - 1 /\ Len(w) \in Nat \ {0} /\ Head(w) = w[1]
      /\ \A i \in 1..Len(t) : t[i] = w[i + 1]
  BY Shortened
<1>2. \A i \in 1..Len(w) : w[i].keys = IF Later(w, i) THEN k ELSE o
  BY DEF Opens
<1> SUFFICES ASSUME NEW i \in 1..Len(t)
             PROVE  t[i].keys = IF Later(t, i) THEN n ELSE o
  BY DEF Opens
<1> HIDE DEF t
<1>3. i + 1 \in 1..Len(w) /\ 1 \in 1..Len(w) /\ t[i] = w[i + 1]
  BY <1>1
<1>4. Later(t, i) => Later(w, i + 1)
  BY <1>1
<1>5. Later(w, i + 1) => Later(t, i)
  <2> SUFFICES ASSUME NEW j \in 1..Len(w), i + 1 < j, w[j].m.msg = "FINISHED"
               PROVE  Later(t, i)
    OBVIOUS
  <2>1. j - 1 \in 1..Len(t) /\ i < j - 1 /\ t[j - 1] = w[j]
    BY <1>1
  <2> QED BY <2>1
<1>6. Later(w, i + 1) => Head(w).m.msg # "FINISHED"
  BY <1>1, <1>3 DEF Single
<1> QED BY <1>2, <1>3, <1>4, <1>5, <1>6

\* Writing a record: before the Finished, when nothing else was under other keys.
LEMMA OpensMore ==
  ASSUME NEW w, IsSequence(w), NEW k, NEW o, NEW n, Opens(w, k, o), NEW r, r.keys = n,
         r.m.msg # "FINISHED" => n = o,
         r.m.msg = "FINISHED" => ~Has(w, "FINISHED") /\ k = o
  PROVE  Opens(Append(w, r), k, n)
<1> DEFINE t == Append(w, r)
           Later(x, i) == \E j \in 1..Len(x) : i < j /\ x[j].m.msg = "FINISHED"
<1>1. /\ Len(t) = Len(w) + 1 /\ Len(w) \in Nat /\ t[Len(w) + 1] = r
      /\ \A i \in 1..Len(w) : t[i] = w[i]
  BY Appended
<1>2. \A i \in 1..Len(w) : w[i].keys = IF Later(w, i) THEN k ELSE o
  BY DEF Opens
<1> SUFFICES ASSUME NEW i \in 1..Len(t)
             PROVE  t[i].keys = IF Later(t, i) THEN k ELSE n
  BY DEF Opens
<1> HIDE DEF t
<1>3. \A j \in 1..Len(t) : j \in 1..Len(w) \/ j = Len(w) + 1
  BY <1>1
<1>4. CASE i = Len(w) + 1
  <2>1. ~Later(t, i)
    BY <1>1, <1>4
  <2> QED BY <1>1, <1>4, <2>1
<1>5. CASE i \in 1..Len(w)
  <2>1. Later(w, i) => Later(t, i)
    BY <1>1
  <2>2. r.m.msg = "FINISHED" => Later(t, i)
    BY <1>1, <1>5
  <2>3. Later(t, i) => Later(w, i) \/ r.m.msg = "FINISHED"
    BY <1>1, <1>3
  <2>4. Later(w, i) => Has(w, "FINISHED")
    BY DEF Has
  <2> QED BY <1>1, <1>2, <1>5, <2>1, <2>2, <2>3, <2>4
<1> QED BY <1>3, <1>4, <1>5

\* An end that steps reads on with the keys of what is on its way to it, and so does its
\* peer with those of what it writes.
LEMMA EndOpens ==
  ASSUME Opening, NEW s \in Ends, EndActs(s)
  PROVE  (\A t \in Ends : ssl[t].err = "OK" => Opens(wire[t], ssl[t].in, ssl[Peer(t)].out))'
<1> DEFINE p == Peer(s)
           x == ssl[s]
           y == ssl'[s]
<1>1. Agreeing /\ Shapes /\ Turn(s)
  BY EndTurns DEF EndActs, Opening, Tracing, Agreeing
<1>2. /\ p \in Ends /\ Peer(p) = s /\ ssl'[p] = ssl[p] /\ x.err = "OK"
      /\ \A t \in Ends : IsSequence(wire[t]) /\ (t = s \/ t = p)
  BY <1>1, Peers DEF Turn, Shapes, Ends
<1>3. /\ Opens(wire[s], x.in, ssl[p].out)
      /\ ssl[p].err = "OK" => Opens(wire[p], ssl[p].in, x.out)
  BY <1>2 DEF Opening
<1>4. Reading(s, x, y) /\ Writing(s, x, y)
  BY <1>1 DEF Turn
<1>5. /\ Single(wire[s], "FINISHED")
      /\ Owes(s, x) => ~Has(wire[p], "FINISHED")
  BY <1>1, <1>2 DEF Agreeing, RingOf, Ring
<1>6. ssl[p].err = "OK" /\ ~Has(wire[p], "FINISHED") => ssl[p].in = x.out
  <2>1. ssl[p].err = "OK" => ~Mistaken(ssl[p])
    BY <1>2, NotMistaken DEF Opening, Scripted
  <2> QED BY <1>1, <1>2, <2>1 DEF Agreeing, Matches
<1> HIDE DEF x, y, p
<1>7. Opens(wire'[s], y.in, ssl[p].out)
  BY <1>2, <1>3, <1>4, <1>5, OpensLess DEF Reading, Msg
<1>8. ASSUME ssl[p].err = "OK"
      PROVE  Opens(wire'[p], ssl[p].in, y.out)
  <2>1. CASE wire'[p] = wire[p] /\ y.out = x.out
    BY <1>3, <1>8, <2>1
  <2>2. ASSUME NEW r, wire'[p] = Append(wire[p], r), r.keys = y.out,
               r.m.msg # "FINISHED" => y.out = x.out, r.m.msg = "FINISHED" => Owes(s, x)
        PROVE  Opens(wire'[p], ssl[p].in, y.out)
    BY <1>2, <1>3, <1>5, <1>6, <1>8, <2>2, OpensMore
  <2> QED BY <1>4, <2>1, <2>2 DEF Writing, p
<1> QED BY <1>2, <1>7, <1>8 DEF y, p

-----------------------------------------------------------------------------
(* What can be wrong with a record.                                         *)

Wrong == {"INVALID_MAC", "FINISHED", "CERTIFICATE_VERIFY"}
\* When an end finds a record wrong.
FindsWrong(s) ==
  \/ Reads(s) /\ wire[s] # <<>> /\ Head(wire[s]).keys # InKeys(s)
  \/ /\ At(s, Finished(Peer(s))) /\ CameAs(s, "FINISHED")
     /\ Msg(s).verify # Verify(Peer(s), ssl[s])
  \/ /\ At("srv", "CERTIFICATE_VERIFY") /\ CameAs("srv", "CERTIFICATE_VERIFY") /\ s = "srv"
     /\ ~(WithPsk("srv") \/ ssl["srv"].neg.cert = "none")
     /\ Msg("srv").over # ssl["srv"].log

\* The four ways an end steps keep err as it is in the context they are given.
LEMMA ErrSteps ==
  ASSUME Shapes, NEW s \in Ends, NEW x, DOMAIN x = ContextFields
  PROVE  /\ \A m : Say(s, x, m) => ssl'[s].err = x.err
         /\ Move(s, x) => ssl'[s].err = x.err
         /\ Hear(s, x) => ssl'[s].err = x.err
         /\ \A m : Answer(s, x, m) => ssl'[s].err = x.err
BY Stepping

\* A call that fails.
LEMMA ErrFails ==
  ASSUME Shapes, NEW s \in Ends, NEW e,
         Fail(s, e) \/ Refuse(s, e) \/ Move(s, [ssl[s] EXCEPT !.err = e])
  PROVE  ssl'[s].err = e
<1> DEFINE y == [ssl[s] EXCEPT !.err = e]
<1>1. DOMAIN y = ContextFields /\ y.err = e
  BY DEF Shapes, ContextFields
<1> HIDE DEF y
<1>2. Hear(s, y) \/ Answer(s, y, "fatal") \/ Move(s, y)
  BY DEF y, Fail, Refuse
<1> QED BY <1>1, <1>2, ErrSteps

\* A step on from a context that has not failed.
LEMMA ErrOnward ==
  ASSUME Shapes, NEW s \in Ends, NEW x, DOMAIN x = ContextFields, x.err = "OK",
         \/ Move(s, Onward(x)) \/ Hear(s, Onward(x)) \/ \E m : Say(s, Onward(x), m)
         \/ Move(s, x) \/ Hear(s, x) \/ (\E m : Say(s, x, m)) \/ (\E m : Answer(s, x, m))
  PROVE  ssl'[s].err = "OK"
<1>1. DOMAIN Onward(x) = ContextFields /\ Onward(x).err = "OK"
  BY OnwardParts
<1> QED BY <1>1, ErrSteps

\* The client's own handlers.
LEMMA ClientErrs ==
  ASSUME Agreeing, ssl["cli"].err = "OK", ClientStep
  PROVE  ssl'["cli"].err \in {"OK", "SERVER_HELLO"}
<1> DEFINE x == ssl["cli"]
<1>1. /\ Shapes /\ "cli" \in Ends /\ DOMAIN x = ContextFields /\ DOMAIN Heard("cli") = ContextFields
      /\ Heard("cli").err = "OK"
  BY AgreeingFacts DEF Ends
<1>2. CASE WriteClientHello
  <2> DEFINE id == OfferedId(x)
             y == [x EXCEPT !.cr = draws + 1, !.neg.id = IF id # 0 THEN id ELSE @]
  <2>1. \E m : Say("cli", Onward(y), m)
    BY <1>2 DEF WriteClientHello
  <2>2. DOMAIN y = ContextFields /\ y.err = "OK"
    BY <1>1 DEF ContextFields
  <2> HIDE DEF y
  <2> QED BY <1>1, <2>1, <2>2, ErrOnward
<1>3. CASE ParseServerHello
  <2> DEFINE q == [Heard("cli") EXCEPT !.sr = Msg("cli").rnd, !.due = Msg("cli").tickets]
             y == [q EXCEPT !.st = "SERVER_CHANGE_CIPHER_SPEC"]
             z == [q EXCEPT !.resume = FALSE, !.neg.start = clock, !.neg.suite = Msg("cli").suite,
                            !.neg.id = Msg("cli").id]
  <2>1. Refuse("cli", "SERVER_HELLO") \/ Hear("cli", y) \/ Hear("cli", Onward(z))
    BY <1>3 DEF ParseServerHello
  <2>2. /\ DOMAIN y = ContextFields /\ y.err = "OK"
        /\ DOMAIN z = ContextFields /\ z.err = "OK"
    BY <1>1 DEF ContextFields
  <2> HIDE DEF y, z
  <2> QED BY <1>1, <2>1, <2>2, ErrOnward, ErrFails
<1>4. CASE ParseServerKeyExchange \/ ParseCertificateRequest \/ ParseServerHelloDone
  <2> DEFINE h == Heard("cli")
             m == Msg("cli")
             request == m.msg = "CERTIFICATE_REQUEST"
             y == [h EXCEPT !.held = m]
             z == [h EXCEPT !.asked = request, !.held = IF request THEN NoMsg ELSE m]
             w == [x EXCEPT !.held = NoMsg]
  <2>1. \/ Move("cli", Onward(x)) \/ Hear("cli", Onward(h)) \/ Hear("cli", Onward(y))
        \/ Hear("cli", Onward(z)) \/ Move("cli", Onward(w))
    BY <1>4 DEF ParseServerKeyExchange, ParseCertificateRequest, ParseServerHelloDone
  <2>2. /\ DOMAIN y = ContextFields /\ y.err = "OK"
        /\ DOMAIN z = ContextFields /\ z.err = "OK"
        /\ DOMAIN w = ContextFields /\ w.err = "OK"
    BY <1>1 DEF ContextFields
  <2> HIDE DEF y, z, w, h
  <2> QED BY <1>1, <2>1, <2>2, ErrOnward DEF h
<1>5. CASE WriteClientKeyExchange
  <2>1. PICK y, m : Say("cli", Onward(y), m) /\ DOMAIN y = ContextFields /\ y.err = "OK"
    BY <1>1, <1>5 DEF WriteClientKeyExchange, ContextFields
  <2> QED BY <1>1, <2>1, ErrOnward
<1>6. CASE WriteCertificateVerify
  BY <1>1, <1>6, ErrOnward DEF WriteCertificateVerify
<1>7. CASE ParseNewSessionTicket
  <2> DEFINE y == [Heard("cli") EXCEPT !.due = FALSE, !.neg.id = 0,
                                       !.neg.ticket = Msg("cli").ticket]
  <2>1. Hear("cli", y) /\ DOMAIN y = ContextFields /\ y.err = "OK"
    BY <1>1, <1>7 DEF ParseNewSessionTicket, ContextFields
  <2> HIDE DEF y
  <2> QED BY <1>1, <2>1, ErrOnward
<1> QED BY <1>2, <1>3, <1>4, <1>5, <1>6, <1>7 DEF ClientStep

\* The server's.
LEMMA ServerErrs ==
  ASSUME Agreeing, DOMAIN ssl["srv"].neg = SessionFields, ssl["srv"].err = "OK",
         ssl["srv"].resume \in BOOLEAN, ssl["srv"].due \in BOOLEAN, ServerStep,
         ssl'["srv"].err \notin {"OK", "CLIENT_HELLO"}
  PROVE  FindsWrong("srv")
<1> DEFINE x == ssl["srv"]
<1>1. /\ Shapes /\ "srv" \in Ends /\ DOMAIN x = ContextFields /\ DOMAIN Heard("srv") = ContextFields
      /\ Heard("srv").err = "OK"
  BY AgreeingFacts DEF Ends
<1>2. CASE ParseClientHello
  <2> DEFINE m == Msg("srv")
             h == [Heard("srv") EXCEPT !.neg.id = m.id, !.cr = m.rnd]
             k == Ticketed(h, m)
             y == [k EXCEPT !.neg.suite = Prefers[First(Common(m))]]
  <2>1. Refuse("srv", "CLIENT_HELLO") \/ Hear("srv", Onward(y))
    BY <1>2 DEF ParseClientHello
  <2>2. DOMAIN h = ContextFields /\ h.err = "OK"
    BY <1>1 DEF ContextFields
  <2> HIDE DEF h
  <2>3. DOMAIN k = ContextFields /\ k.err = "OK"
    BY <2>2 DEF ContextFields, Ticketed
  <2> HIDE DEF k
  <2>4. DOMAIN y = ContextFields /\ y.err = "OK"
    BY <2>3 DEF ContextFields
  <2> HIDE DEF y
  <2> QED BY <1>1, <2>1, <2>4, ErrOnward, ErrFails
<1>3. CASE WriteServerHello
  <2> DEFINE k == Recalled(x)
             q == [k EXCEPT !.sr = draws + 1]
             y == [q EXCEPT !.st = "SERVER_CHANGE_CIPHER_SPEC"]
             z == [q EXCEPT !.neg.start = clock, !.neg.id = IF q.due THEN 0 ELSE draws + 2]
  <2>1. \E m : Say("srv", y, m) \/ Say("srv", Onward(z), m)
    BY <1>3 DEF WriteServerHello
  <2>2. DOMAIN k = ContextFields /\ k.err = "OK"
    BY <1>1 DEF ContextFields, Recalled
  <2> HIDE DEF k
  <2>3. /\ DOMAIN y = ContextFields /\ y.err = "OK"
        /\ DOMAIN z = ContextFields /\ z.err = "OK"
    BY <2>2 DEF ContextFields
  <2> HIDE DEF y, z, q
  <2> QED BY <1>1, <2>1, <2>3, ErrOnward
<1>4. CASE \/ WriteServerKeyExchange \/ WriteCertificateRequest \/ WriteServerHelloDone
  BY <1>1, <1>4, ErrOnward DEF WriteServerKeyExchange, WriteCertificateRequest, WriteServerHelloDone
<1>5. CASE ParseClientKeyExchange
  <2>1. PICK y : Hear("srv", Onward(y)) /\ DOMAIN y = ContextFields /\ y.err = "OK"
    BY <1>1, <1>5 DEF ParseClientKeyExchange, ContextFields
  <2> QED BY <1>1, <2>1, ErrOnward
<1>6. CASE ParseCertificateVerify
  <2>1. CASE Move("srv", Onward(x)) \/ Hear("srv", Onward(Heard("srv")))
    BY <1>1, <2>1, ErrOnward
  <2> QED BY <1>6, <2>1 DEF ParseCertificateVerify, FindsWrong
<1>7. CASE WriteNewSessionTicket
  <2> DEFINE y == [x EXCEPT !.due = FALSE]
  <2>1. (\E m : Say("srv", y, m)) /\ DOMAIN y = ContextFields /\ y.err = "OK"
    BY <1>1, <1>7 DEF WriteNewSessionTicket, ContextFields
  <2> HIDE DEF y
  <2> QED BY <1>1, <2>1, ErrOnward
<1> QED BY <1>2, <1>3, <1>4, <1>5, <1>6, <1>7 DEF ServerStep

\* The handlers both ends share.
LEMMA EitherErrs ==
  ASSUME Agreeing, NEW s \in Ends, ssl[s].err = "OK", DOMAIN ssl[s].neg = SessionFields,
         \/ Begin(s) \/ WriteCertificate(s) \/ SkipCertificate(s) \/ ParseCertificate(s)
         \/ WriteChangeCipherSpec(s) \/ ParseChangeCipherSpec(s)
         \/ WriteFinished(s) \/ ParseFinished(s) \/ FlushBuffers(s) \/ Wrapup(s),
         ssl'[s].err \notin {"OK", "CERTIFICATE"}
  PROVE  FindsWrong(s)
<1> DEFINE x == ssl[s]
<1>1. /\ Shapes /\ DOMAIN x = ContextFields /\ DOMAIN Heard(s) = ContextFields
      /\ Heard(s).err = "OK"
  BY AgreeingFacts
<1>2. CASE \/ Begin(s) \/ WriteCertificate(s) \/ WriteChangeCipherSpec(s)
           \/ ParseChangeCipherSpec(s) \/ FlushBuffers(s)
  BY <1>1, <1>2, ErrOnward DEF Begin, WriteCertificate, WriteChangeCipherSpec,
     ParseChangeCipherSpec, FlushBuffers
<1>3. CASE SkipCertificate(s)
  <2> DEFINE y == [x EXCEPT !.neg.verify = "skip"]
  <2>1. Move(s, Onward(x)) \/ Move(s, Onward(y))
    BY <1>3 DEF SkipCertificate
  <2>2. DOMAIN y = ContextFields /\ y.err = "OK"
    BY <1>1 DEF ContextFields
  <2> HIDE DEF y
  <2> QED BY <1>1, <2>1, <2>2, ErrOnward
<1>4. CASE ParseCertificate(s)
  <2> DEFINE cert == Msg(s).cert
             verdict == IF cert = "none" THEN "missing"
                        ELSE IF setting.auth[s] = "NONE" THEN "none" ELSE cert
             y == [Heard(s) EXCEPT !.neg.cert = cert, !.neg.verify = verdict]
  <2>1. Fail(s, "CERTIFICATE") \/ Hear(s, Onward(y))
    BY <1>4 DEF ParseCertificate
  <2>2. DOMAIN y = ContextFields /\ y.err = "OK"
    BY <1>1 DEF ContextFields
  <2> HIDE DEF y
  <2> QED BY <1>1, <2>1, <2>2, ErrOnward, ErrFails
<1>5. CASE WriteFinished(s)
  <2> DEFINE y == [x EXCEPT !.own = Verify(s, x), !.out = KeysOf(s, x)]
             z == Ended(s, y, TRUE)
  <2>1. \E m : Say(s, z, m)
    BY <1>5 DEF WriteFinished
  <2>2. DOMAIN y = ContextFields /\ y.err = "OK"
    BY <1>1 DEF ContextFields
  <2> HIDE DEF y
  <2>3. DOMAIN z = ContextFields /\ z.err = "OK"
    BY <2>2 DEF Ended, Onward, ContextFields
  <2> HIDE DEF z
  <2> QED BY <1>1, <2>1, <2>3, ErrOnward
<1>6. CASE ParseFinished(s)
  <2> DEFINE y == [Heard(s) EXCEPT !.in = KeysOf(Peer(s), x), !.peer = Remembered(s)]
             z == Ended(s, y, FALSE)
  <2>1. Hear(s, z) \/ FindsWrong(s)
    BY <1>6 DEF ParseFinished, FindsWrong
  <2>2. DOMAIN y = ContextFields /\ y.err = "OK"
    BY <1>1 DEF ContextFields
  <2> HIDE DEF y
  <2>3. DOMAIN z = ContextFields /\ z.err = "OK"
    BY <2>2 DEF Ended, Onward, ContextFields
  <2> HIDE DEF z
  <2> QED BY <1>1, <2>1, <2>3, ErrOnward
<1>7. CASE Wrapup(s)
  <2>1. Move(s, Done(x)) \/ Move(s, DoneAgain(x))
    BY <1>7 DEF Wrapup, Done, DoneAgain
  <2>2. DOMAIN Done(x) = ContextFields /\ Done(x).err = "OK"
        /\ DOMAIN DoneAgain(x) = ContextFields /\ DoneAgain(x).err = "OK"
    BY <1>1, DoneFields DEF IsOver, Rid
  <2> QED BY <1>1, <2>1, <2>2, ErrOnward
<1> QED BY <1>2, <1>3, <1>4, <1>5, <1>6, <1>7

\* A record that is not used, or cannot be read.
LEMMA UselessErrs ==
  ASSUME Agreeing, NEW s \in Ends, ssl[s].err = "OK", Unexpected(s) \/ ReadFails(s),
         ssl'[s].err \in Wrong
  PROVE  FindsWrong(s)
<1>1. Shapes
  BY DEF Agreeing
<1>2. CASE Unexpected(s)
  <2>1. Fail(s, "UNEXPECTED") \/ Move(s, [ssl[s] EXCEPT !.err = "UNEXPECTED"])
    BY <1>2 DEF Unexpected
  <2>2. ssl'[s].err = "UNEXPECTED"
    BY <1>1, <2>1, ErrFails
  <2> QED BY <2>2 DEF Wrong
<1>3. CASE ReadFails(s)
  <2>1. CASE wire[s] # <<>> /\ Head(wire[s]).keys = InKeys(s)
    <3>1. Msg(s).msg \in {"fatal", "close_notify"}
      BY <1>3, <2>1 DEF ReadFails, Comes
    <3>2. Fail(s, Msg(s).msg)
      BY <1>3, <2>1 DEF ReadFails
    <3>3. ssl'[s].err = Msg(s).msg
      BY <1>1, <3>2, ErrFails
    <3> QED BY <3>1, <3>3 DEF Wrong
  <2>2. CASE wire[s] # <<>> /\ Head(wire[s]).keys # InKeys(s)
    BY <1>3, <2>2 DEF ReadFails, FindsWrong
  <2>3. CASE wire[s] = <<>>
    <3>1. Move(s, [ssl[s] EXCEPT !.err = "CONN_EOF"])
      BY <1>3, <2>3 DEF ReadFails
    <3>2. ssl'[s].err = "CONN_EOF"
      BY <1>1, <3>1, ErrFails
    <3> QED BY <3>2 DEF Wrong
  <2> QED BY <2>1, <2>2, <2>3
<1> QED BY <1>2, <1>3

\* What the programs do.
LEMMA ProgramErrs ==
  ASSUME Agreeing, NEW s \in Ends, ssl[s].err = "OK",
         ReadData(s) \/ ReadHandshake(s) \/ Write(s) \/ Renegotiate(s) \/ Close(s)
  PROVE  ssl'[s].err \in {"OK", "RENEGOTIATION", "UNEXPECTED", "CLOSED"}
<1> DEFINE x == ssl[s]
<1>1. Shapes /\ DOMAIN x = ContextFields
  BY AgreeingFacts
<1>2. CASE ReadData(s)
  <2> DEFINE counts == x.reneg \in {"PENDING", "RENEGOTIATION"}
             y == [x EXCEPT !.seen = IF counts THEN @ + 1 ELSE @]
  <2>1. Fail(s, "RENEGOTIATION") \/ Hear(s, y)
    BY <1>2 DEF ReadData
  <2>2. DOMAIN y = ContextFields /\ y.err = "OK"
    BY <1>1 DEF ContextFields
  <2> HIDE DEF y
  <2> QED BY <1>1, <2>1, <2>2, ErrOnward, ErrFails
<1>3. CASE ReadHandshake(s)
  <2>1. \/ Fail(s, "UNEXPECTED") \/ Answer(s, x, "no_renegotiation")
        \/ Hear(s, Renewed(x)) \/ Move(s, Renewed(x))
    BY <1>3 DEF ReadHandshake
  <2>2. DOMAIN Renewed(x) = ContextFields /\ Renewed(x).err = "OK"
    BY <1>1, DoneFields DEF IsRenewed, Rid
  <2> QED BY <1>1, <2>1, <2>2, ErrOnward, ErrFails
<1>4. CASE Write(s)
  BY <1>1, <1>4, ErrOnward DEF Write
<1>5. CASE Renegotiate(s)
  <2> DEFINE y == [x EXCEPT !.reneg = "PENDING"]
  <2>1. Move(s, Renewed(x)) \/ \E m : Say(s, y, m)
    BY <1>5 DEF Renegotiate
  <2>2. DOMAIN Renewed(x) = ContextFields /\ Renewed(x).err = "OK"
    BY <1>1, DoneFields DEF IsRenewed, Rid
  <2>3. DOMAIN y = ContextFields /\ y.err = "OK"
    BY <1>1 DEF ContextFields
  <2> HIDE DEF y
  <2> QED BY <1>1, <2>1, <2>2, <2>3, ErrOnward
<1>6. CASE Close(s)
  <2> DEFINE y == [x EXCEPT !.err = "CLOSED"]
  <2>1. \E m : Say(s, y, m)
    BY <1>6 DEF Close
  <2>2. DOMAIN y = ContextFields /\ y.err = "CLOSED"
    BY <1>1 DEF ContextFields
  <2> HIDE DEF y
  <2> QED BY <1>1, <2>1, <2>2, ErrSteps
<1> QED BY <1>2, <1>3, <1>4, <1>5, <1>6

\* Whatever an end does, it finds a record wrong only if it is.
LEMMA EndErrs ==
  ASSUME Agreeing, NEW s \in Ends, NEW a, Ready(Rules, s, a), EndActs(s),
         ssl'[s].err \in Wrong
  PROVE  FindsWrong(s)
<1>1. /\ ssl[s].err = "OK" /\ DOMAIN ssl[s].neg = SessionFields
      /\ ssl[s].resume \in BOOLEAN /\ ssl[s].due \in BOOLEAN
  BY ReadyFacts DEF Ready
<1>2. CASE Handshake(s)
  <2>1. CASE s = "cli" /\ ClientStep
    BY <1>1, <2>1, ClientErrs DEF Wrong
  <2>2. CASE s = "srv" /\ ServerStep
    BY <1>1, <2>2, ServerErrs DEF Wrong
  <2>3. CASE \/ Begin(s) \/ WriteCertificate(s) \/ SkipCertificate(s) \/ ParseCertificate(s)
             \/ WriteChangeCipherSpec(s) \/ ParseChangeCipherSpec(s)
             \/ WriteFinished(s) \/ ParseFinished(s) \/ FlushBuffers(s) \/ Wrapup(s)
    BY <1>1, <2>3, EitherErrs DEF Wrong
  <2>4. CASE Unexpected(s) \/ ReadFails(s)
    BY <1>1, <2>4, UselessErrs
  <2> QED BY <1>2, <2>1, <2>2, <2>3, <2>4 DEF Handshake
<1>3. CASE ~Handshake(s)
  BY <1>1, <1>3, ProgramErrs DEF EndActs, Wrong
<1> QED BY <1>2, <1>3

\* A Finished of another secret: the keys shared before differ, or the ticket is not of the
\* session it is kept with.
LEMMA SecretsDiffer ==
  ASSUME NEW s \in Ends, NEW a, Ready(Rules, s, a), ssl[s].st = Finished(Peer(s)), NEW r,
         Sealed(Rules, Peer(s), a, r), r.m.verify.master # ssl[s].neg.master
  PROVE  setting.psk["cli"] # setting.psk["srv"] \/ Stale
<1> DEFINE g == Rules
           x == ssl[s]
           l == x.log
           p == Peer(s)
           v == r.m.verify
<1>1. x.st \in Late
  BY DEF Finished, Late, ToClient, ToServer
<1>2. /\ Halfway(x) /\ x.st \in Keyful /\ Agreed(g, s, x, a) /\ x.resume = Resumed(l)
      /\ a.log = l
  BY <1>1, LateFacts
<1>3. g.psk = setting.psk /\ g.saved = saved /\ x.resume \in BOOLEAN
  BY ReadyFacts
<1>4. CASE x.resume
  <2>1. OldTicket(saved) \/ x.neg.master = saved.master
    BY <1>3, <1>4 DEF Ready, Stands
  <2>2. OldTicket(saved) \/ v.master = saved.master
    BY <1>2, <1>3, <1>4 DEF Sealed
  <2> QED BY <2>1, <2>2 DEF OldTicket, Stale
<1>5. CASE ~x.resume
  <2>1. /\ x.neg.master = <<a.pms, IF Psk(KxIn(l)) THEN g.psk[s] ELSE 0, x.cr, x.sr>>
        /\ x.cr = l[1].rnd /\ x.sr = l[2].rnd
    BY <1>2, <1>5 DEF Agreed
  <2>2. v.master = <<a.pms, IF Psk(KxIn(l)) THEN g.psk[p] ELSE 0, l[1].rnd, l[2].rnd>>
    BY <1>2, <1>5 DEF Sealed
  <2>3. g.psk[s] # g.psk[p]
    BY <2>1, <2>2
  <2> QED BY <1>3, <2>3, Peers DEF Ends
<1> QED BY <1>3, <1>4, <1>5

\* A record that is found wrong is of another secret.
LEMMA WrongMeans ==
  ASSUME Agreeing, NEW s \in Ends, NEW a, Ready(Rules, s, a), FindsWrong(s),
         Opens(wire[s], ssl[s].in, ssl[Peer(s)].out)
  PROVE  setting.psk["cli"] # setting.psk["srv"] \/ Stale
<1> DEFINE g == Rules
           x == ssl[s]
           l == x.log
           p == Peer(s)
           r == Head(wire[s])
           v == r.m.verify
<1>1. CASE Reads(s) /\ wire[s] # <<>> /\ Head(wire[s]).keys # InKeys(s)
  <2>1. x.st = Finished(p) /\ Sealed(g, p, a, r)
    BY <1>1, KeysFit
  <2>2. InKeys(s) = KeysOf(p, x)
    BY <2>1 DEF InKeys, Finished, Peer, Ends
  <2>3. x.st \in Late
    BY <2>1 DEF Finished, Late, ToClient, ToServer
  <2>4. Agreed(g, s, x, a) /\ a.log = l
    BY <2>3, LateFacts
  <2>5. r.keys = <<p, x.neg.suite, v.master, x.cr, x.sr>>
    <3>1. r.keys = <<p, l[2].suite, v.master, l[1].rnd, l[2].rnd>>
      BY <2>1, <2>4 DEF Sealed
    <3>2. x.neg.suite = l[2].suite /\ x.cr = l[1].rnd /\ x.sr = l[2].rnd
      BY <2>4 DEF Agreed
    <3> QED BY <3>1, <3>2
  <2>6. v.master # x.neg.master
    BY <1>1, <2>2, <2>5 DEF KeysOf
  <2> QED BY <2>1, <2>6, SecretsDiffer
<1>2. CASE At(s, Finished(p)) /\ CameAs(s, "FINISHED") /\ Msg(s).verify # Verify(p, x)
  <2>1. /\ x.st = Finished(p) /\ wire[s] # <<>> /\ Msg(s).msg = "FINISHED" /\ Msg(s) = r.m
        /\ ~Noise(Msg(s))
    BY <1>2 DEF At, CameAs, Comes, Noise, Msg
  <2>2. Sealed(g, p, a, r)
    BY <2>1, ReadTells
  <2>3. x.st \in Late
    BY <2>1 DEF Finished, Late, ToClient, ToServer
  <2>4. a.log = l
    BY <2>3, LateFacts
  <2>5. v = [from |-> p, master |-> v.master, log |-> l]
    BY <2>2, <2>4 DEF Sealed
  <2>6. v.master # x.neg.master
    BY <1>2, <2>1, <2>5 DEF Verify
  <2> QED BY <2>1, <2>2, <2>6, SecretsDiffer
<1>3. CASE /\ At("srv", "CERTIFICATE_VERIFY") /\ CameAs("srv", "CERTIFICATE_VERIFY") /\ s = "srv"
           /\ ~(WithPsk("srv") \/ ssl["srv"].neg.cert = "none")
           /\ Msg("srv").over # ssl["srv"].log
  BY <1>3, SignatureHeard DEF At
<1> QED BY <1>1, <1>2, <1>3 DEF FindsWrong

\* An end that steps fails for such a reason only.
LEMMA EndRight ==
  ASSUME Opening, EverythingOpens, NEW s \in Ends, EndActs(s)
  PROVE  EverythingOpens'
<1> DEFINE p == Peer(s)
<1>1. PICK v : Scripted(Rules, v)
  BY DEF Opening
<1>2. Agreeing /\ Turn(s)
  BY EndTurns DEF Opening, Tracing, EndActs
<1>3. ssl[s].err = "OK" /\ ssl'[p] = ssl[p] /\ UNCHANGED <<setting, saved>>
  BY <1>2, SameRules DEF Turn
<1>4. Ready(Rules, s, v[s]) /\ Opens(wire[s], ssl[s].in, ssl[p].out)
  BY <1>1, <1>3, WaryNow DEF Wary, Opening
<1>5. ssl'[s].err \in Wrong => setting.psk["cli"] # setting.psk["srv"] \/ Stale
  BY <1>2, <1>4, EndErrs, WrongMeans
<1>6. \A t \in Ends : t = s \/ t = p
  BY DEF Ends, Peer
<1> QED BY <1>3, <1>5, <1>6 DEF EverythingOpens, Stale, Wrong

-----------------------------------------------------------------------------
(* The states an end comes to.                                              *)

\* The states an end leaves for the next one without a Finished.
Passing == {"HELLO_REQUEST", "CLIENT_HELLO", "SERVER_HELLO", "FLUSH_BUFFERS"} \cup Full
  \cup {"CLIENT_CHANGE_CIPHER_SPEC", "SERVER_CHANGE_CIPHER_SPEC"}

\* A context in the state st comes to t.
GoesTo(st, t) ==
  \/ t = st \/ t \in {"SERVER_CHANGE_CIPHER_SPEC", "HELLO_REQUEST", "HANDSHAKE_OVER"}
  \/ st \in Passing /\ t = After(st)

\* A step leads to the state of the context it is given, or to the next.
LEMMA StateSteps ==
  ASSUME Shapes, NEW s \in Ends, NEW x, DOMAIN x = ContextFields
  PROVE  /\ \/ Move(s, x) \/ Hear(s, x) \/ (\E m : Say(s, x, m)) \/ (\E m : Answer(s, x, m))
            => ssl'[s].st = x.st
         /\ Move(s, Onward(x)) \/ Hear(s, Onward(x)) \/ (\E m : Say(s, Onward(x), m))
            => ssl'[s].st = After(x.st)
<1>1. DOMAIN Onward(x) = ContextFields /\ Onward(x).st = After(x.st)
  BY OnwardParts
<1>2. ASSUME NEW y, DOMAIN y = ContextFields,
             \/ Move(s, y) \/ Hear(s, y) \/ (\E m : Say(s, y, m)) \/ (\E m : Answer(s, y, m))
      PROVE  ssl'[s].st = y.st
  <2>1. CASE Move(s, y)
    BY <1>2, <2>1, Stepping
  <2>2. CASE Hear(s, y)
    BY <1>2, <2>2, Stepping
  <2>3. ASSUME NEW m, Say(s, y, m) \/ Answer(s, y, m)
        PROVE  ssl'[s].st = y.st
    BY <1>2, <2>3, StepsTo DEF Alike
  <2> QED BY <1>2, <2>1, <2>2, <2>3
<1> QED BY <1>1, <1>2

\* A call that fails stays where it is.
LEMMA StateFails ==
  ASSUME Shapes, NEW s \in Ends, NEW e,
         Fail(s, e) \/ Refuse(s, e) \/ Move(s, [ssl[s] EXCEPT !.err = e])
  PROVE  ssl'[s].st = ssl[s].st
BY FailsFrom DEF Alike

\* The client's own handlers.
LEMMA ClientGoes ==
  ASSUME Agreeing, ClientStep
  PROVE  GoesTo(ssl["cli"].st, ssl'["cli"].st)
<1> DEFINE x == ssl["cli"]
<1>1. /\ Shapes /\ "cli" \in Ends /\ DOMAIN x = ContextFields /\ DOMAIN Heard("cli") = ContextFields
      /\ Heard("cli").st = x.st
  BY AgreeingFacts, HeardFields DEF Ends, Alike
<1>2. CASE WriteClientHello
  <2> DEFINE id == OfferedId(x)
             y == [x EXCEPT !.cr = draws + 1, !.neg.id = IF id # 0 THEN id ELSE @]
  <2>1. (\E m : Say("cli", Onward(y), m)) /\ x.st \in Passing
    BY <1>2 DEF WriteClientHello, At, Passing
  <2>2. DOMAIN y = ContextFields /\ y.st = x.st
    BY <1>1 DEF ContextFields
  <2> HIDE DEF y
  <2> QED BY <1>1, <2>1, <2>2, StateSteps DEF GoesTo
<1>3. CASE ParseServerHello
  <2> DEFINE q == [Heard("cli") EXCEPT !.sr = Msg("cli").rnd, !.due = Msg("cli").tickets]
             y == [q EXCEPT !.st = "SERVER_CHANGE_CIPHER_SPEC"]
             z == [q EXCEPT !.resume = FALSE, !.neg.start = clock, !.neg.suite = Msg("cli").suite,
                            !.neg.id = Msg("cli").id]
  <2>1. /\ Refuse("cli", "SERVER_HELLO") \/ Hear("cli", y) \/ Hear("cli", Onward(z))
        /\ x.st \in Passing
    BY <1>3 DEF ParseServerHello, At, Passing
  <2>2. /\ DOMAIN y = ContextFields /\ y.st = "SERVER_CHANGE_CIPHER_SPEC"
        /\ DOMAIN z = ContextFields /\ z.st = x.st
    BY <1>1 DEF ContextFields
  <2> HIDE DEF y, z
  <2> QED BY <1>1, <2>1, <2>2, StateSteps, StateFails DEF GoesTo
<1>4. CASE ParseServerKeyExchange \/ ParseCertificateRequest \/ ParseServerHelloDone
  <2> DEFINE h == Heard("cli")
             m == Msg("cli")
             request == m.msg = "CERTIFICATE_REQUEST"
             y == [h EXCEPT !.held = m]
             z == [h EXCEPT !.asked = request, !.held = IF request THEN NoMsg ELSE m]
             w == [x EXCEPT !.held = NoMsg]
  <2>1. /\ \/ Move("cli", Onward(x)) \/ Hear("cli", Onward(h)) \/ Hear("cli", Onward(y))
           \/ Hear("cli", Onward(z)) \/ Move("cli", Onward(w))
        /\ x.st \in Passing
    BY <1>4 DEF ParseServerKeyExchange, ParseCertificateRequest, ParseServerHelloDone, At,
       Passing, Full
  <2>2. /\ DOMAIN y = ContextFields /\ y.st = x.st
        /\ DOMAIN z = ContextFields /\ z.st = x.st
        /\ DOMAIN w = ContextFields /\ w.st = x.st
    BY <1>1 DEF ContextFields
  <2> HIDE DEF y, z, w, h
  <2> QED BY <1>1, <2>1, <2>2, StateSteps DEF h, GoesTo
<1>5. CASE WriteClientKeyExchange
  <2> DEFINE y == [x EXCEPT !.neg.master = Master("cli", x, draws + 1)]
  <2>1. (\E m : Say("cli", Onward(y), m)) /\ x.st \in Passing
    BY <1>5 DEF WriteClientKeyExchange, At, Passing, Full
  <2>2. DOMAIN y = ContextFields /\ y.st = x.st
    BY <1>1 DEF ContextFields
  <2> HIDE DEF y
  <2> QED BY <1>1, <2>1, <2>2, StateSteps DEF GoesTo
<1>6. CASE WriteCertificateVerify
  <2>1. x.st \in Passing
    BY <1>6 DEF WriteCertificateVerify, At, Passing, Full
  <2> QED BY <1>1, <1>6, <2>1, StateSteps DEF WriteCertificateVerify, GoesTo
<1>7. CASE ParseNewSessionTicket
  <2> DEFINE y == [Heard("cli") EXCEPT !.due = FALSE, !.neg.id = 0,
                                       !.neg.ticket = Msg("cli").ticket]
  <2>1. Hear("cli", y) /\ DOMAIN y = ContextFields /\ y.st = x.st
    BY <1>1, <1>7 DEF ParseNewSessionTicket, ContextFields
  <2> HIDE DEF y
  <2> QED BY <1>1, <2>1, StateSteps DEF GoesTo
<1> QED BY <1>2, <1>3, <1>4, <1>5, <1>6, <1>7 DEF ClientStep

\* The server's, but for its reading of the client's hello and its own hello.
LEMMA ServerGoes ==
  ASSUME Agreeing, DOMAIN ssl["srv"].neg = SessionFields, ServerStep,
         ~ParseClientHello, ~WriteServerHello
  PROVE  /\ GoesTo(ssl["srv"].st, ssl'["srv"].st)
         /\ ssl["srv"].st \notin {"CLIENT_HELLO", "SERVER_HELLO"}
<1> DEFINE x == ssl["srv"]
<1>1. /\ Shapes /\ "srv" \in Ends /\ DOMAIN x = ContextFields /\ DOMAIN Heard("srv") = ContextFields
      /\ Heard("srv").st = x.st
  BY AgreeingFacts, HeardFields DEF Ends, Alike
<1>2. CASE \/ WriteServerKeyExchange \/ WriteCertificateRequest \/ WriteServerHelloDone
  <2>1. x.st \in Passing /\ x.st \notin {"CLIENT_HELLO", "SERVER_HELLO"}
    BY <1>2 DEF WriteServerKeyExchange, WriteCertificateRequest, WriteServerHelloDone, At,
       Passing, Full
  <2> QED BY <1>1, <1>2, <2>1, StateSteps DEF WriteServerKeyExchange, WriteCertificateRequest,
          WriteServerHelloDone, GoesTo
<1>3. CASE ParseClientKeyExchange
  <2> DEFINE y == [Heard("srv") EXCEPT !.neg.master = Master("srv", Heard("srv"), Msg("srv").pms)]
  <2>1. Hear("srv", Onward(y)) /\ x.st \in Passing /\ x.st \notin {"CLIENT_HELLO", "SERVER_HELLO"}
    BY <1>3 DEF ParseClientKeyExchange, At, Passing, Full
  <2>2. DOMAIN y = ContextFields /\ y.st = x.st
    BY <1>1 DEF ContextFields
  <2> HIDE DEF y
  <2> QED BY <1>1, <2>1, <2>2, StateSteps DEF GoesTo
<1>4. CASE ParseCertificateVerify
  <2>1. /\ \/ Move("srv", Onward(x)) \/ Hear("srv", Onward(Heard("srv")))
           \/ Fail("srv", "CERTIFICATE_VERIFY")
        /\ x.st \in Passing /\ x.st \notin {"CLIENT_HELLO", "SERVER_HELLO"}
    BY <1>4 DEF ParseCertificateVerify, At, Passing, Full
  <2> QED BY <1>1, <2>1, StateSteps, StateFails DEF GoesTo
<1>5. CASE WriteNewSessionTicket
  <2> DEFINE y == [x EXCEPT !.due = FALSE]
  <2>1. /\ (\E m : Say("srv", y, m)) /\ DOMAIN y = ContextFields /\ y.st = x.st
        /\ x.st \notin {"CLIENT_HELLO", "SERVER_HELLO"}
    BY <1>1, <1>5 DEF WriteNewSessionTicket, ContextFields, At
  <2> HIDE DEF y
  <2> QED BY <1>1, <2>1, StateSteps DEF GoesTo
<1> QED BY <1>2, <1>3, <1>4, <1>5 DEF ServerStep

\* The handlers both ends share, but for the Finished.
LEMMA EitherGoes ==
  ASSUME Agreeing, NEW s \in Ends, DOMAIN ssl[s].neg = SessionFields,
         \/ Begin(s) \/ WriteCertificate(s) \/ SkipCertificate(s) \/ ParseCertificate(s)
         \/ WriteChangeCipherSpec(s) \/ ParseChangeCipherSpec(s)
         \/ FlushBuffers(s) \/ Wrapup(s)
  PROVE  GoesTo(ssl[s].st, ssl'[s].st) /\ ssl[s].st \notin {"CLIENT_HELLO", "SERVER_HELLO"}
<1> DEFINE x == ssl[s]
<1>1. /\ Shapes /\ DOMAIN x = ContextFields /\ DOMAIN Heard(s) = ContextFields
      /\ Heard(s).st = x.st
  BY AgreeingFacts, HeardFields DEF Alike
<1>2. CASE \/ Begin(s) \/ WriteCertificate(s) \/ WriteChangeCipherSpec(s)
           \/ ParseChangeCipherSpec(s) \/ FlushBuffers(s)
  <2>1. x.st \in Passing /\ x.st \notin {"CLIENT_HELLO", "SERVER_HELLO"}
    BY <1>2 DEF Begin, WriteCertificate, WriteChangeCipherSpec, ParseChangeCipherSpec,
       FlushBuffers, At, Passing, Full, CertState, Change
  <2>2. Move(s, Onward(x)) \/ Hear(s, Onward(x)) \/ \E m : Say(s, Onward(x), m)
    BY <1>2 DEF Begin, WriteCertificate, WriteChangeCipherSpec, ParseChangeCipherSpec, FlushBuffers
  <2> QED BY <1>1, <2>1, <2>2, StateSteps DEF GoesTo
<1>3. CASE SkipCertificate(s)
  <2> DEFINE y == [x EXCEPT !.neg.verify = "skip"]
  <2>1. /\ Move(s, Onward(x)) \/ Move(s, Onward(y))
        /\ x.st \in Passing /\ x.st \notin {"CLIENT_HELLO", "SERVER_HELLO"}
    BY <1>3 DEF SkipCertificate, At, Passing, Full, CertState
  <2>2. DOMAIN y = ContextFields /\ y.st = x.st
    BY <1>1 DEF ContextFields
  <2> HIDE DEF y
  <2> QED BY <1>1, <2>1, <2>2, StateSteps DEF GoesTo
<1>4. CASE ParseCertificate(s)
  <2> DEFINE cert == Msg(s).cert
             verdict == IF cert = "none" THEN "missing"
                        ELSE IF setting.auth[s] = "NONE" THEN "none" ELSE cert
             y == [Heard(s) EXCEPT !.neg.cert = cert, !.neg.verify = verdict]
  <2>1. /\ Fail(s, "CERTIFICATE") \/ Hear(s, Onward(y))
        /\ x.st \in Passing /\ x.st \notin {"CLIENT_HELLO", "SERVER_HELLO"}
    BY <1>4 DEF ParseCertificate, ReadsCertificate, At, Passing, Full, CertState
  <2>2. DOMAIN y = ContextFields /\ y.st = x.st
    BY <1>1 DEF ContextFields
  <2> HIDE DEF y
  <2>3. CASE Fail(s, "CERTIFICATE")
    BY <1>1, <2>1, <2>3, StateFails DEF GoesTo
  <2>4. CASE Hear(s, Onward(y))
    BY <1>1, <2>1, <2>2, <2>4, StateSteps DEF GoesTo
  <2> QED BY <2>1, <2>3, <2>4
<1>5. CASE Wrapup(s)
  <2>1. (Move(s, Done(x)) \/ Move(s, DoneAgain(x))) /\ x.st \notin {"CLIENT_HELLO", "SERVER_HELLO"}
    BY <1>5 DEF Wrapup, Done, DoneAgain, At
  <2>2. /\ DOMAIN Done(x) = ContextFields /\ Done(x).st = "HANDSHAKE_OVER"
        /\ DOMAIN DoneAgain(x) = ContextFields /\ DoneAgain(x).st = "HANDSHAKE_OVER"
    BY <1>1, DoneFields DEF IsOver, Rid
  <2> QED BY <1>1, <2>1, <2>2, StateSteps DEF GoesTo
<1> QED BY <1>2, <1>3, <1>4, <1>5

\* What the programs do, and records that are of no use.
LEMMA OtherGoes ==
  ASSUME Agreeing, NEW s \in Ends,
         \/ Unexpected(s) \/ ReadFails(s)
         \/ ReadData(s) \/ ReadHandshake(s) \/ Write(s) \/ Renegotiate(s) \/ Close(s)
  PROVE  /\ ssl'[s].st = ssl[s].st \/ ssl'[s].st = "HELLO_REQUEST"
         /\ s = "srv" => ssl[s].st # "SERVER_HELLO"
<1> DEFINE x == ssl[s]
<1>1. Shapes /\ DOMAIN x = ContextFields
  BY AgreeingFacts
<1>0. /\ DOMAIN Renewed(x) = ContextFields /\ Renewed(x).st = "HELLO_REQUEST"
  BY <1>1, DoneFields DEF IsRenewed, Rid
<1>2. CASE ReadData(s)
  <2> DEFINE counts == x.reneg \in {"PENDING", "RENEGOTIATION"}
             y == [x EXCEPT !.seen = IF counts THEN @ + 1 ELSE @]
  <2>1. /\ Fail(s, "RENEGOTIATION") \/ Hear(s, y)
        /\ s = "srv" => x.st # "SERVER_HELLO"
    BY <1>2 DEF ReadData, Over, WaitsInRenegotiation
  <2>2. DOMAIN y = ContextFields /\ y.st = x.st
    BY <1>1 DEF ContextFields
  <2> HIDE DEF y
  <2> QED BY <1>1, <2>1, <2>2, StateSteps, StateFails
<1>3. CASE ReadHandshake(s)
  <2>1. /\ \/ Fail(s, "UNEXPECTED") \/ Answer(s, x, "no_renegotiation")
           \/ Hear(s, Renewed(x)) \/ Move(s, Renewed(x))
        /\ x.st # "SERVER_HELLO"
    BY <1>3 DEF ReadHandshake, Over
  <2> QED BY <1>0, <1>1, <2>1, StateSteps, StateFails
<1>4. CASE Write(s)
  BY <1>1, <1>4, StateSteps DEF Write, Over
<1>5. CASE Renegotiate(s)
  <2> DEFINE y == [x EXCEPT !.reneg = "PENDING"]
  <2>1. (Move(s, Renewed(x)) \/ \E m : Say(s, y, m)) /\ x.st # "SERVER_HELLO"
    BY <1>5 DEF Renegotiate, Over
  <2>2. DOMAIN y = ContextFields /\ y.st = x.st
    BY <1>1 DEF ContextFields
  <2> HIDE DEF y
  <2> QED BY <1>0, <1>1, <2>1, <2>2, StateSteps
<1>6. CASE Close(s)
  <2> DEFINE y == [x EXCEPT !.err = "CLOSED"]
  <2>1. (\E m : Say(s, y, m)) /\ x.st # "SERVER_HELLO"
    BY <1>6 DEF Close, Over
  <2>2. DOMAIN y = ContextFields /\ y.st = x.st
    BY <1>1 DEF ContextFields
  <2> HIDE DEF y
  <2> QED BY <1>1, <2>1, <2>2, StateSteps
<1>7. CASE Unexpected(s) \/ ReadFails(s)
  <2>1. /\ \E e : Fail(s, e) \/ Refuse(s, e) \/ Move(s, [ssl[s] EXCEPT !.err = e])
        /\ s = "srv" => x.st # "SERVER_HELLO"
    BY <1>7 DEF Unexpected, ReadFails, Reads, At, CertState
  <2> QED BY <1>1, <2>1, StateFails
<1> QED BY <1>2, <1>3, <1>4, <1>5, <1>6, <1>7

\* The client comes to the end of a handshake by a Finished.
LEMMA EndingFrom ==
  ASSUME Agreeing, DOMAIN ssl["cli"].neg = SessionFields, EndActs("cli"),
         ssl'["cli"].st \in Ending
  PROVE  ssl["cli"].st \in Ending \/ WriteFinished("cli") \/ ParseFinished("cli")
<1> DEFINE x == ssl["cli"]
           y == ssl'["cli"]
<1>1. ASSUME GoesTo(x.st, y.st)
      PROVE  x.st \in Ending
  <2>1. y.st = x.st \/ (x.st \in Passing /\ y.st = After(x.st))
    BY <1>1 DEF GoesTo, Ending
  <2>2. x.st \in Passing /\ y.st = After(x.st) => x.st = "FLUSH_BUFFERS"
    BY NextState DEF Passing, Full, Ending
  <2> QED BY <2>1, <2>2 DEF Ending
<1>2. "cli" \in Ends
  BY DEF Ends
<1>3. CASE Handshake("cli") /\ ClientStep
  BY <1>1, <1>3, ClientGoes
<1>4. CASE \/ Begin("cli") \/ WriteCertificate("cli") \/ SkipCertificate("cli")
           \/ ParseCertificate("cli") \/ WriteChangeCipherSpec("cli")
           \/ ParseChangeCipherSpec("cli") \/ FlushBuffers("cli") \/ Wrapup("cli")
  BY <1>1, <1>2, <1>4, EitherGoes
<1>5. CASE \/ Unexpected("cli") \/ ReadFails("cli")
           \/ ReadData("cli") \/ ReadHandshake("cli") \/ Write("cli") \/ Renegotiate("cli")
           \/ Close("cli")
  <2>1. y.st = x.st \/ y.st = "HELLO_REQUEST"
    BY <1>2, <1>5, OtherGoes
  <2> QED BY <2>1 DEF Ending
<1> QED BY <1>3, <1>4, <1>5 DEF EndActs, Handshake

\* From there an end only goes on to the end.
LEMMA EndingOn ==
  ASSUME NEW s \in Ends, ssl[s].st \in Ending, EndActs(s)
  PROVE  FlushBuffers(s) \/ Wrapup(s)
<1>1. ~Reads(s) /\ ~Over(s) /\ ~WaitsInRenegotiation(s)
  BY DEF Ending, Reads, Over, WaitsInRenegotiation, At, CertState
<1>2. Handshake(s)
  BY <1>1 DEF EndActs, ReadHandshake, Renegotiate, Close, Write, ReadData
<1>3. s = "cli" => ~ClientStep
  BY <1>1 DEF ClientStep, WriteClientHello, ParseServerHello, ParseServerKeyExchange,
     ParseCertificateRequest, ParseServerHelloDone, WriteClientKeyExchange,
     WriteCertificateVerify, ParseNewSessionTicket, At, Ending
<1>4. s = "srv" => ~ServerStep
  BY <1>1 DEF ServerStep, ParseClientHello, WriteServerHello, WriteServerKeyExchange,
     WriteCertificateRequest, WriteServerHelloDone, ParseClientKeyExchange,
     ParseCertificateVerify, WriteNewSessionTicket, At, Ending
<1>5. /\ ~Begin(s) /\ ~WriteCertificate(s) /\ ~SkipCertificate(s) /\ ~ParseCertificate(s)
      /\ ~WriteChangeCipherSpec(s) /\ ~ParseChangeCipherSpec(s) /\ ~WriteFinished(s)
      /\ ~ParseFinished(s) /\ ~Unexpected(s) /\ ~ReadFails(s)
  BY <1>1 DEF Begin, WriteCertificate, SkipCertificate, ParseCertificate, ReadsCertificate,
     WriteChangeCipherSpec, ParseChangeCipherSpec, WriteFinished, ParseFinished, Unexpected,
     ReadFails, At, Ending, CertState, Change, Finished
<1> QED BY <1>2, <1>3, <1>4, <1>5 DEF Handshake

\* The server answers a hello that it has read.
LEMMA ServerGreets ==
  ASSUME Agreeing, DOMAIN ssl["srv"].neg = SessionFields, EndActs("srv"),
         ssl'["srv"].st = "SERVER_HELLO"
  PROVE  ParseClientHello
<1> DEFINE x == ssl["srv"]
           y == ssl'["srv"]
<1>0. /\ "srv" \in Ends /\ Shapes /\ DOMAIN x = ContextFields
      /\ DOMAIN Heard("srv") = ContextFields
  BY AgreeingFacts DEF Ends
<1>1. ASSUME GoesTo(x.st, y.st), x.st \notin {"CLIENT_HELLO", "SERVER_HELLO"}
      PROVE  FALSE
  BY <1>1, NextState DEF GoesTo, Passing, Full
<1>2. CASE WriteServerHello
  <2> DEFINE k == Recalled(x)
             q == [k EXCEPT !.sr = draws + 1]
             t == [q EXCEPT !.st = "SERVER_CHANGE_CIPHER_SPEC"]
             z == [q EXCEPT !.neg.start = clock, !.neg.id = IF q.due THEN 0 ELSE draws + 2]
  <2>1. (\E m : Say("srv", t, m) \/ Say("srv", Onward(z), m)) /\ x.st = "SERVER_HELLO"
    BY <1>2 DEF WriteServerHello, At
  <2>2. DOMAIN k = ContextFields /\ k.st = x.st
    BY <1>0 DEF ContextFields, Recalled
  <2> HIDE DEF k
  <2>3. /\ DOMAIN t = ContextFields /\ t.st = "SERVER_CHANGE_CIPHER_SPEC"
        /\ DOMAIN z = ContextFields /\ z.st = x.st
    BY <2>2 DEF ContextFields
  <2> HIDE DEF t, z, q
  <2>4. y.st = "SERVER_CHANGE_CIPHER_SPEC" \/ y.st = After("SERVER_HELLO")
    BY <1>0, <2>1, <2>3, StateSteps
  <2> QED BY <2>4, NextState
<1>3. CASE ServerStep /\ ~ParseClientHello /\ ~WriteServerHello
  BY <1>1, <1>3, ServerGoes
<1>4. CASE \/ Begin("srv") \/ WriteCertificate("srv") \/ SkipCertificate("srv")
           \/ ParseCertificate("srv") \/ WriteChangeCipherSpec("srv")
           \/ ParseChangeCipherSpec("srv") \/ FlushBuffers("srv") \/ Wrapup("srv")
  BY <1>0, <1>1, <1>4, EitherGoes
<1>5. CASE \/ Unexpected("srv") \/ ReadFails("srv")
           \/ ReadData("srv") \/ ReadHandshake("srv") \/ Write("srv") \/ Renegotiate("srv")
           \/ Close("srv")
  BY <1>0, <1>5, OtherGoes
<1>6. CASE WriteFinished("srv")
  <2> DEFINE t == [x EXCEPT !.own = Verify("srv", x), !.out = KeysOf("srv", x)]
             z == Ended("srv", t, TRUE)
  <2>1. (\E m : Say("srv", z, m)) /\ x.st = "SERVER_FINISHED"
    BY <1>6 DEF WriteFinished, At, Finished
  <2>2. DOMAIN t = ContextFields /\ t.st = x.st
    BY <1>0 DEF ContextFields
  <2> HIDE DEF t
  <2>3. DOMAIN z = ContextFields /\ z.st # "SERVER_HELLO"
    BY <2>1, <2>2, NextState DEF Ended, Onward, ContextFields
  <2> HIDE DEF z
  <2> QED BY <1>0, <2>1, <2>3, StateSteps
<1>7. CASE ParseFinished("srv")
  <2> DEFINE t == [Heard("srv") EXCEPT !.in = KeysOf(Peer("srv"), x), !.peer = Remembered("srv")]
             z == Ended("srv", t, FALSE)
  <2>1. (Hear("srv", z) \/ Fail("srv", "FINISHED")) /\ x.st = "CLIENT_FINISHED"
    BY <1>7, Peers DEF ParseFinished, At, Finished
  <2>2. DOMAIN t = ContextFields /\ t.st = x.st
    BY <1>0, HeardFields DEF ContextFields, Alike
  <2> HIDE DEF t
  <2>3. DOMAIN z = ContextFields /\ z.st # "SERVER_HELLO"
    BY <2>1, <2>2, NextState DEF Ended, Onward, ContextFields
  <2> HIDE DEF z
  <2> QED BY <1>0, <2>1, <2>3, StateSteps, StateFails
<1> QED BY <1>2, <1>3, <1>4, <1>5, <1>6, <1>7 DEF EndActs, Handshake

-----------------------------------------------------------------------------
(* Sessions of one id stay of one secret.                                   *)

\* The chain, what was drawn and the server's context go from c, d, v to k, e, w, and no id
\* that was drawn before comes to be of another session.
Aged(c, d, v, k, e, w) ==
  /\ d \in Nat /\ e \in Nat /\ d <= e
  /\ \A j \in 1..Len(k) : \/ \E i \in 1..Len(c) : c[i].session = k[j].session
                          \/ k[j].session.id \in Nat /\ k[j].session.id > d
                          \/ ~v.resume /\ v.st \in Ending /\ k[j].session = v.neg
  /\ ~w.resume /\ w.st \in Making /\ w.neg.id # 0 =>
       \/ w.neg.id \in Nat /\ w.neg.id > d
       \/ /\ ~v.resume /\ v.st \in Making /\ w.neg.id = v.neg.id
          /\ v.st \in Ending => w.st \in Ending /\ w.neg.master = v.neg.master

\* What is tied stays so.
LEMMA TiedOn ==
  ASSUME NEW c, NEW d, NEW v, NEW k, NEW e, NEW w, Aged(c, d, v, k, e, w),
         NEW n, Tied(c, d, v, n)
  PROVE  Tied(k, e, w, n)
<1>0. Ending \subseteq Making
  BY DEF Ending, Making, Judging
<1> SUFFICES ASSUME n.ticket = NoTicket, n.id # 0
             PROVE  /\ n.id \in Nat /\ n.id <= e
                    /\ \A j \in 1..Len(k) : k[j].session.id = n.id => k[j].session.master = n.master
                    /\ ~w.resume /\ w.st \in Making /\ w.neg.id = n.id =>
                         w.st \in Ending /\ w.neg.master = n.master
  BY DEF Tied
<1>1. /\ n.id \in Nat /\ n.id <= d
      /\ \A i \in 1..Len(c) : c[i].session.id = n.id => c[i].session.master = n.master
      /\ ~v.resume /\ v.st \in Making /\ v.neg.id = n.id => v.st \in Ending /\ v.neg.master = n.master
  BY DEF Tied
<1>2. n.id <= e
  BY <1>1 DEF Aged
<1>3. ASSUME NEW j \in 1..Len(k), k[j].session.id = n.id
      PROVE  k[j].session.master = n.master
  <2>1. CASE \E i \in 1..Len(c) : c[i].session = k[j].session
    BY <1>1, <1>3, <2>1
  <2>2. CASE k[j].session.id \in Nat /\ k[j].session.id > d
    BY <1>1, <1>3, <2>2 DEF Aged
  <2>3. CASE ~v.resume /\ v.st \in Ending /\ k[j].session = v.neg
    BY <1>0, <1>1, <1>3, <2>3
  <2> QED BY <2>1, <2>2, <2>3 DEF Aged
<1>4. ASSUME ~w.resume, w.st \in Making, w.neg.id = n.id
      PROVE  w.st \in Ending /\ w.neg.master = n.master
  <2>1. CASE w.neg.id \in Nat /\ w.neg.id > d
    BY <1>1, <1>4, <2>1 DEF Aged
  <2>2. CASE /\ ~v.resume /\ v.st \in Making /\ w.neg.id = v.neg.id
             /\ v.st \in Ending => w.st \in Ending /\ w.neg.master = v.neg.master
    BY <1>1, <1>4, <2>2
  <2> QED BY <1>4, <2>1, <2>2 DEF Aged
<1> QED BY <1>1, <1>2, <1>3, <1>4

\* So is what a hello offers.
LEMMA OffersOn ==
  ASSUME NEW c, NEW d, NEW v, NEW k, NEW e, NEW w, Aged(c, d, v, k, e, w),
         NEW z, NEW m, Offers(c, d, v, z, m)
  PROVE  Offers(k, e, w, z, m)
<1>1. Tied(k, e, w, Named(z, m.id))
  BY TiedOn DEF Offers
<1> QED BY <1>1 DEF Offers, Aged

\* What an end that has begun nothing, or resumes a session, makes.
LEMMA TiedLike ==
  ASSUME NEW c, NEW d, NEW v, NEW n, NEW m, Tied(c, d, v, n),
         m.id = n.id, m.ticket = n.ticket, m.master = n.master
  PROVE  Tied(c, d, v, m)
BY DEF Tied

\* The chain that a step of the server leaves.
LEMMA ServerChain ==
  ASSUME Cached, EndActs("srv")
  PROVE  \A j \in 1..Len(chain') :
           \/ \E i \in 1..Len(chain) : chain[i].session = chain'[j].session
           \/ /\ ~ssl["srv"].resume /\ ssl["srv"].st \in Ending
              /\ chain'[j].session = ssl["srv"].neg
<1> DEFINE x == ssl["srv"]
<1>1. CASE chain' = chain
  BY <1>1
<1>2. CASE chain' # chain
  <2>1. Wrapup("srv")
    BY <1>2 DEF EndActs, Handshake, ReadHandshake, Renegotiate, Close, Write, ReadData
  <2>2. /\ x.neg.id # 0 /\ ~x.resume /\ x.st = "HANDSHAKE_WRAPUP" /\ chain' = Stored(x.neg)
    BY <1>2, <2>1 DEF Wrapup, Wrapped, At
  <2>3. x.st \in Making /\ x.st \in Ending
    BY <2>2 DEF Making, Judging, Ending
  <2>4. IsSequence(chain) /\ \A i \in 1..Len(chain) : chain[i].session.id # x.neg.id
    BY <2>2, <2>3 DEF Cached, Unstored, Entries
  <2> HIDE DEF x
  <2>5. \A j \in 1..Len(Stored(x.neg)) :
           \/ Stored(x.neg)[j] = [stamp |-> clock, session |-> x.neg]
           \/ \E i \in 1..Len(chain) : chain[i] = Stored(x.neg)[j]
    BY <2>4, StoredFrom
  <2>6. [stamp |-> clock, session |-> x.neg].session = x.neg
    OBVIOUS
  <2> QED BY <2>2, <2>3, <2>5, <2>6 DEF x
<1> QED BY <1>1, <1>2

\* A step of the server.
LEMMA ServerAged ==
  ASSUME Cached, Agreeing, EndActs("srv")
  PROVE  Aged(chain, draws, ssl["srv"], chain', draws', ssl'["srv"])
<1> DEFINE v == ssl["srv"]
           w == ssl'["srv"]
<1>0. "srv" \in Ends /\ Verified /\ draws \in Nat /\ draws' \in Nat /\ draws <= draws'
  BY DrawsGrow, Peers DEF Cached, EndActs
<1>1. Drawn(v, w)
  BY <1>0, ServerFollows DEF Follows, EndActs
<1>2. ASSUME v.st \in Ending, w.st \in Making
      PROVE  w.st \in Ending /\ w.neg = v.neg
  <2>0. Shapes /\ DOMAIN v = ContextFields
    BY <1>0, AgreeingFacts
  <2>1. CASE FlushBuffers("srv")
    <3>1. w.st = After(v.st) /\ w.neg = v.neg /\ v.st = "FLUSH_BUFFERS"
      BY <1>0, <2>0, <2>1, OnwardFields DEF FlushBuffers, Move, At, Shapes
    <3> QED BY <3>1, NextState DEF Ending
  <2>2. CASE Wrapup("srv")
    <3>1. Move("srv", Done(v)) \/ Move("srv", DoneAgain(v))
      BY <2>2 DEF Wrapup, Done, DoneAgain
    <3>2. w = Done(v) \/ w = DoneAgain(v)
      BY <1>0, <2>0, <3>1 DEF Move, Shapes
    <3>3. w.st = "HANDSHAKE_OVER"
      BY <2>0, <3>2, DoneFields DEF IsOver
    <3> QED BY <1>2, <3>3 DEF Making, Judging
  <2> QED BY <1>0, <1>2, <2>1, <2>2, EndingOn
<1>3. \A j \in 1..Len(chain') : \/ \E i \in 1..Len(chain) : chain[i].session = chain'[j].session
                                \/ ~v.resume /\ v.st \in Ending /\ chain'[j].session = v.neg
  BY ServerChain
<1> HIDE DEF v, w
<1>4. ASSUME ~w.resume, w.st \in Making, w.neg.id # 0
      PROVE  \/ w.neg.id \in Nat /\ w.neg.id > draws
             \/ /\ ~v.resume /\ v.st \in Making /\ w.neg.id = v.neg.id
                /\ v.st \in Ending => w.st \in Ending /\ w.neg.master = v.neg.master
  BY <1>0, <1>1, <1>2, <1>4 DEF Drawn
<1> QED BY <1>0, <1>3, <1>4 DEF Aged, v, w

\* A server that writes a Finished has come to where the script has it.
LEMMA FinishedInTurn ==
  ASSUME NEW g, NEW a, Ready(g, "srv", a), Paced(g, "srv", a), Owes("srv", ssl["srv"]),
         NEW r, r.m.msg = "FINISHED", wire'["cli"] = Append(wire["cli"], r)
  PROVE  ssl["srv"].st = "SERVER_FINISHED"
<1> DEFINE x == ssl["srv"]
           z == wire["cli"]
<1>0. "srv" \in Ends /\ "cli" = Peer("srv") /\ "cli" # "srv" /\ "cli" \in Ends
  BY Peers
<1>1. IsSequence(z) /\ Len(z) \in Nat /\ Append(z, r)[Len(z) + 1] = r /\ Len(Append(z, r)) # Len(z)
      /\ \A q : Append(z, q)[Len(z) + 1] = q
  <2>1. IsSequence(z)
    BY <1>0, ReadyFacts DEF Shapes
  <2> QED BY <2>1, Appended
<1>2. Append(z, r) # z /\ \A q : Append(z, q) = Append(z, r) => q = r
  BY <1>1
<1>3. PICK b : Paces(g, "srv", a, b, wire["srv"], z, wire'["srv"], Append(z, r),
                     ssl'["srv"].err # "OK")
  BY <1>0 DEF Paced
<1>4. ~Noise(r.m)
  BY DEF Noise
<1>5. Tells(g, "srv", a, r, b)
  <2> HIDE DEF z
  <2> QED BY <1>2, <1>3, <1>4 DEF Paces
<1>6. a.at = "SERVER_CHANGE_CIPHER_SPEC"
  BY <1>0, <1>5, LeadsTurn DEF Tells, Change
<1>7. x.st \in {"SERVER_HELLO"} \cup ToServer \cup Full \cup ToClient /\ Stands(g, "srv", x, a)
      /\ x.resume \in BOOLEAN
  BY <1>0, ReadyFacts DEF Owes, UntilServer, Ready
<1> HIDE DEF x
<1>8. x.st # "SERVER_HELLO"
  BY <1>6, <1>7 DEF Stands, Greets
<1>9. Placed(g, x, a.at) /\ SrvPlaced(g, x, a.at) /\ x.held = NoMsg
  <2>1. Halfway(x)
    BY <1>7, <1>8 DEF Halfway, Resting, Unasked, Ending, ToServer, ToClient, Full
  <2> QED BY <1>0, <1>7, <2>1, MidFacts
<1>10. x.st \notin Full
  <2>1. SUFFICES ASSUME x.st \in Full PROVE FALSE
    OBVIOUS
  <2>2. x.st # "SERVER_CERTIFICATE" /\ x.st # "SERVER_KEY_EXCHANGE" /\ x.st # "CLIENT_CERTIFICATE"
        /\ x.st # "CERTIFICATE_VERIFY"
    BY <1>6, <1>9 DEF Placed
  <2>3. x.st # "CERTIFICATE_REQUEST" /\ x.st # "SERVER_HELLO_DONE"
    BY <1>6, <1>9 DEF Placed, BeforeRequest, BeforeDone
  <2>4. x.st # "CLIENT_KEY_EXCHANGE"
    BY <1>6, <1>9 DEF SrvPlaced
  <2> QED BY <2>1, <2>2, <2>3, <2>4 DEF Full
<1>11. x.st # "CLIENT_CHANGE_CIPHER_SPEC" /\ x.st # "CLIENT_FINISHED"
       /\ x.st # "SERVER_CHANGE_CIPHER_SPEC"
  BY <1>6, <1>9 DEF Placed
<1> QED BY <1>7, <1>8, <1>10, <1>11 DEF ToServer, ToClient, x

\* In that state it does nothing else.
LEMMA FinishesThen ==
  ASSUME ssl["srv"].st = "SERVER_FINISHED", EndActs("srv")
  PROVE  WriteFinished("srv")
<1>1. ~Reads("srv") /\ ~Over("srv") /\ ~WaitsInRenegotiation("srv")
  BY DEF Reads, Over, WaitsInRenegotiation, At, CertState
<1>2. Handshake("srv")
  BY <1>1 DEF EndActs, ReadHandshake, Renegotiate, Close, Write, ReadData
<1>3. ~ServerStep
  BY DEF ServerStep, ParseClientHello, WriteServerHello, WriteServerKeyExchange,
     WriteCertificateRequest, WriteServerHelloDone, ParseClientKeyExchange,
     ParseCertificateVerify, WriteNewSessionTicket, At
<1>4. ~Begin("srv") /\ ~WriteCertificate("srv") /\ ~SkipCertificate("srv")
      /\ ~ParseCertificate("srv") /\ ~WriteChangeCipherSpec("srv")
      /\ ~ParseChangeCipherSpec("srv") /\ ~ParseFinished("srv") /\ ~FlushBuffers("srv")
      /\ ~Wrapup("srv") /\ ~Unexpected("srv") /\ ~ReadFails("srv")
  BY <1>1, Peers DEF Begin, WriteCertificate, SkipCertificate, ParseCertificate, ReadsCertificate,
     WriteChangeCipherSpec, ParseChangeCipherSpec, ParseFinished, FlushBuffers, Wrapup,
     Unexpected, ReadFails, At, CertState, Change, Finished
<1> QED BY <1>2, <1>3, <1>4 DEF Handshake

\* What it keeps of its Finished is of a session it resumed, or of the one it makes.
LEMMA FinishedTied ==
  ASSUME Cached, Agreeing, NEW g, NEW a, Ready(g, "srv", a), WriteFinished("srv"),
         UNCHANGED <<chain, made>>
  PROVE  LET w == ssl'["srv"]
         IN Resumed(w.own.log) \/ Tied(chain', draws', w, Written(w))
<1> DEFINE x == ssl["srv"]
           l == x.log
           w == ssl'["srv"]
           v == Verify("srv", x)
           k == KeysOf("srv", x)
           t == [x EXCEPT !.own = v, !.out = k]
           y == Ended("srv", t, TRUE)
<1>0. "srv" \in Ends /\ "srv" # "cli" /\ Shapes /\ DOMAIN x = ContextFields
  BY AgreeingFacts, Peers
<1>1. x.st = "SERVER_FINISHED" /\ (\E m : Say("srv", y, m)) /\ draws' = draws
  BY DEF WriteFinished, At, Finished
<1>2. Agreed(g, "srv", x, a) /\ x.resume = Resumed(l)
  BY <1>0, <1>1, LateFacts DEF Late, ToServer
<1>3. v.log = l /\ v.master = x.neg.master
  BY DEF Verify
<1> HIDE DEF v, k
<1>4. /\ DOMAIN t = ContextFields /\ t.st = x.st /\ t.resume = x.resume /\ t.neg = x.neg
      /\ t.own = v
  BY <1>0 DEF ContextFields
<1> HIDE DEF t
<1>5. /\ DOMAIN y = ContextFields /\ y.resume = x.resume /\ y.neg = x.neg /\ y.own = v
      /\ ~x.resume => y.st = "FLUSH_BUFFERS"
  BY <1>1, <1>4, NextState DEF Ended, Onward, ContextFields
<1> HIDE DEF y
<1>6. w.own = v /\ w.neg = x.neg /\ w.resume = x.resume /\ (~x.resume => w.st = "FLUSH_BUFFERS")
  <2>1. \A m : Say("srv", y, m) => Twin(w, y) /\ w.neg = y.neg
    BY <1>0, <1>5, Stepping
  <2> HIDE DEF w, x
  <2>2. Twin(w, y) /\ w.neg = y.neg
    BY <1>1, <2>1
  <2>3. w.st = y.st /\ w.resume = y.resume /\ w.own = y.own
    BY <2>2 DEF Twin, SameKeys
  <2> QED BY <1>5, <2>2, <2>3
<1>7. CASE x.resume
  BY <1>2, <1>3, <1>6, <1>7
<1>8. CASE ~x.resume
  <2>1. x.neg.id = l[2].id
    BY <1>2, <1>8 DEF Agreed
  <2>2. x.neg.id # 0 => /\ x.neg.id \in Nat /\ x.neg.id <= draws
                        /\ \A i \in 1..Len(chain) : chain[i].session.id # x.neg.id
    BY <1>1, <1>8 DEF Cached, Unstored, Making, Judging
  <2> DEFINE n == Written(w)
  <2>3. n.id = x.neg.id /\ n.master = x.neg.master
    BY <1>3, <1>6, <2>1 DEF Written
  <2>4. w.st \in Ending /\ w.neg.master = n.master
    BY <1>6, <1>8, <2>3 DEF Ending
  <2> HIDE DEF n, w, x
  <2>5. Tied(chain', draws', w, n)
    BY <1>1, <2>2, <2>3, <2>4 DEF Tied
  <2> QED BY <2>5 DEF n, w
<1> QED BY <1>2, <1>7, <1>8

\* A server that has read a hello has the id it offers.
LEMMA GreetedBy ==
  ASSUME NEW g, NEW a, Ready(g, "srv", a), Sealing(Msg("srv")), ParseClientHello,
         ssl'["srv"].st = "SERVER_HELLO"
  PROVE  ssl'["srv"].neg.id = Msg("srv").id
<1> DEFINE x == ssl["srv"]
           m == Msg("srv")
           q == Heard("srv")
           w == [q EXCEPT !.neg.id = m.id, !.cr = m.rnd]
           k == Ticketed(w, m)
           suite == Prefers[First(Common(m))]
           u == [k EXCEPT !.neg.suite = suite]
           y == Onward(u)
           z == ssl'["srv"]
<1>0. "srv" \in Ends /\ "cli" = Peer("srv") /\ "cli" # "srv"
  BY Peers
<1>1. x.st = "CLIENT_HELLO" /\ (Hear("srv", y) \/ Refuse("srv", "CLIENT_HELLO"))
  <2>1. x.st = "CLIENT_HELLO"
    BY DEF ParseClientHello, At
  <2>2. Hear("srv", y) \/ Refuse("srv", "CLIENT_HELLO")
    BY Zenon DEF ParseClientHello
  <2> QED BY <2>1, <2>2
<1>2. /\ Shapes /\ DOMAIN x = ContextFields /\ DOMAIN x.neg = SessionFields
      /\ x.resume \in BOOLEAN /\ x.due \in BOOLEAN
      /\ Along(q, x) /\ q.neg = x.neg /\ DOMAIN q = ContextFields
  BY <1>0, ReadyFacts
<1>3. ~x.resume
  <2>1. x.st \in Unasked /\ x.st \in Resting
    BY <1>1 DEF Unasked, Resting
  <2> QED BY <1>0, <1>2, <2>1 DEF Ready, Stands, Settled
<1>4. CASE Refuse("srv", "CLIENT_HELLO")
  BY <1>0, <1>1, <1>2, <1>4, StateFails
<1>5. CASE Hear("srv", y)
  <2>1. /\ DOMAIN w = ContextFields /\ w.resume = x.resume /\ w.due = x.due
        /\ DOMAIN w.neg = SessionFields /\ w.neg.id = m.id
    <3> HIDE DEF q, m, x
    <3> QED BY <1>2 DEF ContextFields, SessionFields, Along
  <2> HIDE DEF w
  <2>2. DOMAIN k = ContextFields /\ DOMAIN k.neg = SessionFields /\ k.neg.id = w.neg.id
    <3>1. ~w.resume /\ w.resume \in BOOLEAN /\ w.due \in BOOLEAN
      BY <1>2, <1>3, <2>1
    <3>2. (Accepted(m.ticket) => DOMAIN m.ticket.state = SessionFields)
      BY DEF Sealing
    <3> HIDE DEF m, x
    <3> QED BY <2>1, <3>1, <3>2, TicketedFields
  <2> HIDE DEF k, suite, m, x
  <2>3. DOMAIN u = ContextFields /\ u.neg.id = k.neg.id
    BY <2>2 DEF ContextFields, SessionFields
  <2> HIDE DEF u
  <2>4. y.neg = u.neg /\ DOMAIN y = ContextFields
    BY <2>3, OnwardParts
  <2> HIDE DEF y, z
  <2>5. z = y
    BY <1>0, <1>2, <1>5, <2>4, StepParts DEF z
  <2> QED BY <2>1, <2>2, <2>3, <2>4, <2>5 DEF z, m
<1> QED BY <1>1, <1>4, <1>5

\* What is known at a step of an end.
LEMMA OpeningFacts ==
  ASSUME Opening, NEW s \in Ends, EndActs(s)
  PROVE  /\ Cached /\ Agreeing /\ Shapes /\ Turn(s) /\ ssl[s].err = "OK"
         /\ ssl'[Peer(s)] = ssl[Peer(s)] /\ saved' = saved
         /\ DOMAIN ssl["srv"].neg = SessionFields /\ DOMAIN ssl["cli"].neg = SessionFields
         /\ \E a : Wary(Rules, s, a) /\ Paced(Rules, s, a)
<1>1. Cached /\ Agreeing /\ Shapes
  BY DEF Opening, Tracing, Agreeing
<1>2. Turn(s) /\ saved' = saved
  BY <1>1, EndTurns, SameRules DEF EndActs
<1>3. ssl[s].err = "OK" /\ ssl'[Peer(s)] = ssl[Peer(s)]
  BY <1>2 DEF Turn
<1>4. DOMAIN ssl["srv"].neg = SessionFields /\ DOMAIN ssl["cli"].neg = SessionFields
  <2>1. PICK f : Traced(f)
    BY DEF Opening, Tracing
  <2>2. DOMAIN ssl["srv"].neg = SessionFields
    BY <2>1 DEF Traced, ServerKnows
  <2>3. Fit("cli", ssl["cli"])
    BY <1>1 DEF Agreeing, Ends
  <2> QED BY <2>2, <2>3 DEF Fit
<1>5. PICK v : Scripted(Rules, v)
  BY DEF Opening
<1>6. Wary(Rules, s, v[s]) /\ Opens(wire[s], ssl[s].in, ssl[Peer(s)].out)
  BY <1>3, <1>5, WaryNow DEF Opening
<1>7. Paced(Rules, s, v[s])
  BY <1>6, EndPaced DEF EndActs
<1> QED BY <1>1, <1>2, <1>3, <1>4, <1>6, <1>7

\* A step of the server.
LEMMA ServerTies ==
  ASSUME Opening, EndActs("srv")
  PROVE  Ties(chain', draws', saved', ssl'["cli"], ssl'["srv"], wire'["srv"])
<1> DEFINE c == chain
           d == draws
           z == saved
           x == ssl["cli"]
           v == ssl["srv"]
           w == ssl'["srv"]
           u == wire["srv"]
<1>0. "srv" \in Ends /\ Peer("srv") = "cli"
  BY Peers
<1>1. /\ Cached /\ Agreeing /\ Turn("srv") /\ DOMAIN v.neg = SessionFields
      /\ ssl'["cli"] = x /\ saved' = z /\ IsSequence(u)
  BY <1>0, OpeningFacts DEF Shapes
<1>2. PICK a : Wary(Rules, "srv", a) /\ Paced(Rules, "srv", a)
  BY <1>0, OpeningFacts
<1>3. Ready(Rules, "srv", a)
  BY <1>2 DEF Wary
<1>4. Aged(c, d, v, chain', draws', w)
  BY <1>1, ServerAged
<1>5. Ties(c, d, z, x, v, u)
  BY DEF Opening
<1>6. u = wire'["srv"] \/ (u # <<>> /\ wire'["srv"] = Tail(u))
  BY <1>1, <1>0, EndSteps DEF EndActs, Agreeing
<1>7. w.own = v.own \/ Resumed(w.own.log) \/ Tied(chain', draws', w, Written(w))
  <2>1. ASSUME NEW r, wire'["cli"] = Append(wire["cli"], r), r.m.msg = "FINISHED",
               Owes("srv", v)
        PROVE  Resumed(w.own.log) \/ Tied(chain', draws', w, Written(w))
    <3>1. v.st = "SERVER_FINISHED"
      BY <1>2, <1>3, <2>1, FinishedInTurn
    <3>2. WriteFinished("srv")
      BY <3>1, FinishesThen
    <3>3. UNCHANGED <<chain, made>>
      <4>1. ~Wrapup("srv") /\ ~Over("srv") /\ ~WaitsInRenegotiation("srv")
        BY <3>1 DEF Wrapup, At, Over, WaitsInRenegotiation
      <4> QED BY <4>1 DEF EndActs, Handshake, ReadHandshake, Renegotiate, Close, Write, ReadData
    <3> QED BY <1>1, <1>3, <3>2, <3>3, FinishedTied
  <2>2. Writing("srv", v, w)
    BY <1>1 DEF Turn
  <2> QED BY <1>0, <2>1, <2>2 DEF Writing
<1>8. ASSUME w.st = "SERVER_HELLO", ~w.resume
      PROVE  /\ w.neg.id \in Nat /\ w.neg.id <= draws'
             /\ Tied(chain', draws', w, Named(z, w.neg.id))
  <2> DEFINE m == Msg("srv")
  <2>1. ParseClientHello
    BY <1>1, <1>8, ServerGreets
  <2>2. u # <<>> /\ m.msg = "CLIENT_HELLO"
    BY <2>1 DEF ParseClientHello, CameAs, Comes
  <2>3. w.neg.id = m.id
    BY <1>3, <1>8, <2>1, <2>2, GreetedBy, SealedTicket
  <2>4. u[1].m = m /\ 1 \in 1..Len(u)
    BY <1>1, <2>2, OnTheWire DEF Msg
  <2>5. Offers(c, d, v, z, m)
    BY <1>5, <2>2, <2>4 DEF Ties
  <2>6. Offers(chain', draws', w, z, m)
    BY <1>4, <2>5, OffersOn
  <2> HIDE DEF m, w, z
  <2> QED BY <2>3, <2>6 DEF Offers
<1>9. \A i \in 1..Len(wire'["srv"]) : \E j \in 1..Len(u) : wire'["srv"][i] = u[j]
  <2> HIDE DEF u
  <2>1. CASE u = wire'["srv"]
    BY <2>1
  <2> QED BY <1>1, <1>6, <2>1, OnTheWire
<1> HIDE DEF c, d, z, x, v, w, u
<1>10. \A i \in 1..Len(wire'["srv"]) : wire'["srv"][i].m.msg = "CLIENT_HELLO" =>
         Offers(chain', draws', w, z, wire'["srv"][i].m)
  BY <1>4, <1>5, <1>9, OffersOn DEF Ties
<1>11. /\ Tied(chain', draws', w, z) /\ Tied(chain', draws', w, x.sess)
       /\ x.resume \/ x.st \in Ending => Tied(chain', draws', w, x.neg)
  BY <1>4, <1>5, TiedOn DEF Ties
<1>12. w.own = NoInfo \/ Resumed(w.own.log) \/ Tied(chain', draws', w, Written(w))
  <2>1. CASE w.own = v.own
    <3>1. v.own = NoInfo \/ Resumed(v.own.log) \/ Tied(chain', draws', w, Written(v))
      BY <1>4, <1>5, TiedOn DEF Ties
    <3>2. Written(w) = Written(v)
      BY <2>1 DEF Written
    <3> QED BY <2>1, <3>1, <3>2
  <2> QED BY <1>7, <2>1
<1>13. Ties(chain', draws', z, x, w, wire'["srv"])
  BY <1>8, <1>10, <1>11, <1>12 DEF Ties
<1> QED BY <1>1, <1>13 DEF x, w, z

\* What the client has of sessions after a step: what it had, or a session whose id is not used.
Alike3(n, m) == n.id = m.id /\ n.ticket = m.ticket /\ n.master = m.master
Keeps(x, y) ==
  /\ y.sess = x.sess \/ (x.st \in Ending /\ y.sess = x.neg)
  /\ y.resume \/ y.st \in Ending =>
       \/ y.neg.id = 0 \/ y.neg.ticket # NoTicket
       \/ (x.resume \/ x.st \in Ending) /\ Alike3(y.neg, x.neg)

\* Its hello.
LEMMA HelloKeeps ==
  ASSUME Agreeing, WriteClientHello
  PROVE  Keeps(ssl["cli"], ssl'["cli"])
<1> DEFINE x == ssl["cli"]
           id == OfferedId(x)
           z == [x EXCEPT !.cr = draws + 1, !.neg.id = IF id # 0 THEN id ELSE @]
           y == Onward(z)
           w == ssl'["cli"]
<1>0. /\ Shapes /\ DOMAIN x = ContextFields /\ "cli" \in Ends /\ DOMAIN x.neg = SessionFields
  BY AgreeingFacts, Peers DEF Fit
<1>1. (\E m : Say("cli", y, m)) /\ x.st = "CLIENT_HELLO"
  BY DEF WriteClientHello, At
<1>2. /\ DOMAIN z = ContextFields /\ z.st = x.st /\ z.sess = x.sess /\ z.resume = x.resume
      /\ z.neg.id = (IF id # 0 THEN id ELSE x.neg.id)
      /\ z.neg.master = x.neg.master /\ z.neg.ticket = x.neg.ticket
  <2> HIDE DEF id, x
  <2> QED BY <1>0 DEF ContextFields, SessionFields, x
<1>3. x.neg.ticket # NoTicket \/ id = 0 \/ id = x.neg.id
  BY DEF OfferedId
<1> HIDE DEF z, id
<1>4. /\ DOMAIN y = ContextFields /\ y.st = "SERVER_HELLO" /\ y.sess = x.sess
      /\ y.resume = x.resume /\ y.neg = z.neg
  BY <1>1, <1>2, OnwardKeeps, NextState
<1> HIDE DEF y, x
<1>5. Near(w, y)
  BY <1>0, <1>1, <1>4, NearSteps
<1> HIDE DEF w
<1>6. w.st = "SERVER_HELLO" /\ w.sess = x.sess /\ w.resume = x.resume /\ w.neg = z.neg
  BY <1>4, <1>5 DEF Near
<1>7. w.neg.ticket # NoTicket \/ Alike3(w.neg, x.neg)
  BY <1>2, <1>3, <1>6 DEF Alike3
<1>8. Keeps(x, w)
  BY <1>6, <1>7 DEF Keeps, Ending
<1> QED BY <1>8 DEF x, w

\* The server's.
LEMMA AnswerKeeps ==
  ASSUME Agreeing, ParseServerHello, Idles("cli") => Keeps(ssl["cli"], ssl'["cli"])
  PROVE  Keeps(ssl["cli"], ssl'["cli"])
<1> DEFINE x == ssl["cli"]
           m == Msg("cli")
           h == [Heard("cli") EXCEPT !.sr = m.rnd, !.due = m.tickets]
           y == [h EXCEPT !.st = "SERVER_CHANGE_CIPHER_SPEC"]
           z == [h EXCEPT !.resume = FALSE, !.neg.start = clock, !.neg.suite = m.suite,
                          !.neg.id = m.id]
           w == ssl'["cli"]
<1>0. Shapes /\ DOMAIN x = ContextFields /\ "cli" \in Ends /\ DOMAIN x.neg = SessionFields
      /\ x.st = "SERVER_HELLO"
  BY AgreeingFacts, Peers DEF Fit, ParseServerHello, At
<1>1. \/ Refuse("cli", "SERVER_HELLO") \/ (Hear("cli", y) /\ Resumes(x, m))
      \/ Hear("cli", Onward(z))
  BY DEF ParseServerHello
<1>2. /\ DOMAIN h = ContextFields /\ h.st = x.st /\ h.neg = x.neg
      /\ h.sess = x.sess /\ h.resume = x.resume
  <2>1. /\ DOMAIN Heard("cli") = ContextFields /\ Heard("cli").st = x.st
        /\ Heard("cli").neg = x.neg /\ Heard("cli").sess = x.sess /\ Heard("cli").resume = x.resume
    BY <1>0, HeardKeeps
  <2> QED BY <2>1 DEF ContextFields
<1> HIDE DEF h, x, m
<1>3. CASE Refuse("cli", "SERVER_HELLO")
  BY <1>0, <1>3, FailIdles DEF x
<1>4. CASE Hear("cli", y) /\ Resumes(x, m)
  <2>1. /\ DOMAIN y = ContextFields /\ y.neg = x.neg /\ y.sess = x.sess /\ y.resume = x.resume
    BY <1>2 DEF ContextFields
  <2> HIDE DEF y
  <2>2. Near(w, y) /\ x.resume
    BY <1>0, <1>4, <2>1, NearSteps DEF Resumes
  <2> HIDE DEF w
  <2>3. Keeps(x, w)
    BY <2>1, <2>2 DEF Near, Keeps, Alike3
  <2> QED BY <2>3 DEF x, w
<1>5. CASE Hear("cli", Onward(z))
  <2>1. DOMAIN z = ContextFields /\ ~z.resume /\ z.sess = x.sess /\ z.st = x.st
    BY <1>2 DEF ContextFields
  <2> DEFINE q == Onward(z)
  <2> HIDE DEF z
  <2>2. DOMAIN q = ContextFields /\ ~q.resume /\ q.sess = x.sess /\ q.st = "SERVER_CERTIFICATE"
    BY <1>0, <2>1, OnwardKeeps, NextState
  <2>3. Near(w, q)
    BY <1>0, <1>5, <2>2, NearSteps
  <2> HIDE DEF q, w
  <2>4. Keeps(x, w)
    BY <2>2, <2>3 DEF Near, Keeps, Ending
  <2> QED BY <2>4 DEF x, w
<1> QED BY <1>1, <1>3, <1>4, <1>5

\* The premaster secret, and the ticket.
LEMMA KeysKeep ==
  ASSUME Agreeing, WriteClientKeyExchange \/ ParseNewSessionTicket
  PROVE  Keeps(ssl["cli"], ssl'["cli"])
<1> DEFINE x == ssl["cli"]
           w == ssl'["cli"]
<1>0. /\ Shapes /\ Fit("cli", x) /\ DOMAIN x = ContextFields /\ "cli" \in Ends
      /\ DOMAIN x.neg = SessionFields
  BY AgreeingFacts, Peers DEF Fit
<1>1. CASE WriteClientKeyExchange
  <2> DEFINE k == Master("cli", x, draws + 1)
             z == [x EXCEPT !.neg.master = k]
             y == Onward(z)
  <2>1. (\E m : Say("cli", y, m)) /\ x.st = "CLIENT_KEY_EXCHANGE"
    BY <1>1 DEF WriteClientKeyExchange, At
  <2>2. ~x.resume
    BY <1>0, <2>1 DEF Fit, Full
  <2> HIDE DEF k, x
  <2>3. DOMAIN z = ContextFields /\ z.st = x.st /\ z.sess = x.sess /\ z.resume = x.resume
    BY <1>0 DEF ContextFields
  <2> HIDE DEF z
  <2>4. /\ DOMAIN y = ContextFields /\ y.st = "CERTIFICATE_VERIFY" /\ y.sess = x.sess
        /\ y.resume = x.resume
    BY <2>1, <2>3, OnwardKeeps, NextState
  <2> HIDE DEF y
  <2>5. Near(w, y)
    BY <1>0, <2>1, <2>4, NearSteps
  <2> HIDE DEF w
  <2>6. Keeps(x, w)
    BY <2>2, <2>4, <2>5 DEF Near, Keeps, Ending
  <2> QED BY <2>6 DEF x, w
<1>2. CASE ParseNewSessionTicket
  <2> DEFINE h == Heard("cli")
             y == [h EXCEPT !.due = FALSE, !.neg.id = 0, !.neg.ticket = Msg("cli").ticket]
  <2>1. Hear("cli", y)
    BY <1>2 DEF ParseNewSessionTicket
  <2>2. DOMAIN h = ContextFields /\ h.neg = x.neg /\ h.sess = x.sess
    BY <1>0, HeardKeeps
  <2> HIDE DEF h
  <2>3. DOMAIN y = ContextFields /\ y.sess = x.sess /\ y.neg.id = 0
    BY <1>0, <2>2 DEF ContextFields, SessionFields
  <2> HIDE DEF y, x
  <2>4. Near(w, y)
    BY <1>0, <2>1, <2>3, NearSteps
  <2> HIDE DEF w
  <2>5. Keeps(x, w)
    BY <2>3, <2>4 DEF Near, Keeps
  <2> QED BY <2>5 DEF x, w
<1> QED BY <1>1, <1>2

\* The end of the handshake, and starting over.
LEMMA EndKeeps ==
  ASSUME Agreeing,
         \/ Wrapup("cli")
         \/ Move("cli", Renewed(ssl["cli"])) \/ Hear("cli", Renewed(ssl["cli"]))
  PROVE  Keeps(ssl["cli"], ssl'["cli"])
<1> DEFINE x == ssl["cli"]
           w == ssl'["cli"]
           y == Done(x)
           z == DoneAgain(x)
           n == Renewed(x)
<1>0. /\ Shapes /\ DOMAIN x = ContextFields /\ "cli" \in Ends
  BY AgreeingFacts, Peers
<1>1. IsOver(y, x) /\ IsOver(z, x) /\ IsRenewed(n, x)
  BY <1>0, DoneFields
<1>2. CASE Wrapup("cli")
  <2>1. x.st = "HANDSHAKE_WRAPUP" /\ (Move("cli", y) \/ Move("cli", z))
    BY <1>2 DEF Wrapup, At, Done, DoneAgain
  <2> HIDE DEF y, z, n
  <2>2. Near(w, y) \/ Near(w, z)
    BY <1>0, <1>1, <2>1, NearSteps DEF IsOver, Rid
  <2> HIDE DEF w, x
  <2>3. Keeps(x, w)
    BY <1>1, <2>1, <2>2 DEF Near, IsOver, Rid, Keeps, Ending
  <2> QED BY <2>3 DEF x, w
<1>3. CASE Move("cli", n) \/ Hear("cli", n)
  <2> HIDE DEF n, y, z
  <2>1. Near(w, n)
    BY <1>0, <1>1, <1>3, NearSteps DEF IsRenewed, Rid
  <2> HIDE DEF w, x
  <2>2. Keeps(x, w)
    BY <1>1, <2>1 DEF Near, IsRenewed, Rid, Keeps, Ending
  <2> QED BY <2>2 DEF x, w
<1> QED BY <1>2, <1>3

\* A step that learns nothing.
LEMMA IdleKeeps ==
  ASSUME Idles("cli"),
         ssl'["cli"].st \in Ending => ssl["cli"].st \in Ending \/ ssl["cli"].resume
  PROVE  Keeps(ssl["cli"], ssl'["cli"])
BY DEF Idles, Still, Keeps, Alike3

\* The server's Finished, at the end of a full handshake.
LEMMA FinishHeardTied ==
  ASSUME Opening, EndActs("cli"), ParseFinished("cli"), ~ssl["cli"].resume,
         ssl'["cli"].st \in Ending
  PROVE  Tied(chain, draws, ssl["srv"], ssl'["cli"].neg)
<1> DEFINE x == ssl["cli"]
           l == x.log
           v == ssl["srv"]
           u == wire["cli"]
           w == ssl'["cli"]
<1>0. "cli" \in Ends /\ Peer("cli") = "srv" /\ "cli" # "srv"
  BY Peers
<1>1. /\ Agreeing /\ Shapes /\ \E a : Wary(Rules, "cli", a) /\ Paced(Rules, "cli", a)
  BY <1>0, OpeningFacts
<1>2. PICK a : Ready(Rules, "cli", a)
  BY <1>1 DEF Wary
<1>3. x.st = "SERVER_FINISHED" /\ CameAs("cli", "FINISHED")
  BY <1>0 DEF ParseFinished, At, Finished
<1>4. Msg("cli").verify = Verify("srv", x)
  <2>1. CASE Fail("cli", "FINISHED")
    BY <1>0, <1>1, <1>3, <2>1, StateFails DEF Ending
  <2> QED BY <1>0, <2>1 DEF ParseFinished
<1>5. Agreed(Rules, "cli", x, a) /\ x.resume = Resumed(l)
  <2>1. x.st \in Late
    BY <1>3 DEF Late, ToServer
  <2> QED BY <1>0, <1>2, <2>1, LateFacts
<1>6. u # <<>> /\ Head(u).m.msg = "FINISHED" /\ Msg("cli") = Head(u).m
  BY <1>3 DEF CameAs, Comes, Msg
<1>7. Head(u) = u[1] /\ 1 \in 1..Len(u)
  BY <1>0, <1>1, <1>6, OnTheWire DEF Shapes
<1>8. u[1].m.verify = v.own
  BY <1>0, <1>1, <1>6, <1>7 DEF Agreeing, Matches
<1>9. v.own = Verify("srv", x)
  BY <1>4, <1>6, <1>7, <1>8
<1>10. v.own.log = l /\ v.own.master = x.neg.master /\ v.own # NoInfo
  BY <1>9 DEF Verify, NoInfo
<1>11. Tied(chain, draws, v, Written(v))
  BY <1>5, <1>10 DEF Opening, Ties
<1>12. x.neg.id # 0 => x.neg.id = l[2].id
  BY <1>5 DEF Agreed
<1>13. w.neg.id = x.neg.id /\ w.neg.ticket = x.neg.ticket /\ w.neg.master = x.neg.master
  BY <1>0, <1>1, FinishedIdles DEF Idles, Still
<1> HIDE DEF x, v, w
<1>14. CASE w.neg.ticket = NoTicket /\ w.neg.id # 0
  <2> DEFINE n == Written(v)
             m == w.neg
  <2>1. m.id = n.id /\ m.ticket = n.ticket /\ m.master = n.master
    BY <1>10, <1>12, <1>13, <1>14 DEF Written
  <2> HIDE DEF n, m
  <2>2. Tied(chain, draws, v, m)
    BY <1>11, <2>1, TiedLike DEF n
  <2> QED BY <2>2 DEF m, v, w
<1>15. CASE ~(w.neg.ticket = NoTicket /\ w.neg.id # 0)
  BY <1>15 DEF Tied, w
<1> QED BY <1>14, <1>15

\* What the client has of sessions after any step.
LEMMA ClientKeeps ==
  ASSUME Opening, EndActs("cli"),
         ~(ParseFinished("cli") /\ ~ssl["cli"].resume /\ ssl'["cli"].st \in Ending)
  PROVE  Keeps(ssl["cli"], ssl'["cli"])
<1> DEFINE x == ssl["cli"]
           w == ssl'["cli"]
<1>0. "cli" \in Ends /\ "cli" # "srv"
  BY Peers
<1>1. /\ Agreeing /\ Shapes /\ DOMAIN x = ContextFields /\ DOMAIN x.neg = SessionFields
  BY <1>0, OpeningFacts, AgreeingFacts
<1>2. w.st \in Ending => x.st \in Ending \/ x.resume
  <2> SUFFICES ASSUME w.st \in Ending, ~x.resume, x.st \notin Ending
               PROVE  FALSE
    OBVIOUS
  <2>1. WriteFinished("cli")
    BY <1>1, EndingFrom
  <2>2. /\ x.st = "CLIENT_FINISHED"
        /\ \E z : \E m : /\ Say("cli", Ended("cli", z, TRUE), m)
                         /\ z = [x EXCEPT !.own = Verify("cli", x), !.out = KeysOf("cli", x)]
    BY <2>1, <1>0 DEF WriteFinished, At, Finished
  <2>3. PICK z : (\E m : Say("cli", Ended("cli", z, TRUE), m))
                 /\ z = [x EXCEPT !.own = Verify("cli", x), !.out = KeysOf("cli", x)]
    BY <2>2
  <2>4. DOMAIN z = ContextFields /\ ~z.resume /\ z.st = x.st
    <3> HIDE DEF x
    <3> QED BY <1>1, <2>3 DEF ContextFields
  <2>5. Ended("cli", z, TRUE) = Onward(z)
    BY <2>4 DEF Ended
  <2>6. w.st = After(z.st)
    <3>1. \E m : Say("cli", Onward(z), m)
      BY <2>3, <2>5
    <3> HIDE DEF x
    <3> QED BY <1>0, <1>1, <2>4, <3>1, StateSteps
  <2> HIDE DEF w, x
  <2>7. w.st = "SERVER_CHANGE_CIPHER_SPEC"
    BY <2>2, <2>4, <2>6, NextState
  <2> QED BY <2>7 DEF Ending
<1>3. Idles("cli") => Keeps(x, w)
  BY <1>2, IdleKeeps
<1>4. CASE ReadHandshake("cli") \/ Renegotiate("cli") \/ Close("cli") \/ Write("cli")
           \/ ReadData("cli")
  <2>1. CASE Move("cli", Renewed(x)) \/ Hear("cli", Renewed(x))
    BY <1>1, <2>1, EndKeeps
  <2>2. CASE ~Move("cli", Renewed(x)) /\ ~Hear("cli", Renewed(x))
    <3>1. Idles("cli")
      BY <1>0, <1>1, <1>4, <2>2, ProgramIdles
    <3> QED BY <1>3, <3>1
  <2> QED BY <2>1, <2>2
<1>5. CASE Handshake("cli")
  <2>1. CASE \/ Begin("cli") \/ WriteCertificate("cli") \/ WriteChangeCipherSpec("cli")
             \/ ParseChangeCipherSpec("cli") \/ FlushBuffers("cli")
    BY <1>0, <1>1, <1>3, <2>1, EitherIdles
  <2>2. CASE SkipCertificate("cli") \/ ParseCertificate("cli")
    BY <1>0, <1>1, <1>3, <2>2, CertificateIdles
  <2>3. CASE WriteFinished("cli") \/ ParseFinished("cli")
    <3>1. Idles("cli")
      BY <1>0, <1>1, <2>3, FinishedIdles
    <3> QED BY <1>3, <3>1
  <2>4. CASE Unexpected("cli") \/ ReadFails("cli")
    BY <1>0, <1>1, <1>3, <2>4, UselessIdles
  <2>5. CASE Wrapup("cli")
    BY <1>1, <2>5, EndKeeps
  <2>6. CASE \/ ParseServerKeyExchange \/ ParseCertificateRequest \/ ParseServerHelloDone
             \/ WriteCertificateVerify
    BY <1>1, <1>3, <2>6, ClientIdles
  <2>7. CASE WriteClientHello \/ ParseServerHello \/ WriteClientKeyExchange
             \/ ParseNewSessionTicket
    BY <1>1, <1>3, <2>7, HelloKeeps, AnswerKeeps, KeysKeep
  <2> QED BY <1>0, <1>5, <2>1, <2>2, <2>3, <2>4, <2>5, <2>6, <2>7 DEF Handshake, ClientStep
<1> QED BY <1>4, <1>5 DEF EndActs

\* The client writes a hello where that is its next message only.
LEMMA HelloThen ==
  ASSUME Agreeing, DOMAIN ssl["cli"].neg = SessionFields, EndActs("cli"),
         NEW r, wire'["srv"] = Append(wire["srv"], r), r.m.msg = "CLIENT_HELLO"
  PROVE  WriteClientHello
<1> DEFINE x == ssl["cli"]
           u == wire["srv"]
<1>0. "cli" \in Ends /\ "cli" # "srv" /\ Peer("cli") = "srv" /\ Shapes /\ IsSequence(u)
  BY Peers, AgreeingFacts DEF Shapes
<1>1. Append(u, r) # u /\ \A q : Append(u, q) = Append(u, r) => q = r
  <2>1. /\ Len(u) \in Nat /\ Append(u, r)[Len(u) + 1] = r /\ Len(Append(u, r)) # Len(u)
        /\ \A q : Append(u, q)[Len(u) + 1] = q
    BY <1>0, Appended
  <2> QED BY <2>1
<1>2. ~Idles("cli")
  <2> SUFFICES ASSUME Idles("cli") PROVE FALSE
    OBVIOUS
  <2> HIDE DEF u
  <2>1. PICK q : Told("cli", q) /\ wire'["srv"] = Append(u, q)
    BY <1>0, <1>1 DEF Idles, u
  <2>2. q = r
    BY <1>1, <2>1 DEF u
  <2> QED BY <2>1, <2>2 DEF Told
<1>3. wire'["srv"] # u
  BY <1>1
<1>4. \A y : Move("cli", y) \/ Hear("cli", y) => wire'["srv"] = u
  <2> TAKE y
  <2>1. CASE Move("cli", y)
    BY <2>1 DEF Move
  <2>2. CASE Hear("cli", y)
    <3>1. wire' = [wire EXCEPT !["cli"] = Tail(@)]
      BY <2>2 DEF Hear
    <3> QED BY <1>0, <3>1
  <2> QED BY <2>1, <2>2
<1>5. ~Wrapup("cli") /\ \A y : ~Move("cli", y) /\ ~Hear("cli", y)
  <2>1. \A y : ~Move("cli", y) /\ ~Hear("cli", y)
    BY <1>3, <1>4
  <2> QED BY <2>1 DEF Wrapup
<1>6. ~ParseServerHello
  <2> SUFFICES ASSUME Refuse("cli", "SERVER_HELLO"), At("cli", "SERVER_HELLO")
               PROVE  FALSE
    BY <1>5 DEF ParseServerHello
  <2> QED BY <1>0, <1>2, FailIdles
<1>7. ~WriteClientKeyExchange
  <2> SUFFICES ASSUME WriteClientKeyExchange
               PROVE  FALSE
    OBVIOUS
  <2> DEFINE m == [msg |-> "CLIENT_KEY_EXCHANGE", pms |-> draws + 1]
             y == Onward([x EXCEPT !.neg.master = Master("cli", x, draws + 1)])
             q == [keys |-> y.out, m |-> m]
  <2>1. Say("cli", y, m)
    BY DEF WriteClientKeyExchange
  <2>2. m.msg = "CLIENT_KEY_EXCHANGE" /\ q.m = m
    OBVIOUS
  <2> HIDE DEF y, m
  <2>3. wire'["srv"] = Append(u, q)
    BY <1>0, <2>1 DEF Say, Shapes
  <2> HIDE DEF q, u
  <2>4. q = r
    BY <1>1, <2>3 DEF u
  <2> QED BY <2>2, <2>4
<1>8. ~ParseNewSessionTicket
  BY <1>5 DEF ParseNewSessionTicket
<1>9. ~(ReadHandshake("cli") \/ Renegotiate("cli") \/ Close("cli") \/ Write("cli")
        \/ ReadData("cli"))
  BY <1>0, <1>2, <1>5, ProgramIdles
<1>10. Handshake("cli")
  BY <1>9 DEF EndActs
<1>11. /\ ~Begin("cli") /\ ~WriteCertificate("cli") /\ ~WriteChangeCipherSpec("cli")
       /\ ~ParseChangeCipherSpec("cli") /\ ~FlushBuffers("cli")
  BY <1>0, <1>2, EitherIdles
<1>12. ~SkipCertificate("cli") /\ ~ParseCertificate("cli")
  BY <1>0, <1>2, CertificateIdles
<1>13. ~WriteFinished("cli") /\ ~ParseFinished("cli")
  BY <1>0, <1>2, FinishedIdles
<1>14. ~Unexpected("cli") /\ ~ReadFails("cli")
  BY <1>0, <1>2, UselessIdles
<1>15. /\ ~ParseServerKeyExchange /\ ~ParseCertificateRequest /\ ~ParseServerHelloDone
       /\ ~WriteCertificateVerify
  BY <1>2, ClientIdles
<1> QED BY <1>0, <1>5, <1>6, <1>7, <1>8, <1>10, <1>11, <1>12, <1>13, <1>14, <1>15
        DEF Handshake, ClientStep

\* What its hello offers.
LEMMA HelloOffers ==
  ASSUME Opening, EndActs("cli"), WriteClientHello,
         NEW r, wire'["srv"] = Append(wire["srv"], r)
  PROVE  Offers(chain, draws', ssl["srv"], saved, r.m)
<1> DEFINE x == ssl["cli"]
           v == ssl["srv"]
           u == wire["srv"]
           id == OfferedId(x)
           y == Onward([x EXCEPT !.cr = draws + 1, !.neg.id = IF id # 0 THEN id ELSE @])
           m == [msg |-> "CLIENT_HELLO", rnd |-> draws + 1, id |-> id,
                 offer |-> setting.offer,
                 info |-> IF x.reneg = "INITIAL" THEN NoInfo ELSE x.own,
                 tickets |-> setting.tickets["cli"],
                 ticket |-> IF setting.tickets["cli"] THEN x.neg.ticket ELSE NoTicket]
<1>0. "cli" \in Ends /\ Peer("cli") = "srv" /\ "cli" # "srv"
  BY Peers
<1>1. /\ Agreeing /\ Shapes /\ Cached /\ IsSequence(u)
      /\ \E a : Wary(Rules, "cli", a) /\ Paced(Rules, "cli", a)
  <2>1. /\ Agreeing /\ Shapes /\ Cached
        /\ \E a : Wary(Rules, "cli", a) /\ Paced(Rules, "cli", a)
    BY <1>0, OpeningFacts
  <2>2. "srv" \in Ends
    BY DEF Ends
  <2> QED BY <2>1, <2>2 DEF Shapes
<1>2. PICK a : Ready(Rules, "cli", a)
  BY <1>1 DEF Wary
<1>3. x.st = "CLIENT_HELLO" /\ Say("cli", y, m) /\ draws' = draws + 2 /\ draws \in Nat
  BY <1>1 DEF WriteClientHello, At, Cached
<1>4. r.m = m
  <2> HIDE DEF y, m
  <2>1. wire'["srv"] = Append(u, [keys |-> y.out, m |-> m])
    BY <1>0, <1>1, <1>3 DEF Say, Shapes
  <2> DEFINE q == [keys |-> y.out, m |-> m]
  <2>2. q.m = m
    OBVIOUS
  <2> HIDE DEF q, u
  <2>3. q = r
    <3>1. Append(u, q)[Len(u) + 1] = q /\ Append(u, r)[Len(u) + 1] = r
      BY <1>1, Appended
    <3> QED BY <2>1, <3>1 DEF q, u
  <2> QED BY <2>2, <2>3
<1>5. m.id = id /\ (m.ticket = x.neg.ticket \/ m.ticket = NoTicket)
  OBVIOUS
<1>6. /\ ~x.resume => x.neg = NoSession
      /\ x.resume => x.reneg = "INITIAL" /\ x.neg = saved
  <2>1. x.st \in Unasked /\ x.st \in Resting
    BY <1>3 DEF Unasked, Resting
  <2>2. Settled(Rules, "cli", x, a) /\ Rules.saved = saved
    BY <1>0, <1>2, <2>1, ReadyFacts DEF Ready, Stands
  <2> QED BY <2>1, <2>2 DEF Settled
<1>7. x.neg.ticket # NoTicket => x.resume /\ id = draws + 2 /\ x.neg.ticket = saved.ticket
  <2> SUFFICES ASSUME x.neg.ticket # NoTicket
               PROVE  x.resume /\ id = draws + 2 /\ x.neg.ticket = saved.ticket
    OBVIOUS
  <2>1. x.resume
    BY <1>6 DEF NoSession
  <2> QED BY <1>6, <2>1 DEF OfferedId
<1>8. id = draws + 2 \/ id = 0 \/ (id = x.neg.id /\ x.resume /\ x.neg.ticket = NoTicket)
  BY DEF OfferedId
<1>9. Tied(chain, draws, v, saved) /\ Entries(chain, draws) /\ Unstored(v, chain, draws)
  BY <1>1 DEF Opening, Ties, Cached
<1> HIDE DEF id, m, x, v
<1> DEFINE n == Named(saved, id)
<1>10. n.id = id /\ n.master = saved.master /\ n.ticket = NoTicket
  BY DEF Named
<1> HIDE DEF n
<1>11. /\ id \in Nat /\ id <= draws' /\ Tied(chain, draws', v, n)
  <2>1. CASE id = draws + 2
    <3>1. \A i \in 1..Len(chain) : chain[i].session.id # id
      BY <1>3, <1>9, <2>1 DEF Entries
    <3>2. ~(~v.resume /\ v.st \in Making /\ v.neg.id = id)
      BY <1>3, <1>9, <2>1 DEF Unstored
    <3> QED BY <1>3, <1>10, <2>1, <3>1, <3>2 DEF Tied
  <2>2. CASE id = 0
    BY <1>3, <1>10, <2>2 DEF Tied
  <2>3. CASE id # 0 /\ id = x.neg.id /\ x.resume /\ x.neg.ticket = NoTicket
    <3>1. saved.id = id /\ saved.ticket = NoTicket
      BY <1>6, <2>3
    <3> QED BY <1>3, <1>9, <1>10, <2>3, <3>1 DEF Tied
  <2> QED BY <1>8, <2>1, <2>2, <2>3
<1>12. m.ticket = NoTicket \/ (m.ticket = saved.ticket /\ m.id # 0)
  BY <1>3, <1>5, <1>7
<1>13. Offers(chain, draws', v, saved, m)
  BY <1>5, <1>11, <1>12 DEF Offers, n
<1> QED BY <1>4, <1>13 DEF v

\* A step of the client.
LEMMA ClientTies ==
  ASSUME Opening, EndActs("cli")
  PROVE  Ties(chain', draws', saved', ssl'["cli"], ssl'["srv"], wire'["srv"])
<1> DEFINE c == chain
           d == draws
           e == draws'
           z == saved
           x == ssl["cli"]
           y == ssl'["cli"]
           v == ssl["srv"]
           u == wire["srv"]
           t == wire'["srv"]
<1>0. "cli" \in Ends /\ Peer("cli") = "srv" /\ "cli" # "srv"
  BY Peers
<1>1. /\ Cached /\ Agreeing /\ Turn("cli") /\ DOMAIN x.neg = SessionFields
      /\ ssl'["srv"] = v /\ saved' = z /\ IsSequence(u)
  <2>1. /\ Cached /\ Agreeing /\ Turn("cli") /\ DOMAIN x.neg = SessionFields
        /\ ssl'["srv"] = v /\ saved' = z /\ Shapes
    BY <1>0, OpeningFacts
  <2>2. "srv" \in Ends
    BY DEF Ends
  <2> QED BY <2>1, <2>2 DEF Shapes
<1>2. chain' = c
  <2>1. Wrapup("cli") => chain' = chain
    BY <1>0 DEF Wrapup, Wrapped
  <2> QED BY <2>1 DEF EndActs, Handshake, ReadHandshake, Renegotiate, Close, Write, ReadData
<1>3. Ties(c, d, z, x, v, u)
  BY DEF Opening
<1>4. d \in Nat /\ e \in Nat /\ d <= e
  BY <1>0, <1>1, DrawsGrow DEF EndActs, Cached
<1>5. Keeps(x, y) \/ (ParseFinished("cli") /\ ~x.resume /\ y.st \in Ending)
  BY ClientKeeps
<1>6. ParseFinished("cli") /\ ~x.resume /\ y.st \in Ending =>
        Tied(c, d, v, y.neg) /\ y.sess = x.sess
  <2> SUFFICES ASSUME ParseFinished("cli"), ~x.resume, y.st \in Ending
               PROVE  Tied(c, d, v, y.neg) /\ y.sess = x.sess
    OBVIOUS
  <2>1. y.sess = x.sess
    BY <1>0, <1>1, FinishedIdles DEF Idles, Still
  <2> QED BY <2>1, FinishHeardTied
<1>7. ASSUME NEW i \in 1..Len(t), t[i].m.msg = "CLIENT_HELLO"
      PROVE  Offers(c, e, v, z, t[i].m) \/ \E j \in 1..Len(u) : t[i] = u[j]
  <2> DEFINE q == t[i]
  <2>1. CASE t = u
    BY <2>1
  <2>2. CASE u # <<>> /\ t = Tail(u)
    <3> HIDE DEF u
    <3> QED BY <1>1, <1>7, <2>2, OnTheWire
  <2>3. ASSUME NEW r, t = Append(u, r)
        PROVE  Offers(c, e, v, z, q.m) \/ \E j \in 1..Len(u) : q = u[j]
    <3>1. q = r \/ \E j \in 1..Len(u) : q = u[j]
      <4> HIDE DEF u, t
      <4> QED BY <1>1, <1>7, <2>3, OnTheWire
    <3>2. CASE q = r
      <4>1. WriteClientHello
        BY <1>1, <1>7, <2>3, <3>2, HelloThen
      <4> QED BY <2>3, <3>2, <4>1, HelloOffers
    <3> QED BY <3>1, <3>2
  <2>4. t = u \/ (u # <<>> /\ t = Tail(u)) \/ \E r : t = Append(u, r)
    BY <1>0, <1>1 DEF Turn, Writing
  <2> QED BY <2>1, <2>2, <2>3, <2>4
<1> HIDE DEF c, d, e, z, x, y, v, u, t
<1>8. Aged(c, d, v, c, e, v)
  BY <1>4 DEF Aged
<1>9. \A n : Tied(c, d, v, n) => Tied(c, e, v, n)
  BY <1>8, TiedOn
<1>10. \A m : Offers(c, d, v, z, m) => Offers(c, e, v, z, m)
  BY <1>8, OffersOn
<1>11. Tied(c, e, v, z) /\ Tied(c, e, v, y.sess)
  BY <1>3, <1>5, <1>6, <1>9 DEF Keeps, Ties
<1>12. ASSUME y.resume \/ y.st \in Ending
       PROVE  Tied(c, e, v, y.neg)
  <2>1. CASE Keeps(x, y)
    <3>1. CASE y.neg.id = 0 \/ y.neg.ticket # NoTicket
      BY <3>1 DEF Tied
    <3>2. CASE (x.resume \/ x.st \in Ending) /\ Alike3(y.neg, x.neg)
      <4> DEFINE n == x.neg
                 m == y.neg
      <4>1. Tied(c, e, v, n)
        BY <1>3, <1>9, <3>2 DEF Ties
      <4>2. m.id = n.id /\ m.ticket = n.ticket /\ m.master = n.master
        BY <3>2 DEF Alike3
      <4> HIDE DEF n, m
      <4>3. Tied(c, e, v, m)
        BY <4>1, <4>2, TiedLike
      <4> QED BY <4>3 DEF m
    <3> QED BY <1>12, <2>1, <3>1, <3>2 DEF Keeps
  <2> QED BY <1>5, <1>6, <1>9, <2>1
<1>13. v.own = NoInfo \/ Resumed(v.own.log) \/ Tied(c, e, v, Written(v))
  BY <1>3, <1>9 DEF Ties
<1>14. \A i \in 1..Len(t) : t[i].m.msg = "CLIENT_HELLO" => Offers(c, e, v, z, t[i].m)
  BY <1>3, <1>7, <1>10 DEF Ties
<1>15. v.st = "SERVER_HELLO" /\ ~v.resume =>
         v.neg.id \in Nat /\ v.neg.id <= e /\ Tied(c, e, v, Named(z, v.neg.id))
  BY <1>3, <1>4, <1>9 DEF Ties
<1>16. Ties(c, e, z, y, v, t)
  BY <1>11, <1>12, <1>13, <1>14, <1>15 DEF Ties
<1> QED BY <1>1, <1>2, <1>16 DEF c, e, z, y, v, t

\* What the ends have of sessions stays tied.
LEMMA EndTies ==
  ASSUME Opening, NEW s \in Ends, EndActs(s)
  PROVE  Ties(chain, draws, saved, ssl["cli"], ssl["srv"], wire["srv"])'
BY ClientTies, ServerTies DEF Ends

-----------------------------------------------------------------------------
(* A connection begins, and the world goes on.                              *)

\* The context x of s when a connection begins.
Newly(g, s, x) ==
  /\ x.st = "HELLO_REQUEST" /\ x.reneg = "INITIAL" /\ x.log = <<>> /\ x.held = NoMsg
  /\ x.asked \in BOOLEAN /\ x.resume \in BOOLEAN /\ x.due = FALSE
  /\ x.sess = NoSession /\ x.own = NoInfo /\ x.in = NoKeys /\ x.out = NoKeys
  /\ IF x.resume THEN s = "cli" /\ x.neg = g.saved ELSE x.neg = NoSession

\* It stands at the beginning of the script.
LEMMA NewlyStands ==
  ASSUME NEW g, NEW s, NEW x, Newly(g, s, x)
  PROVE  Stands(g, s, x, Idle(New))
<1>1. x.st \in Resting /\ x.st \in Unasked /\ x.st # "SERVER_HELLO"
  BY DEF Newly, Resting, Unasked
<1>2. Settled(g, s, x, Idle(New))
  BY <1>1 DEF Newly, Settled
<1> QED BY <1>1, <1>2 DEF Newly, Stands

\* The script begins with nothing on its way.
LEMMA NewScript ==
  ASSUME NEW g, NEW w, w["cli"] = <<>>, w["srv"] = <<>>, NEW d
  PROVE  InScript(g, [s \in Ends |-> Idle(New)], w, d)
<1> DEFINE v == [s \in Ends |-> Idle(New)]
<1>1. /\ "cli" \in Ends /\ Peer("cli") = "srv" /\ v["cli"] = Idle(New) /\ v["srv"] = Idle(New)
  BY Peers DEF Ends
<1>2. Path(g, "cli", <<>>, Idle(New), Idle(New))
  BY PathEmpty
<1>3. \A at : AllHush("srv", at, <<>>)
  <2>1. Len(<<>>) = 0 /\ \A i : i \notin 1..0
    OBVIOUS
  <2> QED BY <2>1 DEF AllHush
<1>4. Idle(New).at # Change("srv")
  BY DEF Idle, New, Change
<1> HIDE DEF v
<1>5. Ahead(g, "cli", v["srv"], v["cli"], w["srv"], w["cli"])
  BY <1>1, <1>2, <1>3, <1>4 DEF Ahead
<1>6. InScript(g, v, w, d)
  BY <1>1, <1>5 DEF InScript
<1> QED BY <1>6 DEF v

\* Nothing is tied to a server that has begun nothing but by the chain.
LEMMA NewTies ==
  ASSUME NEW c, NEW d, NEW z, NEW x, NEW v, Tied(c, d, v, z), NEW g, g.saved = z,
         Newly(g, "cli", x), Newly(g, "srv", v)
  PROVE  Ties(c, d, z, x, v, <<>>)
<1>1. Tied(c, d, v, NoSession)
  BY DEF Tied, NoSession
<1>2. x.sess = NoSession /\ x.st \notin Ending /\ (x.resume => x.neg = z)
      /\ v.own = NoInfo /\ v.st # "SERVER_HELLO"
  BY DEF Newly, Ending
<1>3. Len(<<>>) = 0 /\ \A i : i \notin 1..0
  OBVIOUS
<1> QED BY <1>1, <1>2, <1>3 DEF Ties

\* No record is under any keys.
LEMMA NothingOpens ==
  ASSUME NEW k, NEW o
  PROVE  Opens(<<>>, k, o)
<1>1. Len(<<>>) = 0 /\ \A i : i \notin 1..0
  OBVIOUS
<1> QED BY <1>1 DEF Opens

\* The first connection.
LEMMA InitOpens == Init => Opening /\ EverythingOpens
<1> SUFFICES ASSUME Init PROVE Opening /\ EverythingOpens
  OBVIOUS
<1> DEFINE g == Rules
           u == [s \in Ends |-> Idle(New)]
<1>1. /\ ssl["srv"] = NewContext /\ ssl["cli"] = NewContext /\ saved = NoSession
      /\ wire["srv"] = <<>> /\ wire["cli"] = <<>> /\ chain = <<>>
  BY Peers DEF Init
<1>2. \A s : Newly(g, s, NewContext)
  BY DEF Newly, NewContext
<1>3. \A s \in Ends : ssl[s] = NewContext /\ wire[s] = <<>> /\ u[s] = Idle(New)
  BY <1>1 DEF Ends
<1>4. NewContext.err = "OK" /\ NewContext.asked \in BOOLEAN
  BY DEF NewContext
<1>5. g.saved = saved
  BY DEF Rules
<1> HIDE DEF g, u
<1>6. Scripted(g, u)
  <2>1. \A s \in Ends : ssl[s].asked \in BOOLEAN /\ Stands(g, s, ssl[s], u[s])
    BY <1>2, <1>3, <1>4, NewlyStands
  <2>2. InScript(g, u, wire, [s \in Ends |-> ssl[s].err # "OK"])
    BY <1>1, NewScript DEF u
  <2> QED BY <2>1, <2>2 DEF Scripted
<1>7. Ties(chain, draws, saved, ssl["cli"], ssl["srv"], wire["srv"])
  <2>1. Tied(chain, draws, NewContext, saved)
    BY <1>1 DEF Tied, NoSession
  <2> QED BY <1>1, <1>2, <1>5, <2>1, NewTies
<1>8. \A s \in Ends : Opens(wire[s], ssl[s].in, ssl[Peer(s)].out)
  BY <1>3, NothingOpens
<1>9. Opening
  BY <1>6, <1>7, <1>8, InitTraces DEF Opening, g
<1>10. EverythingOpens
  BY <1>3, <1>4 DEF EverythingOpens
<1> QED BY <1>9, <1>10

\* A connection begins.
LEMMA ConnectOpens ==
  ASSUME Opening, Connect, Tracing'
  PROVE  Opening' /\ EverythingOpens'
<1> DEFINE kept == IF ssl["cli"].sess # NoSession THEN ssl["cli"].sess ELSE saved
           x == Reset(ssl["cli"])
           y == Reset(ssl["srv"])
           z == [x EXCEPT !.neg = kept, !.resume = TRUE]
           k == ssl'["cli"]
           v == ssl["srv"]
           g == Rules'
           u == [s \in Ends |-> Idle(New)]
<1>0. /\ draws \in Nat /\ draws' \in Nat /\ draws <= draws' /\ chain' = chain
      /\ saved' = kept /\ wire'["cli"] = <<>> /\ wire'["srv"] = <<>>
      /\ ssl'["srv"] = y /\ k = IF kept = NoSession THEN x ELSE z
  <2>1. /\ chain' = chain
        /\ saved' = kept /\ wire'["cli"] = <<>> /\ wire'["srv"] = <<>>
        /\ ssl'["srv"] = y /\ k = IF kept = NoSession THEN x ELSE z
        /\ draws' = IF draws < Stride * conns THEN Stride * conns ELSE draws
    <3> HIDE DEF x, y, z, kept
    <3> QED BY Peers DEF Connect, x, y, z, kept
  <2>2. Verified /\ conns \in Nat /\ Stride \in Nat /\ draws \in Nat
    BY HandshakeAssumption DEF Opening, Tracing, Cached, Verified
  <2>3. Stride * conns \in Nat
    BY <2>2
  <2> DEFINE n == Stride * conns
  <2>4. n \in Nat /\ draws' = IF draws < n THEN n ELSE draws
    BY <2>1, <2>3
  <2> HIDE DEF n, x, y, z, kept, k
  <2> QED BY <2>1, <2>2, <2>4
<1>1. ssl["cli"].asked \in BOOLEAN /\ ssl["srv"].asked \in BOOLEAN
  BY DEF Opening, Scripted, Ends
<1>2. g.saved = kept
  BY <1>0 DEF Rules
<1>3. \A s : Newly(g, s, x) /\ Newly(g, s, y)
  <2> HIDE DEF g
  <2> QED BY <1>1 DEF Newly, Reset, NewContext
<1>4. Newly(g, "cli", z)
  <2> HIDE DEF g, kept
  <2> QED BY <1>1, <1>2 DEF Newly, Reset, NewContext
<1>5. x.err = "OK" /\ y.err = "OK" /\ z.err = "OK"
  BY DEF Reset, NewContext
<1>6. Tied(chain, draws, v, kept)
  BY DEF Opening, Ties
<1>7. \A s \in Ends : u[s] = Idle(New)
  OBVIOUS
<1> HIDE DEF g, u, x, y, z, kept, v, k
<1>8. Newly(g, "cli", k) /\ Newly(g, "srv", y) /\ k.err = "OK"
  BY <1>0, <1>3, <1>4, <1>5
<1>9. Scripted(Rules, u)'
  <2>1. \A s \in Ends : /\ ssl'[s].asked \in BOOLEAN
                        /\ ssl'[s].err = "OK" => Stands(g, s, ssl'[s], u[s])
    <3>1. ssl'["cli"] = k /\ ssl'["srv"] = y
      BY <1>0 DEF k
    <3>2. Stands(g, "cli", k, Idle(New)) /\ Stands(g, "srv", y, Idle(New))
      BY <1>8, NewlyStands DEF Ends
    <3>3. k.asked \in BOOLEAN /\ y.asked \in BOOLEAN
      BY <1>8 DEF Newly
    <3>4. \A s \in Ends : s = "cli" \/ s = "srv"
      BY DEF Ends
    <3> QED BY <1>7, <3>1, <3>2, <3>3, <3>4
  <2>2. InScript(g, u, wire', [s \in Ends |-> ssl'[s].err # "OK"])
    BY <1>0, NewScript DEF u
  <2> QED BY <2>1, <2>2 DEF Scripted, g, u
<1>10. Ties(chain', draws', saved', k, y, wire'["srv"])
  <2>1. "HELLO_REQUEST" \notin Making /\ y.st = "HELLO_REQUEST"
    BY <1>8 DEF Making, Judging, Newly
  <2>2. Aged(chain, draws, v, chain, draws', y)
    BY <1>0, <2>1 DEF Aged
  <2>3. Tied(chain, draws', y, kept)
    BY <1>6, <2>2, TiedOn
  <2> QED BY <1>0, <1>2, <1>8, <2>3, NewTies
<1>11. \A s \in Ends : Opens(wire'[s], ssl'[s].in, ssl'[Peer(s)].out)
  BY <1>0, NothingOpens DEF Ends
<1>12. Opening'
  <2>1. \E w : Scripted(Rules, w)'
    BY <1>9
  <2> QED BY <1>0, <1>10, <1>11, <2>1 DEF Opening, k
<1>13. EverythingOpens'
  BY <1>0, <1>5, <1>8 DEF EverythingOpens, Ends, k
<1> QED BY <1>12, <1>13

\* Time, another client and a restart come when the server has begun nothing; and nothing
\* changes but the chain and what was drawn.
LEMMA WorldOpens ==
  ASSUME Opening, EverythingOpens, Tick \/ OtherClient \/ Reboot \/ UNCHANGED vars, Tracing'
  PROVE  Opening' /\ EverythingOpens'
<1> DEFINE v == ssl["srv"]
<1>0. /\ ssl' = ssl /\ wire' = wire /\ saved' = saved /\ setting' = setting
      /\ Cached /\ draws \in Nat /\ IsSequence(chain) /\ Entries(chain, draws)
  BY DEF Tick, OtherClient, Reboot, hsvars, vars, setting, Opening, Tracing, Cached, Entries
<1>1. Rules' = Rules
  BY <1>0 DEF Rules
<1>2. EverythingOpens'
  BY <1>0 DEF EverythingOpens, Stale
<1>3. \E u : Scripted(Rules, u)'
  <2>1. PICK u : Scripted(Rules, u)
    BY DEF Opening
  <2>2. Scripted(Rules, u)'
    BY <1>0, <1>1, <2>1 DEF Scripted
  <2> QED BY <2>2
<1>4. \A s \in Ends : ssl'[s].err = "OK" => Opens(wire'[s], ssl'[s].in, ssl'[Peer(s)].out)
  BY <1>0 DEF Opening
<1>5. Ties(chain, draws, saved, ssl["cli"], v, wire["srv"])
  BY DEF Opening
<1>6. CASE UNCHANGED vars
  <2>1. chain' = chain /\ draws' = draws
    BY <1>6 DEF vars
  <2> QED BY <1>0, <1>2, <1>3, <1>4, <1>5, <2>1 DEF Opening
<1>7. CASE Tick \/ OtherClient \/ Reboot
  <2>1. v.st = "HELLO_REQUEST" /\ v.st \notin Making
    BY <1>7, Peers DEF Tick, OtherClient, Reboot, Quiet, At, Making, Judging
  <2>2. /\ draws' \in Nat /\ draws <= draws'
        /\ \A j \in 1..Len(chain') : \/ \E i \in 1..Len(chain) : chain[i].session = chain'[j].session
                                     \/ chain'[j].session.id \in Nat /\ chain'[j].session.id > draws
    <3>1. CASE Tick
      BY <1>0, <3>1 DEF Tick
    <3>2. CASE Reboot
      <4>1. draws' = draws /\ chain' = <<>> /\ Len(<<>>) = 0
        BY <3>2 DEF Reboot
      <4>2. \A j : j \notin 1..0
        OBVIOUS
      <4> QED BY <1>0, <4>1, <4>2
    <3>3. CASE OtherClient
      <4> DEFINE n == [NoSession EXCEPT !.id = draws + 1, !.suite = Prefers[1],
                         !.master = <<draws + 1, 0, 0, 0>>, !.start = clock]
                 e == [stamp |-> clock, session |-> n]
      <4>1. draws' = draws + 1 /\ chain' = Stored(n)
        BY <3>3 DEF OtherClient
      <4>2. n.id = draws + 1 /\ e.session = n
        BY DEF NoSession
      <4> HIDE DEF n
      <4>3. \A i \in 1..Len(chain) : chain[i].session.id # n.id
        BY <1>0, <4>2 DEF Entries
      <4>4. \A j \in 1..Len(Stored(n)) :
              Stored(n)[j] = e \/ \E i \in 1..Len(chain) : chain[i] = Stored(n)[j]
        BY <1>0, <4>3, StoredFrom
      <4> HIDE DEF e
      <4>5. \A j \in 1..Len(chain') : chain'[j] = e \/ \E i \in 1..Len(chain) : chain[i] = chain'[j]
        BY <4>1, <4>4
      <4>6. draws + 1 \in Nat /\ draws <= draws + 1 /\ draws + 1 > draws
        BY <1>0
      <4> QED BY <4>1, <4>2, <4>5, <4>6
    <3> QED BY <1>7, <3>1, <3>2, <3>3
  <2> DEFINE c == chain
             d == draws
             k == chain'
             e == draws'
             z == saved
             x == ssl["cli"]
             w == wire["srv"]
  <2>3. Ties(c, d, z, x, v, w) /\ d \in Nat
    BY <1>0, <1>5
  <2> HIDE DEF v, c, d, k, e, z, x, w
  <2>4. Aged(c, d, v, k, e, v)
    BY <2>1, <2>2, <2>3 DEF Aged, c, d, k, e
  <2>5. /\ \A n : Tied(c, d, v, n) => Tied(k, e, v, n)
        /\ \A m : Offers(c, d, v, z, m) => Offers(k, e, v, z, m)
    BY <2>4, TiedOn, OffersOn
  <2>6. Ties(k, e, z, x, v, w)
    BY <2>1, <2>3, <2>5 DEF Ties
  <2> QED BY <1>0, <1>2, <1>3, <1>4, <2>6 DEF Opening, v, k, e, z, x, w
<1> QED BY <1>6, <1>7

\* Every step.
LEMMA NextOpens == Opening /\ EverythingOpens /\ [Next]_vars => Opening' /\ EverythingOpens'
<1> SUFFICES ASSUME Opening, EverythingOpens, [Next]_vars
             PROVE  Opening' /\ EverythingOpens'
  OBVIOUS
<1>1. Tracing'
  BY NextTraces DEF Opening
<1>2. CASE Connect
  BY <1>1, <1>2, ConnectOpens
<1>3. CASE Tick \/ OtherClient \/ Reboot \/ UNCHANGED vars
  BY <1>1, <1>3, WorldOpens
<1>4. ASSUME NEW s \in Ends, EndActs(s)
      PROVE  Opening' /\ EverythingOpens'
  <2>1. \E u : Scripted(Rules, u)'
    BY <1>4, EndScripted
  <2>2. (\A t \in Ends : ssl[t].err = "OK" => Opens(wire[t], ssl[t].in, ssl[Peer(t)].out))'
    BY <1>4, EndOpens
  <2>3. Ties(chain, draws, saved, ssl["cli"], ssl["srv"], wire["srv"])'
    BY <1>4, EndTies
  <2>4. EverythingOpens'
    BY <1>4, EndRight
  <2> QED BY <1>1, <2>1, <2>2, <2>3, <2>4 DEF Opening
<1> QED BY <1>2, <1>3, <1>4 DEF Next, EndActs

\* What an end reads is what its peer wrote, and under the keys it wrote it with: no record
\* fails to open, no Finished and no signature is wrong, in a full handshake, one that
\* resumes a session, or a renegotiation, whatever the ends offer and show, unless the keys
\* they share beforehand differ, or the client kept a ticket along with another session.
THEOREM RecordsOpen == Spec => []EverythingOpens
<1>1. Opening /\ EverythingOpens /\ [Next]_vars => (Opening /\ EverythingOpens)'
  BY NextOpens
<1> QED BY <1>1, InitOpens, PTL DEF Spec
=============================================================================
