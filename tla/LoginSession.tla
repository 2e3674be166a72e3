---------------------------- MODULE LoginSession ----------------------------
(***************************************************************************)
(* One login session: a client process (client.cpp main) and the child     *)
(* that the server forked for it (server.cpp main, the body of the fork),  *)
(* joined by a TCP connection and talking through the framing of           *)
(* utility.cpp (cpp_enc_write, cpp_dec_read).                              *)
(*                                                                         *)
(* The connection is two byte streams.  A stream is a sequence of units, a *)
(* unit being the smallest piece the session's behaviour depends on: a     *)
(* byte of the two-byte length header, a third of the Diffie-Hellman       *)
(* parameters, a piece of the public value, the length byte of a frame or  *)
(* a piece of its body.  A read takes some units off the front, never      *)
(* waits for more than one, and the code never loops to fetch the rest.    *)
(***************************************************************************)
EXTENDS Integers, Sequences

CONSTANTS
  Creds,        \* username/password pairs a person may type
  ValidCreds,   \* the pairs that exists() finds in the user list
  LongCreds,    \* the pairs whose password goes on, on a block boundary,
                \* where the password of the user of that name ends
  Lines,        \* what a person may type at the echo prompt, "exit" aside
  ExitLines,    \* the lines that end in "exit" from a block boundary on
  Garbage,      \* any other text: noise, or a piece of what was typed
  NoText,       \* no text yet
  PubLen,       \* units of the client's public value
  BodyLen,      \* units of a frame body (16 bytes of IV, 64 of ciphertext)
  MaxLines,     \* bound: lines typed in one session before "exit"
  ShortReads,   \* may a read return less than what has been written?
  PromptServer, \* does the child read the public value before the client
                \* has had the time to write its first frame behind it?
  Faults        \* which processes may be killed: "client", "child", "parent"

ASSUME LensAssumption ==
  /\ PubLen \in Nat \ {0}
  /\ BodyLen \in Nat \ {0}
  /\ MaxLines \in Nat

ASSUME TextsAssumption ==
  /\ ValidCreds \subseteq Creds
  /\ LongCreds \subseteq Creds
  /\ ExitLines \subseteq Lines \ {"0", "1"}
  /\ Garbage \notin Creds
  /\ NoText \notin Creds
  /\ Garbage # NoText
  /\ (Creds \cup {Garbage, NoText}) \cap (Lines \cup {"exit", "0", "1"}) = {}
  /\ "exit" \notin Lines

ASSUME FlagsAssumption ==
  /\ ShortReads \in BOOLEAN
  /\ PromptServer \in BOOLEAN
  /\ Faults \subseteq {"client", "child", "parent"}

VARIABLES
  net,     \* net[x]: the units written to x and not yet read by x
  peer,    \* peer[x]: what x's kernel knows of the other end
  late,    \* late[x]: x has written since its peer closed
  pc,      \* pc[x]: the system call or decision x is about to make
  key,     \* key[x]: the first 32 bytes of x's buf
  text,    \* text[x]: what x is about to send, or has just decrypted
  want,    \* want[x]: the length byte x read, in units
  params,  \* what the client made of the server's parameters
  typed,   \* the credentials typed at the client's prompt
  login,   \* login[x]: "unknown", "yes" or "no", as x sees the login
  asked,   \* the line typed last
  said,    \* every line typed so far (history)
  shown,   \* what the client printed last as the server's answer
  lines,   \* how many lines were typed (bounded by MaxLines)
  parent   \* is the accepting process, which never closes cl, alive?

conn == <<net, peer, late>>
human == <<typed, asked, said, shown, lines, parent>>
local == <<key, text, want, params, login, human>>
vars == <<net, peer, late, pc, key, text, want, params, typed, login, asked,
          said, shown, lines, parent>>

Sides == {"C", "S"}
Other(x) == IF x = "C" THEN "S" ELSE "C"

Texts == Creds \cup Lines \cup {"exit", "0", "1", Garbage, NoText}

\* "agreed" is the secret computed from both true public values; any other
\* content of buf is "other", and two "other" keys are never the same key.
Keys == {"none", "agreed", "other"}

\* Units whose text, if they carry one, is in T.
Units(T) == [kind : {"hdr", "par", "pub", "len", "body"}, i : Nat,
             txt : T, key : Keys]

Piece(kind, i) == [kind |-> kind, i |-> i, txt |-> NoText, key |-> "none"]
Pieces(kind, n) == [i \in 1..n |-> Piece(kind, i)]

Header == Pieces("hdr", 2)
\* 1: P and G; 2: the server's public value; 3: two bytes nobody set.
Params == Pieces("par", 3)
Public == Pieces("pub", PubLen)
LenByte == Pieces("len", 1)
Body(t, k) ==
  [i \in 1..BodyLen |-> [kind |-> "body", i |-> i, txt |-> t, key |-> k]]

-----------------------------------------------------------------------------
(* Sockets: what read() and write() do on the connection.                  *)

Least(a, b) == IF a <= b THEN a ELSE b

\* The unit counts a read of at most n may return when data is waiting.
Counts(x, n) ==
  LET most == Least(n, Len(net[x]))
  IN IF ShortReads THEN 1..most ELSE {most} \ {0}

Got(x, k) == SubSeq(net[x], 1, k)

Take(x, k) ==
  /\ net' = [net EXCEPT ![x] = SubSeq(@, k + 1, Len(@))]
  /\ UNCHANGED <<peer, late>>

\* read() returns without data only when none is waiting and the peer has
\* gone: -1 once if the peer reset the connection, 0 ever after.
ReadEnds(x, rc) ==
  /\ net[x] = <<>>
  /\ peer[x] # "open"
  /\ rc = IF peer[x] = "resetting" THEN -1 ELSE 0
  /\ peer' = [peer EXCEPT ![x] = IF @ = "resetting" THEN "reset" ELSE @]
  /\ UNCHANGED <<net, late>>

\* write() succeeds for as long as no reset is known, though what is written
\* after the peer closed is never read.
Write(x, units) ==
  /\ peer[x] \in {"open", "fin"}
  /\ net' = IF peer[x] = "open"
            THEN [net EXCEPT ![Other(x)] = @ \o units]
            ELSE net
  /\ late' = [late EXCEPT ![x] = (peer[x] = "fin")]
  /\ peer' = peer

\* A reset whose error was not yet reported makes write() return -1.
WriteFails(x) ==
  /\ peer[x] = "resetting"
  /\ peer' = [peer EXCEPT ![x] = "reset"]
  /\ UNCHANGED <<net, late>>

\* The last descriptor of x's end of the connection is closed.  Unread data
\* turns the orderly end into a reset.
Hangup(x) ==
  /\ peer' = [peer EXCEPT ![Other(x)] =
                IF @ # "open" THEN @
                ELSE IF net[x] = <<>> THEN "fin" ELSE "resetting"]
  /\ net' = [net EXCEPT ![x] = <<>>]
  /\ late' = late

\* A process ends.  The client's end closes with it; the child's end stays
\* open in the parent, which goes on holding the descriptor it accepted.
Ends(x) ==
  /\ pc' = [pc EXCEPT ![x] = "done"]
  /\ IF x = "C" \/ ~parent THEN Hangup(x) ELSE UNCHANGED conn

\* Mutant of Sends: SIGPIPE is ignored and the write just fails.
SendsIgnoringSigpipe(x, units, ok, failed) ==
  \/ /\ Write(x, units)
     /\ pc' = [pc EXCEPT ![x] = ok]
  \/ /\ WriteFails(x)
     /\ pc' = [pc EXCEPT ![x] = failed]
  \/ /\ peer[x] = "reset"
     /\ pc' = [pc EXCEPT ![x] = failed]
     /\ UNCHANGED conn

\* x writes units and goes on to `ok', or to `failed' if write() returns -1;
\* SIGPIPE, which neither program handles, ends a writer that was told.
Sends(x, units, ok, failed) ==
  \/ /\ Write(x, units)
     /\ pc' = [pc EXCEPT ![x] = ok]
  \/ /\ WriteFails(x)
     /\ pc' = [pc EXCEPT ![x] = failed]
  \/ /\ peer[x] = "reset"
     /\ Ends(x)

\* The peer's kernel answers data sent to a closed socket with a reset.
Reset(x) ==
  /\ peer[x] = "fin"
  /\ late[x]
  /\ pc[x] # "done"
  /\ peer' = [peer EXCEPT ![x] = "reset"]
  /\ UNCHANGED <<local, net, late, pc>>

-----------------------------------------------------------------------------
(* Frames: cpp_enc_write and cpp_dec_read.                                 *)

\* Mutant of AfterWrite: the child leaves after its first echo.
AfterWriteOnce(x) ==
  IF x = "S" \/ text["C"] = "exit" THEN "close" ELSE "rlen"

\* Where cpp_enc_write returns to, whatever it returned.
AfterWrite(x) ==
  IF (x = "S" /\ login["S"] = "no") \/ (x = "C" /\ text["C"] = "exit")
  THEN "close" ELSE "rlen"

WriteLen(x) ==
  /\ pc[x] = "wlen"
  /\ PromptServer /\ x = "C" => pc["S"] \notin {"hdr", "params", "pub"}
  /\ Sends(x, LenByte, "wbody", AfterWrite(x))
  /\ UNCHANGED local

WriteBody(x) ==
  /\ pc[x] = "wbody"
  /\ Sends(x, Body(text[x], key[x]), AfterWrite(x), AfterWrite(x))
  /\ UNCHANGED local

\* Where cpp_dec_read returns to: the echo loop alone looks at rc.
AfterRead(x, rc) ==
  IF x = "S" /\ login["S"] = "yes" /\ rc = -1 THEN "rlen" ELSE "decide"

\* Mutant of Lengths: the length byte is a signed char.
SignedLengths(unit) ==
  IF unit.kind = "len" THEN {BodyLen} ELSE -1..(BodyLen + 1)

\* A unit that is not a length byte, read as one, announces any length.
Lengths(unit) == IF unit.kind = "len" THEN {BodyLen} ELSE 0..(BodyLen + 1)

ReadLen(x) ==
  /\ pc[x] = "rlen"
  /\ \/ /\ net[x] # <<>>
        /\ \E n \in Lengths(Head(net[x])) : want' = [want EXCEPT ![x] = n]
        /\ Take(x, 1)
        /\ pc' = [pc EXCEPT ![x] = "rbody"]
        /\ text' = text
     \/ /\ \E rc \in {-1, 0} : /\ ReadEnds(x, rc)
                               /\ pc' = [pc EXCEPT ![x] = AfterRead(x, rc)]
        /\ text' = [text EXCEPT ![x] = Garbage]
        /\ want' = want
  /\ UNCHANGED <<human, key, params, login>>

\* decrypt() takes the first block it is given for the IV, so consecutive
\* pieces of a body may read well wherever they begin on a block boundary: as
\* an ending of the text, sixteen characters or more into it, ...
Endings(t) == {Garbage} \cup (IF t \in ExitLines THEN {"exit"} ELSE {})

\* ... as the text, if it is short enough for the blocks that did arrive, or
\* as a beginning of it that runs into noise.  parseauthstring looks for its
\* last "$" in that noise too, so a user's password may end with the blocks.
Beginnings(t) ==
  {t, Garbage} \cup (IF t \in LongCreds THEN ValidCreds ELSE {})

\* What decrypt() makes of the units got, of which there is one at least.
Decrypted(x, got) ==
  LET b == got[1]
      m == Least(Len(got), BodyLen - b.i + 1)
      clean == /\ key[x] = "agreed"
               /\ b.kind = "body"
               /\ SubSeq(got, 1, m)
                    = SubSeq(Body(b.txt, "agreed"), b.i, b.i + m - 1)
  IN IF ~clean THEN {Garbage}
     ELSE IF b.i > 1 THEN Endings(b.txt)
     ELSE IF m < BodyLen THEN Beginnings(b.txt) ELSE {b.txt}

\* One read() for the body: nothing calls it again for what is missing.
ReadBody(x) ==
  /\ pc[x] = "rbody"
  /\ \/ /\ want[x] = 0
        /\ text' = [text EXCEPT ![x] = Garbage]
        /\ pc' = [pc EXCEPT ![x] = AfterRead(x, 0)]
        /\ UNCHANGED conn
     \/ \E k \in Counts(x, want[x]) :
          /\ \E t \in Decrypted(x, Got(x, k)) : text' = [text EXCEPT ![x] = t]
          /\ pc' = [pc EXCEPT ![x] = AfterRead(x, k)]
          /\ Take(x, k)
     \/ /\ want[x] > 0
        /\ text' = [text EXCEPT ![x] = Garbage]
        /\ \E rc \in {-1, 0} : /\ ReadEnds(x, rc)
                               /\ pc' = [pc EXCEPT ![x] = AfterRead(x, rc)]
  /\ UNCHANGED <<human, key, want, params, login>>

\* close(cl), or the end of main().
Close(x) ==
  /\ pc[x] = "close"
  /\ Ends(x)
  /\ UNCHANGED local

-----------------------------------------------------------------------------
(* The child: server.cpp, from the fork on.                                *)

SrvSendHeader ==
  /\ pc["S"] = "hdr"
  /\ Sends("S", Header, "params", "params")
  /\ UNCHANGED local

SrvSendParams ==
  /\ pc["S"] = "params"
  /\ Sends("S", Params, "pub", "pub")
  /\ UNCHANGED local

\* The read asks for n bytes, the size of the parameters the server sent, so
\* it takes all there is, what follows the public value included (a client
\* can have sent no more than 256 + 1 + 80 bytes of the 519 asked for).
PubRoom == PubLen + 1 + BodyLen

SrvReadPub ==
  /\ pc["S"] = "pub"
  /\ \/ \E k \in Counts("S", PubRoom) :
          /\ key' = [key EXCEPT !["S"] =
                       IF Got("S", Least(k, PubLen)) = Public
                       THEN "agreed" ELSE "other"]
          /\ Take("S", k)
     \/ /\ \E rc \in {-1, 0} : ReadEnds("S", rc)
        /\ key' = [key EXCEPT !["S"] = "other"]
  /\ pc' = [pc EXCEPT !["S"] = "rlen"]
  /\ UNCHANGED <<human, text, want, params, login>>

\* Mutant of SrvAuth: the password is not looked at.
SrvAuthByName ==
  /\ pc["S"] = "decide"
  /\ login["S"] = "unknown"
  /\ \/ /\ text["S"] \in Creds
        /\ login' = [login EXCEPT !["S"] = "yes"]
        /\ text' = [text EXCEPT !["S"] = "1"]
     \/ /\ text["S"] \notin Creds
        /\ login' = [login EXCEPT !["S"] = "no"]
        /\ text' = [text EXCEPT !["S"] = "0"]
  /\ pc' = [pc EXCEPT !["S"] = "wlen"]
  /\ UNCHANGED <<conn, human, key, want, params>>

\* parseauthstring and exists, then the answer "1" or "0".
SrvAuth ==
  /\ pc["S"] = "decide"
  /\ login["S"] = "unknown"
  /\ \/ /\ text["S"] \in ValidCreds
        /\ login' = [login EXCEPT !["S"] = "yes"]
        /\ text' = [text EXCEPT !["S"] = "1"]
     \/ /\ text["S"] \notin ValidCreds
        /\ login' = [login EXCEPT !["S"] = "no"]
        /\ text' = [text EXCEPT !["S"] = "0"]
  /\ pc' = [pc EXCEPT !["S"] = "wlen"]
  /\ UNCHANGED <<conn, human, key, want, params>>

\* One turn of the loop: "exit" leaves, any other text goes back.
SrvEcho ==
  /\ pc["S"] = "decide"
  /\ login["S"] = "yes"
  /\ pc' = [pc EXCEPT !["S"] = IF text["S"] = "exit" THEN "close" ELSE "wlen"]
  /\ UNCHANGED <<conn, local>>

-----------------------------------------------------------------------------
(* The client: client.cpp, from the connection on.                         *)

\* Of a header cut short, 0x02.., the client makes n = 512; of none, 0.
CliReadHeader ==
  /\ pc["C"] = "hdr"
  /\ \/ \E k \in Counts("C", 2) :
          /\ want' = [want EXCEPT !["C"] = IF k = 2 THEN 3 ELSE 2]
          /\ Take("C", k)
     \/ /\ \E rc \in {-1, 0} : ReadEnds("C", rc)
        /\ want' = [want EXCEPT !["C"] = 0]
  /\ pc' = [pc EXCEPT !["C"] = "params"]
  /\ UNCHANGED <<human, key, text, params, login>>

\* dhm_read_params on a buffer whose unread part is zero: the parameters are
\* good without the two trailing bytes, and a public value cut short is a
\* wrong one, or none.
ParamsOf(got) ==
  IF got = <<>> \/ got # SubSeq(Params, 1, Len(got)) THEN {"fail"}
  ELSE IF Len(got) = 1 THEN {"wrongGY", "fail"} ELSE {"good"}

CliReadParams ==
  /\ pc["C"] = "params"
  /\ \/ /\ want["C"] = 0
        /\ params' = "fail"
        /\ UNCHANGED conn
     \/ \E k \in Counts("C", want["C"]) :
          /\ params' \in ParamsOf(Got("C", k))
          /\ Take("C", k)
     \/ /\ want["C"] > 0
        /\ \E rc \in {-1, 0} : ReadEnds("C", rc)
        /\ params' = "fail"
  /\ pc' = [pc EXCEPT !["C"] = "pub"]
  /\ UNCHANGED <<human, key, text, want, login>>

\* After a failed dhm_read_params, dhm.len is 0: nothing is written.
CliSendPub ==
  /\ pc["C"] = "pub"
  /\ IF params = "fail"
     THEN /\ pc' = [pc EXCEPT !["C"] = "wlen"]
          /\ UNCHANGED conn
     ELSE Sends("C", Public, "wlen", "wlen")
  /\ key' = [key EXCEPT !["C"] = IF params = "good" THEN "agreed" ELSE "other"]
  /\ text' = [text EXCEPT !["C"] = typed]
  /\ UNCHANGED <<human, want, params, login>>

\* Mutant of CliAuthenticated: the refusal is taken for the acceptance.
CliAuthenticatedSwapped ==
  /\ pc["C"] = "decide"
  /\ login["C"] = "unknown"
  /\ \/ /\ text["C"] # "1"
        /\ login' = [login EXCEPT !["C"] = "yes"]
        /\ pc' = [pc EXCEPT !["C"] = "prompt"]
     \/ /\ text["C"] = "1"
        /\ login' = [login EXCEPT !["C"] = "no"]
        /\ pc' = [pc EXCEPT !["C"] = "close"]
  /\ UNCHANGED <<conn, human, key, text, want, params>>

\* authenticate: anything but a '0' up front is a login.
CliAuthenticated ==
  /\ pc["C"] = "decide"
  /\ login["C"] = "unknown"
  /\ \/ /\ text["C"] # "0"
        /\ login' = [login EXCEPT !["C"] = "yes"]
        /\ pc' = [pc EXCEPT !["C"] = "prompt"]
     \/ /\ text["C"] \in {"0", Garbage}
        /\ login' = [login EXCEPT !["C"] = "no"]
        /\ pc' = [pc EXCEPT !["C"] = "close"]
  /\ UNCHANGED <<conn, human, key, text, want, params>>

\* Mutant of CliPrompt: a line at the bound is sent as "exit".
CliPromptCutsOff ==
  /\ pc["C"] = "prompt"
  /\ \E l \in Lines \cup {"exit"} :
       /\ l # "exit" => lines < MaxLines
       /\ asked' = l
       /\ said' = said \cup {l}
       /\ text' = [text EXCEPT !["C"] = "exit"]
       /\ lines' = IF l = "exit" THEN lines ELSE lines + 1
  /\ pc' = [pc EXCEPT !["C"] = "wlen"]
  /\ shown' = NoText
  /\ UNCHANGED <<conn, key, want, params, typed, login, parent>>

\* The person types a line; what it answers is no longer on the screen.
CliPrompt ==
  /\ pc["C"] = "prompt"
  /\ \E l \in Lines \cup {"exit"} :
       /\ l # "exit" => lines < MaxLines
       /\ asked' = l
       /\ said' = said \cup {l}
       /\ text' = [text EXCEPT !["C"] = l]
       /\ lines' = IF l = "exit" THEN lines ELSE lines + 1
  /\ pc' = [pc EXCEPT !["C"] = "wlen"]
  /\ shown' = NoText
  /\ UNCHANGED <<conn, key, want, params, typed, login, parent>>

CliShow ==
  /\ pc["C"] = "decide"
  /\ login["C"] = "yes"
  /\ shown' = text["C"]
  /\ pc' = [pc EXCEPT !["C"] = "prompt"]
  /\ UNCHANGED <<conn, key, text, want, params, typed, login, asked, said, lines,
                 parent>>

-----------------------------------------------------------------------------
(* Processes die: a signal, a closed terminal, a crash in the library.     *)

KillOne(x) ==
  /\ (IF x = "C" THEN "client" ELSE "child") \in Faults
  /\ pc[x] # "done"
  /\ Ends(x)
  /\ UNCHANGED local

KillParent ==
  /\ "parent" \in Faults
  /\ parent
  /\ parent' = FALSE
  /\ IF pc["S"] = "done" THEN Hangup("S") ELSE UNCHANGED conn
  /\ UNCHANGED <<pc, key, text, want, params, typed, login, asked, said, shown,
                 lines>>

-----------------------------------------------------------------------------

Init ==
  /\ net = [x \in Sides |-> <<>>]
  /\ peer = [x \in Sides |-> "open"]
  /\ late = [x \in Sides |-> FALSE]
  /\ pc = [x \in Sides |-> "hdr"]
  /\ key = [x \in Sides |-> "none"]
  /\ text = [x \in Sides |-> NoText]
  /\ want = [x \in Sides |-> 0]
  /\ params = "none"
  /\ typed \in Creds
  /\ login = [x \in Sides |-> "unknown"]
  /\ asked = NoText
  /\ said = {}
  /\ shown = NoText
  /\ lines = 0
  /\ parent = TRUE

Framing(x) ==
  WriteLen(x) \/ WriteBody(x) \/ ReadLen(x) \/ ReadBody(x) \/ Close(x)

Child ==
  SrvSendHeader \/ SrvSendParams \/ SrvReadPub \/ SrvAuth \/ SrvEcho
    \/ Framing("S")

\* What the client does without waiting for the person at its terminal.
Client ==
  CliReadHeader \/ CliReadParams \/ CliSendPub \/ CliAuthenticated \/ CliShow
    \/ Framing("C")

Next ==
  \/ Child
  \/ Client
  \/ CliPrompt
  \/ \E x \in Sides : Reset(x) \/ KillOne(x)
  \/ KillParent

Spec == Init /\ [][Next]_vars

\* The scheduler runs every process that can run and the network delivers;
\* the person may stop typing for good, and nobody has to be killed.
Fairness ==
  /\ WF_vars(Child)
  /\ WF_vars(Client)
  /\ \A x \in Sides : WF_vars(Reset(x))

FairSpec == Spec /\ Fairness

-----------------------------------------------------------------------------
(* What a session promises.                                                *)

\* Every variable keeps to its values: a length byte is never negative and a
\* session never leaves its states.
TypeOK ==
  /\ net \in [Sides -> Seq(Units(Texts))]
  /\ peer \in [Sides -> {"open", "fin", "resetting", "reset"}]
  /\ late \in [Sides -> BOOLEAN]
  /\ pc \in [Sides -> {"hdr", "params", "pub", "wlen", "wbody", "rlen",
                       "rbody", "decide", "prompt", "close", "done"}]
  /\ key \in [Sides -> Keys]
  /\ text \in [Sides -> Texts]
  /\ want \in [Sides -> Nat]
  /\ params \in {"none", "good", "wrongGY", "fail"}
  /\ typed \in Creds
  /\ login \in [Sides -> {"unknown", "yes", "no"}]
  /\ asked \in Texts
  /\ said \subseteq Lines \cup {"exit"}
  /\ shown \in Texts
  /\ lines \in 0..MaxLines
  /\ parent \in BOOLEAN

\* However the streams are cut, whoever dies and whatever the child takes for
\* a frame, it logs a user in only if the person at the client typed the
\* credentials of a user in the list, or those with more behind the password
\* (server.cpp:117-124).
AuthIntegrity == login["S"] = "yes" => typed \in ValidCreds \cup LongCreds

\* A client tells its user that it is connected to the echo server only after
\* the child accepted the login (client.cpp:112, utility.cpp:140).
LoginAgreement == login["C"] = "yes" => login["S"] = "yes"

\* A child that takes what it reads for "exit" and leaves the session
\* (server.cpp:141) does so only because of a line that the person typed: of
\* "exit" itself, or of a line that ends in it on a block boundary.  No noise,
\* no answer and no piece of the login or of another line has that effect.
ExitIsTyped ==
  (pc["S"] = "decide" /\ login["S"] = "yes" /\ text["S"] = "exit")
    => said \cap ({"exit"} \cup ExitLines) # {}

\* However the client goes, the child forked for it ends as well: it leaves on
\* "exit", on a refused login, or is ended by SIGPIPE while it echoes what it
\* believes it reads (server.cpp:136-160 has no exit for an end of file).
ChildOutlivesNoClient == (pc["C"] = "done") ~> (pc["S"] = "done")

\* Every frame the client starts to send gets an answer, unless the client is
\* killed: neither side ever waits for the other for good.
AnswerComes == (pc["C"] = "wlen") ~> (pc["C"] \in {"decide", "done"})

\* The read that is there for the client's public value takes the public
\* value, not the frame that may follow it (the comment of server.cpp:103).
ReadsOnlyPublicKey ==
  [][ (pc["S"] = "pub" /\ pc'["S"] = "rlen")
        => \A i \in 1..(Len(net["S"]) - Len(net'["S"])) :
             net["S"][i].kind = "pub" ]_vars

-----------------------------------------------------------------------------
(* The session seen from the client's terminal (see EchoService).          *)

status ==
  IF login["C"] = "no" THEN "refused"
  ELSE IF asked = "exit" \/ pc["C"] = "done" THEN "gone"
  ELSE IF login["C"] = "yes" THEN "granted" ELSE "connecting"

question ==
  IF status = "granted" /\ pc["C"] # "prompt" THEN asked ELSE NoText

Service == INSTANCE EchoService
  WITH People <- Creds, Users <- ValidCreds, Nothing <- NoText,
       who <- typed, answer <- shown

\* At the client's terminal the session is an echo service: a person is let in
\* if and only if the credentials are a user's, each line asked is answered
\* by itself before the next is read, and an answer always comes.
IsEchoService == Service!Spec
=============================================================================
