------------------------- MODULE LoginSessionProofs -------------------------
(***************************************************************************)
(* Proofs about LoginSession: its type invariant, and the integrity of the *)
(* login and of the logout, for every set of credentials and lines, every  *)
(* frame length, every way of cutting the streams and every fault; then,   *)
(* for the sessions whose reads return what was written, that both sides   *)
(* agree on the login and that the client's terminal shows an EchoService. *)
(***************************************************************************)
EXTENDS LoginSession, SequenceTheorems, TLAPS

\* Names of groups of variables, in every UNCHANGED.
USE DEF conn, human, local

\* The texts that may honestly be about.  Credentials are those typed at the
\* client, or a user's from which those typed go on; a line is one that was
\* typed ("0" and "1" are answers too); and "exit" was typed, or a line that
\* ends in it.
Said ==
  {t \in Texts :
     /\ t \in Creds => t = typed \/ (typed \in LongCreds /\ t \in ValidCreds)
     /\ t \in Lines \ {"0", "1"} => t \in said
     /\ t = "exit" => said \cap ({"exit"} \cup ExitLines) # {}}

\* The connection's types, with the units carrying texts of T only.
ConnOK(T) ==
  /\ net \in [Sides -> Seq(Units(T))]
  /\ peer \in [Sides -> {"open", "fin", "resetting", "reset"}]
  /\ late \in [Sides -> BOOLEAN]

ConnOKNext(T) ==
  /\ net' \in [Sides -> Seq(Units(T))]
  /\ peer' \in [Sides -> {"open", "fin", "resetting", "reset"}]
  /\ late' \in [Sides -> BOOLEAN]

Points == {"hdr", "params", "pub", "wlen", "wbody", "rlen", "rbody",
           "decide", "prompt", "close", "done"}

-----------------------------------------------------------------------------
(* The two streams.                                                        *)

\* Runs of pieces that carry no text are sequences of units.
LEMMA PiecesAreUnits ==
  ASSUME NEW T, NoText \in T,
         NEW kind \in {"hdr", "par", "pub", "len", "body"}, NEW n \in Nat
  PROVE  Pieces(kind, n) \in Seq(Units(T))
<1>1. \A i \in 1..n : Piece(kind, i) \in Units(T)
  BY DEF Piece, Units, Keys
<1> QED  BY <1>1 DEF Pieces

\* The body of a frame is a sequence of units carrying the frame's text.
LEMMA BodyIsUnits ==
  ASSUME NEW T, NEW t \in T, NEW k \in Keys
  PROVE  Body(t, k) \in Seq(Units(T))
<1>1. \A i \in 1..BodyLen :
        [kind |-> "body", i |-> i, txt |-> t, key |-> k] \in Units(T)
  BY LensAssumption DEF Units
<1>2. BodyLen \in Nat
  BY LensAssumption
<1> QED  BY <1>1, <1>2 DEF Body

\* What Counts offers is something, and never exceeds what is waiting.
LEMMA CountsBounded ==
  ASSUME NEW T, ConnOK(T), NEW x \in Sides, NEW n \in Nat,
         NEW k \in Counts(x, n)
  PROVE  k \in Nat /\ k <= Len(net[x]) /\ k # 0
<1>1. Len(net[x]) \in Nat
  BY DEF ConnOK
<1> QED  BY <1>1 DEF Counts, Least

\* Taking units off a stream leaves well-formed streams, and what was taken
\* is well-formed too.
LEMMA TakeOK ==
  ASSUME NEW T, ConnOK(T), NEW x \in Sides, NEW k \in Nat, k <= Len(net[x]),
         Take(x, k)
  PROVE  ConnOKNext(T)
<1>1. net[x] \in Seq(Units(T)) /\ Len(net[x]) \in Nat
  BY DEF ConnOK
<1>2. SubSeq(net[x], k + 1, Len(net[x])) \in Seq(Units(T))
  BY <1>1
<1> QED  BY <1>2 DEF ConnOK, ConnOKNext, Take

LEMMA GotUnits ==
  ASSUME NEW T, ConnOK(T), NEW x \in Sides, NEW k \in Nat, k <= Len(net[x])
  PROVE  Got(x, k) \in Seq(Units(T)) /\ Len(Got(x, k)) = k
<1>1. net[x] \in Seq(Units(T)) /\ Len(net[x]) \in Nat
  BY DEF ConnOK
<1> QED  BY <1>1 DEF Got

\* The calls on a connection keep it well-formed.
LEMMA CallsOK ==
  ASSUME NEW T, ConnOK(T), NEW x \in Sides,
         NEW units \in Seq(Units(T)), NEW ok, NEW failed, NEW rc
  PROVE  /\ Write(x, units) => ConnOKNext(T)
         /\ WriteFails(x) => ConnOKNext(T)
         /\ ReadEnds(x, rc) => ConnOKNext(T)
         /\ Hangup(x) => ConnOKNext(T)
         /\ Ends(x) => ConnOKNext(T)
         /\ Sends(x, units, ok, failed) => ConnOKNext(T)
<1>0. Other(x) \in Sides
  BY DEF Other, Sides
<1>1. Write(x, units) => ConnOKNext(T)
  <2>1. net[Other(x)] \o units \in Seq(Units(T))
    BY <1>0 DEF ConnOK
  <2> QED  BY <1>0, <2>1 DEF Write, ConnOK, ConnOKNext
<1>2. WriteFails(x) => ConnOKNext(T)
  BY DEF WriteFails, ConnOK, ConnOKNext
<1>3. ReadEnds(x, rc) => ConnOKNext(T)
  BY DEF ReadEnds, ConnOK, ConnOKNext
<1>4. Hangup(x) => ConnOKNext(T)
  <2>1. <<>> \in Seq(Units(T))
    OBVIOUS
  <2> QED  BY <1>0, <2>1 DEF Hangup, ConnOK, ConnOKNext
<1>5. Ends(x) => ConnOKNext(T)
  BY <1>4 DEF Ends, ConnOK, ConnOKNext
<1>6. Sends(x, units, ok, failed) => ConnOKNext(T)
  BY <1>1, <1>2, <1>5 DEF Sends
<1> QED  BY <1>1, <1>2, <1>3, <1>4, <1>5, <1>6

\* Decryption invents nothing: it yields a text some unit carried, noise, or
\* a piece of such a text that may be about because the text may.
LEMMA DecryptedSaid ==
  ASSUME NEW x, NEW got \in Seq(Units(Said)), got # <<>>, typed \in Creds
  PROVE  Decrypted(x, got) \subseteq Said
<1> DEFINE t == got[1].txt
<1>1. t \in Said
  <2>1. Len(got) \in Nat /\ Len(got) # 0
    OBVIOUS
  <2>2. got[1] \in Units(Said)
    BY <2>1
  <2> QED  BY <2>2 DEF Units
<1>2. Garbage \in Said
  BY TextsAssumption DEF Said, Texts
<1>3. Endings(t) \subseteq Said
  <2>1. CASE t \in ExitLines
    <3>1. t \in said
      BY <1>1, <2>1, TextsAssumption DEF Said
    <3>2. "exit" \in Said
      BY <2>1, <3>1, TextsAssumption DEF Said, Texts
    <3> QED  BY <1>2, <3>2 DEF Endings
  <2>2. CASE t \notin ExitLines
    BY <1>2, <2>2 DEF Endings
  <2> QED  BY <2>1, <2>2
<1>4. Beginnings(t) \subseteq Said
  <2>1. CASE t \in LongCreds
    <3>1. typed \in LongCreds
      BY <1>1, <2>1, TextsAssumption DEF Said
    <3>2. ValidCreds \subseteq Said
      BY <3>1, TextsAssumption DEF Said, Texts
    <3> QED  BY <1>1, <1>2, <3>2 DEF Beginnings
  <2>2. CASE t \notin LongCreds
    BY <1>1, <1>2, <2>2 DEF Beginnings
  <2> QED  BY <2>1, <2>2
<1> QED  BY <1>1, <1>2, <1>3, <1>4 DEF Decrypted

-----------------------------------------------------------------------------
(* The inductive invariant.                                                *)

LocalOK ==
  /\ pc \in [Sides -> Points]
  /\ key \in [Sides -> Keys]
  /\ want \in [Sides -> Nat]
  /\ params \in {"none", "good", "wrongGY", "fail"}
  /\ typed \in Creds
  /\ login \in [Sides -> {"unknown", "yes", "no"}]
  /\ asked \in Texts
  /\ said \subseteq Lines \cup {"exit"}
  /\ shown \in Texts
  /\ lines \in 0..MaxLines
  /\ parent \in BOOLEAN

\* Once "exit" was asked the client writes it and nothing else ever again.
LastWord ==
  asked = "exit" => /\ pc["C"] \in {"wlen", "wbody", "close", "done"}
                    /\ text["C"] = "exit"

IInv ==
  /\ LocalOK
  /\ ConnOK(Said)
  /\ text \in [Sides -> Said]
  /\ LastWord
  /\ AuthIntegrity

\* What holds initially.
LEMMA InitIInv == Init => IInv
<1> SUFFICES ASSUME Init PROVE IInv
  OBVIOUS
<1>1. NoText \in Said
  BY TextsAssumption DEF Init, Said, Texts
<1>2. <<>> \in Seq(Units(Said))
  OBVIOUS
<1>3. LocalOK
  BY LensAssumption DEF Init, LocalOK, Points, Keys, Texts
<1>4. ConnOK(Said)
  BY <1>2 DEF Init, ConnOK
<1>5. text \in [Sides -> Said]
  BY <1>1 DEF Init
<1>6. LastWord
  BY TextsAssumption DEF Init, LastWord
<1>7. AuthIntegrity
  BY DEF Init, AuthIntegrity, Sides
<1> QED  BY <1>3, <1>4, <1>5, <1>6, <1>7 DEF IInv

\* The members of Said that the code writes of its own accord.
LEMMA SaidBasics ==
  ASSUME typed \in Creds
  PROVE  /\ Said \subseteq Texts
         /\ Garbage \in Said
         /\ NoText \in Said
         /\ "0" \in Said
         /\ "1" \in Said
         /\ typed \in Said
BY TextsAssumption DEF Said, Texts

\* A step that leaves the credentials and the lines typed alone leaves Said.
LEMMA SaidUnchanged ==
  ASSUME UNCHANGED <<typed, said>>
  PROVE  Said' = Said
BY DEF Said

\* The writes of a frame move pc and the connection only.
LEMMA SendsFrom ==
  ASSUME IInv, NEW x \in Sides, NEW units \in Seq(Units(Said)),
         NEW ok \in Points, NEW failed \in Points, Sends(x, units, ok, failed)
  PROVE  /\ ConnOKNext(Said)
         /\ pc' \in [Sides -> Points]
         /\ \A y \in Sides : y # x => pc'[y] = pc[y]
         /\ pc'[x] \in {ok, failed, "done"}
<1>1. ConnOKNext(Said)
  BY CallsOK DEF IInv
<1>2. \E p \in {ok, failed, "done"} : pc' = [pc EXCEPT ![x] = p]
  BY DEF Sends, Ends
<1> QED  BY <1>1, <1>2 DEF IInv, LocalOK, Points

\* A step of the framing, of a write of the exchange or of a death changes no
\* more than the connection, pc, text, want and key.
LEMMA FrameStep ==
  ASSUME IInv, ConnOKNext(Said),
         UNCHANGED <<params, typed, login, asked, said, shown, lines>>,
         parent' \in BOOLEAN,
         pc' \in [Sides -> Points], key' \in [Sides -> Keys],
         want' \in [Sides -> Nat], text' \in [Sides -> Said], LastWord'
  PROVE  IInv'
<1>1. Said' = Said
  BY SaidUnchanged
<1>2. ConnOK(Said)'
  BY <1>1 DEF ConnOK, ConnOKNext
<1>3. LocalOK'
  BY DEF IInv, LocalOK
<1>4. AuthIntegrity'
  BY DEF IInv, AuthIntegrity
<1> QED  BY <1>1, <1>2, <1>3, <1>4 DEF IInv

-----------------------------------------------------------------------------
(* One lemma per action that touches a stream.                             *)

LEMMA WriteLenStep ==
  ASSUME IInv, NEW x \in Sides, WriteLen(x)
  PROVE  IInv'
<1>1. LenByte \in Seq(Units(Said))
  BY PiecesAreUnits, SaidBasics DEF LenByte, IInv, LocalOK
<1>2. AfterWrite(x) \in Points /\ "wbody" \in Points
  BY DEF AfterWrite, Points
<1>3. /\ ConnOKNext(Said)
      /\ pc' \in [Sides -> Points]
      /\ \A y \in Sides : y # x => pc'[y] = pc[y]
      /\ pc'[x] \in {"wbody", AfterWrite(x), "done"}
  BY <1>1, <1>2, SendsFrom DEF WriteLen
<1>4. LastWord'
  BY <1>3 DEF WriteLen, IInv, LastWord, AfterWrite, Sides
<1> QED  BY <1>3, <1>4, FrameStep DEF WriteLen, IInv, LocalOK

LEMMA WriteBodyStep ==
  ASSUME IInv, NEW x \in Sides, WriteBody(x)
  PROVE  IInv'
<1>1. Body(text[x], key[x]) \in Seq(Units(Said))
  BY BodyIsUnits DEF IInv, LocalOK
<1>2. AfterWrite(x) \in Points
  BY DEF AfterWrite, Points
<1>3. /\ ConnOKNext(Said)
      /\ pc' \in [Sides -> Points]
      /\ \A y \in Sides : y # x => pc'[y] = pc[y]
      /\ pc'[x] \in {AfterWrite(x), "done"}
  BY <1>1, <1>2, SendsFrom DEF WriteBody
<1>4. LastWord'
  BY <1>3 DEF WriteBody, IInv, LastWord, AfterWrite, Sides
<1> QED  BY <1>3, <1>4, FrameStep DEF WriteBody, IInv, LocalOK

\* A read of the client happens only before "exit" was asked.
LEMMA ReaderNotLeaving ==
  ASSUME IInv, NEW x \in Sides,
         pc[x] \in {"hdr", "params", "pub", "rlen", "rbody"},
         asked' = asked, \A y \in Sides : y # x => pc'[y] = pc[y],
         \A y \in Sides : y # x => text'[y] = text[y]
  PROVE  LastWord'
<1>1. CASE x = "C"
  BY <1>1 DEF IInv, LastWord
<1>2. CASE x = "S"
  BY <1>2 DEF IInv, LastWord, Sides
<1> QED  BY <1>1, <1>2 DEF Sides

LEMMA ReadLenStep ==
  ASSUME IInv, NEW x \in Sides, ReadLen(x)
  PROVE  IInv'
<1>1. ConnOK(Said) /\ Garbage \in Said
  BY SaidBasics DEF IInv, LocalOK
<1>2. \A rc : AfterRead(x, rc) \in Points
  BY DEF AfterRead, Points
<1>3. CASE /\ net[x] # <<>>
           /\ \E n \in Lengths(Head(net[x])) : want' = [want EXCEPT ![x] = n]
           /\ Take(x, 1)
           /\ pc' = [pc EXCEPT ![x] = "rbody"]
           /\ text' = text
  <2>1. net[x] \in Seq(Units(Said)) /\ Len(net[x]) \in Nat
    BY <1>1 DEF ConnOK
  <2>2. 1 <= Len(net[x])
    BY <2>1, <1>3
  <2>3. ConnOKNext(Said)
    BY <1>1, <1>3, <2>2, TakeOK
  <2>4. want' \in [Sides -> Nat]
    BY <1>3, LensAssumption DEF Lengths, IInv, LocalOK
  <2>5. pc' \in [Sides -> Points]
    BY <1>3 DEF IInv, LocalOK, Points
  <2>6. LastWord'
    BY <1>3, ReaderNotLeaving DEF ReadLen, IInv, LocalOK
  <2> QED  BY <1>3, <2>3, <2>4, <2>5, <2>6, FrameStep DEF ReadLen, IInv, LocalOK
<1>4. CASE /\ \E rc \in {-1, 0} : /\ ReadEnds(x, rc)
                                  /\ pc' = [pc EXCEPT ![x] = AfterRead(x, rc)]
           /\ text' = [text EXCEPT ![x] = Garbage]
           /\ want' = want
  <2>1. PICK rc \in {-1, 0} : /\ ReadEnds(x, rc)
                              /\ pc' = [pc EXCEPT ![x] = AfterRead(x, rc)]
    BY <1>4
  <2>2. <<>> \in Seq(Units(Said))
    OBVIOUS
  <2>3. ConnOKNext(Said)
    BY <1>1, <2>1, <2>2, CallsOK
  <2>4. pc' \in [Sides -> Points] /\ text' \in [Sides -> Said]
    BY <1>1, <1>2, <1>4, <2>1 DEF IInv, LocalOK
  <2>5. LastWord'
    BY <1>4, <2>1, ReaderNotLeaving DEF ReadLen, IInv, LocalOK
  <2> QED  BY <1>4, <2>3, <2>4, <2>5, FrameStep DEF ReadLen, IInv, LocalOK
<1> QED  BY <1>3, <1>4 DEF ReadLen

LEMMA ReadBodyStep ==
  ASSUME IInv, NEW x \in Sides, ReadBody(x)
  PROVE  IInv'
<1>1. ConnOK(Said) /\ Garbage \in Said /\ want[x] \in Nat
  BY SaidBasics DEF IInv, LocalOK
<1>2. \A rc : AfterRead(x, rc) \in Points
  BY DEF AfterRead, Points
<1>3. \E p \in Points : pc' = [pc EXCEPT ![x] = p]
  BY <1>2 DEF ReadBody
<1>4. pc' \in [Sides -> Points] /\ \A y \in Sides : y # x => pc'[y] = pc[y]
  BY <1>3 DEF IInv, LocalOK
<1>5. ConnOKNext(Said) /\ \E t \in Said : text' = [text EXCEPT ![x] = t]
  <2>1. CASE UNCHANGED conn /\ text' = [text EXCEPT ![x] = Garbage]
    BY <1>1, <2>1 DEF ConnOK, ConnOKNext
  <2>2. ASSUME NEW k \in Counts(x, want[x]), Take(x, k),
               NEW t \in Decrypted(x, Got(x, k)), text' = [text EXCEPT ![x] = t]
        PROVE  ConnOKNext(Said) /\ t \in Said
    <3>1. k \in Nat /\ k <= Len(net[x]) /\ k # 0
      BY <1>1, CountsBounded
    <3>2. ConnOKNext(Said)
      BY <1>1, <2>2, <3>1, TakeOK
    <3>3. Got(x, k) \in Seq(Units(Said)) /\ Got(x, k) # <<>>
      BY <1>1, <3>1, GotUnits
    <3>4. typed \in Creds
      BY DEF IInv, LocalOK
    <3> QED  BY <2>2, <3>2, <3>3, <3>4, DecryptedSaid
  <2>3. ASSUME NEW rc, ReadEnds(x, rc), text' = [text EXCEPT ![x] = Garbage]
        PROVE  ConnOKNext(Said)
    <3>1. <<>> \in Seq(Units(Said))
      OBVIOUS
    <3> QED  BY <1>1, <2>3, <3>1, CallsOK
  <2> QED  BY <1>1, <2>1, <2>2, <2>3 DEF ReadBody
<1>6. text' \in [Sides -> Said] /\ \A y \in Sides : y # x => text'[y] = text[y]
  BY <1>5 DEF IInv
<1>7. LastWord'
  BY <1>4, <1>6, ReaderNotLeaving DEF ReadBody
<1> QED  BY <1>4, <1>5, <1>6, <1>7, FrameStep DEF ReadBody, IInv, LocalOK

\* The end of a process.
LEMMA EndStep ==
  ASSUME IInv, NEW x \in Sides, Ends(x),
         UNCHANGED <<key, text, want, params, typed, login, asked, said, shown,
                     lines, parent>>
  PROVE  IInv'
<1>1. ConnOKNext(Said)
  <2>1. <<>> \in Seq(Units(Said))
    OBVIOUS
  <2> QED  BY <2>1, CallsOK DEF IInv
<1>2. pc' = [pc EXCEPT ![x] = "done"]
  BY DEF Ends
<1>3. pc' \in [Sides -> Points]
  BY <1>2 DEF IInv, LocalOK, Points
<1>4. LastWord'
  BY <1>2 DEF IInv, LocalOK, LastWord, Sides
<1> QED  BY <1>1, <1>3, <1>4, FrameStep DEF IInv, LocalOK

\* The four messages of the key exchange.
LEMMA ExchangeWritesStep ==
  ASSUME IInv, SrvSendHeader \/ SrvSendParams \/ CliSendPub
  PROVE  IInv'
<1>1. NoText \in Said /\ typed \in Said /\ ConnOK(Said)
  BY SaidBasics DEF IInv, LocalOK
<1>2. CASE SrvSendHeader
  <2>1. Header \in Seq(Units(Said))
    BY <1>1, PiecesAreUnits DEF Header
  <2>2. /\ ConnOKNext(Said)
        /\ pc' \in [Sides -> Points]
        /\ pc'["C"] = pc["C"]
    BY <1>2, <2>1, SendsFrom DEF SrvSendHeader, Points, Sides
  <2> QED  BY <1>2, <2>2, FrameStep DEF SrvSendHeader, IInv, LocalOK, LastWord
<1>3. CASE SrvSendParams
  <2>1. Params \in Seq(Units(Said))
    BY <1>1, PiecesAreUnits DEF Params
  <2>2. /\ ConnOKNext(Said)
        /\ pc' \in [Sides -> Points]
        /\ pc'["C"] = pc["C"]
    BY <1>3, <2>1, SendsFrom DEF SrvSendParams, Points, Sides
  <2> QED  BY <1>3, <2>2, FrameStep DEF SrvSendParams, IInv, LocalOK, LastWord
<1>4. CASE CliSendPub
  <2>1. Public \in Seq(Units(Said))
    BY <1>1, LensAssumption, PiecesAreUnits DEF Public
  <2>2. asked # "exit"
    BY <1>4 DEF CliSendPub, IInv, LastWord
  <2>3. ConnOKNext(Said) /\ pc' \in [Sides -> Points]
    <3>1. CASE params = "fail"
      BY <1>1, <1>4, <3>1
         DEF CliSendPub, ConnOK, ConnOKNext, IInv, LocalOK, Points
    <3>2. CASE params # "fail"
      BY <1>4, <2>1, <3>2, SendsFrom DEF CliSendPub, Points, Sides
    <3> QED  BY <3>1, <3>2
  <2>4. key' \in [Sides -> Keys] /\ text' \in [Sides -> Said]
    BY <1>1, <1>4 DEF CliSendPub, IInv, LocalOK, Keys
  <2>5. LastWord'
    BY <1>4, <2>2 DEF CliSendPub, LastWord
  <2> QED  BY <1>4, <2>3, <2>4, <2>5, FrameStep DEF CliSendPub, IInv, LocalOK
<1> QED  BY <1>2, <1>3, <1>4

LEMMA ExchangeReadsStep ==
  ASSUME IInv, SrvReadPub \/ CliReadHeader \/ CliReadParams
  PROVE  IInv'
<1>1. ConnOK(Said) /\ <<>> \in Seq(Units(Said)) /\ "C" \in Sides /\ "S" \in Sides
  BY DEF IInv, Sides
<1>2. CASE SrvReadPub
  <2>1. ConnOKNext(Said)
    <3>1. PubRoom \in Nat
      BY LensAssumption DEF PubRoom
    <3>2. ASSUME NEW k \in Counts("S", PubRoom), Take("S", k)
          PROVE  ConnOKNext(Said)
      <4>1. k \in Nat /\ k <= Len(net["S"])
        BY <1>1, <3>1, CountsBounded
      <4> QED  BY <1>1, <3>2, <4>1, TakeOK
    <3>3. ASSUME NEW rc, ReadEnds("S", rc) PROVE ConnOKNext(Said)
      BY <1>1, <3>3, CallsOK
    <3> QED  BY <1>2, <3>2, <3>3 DEF SrvReadPub
  <2>2. \E v \in Keys : key' = [key EXCEPT !["S"] = v]
    BY <1>2 DEF SrvReadPub, Keys
  <2>3. key' \in [Sides -> Keys]
    BY <2>2 DEF IInv, LocalOK
  <2>4. pc' \in [Sides -> Points] /\ pc'["C"] = pc["C"]
    BY <1>2 DEF SrvReadPub, IInv, LocalOK, Points, Sides
  <2> QED  BY <1>2, <2>1, <2>3, <2>4, FrameStep
           DEF SrvReadPub, IInv, LocalOK, LastWord
<1>3. CASE CliReadHeader
  <2>1. ConnOKNext(Said)
    <3>2. ASSUME NEW k \in Counts("C", 2), Take("C", k)
          PROVE  ConnOKNext(Said)
      <4>1. k \in Nat /\ k <= Len(net["C"])
        BY <1>1, CountsBounded
      <4> QED  BY <1>1, <3>2, <4>1, TakeOK
    <3>3. ASSUME NEW rc, ReadEnds("C", rc) PROVE ConnOKNext(Said)
      BY <1>1, <3>3, CallsOK
    <3> QED  BY <1>3, <3>2, <3>3 DEF CliReadHeader
  <2>2. PICK v \in Nat : want' = [want EXCEPT !["C"] = v]
    BY <1>3 DEF CliReadHeader
  <2>3. want' \in [Sides -> Nat] /\ pc' \in [Sides -> Points]
    <3>1. want' \in [Sides -> Nat]
      BY <2>2 DEF IInv, LocalOK
    <3> QED  BY <1>3, <3>1 DEF CliReadHeader, IInv, LocalOK, Points
  <2>4. LastWord'
    BY <1>3 DEF CliReadHeader, IInv, LastWord
  <2> QED  BY <1>3, <2>1, <2>3, <2>4, FrameStep DEF CliReadHeader, IInv, LocalOK
<1>4. CASE CliReadParams
  <2>1. want["C"] \in Nat
    BY <1>1 DEF IInv, LocalOK
  <2>2. /\ ConnOKNext(Said)
        /\ params' \in {"none", "good", "wrongGY", "fail"}
    <3>1. CASE UNCHANGED conn /\ params' = "fail"
      BY <1>1, <3>1 DEF ConnOK, ConnOKNext
    <3>2. ASSUME NEW k \in Counts("C", want["C"]), Take("C", k),
                 params' \in ParamsOf(Got("C", k))
          PROVE  /\ ConnOKNext(Said)
                 /\ params' \in {"none", "good", "wrongGY", "fail"}
      <4>1. k \in Nat /\ k <= Len(net["C"])
        BY <1>1, <2>1, CountsBounded
      <4>2. Len(Got("C", k)) \in Nat
        BY <1>1, <4>1, GotUnits
      <4>3. ParamsOf(Got("C", k)) \subseteq {"good", "wrongGY", "fail"}
        BY <4>2 DEF ParamsOf
      <4> QED  BY <1>1, <3>2, <4>1, <4>3, TakeOK
    <3>3. ASSUME NEW rc, ReadEnds("C", rc) PROVE ConnOKNext(Said)
      BY <1>1, <3>3, CallsOK
    <3> QED  BY <1>4, <3>1, <3>2, <3>3 DEF CliReadParams
  <2>3. pc' \in [Sides -> Points]
    BY <1>4 DEF CliReadParams, IInv, LocalOK, Points
  <2>4. LastWord'
    BY <1>4 DEF CliReadParams, IInv, LastWord
  <2>5. Said' = Said
    BY <1>4, SaidUnchanged DEF CliReadParams
  <2>6. ConnOK(Said)' /\ LocalOK' /\ (text \in [Sides -> Said])'
    BY <1>4, <2>2, <2>3, <2>5
       DEF CliReadParams, IInv, LocalOK, ConnOK, ConnOKNext
  <2> QED  BY <1>4, <2>4, <2>6 DEF CliReadParams, IInv, AuthIntegrity
<1> QED  BY <1>2, <1>3, <1>4

-----------------------------------------------------------------------------
(* Decisions and the person at the prompt.                                 *)

\* The child accepts a text that is the credentials of a user: a member of
\* Said that is one of Creds is what was typed, or what it goes on from.
LEMMA SrvAuthStep ==
  ASSUME IInv, SrvAuth
  PROVE  IInv'
<1>1. Said' = Said
  BY SaidUnchanged DEF SrvAuth
<1>2. "0" \in Said /\ "1" \in Said /\ "S" \in Sides
  BY SaidBasics DEF IInv, LocalOK, Sides
<1>3. ConnOK(Said)'
  BY <1>1 DEF SrvAuth, IInv, ConnOK
<1>4. LocalOK' /\ (text \in [Sides -> Said])'
  BY <1>1, <1>2 DEF SrvAuth, IInv, LocalOK, Points
<1>5. LastWord'
  BY DEF SrvAuth, IInv, LocalOK, LastWord, Sides
<1>6. AuthIntegrity'
  <2>1. CASE text["S"] \in ValidCreds
    <3>1. text["S"] \in Said /\ text["S"] \in Creds
      BY <1>2, <2>1, TextsAssumption DEF IInv
    <3>2. text["S"] = typed \/ typed \in LongCreds
      BY <3>1 DEF Said
    <3> QED  BY <2>1, <3>2 DEF SrvAuth, AuthIntegrity
  <2>2. CASE text["S"] \notin ValidCreds
    BY <1>2, <2>2 DEF SrvAuth, AuthIntegrity, IInv, LocalOK
  <2> QED  BY <2>1, <2>2
<1> QED  BY <1>1, <1>3, <1>4, <1>5, <1>6 DEF IInv

LEMMA OtherDecisionsStep ==
  ASSUME IInv, SrvEcho \/ CliAuthenticated \/ CliShow
  PROVE  IInv'
<1>1. Said' = Said
  BY SaidUnchanged DEF SrvEcho, CliAuthenticated, CliShow
<1>2. ConnOK(Said)' /\ (text \in [Sides -> Said])'
  BY <1>1 DEF SrvEcho, CliAuthenticated, CliShow, IInv, ConnOK
<1>3. text["C"] \in Texts
  BY DEF IInv, Said, Sides
<1>4. LocalOK'
  BY <1>3
     DEF SrvEcho, CliAuthenticated, CliShow, IInv, LocalOK, Points, Sides
<1>5. LastWord'
  BY DEF SrvEcho, CliAuthenticated, CliShow, IInv, LocalOK, LastWord, Sides
<1>6. AuthIntegrity'
  BY DEF SrvEcho, CliAuthenticated, CliShow, IInv, LocalOK, AuthIntegrity, Sides
<1> QED  BY <1>1, <1>2, <1>4, <1>5, <1>6 DEF IInv

\* A new line adds itself to what may be about, and takes nothing from it.
LEMMA PromptStep ==
  ASSUME IInv, CliPrompt
  PROVE  IInv'
<1>1. PICK l \in Lines \cup {"exit"} :
        /\ l # "exit" => lines < MaxLines
        /\ asked' = l
        /\ said' = said \cup {l}
        /\ text' = [text EXCEPT !["C"] = l]
        /\ lines' = IF l = "exit" THEN lines ELSE lines + 1
  BY DEF CliPrompt
<1>3. Said \subseteq Said' /\ l \in Said'
  <2>1. typed' = typed
    BY DEF CliPrompt
  <2> QED  BY <1>1, <2>1, TextsAssumption DEF Said, Texts
<1>4. Units(Said) \subseteq Units(Said')
  BY <1>3 DEF Units
<1>5. ConnOK(Said)'
  <2>1. net \in [Sides -> Seq(Units(Said'))]
    BY <1>4, SeqMonotonic DEF IInv, ConnOK
  <2> QED  BY <2>1 DEF CliPrompt, IInv, ConnOK
<1>6. (text \in [Sides -> Said])'
  BY <1>1, <1>3 DEF IInv
<1>7. LocalOK'
  <2>1. lines' \in 0..MaxLines
    BY <1>1, LensAssumption DEF IInv, LocalOK
  <2>2. asked' \in Texts /\ shown' \in Texts /\ said' \subseteq Lines \cup {"exit"}
    BY <1>1 DEF CliPrompt, Texts, IInv, LocalOK
  <2>3. pc' \in [Sides -> Points]
    BY DEF CliPrompt, IInv, LocalOK, Points
  <2> QED  BY <2>1, <2>2, <2>3 DEF CliPrompt, IInv, LocalOK
<1>8. LastWord'
  BY <1>1 DEF CliPrompt, IInv, LocalOK, LastWord, Sides
<1>9. AuthIntegrity'
  BY DEF CliPrompt, IInv, AuthIntegrity
<1> QED  BY <1>5, <1>6, <1>7, <1>8, <1>9 DEF IInv

LEMMA ResetStep ==
  ASSUME IInv, NEW x \in Sides, Reset(x)
  PROVE  IInv'
<1>1. ConnOKNext(Said)
  BY DEF Reset, IInv, ConnOK, ConnOKNext
<1>2. LastWord'
  BY DEF Reset, IInv, LastWord
<1> QED  BY <1>1, <1>2, FrameStep DEF Reset, IInv, LocalOK

LEMMA KillParentStep ==
  ASSUME IInv, KillParent
  PROVE  IInv'
<1>1. <<>> \in Seq(Units(Said)) /\ "S" \in Sides
  BY DEF Sides
<1>2. ConnOKNext(Said)
  BY <1>1, CallsOK DEF KillParent, IInv, ConnOK, ConnOKNext
<1>3. LastWord'
  BY DEF KillParent, IInv, LastWord
<1> QED  BY <1>2, <1>3, FrameStep DEF KillParent, IInv, LocalOK

-----------------------------------------------------------------------------

\* Every step preserves the invariant.
LEMMA NextIInv == IInv /\ [Next]_vars => IInv'
<1> SUFFICES ASSUME IInv, [Next]_vars PROVE IInv'
  OBVIOUS
<1>0. "C" \in Sides /\ "S" \in Sides
  BY DEF Sides
<1>1. ASSUME NEW x \in Sides, Framing(x) PROVE IInv'
  <2>1. CASE Close(x)
    BY <2>1, EndStep DEF Close
  <2> QED  BY <1>1, <2>1, WriteLenStep, WriteBodyStep, ReadLenStep,
              ReadBodyStep DEF Framing
<1>2. CASE Child
  BY <1>0, <1>1, <1>2, ExchangeWritesStep, ExchangeReadsStep, SrvAuthStep,
     OtherDecisionsStep DEF Child
<1>3. CASE Client
  BY <1>0, <1>1, <1>3, ExchangeWritesStep, ExchangeReadsStep,
     OtherDecisionsStep DEF Client
<1>4. CASE CliPrompt
  BY <1>4, PromptStep
<1>5. ASSUME NEW x \in Sides, Reset(x) \/ KillOne(x) PROVE IInv'
  BY <1>5, ResetStep, EndStep DEF KillOne
<1>6. CASE KillParent
  BY <1>6, KillParentStep
<1>7. CASE UNCHANGED vars
  <2>1. Said' = Said
    BY <1>7, SaidUnchanged DEF vars
  <2> QED  BY <1>7, <2>1 DEF vars, IInv, LocalOK, ConnOK, LastWord, AuthIntegrity
<1> QED  BY <1>2, <1>3, <1>4, <1>5, <1>6, <1>7 DEF Next

\* The invariant holds in every state of every session.
THEOREM Inductive == Spec => []IInv
BY InitIInv, NextIInv, PTL DEF Spec

\* Every variable of the session keeps to its values, whatever is read from
\* the connection and whoever dies.
THEOREM TypeCorrect == Spec => []TypeOK
<1>1. IInv => TypeOK
  <2> SUFFICES ASSUME IInv PROVE TypeOK
    OBVIOUS
  <2>1. Said \subseteq Texts
    BY DEF Said
  <2>2. Units(Said) \subseteq Units(Texts)
    BY <2>1 DEF Units
  <2>3. net \in [Sides -> Seq(Units(Texts))]
    BY <2>2, SeqMonotonic DEF IInv, ConnOK
  <2>4. text \in [Sides -> Texts]
    BY <2>1 DEF IInv
  <2> QED  BY <2>3, <2>4 DEF IInv, LocalOK, ConnOK, TypeOK, Points
<1> QED  BY <1>1, Inductive, PTL

\* The child of server.cpp logs in only a person who typed the credentials of
\* a user, or those with more behind the password, however the two streams are
\* cut and whoever dies.
THEOREM LoginIntegrity == Spec => []AuthIntegrity
<1>1. IInv => AuthIntegrity
  BY DEF IInv
<1> QED  BY <1>1, Inductive, PTL

\* The child of server.cpp leaves on "exit" only if the person typed "exit",
\* or a line that ends in it on a block boundary: wherever its reads begin and
\* end, nothing else that was ever sent decrypts to that.
THEOREM LogoutIntegrity == Spec => []ExitIsTyped
<1>1. IInv => ExitIsTyped
  <2> SUFFICES ASSUME IInv, text["S"] = "exit"
               PROVE  said \cap ({"exit"} \cup ExitLines) # {}
    BY DEF ExitIsTyped
  <2>1. text["S"] \in Said
    BY DEF IInv, Sides
  <2> QED  BY <2>1 DEF Said
<1> QED  BY <1>1, Inductive, PTL

-----------------------------------------------------------------------------
(* The session in step.  With reads that return what was written, a child   *)
(* that reads the public value in time and is not killed, the two programs  *)
(* speak in turn; InStep lists the points at which the two can be and what  *)
(* is on its way at each of them.                                           *)

InTime == ~ShortReads /\ PromptServer /\ "child" \notin Faults

Frame(t) == LenByte \o Body(t, "agreed")

\* Up to the client's public value.
Exchange ==
  /\ login["C"] = "unknown" /\ login["S"] = "unknown"
  /\ \/ /\ net["S"] = <<>>
        /\ \/ pc["S"] = "hdr" /\ pc["C"] = "hdr" /\ net["C"] = <<>>
           \/ pc["S"] = "params" /\ pc["C"] = "hdr" /\ net["C"] = Header
           \/ pc["S"] = "params" /\ pc["C"] = "params" /\ net["C"] = <<>> /\ want["C"] = 3
           \/ pc["S"] = "pub" /\ pc["C"] = "hdr" /\ net["C"] = Header \o Params
           \/ pc["S"] = "pub" /\ pc["C"] = "params" /\ net["C"] = Params /\ want["C"] = 3
           \/ pc["S"] = "pub" /\ pc["C"] = "pub" /\ net["C"] = <<>> /\ params = "good"
     \/ /\ pc["S"] = "pub" /\ pc["C"] = "wlen" /\ net["C"] = <<>> /\ net["S"] = Public
        /\ key["C"] = "agreed" /\ text["C"] = typed

Agreed == key["C"] = "agreed" /\ key["S"] = "agreed"

\* The client's credentials or its line are on their way.
Asking ==
  /\ Agreed /\ net["C"] = <<>>
  /\ login["C"] = login["S"]
  /\ \/ login["C"] = "unknown" /\ text["C"] = typed
     \/ login["C"] = "yes" /\ text["C"] = asked /\ asked \in Lines \cup {"exit"}
  /\ \/ pc["C"] = "wlen" /\ pc["S"] = "rlen" /\ net["S"] = <<>>
     \/ pc["C"] = "wbody" /\ pc["S"] = "rlen" /\ net["S"] = LenByte
     \/ pc["C"] = "wbody" /\ pc["S"] = "rbody" /\ net["S"] = <<>> /\ want["S"] = BodyLen
     \/ pc["C"] = "rlen" /\ pc["S"] = "rlen" /\ net["S"] = Frame(text["C"])
     \/ /\ pc["C"] = "rlen" /\ pc["S"] = "rbody"
        /\ net["S"] = Body(text["C"], "agreed") /\ want["S"] = BodyLen
     \/ pc["C"] = "rlen" /\ pc["S"] = "decide" /\ net["S"] = <<>> /\ text["S"] = text["C"]

Rests == IF login["S"] = "no" THEN {"close", "done"} ELSE {"rlen"}

\* The child's answer is on its way.
Answering ==
  /\ Agreed /\ net["S"] = <<>>
  /\ \/ /\ login["C"] = "unknown" /\ typed \in ValidCreds
        /\ login["S"] = "yes" /\ text["S"] = "1"
     \/ /\ login["C"] = "unknown" /\ typed \notin ValidCreds
        /\ login["S"] = "no" /\ text["S"] = "0"
     \/ login["C"] = "yes" /\ login["S"] = "yes" /\ text["S"] = asked /\ asked \in Lines
  /\ \/ pc["S"] = "wlen" /\ pc["C"] = "rlen" /\ net["C"] = <<>>
     \/ pc["S"] = "wbody" /\ pc["C"] = "rlen" /\ net["C"] = LenByte
     \/ pc["S"] = "wbody" /\ pc["C"] = "rbody" /\ net["C"] = <<>> /\ want["C"] = BodyLen
     \/ pc["S"] \in Rests /\ pc["C"] = "rlen" /\ net["C"] = Frame(text["S"])
     \/ /\ pc["S"] \in Rests /\ pc["C"] = "rbody"
        /\ net["C"] = Body(text["S"], "agreed") /\ want["C"] = BodyLen
     \/ /\ pc["S"] \in Rests /\ pc["C"] = "decide"
        /\ net["C"] = <<>> /\ text["C"] = text["S"]

\* The person has the word.
Idle ==
  /\ Agreed /\ net["S"] = <<>> /\ net["C"] = <<>>
  /\ login["C"] = "yes" /\ login["S"] = "yes"
  /\ pc["S"] = "rlen" /\ pc["C"] = "prompt"

\* The client is leaving, or has left.
Parting ==
  /\ pc["C"] \in {"close", "done"}
  /\ login["C"] = "yes" => login["S"] = "yes"
  /\ pc["C"] = "close" => login["C"] = "no" \/ asked = "exit"

\* The client is in the session, and knows of no end of the child that is still there.
Staying ==
  /\ pc["C"] \notin {"close", "done"}
  /\ peer["S"] = "open"
  /\ pc["S"] # "done" => peer["C"] = "open"

InStep == Parting \/ (Staying /\ (Exchange \/ Asking \/ Answering \/ Idle))

-----------------------------------------------------------------------------
(* What the calls do to a stream whose contents are known.                  *)

\* How long the messages are.
LEMMA MessageLengths ==
  /\ Len(Header) = 2 /\ Len(Params) = 3 /\ Len(Public) = PubLen /\ Len(LenByte) = 1
  /\ Header # <<>> /\ Params # <<>> /\ Public # <<>> /\ LenByte # <<>>
BY LensAssumption DEF Header, Params, Public, LenByte, Pieces

\* How long the body of a frame is.
LEMMA BodyLength ==
  ASSUME NEW t \in Said
  PROVE  Len(Body(t, "agreed")) = BodyLen /\ Body(t, "agreed") # <<>>
BY LensAssumption DEF Body

\* Every message is a sequence of units.
LEMMA Messages ==
  ASSUME IInv
  PROVE  /\ Header \in Seq(Units(Said)) /\ Params \in Seq(Units(Said))
         /\ Public \in Seq(Units(Said)) /\ LenByte \in Seq(Units(Said))
         /\ \A t \in Said : Body(t, "agreed") \in Seq(Units(Said))
         /\ \A x \in Sides : net[x] \in Seq(Units(Said)) /\ text[x] \in Said
<1>1. NoText \in Said
  BY SaidBasics DEF IInv, LocalOK
<1>2. "agreed" \in Keys
  BY DEF Keys
<1>3. \A t \in Said : Body(t, "agreed") \in Seq(Units(Said))
  BY <1>2, BodyIsUnits
<1>4. PubLen \in Nat
  BY LensAssumption
<1>5. /\ Header \in Seq(Units(Said)) /\ Params \in Seq(Units(Said))
      /\ Public \in Seq(Units(Said)) /\ LenByte \in Seq(Units(Said))
  BY <1>1, <1>4, PiecesAreUnits DEF Header, Params, Public, LenByte
<1> QED BY <1>3, <1>5 DEF IInv, ConnOK

\* A read takes all there is, up to the length asked for.
LEMMA Whole ==
  ASSUME ~ShortReads, NEW U, NEW x, net[x] \in Seq(U), NEW n \in Nat, NEW k \in Counts(x, n)
  PROVE  k = Least(n, Len(net[x])) /\ k # 0
BY DEF Counts

\* Taking the first of two messages leaves the other.
LEMMA TakesFirst ==
  ASSUME IInv, NEW x \in Sides, NEW a \in Seq(Units(Said)), NEW b \in Seq(Units(Said)),
         net[x] = a \o b, Take(x, Len(a))
  PROVE  /\ net'[x] = b /\ Got(x, Len(a)) = a /\ peer' = peer
         /\ net'[Other(x)] = net[Other(x)]
<1> DEFINE k == Len(a)
<1>0. net \in [Sides -> Seq(Units(Said))] /\ Other(x) \in Sides /\ Other(x) # x
  BY DEF IInv, ConnOK, Other, Sides
<1>1. net' = [net EXCEPT ![x] = SubSeq(net[x], k + 1, Len(net[x]))] /\ peer' = peer
  BY DEF Take
<1>2. Len(a) \in Nat /\ Len(b) \in Nat /\ Len(a \o b) = Len(a) + Len(b)
  BY ConcatProperties
<1>3. SubSeq(a \o b, 1, Len(a)) = a
  BY ConcatProperties
<1>4. SubSeq(a \o b, Len(a) + 1, Len(a) + Len(b)) = b
  BY ConcatProperties
<1> QED BY <1>0, <1>1, <1>2, <1>3, <1>4 DEF Got

\* Taking a message leaves nothing.
LEMMA TakesAll ==
  ASSUME IInv, NEW x \in Sides, NEW a \in Seq(Units(Said)), net[x] = a, Take(x, Len(a))
  PROVE  /\ net'[x] = <<>> /\ Got(x, Len(a)) = a /\ peer' = peer
         /\ net'[Other(x)] = net[Other(x)]
<1> DEFINE k == Len(a)
<1>0. net \in [Sides -> Seq(Units(Said))] /\ Other(x) \in Sides /\ Other(x) # x
  BY DEF IInv, ConnOK, Other, Sides
<1>1. net' = [net EXCEPT ![x] = SubSeq(net[x], k + 1, Len(net[x]))] /\ peer' = peer
  BY DEF Take
<1>2. Len(a) \in Nat /\ SubSeq(a, 1, Len(a)) = a /\ SubSeq(a, Len(a) + 1, Len(a)) = <<>>
  OBVIOUS
<1> QED BY <1>0, <1>1, <1>2 DEF Got

\* A write to an open connection arrives.
LEMMA Arrives ==
  ASSUME IInv, NEW x \in Sides, peer[x] = "open", NEW units \in Seq(Units(Said)),
         NEW ok \in Points, NEW failed \in Points, Sends(x, units, ok, failed)
  PROVE  /\ net'[Other(x)] = net[Other(x)] \o units
         /\ net'[x] = net[x] /\ peer' = peer
         /\ pc'[x] = ok /\ pc'[Other(x)] = pc[Other(x)]
<1>1. Other(x) \in Sides /\ Other(x) # x
  BY DEF Sides, Other
<1>2. /\ net' = [net EXCEPT ![Other(x)] = net[Other(x)] \o units] /\ peer' = peer
      /\ pc' = [pc EXCEPT ![x] = ok]
  BY DEF Sends, Write, WriteFails
<1>3. net \in [Sides -> Seq(Units(Said))] /\ pc \in [Sides -> Points]
  BY DEF IInv, ConnOK, LocalOK
<1> QED BY <1>1, <1>2, <1>3

\* A read that ends without data has none waiting, from a peer that has gone.
LEMMA NoEnd ==
  ASSUME NEW x, NEW rc, ReadEnds(x, rc)
  PROVE  net[x] = <<>> /\ peer[x] # "open"
BY DEF ReadEnds

\* A whole body under the key agreed on is read as its text.
LEMMA Opened ==
  ASSUME NEW x \in Sides, key[x] = "agreed", NEW t \in Said
  PROVE  Decrypted(x, Body(t, "agreed")) = {t}
<1> DEFINE got == Body(t, "agreed")
<1>1. Len(got) = BodyLen /\ BodyLen \in Nat \ {0}
  BY LensAssumption, BodyLength
<1>2. Least(Len(got), BodyLen - 1 + 1) = BodyLen
  BY <1>1 DEF Least
<1>3. got[1].txt = t /\ got[1].kind = "body" /\ got[1].i = 1
  BY <1>1 DEF Body
<1> HIDE DEF got
<1>4. Body(t, "agreed") = got
  BY DEF got
<1>5. 1 + BodyLen - 1 = BodyLen /\ ~(1 > 1) /\ ~(BodyLen < BodyLen)
  BY <1>1
<1>6. Decrypted(x, got) = {t}
  BY <1>2, <1>3, <1>4, <1>5 DEF Decrypted
<1> QED BY <1>6 DEF got

\* The two sides, by name.
LEMMA BothSides ==
  "C" \in Sides /\ "S" \in Sides /\ "C" # "S" /\ Other("C") = "S" /\ Other("S") = "C"
BY DEF Sides, Other

\* The types that the steps below need.
LEMMA Typing ==
  ASSUME IInv
  PROVE  /\ net \in [Sides -> Seq(Units(Said))] /\ pc \in [Sides -> Points]
         /\ key \in [Sides -> Keys] /\ text \in [Sides -> Said] /\ want \in [Sides -> Nat]
         /\ login \in [Sides -> {"unknown", "yes", "no"}]
         /\ peer \in [Sides -> {"open", "fin", "resetting", "reset"}]
BY DEF IInv, LocalOK, ConnOK

\* The child sends its two messages.
LEMMA StepSrvSendHeader ==
  ASSUME IInv, InStep, Staying, SrvSendHeader
  PROVE  InStep'
<1>1. /\ pc["C"] = "hdr" /\ net["C"] = <<>> /\ net["S"] = <<>>
      /\ peer["C"] = "open" /\ peer["S"] = "open"
      /\ login["C"] = "unknown" /\ login["S"] = "unknown"
  <2>1. pc["S"] = "hdr"
    BY DEF SrvSendHeader
  <2>2. ~Asking /\ ~Answering /\ ~Idle
    BY <2>1 DEF Asking, Answering, Idle, Rests
  <2>3. Exchange /\ peer["C"] = "open" /\ peer["S"] = "open"
    BY <2>1, <2>2 DEF InStep, Staying, Parting
  <2> QED  BY <2>1, <2>3 DEF Exchange
<1>2. /\ net'["C"] = net["C"] \o Header /\ net'["S"] = net["S"] /\ peer' = peer
      /\ pc'["S"] = "params" /\ pc'["C"] = pc["C"]
  <2>1. Header \in Seq(Units(Said))
    BY Messages
  <2>2. Sends("S", Header, "params", "params")
    BY DEF SrvSendHeader
  <2>3. "params" \in Points
    BY DEF Points
  <2>4. "S" \in Sides /\ peer["S"] = "open"
    BY <1>1, BothSides
  <2>5. /\ net'[Other("S")] = net[Other("S")] \o Header
        /\ net'["S"] = net["S"] /\ peer' = peer
        /\ pc'["S"] = "params" /\ pc'[Other("S")] = pc[Other("S")]
    BY <2>1, <2>2, <2>3, <2>4, Arrives
  <2> QED  BY <2>5, BothSides
<1>3. net'["C"] = Header
  BY <1>1, <1>2 DEF Header, Pieces
<1>4. Staying' /\ Exchange'
  BY <1>1, <1>2, <1>3 DEF Staying, Exchange, SrvSendHeader
<1> QED BY <1>4 DEF InStep

\* The parameters join the header, or follow it when it has been read.
LEMMA StepSrvSendParams ==
  ASSUME IInv, InStep, Staying, SrvSendParams
  PROVE  InStep'
<1>1. /\ net["S"] = <<>> /\ peer["C"] = "open" /\ peer["S"] = "open"
      /\ login["C"] = "unknown" /\ login["S"] = "unknown"
      /\ \/ pc["C"] = "hdr" /\ net["C"] = Header
         \/ pc["C"] = "params" /\ net["C"] = <<>> /\ want["C"] = 3
  BY DEF SrvSendParams, InStep, Staying, Parting, Exchange, Asking, Answering, Idle, Rests
<1>2. /\ net'["C"] = net["C"] \o Params /\ net'["S"] = net["S"] /\ peer' = peer
      /\ pc'["S"] = "pub" /\ pc'["C"] = pc["C"]
  <2>1. Params \in Seq(Units(Said))
    BY Messages
  <2>2. Sends("S", Params, "pub", "pub")
    BY DEF SrvSendParams
  <2>3. "pub" \in Points
    BY DEF Points
  <2>4. "S" \in Sides /\ peer["S"] = "open"
    BY <1>1, BothSides
  <2>5. /\ net'[Other("S")] = net[Other("S")] \o Params
        /\ net'["S"] = net["S"] /\ peer' = peer
        /\ pc'["S"] = "pub" /\ pc'[Other("S")] = pc[Other("S")]
    BY <2>1, <2>2, <2>3, <2>4, Arrives
  <2> QED  BY <2>5, BothSides
<1>3. <<>> \o Params = Params
  BY DEF Params, Pieces
<1>4. Staying' /\ Exchange'
  BY <1>1, <1>2, <1>3 DEF Staying, Exchange, SrvSendParams
<1> QED BY <1>4 DEF InStep

\* The client reads the header, then the parameters, whole.
LEMMA StepCliReadHeader ==
  ASSUME IInv, InTime, InStep, Staying, CliReadHeader
  PROVE  InStep'
<1>1. /\ net["S"] = <<>> /\ peer["C"] = "open" /\ peer["S"] = "open"
      /\ login["C"] = "unknown" /\ login["S"] = "unknown"
      /\ \/ pc["S"] = "hdr" /\ net["C"] = <<>>
         \/ pc["S"] = "params" /\ net["C"] = Header
         \/ pc["S"] = "pub" /\ net["C"] = Header \o Params
  BY DEF CliReadHeader, InStep, Staying, Parting, Exchange, Asking, Answering, Idle, Rests
<1>2. PICK k \in Counts("C", 2) : /\ want' = [want EXCEPT !["C"] = IF k = 2 THEN 3 ELSE 2]
                                  /\ Take("C", k)
  BY <1>1, NoEnd DEF CliReadHeader
<1>3. net["C"] \in Seq(Units(Said)) /\ Header \in Seq(Units(Said)) /\ Params \in Seq(Units(Said))
  BY Typing, Messages, BothSides
<1>4. k = Least(2, Len(net["C"])) /\ k # 0
  BY <1>2, <1>3, Whole DEF InTime
<1>5. PICK m \in {<<>>, Params} : /\ net["C"] = Header \o m
                                  /\ \/ m = <<>> /\ pc["S"] = "params"
                                     \/ m = Params /\ pc["S"] = "pub"
  <2>1. Len(<<>>) = 0 /\ Least(2, 0) = 0 /\ Header \o <<>> = Header
    BY <1>3 DEF Least
  <2> QED BY <1>1, <1>4, <2>1
<1>6. m \in Seq(Units(Said)) /\ Len(m) \in Nat /\ Len(Header) = 2
  <2>1. <<>> \in Seq(Units(Said)) /\ Len(<<>>) \in Nat
    OBVIOUS
  <2>2. Len(Params) \in Nat /\ Len(Header) = 2
    BY MessageLengths
  <2> QED BY <1>3, <1>5, <2>1, <2>2
<1>7. Len(net["C"]) = 2 + Len(m)
  <2>1. Len(Header \o m) = Len(Header) + Len(m)
    <3> DEFINE U == Units(Said)
    <3>1. Header \in Seq(U) /\ m \in Seq(U)
      BY <1>3, <1>6
    <3> HIDE DEF U
    <3> QED BY <3>1, ConcatProperties
  <2> QED BY <1>5, <1>6, <2>1
<1>8. k = 2
  BY <1>4, <1>6, <1>7 DEF Least
<1>9. net'["C"] = m /\ peer' = peer /\ net'["S"] = net["S"]
  <2>1. Take("C", Len(Header))
    BY <1>2, <1>6, <1>8
  <2> QED  BY <1>3, <1>5, <1>6, <2>1, BothSides, TakesFirst
<1>10. want'["C"] = 3 /\ pc'["C"] = "params" /\ pc'["S"] = pc["S"]
  BY <1>2, <1>8, Typing, BothSides DEF CliReadHeader
<1>11. Staying' /\ Exchange'
  BY <1>1, <1>5, <1>9, <1>10 DEF Staying, Exchange, CliReadHeader
<1> QED BY <1>11 DEF InStep

\* The client has good parameters.
LEMMA StepCliReadParams ==
  ASSUME IInv, InTime, InStep, Staying, CliReadParams
  PROVE  InStep'
<1>1. /\ net["S"] = <<>> /\ peer["C"] = "open" /\ peer["S"] = "open"
      /\ login["C"] = "unknown" /\ login["S"] = "unknown" /\ want["C"] = 3
      /\ \/ pc["S"] = "params" /\ net["C"] = <<>>
         \/ pc["S"] = "pub" /\ net["C"] = Params
  BY DEF CliReadParams, InStep, Staying, Parting, Exchange, Asking, Answering, Idle, Rests
<1>2. PICK k \in Counts("C", 3) : params' \in ParamsOf(Got("C", k)) /\ Take("C", k)
  BY <1>1, NoEnd DEF CliReadParams
<1>3. net["C"] \in Seq(Units(Said)) /\ Params \in Seq(Units(Said)) /\ Len(Params) = 3
  BY Typing, Messages, BothSides, MessageLengths
<1>4. k = Least(3, Len(net["C"])) /\ k # 0
  BY <1>2, <1>3, Whole DEF InTime
<1>5. pc["S"] = "pub" /\ net["C"] = Params
  <2>1. Len(<<>>) = 0 /\ Least(3, 0) = 0
    BY DEF Least
  <2> QED BY <1>1, <1>4, <2>1
<1>6. k = 3
  BY <1>3, <1>4, <1>5 DEF Least
<1>7. net'["C"] = <<>> /\ Got("C", k) = Params /\ peer' = peer /\ net'["S"] = net["S"]
  BY <1>2, <1>3, <1>5, <1>6, Typing, BothSides, TakesAll
<1>8. params' = "good"
  <2>1. Params = SubSeq(Params, 1, Len(Params))
    BY <1>3
  <2>2. ParamsOf(Params) = {"good"}
    BY <1>3, <2>1, MessageLengths DEF ParamsOf
  <2> QED BY <1>2, <1>7, <2>2
<1>9. pc'["C"] = "pub" /\ pc'["S"] = pc["S"]
  BY Typing, BothSides DEF CliReadParams
<1>10. Staying' /\ Exchange'
  BY <1>1, <1>5, <1>7, <1>8, <1>9 DEF Staying, Exchange, CliReadParams
<1> QED BY <1>10 DEF InStep

\* The public value goes out, and the credentials are next.
LEMMA StepCliSendPub ==
  ASSUME IInv, InStep, Staying, CliSendPub
  PROVE  InStep'
<1>1. /\ net["S"] = <<>> /\ peer["C"] = "open" /\ peer["S"] = "open"
      /\ login["C"] = "unknown" /\ login["S"] = "unknown" /\ params = "good"
      /\ pc["S"] = "pub" /\ net["C"] = <<>>
  BY DEF CliSendPub, InStep, Staying, Parting, Exchange, Asking, Answering, Idle, Rests
<1>2. Sends("C", Public, "wlen", "wlen")
  BY <1>1 DEF CliSendPub
<1>3. /\ net'["S"] = net["S"] \o Public /\ net'["C"] = net["C"] /\ peer' = peer
      /\ pc'["C"] = "wlen" /\ pc'["S"] = pc["S"]
  <2>1. Public \in Seq(Units(Said))
    BY Messages
  <2>2. Sends("C", Public, "wlen", "wlen")
    BY <1>2
  <2>3. "wlen" \in Points
    BY DEF Points
  <2>4. "C" \in Sides /\ peer["C"] = "open"
    BY <1>1, BothSides
  <2>5. /\ net'[Other("C")] = net[Other("C")] \o Public
        /\ net'["C"] = net["C"] /\ peer' = peer
        /\ pc'["C"] = "wlen" /\ pc'[Other("C")] = pc[Other("C")]
    BY <2>1, <2>2, <2>3, <2>4, Arrives
  <2> QED  BY <2>5, BothSides
<1>4. <<>> \o Public = Public
  BY LensAssumption DEF Public, Pieces
<1>5. key'["C"] = "agreed" /\ text'["C"] = typed /\ typed' = typed /\ login' = login
  BY <1>1, Typing, BothSides DEF CliSendPub
<1>6. Staying' /\ Exchange'
  BY <1>1, <1>3, <1>4, <1>5 DEF Staying, Exchange
<1> QED BY <1>6 DEF InStep

\* The child reads the public value and nothing behind it: both have the secret.
LEMMA StepSrvReadPub ==
  ASSUME IInv, InTime, InStep, Staying, SrvReadPub
  PROVE  InStep'
<1>1. /\ peer["C"] = "open" /\ peer["S"] = "open" /\ pc["S"] = "pub"
      /\ login["C"] = "unknown" /\ login["S"] = "unknown"
      /\ \/ net["S"] = <<>>
         \/ /\ net["S"] = Public /\ pc["C"] = "wlen" /\ net["C"] = <<>>
            /\ key["C"] = "agreed" /\ text["C"] = typed
  BY DEF SrvReadPub, InStep, Staying, Parting, Exchange, Asking, Answering, Idle, Rests
<1>2. PICK k \in Counts("S", PubRoom) :
          /\ key' = [key EXCEPT !["S"] =
                       IF Got("S", Least(k, PubLen)) = Public
                       THEN "agreed" ELSE "other"]
          /\ Take("S", k)
  BY <1>1, NoEnd DEF SrvReadPub
<1>3. net["S"] \in Seq(Units(Said)) /\ Public \in Seq(Units(Said)) /\ Len(Public) = PubLen
  BY Typing, Messages, BothSides, MessageLengths
<1>4. PubRoom \in Nat /\ PubLen \in Nat \ {0} /\ PubLen <= PubRoom
  BY LensAssumption DEF PubRoom
<1>5. k = Least(PubRoom, Len(net["S"])) /\ k # 0
  BY <1>2, <1>3, <1>4, Whole DEF InTime
<1>6. net["S"] # <<>>
  <2>1. Len(<<>>) = 0 /\ Least(PubRoom, 0) = 0
    BY <1>4 DEF Least
  <2> QED BY <1>5, <2>1
<1>7. /\ net["S"] = Public /\ pc["C"] = "wlen" /\ net["C"] = <<>>
      /\ key["C"] = "agreed" /\ text["C"] = typed
  BY <1>1, <1>6
<1>8. k = PubLen /\ Least(k, PubLen) = k
  BY <1>3, <1>4, <1>5, <1>7 DEF Least
<1>9. net'["S"] = <<>> /\ Got("S", k) = Public /\ peer' = peer /\ net'["C"] = net["C"]
  BY <1>2, <1>3, <1>7, <1>8, Typing, BothSides, TakesAll
<1>10. key'["S"] = "agreed" /\ key'["C"] = key["C"]
  BY <1>2, <1>8, <1>9, Typing, BothSides
<1>11. pc'["S"] = "rlen" /\ pc'["C"] = pc["C"]
  BY Typing, BothSides DEF SrvReadPub
<1>12. Staying' /\ Asking'
  BY <1>1, <1>7, <1>9, <1>10, <1>11 DEF Staying, Asking, Agreed, SrvReadPub
<1> QED BY <1>12 DEF InStep

\* The length byte of a frame is read as what it is.
LEMMA ReadsLength ==
  ASSUME IInv, NEW x \in Sides, ReadLen(x), NEW rest \in Seq(Units(Said)),
         \/ net[x] = <<>> /\ peer[x] = "open"
         \/ net[x] = LenByte \o rest
  PROVE  /\ net[x] # <<>> /\ net'[x] = rest /\ net'[Other(x)] = net[Other(x)] /\ peer' = peer
         /\ want'[x] = BodyLen /\ want'[Other(x)] = want[Other(x)] /\ text' = text
         /\ pc'[x] = "rbody" /\ pc'[Other(x)] = pc[Other(x)]
<1>1. /\ net[x] # <<>>
      /\ \E n \in Lengths(Head(net[x])) : want' = [want EXCEPT ![x] = n]
      /\ Take(x, 1)
      /\ pc' = [pc EXCEPT ![x] = "rbody"]
      /\ text' = text
  <2>1. CASE net[x] = <<>>
    <3>1. peer[x] = "open"
      <4>1. LenByte \in Seq(Units(Said)) /\ Len(LenByte) = 1
        BY Messages, MessageLengths
      <4>2. LenByte \o rest # <<>>
        <5> DEFINE U == Units(Said)
        <5>1. LenByte \in Seq(U) /\ rest \in Seq(U)
          BY <4>1
        <5> HIDE DEF U
        <5>2. Len(LenByte \o rest) = Len(LenByte) + Len(rest)
          BY <5>1, ConcatProperties
        <5>3. Len(rest) \in Nat
          BY <5>1
        <5> QED BY <4>1, <5>2, <5>3
      <4> QED BY <2>1, <4>2
    <3> QED BY <2>1, <3>1, NoEnd DEF ReadLen
  <2>2. CASE net[x] # <<>>
    BY <2>2, NoEnd DEF ReadLen
  <2> QED BY <2>1, <2>2
<1>2. net[x] = LenByte \o rest
  BY <1>1
<1>3. LenByte \in Seq(Units(Said)) /\ Len(LenByte) = 1
  BY Messages, MessageLengths
<1>4. net'[x] = rest /\ net'[Other(x)] = net[Other(x)] /\ peer' = peer
  <2>1. Take(x, Len(LenByte))
    BY <1>1, <1>3
  <2> QED BY <1>2, <1>3, <2>1, TakesFirst
<1>5. Lengths(Head(net[x])) = {BodyLen}
  <2>1. Head(LenByte \o rest) = LenByte[1]
    <3> DEFINE U == Units(Said)
    <3>1. LenByte \in Seq(U) /\ rest \in Seq(U)
      BY <1>3
    <3> HIDE DEF U
    <3>2. Head(LenByte \o rest) = (LenByte \o rest)[1] /\ (LenByte \o rest)[1] = LenByte[1]
      BY <1>3, <3>1, ConcatProperties
    <3> QED BY <3>2
  <2>2. LenByte[1].kind = "len"
    BY DEF LenByte, Pieces, Piece
  <2> QED BY <1>2, <2>1, <2>2 DEF Lengths
<1>6. want' = [want EXCEPT ![x] = BodyLen]
  BY <1>1, <1>5
<1>7. Other(x) \in Sides /\ Other(x) # x
  BY DEF Sides, Other
<1> QED BY <1>1, <1>4, <1>6, <1>7, Typing

\* The body of a frame is read whole, and as the text it is.
LEMMA ReadsText ==
  ASSUME IInv, InTime, NEW x \in Sides, ReadBody(x), key[x] = "agreed", want[x] = BodyLen,
         NEW t \in Said,
         \/ net[x] = <<>> /\ peer[x] = "open"
         \/ net[x] = Body(t, "agreed")
  PROVE  /\ net[x] # <<>> /\ net'[x] = <<>> /\ net'[Other(x)] = net[Other(x)] /\ peer' = peer
         /\ text'[x] = t /\ text'[Other(x)] = text[Other(x)]
         /\ pc'[x] = "decide" /\ pc'[Other(x)] = pc[Other(x)]
<1>1. BodyLen \in Nat \ {0} /\ want[x] # 0 /\ want[x] \in Nat
  BY LensAssumption
<1>2. Body(t, "agreed") \in Seq(Units(Said)) /\ Len(Body(t, "agreed")) = BodyLen
      /\ Body(t, "agreed") # <<>>
  BY Messages, BodyLength
<1>3. PICK k \in Counts(x, BodyLen) :
          /\ \E u \in Decrypted(x, Got(x, k)) : text' = [text EXCEPT ![x] = u]
          /\ pc' = [pc EXCEPT ![x] = AfterRead(x, k)]
          /\ Take(x, k)
  BY <1>1, <1>2, NoEnd DEF ReadBody
<1>4. net[x] \in Seq(Units(Said))
  BY Typing
<1>5. k = Least(BodyLen, Len(net[x])) /\ k # 0
  BY <1>1, <1>3, <1>4, Whole DEF InTime
<1>6. net[x] = Body(t, "agreed")
  <2>1. Len(<<>>) = 0 /\ Least(BodyLen, 0) = 0
    BY <1>1 DEF Least
  <2> QED BY <1>5, <2>1
<1>7. k = BodyLen
  BY <1>1, <1>2, <1>5, <1>6 DEF Least
<1>8. /\ net'[x] = <<>> /\ Got(x, k) = Body(t, "agreed") /\ peer' = peer
      /\ net'[Other(x)] = net[Other(x)]
  <2>1. Take(x, Len(Body(t, "agreed")))
    BY <1>2, <1>3, <1>7
  <2> QED BY <1>2, <1>6, <1>7, <2>1, TakesAll
<1>9. text' = [text EXCEPT ![x] = t]
  BY <1>3, <1>8, Opened
<1>10. AfterRead(x, k) = "decide"
  BY <1>1, <1>7 DEF AfterRead
<1>11. Other(x) \in Sides /\ Other(x) # x
  BY DEF Sides, Other
<1> QED BY <1>2, <1>3, <1>6, <1>8, <1>9, <1>10, <1>11, Typing

\* Concatenations that come up.
LEMMA Joined ==
  ASSUME IInv, NEW t \in Said
  PROVE  /\ LenByte \o <<>> = LenByte /\ <<>> \o LenByte = LenByte
         /\ <<>> \o Body(t, "agreed") = Body(t, "agreed")
         /\ <<>> \in Seq(Units(Said)) /\ Body(t, "agreed") \in Seq(Units(Said))
         /\ LenByte \in Seq(Units(Said))
<1>1. LenByte \in Seq(Units(Said)) /\ Body(t, "agreed") \in Seq(Units(Said))
  BY Messages
<1> QED BY <1>1

\* The child reads the length of the client's frame.
LEMMA StepReadLenS ==
  ASSUME IInv, InStep, Staying, ReadLen("S")
  PROVE  InStep'
<1>1. /\ peer["S"] = "open" /\ peer["C"] = "open" /\ Agreed /\ pc["S"] = "rlen"
      /\ \/ net["S"] = <<>>
         \/ Asking /\ pc["C"] = "wbody" /\ net["S"] = LenByte
         \/ Asking /\ pc["C"] = "rlen" /\ net["S"] = Frame(text["C"])
  BY DEF ReadLen, InStep, Staying, Parting, Exchange, Asking, Answering, Idle, Rests
<1>2. text["C"] \in Said
  BY Typing, BothSides
<1>3. PICK m \in {<<>>, Body(text["C"], "agreed")} :
        \/ net["S"] = <<>>
        \/ /\ net["S"] = LenByte \o m /\ Asking
           /\ \/ pc["C"] = "wbody" /\ m = <<>>
              \/ pc["C"] = "rlen" /\ m = Body(text["C"], "agreed")
  BY <1>1, <1>2, Joined DEF Frame
<1>4. m \in Seq(Units(Said))
  BY <1>2, <1>3, Joined
<1>5. /\ net["S"] # <<>> /\ net'["S"] = m /\ net'["C"] = net["C"] /\ peer' = peer
      /\ want'["S"] = BodyLen /\ want'["C"] = want["C"] /\ text' = text
      /\ pc'["S"] = "rbody" /\ pc'["C"] = pc["C"]
  BY <1>1, <1>3, <1>4, BothSides, ReadsLength
<1>6. Asking' /\ Staying'
  BY <1>1, <1>3, <1>5 DEF ReadLen, Asking, Staying, Agreed
<1> QED BY <1>6 DEF InStep

\* The child reads the client's text.
LEMMA StepReadBodyS ==
  ASSUME IInv, InTime, InStep, Staying, ReadBody("S")
  PROVE  InStep'
<1>1. /\ peer["S"] = "open" /\ peer["C"] = "open" /\ Agreed /\ pc["S"] = "rbody"
      /\ want["S"] = BodyLen /\ Asking
      /\ \/ net["S"] = <<>>
         \/ pc["C"] = "rlen" /\ net["S"] = Body(text["C"], "agreed")
  BY DEF ReadBody, InStep, Staying, Parting, Exchange, Asking, Answering, Idle, Rests
<1>2. text["C"] \in Said
  BY Typing, BothSides
<1>3. key["S"] = "agreed"
  BY <1>1 DEF Agreed
<1>4. /\ net["S"] # <<>> /\ net'["S"] = <<>> /\ net'["C"] = net["C"] /\ peer' = peer
      /\ text'["S"] = text["C"] /\ text'["C"] = text["C"]
      /\ pc'["S"] = "decide" /\ pc'["C"] = pc["C"]
  BY <1>1, <1>2, <1>3, BothSides, ReadsText
<1>5. Asking' /\ Staying'
  BY <1>1, <1>4 DEF ReadBody, Asking, Staying, Agreed
<1> QED BY <1>5 DEF InStep

\* The client reads the length of the child's frame.
LEMMA StepReadLenC ==
  ASSUME IInv, InStep, Staying, ReadLen("C")
  PROVE  InStep'
<1>1. /\ peer["S"] = "open" /\ Agreed /\ pc["C"] = "rlen"
      /\ \/ net["C"] = <<>> /\ peer["C"] = "open"
         \/ Answering /\ pc["S"] = "wbody" /\ net["C"] = LenByte
         \/ Answering /\ pc["S"] \in Rests /\ net["C"] = Frame(text["S"])
  BY DEF ReadLen, InStep, Staying, Parting, Exchange, Asking, Answering, Idle
<1>2. text["S"] \in Said
  BY Typing, BothSides
<1>3. PICK m \in {<<>>, Body(text["S"], "agreed")} :
        \/ net["C"] = <<>> /\ peer["C"] = "open"
        \/ /\ net["C"] = LenByte \o m /\ Answering
           /\ \/ pc["S"] = "wbody" /\ m = <<>>
              \/ pc["S"] \in Rests /\ m = Body(text["S"], "agreed")
  BY <1>1, <1>2, Joined DEF Frame
<1>4. m \in Seq(Units(Said))
  BY <1>2, <1>3, Joined
<1>5. /\ net["C"] # <<>> /\ net'["C"] = m /\ net'["S"] = net["S"] /\ peer' = peer
      /\ want'["C"] = BodyLen /\ want'["S"] = want["S"] /\ text' = text
      /\ pc'["C"] = "rbody" /\ pc'["S"] = pc["S"]
  BY <1>1, <1>3, <1>4, BothSides, ReadsLength
<1>6. Answering' /\ Staying'
  BY <1>1, <1>3, <1>5 DEF ReadLen, Answering, Staying, Agreed, Rests
<1> QED BY <1>6 DEF InStep

\* The client reads the child's text.
LEMMA StepReadBodyC ==
  ASSUME IInv, InTime, InStep, Staying, ReadBody("C")
  PROVE  InStep'
<1>1. /\ peer["S"] = "open" /\ Agreed /\ pc["C"] = "rbody"
      /\ want["C"] = BodyLen /\ Answering
      /\ \/ net["C"] = <<>> /\ peer["C"] = "open"
         \/ pc["S"] \in Rests /\ net["C"] = Body(text["S"], "agreed")
  BY DEF ReadBody, InStep, Staying, Parting, Exchange, Asking, Answering, Idle
<1>2. text["S"] \in Said
  BY Typing, BothSides
<1>3. key["C"] = "agreed"
  BY <1>1 DEF Agreed
<1>4. /\ net["C"] # <<>> /\ net'["C"] = <<>> /\ net'["S"] = net["S"] /\ peer' = peer
      /\ text'["C"] = text["S"] /\ text'["S"] = text["S"]
      /\ pc'["C"] = "decide" /\ pc'["S"] = pc["S"]
  BY <1>1, <1>2, <1>3, BothSides, ReadsText
<1>5. Answering' /\ Staying'
  BY <1>1, <1>4 DEF ReadBody, Answering, Staying, Agreed, Rests
<1> QED BY <1>5 DEF InStep

\* The length of the child's frame goes out.
LEMMA StepWriteLenS ==
  ASSUME IInv, InStep, Staying, WriteLen("S")
  PROVE  InStep'
<1>1. /\ peer["S"] = "open" /\ peer["C"] = "open" /\ Answering
      /\ pc["S"] = "wlen" /\ pc["C"] = "rlen" /\ net["C"] = <<>> /\ net["S"] = <<>>
  BY DEF WriteLen, InStep, Staying, Parting, Exchange, Asking, Answering, Idle, Rests
<1>2. AfterWrite("S") \in Points /\ "wbody" \in Points
  BY DEF AfterWrite, Points
<1>3. /\ net'["C"] = net["C"] \o LenByte /\ net'["S"] = net["S"] /\ peer' = peer
      /\ pc'["S"] = "wbody" /\ pc'["C"] = pc["C"]
  <2>1. LenByte \in Seq(Units(Said))
    BY Messages
  <2>2. Sends("S", LenByte, "wbody", AfterWrite("S"))
    BY DEF WriteLen
  <2>3. "wbody" \in Points /\ AfterWrite("S") \in Points
    BY <1>2
  <2>4. "S" \in Sides /\ peer["S"] = "open"
    BY <1>1, BothSides
  <2>5. /\ net'[Other("S")] = net[Other("S")] \o LenByte
        /\ net'["S"] = net["S"] /\ peer' = peer
        /\ pc'["S"] = "wbody" /\ pc'[Other("S")] = pc[Other("S")]
    BY <2>1, <2>2, <2>3, <2>4, Arrives
  <2> QED  BY <2>5, BothSides
<1>4. <<>> \o LenByte = LenByte
  BY DEF LenByte, Pieces
<1>5. Answering' /\ Staying'
  BY <1>1, <1>3, <1>4 DEF WriteLen, Answering, Agreed, Staying
<1> QED BY <1>5 DEF InStep

\* The length of the client's frame goes out, once the public value is read.
LEMMA StepWriteLenC ==
  ASSUME IInv, InTime, InStep, Staying, WriteLen("C")
  PROVE  InStep'
<1>1. /\ peer["S"] = "open" /\ peer["C"] = "open" /\ Asking
      /\ pc["S"] = "rlen" /\ pc["C"] = "wlen" /\ net["C"] = <<>> /\ net["S"] = <<>>
  BY DEF WriteLen, InTime, InStep, Staying, Parting, Exchange, Asking, Answering, Idle
<1>2. AfterWrite("C") \in Points /\ "wbody" \in Points
  BY DEF AfterWrite, Points
<1>3. /\ net'["S"] = net["S"] \o LenByte /\ net'["C"] = net["C"] /\ peer' = peer
      /\ pc'["C"] = "wbody" /\ pc'["S"] = pc["S"]
  <2>1. LenByte \in Seq(Units(Said))
    BY Messages
  <2>2. Sends("C", LenByte, "wbody", AfterWrite("C"))
    BY DEF WriteLen
  <2>3. "wbody" \in Points /\ AfterWrite("C") \in Points
    BY <1>2
  <2>4. "C" \in Sides /\ peer["C"] = "open"
    BY <1>1, BothSides
  <2>5. /\ net'[Other("C")] = net[Other("C")] \o LenByte
        /\ net'["C"] = net["C"] /\ peer' = peer
        /\ pc'["C"] = "wbody" /\ pc'[Other("C")] = pc[Other("C")]
    BY <2>1, <2>2, <2>3, <2>4, Arrives
  <2> QED  BY <2>5, BothSides
<1>4. <<>> \o LenByte = LenByte
  BY DEF LenByte, Pieces
<1>5. Asking' /\ Staying'
  BY <1>1, <1>3, <1>4 DEF WriteLen, Asking, Agreed, Staying
<1> QED BY <1>5 DEF InStep

\* The child's text goes out; it then waits for the next, or leaves.
LEMMA StepWriteBodyS ==
  ASSUME IInv, InStep, Staying, WriteBody("S")
  PROVE  InStep'
<1>1. /\ peer["S"] = "open" /\ peer["C"] = "open" /\ Answering /\ key["S"] = "agreed"
      /\ pc["S"] = "wbody"
      /\ \/ pc["C"] = "rlen" /\ net["C"] = LenByte
         \/ pc["C"] = "rbody" /\ net["C"] = <<>> /\ want["C"] = BodyLen
  BY DEF WriteBody, InStep, Staying, Parting, Exchange, Asking, Answering, Idle, Rests, Agreed
<1>2. AfterWrite("S") \in Points /\ AfterWrite("S") \in Rests /\ text["S"] \in Said
  BY Typing, BothSides DEF AfterWrite, Points, Rests
<1>3. Body(text["S"], "agreed") \in Seq(Units(Said))
  BY <1>2, Joined
<1>4. Sends("S", Body(text["S"], "agreed"), AfterWrite("S"), AfterWrite("S"))
  BY <1>1 DEF WriteBody
<1>5. /\ net'["C"] = net["C"] \o Body(text["S"], "agreed") /\ net'["S"] = net["S"]
      /\ peer' = peer /\ pc'["S"] = AfterWrite("S") /\ pc'["C"] = pc["C"]
  BY <1>1, <1>2, <1>3, <1>4, BothSides, Arrives
<1>6. <<>> \o Body(text["S"], "agreed") = Body(text["S"], "agreed")
  BY <1>2, Joined
<1>7. Rests' = Rests
  BY DEF WriteBody, Rests
<1>8. Answering'
  BY <1>1, <1>2, <1>5, <1>6, <1>7 DEF WriteBody, Answering, Agreed, Frame
<1>9. Staying'
  BY <1>1, <1>5 DEF Staying
<1> QED BY <1>8, <1>9 DEF InStep

\* The client's text goes out; a client that said "exit" leaves.
LEMMA StepWriteBodyC ==
  ASSUME IInv, InStep, Staying, WriteBody("C")
  PROVE  InStep'
<1>1. /\ peer["S"] = "open" /\ peer["C"] = "open" /\ Asking /\ key["C"] = "agreed"
      /\ pc["C"] = "wbody" /\ login["C"] = login["S"]
      /\ \/ pc["S"] = "rlen" /\ net["S"] = LenByte
         \/ pc["S"] = "rbody" /\ net["S"] = <<>> /\ want["S"] = BodyLen
  BY DEF WriteBody, InStep, Staying, Parting, Exchange, Asking, Answering, Idle, Agreed
<1>2. AfterWrite("C") \in Points /\ text["C"] \in Said
  BY Typing, BothSides DEF AfterWrite, Points
<1>3. Body(text["C"], "agreed") \in Seq(Units(Said))
  BY <1>2, Joined
<1>4. Sends("C", Body(text["C"], "agreed"), AfterWrite("C"), AfterWrite("C"))
  BY <1>1 DEF WriteBody
<1>5. /\ net'["S"] = net["S"] \o Body(text["C"], "agreed") /\ net'["C"] = net["C"]
      /\ peer' = peer /\ pc'["C"] = AfterWrite("C") /\ pc'["S"] = pc["S"]
  BY <1>1, <1>2, <1>3, <1>4, BothSides, Arrives
<1>6. <<>> \o Body(text["C"], "agreed") = Body(text["C"], "agreed")
  BY <1>2, Joined
<1>7. CASE text["C"] = "exit"
  <2>1. login["C"] = "yes" /\ asked = "exit"
    BY <1>1, <1>7, TextsAssumption DEF Asking, IInv, LocalOK
  <2>2. Parting'
    BY <1>1, <1>5, <1>7, <2>1 DEF Parting, WriteBody, AfterWrite
  <2> QED BY <2>2 DEF InStep
<1>8. CASE text["C"] # "exit"
  <2>1. pc'["C"] = "rlen"
    BY <1>5, <1>8 DEF AfterWrite
  <2>2. Asking'
    BY <1>1, <1>5, <1>6, <2>1 DEF WriteBody, Asking, Agreed, Frame
  <2>3. Staying'
    BY <1>1, <1>5, <2>1 DEF Staying
  <2> QED BY <2>2, <2>3 DEF InStep
<1> QED BY <1>7, <1>8

\* The child closes its end after a refusal, and is done.
LEMMA StepCloseS ==
  ASSUME IInv, InStep, Staying, Close("S")
  PROVE  InStep'
<1>1. /\ peer["S"] = "open" /\ peer["C"] = "open" /\ Answering
      /\ pc["S"] = "close" /\ login["S"] = "no" /\ net["S"] = <<>>
  BY DEF Close, InStep, Staying, Parting, Exchange, Asking, Answering, Idle, Rests
<1>2. /\ pc'["S"] = "done" /\ pc'["C"] = pc["C"] /\ peer'["S"] = peer["S"]
      /\ net'["S"] = <<>> /\ net'["C"] = net["C"]
  BY <1>1, Typing, BothSides DEF Close, Ends, Hangup
<1>3. Answering'
  BY <1>1, <1>2 DEF Close, Answering, Agreed, Rests
<1>4. Staying'
  BY <1>1, <1>2 DEF Staying
<1> QED BY <1>3, <1>4 DEF InStep

\* The child decides by the credentials the person typed.
LEMMA StepSrvAuth ==
  ASSUME IInv, InStep, Staying, SrvAuth
  PROVE  InStep'
<1>1. /\ Asking /\ pc["S"] = "decide" /\ pc["C"] = "rlen" /\ net["S"] = <<>>
      /\ net["C"] = <<>> /\ text["S"] = typed /\ login["C"] = "unknown"
  BY DEF SrvAuth, InStep, Staying, Parting, Exchange, Asking, Answering, Idle, Rests
<1>2. pc'["S"] = "wlen" /\ pc'["C"] = pc["C"] /\ login'["C"] = login["C"]
  BY Typing, BothSides DEF SrvAuth
<1>3. \/ typed \in ValidCreds /\ login'["S"] = "yes" /\ text'["S"] = "1"
      \/ typed \notin ValidCreds /\ login'["S"] = "no" /\ text'["S"] = "0"
  BY <1>1, Typing, BothSides DEF SrvAuth
<1>4. Answering'
  BY <1>1, <1>2, <1>3 DEF SrvAuth, Asking, Answering, Agreed
<1>5. Staying'
  BY <1>1, <1>2 DEF SrvAuth, Staying
<1> QED BY <1>4, <1>5 DEF InStep

\* The child sends back the line; it is not "exit", whose writer waits for nothing.
LEMMA StepSrvEcho ==
  ASSUME IInv, InStep, Staying, SrvEcho
  PROVE  InStep'
<1>1. /\ Asking /\ pc["S"] = "decide" /\ pc["C"] = "rlen" /\ net["S"] = <<>>
      /\ net["C"] = <<>> /\ text["S"] = asked /\ login["C"] = "yes" /\ login["S"] = "yes"
      /\ asked \in Lines \cup {"exit"}
  BY DEF SrvEcho, InStep, Staying, Parting, Exchange, Asking, Answering, Idle, Rests
<1>2. asked # "exit"
  BY <1>1 DEF IInv, LastWord
<1>3. pc'["S"] = "wlen" /\ pc'["C"] = pc["C"]
  BY <1>1, <1>2, Typing, BothSides DEF SrvEcho
<1>4. Answering'
  BY <1>1, <1>2, <1>3 DEF SrvEcho, Asking, Answering, Agreed
<1>5. Staying'
  BY <1>1, <1>3 DEF SrvEcho, Staying
<1> QED BY <1>4, <1>5 DEF InStep

\* The client follows the child's decision.
LEMMA StepCliAuthenticated ==
  ASSUME IInv, InStep, Staying, CliAuthenticated
  PROVE  InStep'
<1>1. /\ Agreed /\ net["S"] = <<>> /\ net["C"] = <<>> /\ pc["S"] \in Rests
      /\ \/ login["S"] = "yes" /\ text["C"] = "1"
         \/ login["S"] = "no" /\ text["C"] = "0"
  BY DEF CliAuthenticated, InStep, Staying, Parting, Exchange, Asking, Answering, Idle
<1>2. CASE login["S"] = "yes" /\ text["C"] = "1"
  <2>1. text["C"] \notin {"0", Garbage}
    BY <1>2, TextsAssumption
  <2>2. /\ login'["C"] = "yes" /\ login'["S"] = "yes" /\ pc'["C"] = "prompt"
        /\ pc'["S"] = pc["S"]
    BY <1>2, <2>1, Typing, BothSides DEF CliAuthenticated
  <2>3. Idle' /\ Staying'
    BY <1>1, <1>2, <2>2 DEF CliAuthenticated, Idle, Agreed, Staying, Rests
  <2> QED BY <2>3 DEF InStep
<1>3. CASE login["S"] = "no" /\ text["C"] = "0"
  <2>1. login'["C"] = "no" /\ pc'["C"] = "close"
    BY <1>3, Typing, BothSides DEF CliAuthenticated
  <2>2. Parting'
    BY <2>1 DEF Parting
  <2> QED BY <2>2 DEF InStep
<1> QED BY <1>1, <1>2, <1>3

\* The client shows the line that was asked.
LEMMA StepCliShow ==
  ASSUME IInv, InStep, Staying, CliShow
  PROVE  InStep' /\ text["C"] = asked
<1>1. /\ Agreed /\ net["S"] = <<>> /\ net["C"] = <<>> /\ pc["S"] = "rlen"
      /\ login["C"] = "yes" /\ login["S"] = "yes" /\ text["C"] = asked
  BY DEF CliShow, InStep, Staying, Parting, Exchange, Asking, Answering, Idle, Rests
<1>2. pc'["C"] = "prompt" /\ pc'["S"] = pc["S"]
  BY Typing, BothSides DEF CliShow
<1>3. Idle' /\ Staying'
  BY <1>1, <1>2 DEF CliShow, Idle, Agreed, Staying
<1> QED BY <1>1, <1>3 DEF InStep

\* The person's line is what the client sends next.
LEMMA StepCliPrompt ==
  ASSUME IInv, InStep, Staying, CliPrompt
  PROVE  InStep'
<1>1. Idle /\ Staying
  BY DEF CliPrompt, InStep, Staying, Parting, Exchange, Asking, Answering, Idle
<1>2. /\ pc'["C"] = "wlen" /\ pc'["S"] = pc["S"] /\ text'["C"] = asked'
      /\ asked' \in Lines \cup {"exit"}
  BY Typing, BothSides DEF CliPrompt
<1>3. Asking' /\ Staying'
  BY <1>1, <1>2 DEF CliPrompt, Idle, Asking, Agreed, Staying
<1> QED BY <1>3 DEF InStep

\* The client is killed.
LEMMA StepKillOne ==
  ASSUME IInv, InTime, InStep, Staying, NEW x \in Sides, KillOne(x)
  PROVE  InStep' /\ x = "C"
<1>1. x = "C"
  BY DEF Sides, KillOne, InTime
<1>2. login["C"] = "yes" => login["S"] = "yes"
  BY DEF InStep, Parting, Exchange, Asking, Answering, Idle
<1>3. pc'["C"] = "done" /\ login' = login
  BY <1>1, Typing, BothSides DEF KillOne, Ends
<1>4. Parting'
  BY <1>2, <1>3 DEF Parting
<1> QED BY <1>1, <1>4 DEF InStep

\* A client in the session learns of the end of the child only after the
\* child has left, its answer behind it.
LEMMA StepReset ==
  ASSUME IInv, InStep, Staying, NEW x \in Sides, Reset(x)
  PROVE  InStep'
<1>1. x = "C" /\ pc["S"] = "done"
  BY DEF Sides, Reset, Staying
<1>2. Answering
  BY <1>1 DEF InStep, Staying, Parting, Exchange, Asking, Answering, Idle
<1>3. peer'["S"] = peer["S"]
  BY <1>1, Typing, BothSides DEF Reset
<1>4. Answering'
  BY <1>2 DEF Reset, Answering, Agreed, Rests
<1>5. Staying'
  BY <1>1, <1>3 DEF Reset, Staying
<1> QED BY <1>4, <1>5 DEF InStep

\* The end of the accepting process shows only after that of the child.
LEMMA StepKillParent ==
  ASSUME IInv, InStep, Staying, KillParent
  PROVE  InStep'
<1>1. CASE pc["S"] = "done"
  <2>1. Answering
    BY <1>1 DEF InStep, Staying, Parting, Exchange, Asking, Answering, Idle
  <2>2. net'["S"] = <<>> /\ net'["C"] = net["C"] /\ peer'["S"] = peer["S"]
    BY <1>1, Typing, BothSides DEF KillParent, Hangup
  <2>3. Answering'
    BY <2>1, <2>2 DEF KillParent, Answering, Agreed, Rests
  <2>4. Staying'
    BY <1>1, <2>2 DEF KillParent, Staying
  <2> QED BY <2>3, <2>4 DEF InStep
<1>2. CASE pc["S"] # "done"
  <2>1. UNCHANGED <<net, peer, pc, key, text, want, params, typed, login, asked>>
    BY <1>2 DEF KillParent
  <2>2. UNCHANGED <<Exchange, Asking, Answering, Idle, Staying>>
    BY <2>1 DEF Exchange, Asking, Answering, Idle, Staying, Agreed, Rests
  <2> QED BY <2>2 DEF InStep, Staying, Parting
<1> QED BY <1>1, <1>2

\* A step of the child leaves the client's variables alone, and takes back no login.
LEMMA ChildSteps ==
  ASSUME IInv, Child
  PROVE  /\ pc'["C"] = pc["C"] /\ login'["C"] = login["C"]
         /\ login["S"] = "yes" => login'["S"] = "yes"
         /\ UNCHANGED <<typed, asked, shown>>
<1>1. CASE SrvSendHeader \/ SrvSendParams
  BY <1>1, Typing, BothSides DEF SrvSendHeader, SrvSendParams, Sends, Ends
<1>2. CASE SrvReadPub
  BY <1>2, Typing, BothSides DEF SrvReadPub
<1>3. CASE SrvAuth \/ SrvEcho
  BY <1>3, Typing, BothSides DEF SrvAuth, SrvEcho
<1>4. CASE WriteLen("S") \/ WriteBody("S") \/ Close("S")
  BY <1>4, Typing, BothSides DEF WriteLen, WriteBody, Close, Sends, Ends
<1>5. CASE ReadLen("S") \/ ReadBody("S")
  BY <1>5, Typing, BothSides DEF ReadLen, ReadBody
<1> QED BY <1>1, <1>2, <1>3, <1>4, <1>5 DEF Child, Framing

\* A client that is leaving does nothing but leave.
LEMMA LeavingSteps ==
  ASSUME IInv, Next, pc["C"] \in {"close", "done"}
  PROVE  /\ pc'["C"] = pc["C"] \/ pc'["C"] = "done"
         /\ login'["C"] = login["C"]
         /\ login["S"] = "yes" => login'["S"] = "yes"
         /\ UNCHANGED <<typed, asked, shown>>
<1>1. CASE Child
  BY <1>1, ChildSteps
<1>2. CASE Client \/ CliPrompt
  <2>1. Close("C")
    BY <1>2 DEF Client, CliPrompt, Framing, CliReadHeader, CliReadParams, CliSendPub,
                CliAuthenticated, CliShow, WriteLen, WriteBody, ReadLen, ReadBody
  <2> QED BY <2>1, Typing, BothSides DEF Close, Ends
<1>3. ASSUME NEW x \in Sides, Reset(x) \/ KillOne(x)
      PROVE  /\ pc'["C"] = pc["C"] \/ pc'["C"] = "done"
             /\ UNCHANGED <<login, typed, asked, shown>>
  BY <1>3, Typing, BothSides DEF Reset, KillOne, Ends
<1>4. CASE KillParent
  BY <1>4 DEF KillParent
<1> QED BY <1>1, <1>2, <1>3, <1>4 DEF Next

\* A client that is leaving leaves.
LEMMA StepParted ==
  ASSUME IInv, InStep, Next, pc["C"] \in {"close", "done"}
  PROVE  InStep'
<1>1. Parting
  BY DEF InStep, Staying
<1>2. Parting'
  BY <1>1, LeavingSteps DEF Parting
<1> QED BY <1>2 DEF InStep

\* The programs start in step.
LEMMA InitInStep == Init => InStep
<1> SUFFICES ASSUME Init PROVE InStep
  OBVIOUS
<1>1. Staying /\ Exchange
  BY BothSides DEF Init, Staying, Exchange
<1> QED BY <1>1 DEF InStep

\* Every step of a session in time keeps it in step.
LEMMA NextInStep ==
  ASSUME InTime, IInv, InStep, [Next]_vars
  PROVE  InStep'
<1>1. CASE UNCHANGED vars
  <2>1. UNCHANGED <<Exchange, Asking, Answering, Idle, Staying, Parting>>
    BY <1>1 DEF vars, Exchange, Asking, Answering, Idle, Staying, Parting, Agreed, Rests
  <2> QED BY <2>1 DEF InStep
<1>2. CASE Next /\ pc["C"] \in {"close", "done"}
  BY <1>2, StepParted
<1>3. CASE Next /\ pc["C"] \notin {"close", "done"}
  <2>0. Staying
    BY <1>3 DEF InStep, Parting
  <2>1. CASE Child
    BY <2>0, <2>1, StepSrvSendHeader, StepSrvSendParams, StepSrvReadPub, StepSrvAuth,
       StepSrvEcho, StepWriteLenS, StepWriteBodyS, StepReadLenS, StepReadBodyS, StepCloseS
       DEF Child, Framing
  <2>2. CASE Client
    <3>1. ~Close("C")
      BY <1>3 DEF Close
    <3> QED BY <2>0, <2>2, <3>1, StepCliReadHeader, StepCliReadParams, StepCliSendPub,
               StepCliAuthenticated, StepCliShow, StepWriteLenC, StepWriteBodyC,
               StepReadLenC, StepReadBodyC DEF Client, Framing
  <2>3. CASE CliPrompt
    BY <2>0, <2>3, StepCliPrompt
  <2>4. ASSUME NEW x \in Sides, Reset(x) \/ KillOne(x) PROVE InStep'
    BY <2>0, <2>4, StepReset, StepKillOne
  <2>5. CASE KillParent
    BY <2>0, <2>5, StepKillParent
  <2> QED BY <1>3, <2>1, <2>2, <2>3, <2>4, <2>5 DEF Next
<1> QED BY <1>1, <1>2, <1>3

\* A session in time is in step in every state.
LEMMA InStepInductive ==
  ASSUME InTime
  PROVE  Spec => []InStep
<1>1. IInv /\ InStep /\ [Next]_vars => InStep'
  BY NextInStep
<1> QED BY <1>1, InitInStep, Inductive, PTL DEF Spec

\* When reads return what was written, the child reads the public value before
\* the client's first frame and nobody kills the child, a client tells its
\* user of a login only after the child accepted it, for every set of
\* credentials and lines, every frame length, and whoever else dies.
THEOREM LoginsAgree ==
  ASSUME InTime
  PROVE  Spec => []LoginAgreement
<1>1. InStep => LoginAgreement
  BY DEF InStep, LoginAgreement, Parting, Exchange, Asking, Answering, Idle
<1> QED BY <1>1, InStepInductive, PTL

-----------------------------------------------------------------------------
(* The echo service.                                                        *)

Seen == <<typed, status, question, shown>>

\* The service's definitions, in the session's terms.
LEMMA UnfoldService ==
  /\ Service!Init <=> /\ typed \in Creds /\ status = "connecting"
                      /\ question = NoText /\ shown = NoText
  /\ Service!Decide <=> /\ status = "connecting"
                        /\ status' = IF typed \in ValidCreds THEN "granted" ELSE "refused"
                        /\ UNCHANGED <<typed, question, shown>>
  /\ Service!Ask <=> /\ status = "granted" /\ question = NoText
                     /\ question' \in Lines /\ shown' = NoText
                     /\ UNCHANGED <<typed, status>>
  /\ Service!Answer <=> /\ status = "granted" /\ question # NoText
                        /\ shown' = question /\ question' = NoText
                        /\ UNCHANGED <<typed, status>>
  /\ Service!Leave <=> /\ status \in {"connecting", "granted"}
                       /\ status' = "gone" /\ question' = NoText
                       /\ shown' \in {shown, NoText} /\ typed' = typed
  /\ Service!Next <=> Service!Decide \/ Service!Ask \/ Service!Answer \/ Service!Leave
  /\ Service!vars = Seen
BY DEF Service!Init, Service!Decide, Service!Ask, Service!Answer, Service!Leave,
       Service!Next, Service!vars, Seen

\* At the terminal nothing shows but the prompt, the login and the end.
LEMMA Unseen ==
  ASSUME UNCHANGED <<typed, asked, shown>>, login'["C"] = login["C"],
         \/ pc'["C"] = pc["C"]
         \/ pc["C"] \notin {"prompt", "done"} /\ pc'["C"] \notin {"prompt", "done"}
  PROVE  UNCHANGED Seen
BY DEF Seen, status, question

\* The end of a client that was already leaving does not show either.
LEMMA UnseenEnd ==
  ASSUME UNCHANGED <<typed, asked, shown>>, login'["C"] = login["C"],
         pc["C"] \in {"close", "done"}, pc'["C"] \in {pc["C"], "done"}, Parting
  PROVE  UNCHANGED Seen
BY DEF Seen, status, question, Parting

\* A frame or a message of the client goes out, or comes in, unseen.
LEMMA ClientUnseen ==
  ASSUME InTime, IInv, InStep, Staying,
         \/ CliReadHeader \/ CliReadParams \/ CliSendPub
         \/ WriteLen("C") \/ WriteBody("C") \/ ReadLen("C") \/ ReadBody("C")
  PROVE  UNCHANGED Seen
<1>1. CASE CliReadHeader \/ CliReadParams \/ ReadLen("C") \/ ReadBody("C")
  <2>1. pc["C"] \notin {"prompt", "done"} /\ pc'["C"] \notin {"prompt", "done"}
    BY <1>1, Typing, BothSides
       DEF CliReadHeader, CliReadParams, ReadLen, ReadBody, AfterRead
  <2>2. UNCHANGED <<typed, asked, shown, login>>
    BY <1>1 DEF CliReadHeader, CliReadParams, ReadLen, ReadBody
  <2> QED BY <2>1, <2>2, Unseen
<1>2. CASE CliSendPub \/ WriteLen("C") \/ WriteBody("C")
  <2>1. peer["C"] = "open"
    BY <1>2 DEF CliSendPub, WriteLen, WriteBody, InTime, InStep, Staying, Parting, Exchange,
                Asking, Answering, Idle
  <2>2. pc["C"] \notin {"prompt", "done"} /\ pc'["C"] \notin {"prompt", "done"}
    BY <1>2, <2>1, Typing, BothSides
       DEF CliSendPub, WriteLen, WriteBody, Sends, Write, WriteFails, AfterWrite
  <2>3. UNCHANGED <<typed, asked, shown, login>>
    BY <1>2 DEF CliSendPub, WriteLen, WriteBody
  <2> QED BY <2>2, <2>3, Unseen
<1> QED BY <1>1, <1>2

\* The login is decided by whose credentials they are.
LEMMA Decides ==
  ASSUME IInv, InStep, Staying, CliAuthenticated
  PROVE  Service!Decide
<1>1. /\ pc["C"] = "decide" /\ login["C"] = "unknown"
      /\ \/ typed \in ValidCreds /\ text["C"] = "1"
         \/ typed \notin ValidCreds /\ text["C"] = "0"
  BY DEF CliAuthenticated, InStep, Staying, Parting, Exchange, Asking, Answering, Idle
<1>2. asked # "exit"
  BY <1>1 DEF IInv, LastWord
<1>3. \/ typed \in ValidCreds /\ login'["C"] = "yes" /\ pc'["C"] = "prompt"
      \/ typed \notin ValidCreds /\ login'["C"] = "no" /\ pc'["C"] = "close"
  <2>1. "1" \notin {"0", Garbage}
    BY TextsAssumption
  <2> QED BY <1>1, <2>1, Typing, BothSides DEF CliAuthenticated
<1>4. status = "connecting" /\ question = NoText
  BY <1>1, <1>2 DEF status, question
<1>5. UNCHANGED <<typed, asked, shown>>
  BY DEF CliAuthenticated
<1>6. /\ status' = IF typed \in ValidCreds THEN "granted" ELSE "refused"
      /\ question' = NoText
  BY <1>2, <1>3, <1>5 DEF status, question
<1> QED BY <1>4, <1>5, <1>6, UnfoldService

\* A line typed is a question, or the end.
LEMMA Asks ==
  ASSUME IInv, InStep, Staying, CliPrompt
  PROVE  Service!Ask \/ Service!Leave
<1>1. login["C"] = "yes" /\ pc["C"] = "prompt" /\ asked # "exit"
  BY DEF CliPrompt, InStep, Staying, Parting, Exchange, Asking, Answering, Idle, IInv, LastWord
<1>2. /\ pc'["C"] = "wlen" /\ login' = login /\ typed' = typed /\ shown' = NoText
      /\ asked' \in Lines \cup {"exit"}
  BY Typing, BothSides DEF CliPrompt
<1>3. status = "granted" /\ question = NoText
  BY <1>1 DEF status, question
<1>4. CASE asked' = "exit"
  <2>1. status' = "gone" /\ question' = NoText
    BY <1>1, <1>2, <1>4 DEF status, question
  <2> QED BY <1>2, <1>3, <2>1, UnfoldService
<1>5. CASE asked' # "exit"
  <2>1. status' = "granted" /\ question' = asked' /\ asked' \in Lines
    BY <1>1, <1>2, <1>5 DEF status, question
  <2> QED BY <1>2, <1>3, <2>1, UnfoldService
<1> QED BY <1>4, <1>5

\* What is shown is the line asked.
LEMMA Answers ==
  ASSUME IInv, InStep, Staying, CliShow
  PROVE  Service!Answer
<1>1. login["C"] = "yes" /\ pc["C"] = "decide" /\ asked # "exit"
  BY DEF CliShow, IInv, LastWord
<1>2. text["C"] = asked /\ asked \in Lines
  BY DEF CliShow, InStep, Staying, Parting, Exchange, Asking, Answering, Idle
<1>3. pc'["C"] = "prompt" /\ shown' = asked /\ UNCHANGED <<login, typed, asked>>
  BY <1>2, Typing, BothSides DEF CliShow
<1>4. asked # NoText
  BY <1>2, TextsAssumption
<1>5. status = "granted" /\ question = asked
  BY <1>1 DEF status, question
<1>6. status' = "granted" /\ question' = NoText
  BY <1>1, <1>3 DEF status, question
<1> QED BY <1>3, <1>4, <1>5, <1>6, UnfoldService

\* A client that is killed is gone.
LEMMA Goes ==
  ASSUME IInv, InStep, Staying, KillOne("C")
  PROVE  Service!Leave \/ UNCHANGED Seen
<1>1. /\ pc'["C"] = "done" /\ UNCHANGED <<login, typed, asked, shown>>
  BY Typing, BothSides DEF KillOne, Ends
<1>2. pc["C"] # "done" /\ login["C"] # "no"
  BY DEF KillOne, InStep, Staying, Parting, Exchange, Asking, Answering, Idle
<1>3. status' = "gone" /\ question' = NoText
  BY <1>1, <1>2 DEF status, question
<1>4. CASE asked = "exit"
  <2>1. status = "gone" /\ question = NoText
    BY <1>2, <1>4 DEF status, question
  <2> QED BY <1>1, <1>3, <2>1 DEF Seen
<1>5. CASE asked # "exit"
  <2>1. status \in {"connecting", "granted"}
    BY <1>2, <1>5 DEF status
  <2> QED BY <1>1, <1>3, <2>1, UnfoldService
<1> QED BY <1>4, <1>5

\* Every step of a session in time is a step of the service, or does not show.
LEMMA ServesStep ==
  ASSUME InTime, IInv, InStep, [Next]_vars
  PROVE  [Service!Next]_(Service!vars)
<1> SUFFICES Service!Decide \/ Service!Ask \/ Service!Answer \/ Service!Leave \/ UNCHANGED Seen
  BY UnfoldService DEF Service!vars, Seen
<1>1. CASE UNCHANGED vars
  BY <1>1, Unseen DEF vars
<1>2. CASE Next /\ pc["C"] \in {"close", "done"}
  BY <1>2, LeavingSteps, UnseenEnd DEF InStep, Staying
<1>3. CASE Next /\ pc["C"] \notin {"close", "done"}
  <2>0. Staying
    BY <1>3 DEF InStep, Parting
  <2>1. CASE Child
    BY <2>1, ChildSteps, Unseen
  <2>2. CASE Client
    <3>1. ~Close("C")
      BY <1>3 DEF Close
    <3> QED BY <2>0, <2>2, <3>1, ClientUnseen, Decides, Answers DEF Client, Framing
  <2>3. CASE CliPrompt
    BY <2>0, <2>3, Asks
  <2>4. ASSUME NEW x \in Sides, Reset(x)
        PROVE  UNCHANGED Seen
    BY <2>4, Unseen DEF Reset
  <2>5. ASSUME NEW x \in Sides, KillOne(x)
        PROVE  Service!Leave \/ UNCHANGED Seen
    BY <2>0, <2>5, StepKillOne, Goes
  <2>6. CASE KillParent
    BY <2>6, Unseen DEF KillParent
  <2> QED BY <1>3, <2>1, <2>2, <2>3, <2>4, <2>5, <2>6 DEF Next
<1> QED BY <1>1, <1>2, <1>3

\* In the same sessions the client's terminal shows an echo service (client.cpp,
\* main): every step is a step of EchoService or does not show, so a login is
\* granted to users and to nobody else, and each line is answered by itself.
THEOREM SessionServes ==
  ASSUME InTime
  PROVE  Spec => Service!Init /\ [][Service!Next]_(Service!vars)
<1>1. Init => Service!Init
  <2> SUFFICES ASSUME Init PROVE Service!Init
    OBVIOUS
  <2>1. asked # "exit" /\ pc["C"] = "hdr" /\ login["C"] = "unknown"
    BY TextsAssumption, BothSides DEF Init
  <2>2. status = "connecting" /\ question = NoText
    BY <2>1 DEF status, question
  <2> QED BY <2>2, UnfoldService DEF Init
<1>2. IInv /\ InStep /\ [Next]_vars => [Service!Next]_(Service!vars)
  BY ServesStep
<1> QED BY <1>1, <1>2, InStepInductive, Inductive, PTL DEF Spec
=============================================================================
