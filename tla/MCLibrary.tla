------------------------------ MODULE MCLibrary ------------------------------
(* The calculations of the library and of the demonstrations, one after the  *)
(* other: in every behaviour either one question is asked of one module, and *)
(* its answer judged, or one of four small programs is run to its end.       *)
EXTENDS Integers, Sequences

VARIABLES
  subject,   \* what this behaviour is about, and what is asked
  outcome,   \* <<>>, or the answer in brackets
  crStage, crKeys, crName, crPassword, crWire, crArrived, crLogin,
  dhCtx, dhBuf, dhPc, dhCalls,
  elKey, elMessage, elCipher, elResult, elStage,
  rpLeft, rpNumber, rpPassed, rpBases, rpPc, rpAnswer

Num == INSTANCE MCNumbers
Cip == INSTANCE MCCiphers
Txt == INSTANCE MCTexts
Env == INSTANCE MCKeys

Cr == INSTANCE Credentials WITH
  Letters <- {"a", "b"}, Block <- 2, Blocks <- 4, MaxKeys <- 3,
  stage <- crStage, keys <- crKeys, username <- crName, password <- crPassword,
  wire <- crWire, arrived <- crArrived, login <- crLogin
Dh == INSTANCE DhExchange WITH
  P <- 11, G <- 2, Base <- 2, KeyLen <- 3, MaxCalls <- 3,
  ctx <- dhCtx, buf <- dhBuf, pc <- dhPc, calls <- dhCalls
El == INSTANCE ElGamal WITH
  P <- 29, G <- 2, Digit <- 2, MaxLen <- 3,
  x <- elKey, message <- elMessage, cipher <- elCipher, result <- elResult,
  stage <- elStage
Rp == INSTANCE RandomPrime WITH
  MaxN <- 99, LowPrimes <- {3, 5}, Rounds <- 2, Attempts <- 2,
  r <- rpLeft, n <- rpNumber, k <- rpPassed, used <- rpBases, pc <- rpPc,
  answer <- rpAnswer

ASSUME ScaledDown ==
  /\ Cr!SizesAssumption
  /\ Dh!GroupAssumption
  /\ El!GroupAssumption
  /\ Rp!SearchAssumption

-----------------------------------------------------------------------------

About(kind, Set) == \E q \in Set : subject = [about |-> kind, of |-> q]

Questions ==
  \/ About("integer", Num!Sample) \/ About("digits", Num!Sample)
  \/ About("modulus", Num!Moduli) \/ About("curve", Num!Curves)
  \/ About("candidate", Num!Candidates)
  \/ About("published", Cip!Published) \/ About("pieces", Cip!H!MdTypes)
  \/ About("stream", Cip!Streams) \/ About("sealer", Cip!Sealers)
  \/ About("weak", Cip!DesKeys) \/ About("link", Cip!Chains)
  \/ About("padding", Cip!Paddings) \/ About("secret", Cip!Secrets)
  \/ About("extended", Cip!Ends \X Cip!Ends) \/ About("generator", Cip!Generators)
  \/ About("shape", Cip!Shapes)
  \/ About("sum", Num!GroupAndPoint) \/ About("multiple", Num!GroupAndScalar)
  \/ About("ladder", Num!Ladders) \/ About("draws", Num!Draws)
  \/ About("pair", Num!PairOfKeys) \/ About("handshake", Num!Handshakes)
  \/ About("signer", Num!Signers)
  \/ About("coded", Txt!Over(Txt!Alphabet, 3)) \/ About("length", Txt!Lengths)
  \/ About("named", Txt!Stores) \/ About("base64", 1..5)
  \/ About("records", Txt!Transforms)
  \/ About("forged", {t \in Txt!Transforms : t.mode = "CBC"})
  \/ About("script", Txt!Scripts) \/ About("sharing", Txt!Bodies \X Txt!Bodies)
  \/ About("raw", Env!Inputs) \/ About("envelope", Env!Messages)
  \/ About("v15", Env!Modes) \/ About("oaep", {<<>>, <<1>>})
  \/ About("digest", Env!Messages) \/ About("context", Env!Contexts)
  \/ About("file", Env!Keys) \/ About("spoiled", Env!Keys \X Env!Places)
  \/ About("chain", Txt!Chains) \/ About("pattern", Txt!Patterns)

Programs == {"credentials", "agreement", "elgamal", "prime"}

crVars == <<crStage, crKeys, crName, crPassword, crWire, crArrived, crLogin>>
dhVars == <<dhCtx, dhBuf, dhPc, dhCalls>>
elVars == <<elKey, elMessage, elCipher, elResult, elStage>>
rpVars == <<rpLeft, rpNumber, rpPassed, rpBases, rpPc, rpAnswer>>
vars == <<subject, outcome, crVars, dhVars, elVars, rpVars>>

Init ==
  /\ outcome = <<>>
  /\ Questions \/ \E program \in Programs : About(program, {"run"})
  /\ Cr!Init /\ Dh!Init /\ Rp!Init
  /\ \/ subject.about = "elgamal" /\ El!Init
     \/ /\ subject.about # "elgamal"
        /\ elKey = 2 /\ elMessage = <<>> /\ elCipher = <<>> /\ elResult = <<>>
        /\ elStage = "start"

Ask(kind, Answer(_)) ==
  /\ subject.about = kind
  /\ outcome = <<>>
  /\ outcome' = <<Answer(subject.of)>>
  /\ UNCHANGED <<subject, crVars, dhVars, elVars, rpVars>>

AskNumbers ==
  \/ Ask("integer", Num!Calculated) \/ Ask("digits", Num!Written)
  \/ Ask("modulus", Num!RaisedTo) \/ Ask("curve", Num!Reduced)
  \/ Ask("candidate", Num!Tested)
AskCiphers ==
  \/ Ask("published", Cip!Computed) \/ Ask("pieces", Cip!Hashed)
  \/ Ask("stream", Cip!Streamed) \/ Ask("sealer", Cip!Sealed)
  \/ Ask("weak", Cip!Turned) \/ Ask("link", Cip!Linked)
  \/ Ask("padding", Cip!Padded) \/ Ask("secret", Cip!Derived)
  \/ Ask("extended", Cip!Extended) \/ Ask("generator", Cip!Drawn)
  \/ Ask("shape", Cip!CutUp)
AskCurves ==
  \/ Ask("sum", Num!AddedTo) \/ Ask("multiple", Num!Multiplied)
  \/ Ask("ladder", Num!Climbed) \/ Ask("draws", Num!Agreed)
  \/ Ask("pair", Num!Exchanged) \/ Ask("handshake", Num!Shaken)
  \/ Ask("signer", Num!Signed)
AskTexts ==
  \/ Ask("coded", Txt!Coded) \/ Ask("length", Txt!Measured)
  \/ Ask("named", Txt!Named) \/ Ask("base64", Txt!Decoded) \/ Ask("records", Txt!Conversed)
  \/ Ask("forged", Txt!Forged) \/ Ask("script", Txt!Moved)
  \/ Ask("sharing", Txt!Sharing)
AskKeys ==
  \/ Ask("raw", Env!Decrypted) \/ Ask("envelope", Env!Enveloped)
  \/ Ask("v15", Env!AcceptedV15) \/ Ask("oaep", Env!AcceptedOaep)
  \/ Ask("digest", Env!AcceptedAs) \/ Ask("context", Env!Checked)
  \/ Ask("file", Env!Filed) \/ Ask("spoiled", Env!Spoiled)
AskChains == Ask("chain", Txt!Judged) \/ Ask("pattern", Txt!Matched)

Run(program) == subject.about = program /\ UNCHANGED <<subject, outcome>>

Login == Run("credentials") /\ Cr!Next /\ UNCHANGED <<dhVars, elVars, rpVars>>
Agree == Run("agreement") /\ Dh!Next /\ UNCHANGED <<crVars, elVars, rpVars>>
Elgamal == Run("elgamal") /\ El!Next /\ UNCHANGED <<crVars, dhVars, rpVars>>
Search == Run("prime") /\ Rp!Next /\ UNCHANGED <<crVars, dhVars, elVars>>

Next ==
  \/ AskNumbers \/ AskCiphers \/ AskCurves \/ AskTexts \/ AskKeys \/ AskChains
  \/ Login \/ Agree \/ Elgamal \/ Search

Spec == Init /\ [][Next]_vars

-----------------------------------------------------------------------------

\* The answers to the questions of a kind pass a judge.
Judged(kind, Judge(_, _)) ==
  (subject.about = kind /\ outcome # <<>>) => Judge(subject.of, outcome[1])

\* What the limbs, the reductions, the rounds and the expansions come to is what
\* integers, powers, primes and the published vectors say: at the ends of limbs,
\* with carries and borrows over all of them (bignum.c, ecp_curves.c, aes.c,
\* des.c, camellia.c, sha1.c and the other hashes, pkcs5.c, ssl_tls.c:141-349);
\* and what a search for a prime answers, if it is none, has only liars for
\* bases (randomprime.py, bignum.c:1914-2038).
NumbersExact ==
  /\ Judged("integer", LAMBDA a, given : given = Num!OfIntegers(a))
  /\ Judged("digits", LAMBDA a, given : given = Num!AsIntegers(a))
  /\ Judged("modulus", Num!IsRaisedTo)
  /\ Judged("curve", Num!IsReduced)
  /\ Judged("candidate", Num!IsTested)
  /\ Judged("published", Cip!IsPublished)
  /\ Judged("weak", LAMBDA k, given : Cip!IsTurned(given))
  /\ Judged("secret", Cip!IsDerived)
  /\ Judged("extended", Cip!IsExtended)
  /\ Judged("generator", Cip!IsDrawn)
  /\ Rp!CompositeOnlyByLiars

\* Sums and multiples of points are those of the group law, for every pair of
\* points, zero, equal and opposite ones included, and whatever the table of the
\* comb and the random projection are; the ladder agrees with it (ecp.c).
CurveLaw ==
  /\ Judged("sum", Num!IsAddedTo)
  /\ Judged("multiple", Num!IsMultiplied)
  /\ Judged("ladder", Num!IsClimbed)

\* Two ends that do their halves of a calculation come to the same: the secrets
\* and keys of Diffie-Hellman, with blinding renewed or squared and secrets with
\* leading zeros, those on curves, a signature and its check, RSA with and
\* without blinding, and the keys two sides of a record layer cut out of one
\* block (dhm.c, ecdh.c, ecdsa.c, rsa.c, ssl_tls.c:499-640).
BothEndsAgree ==
  /\ Dh!BlindingUndoes
  /\ Dh!SecretsAgree
  /\ Dh!KeysAgree
  /\ Judged("draws", LAMBDA d, given : Num!IsAgreed(given))
  /\ Judged("pair", Num!IsExchanged)
  /\ Judged("handshake", Num!IsShaken)
  /\ Judged("signer", LAMBDA s, given : Num!IsSigned(given))
  /\ Judged("raw", Env!IsDecrypted)
  /\ Judged("shape", Cip!IsCut)

\* What was written is what is read: credentials over the frames of the login,
\* messages through ElGamal, streams and sealed texts through every mode,
\* padding, DER, base64, records one after the other under every transform, and
\* keys through every kind of file.
RoundTrip ==
  /\ Cr!RoundTrip
  /\ El!RoundTrip
  /\ Judged("stream", LAMBDA s, given : Cip!IsOpened(given))
  /\ Judged("link", LAMBDA c, given : Cip!IsLinked(given))
  /\ Judged("sealer", LAMBDA s, given : Cip!IsSealed(given))
  /\ Judged("padding", Cip!IsUnpadded)
  /\ Judged("coded", Txt!IsCoded)
  /\ Judged("length", Txt!IsMeasured)
  /\ Judged("named", Txt!IsNamed)
  /\ Judged("records", LAMBDA t, given : Txt!IsConversed(given))
  /\ Judged("envelope", Env!IsEnveloped)
  /\ Judged("file", Env!IsFiled)


\* Where a text is cut between calls does not show: hashes fed in pieces around
\* the end of a block, ciphers updated in pieces, records that arrive and leave
\* in pieces of any size, and handshake messages that share a record or do not
\* (sha1.c:268-303, cipher.c:267-437, ssl_tls.c:1820-1885, 1990-2008).
CutsDoNotMatter ==
  /\ Judged("pieces", LAMBDA md, given : Cip!IsHashed(given))
  /\ Judged("stream", LAMBDA s, given : Cip!IsStreamed(given))
  /\ Judged("link", LAMBDA c, given : Cip!IsLinkedTwice(given))
  /\ Judged("sealer", LAMBDA s, given : Cip!IsSealedInPieces(given))
  /\ Judged("script", Txt!IsMoved)
  /\ Judged("sharing", Txt!IsSharing)

\* A chain of certificates is accepted exactly if a path leads from its leaf to
\* a trusted root along which everything is signed, in time, allowed to sign, not
\* revoked and short enough, and the name fits; only of two parents of the same
\* name the first is tried alone (x509_crt.c:1478-1959).
ChainVerdict == Judged("chain", Txt!IsJudged)

\* A drawn odd prime is never thrown away: neither the trial division nor any
\* base of the Rabin-Miller test rejects it (randomprime.py:6-25, 43-49).
OddPrimesKept == Rp!OddPrimesKept
=============================================================================
