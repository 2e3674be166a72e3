----------------------------- MODULE Credentials -----------------------------
(***************************************************************************)
(* The way of a username and a password from the keyboard to the server's  *)
(* lookup: getpass, getauthstring (utility.cpp), encrypt, decrypt          *)
(* (crypto.cpp) and parseauthstring (user.cpp).  Strings are sequences of  *)
(* characters, scaled down: the word "auth" is one character, a cipher     *)
(* block holds Block characters and a buffer Blocks blocks (16 and 4 in    *)
(* the code).                                                              *)
(***************************************************************************)
EXTENDS Naturals, Sequences, SequencesExt

CONSTANTS
  Letters,   \* ordinary characters
  Block,     \* characters of a cipher block
  Blocks,    \* cipher blocks of a buffer
  MaxKeys    \* bound: keys pressed for the username or the password

SizesAssumption ==
  /\ Block \in Nat \ {0}
  /\ Blocks \in Nat \ {0}
  /\ MaxKeys \in Nat
  /\ Letters \cap {"$", "NUL", "DEL", "auth", "?"} = {}

VARIABLES
  stage,     \* "username", "password", "typed", "sealed", "smashed", "parsed"
  keys,      \* the keys pressed in this stage
  username,
  password,
  wire,      \* the cipher blocks written, the plain block inside each
  arrived,   \* how many blocks, the IV first, the reader got
  login      \* what parseauthstring made of them

vars == <<stage, keys, username, password, wire, arrived, login>>

Typable == Letters \cup {"$", "NUL"}
Room == Block * Blocks
NoLogin == [username |-> <<>>, password |-> <<>>]

-----------------------------------------------------------------------------

\* getauthstring
AuthString(u, p) == <<"auth", "$">> \o u \o <<"$">> \o p \o <<"$">>

\* The first occurrence of a character, or 0.
Find(s, ch) == SelectInSeq(s, LAMBDA c : c = ch)

After(s, pos) == SubSeq(s, pos + 1, Len(s))

\* parseauthstring: without all three delimiters there is no login.
Parse(s) ==
  LET p1 == Find(s, "$")
      s1 == After(s, p1)
      p2 == Find(s1, "$")
      s2 == After(s1, p2)
      p3 == Find(s2, "$")
  IN IF p1 = 0 \/ p2 = 0 \/ p3 = 0 THEN NoLogin
     ELSE [username |-> SubSeq(s1, 1, p2 - 1),
           password |-> SubSeq(s2, 1, p3 - 1)]

\* encrypt: the text, padded with zeros, in blocks chained from a fresh IV.
Sealed(s) ==
  LET buff == [i \in 1..Room |-> IF i <= Len(s) THEN s[i] ELSE "NUL"]
  IN [b \in 1..Blocks |-> SubSeq(buff, (b - 1) * Block + 1, b * Block)]

\* decrypt, of the first n blocks of IV and ciphertext: a block opens if it
\* and its predecessor arrived, the others are noise; the text ends at the
\* first zero.
Opened(blocks, n) ==
  LET buff == FlattenSeq([b \in 1..Blocks |->
                IF b < n THEN blocks[b] ELSE [i \in 1..Block |-> "?"]])
      zero == Find(buff, "NUL")
  IN IF zero = 0 THEN buff ELSE SubSeq(buff, 1, zero - 1)

-----------------------------------------------------------------------------

\* A key of the username: cin >> username sees whole lines, edited by the
\* terminal.
PressName ==
  /\ stage = "username"
  /\ Len(keys) < MaxKeys
  /\ \E ch \in Typable : /\ keys' = Append(keys, ch)
                         /\ username' = Append(username, ch)
  /\ UNCHANGED <<stage, password, wire, arrived, login>>

EnterName ==
  /\ stage = "username"
  /\ username # <<>>
  /\ stage' = "password"
  /\ keys' = <<>>
  /\ UNCHANGED <<username, password, wire, arrived, login>>

\* A turn of the loop of getpass.
Press ==
  /\ stage = "password"
  /\ Len(keys) < MaxKeys
  /\ \E ch \in Typable \cup {"DEL"} :
       /\ keys' = Append(keys, ch)
       /\ password' = IF ch # "DEL" THEN Append(password, ch)
                      ELSE IF password = <<>> THEN password
                      ELSE Front(password)
  /\ UNCHANGED <<stage, username, wire, arrived, login>>

Return ==
  /\ stage = "password"
  /\ stage' = "typed"
  /\ UNCHANGED <<keys, username, password, wire, arrived, login>>

\* A text that is longer than the buffer runs over it: what follows is
\* undefined and the session is not followed further.
Encrypt ==
  /\ stage = "typed"
  /\ LET s == AuthString(username, password)
     IN IF Len(s) > Room
        THEN stage' = "smashed" /\ wire' = wire
        ELSE stage' = "sealed" /\ wire' = Sealed(s)
  /\ UNCHANGED <<keys, username, password, arrived, login>>

\* The server reads all of the body, or the blocks that are there.
Decrypt ==
  /\ stage = "sealed"
  /\ stage' = "parsed"
  /\ arrived' \in 0..(Blocks + 1)
  /\ login' = Parse(Opened(wire, arrived'))
  /\ UNCHANGED <<keys, username, password, wire>>

Init ==
  /\ stage = "username"
  /\ keys = <<>>
  /\ username = <<>>
  /\ password = <<>>
  /\ wire = <<>>
  /\ arrived = 0
  /\ login = NoLogin

Next == PressName \/ EnterName \/ Press \/ Return \/ Encrypt \/ Decrypt

Spec == Init /\ [][Next]_vars

-----------------------------------------------------------------------------

\* Characters the format can carry.
Clean(s) == \A i \in 1..Len(s) : s[i] \in Letters

\* Credentials without "$" and without zeros reach the lookup as they were
\* typed when the whole frame did.
RoundTrip ==
  (stage = "parsed" /\ arrived = Blocks + 1 /\ Clean(username)
     /\ Clean(password))
    => login = [username |-> username, password |-> password]

\* A frame cut anywhere between its blocks gives the credentials as typed, no
\* login at all, or a login with noise in it: never other clean credentials.
CutNeverAlters ==
  (stage = "parsed" /\ Clean(username) /\ Clean(password)
     /\ Clean(login.username) /\ Clean(login.password))
    => login \in {NoLogin, [username |-> username, password |-> password]}

\* Whatever was typed, "$" and zeros included, a whole frame gives no login
\* or one that what was typed begins with: nothing is made up or reordered.
ParsedIsPrefix ==
  (stage = "parsed" /\ arrived = Blocks + 1 /\ login # NoLogin)
    => IsPrefix(login.username \o <<"$">> \o login.password \o <<"$">>,
                username \o <<"$">> \o password \o <<"$">>)
=============================================================================
