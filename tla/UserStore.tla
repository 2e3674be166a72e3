------------------------------ MODULE UserStore ------------------------------
(***************************************************************************)
(* The user list: create_user.cpp appends a user to its file in two        *)
(* writes, user.cpp loads a file into the server's list when the server    *)
(* boots, exists() looks a login up in that list, and add_user() extends   *)
(* both.  A file is the sequence of its whitespace-separated tokens, every *)
(* one of them followed by the newline that endl wrote.                    *)
(***************************************************************************)
EXTENDS Integers, Sequences, FiniteSets

CONSTANTS
  Names,      \* user names, never blank
  Passwords,  \* passwords, never blank
  Blank,      \* the empty string
  Hash,       \* cppsha1, from strings to the tokens it makes
  Creators,   \* create_user processes that may run at a time
  Crashes,    \* may create_user die between its two writes?
  MaxTokens,  \* bound: the tokens of a file
  MaxAdded    \* bound: calls of add_user per boot (nothing calls it yet)

ASSUME StoreAssumption ==
  /\ Blank \notin Names \cup Passwords
  /\ DOMAIN Hash = Passwords \cup {Blank}
  /\ \A p \in DOMAIN Hash : Hash[p] \notin Names \cup Passwords \cup {Blank}
  /\ Crashes \in BOOLEAN
  /\ MaxTokens \in Nat
  /\ MaxAdded \in Nat

VARIABLES
  files,    \* "user" is what create_user writes, "users" what user.cpp reads
  creator,  \* creator[c]: the user whose hash c has still to write
  up,       \* is the server running?
  list,     \* the server's user_list
  begun,    \* every user whose name was written
  created,  \* those whose hash was written too
  added,    \* users added by add_user since the server booted
  orderly   \* has create_user always run to its end, and alone?

vars == <<files, creator, up, list, begun, created, added, orderly>>

Strings == Names \cup Passwords \cup {Hash[p] : p \in DOMAIN Hash} \cup {Blank}
NewUsers == [name : Names, password : Passwords]
Nobody == [name |-> Blank, password |-> Blank]
User(n, p) == [username |-> n, password |-> p]

-----------------------------------------------------------------------------
(* user.cpp                                                                *)

\* What extraction k yields of the tokens f.  At the end of the file it fails
\* and leaves its string as it was, with the token of the round before.
Extracted(f, k) ==
  IF k <= Len(f) THEN f[k] ELSE IF k > 2 THEN f[k - 2] ELSE Blank

\* Mutant of Load: the user and the password are swapped.
LoadSwapped(f) ==
  [i \in 1..(Len(f) \div 2 + 1) |->
     User(Extracted(f, 2*i), Extracted(f, 2*i - 1))]

\* get_users_from_file: a round reads two tokens and pushes a user, also the
\* last round, whose failing extraction is what makes eof() true.
Load(f) ==
  [i \in 1..(Len(f) \div 2 + 1) |->
     User(Extracted(f, 2*i - 1), Extracted(f, 2*i))]

\* Mutant of Exists: the password is compared as it was stored or sent.
ExistsEither(n, p, e) ==
  \E i \in 1..Len(e) :
    n = e[i].username /\ e[i].password \in {p, Hash[p]}

\* exists: a user of that name with the hash of that password.
Exists(n, p, e) ==
  \E i \in 1..Len(e) : n = e[i].username /\ Hash[p] = e[i].password

Boot ==
  /\ ~up
  /\ up' = TRUE
  /\ list' = Load(files["users"])
  /\ added' = {}
  /\ UNCHANGED <<files, creator, begun, created, orderly>>

Stop ==
  /\ up
  /\ up' = FALSE
  /\ list' = <<>>
  /\ added' = {}
  /\ UNCHANGED <<files, creator, begun, created, orderly>>

\* add_user: the file and the list both get the password as it is.
AddUser(u) ==
  /\ up
  /\ Cardinality(added) < MaxAdded
  /\ Len(files["users"]) + 2 <= MaxTokens
  /\ files' = [files EXCEPT !["users"] = @ \o <<u.name, u.password>>]
  /\ list' = Append(list, User(u.name, u.password))
  /\ added' = added \cup {u}
  /\ UNCHANGED <<creator, up, begun, created, orderly>>

-----------------------------------------------------------------------------
(* create_user.cpp                                                         *)

\* file << username << endl
WriteName(c, u) ==
  /\ creator[c] = Nobody
  /\ Len(files["user"]) < MaxTokens
  /\ files' = [files EXCEPT !["user"] = Append(@, u.name)]
  /\ creator' = [creator EXCEPT ![c] = u]
  /\ begun' = begun \cup {u}
  /\ orderly' = (orderly /\ \A d \in Creators : creator[d] = Nobody)
  /\ UNCHANGED <<up, list, created, added>>

\* file << cppsha1(password) << endl
WriteHash(c) ==
  /\ creator[c] # Nobody
  /\ Len(files["user"]) < MaxTokens
  /\ files' = [files EXCEPT !["user"] = Append(@, Hash[creator[c].password])]
  /\ created' = created \cup {creator[c]}
  /\ creator' = [creator EXCEPT ![c] = Nobody]
  /\ UNCHANGED <<up, list, begun, added, orderly>>

\* create_user is killed, or the disk is full, between the two.
Die(c) ==
  /\ Crashes
  /\ creator[c] # Nobody
  /\ creator' = [creator EXCEPT ![c] = Nobody]
  /\ orderly' = FALSE
  /\ UNCHANGED <<files, up, list, begun, created, added>>

\* The operator copies the file that create_user writes over the file that
\* the server reads: no program does, though their names differ.
Install ==
  /\ files["users"] # files["user"]
  /\ files' = [files EXCEPT !["users"] = files["user"]]
  /\ UNCHANGED <<creator, up, list, begun, created, added, orderly>>

-----------------------------------------------------------------------------

Init ==
  /\ files = [f \in {"user", "users"} |-> <<>>]
  /\ creator = [c \in Creators |-> Nobody]
  /\ up = FALSE
  /\ list = <<>>
  /\ begun = {}
  /\ created = {}
  /\ added = {}
  /\ orderly = TRUE

Next ==
  \/ Boot
  \/ Stop
  \/ Install
  \/ \E u \in NewUsers : AddUser(u)
  \/ \E c \in Creators : \/ \E u \in NewUsers : WriteName(c, u)
                         \/ WriteHash(c)
                         \/ Die(c)

Spec == Init /\ [][Next]_vars

-----------------------------------------------------------------------------
(* What the user list promises.                                            *)

\* Every variable keeps to its values: an entry never holds anything but
\* strings of the file.
TypeOK ==
  /\ files \in [{"user", "users"} -> Seq(Strings)]
  /\ creator \in [Creators -> NewUsers \cup {Nobody}]
  /\ up \in BOOLEAN
  /\ list \in Seq([username : Strings, password : Strings])
  /\ begun \subseteq NewUsers
  /\ created \subseteq begun
  /\ added \subseteq NewUsers
  /\ orderly \in BOOLEAN

\* An authentication string that does not parse, ("", "") to exists(), is
\* never valid, though the loop makes that very entry of an empty file
\* (user.cpp:28-34 and 84-100).
MalformedNeverValid == ~Exists(Blank, Blank, list)

\* However the writes of create_user are interleaved or cut, a login takes a
\* password that somebody chose, for a name that somebody chose.
NoInventedPassword ==
  \A n \in Names, p \in Passwords :
    Exists(n, p, list) =>
      /\ \E u \in begun : u.name = n
      /\ \E u \in begun : Hash[u.password] = Hash[p]

\* The list the server looks up is sound, whatever became of its file: typed,
\* with no password nobody chose, and closed to what does not parse.
ListSound == TypeOK /\ MalformedNeverValid /\ NoInventedPassword

\* What create_user wrote, user.cpp reads: as long as every create_user ran to
\* its end, and alone, the file loads to exactly the users created, whatever
\* the loop does at its end.
WrittenIsRead ==
  (orderly /\ \A c \in Creators : creator[c] = Nobody) =>
    \A n \in Names, p \in Passwords :
      Exists(n, p, Load(files["user"]))
        <=> \E u \in created : u.name = n /\ Hash[u.password] = Hash[p]

\* exists() "checks if it is a valid user" (user.cpp:54): what it accepts is
\* a name with the password chosen for that name.
ValidMeansChosen ==
  \A n \in Names, p \in Passwords :
    Exists(n, p, list) =>
      \E u \in begun : u.name = n /\ Hash[u.password] = Hash[p]
=============================================================================
