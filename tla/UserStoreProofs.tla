--------------------------- MODULE UserStoreProofs ---------------------------
(***************************************************************************)
(* Proofs about UserStore: that the list the server looks up is sound, and *)
(* that what create_user wrote is what is read, for any names, passwords   *)
(* and number of processes, and files of any length.                       *)
(***************************************************************************)
EXTENDS UserStore, TLAPS

Digests == {Hash[p] : p \in Passwords}

\* One of the users chosen has the name, or the password, that token t stands for.
NameChosen(t, chosen) == \E u \in chosen : u.name = t
HashChosen(t, chosen) == \E u \in chosen : Hash[u.password] = t

\* What create_user writes comes from the users it was called for.
WrittenSound(f, chosen) ==
  \A k \in 1..Len(f) : \/ f[k] \in Names /\ NameChosen(f[k], chosen)
                       \/ f[k] \in Digests /\ HashChosen(f[k], chosen)

\* In a file that add_user has extended as well, a name stands next to a digest
\* only if somebody chose it: in front of it, or, where the file ends and the
\* loop hands out the digest of the round before, behind it.
NextToDigest(f, chosen) ==
  /\ \A k \in 1..(Len(f) - 1) :
       f[k] \in Names /\ f[k + 1] \in Digests => NameChosen(f[k], chosen)
  /\ Len(f) > 1 =>
       (f[Len(f)] \in Names /\ f[Len(f) - 1] \in Digests
          => NameChosen(f[Len(f)], chosen))

InstalledSound(f, chosen) ==
  /\ \A k \in 1..Len(f) : /\ f[k] # Blank
                          /\ f[k] \in Digests => HashChosen(f[k], chosen)
  /\ NextToDigest(f, chosen)

\* An entry with a digest has a name and a password that somebody chose, and
\* an entry without a name has no digest.
EntriesSound(e, chosen) ==
  \A i \in 1..Len(e) :
    /\ e[i].username \in Names /\ e[i].password \in Digests
         => /\ NameChosen(e[i].username, chosen)
            /\ HashChosen(e[i].password, chosen)
    /\ e[i].username = Blank => e[i].password = Blank

\* The invariant behind ListSound: a list says nothing of the lists that the
\* files still make, so what may stand in the files is part of it.
IInv ==
  /\ TypeOK
  /\ \A c \in Creators : creator[c] \in begun \cup {Nobody}
  /\ WrittenSound(files["user"], begun)
  /\ InstalledSound(files["users"], begun)
  /\ EntriesSound(list, begun)

-----------------------------------------------------------------------------
(* What the loop makes of a file.                                          *)

\* Every entry is of two tokens, of the last two the wrong way round, of one,
\* or of none.
LEMMA LoadedEntry ==
  ASSUME NEW f \in Seq(Strings), NEW i \in 1..Len(Load(f))
  PROVE  /\ Load(f) \in Seq([username : Strings, password : Strings])
         /\ \/ \E k \in 1..(Len(f) - 1) : Load(f)[i] = User(f[k], f[k + 1])
            \/ Len(f) > 1 /\ Load(f)[i] = User(f[Len(f)], f[Len(f) - 1])
            \/ Len(f) = 1 /\ Load(f)[i] = User(f[1], Blank)
            \/ Len(f) = 0 /\ Load(f)[i] = User(Blank, Blank)
<1> DEFINE last == Len(f) \div 2 + 1
<1>1. Len(f) \in Nat /\ last \in Nat /\ (Len(f) = 2 * last - 2 \/ Len(f) = 2 * last - 1)
  OBVIOUS
<1>2. ASSUME NEW k \in 1..(Len(f) + 2)  PROVE  Extracted(f, k) \in Strings
  <2>1. Blank \in Strings
    BY DEF Strings
  <2>2. \A j \in 1..Len(f) : f[j] \in Strings
    OBVIOUS
  <2>3. CASE k <= Len(f)
    BY <2>2, <2>3 DEF Extracted
  <2>4. CASE k > Len(f) /\ k > 2
    BY <1>1, <2>2, <2>4 DEF Extracted
  <2> QED  BY <1>1, <2>1, <2>2, <2>3, <2>4 DEF Extracted
<1>3. Load(f) \in Seq([username : Strings, password : Strings])
  <2>1. \A j \in 1..last : 2*j - 1 \in 1..(Len(f) + 2) /\ 2*j \in 1..(Len(f) + 2)
    BY <1>1
  <2>2. \A j \in 1..last : User(Extracted(f, 2*j - 1), Extracted(f, 2*j))
                             \in [username : Strings, password : Strings]
    BY <1>2, <2>1 DEF User
  <2> QED  BY <1>1, <2>2 DEF Load
<1>4. Len(Load(f)) = last /\ Load(f)[i] = User(Extracted(f, 2*i - 1), Extracted(f, 2*i))
  BY <1>1 DEF Load
<1>5. CASE 2*i <= Len(f)
  <2>1. /\ 2*i - 1 \in 1..(Len(f) - 1)
        /\ Load(f)[i] = User(f[2*i - 1], f[(2*i - 1) + 1])
    BY <1>1, <1>4, <1>5 DEF Extracted
  <2> QED  BY <1>3, <2>1
<1>6. CASE 2*i > Len(f)
  <2>1. i = last
    BY <1>1, <1>4, <1>6
  <2>2. CASE Len(f) = 0
    BY <1>1, <1>3, <1>4, <2>1, <2>2 DEF Extracted
  <2>3. CASE Len(f) = 1
    BY <1>1, <1>3, <1>4, <2>1, <2>3 DEF Extracted
  <2>4. CASE Len(f) > 1 /\ Len(f) = 2 * last - 1
    BY <1>1, <1>3, <1>4, <2>1, <2>4 DEF Extracted
  <2>5. CASE Len(f) > 1 /\ Len(f) = 2 * last - 2
    <3>1. /\ Len(f) - 1 \in 1..(Len(f) - 1)
          /\ Load(f)[i] = User(f[Len(f) - 1], f[(Len(f) - 1) + 1])
      BY <1>1, <1>4, <2>1, <2>5 DEF Extracted
    <3> QED  BY <1>3, <3>1
  <2>6. \A n \in Nat : n = 0 \/ n = 1 \/ n > 1
    OBVIOUS
  <2> HIDE DEF last
  <2> QED  BY <1>1, <2>2, <2>3, <2>4, <2>5, <2>6, Zenon
<1> QED  BY <1>1, <1>4, <1>5, <1>6

\* A sound file makes a sound list.
LEMMA LoadSound ==
  ASSUME NEW f \in Seq(Strings), NEW chosen, InstalledSound(f, chosen)
  PROVE  /\ Load(f) \in Seq([username : Strings, password : Strings])
         /\ EntriesSound(Load(f), chosen)
<1>1. Blank \notin Digests
  BY StoreAssumption DEF Digests
<1>2. 1 \in 1..Len(Load(f)) /\ Load(f) \in Seq([username : Strings, password : Strings])
  <2>1. 1 \in 1..Len(Load(f))
    BY DEF Load
  <2> QED  BY <2>1, LoadedEntry
<1>3. ASSUME NEW i \in 1..Len(Load(f))
      PROVE  /\ Load(f)[i].username \in Names /\ Load(f)[i].password \in Digests
                  => /\ NameChosen(Load(f)[i].username, chosen)
                     /\ HashChosen(Load(f)[i].password, chosen)
             /\ Load(f)[i].username = Blank => Load(f)[i].password = Blank
  <2> Len(f) \in Nat
    OBVIOUS
  <2>1. ASSUME NEW k \in 1..(Len(f) - 1), Load(f)[i] = User(f[k], f[k + 1])
        PROVE  <1>3!2
    <3>1. k \in 1..Len(f) /\ k + 1 \in 1..Len(f)
      OBVIOUS
    <3> QED  BY <2>1, <3>1 DEF InstalledSound, NextToDigest, User
  <2>2. CASE Len(f) > 1 /\ Load(f)[i] = User(f[Len(f)], f[Len(f) - 1])
    <3>1. Len(f) \in 1..Len(f) /\ Len(f) - 1 \in 1..Len(f)
      BY <2>2
    <3> QED  BY <2>2, <3>1 DEF InstalledSound, NextToDigest, User
  <2>3. CASE Load(f)[i].password = Blank
    BY <1>1, <2>3
  <2>4. CASE \/ Len(f) = 1 /\ Load(f)[i] = User(f[1], Blank)
             \/ Len(f) = 0 /\ Load(f)[i] = User(Blank, Blank)
    BY <2>3, <2>4 DEF User
  <2> QED  BY <2>1, <2>2, <2>4, LoadedEntry
<1> QED  BY <1>2, <1>3 DEF EntriesSound

-----------------------------------------------------------------------------
(* What the actions make of the files and of the list.                     *)

\* What was sound for fewer users is sound for more.
LEMMA Monotone ==
  ASSUME NEW fewer, NEW more, fewer \subseteq more, NEW f
  PROVE  /\ WrittenSound(f, fewer) => WrittenSound(f, more)
         /\ InstalledSound(f, fewer) => InstalledSound(f, more)
         /\ EntriesSound(f, fewer) => EntriesSound(f, more)
<1>1. \A t : NameChosen(t, fewer) => NameChosen(t, more)
  BY DEF NameChosen
<1>2. \A t : HashChosen(t, fewer) => HashChosen(t, more)
  BY DEF HashChosen
<1>3. WrittenSound(f, fewer) => WrittenSound(f, more)
  BY <1>1, <1>2 DEF WrittenSound
<1>4. InstalledSound(f, fewer) => InstalledSound(f, more)
  BY <1>1, <1>2 DEF InstalledSound, NextToDigest
<1>5. EntriesSound(f, fewer) => EntriesSound(f, more)
  BY <1>1, <1>2 DEF EntriesSound
<1> QED  BY <1>3, <1>4, <1>5

\* What create_user writes may be installed.
LEMMA Installable ==
  ASSUME NEW f \in Seq(Strings), NEW chosen, WrittenSound(f, chosen)
  PROVE  InstalledSound(f, chosen)
<1>1. Digests \cap Names = {} /\ Blank \notin Digests /\ Blank \notin Names
  BY StoreAssumption DEF Digests
<1>2. Len(f) \in Nat
  OBVIOUS
<1>3. \A k \in 1..Len(f) : /\ f[k] # Blank
                           /\ f[k] \in Digests => HashChosen(f[k], chosen)
                           /\ f[k] \in Names => NameChosen(f[k], chosen)
  BY <1>1 DEF WrittenSound
<1>4. NextToDigest(f, chosen)
  BY <1>2, <1>3 DEF NextToDigest
<1> QED  BY <1>3, <1>4 DEF InstalledSound

\* A name or a digest is written.
LEMMA OneMore ==
  ASSUME NEW f \in Seq(Strings), NEW chosen, WrittenSound(f, chosen),
         NEW t \in Strings,
         \/ t \in Names /\ NameChosen(t, chosen)
         \/ t \in Digests /\ HashChosen(t, chosen)
  PROVE  WrittenSound(Append(f, t), chosen)
<1> DEFINE g == Append(f, t)
<1>1. /\ Len(g) = Len(f) + 1 /\ Len(f) \in Nat
      /\ g[Len(f) + 1] = t
      /\ \A k \in 1..Len(f) : g[k] = f[k]
  OBVIOUS
<1> HIDE DEF g
<1>2. \A k \in 1..Len(g) : k \in 1..Len(f) \/ k = Len(f) + 1
  BY <1>1
<1>3. WrittenSound(g, chosen)
  BY <1>1, <1>2 DEF WrittenSound
<1> QED  BY <1>3 DEF g

\* add_user writes no digest.
LEMMA TwoMore ==
  ASSUME NEW f \in Seq(Strings), NEW chosen, InstalledSound(f, chosen),
         NEW n \in Names, NEW p \in Passwords
  PROVE  /\ f \o <<n, p>> \in Seq(Strings)
         /\ InstalledSound(f \o <<n, p>>, chosen)
<1> DEFINE g == f \o <<n, p>>
<1>1. n \in Strings /\ p \in Strings
  BY DEF Strings
<1>2. n # Blank /\ p # Blank /\ n \notin Digests /\ p \notin Digests
  BY StoreAssumption DEF Digests
<1>3. /\ g \in Seq(Strings) /\ Len(g) = Len(f) + 2 /\ Len(f) \in Nat
      /\ g[Len(f) + 1] = n /\ g[Len(f) + 2] = p
      /\ \A k \in 1..Len(f) : g[k] = f[k]
  BY <1>1
<1> HIDE DEF g
<1>4. \A k \in 1..Len(g) : k \in 1..Len(f) \/ k = Len(f) + 1 \/ k = Len(f) + 2
  BY <1>3
<1>5. \A k \in 1..Len(g) : /\ g[k] # Blank
                           /\ g[k] \in Digests => HashChosen(g[k], chosen)
  BY <1>2, <1>3, <1>4 DEF InstalledSound
<1>6. ASSUME NEW k \in 1..(Len(g) - 1), g[k] \in Names, g[k + 1] \in Digests
      PROVE  NameChosen(g[k], chosen)
  <2>1. k + 1 \in 1..Len(f) /\ k \in 1..(Len(f) - 1)
    BY <1>2, <1>3, <1>6
  <2> QED  BY <1>3, <1>6, <2>1 DEF InstalledSound, NextToDigest
<1>7. Len(g) - 1 = Len(f) + 1 /\ g[Len(g) - 1] \notin Digests
  BY <1>2, <1>3
<1>8. NextToDigest(g, chosen)
  BY <1>6, <1>7 DEF NextToDigest
<1> QED  BY <1>3, <1>5, <1>8 DEF InstalledSound, g

-----------------------------------------------------------------------------
(* The invariant, action by action.                                        *)

LEMMA InitInv == Init => IInv
<1> SUFFICES ASSUME Init  PROVE IInv
  OBVIOUS
<1>1. TypeOK
  <2>1. <<>> \in Seq(Strings) /\ <<>> \in Seq([username : Strings, password : Strings])
    OBVIOUS
  <2>2. files \in [{"user", "users"} -> Seq(Strings)]
    BY <2>1 DEF Init
  <2>3. creator \in [Creators -> NewUsers \cup {Nobody}]
    BY DEF Init
  <2> QED  BY <2>1, <2>2, <2>3 DEF Init, TypeOK
<1>2. \A c \in Creators : creator[c] = Nobody
  BY DEF Init
<1>3. /\ files["user"] = <<>> /\ files["users"] = <<>> /\ list = <<>>
      /\ Len(<<>>) = 0
  BY DEF Init
<1>4. WrittenSound(<<>>, begun) /\ InstalledSound(<<>>, begun) /\ EntriesSound(<<>>, begun)
  BY <1>3 DEF WrittenSound, InstalledSound, NextToDigest, EntriesSound
<1> QED  BY <1>1, <1>2, <1>3, <1>4 DEF IInv

LEMMA BootInv == IInv /\ Boot => IInv'
<1> SUFFICES ASSUME IInv, Boot  PROVE IInv'
  OBVIOUS
<1>1. files["users"] \in Seq(Strings)
  BY DEF IInv, TypeOK
<1>2. /\ list' \in Seq([username : Strings, password : Strings])
      /\ EntriesSound(list', begun)
  BY <1>1, LoadSound DEF IInv, Boot
<1>3. TypeOK'
  BY <1>2 DEF IInv, TypeOK, Boot
<1> QED  BY <1>2, <1>3 DEF IInv, Boot

LEMMA StopInv == IInv /\ Stop => IInv'
<1> SUFFICES ASSUME IInv, Stop  PROVE IInv'
  OBVIOUS
<1>1. TypeOK'
  <2>1. <<>> \in Seq([username : Strings, password : Strings])
    OBVIOUS
  <2> QED  BY <2>1 DEF IInv, TypeOK, Stop
<1>2. list' = <<>> /\ Len(<<>>) = 0
  BY DEF Stop
<1>3. EntriesSound(list', begun)
  BY <1>2 DEF EntriesSound
<1> QED  BY <1>1, <1>3 DEF IInv, Stop

LEMMA AddUserInv ==
  ASSUME NEW u \in NewUsers, IInv, AddUser(u)
  PROVE  IInv'
<1> DEFINE new == User(u.name, u.password)
<1>1. u.name \in Names /\ u.password \in Passwords
  BY DEF NewUsers
<1>2. files["users"] \in Seq(Strings)
  BY DEF IInv, TypeOK
<1>3. /\ files'["users"] = files["users"] \o <<u.name, u.password>>
      /\ files'["user"] = files["user"]
      /\ files' \in [{"user", "users"} -> Seq(Strings)]
      /\ InstalledSound(files'["users"], begun)
  BY <1>1, <1>2, TwoMore DEF IInv, TypeOK, AddUser
<1>4. /\ new \in [username : Strings, password : Strings]
      /\ new.username # Blank /\ new.password \notin Digests
  BY <1>1, StoreAssumption DEF User, Strings, Digests
<1>5. list \in Seq([username : Strings, password : Strings]) /\ list' = Append(list, new)
  BY DEF IInv, TypeOK, AddUser
<1> HIDE DEF new
<1>6. /\ list' \in Seq([username : Strings, password : Strings])
      /\ Len(list') = Len(list) + 1 /\ Len(list) \in Nat
      /\ list'[Len(list) + 1] = new
      /\ \A i \in 1..Len(list) : list'[i] = list[i]
  BY <1>4, <1>5
<1>7. \A i \in 1..Len(list') : i \in 1..Len(list) \/ i = Len(list) + 1
  BY <1>6
<1>8. EntriesSound(list', begun)
  BY <1>4, <1>6, <1>7 DEF EntriesSound, IInv
<1>9. TypeOK'
  BY <1>3, <1>6 DEF IInv, TypeOK, AddUser
<1> QED  BY <1>3, <1>8, <1>9 DEF IInv, AddUser

LEMMA WriteNameInv ==
  ASSUME NEW c \in Creators, NEW u \in NewUsers, IInv, WriteName(c, u)
  PROVE  IInv'
<1>1. u.name \in Names /\ u.name \in Strings
  BY DEF NewUsers, Strings
<1>2. files["user"] \in Seq(Strings)
  BY DEF IInv, TypeOK
<1>3. /\ files'["user"] = Append(files["user"], u.name)
      /\ files'["users"] = files["users"]
      /\ files' \in [{"user", "users"} -> Seq(Strings)]
  BY <1>1, <1>2 DEF IInv, TypeOK, WriteName
<1>4. begun' = begun \cup {u} /\ begun \subseteq begun'
  BY DEF WriteName
<1>5. /\ WrittenSound(files["user"], begun')
      /\ InstalledSound(files["users"], begun')
      /\ EntriesSound(list, begun')
  BY <1>4, Monotone DEF IInv
<1>6. NameChosen(u.name, begun')
  BY <1>4 DEF NameChosen
<1>7. WrittenSound(files'["user"], begun')
  BY <1>1, <1>2, <1>3, <1>5, <1>6, OneMore
<1>8. TypeOK'
  BY <1>3 DEF IInv, TypeOK, WriteName
<1>9. \A d \in Creators : creator'[d] \in begun' \cup {Nobody}
  BY <1>4 DEF IInv, TypeOK, WriteName
<1> QED  BY <1>3, <1>5, <1>7, <1>8, <1>9 DEF IInv, WriteName

LEMMA WriteHashInv ==
  ASSUME NEW c \in Creators, IInv, WriteHash(c)
  PROVE  IInv'
<1> DEFINE h == Hash[creator[c].password]
<1>1. creator[c] \in begun /\ creator[c] \in NewUsers
  BY DEF IInv, TypeOK, WriteHash
<1>2. creator[c].password \in Passwords
  BY <1>1 DEF NewUsers
<1>3. h \in Strings /\ h \in Digests /\ HashChosen(h, begun)
  BY <1>1, <1>2, StoreAssumption DEF Strings, Digests, HashChosen
<1>4. files["user"] \in Seq(Strings)
  BY DEF IInv, TypeOK
<1>5. /\ files'["user"] = Append(files["user"], h)
      /\ files'["users"] = files["users"]
      /\ files' \in [{"user", "users"} -> Seq(Strings)]
  BY <1>3, <1>4 DEF IInv, TypeOK, WriteHash
<1>6. WrittenSound(files'["user"], begun)
  BY <1>3, <1>4, <1>5, OneMore DEF IInv
<1>7. TypeOK'
  BY <1>1, <1>5 DEF IInv, TypeOK, WriteHash
<1>8. \A d \in Creators : creator'[d] \in begun \cup {Nobody}
  BY DEF IInv, TypeOK, WriteHash
<1> QED  BY <1>5, <1>6, <1>7, <1>8 DEF IInv, WriteHash

LEMMA DieInv ==
  ASSUME NEW c \in Creators, IInv, Die(c)
  PROVE  IInv'
<1>1. TypeOK'
  BY DEF IInv, TypeOK, Die
<1>2. \A d \in Creators : creator'[d] \in begun \cup {Nobody}
  BY DEF IInv, TypeOK, Die
<1> QED  BY <1>1, <1>2 DEF IInv, Die

LEMMA InstallInv == IInv /\ Install => IInv'
<1> SUFFICES ASSUME IInv, Install  PROVE IInv'
  OBVIOUS
<1>1. files["user"] \in Seq(Strings)
  BY DEF IInv, TypeOK
<1>2. /\ files'["users"] = files["user"]
      /\ files'["user"] = files["user"]
      /\ files' \in [{"user", "users"} -> Seq(Strings)]
  BY DEF IInv, TypeOK, Install
<1>3. InstalledSound(files'["users"], begun)
  BY <1>1, <1>2, Installable DEF IInv
<1>4. TypeOK'
  BY <1>2 DEF IInv, TypeOK, Install
<1> QED  BY <1>2, <1>3, <1>4 DEF IInv, Install

LEMMA StutterInv == IInv /\ UNCHANGED vars => IInv'
BY DEF IInv, TypeOK, vars

\* What may stand in the files and in the list, in every state.
THEOREM Inductive == Spec => []IInv
<1>1. IInv /\ [Next]_vars => IInv'
  BY BootInv, StopInv, AddUserInv, WriteNameInv, WriteHashInv, DieInv,
     InstallInv, StutterInv DEF Next
<1> QED  BY InitInv, <1>1, PTL DEF Spec

\* However create_user is interleaved or cut, and whatever the server loads
\* when, its list has no password that nobody chose, and what does not parse
\* is not in it.
THEOREM SoundList == Spec => []ListSound
<1>1. IInv => ListSound
  <2> SUFFICES ASSUME IInv  PROVE ListSound
    OBVIOUS
  <2>1. TypeOK /\ EntriesSound(list, begun)
    BY DEF IInv
  <2>2. MalformedNeverValid
    BY <2>1, StoreAssumption DEF MalformedNeverValid, Exists, EntriesSound
  <2>3. NoInventedPassword
    BY <2>1 DEF NoInventedPassword, Exists, EntriesSound, Digests,
                NameChosen, HashChosen
  <2> QED  BY <2>1, <2>2, <2>3 DEF ListSound
<1> QED  BY Inductive, <1>1, PTL

-----------------------------------------------------------------------------
(* What was written is read.                                               *)

\* The first m pairs of tokens of f are the users made, all of them and no
\* others.
PairsOf(f, m, made) ==
  /\ \A i \in 1..m : \E u \in made :
       f[2*i - 1] = u.name /\ f[2*i] = Hash[u.password]
  /\ \A u \in made : \E i \in 1..m :
       f[2*i - 1] = u.name /\ f[2*i] = Hash[u.password]

\* As long as the processes were orderly, the file is made of pairs, and of a
\* name more while one of them is between its writes: WrittenIsRead speaks of
\* the time between, and what was begun then is what it finds in the end.
WholePairs(m) ==
  /\ Len(files["user"]) = 2 * m
  /\ \A c \in Creators : creator[c] = Nobody

OneBegun(m) ==
  /\ Len(files["user"]) = 2 * m + 1
  /\ \E c \in Creators :
       /\ creator[c] # Nobody
       /\ files["user"][2 * m + 1] = creator[c].name
       /\ \A d \in Creators \ {c} : creator[d] = Nobody

Pairs == orderly => \E m \in Nat : /\ PairsOf(files["user"], m, created)
                                   /\ WholePairs(m) \/ OneBegun(m)

\* A token behind the pairs leaves them as they are.
LEMMA PairsKept ==
  ASSUME NEW f \in Seq(Strings), NEW m \in Nat, 2 * m <= Len(f),
         NEW made, PairsOf(f, m, made), NEW t \in Strings
  PROVE  PairsOf(Append(f, t), m, made)
<1> DEFINE g == Append(f, t)
<1>1. \A i \in 1..m : 2*i - 1 \in 1..Len(f) /\ 2*i \in 1..Len(f)
  OBVIOUS
<1>2. \A k \in 1..Len(f) : g[k] = f[k]
  OBVIOUS
<1> HIDE DEF g
<1>3. PairsOf(g, m, made)
  BY <1>1, <1>2 DEF PairsOf
<1> QED  BY <1>3 DEF g

\* A digest behind a name makes a pair.
LEMMA PairMade ==
  ASSUME NEW f \in Seq(Strings), NEW m \in Nat, Len(f) = 2 * m + 1,
         NEW made, PairsOf(f, m, made), NEW u, f[2 * m + 1] = u.name,
         Hash[u.password] \in Strings
  PROVE  PairsOf(Append(f, Hash[u.password]), m + 1, made \cup {u})
<1> DEFINE g == Append(f, Hash[u.password])
<1>1. PairsOf(g, m, made)
  BY PairsKept
<1>2. g[2*(m + 1) - 1] = u.name /\ g[2*(m + 1)] = Hash[u.password]
  OBVIOUS
<1> HIDE DEF g
<1>3. \A i \in 1..(m + 1) : i \in 1..m \/ i = m + 1
  OBVIOUS
<1>4. \A i \in 1..(m + 1) : \E v \in made \cup {u} :
        g[2*i - 1] = v.name /\ g[2*i] = Hash[v.password]
  <2>1. ASSUME NEW i \in 1..m
        PROVE  \E v \in made \cup {u} : g[2*i - 1] = v.name /\ g[2*i] = Hash[v.password]
    BY <1>1 DEF PairsOf
  <2> QED  BY <1>2, <1>3, <2>1
<1>5. \A v \in made \cup {u} : \E i \in 1..(m + 1) :
        g[2*i - 1] = v.name /\ g[2*i] = Hash[v.password]
  <2>1. m + 1 \in 1..(m + 1) /\ \A i \in 1..m : i \in 1..(m + 1)
    OBVIOUS
  <2> QED  BY <1>1, <1>2, <2>1 DEF PairsOf
<1>6. PairsOf(g, m + 1, made \cup {u})
  BY <1>4, <1>5 DEF PairsOf
<1> QED  BY <1>6 DEF g

\* A file of pairs loads to its pairs: the round at the end repeats the last.
LEMMA PairsLoaded ==
  ASSUME NEW f \in Seq(Strings), NEW m \in Nat, Len(f) = 2 * m,
         NEW made, PairsOf(f, m, made), NEW n \in Names, NEW p \in Passwords
  PROVE  Exists(n, p, Load(f))
           <=> \E u \in made : u.name = n /\ Hash[u.password] = Hash[p]
<1>1. Len(f) \div 2 + 1 = m + 1
  OBVIOUS
<1>2. /\ Len(Load(f)) = m + 1
      /\ \A i \in 1..(m + 1) :
           Load(f)[i] = User(Extracted(f, 2*i - 1), Extracted(f, 2*i))
  BY <1>1 DEF Load
<1>3. \A i \in 1..m : /\ 2*i - 1 <= Len(f) /\ 2*i <= Len(f)
  OBVIOUS
<1>4. \A i \in 1..m : /\ i \in 1..Len(Load(f))
                      /\ Load(f)[i].username = f[2*i - 1]
                      /\ Load(f)[i].password = f[2*i]
  <2>1. \A i \in 1..m : i \in 1..(m + 1)
    OBVIOUS
  <2> QED  BY <1>2, <1>3, <2>1 DEF Extracted, User
<1>5. ASSUME NEW i \in 1..(m + 1), n = Load(f)[i].username,
             Hash[p] = Load(f)[i].password
      PROVE  \E j \in 1..m : n = f[2*j - 1] /\ Hash[p] = f[2*j]
  <2>1. CASE i \in 1..m
    BY <1>4, <1>5, <2>1
  <2>2. CASE i = m + 1 /\ m = 0
    <3>1. Extracted(f, 2*i - 1) = Blank
      BY <2>2 DEF Extracted
    <3> QED  BY <1>2, <1>5, <3>1, StoreAssumption DEF User
  <2>3. CASE i = m + 1 /\ m # 0
    <3>1. Extracted(f, 2*i - 1) = f[2*m - 1] /\ Extracted(f, 2*i) = f[2*m]
      BY <2>3 DEF Extracted
    <3>2. m \in 1..m
      BY <2>3
    <3> QED  BY <1>2, <1>5, <3>1, <3>2 DEF User
  <2>4. i \in 1..m \/ i = m + 1
    OBVIOUS
  <2> QED  BY <2>1, <2>2, <2>3, <2>4
<1>6. ASSUME Exists(n, p, Load(f))
      PROVE  \E u \in made : u.name = n /\ Hash[u.password] = Hash[p]
  <2>1. PICK j \in 1..m : n = f[2*j - 1] /\ Hash[p] = f[2*j]
    BY <1>2, <1>5, <1>6 DEF Exists
  <2> QED  BY <2>1 DEF PairsOf
<1>7. ASSUME NEW u \in made, u.name = n, Hash[u.password] = Hash[p]
      PROVE  Exists(n, p, Load(f))
  <2>1. PICK i \in 1..m : f[2*i - 1] = u.name /\ f[2*i] = Hash[u.password]
    BY DEF PairsOf
  <2>2. /\ i \in 1..Len(Load(f))
        /\ n = Load(f)[i].username
        /\ Hash[p] = Load(f)[i].password
    BY <1>4, <1>7, <2>1
  <2> QED  BY <2>2 DEF Exists
<1> QED  BY <1>6, <1>7

LEMMA PairsInit == Init => Pairs
<1> SUFFICES ASSUME Init  PROVE Pairs
  OBVIOUS
<1>1. Len(files["user"]) = 2 * 0 /\ created = {} /\ 0 \in Nat
  BY DEF Init
<1>2. PairsOf(files["user"], 0, created) /\ WholePairs(0)
  BY <1>1 DEF PairsOf, WholePairs, Init
<1> QED  BY <1>1, <1>2 DEF Pairs

LEMMA PairsWriteName ==
  ASSUME NEW c \in Creators, NEW u \in NewUsers, IInv, Pairs, WriteName(c, u)
  PROVE  Pairs'
<1> SUFFICES ASSUME orderly'  PROVE Pairs'
  BY DEF Pairs
<1>1. orderly /\ \A d \in Creators : creator[d] = Nobody
  BY DEF WriteName, IInv, TypeOK
<1>2. PICK m \in Nat : PairsOf(files["user"], m, created) /\ Len(files["user"]) = 2 * m
  BY <1>1 DEF Pairs, WholePairs, OneBegun
<1>3. /\ files["user"] \in Seq(Strings) /\ u.name \in Strings
      /\ files'["user"] = Append(files["user"], u.name)
  BY DEF IInv, TypeOK, WriteName, NewUsers, Strings
<1>4. PairsOf(files'["user"], m, created)
  BY <1>2, <1>3, PairsKept
<1>5. Len(files'["user"]) = 2 * m + 1 /\ files'["user"][2 * m + 1] = u.name
  BY <1>2, <1>3
<1>6. u # Nobody
  BY StoreAssumption DEF NewUsers, Nobody
<1>7. creator'[c] = u /\ \A d \in Creators \ {c} : creator'[d] = Nobody
  BY <1>1 DEF WriteName, IInv, TypeOK
<1>8. OneBegun(m)'
  BY <1>5, <1>6, <1>7 DEF OneBegun
<1>9. created' = created
  BY DEF WriteName
<1> QED  BY <1>4, <1>8, <1>9 DEF Pairs

LEMMA PairsWriteHash ==
  ASSUME NEW c \in Creators, IInv, Pairs, WriteHash(c)
  PROVE  Pairs'
<1> SUFFICES ASSUME orderly  PROVE Pairs'
  BY DEF Pairs, WriteHash
<1> DEFINE u == creator[c]
<1>1. u # Nobody /\ u \in NewUsers /\ u.password \in Passwords
  BY DEF WriteHash, IInv, TypeOK, NewUsers
<1>2. PICK m \in Nat : PairsOf(files["user"], m, created) /\ OneBegun(m)
  BY <1>1 DEF Pairs, WholePairs
<1>3. /\ Len(files["user"]) = 2 * m + 1
      /\ files["user"][2 * m + 1] = u.name
      /\ \A d \in Creators \ {c} : creator[d] = Nobody
  BY <1>1, <1>2 DEF OneBegun
<1>4. /\ files["user"] \in Seq(Strings) /\ Hash[u.password] \in Strings
      /\ files'["user"] = Append(files["user"], Hash[u.password])
      /\ created' = created \cup {u}
  BY <1>1, StoreAssumption DEF IInv, TypeOK, WriteHash, Strings
<1>5. PairsOf(files'["user"], m + 1, created')
  <2>1. PairsOf(Append(files["user"], Hash[u.password]), m + 1, created \cup {u})
    <3> HIDE DEF u
    <3> QED  BY <1>2, <1>3, <1>4, PairMade
  <2> QED  BY <1>4, <2>1
<1>6. Len(files'["user"]) = 2 * (m + 1)
  BY <1>3, <1>4
<1>7. \A d \in Creators : creator'[d] = Nobody
  BY <1>3 DEF WriteHash, IInv, TypeOK
<1>8. WholePairs(m + 1)'
  BY <1>6, <1>7 DEF WholePairs
<1> QED  BY <1>5, <1>8 DEF Pairs

\* Every other action leaves what create_user wrote, or ends the order.
LEMMA PairsUntouched ==
  ASSUME IInv, Pairs, files'["user"] = files["user"], created' = created,
         UNCHANGED <<creator, orderly>> \/ ~orderly'
  PROVE  Pairs'
<1> SUFFICES ASSUME orderly'  PROVE Pairs'
  BY DEF Pairs
<1>1. orderly /\ creator' = creator
  OBVIOUS
<1>2. PICK m \in Nat : /\ PairsOf(files["user"], m, created)
                       /\ WholePairs(m) \/ OneBegun(m)
  BY <1>1 DEF Pairs
<1>3. PairsOf(files'["user"], m, created')
  BY <1>2
<1>4. WholePairs(m)' \/ OneBegun(m)'
  BY <1>1, <1>2 DEF WholePairs, OneBegun
<1> QED  BY <1>3, <1>4 DEF Pairs

\* As long as every create_user ran to its end, and alone, the file loads to
\* exactly the users created, whatever the loop does at its end.
THEOREM WrittenRead == Spec => []WrittenIsRead
<1>1. IInv /\ Pairs /\ [Next]_vars => Pairs'
  <2> SUFFICES ASSUME IInv, Pairs, [Next]_vars  PROVE Pairs'
    OBVIOUS
  <2>1. CASE Boot \/ Stop \/ UNCHANGED vars
    BY <2>1, PairsUntouched DEF Boot, Stop, vars
  <2>2. CASE Install
    BY <2>2, PairsUntouched DEF Install, IInv, TypeOK
  <2>3. ASSUME NEW u \in NewUsers, AddUser(u)  PROVE Pairs'
    BY <2>3, PairsUntouched DEF AddUser, IInv, TypeOK
  <2>4. ASSUME NEW c \in Creators, NEW u \in NewUsers, WriteName(c, u)  PROVE Pairs'
    BY <2>4, PairsWriteName
  <2>5. ASSUME NEW c \in Creators, WriteHash(c)  PROVE Pairs'
    BY <2>5, PairsWriteHash
  <2>6. ASSUME NEW c \in Creators, Die(c)  PROVE Pairs'
    BY <2>6, PairsUntouched DEF Die
  <2> QED  BY <2>1, <2>2, <2>3, <2>4, <2>5, <2>6 DEF Next
<1>2. IInv /\ Pairs => WrittenIsRead
  <2> SUFFICES ASSUME IInv, Pairs, orderly, \A c \in Creators : creator[c] = Nobody,
                      NEW n \in Names, NEW p \in Passwords
               PROVE  Exists(n, p, Load(files["user"]))
                        <=> \E u \in created : /\ u.name = n
                                               /\ Hash[u.password] = Hash[p]
    BY DEF WrittenIsRead
  <2>1. PICK m \in Nat : PairsOf(files["user"], m, created) /\ Len(files["user"]) = 2 * m
    BY DEF Pairs, WholePairs, OneBegun
  <2>2. files["user"] \in Seq(Strings)
    BY DEF IInv, TypeOK
  <2> QED  BY <2>1, <2>2, PairsLoaded
<1> QED  BY Inductive, PairsInit, <1>1, <1>2, PTL DEF Spec
=============================================================================
