----------------------------- MODULE LoginServer -----------------------------
(***************************************************************************)
(* The accepting process of server.cpp: it boots (user list, parameter     *)
(* file, listening socket), then accepts connections and forks a child for *)
(* each, for as long as it lives.  It never closes an accepted descriptor  *)
(* and never waits for a child, so both pile up; when it dies, children    *)
(* and half-closed connections go on holding the port it must bind again.  *)
(* What a child and its client say to each other is LoginSession; here a   *)
(* session only starts and ends.                                           *)
(***************************************************************************)
EXTENDS Naturals, Sequences, FiniteSets

CONSTANTS
  Clients,    \* connection attempts
  NoClient,   \* no connection at hand
  FdLimit,    \* accepted descriptors the process may hold (RLIMIT_NOFILE)
  ProcLimit,  \* children the system lets it have, zombies included
  Backlog,    \* the argument of listen()
  Sites       \* what the files may be: [users, prime]

ASSUME LimitsAssumption ==
  /\ FdLimit \in Nat
  /\ ProcLimit \in Nat
  /\ Backlog \in Nat
  /\ NoClient \notin Clients
  /\ Sites \subseteq [users : {"missing", "empty", "some"},
                      prime : {"missing", "bad", "good"}]

VARIABLES
  proc,    \* where main() is: "load", "prime", "bind", "serving", "exited"
  site,    \* the files of the working directory
  queue,   \* connections completed by the kernel, not yet accepted
  cl,      \* the connection accepted last, until the fork returns
  held,    \* connections whose descriptor the process holds
  child,   \* child[c]: "none", "running", "zombie" or "gone"
  copies,  \* copies[c]: the descriptors c's child inherited at its fork
  client,  \* client[c]: "idle", "joined" or "left"
  linger,  \* connections the server's side closed first, still on the port
  errors   \* has accept() failed since the process started?

vars == <<proc, site, queue, cl, held, child, copies, client, linger, errors>>

InQueue == {queue[i] : i \in 1..Len(queue)}
Running == {c \in Clients : child[c] = "running"}
Processes == {c \in Clients : child[c] \in {"running", "zombie"}}

\* The server's end of c is open while any process holds it: the accepting
\* one, c's child, or a child forked after c was accepted.
Open(c) == c \in held \/ \E d \in Running : c \in copies[d]

\* Connections whose server's end closes in this step before the client's.
ClosedFirst == {c \in Clients : Open(c) /\ ~Open(c)' /\ client[c] = "joined"}

\* bind() is called without SO_REUSEADDR.
PortBusy == Running # {} \/ linger # {}

-----------------------------------------------------------------------------
(* Booting.                                                                *)

\* A missing users file never reaches its end: the list grows until memory
\* is gone.  An empty one makes a list of one, and user_list[1], printed
\* next, is out of its bounds.
LoadUsers ==
  /\ proc = "load"
  /\ proc' \in CASE site.users = "missing" -> {"exited"}
                 [] site.users = "empty"   -> {"exited", "prime"}
                 [] site.users = "some"    -> {"prime"}
  /\ UNCHANGED <<site, queue, cl, held, child, copies, client, linger, errors>>

\* Mutant of ReadPrime: the test of mpi_read_file is inverted.
ReadPrimeInverted ==
  /\ proc = "prime"
  /\ proc' = IF site.prime = "bad" THEN "bind" ELSE "exited"
  /\ UNCHANGED <<site, queue, cl, held, child, copies, client, linger, errors>>

ReadPrime ==
  /\ proc = "prime"
  /\ proc' = IF site.prime = "good" THEN "bind" ELSE "exited"
  /\ UNCHANGED <<site, queue, cl, held, child, copies, client, linger, errors>>

\* Mutant of Listen: SO_REUSEADDR is set before the bind.
ListenReusing ==
  /\ proc = "bind"
  /\ proc' = "serving"
  /\ UNCHANGED <<site, queue, cl, held, child, copies, client, linger, errors>>

Listen ==
  /\ proc = "bind"
  /\ proc' = IF PortBusy THEN "exited" ELSE "serving"
  /\ UNCHANGED <<site, queue, cl, held, child, copies, client, linger, errors>>

-----------------------------------------------------------------------------
(* The accept loop.                                                        *)

\* The kernel completes connections while the queue holds no more than
\* Backlog of them, accept() or not.
Connect(c) ==
  /\ proc = "serving"
  /\ client[c] = "idle"
  /\ Len(queue) <= Backlog
  /\ queue' = Append(queue, c)
  /\ client' = [client EXCEPT ![c] = "joined"]
  /\ UNCHANGED <<proc, site, cl, held, child, copies, linger, errors>>

\* Mutant of Accept: the connection stays in the queue.
AcceptPeeks ==
  /\ proc = "serving"
  /\ cl = NoClient
  /\ queue # <<>>
  /\ Cardinality(held) < FdLimit
  /\ cl' = Head(queue)
  /\ queue' = queue
  /\ held' = held \cup {cl'}
  /\ UNCHANGED <<proc, site, child, copies, client, linger, errors>>

Accept ==
  /\ proc = "serving"
  /\ cl = NoClient
  /\ queue # <<>>
  /\ Cardinality(held) < FdLimit
  /\ cl' = Head(queue)
  /\ queue' = Tail(queue)
  /\ held' = held \cup {cl'}
  /\ UNCHANGED <<proc, site, child, copies, client, linger, errors>>

\* Out of descriptors: accept() returns -1, leaves the connection where it
\* is, and the loop calls it again.
AcceptFails ==
  /\ proc = "serving"
  /\ cl = NoClient
  /\ queue # <<>>
  /\ Cardinality(held) >= FdLimit
  /\ errors' = TRUE
  /\ UNCHANGED <<proc, site, queue, cl, held, child, copies, client, linger>>

\* Mutant of Fork: one child at a time.
ForkOnlyOnce ==
  /\ proc = "serving"
  /\ cl # NoClient
  /\ child' = IF Processes = {}
              THEN [child EXCEPT ![cl] = "running"] ELSE child
  /\ copies' = [copies EXCEPT ![cl] = held]
  /\ cl' = NoClient
  /\ UNCHANGED <<proc, site, queue, held, client, linger, errors>>

\* fork() == 0 is the child; the parent, which also takes -1 for "not the
\* child", goes back to accept() with cl open.
Fork ==
  /\ proc = "serving"
  /\ cl # NoClient
  /\ child' = IF Cardinality(Processes) < ProcLimit
              THEN [child EXCEPT ![cl] = "running"] ELSE child
  /\ copies' = [copies EXCEPT ![cl] = held]
  /\ cl' = NoClient
  /\ UNCHANGED <<proc, site, queue, held, client, linger, errors>>

-----------------------------------------------------------------------------
(* Sessions end, processes die, the operator starts the server again.      *)

\* Mutant of ChildEnds: the parent reaps the child and closes its descriptor.
ChildEndsReaped(c) ==
  /\ child[c] = "running"
  /\ child' = [child EXCEPT ![c] = "gone"]
  /\ held' = held \ {c}
  /\ UNCHANGED <<proc, site, queue, cl, copies, client, linger, errors>>

\* A child returns from main(), or dies: it stays a zombie of a parent that
\* does not wait.  Its close ends the connection only if nobody else has it.
ChildEnds(c) ==
  /\ child[c] = "running"
  /\ child' = [child EXCEPT ![c] = IF c \in held THEN "zombie" ELSE "gone"]
  /\ UNCHANGED <<proc, site, queue, cl, held, copies, client, errors>>
  /\ linger' = linger \cup ClosedFirst

ClientLeaves(c) ==
  /\ client[c] = "joined"
  /\ client' = [client EXCEPT ![c] = "left"]
  /\ UNCHANGED <<proc, site, queue, cl, held, child, copies, linger, errors>>

\* The accepting process is killed: its descriptors close and init reaps its
\* zombies, but running children, and what they hold, stay.
Crash ==
  /\ proc = "serving"
  /\ proc' = "exited"
  /\ queue' = <<>>
  /\ cl' = NoClient
  /\ held' = {}
  /\ child' = [c \in Clients |->
                 IF child[c] = "zombie" THEN "gone" ELSE child[c]]
  /\ UNCHANGED <<site, copies, client, errors>>
  /\ linger' = linger \cup ClosedFirst

Restart ==
  /\ proc = "exited"
  /\ proc' = "load"
  /\ errors' = FALSE
  /\ UNCHANGED <<site, queue, cl, held, child, copies, client, linger>>

\* The end of a connection's TIME_WAIT.
Expire(c) ==
  /\ c \in linger
  /\ linger' = linger \ {c}
  /\ UNCHANGED <<proc, site, queue, cl, held, child, copies, client, errors>>

-----------------------------------------------------------------------------

Init ==
  /\ proc = "load"
  /\ site \in Sites
  /\ queue = <<>>
  /\ cl = NoClient
  /\ held = {}
  /\ child = [c \in Clients |-> "none"]
  /\ copies = [c \in Clients |-> {}]
  /\ client = [c \in Clients |-> "idle"]
  /\ linger = {}
  /\ errors = FALSE

Boot == LoadUsers \/ ReadPrime \/ Listen
Loop == Accept \/ AcceptFails \/ Fork

Next ==
  \/ Boot
  \/ Loop
  \/ Crash
  \/ Restart
  \/ \E c \in Clients :
       Connect(c) \/ ChildEnds(c) \/ ClientLeaves(c) \/ Expire(c)

Spec == Init /\ [][Next]_vars

\* The process runs when it can, TIME_WAIT ends, and the operator starts the
\* server again for as long as it exits; children, clients and crashes are
\* owed nothing.
FairSpec ==
  /\ Spec
  /\ WF_vars(Boot)
  /\ WF_vars(Loop)
  /\ WF_vars(Restart)
  /\ \A c \in Clients : WF_vars(Expire(c))

-----------------------------------------------------------------------------
(* What the accepting process guarantees, and what it costs.               *)

\* Every variable keeps to its values, and the queue to the kernel's bound.
TypeOK ==
  /\ proc \in {"load", "prime", "bind", "serving", "exited"}
  /\ site \in Sites
  /\ queue \in Seq(Clients)
  /\ Len(queue) <= Backlog + 1
  /\ cl \in Clients \cup {NoClient}
  /\ held \subseteq Clients
  /\ child \in [Clients -> {"none", "running", "zombie", "gone"}]
  /\ copies \in [Clients -> SUBSET Clients]
  /\ client \in [Clients -> {"idle", "joined", "left"}]
  /\ linger \subseteq Clients
  /\ errors \in BOOLEAN

\* A connection is in one place: waiting in the queue once and untouched, or
\* in the hands of the loop, or past it with at most the one child that was
\* forked for it (server.cpp:82-86).
OneServant ==
  /\ \A i, j \in 1..Len(queue) : i # j => queue[i] # queue[j]
  /\ \A c \in InQueue : child[c] = "none" /\ c \notin held
  /\ cl # NoClient => cl \in held /\ child[cl] = "none"
  /\ \A c \in Clients : child[c] = "zombie" => c \in held

\* Once the process holds all the descriptors it may have, it does so until
\* it is killed, however many of the sessions end, and serves nobody but the
\* connection it took last: cl is never closed (server.cpp:86-162).
ExhaustedForGood ==
  [][ (Cardinality(held) >= FdLimit /\ proc' = proc)
        => /\ Cardinality(held') >= FdLimit
           /\ \A c \in Clients \ {cl} :
                child[c] = "none" => child'[c] = "none" ]_vars

\* A process that serves is the parent of every child that runs: one started
\* after a crash serves only when the sessions of its predecessors are over,
\* since a living child holds the port (server.cpp:71-74), and all it forks
\* after that it holds.
OwnChildrenOnly == proc = "serving" => Running \subseteq held

\* Every connection the kernel took is served by a child, unless the accepting
\* process is killed first: only a lack of descriptors may keep it in the queue,
\* and only a lack of processes may take its child from it.
EveryoneServed ==
  \A c \in Clients :
    (c \in InQueue) ~>
      \/ child[c] # "none"
      \/ proc # "serving"
      \/ c \in InQueue /\ Cardinality(held) >= FdLimit
      \/ Cardinality(Processes) >= ProcLimit

\* With good files, a server that is down comes back once the sessions it
\* left behind are over.
ComesBack ==
  (proc = "exited" /\ Running = {} /\ site = [users |-> "some", prime |-> "good"])
    ~> (proc = "serving")
=============================================================================
