-------------------------- MODULE LoginServerProofs --------------------------
(***************************************************************************)
(* Proofs about LoginServer: its type invariant, that every connection is  *)
(* in one place, that whoever serves is the parent of every child, and     *)
(* that exhaustion is for good, for any set of connection attempts, any    *)
(* limits and any files.                                                   *)
(***************************************************************************)
EXTENDS LoginServer, FiniteSetTheorems, SequenceTheorems, TLAPS

\* A client that has not connected has left no trace in the server.
Untouched ==
  \A c \in Clients :
    client[c] = "idle" => /\ c \notin InQueue
                          /\ c \notin held
                          /\ child[c] = "none"

\* The invariant behind the theorems.  OneServant alone is not inductive: a
\* connection that is completed must not be one the server has already, which
\* Untouched says; and counting descriptors needs that they are finitely many.
IInv ==
  /\ TypeOK
  /\ OneServant
  /\ Untouched
  /\ OwnChildrenOnly
  /\ IsFiniteSet(held)

-----------------------------------------------------------------------------
(* The queue.                                                              *)

\* What is in the queue after a connection was added to it.
LEMMA QueueAppend ==
  ASSUME NEW c \in Clients, queue \in Seq(Clients), c \notin InQueue,
         \A i, j \in 1..Len(queue) : i # j => queue[i] # queue[j],
         queue' = Append(queue, c)
  PROVE  /\ queue' \in Seq(Clients)
         /\ Len(queue') = Len(queue) + 1
         /\ \A i, j \in 1..Len(queue') : i # j => queue'[i] # queue'[j]
         /\ \A d : d \in InQueue' => d \in InQueue \/ d = c
<1>1. /\ queue' \in Seq(Clients)
      /\ Len(queue') = Len(queue) + 1
      /\ queue'[Len(queue) + 1] = c
      /\ \A i \in 1..Len(queue) : queue'[i] = queue[i]
  OBVIOUS
<1>2. Len(queue) \in Nat
  OBVIOUS
<1>3. \A i \in 1..Len(queue) : queue[i] # c
  BY DEF InQueue
<1>4. \A i \in 1..Len(queue') : i \in 1..Len(queue) \/ i = Len(queue) + 1
  BY <1>1, <1>2
<1>5. \A i, j \in 1..Len(queue') : i # j => queue'[i] # queue'[j]
  BY <1>1, <1>3, <1>4
<1>6. \A d : d \in InQueue' => d \in InQueue \/ d = c
  BY <1>1, <1>4 DEF InQueue
<1> QED  BY <1>1, <1>5, <1>6

\* What is in the queue after its head was taken.
LEMMA QueueTail ==
  ASSUME queue \in Seq(Clients), queue # <<>>,
         \A i, j \in 1..Len(queue) : i # j => queue[i] # queue[j],
         queue' = Tail(queue)
  PROVE  /\ queue' \in Seq(Clients)
         /\ Len(queue') = Len(queue) - 1
         /\ \A i, j \in 1..Len(queue') : i # j => queue'[i] # queue'[j]
         /\ Head(queue) \in InQueue
         /\ \A d : d \in InQueue' => d \in InQueue /\ d # Head(queue)
<1>1. /\ queue' \in Seq(Clients)
      /\ Len(queue') = Len(queue) - 1
      /\ \A i \in 1..Len(queue') : queue'[i] = queue[i + 1]
      /\ Head(queue) = queue[1]
  OBVIOUS
<1>2. Len(queue) \in Nat /\ Len(queue) >= 1
  BY EmptySeq
<1>3. \A i \in 1..Len(queue') : i + 1 \in 2..Len(queue)
  BY <1>1, <1>2
<1>4. \A i, j \in 1..Len(queue') : i # j => queue'[i] # queue'[j]
  BY <1>1, <1>2, <1>3
<1>5. Head(queue) \in InQueue
  BY <1>1, <1>2 DEF InQueue
<1>6. \A d : d \in InQueue' => d \in InQueue /\ d # Head(queue)
  BY <1>1, <1>2, <1>3 DEF InQueue
<1> QED  BY <1>1, <1>4, <1>5, <1>6

-----------------------------------------------------------------------------
(* The invariant.                                                          *)

\* The server starts with nothing: no connection, no descriptor, no child.
LEMMA InitOK == Init => IInv
<1> SUFFICES ASSUME Init PROVE IInv
  OBVIOUS
<1>1. queue = <<>> /\ queue \in Seq(Clients) /\ Len(queue) = 0
  BY DEF Init
<1>2. InQueue = {}
  BY <1>1 DEF InQueue
<1>3. TypeOK
  <2>1. Len(queue) <= Backlog + 1
    BY <1>1, LimitsAssumption
  <2> QED  BY <1>1, <2>1 DEF Init, TypeOK
<1>4. OneServant
  BY <1>1, <1>2 DEF Init, OneServant
<1>5. Untouched /\ IsFiniteSet(held)
  BY <1>2, FS_EmptySet DEF Init, Untouched
<1>6. OwnChildrenOnly
  BY DEF Init, OwnChildrenOnly
<1> QED  BY <1>3, <1>4, <1>5, <1>6 DEF IInv

\* Booting, restarting and failing touch no connection.
LEMMA QuietOK ==
  ASSUME IInv, LoadUsers \/ ReadPrime \/ Listen \/ AcceptFails \/ Restart
  PROVE  IInv'
<1>1. UNCHANGED <<queue, cl, held, child, client>>
  BY DEF LoadUsers, ReadPrime, Listen, AcceptFails, Restart
<1>2. InQueue' = InQueue
  BY <1>1 DEF InQueue
<1>3. site.users \in {"missing", "empty", "some"}
  BY LimitsAssumption DEF IInv, TypeOK
<1>4. proc' \in {"load", "prime", "bind", "serving", "exited"}
  BY <1>3 DEF IInv, TypeOK, LoadUsers, ReadPrime, Listen, AcceptFails, Restart
<1>5. errors' \in BOOLEAN /\ UNCHANGED <<site, copies, linger>>
  BY DEF IInv, TypeOK, LoadUsers, ReadPrime, Listen, AcceptFails, Restart
<1>6. TypeOK'
  BY <1>1, <1>4, <1>5 DEF IInv, TypeOK
<1>7. OneServant' /\ Untouched' /\ IsFiniteSet(held')
  BY <1>1, <1>2 DEF IInv, OneServant, Untouched
<1>8. OwnChildrenOnly'
  <2>1. Running' = Running
    BY <1>1 DEF Running
  <2>2. CASE Listen
    BY <1>1, <2>1, <2>2 DEF Listen, PortBusy, OwnChildrenOnly
  <2>3. CASE AcceptFails
    BY <1>1, <2>1, <2>3 DEF IInv, AcceptFails, OwnChildrenOnly
  <2>4. CASE LoadUsers \/ ReadPrime \/ Restart
    <3>1. proc' # "serving"
      BY <1>3, <2>4 DEF LoadUsers, ReadPrime, Restart
    <3> QED  BY <3>1 DEF OwnChildrenOnly
  <2> QED  BY <2>2, <2>3, <2>4
<1> QED  BY <1>6, <1>7, <1>8 DEF IInv

\* A completed connection is new to the server.
LEMMA ConnectOK ==
  ASSUME IInv, NEW c \in Clients, Connect(c)
  PROVE  IInv'
<1> USE DEF IInv
<1>1. /\ client[c] = "idle" /\ Len(queue) <= Backlog
      /\ queue' = Append(queue, c)
      /\ client' = [client EXCEPT ![c] = "joined"]
      /\ UNCHANGED <<proc, site, cl, held, child, copies, linger, errors>>
  BY DEF Connect
<1>2. /\ c \notin InQueue /\ c \notin held /\ child[c] = "none"
  BY <1>1 DEF Untouched
<1>3. /\ queue' \in Seq(Clients)
      /\ Len(queue') = Len(queue) + 1
      /\ \A i, j \in 1..Len(queue') : i # j => queue'[i] # queue'[j]
      /\ \A d : d \in InQueue' => d \in InQueue \/ d = c
  BY <1>1, <1>2, QueueAppend DEF TypeOK, OneServant
<1>4. Len(queue') <= Backlog + 1
  BY <1>1, <1>3, LimitsAssumption DEF TypeOK
<1>5. client' \in [Clients -> {"idle", "joined", "left"}]
  BY <1>1 DEF TypeOK
<1>6. TypeOK'
  BY <1>1, <1>3, <1>4, <1>5 DEF TypeOK
<1>7. \A d \in InQueue' : child'[d] = "none" /\ d \notin held'
  BY <1>1, <1>2, <1>3 DEF OneServant
<1>8. OneServant'
  BY <1>1, <1>3, <1>7 DEF OneServant
<1>9. \A d \in Clients : client'[d] = "idle" => d # c /\ client[d] = "idle"
  BY <1>1 DEF TypeOK
<1>10. Untouched'
  BY <1>1, <1>3, <1>9 DEF Untouched
<1>11. OwnChildrenOnly'
  BY <1>1 DEF OwnChildrenOnly, Running
<1> QED  BY <1>1, <1>6, <1>8, <1>10, <1>11

\* An accepted connection leaves the queue, where it was once.
LEMMA AcceptOK ==
  ASSUME IInv, Accept
  PROVE  IInv'
<1> USE DEF IInv
<1> DEFINE h == Head(queue)
<1>1. /\ queue # <<>> /\ queue' = Tail(queue) /\ cl' = h
      /\ held' = held \cup {h}
      /\ UNCHANGED <<proc, site, child, copies, client, linger, errors>>
  BY DEF Accept
<1>2. /\ queue' \in Seq(Clients)
      /\ Len(queue') = Len(queue) - 1
      /\ \A i, j \in 1..Len(queue') : i # j => queue'[i] # queue'[j]
      /\ h \in InQueue
      /\ \A d : d \in InQueue' => d \in InQueue /\ d # h
  BY <1>1, QueueTail DEF TypeOK, OneServant
<1>3. h \in Clients /\ child[h] = "none"
  BY <1>1, <1>2 DEF TypeOK, OneServant
<1>4. client[h] # "idle"
  BY <1>2, <1>3 DEF Untouched
<1>5. Len(queue') <= Backlog + 1
  BY <1>1, <1>2, LimitsAssumption DEF TypeOK
<1>6. TypeOK'
  BY <1>1, <1>2, <1>3, <1>5 DEF TypeOK
<1>7. \A d \in InQueue' : child'[d] = "none" /\ d \notin held'
  BY <1>1, <1>2 DEF OneServant
<1>8. OneServant'
  BY <1>1, <1>2, <1>3, <1>7 DEF OneServant
<1>9. Untouched'
  BY <1>1, <1>2, <1>4 DEF Untouched
<1>10. IsFiniteSet(held')
  BY <1>1, FS_AddElement
<1>11. OwnChildrenOnly'
  BY <1>1 DEF OwnChildrenOnly, Running
<1> QED  BY <1>6, <1>8, <1>9, <1>10, <1>11

\* The child that is forked, if one is, is the first of its connection.
LEMMA ForkOK ==
  ASSUME IInv, Fork
  PROVE  IInv'
<1> USE DEF IInv
<1>1. /\ cl # NoClient /\ cl' = NoClient
      /\ \/ child' = [child EXCEPT ![cl] = "running"]
         \/ child' = child
      /\ copies' = [copies EXCEPT ![cl] = held]
      /\ UNCHANGED <<proc, site, queue, held, client, linger, errors>>
  BY DEF Fork
<1>2. cl \in Clients /\ cl \in held
  BY <1>1 DEF TypeOK, OneServant
<1>3. InQueue' = InQueue
  BY <1>1 DEF InQueue
<1>4. cl \notin InQueue /\ client[cl] # "idle"
  BY <1>2 DEF OneServant, Untouched
<1>5. child' \in [Clients -> {"none", "running", "zombie", "gone"}]
  BY <1>1, <1>2 DEF TypeOK
<1>6. copies' \in [Clients -> SUBSET Clients]
  BY <1>1, <1>2 DEF TypeOK
<1>7. TypeOK'
  BY <1>1, <1>5, <1>6 DEF TypeOK
<1>8. \A d \in Clients \ {cl} : child'[d] = child[d]
  BY <1>1, <1>2 DEF TypeOK
<1>9. \A d \in Clients : child'[d] = "zombie" => d \in held'
  BY <1>1, <1>2, <1>8 DEF OneServant
<1>10. InQueue \subseteq Clients
  BY DEF InQueue, TypeOK
<1>11. \A d \in InQueue' : child'[d] = "none" /\ d \notin held'
  BY <1>1, <1>3, <1>4, <1>8, <1>10 DEF OneServant
<1>12. OneServant'
  BY <1>1, <1>9, <1>11 DEF OneServant
<1>13. Untouched'
  BY <1>1, <1>3, <1>4, <1>8 DEF Untouched
<1>14. OwnChildrenOnly'
  BY <1>1, <1>2, <1>8 DEF OwnChildrenOnly, Running
<1> QED  BY <1>1, <1>7, <1>12, <1>13, <1>14

\* A child that ends is a zombie only of a parent that holds its connection.
LEMMA ChildEndsOK ==
  ASSUME IInv, NEW c \in Clients, ChildEnds(c)
  PROVE  IInv'
<1> USE DEF IInv
<1>1. /\ child[c] = "running"
      /\ child' = [child EXCEPT ![c] = IF c \in held THEN "zombie" ELSE "gone"]
      /\ UNCHANGED <<proc, site, queue, cl, held, copies, client, errors>>
      /\ linger' = linger \cup ClosedFirst
  BY DEF ChildEnds
<1>2. InQueue' = InQueue /\ InQueue \subseteq Clients
  BY <1>1 DEF InQueue, TypeOK
<1>3. child' \in [Clients -> {"none", "running", "zombie", "gone"}]
  BY <1>1 DEF TypeOK
<1>4. linger' \subseteq Clients
  BY <1>1 DEF TypeOK, ClosedFirst
<1>5. TypeOK'
  BY <1>1, <1>3, <1>4 DEF TypeOK
<1>6. \A d \in Clients : child'[d] = child[d] \/ d = c
  BY <1>1 DEF TypeOK
<1>7. c \notin InQueue /\ c # cl /\ client[c] # "idle"
  BY <1>1, LimitsAssumption DEF OneServant, Untouched, TypeOK
<1>8. \A d \in Clients : child'[d] = "zombie" => d \in held'
  BY <1>1, <1>6 DEF OneServant, TypeOK
<1>9. \A d \in InQueue' : child'[d] = "none" /\ d \notin held'
  BY <1>1, <1>2, <1>6, <1>7 DEF OneServant
<1>10. cl' # NoClient => cl' \in held' /\ child'[cl'] = "none"
  BY <1>1, <1>6, <1>7 DEF OneServant, TypeOK
<1>11. OneServant'
  BY <1>1, <1>8, <1>9, <1>10 DEF OneServant
<1>12. Untouched'
  BY <1>1, <1>2, <1>6, <1>7 DEF Untouched
<1>13. OwnChildrenOnly'
  BY <1>1, <1>6 DEF OwnChildrenOnly, Running, TypeOK
<1> QED  BY <1>1, <1>5, <1>11, <1>12, <1>13

\* A crash leaves no descriptor, so it must leave no zombie.
LEMMA CrashOK ==
  ASSUME IInv, Crash
  PROVE  IInv'
<1> USE DEF IInv
<1>1. /\ proc' = "exited" /\ queue' = <<>> /\ cl' = NoClient /\ held' = {}
      /\ child' = [c \in Clients |->
                     IF child[c] = "zombie" THEN "gone" ELSE child[c]]
      /\ UNCHANGED <<site, copies, client, errors>>
      /\ linger' = linger \cup ClosedFirst
  BY DEF Crash
<1>2. queue' \in Seq(Clients) /\ Len(queue') = 0
  BY <1>1
<1>3. InQueue' = {}
  BY <1>2 DEF InQueue
<1>4. child' \in [Clients -> {"none", "running", "zombie", "gone"}]
  BY <1>1 DEF TypeOK
<1>5. linger' \subseteq Clients
  BY <1>1 DEF TypeOK, ClosedFirst
<1>6. TypeOK'
  BY <1>1, <1>2, <1>4, <1>5, LimitsAssumption DEF TypeOK
<1>7. \A d \in Clients : child'[d] # "zombie"
                         /\ (child[d] = "none" => child'[d] = "none")
  BY <1>1
<1>8. OneServant'
  BY <1>1, <1>2, <1>3, <1>7 DEF OneServant
<1>9. Untouched'
  BY <1>1, <1>3, <1>7 DEF Untouched
<1>10. OwnChildrenOnly'
  BY <1>1 DEF OwnChildrenOnly
<1> QED  BY <1>1, <1>6, <1>8, <1>9, <1>10, FS_EmptySet

\* Clients that leave, and connections that expire, change nothing else.
LEMMA OthersOK ==
  ASSUME IInv, NEW c \in Clients, ClientLeaves(c) \/ Expire(c)
  PROVE  IInv'
<1> USE DEF IInv
<1>1. UNCHANGED <<proc, site, queue, cl, held, child, copies, errors>>
  BY DEF ClientLeaves, Expire
<1>2. InQueue' = InQueue
  BY <1>1 DEF InQueue
<1>3. /\ client' \in [Clients -> {"idle", "joined", "left"}]
      /\ \A d \in Clients : client'[d] = "idle" => client[d] = "idle"
  BY DEF TypeOK, ClientLeaves, Expire
<1>4. linger' \subseteq Clients
  BY DEF TypeOK, ClientLeaves, Expire
<1>5. TypeOK'
  BY <1>1, <1>3, <1>4 DEF TypeOK
<1>6. OneServant' /\ Untouched' /\ OwnChildrenOnly' /\ IsFiniteSet(held')
  BY <1>1, <1>2, <1>3 DEF OneServant, Untouched, OwnChildrenOnly, Running
<1> QED  BY <1>5, <1>6

\* Every step preserves the invariant.
LEMMA StepOK == IInv /\ [Next]_vars => IInv'
<1> SUFFICES ASSUME IInv, [Next]_vars PROVE IInv'
  OBVIOUS
<1>1. CASE Boot \/ AcceptFails \/ Restart
  BY <1>1, QuietOK DEF Boot
<1>2. CASE Accept
  BY <1>2, AcceptOK
<1>3. CASE Fork
  BY <1>3, ForkOK
<1>4. CASE Crash
  BY <1>4, CrashOK
<1>5. CASE \E c \in Clients :
             Connect(c) \/ ChildEnds(c) \/ ClientLeaves(c) \/ Expire(c)
  BY <1>5, ConnectOK, ChildEndsOK, OthersOK
<1>6. CASE UNCHANGED vars
  BY <1>6 DEF vars, IInv, TypeOK, OneServant, Untouched, InQueue,
             OwnChildrenOnly, Running
<1> QED  BY <1>1, <1>2, <1>3, <1>4, <1>5, <1>6 DEF Next, Loop

\* The invariant holds throughout, whatever the limits and the files.
THEOREM Inductive == Spec => []IInv
<1> QED  BY InitOK, StepOK, PTL DEF Spec

-----------------------------------------------------------------------------
(* What follows from it.                                                   *)

\* Every variable of the accepting process keeps to its values.
THEOREM TypeCorrect == Spec => []TypeOK
<1>1. IInv => TypeOK
  BY DEF IInv
<1> QED  BY <1>1, Inductive, PTL

\* A connection is never in two places, and never has a second child
\* (server.cpp:82-86).
THEOREM ServedOnce == Spec => []OneServant
<1>1. IInv => OneServant
  BY DEF IInv
<1> QED  BY <1>1, Inductive, PTL

\* Whoever serves is the parent of all who run: no two servers share the port,
\* not even through the children of one that died (server.cpp:71-74).
THEOREM SuccessorWaits == Spec => []OwnChildrenOnly
<1>1. IInv => OwnChildrenOnly
  BY DEF IInv
<1> QED  BY <1>1, Inductive, PTL

\* A process out of descriptors stays so until it is killed, and forks a
\* child for nobody but the connection it took last (server.cpp:86-162).
THEOREM ExhaustionStays == Spec => ExhaustedForGood
<1>1. ASSUME IInv, [Next]_vars, Cardinality(held) >= FdLimit, proc' = proc
      PROVE  /\ Cardinality(held') >= FdLimit
             /\ \A c \in Clients \ {cl} :
                  child[c] = "none" => child'[c] = "none"
  <2>1. Cardinality(held) \in Nat /\ FdLimit \in Nat
    BY <1>1, FS_CardinalityType, LimitsAssumption DEF IInv
  <2>2. ~Accept
    BY <1>1, <2>1 DEF Accept
  <2>3. ~Crash
    BY <1>1 DEF Crash
  <2>4. child \in [Clients -> {"none", "running", "zombie", "gone"}]
    BY <1>1 DEF IInv, TypeOK
  <2>5. CASE Fork
    BY <1>1, <2>4, <2>5 DEF Fork
  <2>6. CASE \E c \in Clients : ChildEnds(c)
    <3>1. PICK c \in Clients : ChildEnds(c)
      BY <2>6
    <3> QED  BY <1>1, <2>4, <3>1 DEF ChildEnds
  <2>7. CASE Boot \/ AcceptFails \/ Restart
    BY <1>1, <2>7 DEF Boot, LoadUsers, ReadPrime, Listen, AcceptFails, Restart
  <2>8. CASE \E c \in Clients : Connect(c) \/ ClientLeaves(c) \/ Expire(c)
    BY <1>1, <2>8 DEF Connect, ClientLeaves, Expire
  <2>9. CASE UNCHANGED vars
    BY <1>1, <2>9 DEF vars
  <2> QED  BY <1>1, <2>2, <2>3, <2>5, <2>6, <2>7, <2>8, <2>9 DEF Next, Loop
<1>2. IInv /\ [Next]_vars =>
        [ (Cardinality(held) >= FdLimit /\ proc' = proc)
            => /\ Cardinality(held') >= FdLimit
               /\ \A c \in Clients \ {cl} :
                    child[c] = "none" => child'[c] = "none" ]_vars
  BY <1>1
<1> QED  BY <1>2, Inductive, PTL DEF Spec, ExhaustedForGood
=============================================================================
