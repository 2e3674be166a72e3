------------------------------ MODULE Generator ------------------------------
(***************************************************************************)
(* The random numbers behind the key exchange: the entropy pool            *)
(* (entropy.c) and the CTR_DRBG generator (ctr_drbg.c) that server.cpp     *)
(* sets up once, before its accept loop, and that every fork copies.       *)
(*                                                                         *)
(* What a hash or a block cipher makes of its inputs is represented by the *)
(* inputs: two pools or two generators are equal exactly if they were fed  *)
(* the same samples and stepped equally often.  Processes share no memory, *)
(* so the calls of different processes are taken one at a time; within a   *)
(* call, each source is polled in a step of its own.                       *)
(***************************************************************************)
EXTENDS Integers, FiniteSets, FiniteSetsExt

CONSTANTS
  Procs,      \* the server and the children it may fork
  Server,     \* the process that initialises the generator
  Drawers,    \* those that draw: server.cpp's children, client.cpp itself
  Sources,    \* the number of entropy sources, polled in the order 1, 2, ...
  Threshold,  \* Threshold[s]: bytes a seed must have from source s
  Yields,     \* Yields[s]: the byte counts one poll of s may return
  MaxLoop,    \* ENTROPY_MAX_LOOP
  Interval,   \* CTR_DRBG_RESEED_INTERVAL
  MaxCalls    \* bound: calls one process makes

ASSUME GeneratorAssumption ==
  /\ Server \in Procs
  /\ Drawers \subseteq Procs
  /\ Sources \in Nat \ {0}
  /\ Threshold \in [1..Sources -> Nat]
  /\ Yields \in [1..Sources -> SUBSET Nat]
  /\ MaxLoop \in Nat
  /\ Interval \in Nat \ {0}
  /\ MaxCalls \in Nat

VARIABLES
  pc,       \* pc[p]: "unborn", "idle", or where in a call p is
  count,    \* count[p]: rounds of gathering this call of entropy_func began
  at,       \* at[p]: the source to be polled next
  size,     \* size[p][s]: bytes of source s since the last seed
  pool,     \* pool[p]: the samples that went into the accumulator
  handed,   \* handed[p]: those of them that an earlier seed came from
  fresh,    \* fresh[p]: the samples that are new in p's last seed
  key,      \* key[p]: the generator's state, its samples and its steps
  counter,  \* counter[p]: reseed_counter
  own,      \* own[p]: has p seeded its generator itself?
  calls,    \* calls[p]: calls made by p (bounded by MaxCalls)
  draws     \* the blocks handed out, by whom, and from whose seed

entropy == <<size, pool, handed, fresh>>
drbg == <<key, counter, own, draws>>
vars == <<pc, count, at, entropy, drbg, calls>>

NoSizes == [s \in 1..Sources |-> 0]
Blank == [ids |-> {}, n |-> 0]

\* Processes share nothing: no call of another process is under way.
Alone(p) == \A q \in Procs \ {p} : pc[q] \in {"unborn", "idle"}

-----------------------------------------------------------------------------
(* entropy_func: gather until every source has reached its threshold.      *)

\* The head of the loop: one round more, or an error to the caller, who gets
\* no seed and, from ctr_drbg_random, no block.
Check(p) ==
  /\ pc[p] = "check"
  /\ IF count[p] > MaxLoop
     THEN /\ pc' = [pc EXCEPT ![p] = "idle"]
          /\ UNCHANGED <<count, at>>
     ELSE /\ pc' = [pc EXCEPT ![p] = "poll"]
          /\ at' = [at EXCEPT ![p] = 1]
          /\ count' = [count EXCEPT ![p] = @ + 1]
  /\ UNCHANGED <<entropy, drbg, calls>>

\* The tail of the loop; a seed is made once every source has given enough.
AfterPoll(p) ==
  IF at[p] < Sources THEN "poll"
  ELSE IF \A s \in 1..Sources : size'[p][s] >= Threshold[s] THEN "seed"
  ELSE "check"

\* Mutant of Sampled: the bytes are counted but never reach the accumulator.
SampledCountOnly(p, n) ==
  /\ size' = [size EXCEPT ![p][at[p]] = @ + n]
  /\ pool' = pool

\* n bytes of the source that was polled are counted and mixed in; no bytes
\* leave no trace.
Sampled(p, n) ==
  /\ size' = [size EXCEPT ![p][at[p]] = @ + n]
  /\ pool' = [pool EXCEPT ![p] =
       IF n = 0 THEN @
       ELSE @ \cup {[by |-> p, from |-> at[p], len |-> n,
                     no |-> Cardinality(@) + 1]}]

\* Mutant of Poll: a source that fails is waited for, the call starts over.
PollRetries(p) ==
  /\ pc[p] = "poll"
  /\ \/ /\ pc' = [pc EXCEPT ![p] = "check"]
        /\ count' = [count EXCEPT ![p] = 0]
        /\ size' = [size EXCEPT ![p] = NoSizes]
        /\ pool' = [pool EXCEPT ![p] = handed[p]]
        /\ at' = at
     \/ /\ \E n \in Yields[at[p]] : Sampled(p, n)
        /\ pc' = [pc EXCEPT ![p] = AfterPoll(p)]
        /\ at' = [at EXCEPT ![p] = @ + 1]
        /\ count' = count
  /\ UNCHANGED <<handed, fresh, drbg, calls>>

\* One source is polled: it fails, and the call with it, or it returns some
\* bytes, perhaps none.  What was gathered before a failure is kept.
Poll(p) ==
  /\ pc[p] = "poll"
  /\ \/ /\ pc' = [pc EXCEPT ![p] = "idle"]
        /\ UNCHANGED <<at, size, pool>>
     \/ /\ \E n \in Yields[at[p]] : Sampled(p, n)
        /\ pc' = [pc EXCEPT ![p] = AfterPoll(p)]
        /\ at' = [at EXCEPT ![p] = @ + 1]
  /\ UNCHANGED <<count, handed, fresh, drbg, calls>>

-----------------------------------------------------------------------------
(* The generator.                                                          *)

\* A block is a generator's state at the time of the call; the state then
\* moves on.
Block(p, k, mine) ==
  /\ draws' = draws \cup
       {[who |-> p, block |-> [k EXCEPT !.n = @ + 1], own |-> mine]}
  /\ key' = [key EXCEPT ![p] = [k EXCEPT !.n = @ + 1]]

\* Mutant of Recycled: the sources' sizes are not put back to zero.
SizesKept(p) == size[p]

Recycled(p) == NoSizes

\* The seed leaves the pool, which keeps what it was made from, and is mixed
\* into the generator; the call that needed it, if it is not the first
\* initialisation, now draws its block.
Seed(p) ==
  /\ pc[p] = "seed"
  /\ pc' = [pc EXCEPT ![p] = "idle"]
  /\ size' = [size EXCEPT ![p] = Recycled(p)]
  /\ fresh' = [fresh EXCEPT ![p] = pool[p] \ handed[p]]
  /\ handed' = [handed EXCEPT ![p] = pool[p]]
  /\ own' = [own EXCEPT ![p] = TRUE]
  /\ LET k == [ids |-> key[p].ids \cup pool[p], n |-> 0]
     IN IF calls[p] = 0
        THEN /\ key' = [key EXCEPT ![p] = k]
             /\ counter' = [counter EXCEPT ![p] = 1]
             /\ draws' = draws
        ELSE /\ Block(p, k, TRUE)
             /\ counter' = [counter EXCEPT ![p] = 2]
  /\ UNCHANGED <<count, at, pool, calls>>

\* Mutant of RandomSeeds: the interval is one call too long.
RandomSeedsLate(p) == counter[p] > Interval + 1

\* ctr_drbg_random: is it time to reseed?
RandomSeeds(p) == counter[p] > Interval

Random(p) ==
  /\ p \in Drawers
  /\ pc[p] = "idle"
  /\ Alone(p)
  /\ calls[p] < MaxCalls
  /\ calls' = [calls EXCEPT ![p] = @ + 1]
  /\ IF RandomSeeds(p)
     THEN /\ pc' = [pc EXCEPT ![p] = "check"]
          /\ count' = [count EXCEPT ![p] = 0]
          /\ UNCHANGED <<drbg>>
     ELSE /\ Block(p, key[p], own[p])
          /\ counter' = [counter EXCEPT ![p] = @ + 1]
          /\ UNCHANGED <<pc, count, own>>
  /\ UNCHANGED <<at, entropy>>

\* fork(): the child starts from a copy of the pool and of the generator.
Fork(q) ==
  /\ pc[Server] = "idle"
  /\ pc[q] = "unborn"
  /\ Alone(Server)
  /\ pc' = [pc EXCEPT ![q] = "idle"]
  /\ size' = [size EXCEPT ![q] = size[Server]]
  /\ pool' = [pool EXCEPT ![q] = pool[Server]]
  /\ handed' = [handed EXCEPT ![q] = handed[Server]]
  /\ fresh' = [fresh EXCEPT ![q] = fresh[Server]]
  /\ key' = [key EXCEPT ![q] = key[Server]]
  /\ counter' = [counter EXCEPT ![q] = counter[Server]]
  /\ own' = [own EXCEPT ![q] = FALSE]
  /\ UNCHANGED <<count, at, calls, draws>>

-----------------------------------------------------------------------------

\* ctr_drbg_init has begun: an empty pool, a zero key.  Whether it ends in a
\* seed or in an error, server.cpp and client.cpp go on.
Init ==
  /\ pc = [p \in Procs |-> IF p = Server THEN "check" ELSE "unborn"]
  /\ count = [p \in Procs |-> 0]
  /\ at = [p \in Procs |-> 1]
  /\ size = [p \in Procs |-> NoSizes]
  /\ pool = [p \in Procs |-> {}]
  /\ handed = [p \in Procs |-> {}]
  /\ fresh = [p \in Procs |-> {}]
  /\ key = [p \in Procs |-> Blank]
  /\ counter = [p \in Procs |-> 0]
  /\ own = [p \in Procs |-> FALSE]
  /\ calls = [p \in Procs |-> 0]
  /\ draws = {}

\* The steps inside a call.
Work(p) == Check(p) \/ Poll(p) \/ Seed(p)

Next ==
  \E p \in Procs :
    \/ Work(p)
    \/ Random(p)
    \/ Fork(p)

Spec == Init /\ [][Next]_vars

\* A poll returns, and a process inside a call goes on with it.
FairSpec == Spec /\ \A p \in Procs : WF_vars(Work(p))

-----------------------------------------------------------------------------

TypeOK ==
  /\ pc \in [Procs -> {"unborn", "idle", "check", "poll", "seed"}]
  /\ count \in [Procs -> 0..(MaxLoop + 1)]
  /\ at \in [Procs -> 1..(Sources + 1)]
  /\ size \in [Procs -> [1..Sources -> Nat]]
  /\ counter \in [Procs -> 0..(Interval + 1)]
  /\ own \in [Procs -> BOOLEAN]
  /\ calls \in [Procs -> 0..MaxCalls]
  /\ \A p \in Procs : handed[p] \subseteq pool[p] /\ fresh[p] \subseteq pool[p]

Bytes(samples, s) ==
  MapThenSumSet(LAMBDA i : i.len, {i \in samples : i.from = s})

\* Every seed a process makes has its threshold of bytes from each source that
\* went into none of its seeds before, whatever calls failed half way in
\* between (entropy.c:315-316, the sizes are put back when, and only when, a
\* seed is handed out).
SeedsAreFresh ==
  \A p \in Procs : own[p] =>
    \A s \in 1..Sources : Bytes(fresh[p], s) >= Threshold[s]

\* The generators are sound: typed, and seeded with fresh bytes alone.
GeneratorSound == TypeOK /\ SeedsAreFresh

\* Blocks are shared only between the siblings of a fork, and only until they
\* reseed: what a child draws after it has seeded its generator itself is drawn
\* by no other process, though pool and generator began as copies
\* (entropy.c:258, a call always polls first).  With sources that may return
\* nothing this is lost: what a failed call left in the copied pool is enough.
TwinsOnlyByFork ==
  \A d, e \in draws :
    d.who # e.who /\ d.who # Server /\ d.own => d.block # e.block

\* No more than Interval blocks come from one seed, however many reseedings
\* were tried and failed in between (ctr_drbg.h:62).
ReseededInTime == \A d \in draws : d.block.ids # {} => d.block.n <= Interval

\* Every call returns, even if the sources give nothing for ever.
CallEnds == \A p \in Procs : (pc[p] \in {"check", "poll", "seed"}) ~> (pc[p] = "idle")
=============================================================================
