--------------------------- MODULE GeneratorProofs ---------------------------
(***************************************************************************)
(* Proofs about Generator: its type invariant, that no seed is used for    *)
(* longer than the interval, that only a fork makes two processes draw     *)
(* the same, and that seeds are fresh, for any number of processes,        *)
(* sources, rounds and calls.                                              *)
(***************************************************************************)
EXTENDS Generator, FiniteSetTheorems, WellFoundedInduction, TLAPS

Samples == [by : Procs, from : 1..Sources, len : Nat, no : Nat]
Blocks == [ids : SUBSET Samples, n : Nat]
Draws == [who : Procs, block : Blocks, own : BOOLEAN]

\* The types of what TypeOK leaves open.
MoreTypes ==
  /\ pool \in [Procs -> SUBSET Samples]
  /\ handed \in [Procs -> SUBSET Samples]
  /\ fresh \in [Procs -> SUBSET Samples]
  /\ key \in [Procs -> Blocks]
  /\ draws \in SUBSET Draws
  /\ \A p \in Procs : IsFiniteSet(pool[p])
  /\ \A p \in Procs : pc[p] = "poll" => at[p] <= Sources

\* The steps of a seeded generator are behind its counter, so that a counter
\* within the interval bounds them.
StepsCounted ==
  \A p \in Procs : key[p].ids # {} => key[p].n < counter[p]

IInv == TypeOK /\ MoreTypes /\ StepsCounted /\ ReseededInTime

-----------------------------------------------------------------------------
(* The invariant, action by action.                                        *)

\* The next block of a generator.
LEMMA NextBlock ==
  ASSUME NEW k \in Blocks
  PROVE  /\ [k EXCEPT !.n = @ + 1] \in Blocks
         /\ [k EXCEPT !.n = @ + 1].ids = k.ids
         /\ [k EXCEPT !.n = @ + 1].n = k.n + 1
BY DEF Blocks

LEMMA InitInv == Init => IInv
<1> SUFFICES ASSUME Init  PROVE IInv
  OBVIOUS
<1>1. TypeOK
  BY GeneratorAssumption DEF Init, TypeOK, NoSizes
<1>2. Blank \in Blocks
  BY DEF Blank, Blocks
<1>3. MoreTypes
  BY <1>2, FS_EmptySet, GeneratorAssumption DEF Init, MoreTypes
<1>4. StepsCounted /\ ReseededInTime
  BY DEF Init, StepsCounted, ReseededInTime, Blank
<1> QED  BY <1>1, <1>3, <1>4 DEF IInv

LEMMA CheckInv ==
  ASSUME NEW p \in Procs, IInv, Check(p)
  PROVE  IInv'
<1>1. /\ pc' \in [Procs -> {"unborn", "idle", "check", "poll", "seed"}]
      /\ count' \in [Procs -> 0..(MaxLoop + 1)]
      /\ at' \in [Procs -> 1..(Sources + 1)]
      /\ \A q \in Procs : pc'[q] = "poll" => at'[q] <= Sources
  <2>1. /\ pc \in [Procs -> {"unborn", "idle", "check", "poll", "seed"}]
        /\ count \in [Procs -> 0..(MaxLoop + 1)]
        /\ at \in [Procs -> 1..(Sources + 1)]
        /\ \A q \in Procs : pc[q] = "poll" => at[q] <= Sources
    BY DEF IInv, TypeOK, MoreTypes
  <2>2. CASE count[p] > MaxLoop
    BY <2>1, <2>2 DEF Check
  <2>3. CASE ~(count[p] > MaxLoop)
    <3>1. /\ pc' = [pc EXCEPT ![p] = "poll"]
          /\ at' = [at EXCEPT ![p] = 1]
          /\ count' = [count EXCEPT ![p] = count[p] + 1]
      BY <2>3 DEF Check
    <3>2. count[p] + 1 \in 0..(MaxLoop + 1)
      BY <2>1, <2>3, GeneratorAssumption
    <3>3. 1 \in 1..(Sources + 1) /\ 1 <= Sources
      BY GeneratorAssumption
    <3> QED  BY <2>1, <3>1, <3>2, <3>3
  <2> QED  BY <2>2, <2>3
<1>2. TypeOK' /\ MoreTypes'
  BY <1>1 DEF IInv, TypeOK, MoreTypes, Check, entropy, drbg
<1>3. StepsCounted' /\ ReseededInTime'
  BY DEF IInv, StepsCounted, ReseededInTime, Check, drbg
<1> QED  BY <1>2, <1>3 DEF IInv

\* What a poll that gives n bytes makes of the sizes and of the pool.
LEMMA SampledTypes ==
  ASSUME NEW p \in Procs, IInv, pc[p] = "poll",
         NEW n \in Yields[at[p]], Sampled(p, n)
  PROVE  /\ size' \in [Procs -> [1..Sources -> Nat]]
         /\ pool' \in [Procs -> SUBSET Samples]
         /\ \A q \in Procs : IsFiniteSet(pool'[q]) /\ pool[q] \subseteq pool'[q]
<1>1. at[p] \in 1..Sources /\ n \in Nat
  <2>1. at[p] \in 1..(Sources + 1) /\ at[p] <= Sources
    BY DEF IInv, TypeOK, MoreTypes
  <2>2. at[p] \in 1..Sources
    BY <2>1, GeneratorAssumption
  <2> QED  BY <2>2, GeneratorAssumption
<1>2. size' \in [Procs -> [1..Sources -> Nat]]
  <2>1. size \in [Procs -> [1..Sources -> Nat]]
    BY DEF IInv, TypeOK
  <2>2. [size[p] EXCEPT ![at[p]] = size[p][at[p]] + n] \in [1..Sources -> Nat]
    <3>1. size[p] \in [1..Sources -> Nat]
      BY <2>1
    <3>2. size[p][at[p]] \in Nat
      BY <1>1, <3>1
    <3>3. size[p][at[p]] + n \in Nat
      BY <1>1, <3>2
    <3> QED  BY <1>1, <3>1, <3>3
  <2>3. size' = [size EXCEPT ![p] = [size[p] EXCEPT ![at[p]] = size[p][at[p]] + n]]
    BY DEF Sampled
  <2> QED  BY <2>1, <2>2, <2>3
<1> DEFINE x == [by |-> p, from |-> at[p], len |-> n, no |-> Cardinality(pool[p]) + 1]
<1>3. pool \in [Procs -> SUBSET Samples] /\ \A q \in Procs : IsFiniteSet(pool[q])
  BY DEF IInv, MoreTypes
<1>4. Cardinality(pool[p]) \in Nat
  BY <1>3, FS_CardinalityType
<1>5. x \in Samples
  BY <1>1, <1>4 DEF Samples
<1>6. pool' = [pool EXCEPT ![p] = IF n = 0 THEN pool[p] ELSE pool[p] \cup {x}]
  BY DEF Sampled
<1> HIDE DEF x
<1>7. pool' \in [Procs -> SUBSET Samples]
  BY <1>3, <1>5, <1>6
<1>8. IsFiniteSet(pool[p] \cup {x})
  BY <1>3, FS_AddElement
<1>9. \A q \in Procs : IsFiniteSet(pool'[q]) /\ pool[q] \subseteq pool'[q]
  BY <1>3, <1>6, <1>8
<1> QED  BY <1>2, <1>7, <1>9

LEMMA PollInv ==
  ASSUME NEW p \in Procs, IInv, Poll(p)
  PROVE  IInv'
<1>1. /\ size' \in [Procs -> [1..Sources -> Nat]]
      /\ pool' \in [Procs -> SUBSET Samples]
      /\ \A q \in Procs : IsFiniteSet(pool'[q]) /\ pool[q] \subseteq pool'[q]
  <2>1. CASE UNCHANGED <<at, size, pool>>
    BY <2>1 DEF IInv, TypeOK, MoreTypes
  <2>2. CASE \E n \in Yields[at[p]] : Sampled(p, n)
    BY <2>2, SampledTypes DEF Poll
  <2> QED  BY <2>1, <2>2 DEF Poll
<1>2. /\ pc' \in [Procs -> {"unborn", "idle", "check", "poll", "seed"}]
      /\ at' \in [Procs -> 1..(Sources + 1)]
      /\ \A q \in Procs : pc'[q] = "poll" => at'[q] <= Sources
  <2>1. /\ pc \in [Procs -> {"unborn", "idle", "check", "poll", "seed"}]
        /\ at \in [Procs -> 1..(Sources + 1)]
        /\ \A q \in Procs : pc[q] = "poll" => at[q] <= Sources
        /\ pc[p] = "poll"
    BY DEF IInv, TypeOK, MoreTypes, Poll
  <2>2. CASE pc' = [pc EXCEPT ![p] = "idle"] /\ at' = at
    BY <2>1, <2>2
  <2>3. CASE /\ pc' = [pc EXCEPT ![p] = AfterPoll(p)]
             /\ at' = [at EXCEPT ![p] = at[p] + 1]
    <3>1. at[p] + 1 \in 1..(Sources + 1)
      BY <2>1, GeneratorAssumption
    <3>2. /\ AfterPoll(p) \in {"check", "poll", "seed"}
          /\ AfterPoll(p) = "poll" => at[p] + 1 <= Sources
      BY <2>1, GeneratorAssumption DEF AfterPoll
    <3> QED  BY <2>1, <2>3, <3>1, <3>2
  <2> QED  BY <2>2, <2>3 DEF Poll
<1>3. \A q \in Procs : handed[q] \subseteq pool'[q] /\ fresh[q] \subseteq pool'[q]
  BY <1>1 DEF IInv, TypeOK
<1>4. TypeOK'
  BY <1>1, <1>2, <1>3 DEF IInv, TypeOK, Poll, drbg
<1>5. MoreTypes'
  BY <1>1, <1>2 DEF IInv, MoreTypes, Poll, drbg
<1>6. StepsCounted' /\ ReseededInTime'
  BY DEF IInv, StepsCounted, ReseededInTime, Poll, drbg
<1> QED  BY <1>4, <1>5, <1>6 DEF IInv

\* A block that is drawn within the interval keeps to the types and in time.
LEMMA BlockDrawn ==
  ASSUME NEW p \in Procs, NEW k \in Blocks, NEW mine \in BOOLEAN, IInv,
         Block(p, k, mine), k.ids # {} => k.n < Interval
  PROVE  /\ key' \in [Procs -> Blocks]
         /\ key'[p].ids = k.ids /\ key'[p].n = k.n + 1
         /\ \A q \in Procs \ {p} : key'[q] = key[q]
         /\ draws' \in SUBSET Draws
         /\ ReseededInTime'
<1> DEFINE b == [k EXCEPT !.n = @ + 1]
           d == [who |-> p, block |-> b, own |-> mine]
<1>1. b \in Blocks /\ b.ids = k.ids /\ b.n = k.n + 1
  BY NextBlock
<1>2. key \in [Procs -> Blocks] /\ draws \in SUBSET Draws
  BY DEF IInv, MoreTypes
<1>3. key' = [key EXCEPT ![p] = b] /\ draws' = draws \cup {d}
  BY DEF Block
<1>4. k.n \in Nat
  BY DEF Blocks
<1> HIDE DEF b
<1>5. d \in Draws /\ d.block = b
  BY <1>1 DEF Draws
<1> HIDE DEF d
<1>6. b.ids # {} => b.n <= Interval
  BY <1>1, <1>4, GeneratorAssumption
<1>7. ReseededInTime'
  BY <1>3, <1>5, <1>6 DEF IInv, ReseededInTime
<1> QED  BY <1>1, <1>2, <1>3, <1>5, <1>7

LEMMA SeedInv ==
  ASSUME NEW p \in Procs, IInv, Seed(p)
  PROVE  IInv'
<1> DEFINE k == [ids |-> key[p].ids \cup pool[p], n |-> 0]
<1>1. k \in Blocks /\ k.n = 0
  BY DEF IInv, MoreTypes, Blocks
<1>2. key \in [Procs -> Blocks] /\ counter \in [Procs -> 0..(Interval + 1)]
  BY DEF IInv, MoreTypes, TypeOK
<1>8. 1 \in 0..(Interval + 1) /\ 2 \in 0..(Interval + 1) /\ 0 < Interval
  BY GeneratorAssumption
<1>3. /\ key' \in [Procs -> Blocks]
      /\ draws' \in SUBSET Draws
      /\ ReseededInTime'
      /\ counter' \in [Procs -> 0..(Interval + 1)]
      /\ key'[p].n < counter'[p]
      /\ \A q \in Procs \ {p} : key'[q] = key[q] /\ counter'[q] = counter[q]
  <2>1. CASE calls[p] = 0
    <3>1. /\ key' = [key EXCEPT ![p] = k]
          /\ counter' = [counter EXCEPT ![p] = 1]
          /\ draws' = draws
      BY <2>1 DEF Seed
    <3> HIDE DEF k
    <3>2. key' \in [Procs -> Blocks] /\ key'[p] = k
      BY <1>1, <1>2, <3>1
    <3>3. counter' \in [Procs -> 0..(Interval + 1)] /\ counter'[p] = 1
      BY <1>2, <1>8, <3>1
    <3>4. \A q \in Procs \ {p} : key'[q] = key[q] /\ counter'[q] = counter[q]
      BY <1>2, <3>1
    <3>5. draws' \in SUBSET Draws /\ ReseededInTime'
      BY <3>1 DEF IInv, MoreTypes, ReseededInTime
    <3> QED  BY <1>1, <3>2, <3>3, <3>4, <3>5
  <2>2. CASE calls[p] # 0
    <3>1. /\ Block(p, k, TRUE)
          /\ counter' = [counter EXCEPT ![p] = 2]
      BY <2>2 DEF Seed
    <3> HIDE DEF k
    <3>2. /\ key' \in [Procs -> Blocks] /\ key'[p].n = k.n + 1
          /\ \A q \in Procs \ {p} : key'[q] = key[q]
          /\ draws' \in SUBSET Draws
          /\ ReseededInTime'
      BY <1>1, <1>8, <3>1, BlockDrawn
    <3>3. counter' \in [Procs -> 0..(Interval + 1)] /\ counter'[p] = 2
      BY <1>2, <1>8, <3>1
    <3>4. \A q \in Procs \ {p} : counter'[q] = counter[q]
      BY <1>2, <3>1
    <3> QED  BY <1>1, <3>2, <3>3, <3>4
  <2> QED  BY <2>1, <2>2
<1>4. StepsCounted'
  BY <1>3 DEF IInv, StepsCounted
<1>5. /\ pc' \in [Procs -> {"unborn", "idle", "check", "poll", "seed"}]
      /\ size' \in [Procs -> [1..Sources -> Nat]]
      /\ own' \in [Procs -> BOOLEAN]
      /\ handed' \in [Procs -> SUBSET Samples] /\ fresh' \in [Procs -> SUBSET Samples]
      /\ \A q \in Procs : handed'[q] \subseteq pool[q] /\ fresh'[q] \subseteq pool[q]
  BY DEF IInv, TypeOK, MoreTypes, Seed, Recycled, NoSizes
<1>6. TypeOK'
  BY <1>3, <1>5 DEF IInv, TypeOK, Seed
<1>7. MoreTypes'
  BY <1>3, <1>5 DEF IInv, TypeOK, MoreTypes, Seed
<1> QED  BY <1>3, <1>4, <1>6, <1>7 DEF IInv

LEMMA RandomInv ==
  ASSUME NEW p \in Procs, IInv, Random(p)
  PROVE  IInv'
<1>1. CASE RandomSeeds(p)
  <2>1. TypeOK'
    <3>1. /\ pc' = [pc EXCEPT ![p] = "check"]
          /\ count' = [count EXCEPT ![p] = 0]
          /\ calls' = [calls EXCEPT ![p] = calls[p] + 1]
          /\ calls[p] < MaxCalls
          /\ UNCHANGED <<entropy, drbg, at>>
      BY <1>1 DEF Random
    <3>2. 0 \in 0..(MaxLoop + 1)
      BY GeneratorAssumption
    <3>3. calls \in [Procs -> 0..MaxCalls] /\ MaxCalls \in Nat
      BY GeneratorAssumption DEF IInv, TypeOK
    <3>4. calls[p] + 1 \in 0..MaxCalls
      BY <3>1, <3>3
    <3>5. calls' \in [Procs -> 0..MaxCalls]
      BY <3>1, <3>3, <3>4
    <3>6. /\ pc' \in [Procs -> {"unborn", "idle", "check", "poll", "seed"}]
          /\ count' \in [Procs -> 0..(MaxLoop + 1)]
      BY <3>1, <3>2 DEF IInv, TypeOK
    <3> QED  BY <3>1, <3>5, <3>6 DEF IInv, TypeOK, entropy, drbg
  <2>2. MoreTypes'
    BY <1>1 DEF IInv, TypeOK, MoreTypes, Random, entropy, drbg
  <2>3. StepsCounted' /\ ReseededInTime'
    BY <1>1 DEF IInv, StepsCounted, ReseededInTime, Random, drbg
  <2> QED  BY <2>1, <2>2, <2>3 DEF IInv
<1>2. CASE ~RandomSeeds(p)
  <2>1. /\ Block(p, key[p], own[p])
        /\ counter' = [counter EXCEPT ![p] = @ + 1]
        /\ UNCHANGED <<pc, count, own, at, entropy>>
        /\ calls' = [calls EXCEPT ![p] = @ + 1]
        /\ calls[p] < MaxCalls
    BY <1>2 DEF Random
  <2>2. /\ counter[p] \in 0..(Interval + 1) /\ counter[p] <= Interval
        /\ key[p] \in Blocks /\ own[p] \in BOOLEAN
    BY <1>2, GeneratorAssumption DEF IInv, TypeOK, MoreTypes, RandomSeeds
  <2>3. key[p].n \in Nat /\ Interval \in Nat /\ MaxCalls \in Nat
    BY <2>2, GeneratorAssumption DEF Blocks
  <2>4. key[p].ids # {} => key[p].n < Interval
    BY <2>2, <2>3 DEF IInv, StepsCounted
  <2>5. /\ key' \in [Procs -> Blocks]
        /\ key'[p].ids = key[p].ids /\ key'[p].n = key[p].n + 1
        /\ \A q \in Procs \ {p} : key'[q] = key[q]
        /\ draws' \in SUBSET Draws
        /\ ReseededInTime'
    BY <2>1, <2>2, <2>4, BlockDrawn
  <2>6. /\ counter' \in [Procs -> 0..(Interval + 1)]
        /\ counter'[p] = counter[p] + 1
        /\ \A q \in Procs \ {p} : counter'[q] = counter[q]
    BY <2>1, <2>2, <2>3 DEF IInv, TypeOK
  <2>7. calls' \in [Procs -> 0..MaxCalls]
    BY <2>1, <2>3 DEF IInv, TypeOK
  <2>8. TypeOK'
    BY <2>1, <2>6, <2>7 DEF IInv, TypeOK, entropy
  <2>9. MoreTypes'
    BY <2>1, <2>5 DEF IInv, MoreTypes, entropy
  <2>10. StepsCounted'
    BY <2>2, <2>3, <2>5, <2>6 DEF IInv, StepsCounted
  <2> QED  BY <2>5, <2>8, <2>9, <2>10 DEF IInv
<1> QED  BY <1>1, <1>2

LEMMA ForkInv ==
  ASSUME NEW q \in Procs, IInv, Fork(q)
  PROVE  IInv'
<1>1. Server \in Procs
  BY GeneratorAssumption
<1>2. TypeOK'
  <2>1. /\ pc' \in [Procs -> {"unborn", "idle", "check", "poll", "seed"}]
        /\ size' \in [Procs -> [1..Sources -> Nat]]
        /\ counter' \in [Procs -> 0..(Interval + 1)]
        /\ own' \in [Procs -> BOOLEAN]
    BY <1>1 DEF IInv, TypeOK, Fork
  <2>2. \A p \in Procs : handed'[p] \subseteq pool'[p] /\ fresh'[p] \subseteq pool'[p]
    BY <1>1 DEF IInv, TypeOK, MoreTypes, Fork
  <2> QED  BY <2>1, <2>2 DEF IInv, TypeOK, Fork
<1>3. MoreTypes'
  BY <1>1 DEF IInv, TypeOK, MoreTypes, Fork
<1>4. StepsCounted'
  BY <1>1 DEF IInv, TypeOK, MoreTypes, StepsCounted, Fork
<1>5. ReseededInTime'
  BY DEF IInv, ReseededInTime, Fork
<1> QED  BY <1>2, <1>3, <1>4, <1>5 DEF IInv

LEMMA StutterInv == IInv /\ UNCHANGED vars => IInv'
BY DEF IInv, TypeOK, MoreTypes, StepsCounted, ReseededInTime, vars, entropy, drbg

\* The invariant behind the theorems.
THEOREM Inductive == Spec => []IInv
<1>1. IInv /\ [Next]_vars => IInv'
  BY CheckInv, PollInv, SeedInv, RandomInv, ForkInv, StutterInv DEF Next, Work
<1> QED  BY InitInv, <1>1, PTL DEF Spec

\* No more than Interval blocks come from one seed, however many reseedings
\* were tried and failed in between.
THEOREM Reseeds == Spec => []ReseededInTime
<1>1. IInv => ReseededInTime
  BY DEF IInv
<1> QED  BY Inductive, <1>1, PTL

-----------------------------------------------------------------------------
(* Only a fork makes twins.  A sample carries the process that polled it:   *)
(* a pool, a generator and a block hold samples of their own process and of *)
(* the server they were copied from, and no others; and a process that has  *)
(* seeded its generator itself has at least one sample of its own in it,    *)
(* if one of the sources never returns nothing.                             *)

OwnOrServers ==
  /\ \A p \in Procs : \A x \in pool[p] \cup key[p].ids : x.by \in {p, Server}
  /\ \A d \in draws : \A x \in d.block.ids : x.by \in {d.who, Server}

\* Source s has been polled in this round of gathering.
Gathered(s) ==
  \A p \in Procs :
    pc[p] = "seed" \/ (pc[p] = "poll" /\ at[p] > s) => \E x \in pool[p] : x.by = p

OwnSeeded ==
  /\ \A p \in Procs \ {Server} : own[p] => \E x \in key[p].ids : x.by = p
  /\ \A d \in draws :
       d.own /\ d.who # Server => \E x \in d.block.ids : x.by = d.who

TwinInv(s) == OwnOrServers /\ Gathered(s) /\ OwnSeeded

\* A source that never returns nothing.
Reliable(s) == s \in 1..Sources /\ 0 \notin Yields[s]

LEMMA TwinInit == ASSUME NEW s, Reliable(s)  PROVE Init => TwinInv(s)
BY DEF Init, TwinInv, OwnOrServers, Gathered, OwnSeeded, Blank

LEMMA TwinCheck ==
  ASSUME NEW s, Reliable(s), NEW p \in Procs, IInv, TwinInv(s), Check(p)
  PROVE  TwinInv(s)'
<1>1. OwnOrServers' /\ OwnSeeded'
  BY DEF TwinInv, OwnOrServers, OwnSeeded, Check, entropy, drbg
<1>2. Gathered(s)'
  <2>1. pc \in [Procs -> {"unborn", "idle", "check", "poll", "seed"}]
    BY DEF IInv, TypeOK
  <2>2. at \in [Procs -> 1..(Sources + 1)] /\ ~(1 > s)
    BY GeneratorAssumption DEF IInv, TypeOK, Reliable
  <2>3. pool' = pool
    BY DEF Check, entropy
  <2>4. \A q \in Procs \ {p} : pc'[q] = pc[q] /\ at'[q] = at[q]
    BY <2>1, <2>2 DEF Check
  <2>5. pc'[p] = "idle" \/ (pc'[p] = "poll" /\ at'[p] = 1)
    BY <2>1, <2>2 DEF Check
  <2> QED  BY <2>2, <2>3, <2>4, <2>5 DEF TwinInv, Gathered
<1> QED  BY <1>1, <1>2 DEF TwinInv

LEMMA TwinPoll ==
  ASSUME NEW s, Reliable(s), NEW p \in Procs, IInv, TwinInv(s), Poll(p)
  PROVE  TwinInv(s)'
<1>1. /\ pc \in [Procs -> {"unborn", "idle", "check", "poll", "seed"}]
      /\ at \in [Procs -> 1..(Sources + 1)]
      /\ pool \in [Procs -> SUBSET Samples]
      /\ pc[p] = "poll" /\ at[p] <= Sources
  BY DEF IInv, TypeOK, MoreTypes, Poll
<1>2. key' = key /\ own' = own /\ draws' = draws
  BY DEF Poll, drbg
<1>3. OwnSeeded'
  BY <1>2 DEF TwinInv, OwnSeeded
<1>4. CASE /\ pc' = [pc EXCEPT ![p] = "idle"]
           /\ UNCHANGED <<at, size, pool>>
  <2>1. OwnOrServers'
    BY <1>2, <1>4 DEF TwinInv, OwnOrServers
  <2>2. Gathered(s)'
    BY <1>1, <1>4 DEF TwinInv, Gathered
  <2> QED  BY <1>3, <2>1, <2>2 DEF TwinInv
<1>5. CASE /\ \E n \in Yields[at[p]] : Sampled(p, n)
           /\ pc' = [pc EXCEPT ![p] = AfterPoll(p)]
           /\ at' = [at EXCEPT ![p] = @ + 1]
  <2>1. PICK n \in Yields[at[p]] : Sampled(p, n)
    BY <1>5
  <2> DEFINE x == [by |-> p, from |-> at[p], len |-> n,
                   no |-> Cardinality(pool[p]) + 1]
  <2>2. x.by = p
    OBVIOUS
  <2>3. pool' = [pool EXCEPT ![p] = IF n = 0 THEN pool[p] ELSE pool[p] \cup {x}]
    BY <2>1 DEF Sampled
  <2> HIDE DEF x
  <2>4. /\ \A q \in Procs \ {p} : pool'[q] = pool[q]
        /\ pool[p] \subseteq pool'[p] /\ pool'[p] \subseteq pool[p] \cup {x}
        /\ n # 0 => x \in pool'[p]
    BY <1>1, <2>3
  <2>5. OwnOrServers'
    BY <1>2, <2>2, <2>4 DEF TwinInv, OwnOrServers
  <2>6. at[p] \in Nat /\ s \in Nat /\ s <= Sources /\ Sources \in Nat
    BY <1>1, GeneratorAssumption DEF Reliable
  <2>7. /\ \A q \in Procs \ {p} : pc'[q] = pc[q] /\ at'[q] = at[q]
        /\ at'[p] = at[p] + 1
        /\ pc'[p] = AfterPoll(p)
    BY <1>1, <1>5
  <2>8. pc'[p] = "seed" \/ (pc'[p] = "poll" /\ at'[p] > s) => at[p] >= s
    <3>1. pc'[p] = "seed" => at[p] >= Sources
      BY <2>6, <2>7 DEF AfterPoll
    <3> QED  BY <2>6, <2>7, <3>1
  <2>9. at[p] >= s => \E y \in pool'[p] : y.by = p
    <3>1. CASE at[p] = s
      <4>1. n # 0
        BY <2>1, <3>1 DEF Reliable
      <4> QED  BY <2>2, <2>4, <4>1
    <3>2. CASE at[p] > s
      BY <1>1, <2>4, <3>2 DEF TwinInv, Gathered
    <3> QED  BY <2>6, <3>1, <3>2
  <2>10. Gathered(s)'
    BY <2>4, <2>7, <2>8, <2>9 DEF TwinInv, Gathered
  <2> QED  BY <1>3, <2>5, <2>10 DEF TwinInv
<1> QED  BY <1>4, <1>5 DEF Poll

\* A block drawn from a generator in order leaves everything in order.
LEMMA TwinBlock ==
  ASSUME NEW p \in Procs, NEW k \in Blocks, NEW mine \in BOOLEAN, IInv,
         OwnOrServers, OwnSeeded, Block(p, k, mine),
         pool' = pool, own' = [own EXCEPT ![p] = mine],
         \A x \in k.ids : x.by \in {p, Server},
         mine /\ p # Server => \E x \in k.ids : x.by = p
  PROVE  OwnOrServers' /\ OwnSeeded'
<1> DEFINE b == [k EXCEPT !.n = @ + 1]
           d == [who |-> p, block |-> b, own |-> mine]
<1>1. b.ids = k.ids
  BY NextBlock
<1>2. key \in [Procs -> Blocks] /\ own \in [Procs -> BOOLEAN]
  BY DEF IInv, MoreTypes, TypeOK
<1>3. key' = [key EXCEPT ![p] = b] /\ draws' = draws \cup {d}
  BY DEF Block
<1> HIDE DEF b
<1>4. d.who = p /\ d.block = b /\ d.own = mine
  OBVIOUS
<1> HIDE DEF d
<1>5. /\ \A q \in Procs \ {p} : key'[q] = key[q] /\ own'[q] = own[q]
      /\ key'[p] = b /\ own'[p] = mine
  BY <1>2, <1>3
<1>6. OwnOrServers'
  BY <1>1, <1>3, <1>4, <1>5 DEF OwnOrServers
<1>7. OwnSeeded'
  BY <1>1, <1>3, <1>4, <1>5 DEF OwnSeeded
<1> QED  BY <1>6, <1>7

LEMMA TwinSeed ==
  ASSUME NEW s, Reliable(s), NEW p \in Procs, IInv, TwinInv(s), Seed(p)
  PROVE  TwinInv(s)'
<1> DEFINE k == [ids |-> key[p].ids \cup pool[p], n |-> 0]
<1>1. k \in Blocks /\ k.ids = key[p].ids \cup pool[p]
  BY DEF IInv, MoreTypes, Blocks
<1>2. /\ pc \in [Procs -> {"unborn", "idle", "check", "poll", "seed"}]
      /\ key \in [Procs -> Blocks] /\ own \in [Procs -> BOOLEAN]
  BY DEF IInv, MoreTypes, TypeOK
<1>3. /\ \A x \in k.ids : x.by \in {p, Server}
      /\ \E x \in k.ids : x.by = p
  BY <1>1 DEF TwinInv, OwnOrServers, Gathered, Seed
<1>4. /\ pool' = pool /\ at' = at
      /\ own' = [own EXCEPT ![p] = TRUE]
      /\ pc' = [pc EXCEPT ![p] = "idle"]
  BY DEF Seed
<1>5. OwnOrServers' /\ OwnSeeded'
  <2>1. CASE calls[p] = 0
    <3>1. key' = [key EXCEPT ![p] = k] /\ draws' = draws
      BY <2>1 DEF Seed
    <3> HIDE DEF k
    <3>2. /\ \A q \in Procs \ {p} : key'[q] = key[q] /\ own'[q] = own[q]
          /\ key'[p] = k
      BY <1>2, <1>4, <3>1
    <3>3. OwnOrServers'
      BY <1>3, <1>4, <3>1, <3>2 DEF TwinInv, OwnOrServers
    <3>4. OwnSeeded'
      BY <1>3, <3>1, <3>2 DEF TwinInv, OwnSeeded
    <3> QED  BY <3>3, <3>4
  <2>2. CASE calls[p] # 0
    <3>1. Block(p, k, TRUE)
      BY <2>2 DEF Seed
    <3> HIDE DEF k
    <3> QED  BY <1>1, <1>3, <1>4, <3>1, TwinBlock DEF TwinInv
  <2> QED  BY <2>1, <2>2
<1>6. Gathered(s)'
  BY <1>2, <1>4 DEF TwinInv, Gathered
<1> QED  BY <1>5, <1>6 DEF TwinInv

LEMMA TwinRandom ==
  ASSUME NEW s, Reliable(s), NEW p \in Procs, IInv, TwinInv(s), Random(p)
  PROVE  TwinInv(s)'
<1>1. /\ pc \in [Procs -> {"unborn", "idle", "check", "poll", "seed"}]
      /\ key \in [Procs -> Blocks] /\ own \in [Procs -> BOOLEAN]
  BY DEF IInv, MoreTypes, TypeOK
<1>2. pool' = pool /\ at' = at
  BY DEF Random, entropy
<1>3. Gathered(s)'
  <2>1. pc' = pc \/ pc' = [pc EXCEPT ![p] = "check"]
    BY DEF Random
  <2> QED  BY <1>1, <1>2, <2>1 DEF TwinInv, Gathered
<1>4. CASE RandomSeeds(p)
  <2>1. key' = key /\ own' = own /\ draws' = draws
    BY <1>4 DEF Random, drbg
  <2> QED  BY <1>2, <1>3, <2>1 DEF TwinInv, OwnOrServers, OwnSeeded
<1>5. CASE ~RandomSeeds(p)
  <2>1. /\ Block(p, key[p], own[p])
        /\ own' = [own EXCEPT ![p] = own[p]]
    BY <1>1, <1>5 DEF Random
  <2>2. /\ key[p] \in Blocks /\ own[p] \in BOOLEAN
        /\ \A x \in key[p].ids : x.by \in {p, Server}
        /\ own[p] /\ p # Server => \E x \in key[p].ids : x.by = p
    BY <1>1 DEF TwinInv, OwnOrServers, OwnSeeded
  <2>3. OwnOrServers' /\ OwnSeeded'
    BY <1>2, <2>1, <2>2, TwinBlock DEF TwinInv
  <2> QED  BY <1>3, <2>3 DEF TwinInv
<1> QED  BY <1>4, <1>5

LEMMA TwinFork ==
  ASSUME NEW s, Reliable(s), NEW q \in Procs, IInv, TwinInv(s), Fork(q)
  PROVE  TwinInv(s)'
<1>1. /\ pc \in [Procs -> {"unborn", "idle", "check", "poll", "seed"}]
      /\ key \in [Procs -> Blocks] /\ own \in [Procs -> BOOLEAN]
      /\ pool \in [Procs -> SUBSET Samples] /\ Server \in Procs
  BY GeneratorAssumption DEF IInv, MoreTypes, TypeOK
<1>2. /\ \A p \in Procs \ {q} : /\ pc'[p] = pc[p] /\ pool'[p] = pool[p]
                                /\ key'[p] = key[p] /\ own'[p] = own[p]
      /\ pc'[q] = "idle" /\ pool'[q] = pool[Server]
      /\ key'[q] = key[Server] /\ own'[q] = FALSE
      /\ at' = at /\ draws' = draws
  BY <1>1 DEF Fork
<1>3. OwnOrServers'
  BY <1>1, <1>2 DEF TwinInv, OwnOrServers
<1>4. OwnSeeded'
  BY <1>2 DEF TwinInv, OwnSeeded
<1>5. Gathered(s)'
  BY <1>2 DEF TwinInv, Gathered
<1> QED  BY <1>3, <1>4, <1>5 DEF TwinInv

LEMMA TwinStutter ==
  ASSUME NEW s, TwinInv(s), UNCHANGED vars
  PROVE  TwinInv(s)'
BY DEF TwinInv, OwnOrServers, Gathered, OwnSeeded, vars, entropy, drbg

\* What a child draws after it has seeded its generator itself is drawn by no
\* other process, if one of the sources never returns nothing, as the one
\* of the platform (entropy_poll.c:94, a read of /dev/urandom is whole or fails).
THEOREM Twins ==
  ASSUME NEW s, Reliable(s)
  PROVE  Spec => []TwinsOnlyByFork
<1>1. Init => TwinInv(s)
  BY TwinInit
<1>2. IInv /\ TwinInv(s) /\ [Next]_vars => TwinInv(s)'
  BY TwinCheck, TwinPoll, TwinSeed, TwinRandom, TwinFork, TwinStutter DEF Next, Work
<1>3. TwinInv(s) => TwinsOnlyByFork
  BY DEF TwinInv, OwnOrServers, OwnSeeded, TwinsOnlyByFork
<1> QED  BY Inductive, <1>1, <1>2, <1>3, PTL DEF Spec

-----------------------------------------------------------------------------
(* The sum over a set, in which Bytes counts, is a recursive function on    *)
(* its subsets.                                                             *)

Chosen(U) == CHOOSE x \in U : TRUE
Summed(f, U) == IF U = {} THEN 0 ELSE Chosen(U).len + f[U \ {Chosen(U)}]

\* f sums up the subsets of A.
Sums(f, A) == f = [U \in SUBSET A |-> Summed(f, U)]

LEMMA UnfoldBytes ==
  ASSUME NEW T, NEW s
  PROVE  Bytes(T, s) = LET S == {i \in T : i.from = s}
                       IN  (CHOOSE f : Sums(f, S))[S]
BY DEF Bytes, MapThenSumSet, MapThenFoldSet, Sums, Summed, Chosen

\* A set of numbers that is not empty has a least element.
LEMMA Least ==
  ASSUME NEW T \in SUBSET Nat, T # {}
  PROVE  \E x \in T : \A y \in T : x <= y
<1>1. PICK x \in T : \A y \in T : ~(<<y, x>> \in OpToRel(<, Nat))
  BY NatLessThanWellFounded, WFMin
<1>2. ASSUME NEW y \in T
      PROVE  x <= y
  <2>1. ~(y < x)
    BY <1>1 DEF OpToRel
  <2> QED BY <2>1
<1> QED BY <1>2

\* Induction over the subsets of a finite set.
LEMMA BySubsets ==
  ASSUME NEW A, IsFiniteSet(A), NEW P \in SUBSET (SUBSET A),
         \A U \in SUBSET A : (\A x \in U : U \ {x} \in P) => U \in P
  PROVE  P = SUBSET A
<1> SUFFICES ASSUME NEW B \in (SUBSET A) \ P
             PROVE  FALSE
  OBVIOUS
<1> DEFINE T == {n \in Nat : \E U \in (SUBSET A) \ P : n = Cardinality(U)}
<1>1. \A U \in SUBSET A : IsFiniteSet(U) /\ Cardinality(U) \in Nat
  BY FS_Subset, FS_CardinalityType
<1>2. Cardinality(B) \in T
  BY <1>1
<1>3. PICK n \in T : \A m \in T : n <= m
  <2> HIDE DEF T
  <2>1. T \in SUBSET Nat
    BY DEF T
  <2> QED BY <1>2, <2>1, Least
<1>4. PICK U \in (SUBSET A) \ P : n = Cardinality(U)
  OBVIOUS
<1>5. ASSUME NEW x \in U, U \ {x} \notin P
      PROVE  FALSE
  <2>1. Cardinality(U \ {x}) = n - 1
    BY <1>1, <1>4, FS_RemoveElement
  <2>2. U \ {x} \in SUBSET A
    OBVIOUS
  <2>3. Cardinality(U \ {x}) \in T
    BY <1>1, <1>5, <2>2
  <2>4. n \in Nat
    OBVIOUS
  <2> HIDE DEF T
  <2>5. n <= n - 1
    BY <1>3, <2>1, <2>3
  <2> QED BY <2>4, <2>5
<1> QED BY <1>4, <1>5

\* The element chosen is one of the set.
LEMMA ChosenIn ==
  ASSUME NEW U, U # {}
  PROVE  Chosen(U) \in U
BY DEF Chosen

\* There is such a function.
LEMMA SumsExist ==
  ASSUME NEW A, IsFiniteSet(A)
  PROVE  \E f : Sums(f, A)
<1> DEFINE Upto(f, k) == /\ f = [U \in SUBSET A |-> f[U]]
                         /\ \A U \in SUBSET A : Cardinality(U) <= k => f[U] = Summed(f, U)
           T == {k \in Nat : ~\E f : Upto(f, k)}
<1>1. \A U \in SUBSET A : IsFiniteSet(U) /\ Cardinality(U) \in Nat
  BY FS_Subset, FS_CardinalityType
<1>2. 0 \notin T
  <2> DEFINE f == [U \in SUBSET A |-> 0]
  <2>1. \A U \in SUBSET A : Cardinality(U) <= 0 => U = {}
    BY <1>1, FS_EmptySet
  <2>2. Upto(f, 0)
    BY <2>1 DEF Summed
  <2> QED BY <2>2
<1>3. ASSUME NEW k \in Nat \ {0}, NEW f, Upto(f, k - 1)
      PROVE  \E g : Upto(g, k)
  <2> DEFINE g == [U \in SUBSET A |-> IF Cardinality(U) < k THEN f[U] ELSE Summed(f, U)]
  <2>1. \A U \in SUBSET A : Cardinality(U) < k => g[U] = f[U] /\ f[U] = Summed(f, U)
    <3>1. \A U \in SUBSET A : Cardinality(U) < k => Cardinality(U) <= k - 1
      BY <1>1
    <3> QED BY <1>3, <3>1
  <2>2. ASSUME NEW U \in SUBSET A, U # {}, Cardinality(U) <= k
        PROVE  g[U \ {Chosen(U)}] = f[U \ {Chosen(U)}]
    <3>1. Cardinality(U \ {Chosen(U)}) = Cardinality(U) - 1
      BY <1>1, <2>2, ChosenIn, FS_RemoveElement
    <3>2. Cardinality(U \ {Chosen(U)}) < k
      BY <1>1, <2>2, <3>1
    <3>3. U \ {Chosen(U)} \in SUBSET A
      OBVIOUS
    <3> HIDE DEF g
    <3> QED BY <2>1, <3>2, <3>3
  <2>3. ASSUME NEW U \in SUBSET A, Cardinality(U) <= k
        PROVE  g[U] = Summed(g, U)
    <3>1. g[U] = Summed(f, U)
      BY <1>1, <2>1, <2>3
    <3> HIDE DEF g
    <3>2. Summed(f, U) = Summed(g, U)
      BY <2>2, <2>3 DEF Summed
    <3> QED BY <3>1, <3>2
  <2>4. g = [U \in SUBSET A |-> g[U]]
    OBVIOUS
  <2>5. Upto(g, k)
    BY <2>3, <2>4
  <2> HIDE DEF g, Upto
  <2> QED BY <2>5
<1> HIDE DEF Upto
<1>4. T = {}
  <2> SUFFICES ASSUME T # {}
               PROVE  FALSE
    OBVIOUS
  <2>1. PICK k \in T : \A m \in T : k <= m
    <3>1. T \in SUBSET Nat
      OBVIOUS
    <3> HIDE DEF T
    <3> QED BY <3>1, Least
  <2>2. k # 0 /\ k \in Nat
    BY <1>2
  <2>3. k - 1 \notin T
    <3> HIDE DEF T
    <3> QED BY <2>1, <2>2
  <2>4. PICK f : Upto(f, k - 1)
    BY <2>2, <2>3
  <2> QED BY <1>3, <2>2, <2>4
<1>5. PICK f : Upto(f, Cardinality(A))
  BY <1>1, <1>4
<1>6. \A U \in SUBSET A : f[U] = Summed(f, U)
  BY <1>1, <1>5, FS_Subset DEF Upto
<1>7. f = [U \in SUBSET A |-> f[U]]
  BY <1>5 DEF Upto
<1>8. Sums(f, A)
  BY <1>6, <1>7 DEF Sums
<1> QED BY <1>8

\* It does not matter of which set the subsets are taken.
LEMMA SumsAgree ==
  ASSUME NEW A, NEW B, IsFiniteSet(A), A \subseteq B, NEW f, NEW g, Sums(f, A), Sums(g, B)
  PROVE  \A U \in SUBSET A : f[U] = g[U]
<1> DEFINE P == {U \in SUBSET A : f[U] = g[U]}
<1>1. ASSUME NEW U \in SUBSET A, \A x \in U : U \ {x} \in P
      PROVE  U \in P
  <2>1. f[U] = Summed(f, U) /\ g[U] = Summed(g, U)
    BY DEF Sums
  <2>2. Summed(f, U) = Summed(g, U)
    BY <1>1, ChosenIn DEF Summed
  <2> QED BY <2>1, <2>2
<1>2. P \in SUBSET (SUBSET A)
  OBVIOUS
<1>3. P = SUBSET A
  <2> HIDE DEF P
  <2> QED BY <1>1, <1>2, BySubsets
<1> QED BY <1>3

\* Sums of numbers are numbers.
LEMMA SumsNat ==
  ASSUME NEW A, IsFiniteSet(A), \A x \in A : x.len \in Nat, NEW f, Sums(f, A)
  PROVE  \A U \in SUBSET A : f[U] \in Nat
<1> DEFINE P == {U \in SUBSET A : f[U] \in Nat}
<1>1. ASSUME NEW U \in SUBSET A, \A x \in U : U \ {x} \in P
      PROVE  U \in P
  <2>1. f[U] = Summed(f, U)
    BY DEF Sums
  <2>2. Summed(f, U) \in Nat
    BY <1>1, ChosenIn DEF Summed
  <2> QED BY <2>1, <2>2
<1>2. P \in SUBSET (SUBSET A)
  OBVIOUS
<1>3. P = SUBSET A
  <2> HIDE DEF P
  <2> QED BY <1>1, <1>2, BySubsets
<1> QED BY <1>3

\* Elements may be taken in any order.
LEMMA SumsAnyOrder ==
  ASSUME NEW A, IsFiniteSet(A), \A x \in A : x.len \in Nat, NEW f, Sums(f, A)
  PROVE  \A U \in SUBSET A : \A x \in U : f[U] = x.len + f[U \ {x}]
<1> DEFINE P == {U \in SUBSET A : \A x \in U : f[U] = x.len + f[U \ {x}]}
<1>1. ASSUME NEW U \in SUBSET A, \A x \in U : U \ {x} \in P
      PROVE  U \in P
  <2> DEFINE c == Chosen(U)
  <2> SUFFICES ASSUME NEW x \in U
               PROVE  f[U] = x.len + f[U \ {x}]
    OBVIOUS
  <2>1. c \in U /\ f[U] = c.len + f[U \ {c}]
    BY ChosenIn DEF Sums, Summed
  <2> HIDE DEF c
  <2>2. ASSUME x # c
        PROVE  f[U] = x.len + f[U \ {x}]
    <3>1. x \in U \ {c} /\ c \in U \ {x}
      BY <2>1, <2>2
    <3> DEFINE r == f[(U \ {x}) \ {c}]
    <3>2. (U \ {c}) \ {x} = (U \ {x}) \ {c}
      OBVIOUS
    <3>3. f[U \ {c}] = x.len + r
      BY <1>1, <2>1, <3>1, <3>2
    <3>4. f[U \ {x}] = c.len + r
      BY <1>1, <3>1
    <3>5. r \in Nat /\ c.len \in Nat /\ x.len \in Nat
      BY <2>1, SumsNat
    <3> HIDE DEF r
    <3> QED BY <2>1, <3>3, <3>4, <3>5
  <2> QED BY <2>1, <2>2
<1>2. P \in SUBSET (SUBSET A)
  OBVIOUS
<1>3. P = SUBSET A
  <2> HIDE DEF P
  <2> QED BY <1>1, <1>2, BySubsets
<1> QED BY <1>3

\* The bytes of a finite set of samples, counted by any function that sums.
LEMMA BytesAre ==
  ASSUME NEW T, IsFiniteSet(T), NEW s
  PROVE  \E f : Sums(f, {i \in T : i.from = s}) /\ Bytes(T, s) = f[{i \in T : i.from = s}]
<1> DEFINE S == {i \in T : i.from = s}
<1>1. IsFiniteSet(S)
  BY FS_Subset
<1>2. Bytes(T, s) = (CHOOSE f : Sums(f, S))[S]
  BY UnfoldBytes
<1> HIDE DEF S
<1>3. PICK f : Sums(f, S)
  BY <1>1, SumsExist
<1>4. Sums((CHOOSE g : Sums(g, S)), S)
  BY <1>3
<1>5. \E g : Sums(g, S) /\ Bytes(T, s) = g[S]
  BY <1>2, <1>4
<1> QED BY <1>5 DEF S

\* They are a number.
LEMMA BytesNat ==
  ASSUME NEW T, IsFiniteSet(T), T \subseteq Samples, NEW s
  PROVE  Bytes(T, s) \in Nat
<1> DEFINE S == {i \in T : i.from = s}
<1>1. IsFiniteSet(S) /\ \A i \in S : i.len \in Nat
  <2>1. \A i \in Samples : i.len \in Nat
    BY DEF Samples
  <2> QED BY <2>1, FS_Subset
<1>2. PICK f : Sums(f, S) /\ Bytes(T, s) = f[S]
  BY BytesAre
<1> HIDE DEF S
<1>3. f[S] \in Nat
  BY <1>1, <1>2, SumsNat
<1> QED BY <1>2, <1>3

\* A sample more adds its length to the bytes of its source.
LEMMA BytesAdd ==
  ASSUME NEW T, IsFiniteSet(T), T \subseteq Samples, NEW x \in Samples \ T, NEW s
  PROVE  /\ Bytes(T, s) \in Nat
         /\ Bytes(T \cup {x}, s) = Bytes(T, s) + (IF x.from = s THEN x.len ELSE 0)
<1> DEFINE S == {i \in T : i.from = s}
           R == {i \in T \cup {x} : i.from = s}
<1>1. \A i \in Samples : i.len \in Nat
  BY DEF Samples
<1>2. /\ IsFiniteSet(S) /\ IsFiniteSet(R) /\ S \subseteq R
      /\ \A i \in S : i.len \in Nat
      /\ \A i \in R : i.len \in Nat
  <2>1. IsFiniteSet(T \cup {x})
    BY FS_AddElement
  <2>2. IsFiniteSet(S) /\ IsFiniteSet(R)
    BY <2>1, FS_Subset
  <2> QED BY <1>1, <2>2
<1>3. R = IF x.from = s THEN S \cup {x} ELSE S
  OBVIOUS
<1>4. x \notin S
  OBVIOUS
<1>5. PICK f : Sums(f, S) /\ Bytes(T, s) = f[S]
  BY BytesAre
<1>6. PICK g : Sums(g, R) /\ Bytes(T \cup {x}, s) = g[R]
  <2>1. IsFiniteSet(T \cup {x})
    BY FS_AddElement
  <2> QED BY <2>1, BytesAre
<1> HIDE DEF S, R
<1>7. f[S] = g[S] /\ f[S] \in Nat
  BY <1>2, <1>5, <1>6, SumsAgree, SumsNat
<1>8. x \in R => g[R] = x.len + g[R \ {x}]
  BY <1>2, <1>6, SumsAnyOrder
<1>9. CASE x.from = s
  <2>1. x \in R /\ R \ {x} = S
    BY <1>3, <1>4, <1>9
  <2> QED BY <1>1, <1>5, <1>6, <1>7, <1>8, <1>9, <2>1
<1>10. CASE x.from # s
  <2>1. R = S
    BY <1>3, <1>10
  <2> QED BY <1>5, <1>6, <1>7, <1>10, <2>1
<1> QED BY <1>9, <1>10

-----------------------------------------------------------------------------
(* Seeds are fresh.                                                         *)

\* A sample's number is no larger than the pool, so that the next one is new.
Numbered == \A p \in Procs : \A i \in pool[p] : i.no <= Cardinality(pool[p])

\* The sizes that a process keeps do not exceed what is in its pool for the
\* first time, and a seed is made when they are large enough.
SizesCount ==
  \A p \in Procs : \A s \in 1..Sources :
    /\ size[p][s] <= Bytes(pool[p] \ handed[p], s)
    /\ pc[p] = "seed" => size[p][s] >= Threshold[s]

FreshInv == IInv /\ Numbered /\ SizesCount /\ SeedsAreFresh

\* Nothing counts nothing.
LEMMA NoBytes ==
  ASSUME NEW s
  PROVE  Bytes({}, s) = 0
<1>1. PICK f : Sums(f, {i \in {} : i.from = s}) /\ Bytes({}, s) = f[{i \in {} : i.from = s}]
  BY BytesAre, FS_EmptySet
<1>2. {i \in {} : i.from = s} = {}
  OBVIOUS
<1> QED BY <1>1, <1>2 DEF Sums, Summed

\* The invariant holds at the start: the pools are empty.
LEMMA InitFresh == Init => FreshInv
<1> SUFFICES ASSUME Init
             PROVE  FreshInv
  OBVIOUS
<1>1. IInv
  BY InitInv
<1>2. Numbered
  BY DEF Init, Numbered
<1>3. SizesCount
  <2>1. \A p \in Procs : pool[p] \ handed[p] = {} /\ pc[p] # "seed"
    BY DEF Init
  <2>2. \A p \in Procs : \A s \in 1..Sources : size[p][s] = 0
    BY DEF Init, NoSizes
  <2> QED BY <2>1, <2>2, NoBytes DEF SizesCount
<1>4. SeedsAreFresh
  BY DEF Init, SeedsAreFresh
<1> QED BY <1>1, <1>2, <1>3, <1>4 DEF FreshInv

\* Nothing of it changes in a step that leaves pools, sizes and seeds alone.
LEMMA SameFresh ==
  ASSUME FreshInv, IInv', UNCHANGED <<size, pool, handed, fresh, own>>,
         \A p \in Procs : pc'[p] = "seed" => pc[p] = "seed"
  PROVE  FreshInv'
<1>1. Numbered'
  BY DEF FreshInv, Numbered
<1>2. SizesCount'
  BY DEF FreshInv, SizesCount
<1>3. SeedsAreFresh'
  BY DEF FreshInv, SeedsAreFresh
<1> QED BY <1>1, <1>2, <1>3 DEF FreshInv

\* A poll that gave n bytes.
LEMMA SampledFresh ==
  ASSUME NEW p \in Procs, FreshInv, pc[p] = "poll", NEW n \in Yields[at[p]], Sampled(p, n),
         handed' = handed
  PROVE  /\ Numbered'
         /\ \A q \in Procs : \A s \in 1..Sources : size'[q][s] <= Bytes(pool'[q] \ handed'[q], s)
<1>1. at[p] \in 1..Sources /\ n \in Nat
  <2>1. at[p] \in 1..(Sources + 1) /\ at[p] <= Sources
    BY DEF FreshInv, IInv, TypeOK, MoreTypes
  <2>2. at[p] \in 1..Sources
    BY <2>1, GeneratorAssumption
  <2> QED BY <2>2, GeneratorAssumption
<1>2. /\ pool \in [Procs -> SUBSET Samples] /\ handed \in [Procs -> SUBSET Samples]
      /\ size \in [Procs -> [1..Sources -> Nat]]
      /\ \A q \in Procs : IsFiniteSet(pool[q]) /\ handed[q] \subseteq pool[q]
  BY DEF FreshInv, IInv, TypeOK, MoreTypes
<1> DEFINE x == [by |-> p, from |-> at[p], len |-> n, no |-> Cardinality(pool[p]) + 1]
<1>3. Cardinality(pool[p]) \in Nat
  BY <1>2, FS_CardinalityType
<1>4. x \in Samples /\ x.from = at[p] /\ x.len = n /\ x.no = Cardinality(pool[p]) + 1
  BY <1>1, <1>3 DEF Samples
<1>5. pool' = [pool EXCEPT ![p] = IF n = 0 THEN pool[p] ELSE pool[p] \cup {x}]
  BY DEF Sampled
<1> HIDE DEF x
<1>6. x \notin pool[p]
  <2>1. x \in pool[p] => x.no <= Cardinality(pool[p])
    BY DEF FreshInv, Numbered
  <2> QED BY <1>3, <1>4, <2>1
<1>7. Numbered'
  <2>1. CASE n = 0
    <3>1. pool' = pool
      BY <1>2, <1>5, <2>1
    <3> QED BY <3>1 DEF FreshInv, Numbered
  <2>2. CASE n # 0
    <3>1. pool'[p] = pool[p] \cup {x} /\ \A q \in Procs \ {p} : pool'[q] = pool[q]
      BY <1>2, <1>5, <2>2
    <3>2. Cardinality(pool[p] \cup {x}) = Cardinality(pool[p]) + 1
      BY <1>2, <1>6, FS_AddElement
    <3>3. \A i \in pool[p] : i.no \in Nat /\ i.no <= Cardinality(pool[p])
      BY <1>2 DEF FreshInv, Numbered, Samples
    <3>4. \A i \in pool[p] \cup {x} : i.no <= Cardinality(pool[p]) + 1
      BY <1>3, <1>4, <3>3
    <3>5. \A q \in Procs \ {p} : \A i \in pool[q] : i.no <= Cardinality(pool[q])
      BY DEF FreshInv, Numbered
    <3>6. \A q \in Procs : \A i \in pool'[q] : i.no <= Cardinality(pool'[q])
      BY <3>1, <3>2, <3>4, <3>5
    <3> QED BY <3>6 DEF Numbered
  <2> QED BY <2>1, <2>2
<1>8. ASSUME NEW q \in Procs, NEW s \in 1..Sources
      PROVE  size'[q][s] <= Bytes(pool'[q] \ handed'[q], s)
  <2>1. size' = [size EXCEPT ![p] = [size[p] EXCEPT ![at[p]] = size[p][at[p]] + n]]
    BY DEF Sampled
  <2>2. size[q][s] <= Bytes(pool[q] \ handed[q], s)
    BY DEF FreshInv, SizesCount
  <2>3. CASE q # p
    <3>1. size'[q] = size[q] /\ pool'[q] = pool[q]
      BY <1>2, <1>5, <2>1, <2>3
    <3> QED BY <2>2, <3>1
  <2>4. CASE q = p
    <3> DEFINE T == pool[p] \ handed[p]
    <3>1. /\ T \subseteq Samples /\ IsFiniteSet(T) /\ x \in Samples \ T
      BY <1>2, <1>4, <1>6, FS_Subset
    <3>2. size[p][s] \in Nat /\ size'[p][s] = size[p][s] + (IF at[p] = s THEN n ELSE 0)
      <4>1. size[p] \in [1..Sources -> Nat]
        BY <1>2
      <4>2. size'[p] = [size[p] EXCEPT ![at[p]] = size[p][at[p]] + n]
        BY <1>2, <2>1
      <4>3. size[p][s] \in Nat
        BY <4>1
      <4>4. CASE at[p] = s
        BY <1>1, <4>1, <4>2, <4>4
      <4>5. CASE at[p] # s
        <5>1. size'[p][s] = size[p][s]
          BY <4>1, <4>2, <4>5
        <5> QED BY <4>3, <4>5, <5>1
      <4> QED BY <4>3, <4>4, <4>5
    <3>3. CASE n = 0
      <4>1. pool'[p] \ handed'[p] = T
        BY <1>2, <1>5, <3>3
      <4>2. size'[p][s] = size[p][s]
        BY <3>2, <3>3
      <4> HIDE DEF T
      <4> QED BY <2>2, <2>4, <4>1, <4>2 DEF T
    <3>4. CASE n # 0
      <4>1. pool'[p] \ handed'[p] = T \cup {x}
        BY <1>2, <1>5, <1>6, <3>4
      <4> HIDE DEF T
      <4>2. /\ Bytes(T, s) \in Nat
            /\ Bytes(T \cup {x}, s) = Bytes(T, s) + (IF x.from = s THEN x.len ELSE 0)
        BY <3>1, BytesAdd
      <4>3. size[p][s] <= Bytes(T, s)
        BY <2>2, <2>4 DEF T
      <4>4. size'[p][s] <= Bytes(T \cup {x}, s)
        BY <1>1, <1>4, <3>2, <4>2, <4>3
      <4> QED BY <2>4, <4>1, <4>4
    <3> QED BY <3>3, <3>4
  <2> QED BY <2>3, <2>4
<1> QED BY <1>7, <1>8

\* The invariant is kept by a poll, failed or not.
LEMMA PollFresh ==
  ASSUME NEW p \in Procs, FreshInv, IInv', Poll(p)
  PROVE  FreshInv'
<1>1. CASE UNCHANGED <<at, size, pool>> /\ pc' = [pc EXCEPT ![p] = "idle"]
  <2>1. \A q \in Procs : pc'[q] = "seed" => pc[q] = "seed"
    BY <1>1 DEF FreshInv, IInv, TypeOK
  <2> QED BY <1>1, <2>1, SameFresh DEF Poll, drbg
<1>2. CASE /\ \E n \in Yields[at[p]] : Sampled(p, n)
           /\ pc' = [pc EXCEPT ![p] = AfterPoll(p)]
  <2>1. handed' = handed /\ fresh' = fresh /\ own' = own /\ pc[p] = "poll"
    BY DEF Poll, drbg
  <2>2. /\ Numbered'
        /\ \A q \in Procs : \A s \in 1..Sources :
             size'[q][s] <= Bytes(pool'[q] \ handed'[q], s)
    BY <1>2, <2>1, SampledFresh
  <2>3. ASSUME NEW q \in Procs, pc'[q] = "seed", NEW s \in 1..Sources
        PROVE  size'[q][s] >= Threshold[s]
    <3>1. CASE q = p
      <4>1. AfterPoll(p) = "seed"
        BY <1>2, <2>3, <3>1 DEF FreshInv, IInv, TypeOK
      <4>2. \A r \in 1..Sources : size'[p][r] >= Threshold[r]
        BY <4>1 DEF AfterPoll
      <4> QED BY <3>1, <4>2
    <3>2. CASE q # p
      <4>1. pc[q] = "seed"
        BY <1>2, <2>3, <3>2 DEF FreshInv, IInv, TypeOK
      <4>2. size'[q] = size[q]
        BY <1>2, <3>2 DEF Sampled, FreshInv, IInv, TypeOK
      <4> QED BY <4>1, <4>2 DEF FreshInv, SizesCount
    <3> QED BY <3>1, <3>2
  <2>4. SizesCount'
    BY <2>2, <2>3 DEF SizesCount
  <2>5. SeedsAreFresh'
    BY <2>1 DEF FreshInv, SeedsAreFresh
  <2> QED BY <2>2, <2>4, <2>5 DEF FreshInv
<1> QED BY <1>1, <1>2 DEF Poll

\* The invariant is kept by a seed: the sizes go back to zero as the pool is handed on.
LEMMA SeedFresh ==
  ASSUME NEW p \in Procs, FreshInv, IInv', Seed(p)
  PROVE  FreshInv'
<1>1. /\ pool \in [Procs -> SUBSET Samples] /\ handed \in [Procs -> SUBSET Samples]
      /\ size \in [Procs -> [1..Sources -> Nat]] /\ fresh \in [Procs -> SUBSET Samples]
      /\ own \in [Procs -> BOOLEAN]
      /\ pc \in [Procs -> {"unborn", "idle", "check", "poll", "seed"}]
      /\ \A q \in Procs : IsFiniteSet(pool[q])
  BY DEF FreshInv, IInv, TypeOK, MoreTypes
<1>2. Numbered'
  BY DEF FreshInv, Numbered, Seed
<1>3. /\ pool' = pool
      /\ \A q \in Procs \ {p} : /\ size'[q] = size[q] /\ handed'[q] = handed[q]
                                /\ fresh'[q] = fresh[q] /\ own'[q] = own[q]
                                /\ pc'[q] = pc[q]
      /\ pc'[p] = "idle" /\ size'[p] = NoSizes /\ handed'[p] = pool[p]
      /\ fresh'[p] = pool[p] \ handed[p] /\ pc[p] = "seed"
  BY <1>1 DEF Seed, Recycled
<1>4. SizesCount'
  <2>1. ASSUME NEW q \in Procs, NEW s \in 1..Sources
        PROVE  /\ size'[q][s] <= Bytes(pool'[q] \ handed'[q], s)
               /\ pc'[q] = "seed" => size'[q][s] >= Threshold[s]
    <3>1. CASE q = p
      <4>1. pool'[p] \ handed'[p] = {} /\ size'[p][s] = 0
        BY <1>3 DEF NoSizes
      <4> QED BY <1>3, <3>1, <4>1, NoBytes
    <3>2. CASE q # p
      BY <1>3, <3>2 DEF FreshInv, SizesCount
    <3> QED BY <3>1, <3>2
  <2> QED BY <2>1 DEF SizesCount
<1>5. SeedsAreFresh'
  <2>1. ASSUME NEW q \in Procs, own'[q], NEW s \in 1..Sources
        PROVE  Bytes(fresh'[q], s) >= Threshold[s]
    <3>1. CASE q = p
      <4>1. size[p][s] \in Nat /\ Threshold[s] \in Nat
        BY <1>1, GeneratorAssumption
      <4>2. size[p][s] <= Bytes(pool[p] \ handed[p], s) /\ size[p][s] >= Threshold[s]
        BY <1>3 DEF FreshInv, SizesCount
      <4>3. Bytes(pool[p] \ handed[p], s) \in Nat
        <5>1. IsFiniteSet(pool[p] \ handed[p]) /\ pool[p] \ handed[p] \subseteq Samples
          BY <1>1, FS_Subset
        <5> QED BY <5>1, BytesNat
      <4>4. Bytes(pool[p] \ handed[p], s) >= Threshold[s]
        BY <4>1, <4>2, <4>3
      <4> QED BY <1>3, <3>1, <4>4
    <3>2. CASE q # p
      BY <1>3, <2>1, <3>2 DEF FreshInv, SeedsAreFresh
    <3> QED BY <3>1, <3>2
  <2> QED BY <2>1 DEF SeedsAreFresh
<1> QED BY <1>2, <1>4, <1>5 DEF FreshInv

\* The invariant is kept by a fork, which copies sizes and pool together.
LEMMA ForkFresh ==
  ASSUME NEW q \in Procs, FreshInv, IInv', Fork(q)
  PROVE  FreshInv'
<1>1. /\ pool \in [Procs -> SUBSET Samples] /\ handed \in [Procs -> SUBSET Samples]
      /\ size \in [Procs -> [1..Sources -> Nat]] /\ fresh \in [Procs -> SUBSET Samples]
      /\ own \in [Procs -> BOOLEAN]
      /\ pc \in [Procs -> {"unborn", "idle", "check", "poll", "seed"}] /\ Server \in Procs
  BY GeneratorAssumption DEF FreshInv, IInv, TypeOK, MoreTypes
<1>2. /\ \A p \in Procs \ {q} : /\ size'[p] = size[p] /\ handed'[p] = handed[p]
                                /\ fresh'[p] = fresh[p] /\ own'[p] = own[p]
                                /\ pc'[p] = pc[p] /\ pool'[p] = pool[p]
      /\ pc'[q] = "idle" /\ size'[q] = size[Server] /\ handed'[q] = handed[Server]
      /\ pool'[q] = pool[Server] /\ own'[q] = FALSE
  BY <1>1 DEF Fork
<1>3. Numbered'
  BY <1>1, <1>2 DEF FreshInv, Numbered
<1>4. SizesCount'
  BY <1>1, <1>2 DEF FreshInv, SizesCount
<1>5. SeedsAreFresh'
  BY <1>2 DEF FreshInv, SeedsAreFresh
<1> QED BY <1>3, <1>4, <1>5 DEF FreshInv

\* The invariant is kept by the steps that gather nothing.
LEMMA OtherFresh ==
  ASSUME NEW p \in Procs, FreshInv, IInv', Check(p) \/ Random(p) \/ UNCHANGED vars
  PROVE  FreshInv'
<1>1. \A q \in Procs : pc'[q] = "seed" => pc[q] = "seed"
  BY DEF Check, Random, vars, FreshInv, IInv, TypeOK
<1>2. UNCHANGED <<size, pool, handed, fresh, own>>
  BY DEF Check, Random, vars, entropy, drbg
<1> QED BY <1>1, <1>2, SameFresh

\* The invariant behind the theorem: what a process counts of a source it has in
\* its pool, and no seed came from it yet.
THEOREM FreshInductive == Spec => []FreshInv
<1>1. FreshInv /\ IInv' /\ [Next]_vars => FreshInv'
  BY PollFresh, SeedFresh, ForkFresh, OtherFresh, GeneratorAssumption DEF Next, Work
<1> QED BY InitFresh, Inductive, <1>1, PTL DEF Spec

\* Every seed a process makes has its threshold of bytes from each source, of
\* samples that went into none of its seeds before, whatever calls failed half
\* way in between (entropy.c:204-316).
THEOREM SeedsFresh == Spec => []GeneratorSound
<1>1. FreshInv => GeneratorSound
  BY DEF FreshInv, IInv, GeneratorSound
<1> QED BY FreshInductive, <1>1, PTL
=============================================================================
