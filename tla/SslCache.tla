------------------------------ MODULE SslCache ------------------------------
(***************************************************************************)
(* The session cache of the TLS library, ssl_cache.c: a chain of entries,  *)
(* searched from its head under a mutex, so each call is one step.  The    *)
(* compression of a session is left out: it is null in this build.         *)
(***************************************************************************)
EXTENDS Naturals, Sequences, SequencesExt

CONSTANTS
  MaxEntries,   \* cache->max_entries
  Timeout       \* cache->timeout, 0 for none

ASSUME CacheAssumption == MaxEntries \in Nat /\ Timeout \in Nat

VARIABLES
  chain,        \* cache->chain: entries [stamp, session]
  clock         \* time(NULL)

Expired(e) == Timeout # 0 /\ clock - e.stamp > Timeout

\* Mutant of Found: an entry is found by its id alone, of any suite and age.
FoundById(id, suite) == {i \in DOMAIN chain : chain[i].session.id = id}

\* The positions of the entries ssl_cache_get would answer with.
Found(id, suite) ==
  {i \in DOMAIN chain : /\ ~Expired(chain[i])
                        /\ chain[i].session.suite = suite
                        /\ chain[i].session.id = id}

First(positions) == CHOOSE i \in positions : \A j \in positions : i <= j

\* ssl_cache_get: a copy of the first entry.
Get(id, suite) == chain[First(Found(id, suite))].session

\* The slots ssl_cache_set takes over: the first that has expired or holds
\* the same id.
Slots(id) == {i \in DOMAIN chain : Expired(chain[i]) \/ chain[i].session.id = id}

\* Mutant of Oldest: the newest is dropped.
Newest ==
  First({i \in DOMAIN chain :
           \A j \in DOMAIN chain : chain[i].stamp >= chain[j].stamp})

\* The entry ssl_cache_set drops when every slot is taken.
Oldest ==
  First({i \in DOMAIN chain :
           \A j \in DOMAIN chain : chain[i].stamp <= chain[j].stamp})

\* ssl_cache_set: the chain with the session in it.  The slot of the same id
\* keeps its age, every other one starts anew.
Stored(session) ==
  IF Slots(session.id) # {}
  THEN LET i == First(Slots(session.id))
       IN [chain EXCEPT ![i] =
             [stamp |-> IF Expired(@) THEN clock ELSE @.stamp,
              session |-> session]]
  ELSE IF Len(chain) < MaxEntries
       THEN Append(chain, [stamp |-> clock, session |-> session])
       ELSE IF chain = <<>> THEN chain
            ELSE [chain EXCEPT ![Oldest] =
                    [stamp |-> clock, session |-> session]]
=============================================================================
