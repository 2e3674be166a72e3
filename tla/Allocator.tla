----------------------------- MODULE Allocator -----------------------------
(* What a caller of polarssl_malloc and polarssl_free may rely on,         *)
(* whatever serves the two calls: memory that is his alone, as long as he  *)
(* asked for, until he gives it back.  MemoryPool implements it.           *)
EXTENDS Naturals

CONSTANTS Requests,     \* the lengths asked for
          Sensible,     \* the longest request that must be served in full
          Room          \* how many units of memory there are

VARIABLES held,         \* address of each piece of memory lent -> [size, asked]
          running       \* FALSE once the program has been stopped

avars == <<held, running>>

Init == held = <<>> /\ running = TRUE

\* A piece that overlaps no other is lent; a request may also be refused,
\* which changes nothing.
Lend(n) ==
    \E p \in 0..(Room - 1), s \in 0..Room :
        /\ p \notin DOMAIN held
        /\ p + s <= Room
        /\ n <= Sensible => s >= n
        /\ \A q \in DOMAIN held : p + s <= q \/ q + held[q].size <= p
        /\ held' = [q \in DOMAIN held \cup {p} |->
                       IF q = p THEN [size |-> s, asked |-> n] ELSE held[q]]
        /\ UNCHANGED running

TakeBack(p) ==
    /\ held' = [q \in DOMAIN held \ {p} |-> held[q]]
    /\ UNCHANGED running

Stop == running' = FALSE /\ UNCHANGED held

Next ==
    /\ running = TRUE
    /\ \/ \E n \in Requests : Lend(n)
       \/ \E p \in DOMAIN held : TakeBack(p)
       \/ Stop

Spec == Init /\ [][Next]_avars
=============================================================================
