----------------------------- MODULE MemoryPool -----------------------------
(* memory_buffer_alloc.c: malloc and free inside one static buffer.  Every  *)
(* block has a header with its size, its neighbours in memory and, while    *)
(* it is free, its neighbours in the free list.  A call runs under the      *)
(* heap's mutex (or in a single thread), so that it is one step.            *)
EXTENDS Integers, FiniteSets

CONSTANTS BufLen,       \* length of the caller's buffer
          BufStarts,    \* where that buffer may begin
          HDR,          \* sizeof(memory_header)
          ALIGN,        \* POLARSSL_MEMORY_ALIGN_MULTIPLE
          SizeMax,      \* the largest size_t
          Requests,     \* the lengths callers ask for
          Verify        \* heap.verify: a subset of {"alloc", "free"}

ASSUME PoolAssumption ==
    /\ ALIGN \in Nat \ {0} /\ HDR \in Nat \ {0} /\ HDR % ALIGN = 0
    /\ BufLen \in Nat /\ BufLen > HDR
    /\ SizeMax \in Nat /\ BufLen <= SizeMax /\ (SizeMax + 1) % ALIGN = 0
    /\ BufStarts \subseteq Nat \ {0} /\ Requests \subseteq 0..SizeMax
    /\ Verify \subseteq {"alloc", "free"}

VARIABLES heap,         \* [buf, len, first, first_free]
          hdr,          \* address of each header -> the header
          given,        \* pointers that callers hold -> the length asked for
          status        \* "running"; "exited" by exit(1); "crashed"

vars == <<heap, hdr, given, status>>

NULL == 0
Running == status = "running"
Ends(a) == a + HDR + hdr[a].size
Aligned(a) == a + ((ALIGN - (a % ALIGN)) % ALIGN)
With(f, a, v) == [b \in DOMAIN f \cup {a} |-> IF b = a THEN v ELSE f[b]]

-----------------------------------------------------------------------------
(* The pieces of malloc and free.  A heap in the middle of a call is a      *)
(* record of the head of the free list and of the headers.                  *)

\* if( a != NULL ) a->f = v
Set(h, a, f, v) == IF a = NULL THEN h ELSE [h EXCEPT !.at[a][f] = v]

\* The neighbours p and n of a place in the free list are joined to a, or to
\* each other when a is NULL.
Join(h, p, n, toPrev, toNext) ==
    LET g == IF p # NULL THEN Set(h, p, "next_free", toPrev)
                         ELSE [h EXCEPT !.first_free = toPrev]
    IN  Set(g, n, "prev_free", toNext)

\* Mutant of Unlink: the block is taken for the head of the list.
UnlinkHead(h, a) == Join(h, NULL, h.at[a].next_free, h.at[a].next_free, h.at[a].prev_free)

Unlink(h, a) == Join(h, h.at[a].prev_free, h.at[a].next_free,
                     h.at[a].next_free, h.at[a].prev_free)

\* a takes the place that b has in the free list.
Replace(h, b, a) ==
    LET p == h.at[b].prev_free
        n == h.at[b].next_free
        g == Set(Set(h, a, "prev_free", p), a, "next_free", n)
    IN  Join(g, p, n, a, a)

\* memset( a, 0, sizeof(memory_header) ): the header is no header any more.
Wipe(h, a) == [h EXCEPT !.at = [b \in DOMAIN h.at \ {a} |-> h.at[b]]]

VerifyHeader(b) ==
    /\ b.alloc \in 0..1
    /\ ~(b.prev # NULL /\ b.prev = b.next)
    /\ ~(b.prev_free # NULL /\ b.prev_free = b.next_free)

VerifyChain(at) ==
    LET from[a \in DOMAIN at \cup {NULL}] ==
            a = NULL \/ /\ VerifyHeader(at[a])
                        /\ LET n == at[a].next
                           IN  /\ n # NULL => n \in DOMAIN at /\ at[n].prev = a
                               /\ from[n]
    IN  at[heap.first].prev = NULL /\ from[heap.first]

\* The end of a call that may be followed by a verification of the chain.
Finish(h, when) ==
    /\ heap' = [heap EXCEPT !.first_free = h.first_free]
    /\ hdr' = h.at
    /\ status' = IF when \in Verify /\ ~VerifyChain(h.at) THEN "exited" ELSE "running"

-----------------------------------------------------------------------------
Init ==
    \E start \in BufStarts :
        LET buf == Aligned(start)
        IN  /\ heap = [buf |-> buf, len |-> BufLen, first |-> buf, first_free |-> buf]
            /\ hdr = [b \in {buf} |->
                        [size |-> BufLen - HDR, alloc |-> 0, prev |-> NULL, next |-> NULL,
                         prev_free |-> NULL, next_free |-> NULL]]
            /\ given = <<>>
            /\ status = "running"

\* Mutant of Rounded: the length without its odd units.
RoundedDown(n) == n - (n % ALIGN)

\* The length in whole units of alignment; the sum may pass the end of size_t.
Rounded(n) == Aligned(n) % (SizeMax + 1)

\* The first block of the free list with n units; NULL if there is none.
Fit(n) ==
    LET from[a \in DOMAIN hdr \cup {NULL}] ==
            IF a = NULL \/ hdr[a].size >= n THEN a ELSE from[hdr[a].next_free]
    IN  from[heap.first_free]

Unlinked(b) == [b EXCEPT !.alloc = 1, !.prev_free = NULL, !.next_free = NULL]

\* The block a is given away as it is.
Whole(a) ==
    LET h == Unlink([first_free |-> heap.first_free, at |-> hdr], a)
    IN  [h EXCEPT !.at[a] = Unlinked(@)]

\* The block a is cut after n units; the rest becomes a block in its place.
Split(a, n) ==
    LET new == a + HDR + n
        rest == [size |-> hdr[a].size - n - HDR, alloc |-> 0, prev |-> a,
                 next |-> hdr[a].next, prev_free |-> NULL, next_free |-> NULL]
        h == Set([first_free |-> heap.first_free, at |-> With(hdr, new, rest)],
                 rest.next, "prev", new)
    IN  [Replace(h, a, new) EXCEPT !.at[a] = [Unlinked(@) EXCEPT !.size = n, !.next = new]]

Malloc(len) ==
    LET n == Rounded(len)
        cur == Fit(n)
    IN  /\ Running
        /\ cur # NULL
        /\ IF hdr[cur].alloc # 0
           THEN status' = "exited" /\ UNCHANGED <<heap, hdr, given>>
           ELSE /\ Finish(IF hdr[cur].size - n < HDR + ALIGN THEN Whole(cur) ELSE Split(cur, n),
                          "alloc")
                /\ given' = With(given, cur + HDR, len)

\* The block n behind a becomes a part of a.
Swallow(h, a, n) ==
    [h EXCEPT !.at[a] = [@ EXCEPT !.size = h.at[a].size + HDR + h.at[n].size,
                                  !.next = h.at[n].next]]

\* Mutant of MergeBefore: the block that follows still points to the header wiped out.
MergeBeforeOneWay(h, a) ==
    Wipe(Swallow(h, h.at[a].prev, a), a)

\* Joined with the block before, which keeps its place in the free list.
MergeBefore(h, a) ==
    LET p == h.at[a].prev
    IN  Wipe(Set(Swallow(h, p, a), h.at[a].next, "prev", p), a)

\* Joined with the block after, whose place in the free list it takes.
MergeAfter(h, a) ==
    LET n == h.at[a].next
        g == Swallow(h, a, n)
        u == IF g.at[a].prev_free # NULL \/ g.at[a].next_free # NULL THEN Unlink(g, a) ELSE g
    IN  Wipe(Set(Replace(u, n, a), h.at[n].next, "prev", a), n)

\* Mutant of IsFree: neighbours are never joined.
IsFreeNever(h, a) == FALSE
IsFree(h, a) == a # NULL /\ h.at[a].alloc = 0

\* free of a block that is given.  Without a free neighbour it is put at the
\* head of the free list, whose old head is written to without looking.
Release(a) ==
    LET h == [first_free |-> heap.first_free, at |-> [hdr EXCEPT ![a].alloc = 0]]
        before == IsFree(h, hdr[a].prev)
        b == IF before THEN MergeBefore(h, a) ELSE h
        at == IF before THEN hdr[a].prev ELSE a
        after == IsFree(b, b.at[at].next)
        back == given' = [p \in DOMAIN given \ {a + HDR} |-> given[p]]
    IN  \/ (before \/ after)
           /\ back
           /\ Finish(IF after THEN MergeAfter(b, at) ELSE b, "free")
        \/ ~before /\ ~after /\ heap.first_free # NULL
           /\ back
           /\ Finish([first_free |-> a,
                      at |-> [h.at EXCEPT ![a].next_free = heap.first_free,
                                          ![heap.first_free].prev_free = a]], "free")
        \/ ~before /\ ~after /\ heap.first_free = NULL
           /\ status' = "crashed" /\ UNCHANGED <<heap, hdr, given>>

\* Mutant of Accepts: any header will do.
AcceptsAnyHeader(p) ==
    /\ p >= heap.buf /\ p <= heap.buf + heap.len
    /\ p - HDR \in DOMAIN hdr

\* Whether free accepts the pointer p.  Memory that is no header has no
\* magic numbers.
Accepts(p) ==
    /\ p >= heap.buf /\ p <= heap.buf + heap.len
    /\ p - HDR \in DOMAIN hdr
    /\ VerifyHeader(hdr[p - HDR])
    /\ hdr[p - HDR].alloc = 1

\* free( p )
Free(p) ==
    /\ Running
    /\ IF Accepts(p) THEN Release(p - HDR)
                     ELSE status' = "exited" /\ UNCHANGED <<heap, hdr, given>>

\* Every address that a caller may take for a pointer: up to one unit
\* beyond the heap, and one before it.
Pointers == {heap.buf - 1} \cup (heap.buf + HDR)..(heap.buf + heap.len + 1)

Next ==
    \/ \E n \in Requests : Malloc(n)
    \/ \E p \in Pointers : Free(p)

Spec == Init /\ [][Next]_vars

-----------------------------------------------------------------------------
Blocks == DOMAIN hdr
Top == heap.buf + heap.len
FreeBlocks == {a \in Blocks : hdr[a].alloc = 0}

Header == [size : 0..BufLen, alloc : 0..1, prev : Blocks \cup {NULL},
           next : Blocks \cup {NULL}, prev_free : FreeBlocks \cup {NULL},
           next_free : FreeBlocks \cup {NULL}]

\* Types: headers are aligned, and no pointer of a header dangles.
TypeOK ==
    /\ heap.first \in Blocks /\ heap.first_free \in FreeBlocks \cup {NULL}
    /\ \A a \in Blocks : a % ALIGN = 0 /\ a \in heap.buf..Top
    /\ hdr \in [Blocks -> Header]
    /\ given \in [DOMAIN given -> Requests]
    /\ status \in {"running", "exited", "crashed"}

\* After any calls of malloc and free the blocks lie end to end from the first
\* unit of the heap to the last, in the order of the prev and next pointers.
Tiled ==
    /\ heap.first = heap.buf
    /\ \A a \in Blocks :
           /\ hdr[a].next = IF Ends(a) = Top THEN NULL ELSE Ends(a)
           /\ hdr[a].next # NULL => hdr[hdr[a].next].prev = a
           /\ hdr[a].prev = NULL <=> a = heap.first

\* The nodes of the free list in its order, NULL behind them.
Listed == LET node[i \in 0..Cardinality(Blocks)] ==
                  IF i = 0 THEN heap.first_free
                  ELSE IF node[i - 1] = NULL THEN NULL ELSE hdr[node[i - 1]].next_free
          IN  node

\* The free list leads to every free block and to nothing else, its back
\* links match, and no two free blocks are neighbours (free joins them).
FreeListExact ==
    /\ {Listed[i] : i \in DOMAIN Listed} \ {NULL} = FreeBlocks
    /\ \A a \in FreeBlocks :
           /\ hdr[a].prev_free = NULL <=> a = heap.first_free
           /\ hdr[a].next_free # NULL => hdr[hdr[a].next_free].prev_free = a
           /\ hdr[a].next \notin FreeBlocks

\* The heap is sound: typed, tiled by its blocks, and its free list exact, after
\* any calls, however many blocks were split and joined (memory_buffer_alloc.c 243-498).
HeapSound == TypeOK /\ Tiled /\ FreeListExact

\* Memory marked as used is in the hands of a caller, and once everything was
\* given back the heap is one block again, whatever the order of the calls.
NothingLost ==
    status = "running" =>
        /\ Blocks \ FreeBlocks = {p - HDR : p \in DOMAIN given}
        /\ given = <<>> => Blocks = {heap.buf} /\ Ends(heap.buf) = Top

\* free stops the program on exactly the pointers that nobody holds: memory
\* given back twice, pointers into the middle of a block or out of the heap.
MisuseIsCaught ==
    [][status' = "exited" <=> \E p \in Pointers \ DOMAIN given : Free(p)]_vars

\* The write through an empty free list happens only if callers hold the
\* whole heap, up to its last unit.
CrashOnlyWhenFull ==
    [][status' = "crashed" =>
         heap.buf..Top - 1 \subseteq
             UNION {(p - HDR)..(Ends(p - HDR) - 1) : p \in DOMAIN given}]_vars

\* A caller's pieces are his alone and as long as asked for, unless the
\* length wrapped when it was rounded.
Lent == INSTANCE Allocator WITH
            Sensible <- SizeMax + 1 - ALIGN,
            Room <- BufLen,
            held <- [o \in {p - heap.buf : p \in DOMAIN given} |->
                        [size |-> hdr[heap.buf + o - HDR].size, asked |-> given[heap.buf + o]]],
            running <- status = "running"
IsAllocator == Lent!Spec
=============================================================================
