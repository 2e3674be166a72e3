--------------------------- MODULE MemoryPoolProofs ---------------------------
(***************************************************************************)
(* Proofs about MemoryPool: that the heap stays sound, that misuse stops   *)
(* the program and correct use never does, and that malloc and free        *)
(* implement the abstract allocator, for any buffer, header size,          *)
(* alignment and lengths asked for, and any setting of the verification.   *)
(***************************************************************************)
EXTENDS MemoryPool, FiniteSetTheorems, WellFoundedInduction, TLAPS

-----------------------------------------------------------------------------
(* Multiples of ALIGN.                                                      *)

\* A number has the remainder of its multiple.
LEMMA Multiple ==
    ASSUME NEW A \in Nat \ {0}, NEW k \in Int, NEW r \in 0..(A - 1), NEW a, a = A * k + r
    PROVE  a % A = r
<1>1. (A * k + r) % A = r
  OBVIOUS
<1> QED BY <1>1, Zenon

\* Every number is a multiple of ALIGN and its remainder.
LEMMA Division ==
    ASSUME NEW A \in Nat \ {0}, NEW a \in Nat
    PROVE  \E k \in Int : a = A * k + (a % A)
<1>1. a \div A \in Int
  OBVIOUS
<1>2. a = A * (a \div A) + (a % A)
  OBVIOUS
<1> QED BY <1>1, <1>2

\* A number without a remainder is a multiple.
LEMMA ExactDivision ==
    ASSUME NEW A \in Nat \ {0}, NEW a \in Nat, a % A = 0
    PROVE  \E k \in Int : a = A * k
<1>1. PICK k \in Int : a = A * k + (a % A)
  BY Division
<1>2. A * k + 0 = A * k
  OBVIOUS
<1> QED BY <1>1, <1>2, Zenon

\* Multiples add up to multiples.
LEMMA SumOfMultiples ==
    ASSUME NEW A \in Nat \ {0}, NEW a \in Nat, NEW b \in Nat, a % A = 0, b % A = 0
    PROVE  (a + b) % A = 0
<1>1. PICK k \in Int : a = A * k
  BY ExactDivision
<1>2. PICK l \in Int : b = A * l
  BY ExactDivision
<1>3. PICK m \in Int : m = k + l
  OBVIOUS
<1>4. a + b = A * m
  BY <1>1, <1>2, <1>3
<1>5. (A * m) % A = 0
  OBVIOUS
<1> QED BY <1>4, <1>5

\* Aligned goes up to the next multiple, by less than ALIGN.
LEMMA AlignedUp ==
    ASSUME NEW a \in Nat
    PROVE  Aligned(a) \in a..(a + ALIGN - 1) /\ Aligned(a) % ALIGN = 0
<1> DEFINE r == a % ALIGN
<1>1. ALIGN \in Nat \ {0} /\ r \in 0..(ALIGN - 1)
  BY PoolAssumption
<1>2. PICK k \in Int : a = ALIGN * k + r
  BY <1>1, Division
<1> HIDE DEF r
<1>3. CASE r = 0
  <2>1. ALIGN % ALIGN = 0
    <3>1. ALIGN = ALIGN * 1 + 0 /\ 0 \in 0..(ALIGN - 1)
      BY <1>1
    <3> QED BY <3>1, <1>1, Multiple
  <2> QED BY <1>1, <1>3, <2>1 DEF Aligned, r
<1>4. CASE r # 0
  <2>1. (ALIGN - r) % ALIGN = ALIGN - r
    <3>1. ALIGN - r = ALIGN * 0 + (ALIGN - r) /\ ALIGN - r \in 0..(ALIGN - 1)
      BY <1>1, <1>4
    <3> QED BY <3>1, <1>1, Multiple
  <2>2. Aligned(a) = a + (ALIGN - r)
    BY <2>1 DEF Aligned, r
  <2>3. PICK m \in Int : m = k + 1
    OBVIOUS
  <2>4. a + (ALIGN - r) = ALIGN * m
    BY <1>1, <1>2, <2>3
  <2>5. (ALIGN * m) % ALIGN = 0
    BY <1>1
  <2>6. a + (ALIGN - r) \in a..(a + ALIGN - 1)
    BY <1>1, <1>4
  <2> QED BY <2>2, <2>4, <2>5, <2>6
<1> QED BY <1>3, <1>4

\* A length is rounded to a multiple of ALIGN that a size_t holds, and never
\* to less than it is unless it is among the last ALIGN - 1.
LEMMA RoundedUp ==
    ASSUME NEW n \in 0..SizeMax
    PROVE  /\ Rounded(n) \in Nat /\ Rounded(n) % ALIGN = 0
           /\ n <= SizeMax + 1 - ALIGN => Rounded(n) >= n
<1>1. ALIGN \in Nat \ {0} /\ SizeMax \in Nat /\ (SizeMax + 1) % ALIGN = 0 /\ n \in Nat
  BY PoolAssumption
<1>2. Aligned(n) \in n..(n + ALIGN - 1) /\ Aligned(n) % ALIGN = 0
  BY <1>1, AlignedUp
<1> DEFINE a == Aligned(n)
           W == SizeMax + 1
<1>3. a \in Nat /\ W \in Nat \ {0}
  BY <1>1, <1>2
<1> HIDE DEF a, W
<1>4. PICK q \in Int : a = W * q + (a % W)
  BY <1>3, Division
<1>5. a % W \in 0..(W - 1)
  BY <1>3
<1>6. PICK k \in Int : a = ALIGN * k
  BY <1>1, <1>2, <1>3, ExactDivision DEF a
<1>7. PICK l \in Int : W = ALIGN * l
  BY <1>1, <1>3, ExactDivision DEF W
<1>8. PICK m \in Int : m = k - l * q
  OBVIOUS
<1>9. a % W = ALIGN * m
  BY <1>4, <1>5, <1>6, <1>7, <1>8, <1>1
<1>10. (ALIGN * m) % ALIGN = 0
  BY <1>1
<1>11. ASSUME n <= W - ALIGN
       PROVE  a % W = a
  <2>1. a \in 0..(W - 1)
    BY <1>1, <1>2, <1>3, <1>11 DEF a
  <2>2. a = W * 0 + a
    BY <1>3
  <2>3. (W * 0 + a) % W = a
    BY <1>3, <2>1
  <2> QED BY <2>2, <2>3, Zenon
<1>12. Rounded(n) = a % W
  BY DEF Rounded, a, W
<1>13. n <= W - ALIGN => Rounded(n) >= n
  BY <1>11, <1>12, <1>2 DEF a
<1>14. Rounded(n) % ALIGN = 0
  BY <1>9, <1>10, <1>12, Zenon
<1>15. Rounded(n) \in Nat
  BY <1>1, <1>3, <1>5, <1>12
<1>16. W - ALIGN = SizeMax + 1 - ALIGN
  BY <1>1 DEF W
<1> QED BY <1>13, <1>14, <1>15, <1>16

-----------------------------------------------------------------------------
(* The free list.  Chain says that L[1], ..., L[k] are the blocks of F in   *)
(* the order of the list.                                                   *)

\* What a header holds, as far as the steps below need to know.
Hdr == [size : Nat, alloc : Nat, prev : Nat, next : Nat, prev_free : Nat, next_free : Nat]

Chain(at, ff, F, k, L) ==
    /\ k \in Nat /\ L \in [1..k -> F]
    /\ \A a \in F : \E i \in 1..k : L[i] = a
    /\ \A i, j \in 1..k : L[i] = L[j] => i = j
    /\ ff = IF k = 0 THEN NULL ELSE L[1]
    /\ \A i \in 1..k : /\ at[L[i]].next_free = IF i = k THEN NULL ELSE L[i + 1]
                       /\ at[L[i]].prev_free = IF i = 1 THEN NULL ELSE L[i - 1]

\* Headers differ in their links only, and in those only within F.
SameBlocks(at, bt, D) ==
    \A b \in D : /\ bt[b].size = at[b].size /\ bt[b].alloc = at[b].alloc
                 /\ bt[b].prev = at[b].prev /\ bt[b].next = at[b].next
\* The links of the blocks in S are the same.
SameLinks(at, bt, S) ==
    \A b \in S : bt[b].prev_free = at[b].prev_free /\ bt[b].next_free = at[b].next_free

\* Writing one prev_free changes no other link and no block.
LEMMA SetPrevFree ==
    ASSUME NEW D, NULL \notin D, NEW at \in [D -> Hdr], NEW ff,
           NEW a \in D \cup {NULL}, NEW v \in Nat
    PROVE  LET g == Set([first_free |-> ff, at |-> at], a, "prev_free", v)
           IN  /\ g = [first_free |-> ff, at |-> g.at] /\ g.at \in [D -> Hdr]
               /\ SameBlocks(at, g.at, D)
               /\ \A b \in D : /\ g.at[b].prev_free = IF b = a THEN v ELSE at[b].prev_free
                               /\ g.at[b].next_free = at[b].next_free
  BY DEF Set, Hdr, SameBlocks

\* Writing one next_free changes no other link and no block.
LEMMA SetNextFree ==
    ASSUME NEW D, NULL \notin D, NEW at \in [D -> Hdr], NEW ff,
           NEW a \in D \cup {NULL}, NEW v \in Nat
    PROVE  LET g == Set([first_free |-> ff, at |-> at], a, "next_free", v)
           IN  /\ g = [first_free |-> ff, at |-> g.at] /\ g.at \in [D -> Hdr]
               /\ SameBlocks(at, g.at, D)
               /\ \A b \in D : /\ g.at[b].next_free = IF b = a THEN v ELSE at[b].next_free
                               /\ g.at[b].prev_free = at[b].prev_free
  BY DEF Set, Hdr, SameBlocks

\* What Set makes of the head ff and the headers at: a's prev is v.
PrevSet(g, D, at, ff, a, v) ==
    /\ g = [first_free |-> ff, at |-> g.at] /\ g.at \in [D -> Hdr]
    /\ SameLinks(at, g.at, D)
    /\ \A b \in D : /\ g.at[b].prev = IF b = a THEN v ELSE at[b].prev
                    /\ g.at[b].next = at[b].next /\ g.at[b].size = at[b].size
                    /\ g.at[b].alloc = at[b].alloc

\* Writing one prev changes the block a alone.
LEMMA SetPrev ==
    ASSUME NEW D, NULL \notin D, NEW at \in [D -> Hdr], NEW ff,
           NEW a \in D \cup {NULL}, NEW v \in Nat
    PROVE  PrevSet(Set([first_free |-> ff, at |-> at], a, "prev", v), D, at, ff, a, v)
  BY DEF Set, Hdr, SameLinks, PrevSet

\* What Join makes of the head ff and the headers at.
Joined(g, D, at, ff, p, n, v, w) ==
    /\ g = [first_free |-> IF p = NULL THEN v ELSE ff, at |-> g.at]
    /\ g.at \in [D -> Hdr]
    /\ SameBlocks(at, g.at, D)
    /\ \A b \in D : /\ g.at[b].next_free = IF b = p THEN v ELSE at[b].next_free
                    /\ g.at[b].prev_free = IF b = n THEN w ELSE at[b].prev_free

\* Join writes the two links, or the head of the list and one link, and nothing else.
LEMMA JoinFacts ==
    ASSUME NEW D, NULL \notin D, NEW at \in [D -> Hdr], NEW ff,
           NEW p \in D \cup {NULL}, NEW n \in D \cup {NULL}, NEW v \in Nat, NEW w \in Nat
    PROVE  Joined(Join([first_free |-> ff, at |-> at], p, n, v, w), D, at, ff, p, n, v, w)
<1> DEFINE h == [first_free |-> ff, at |-> at]
           s == IF p # NULL THEN Set(h, p, "next_free", v) ELSE [h EXCEPT !.first_free = v]
           g == Set(s, n, "prev_free", w)
           f1 == IF p = NULL THEN v ELSE ff
           at1 == s.at
<1>1. /\ s = [first_free |-> f1, at |-> at1] /\ at1 \in [D -> Hdr] /\ SameBlocks(at, at1, D)
      /\ \A b \in D : /\ at1[b].next_free = IF b = p THEN v ELSE at[b].next_free
                      /\ at1[b].prev_free = at[b].prev_free
  <2>1. CASE p # NULL
    <3>1. s = Set(h, p, "next_free", v) /\ f1 = ff
      BY <2>1
    <3> HIDE DEF s, f1
    <3> QED BY <3>1, SetNextFree
  <2>2. CASE p = NULL
    BY <2>2 DEF SameBlocks
  <2> QED BY <2>1, <2>2
<1>3. Join(h, p, n, v, w) = g
  BY DEF Join
<1> HIDE DEF s, f1, at1
<1>2. /\ g = [first_free |-> f1, at |-> g.at] /\ g.at \in [D -> Hdr] /\ SameBlocks(at1, g.at, D)
      /\ \A b \in D : /\ g.at[b].prev_free = IF b = n THEN w ELSE at1[b].prev_free
                      /\ g.at[b].next_free = at1[b].next_free
  BY <1>1, SetPrevFree
<1> HIDE DEF g
<1> QED BY <1>1, <1>2, <1>3 DEF Joined, SameBlocks, f1

\* The head and the headers of u instead of those at: the list of the blocks
\* G, and headers that differ in the links within S only.
Relinked(u, D, at, S, G) ==
    /\ u = [first_free |-> u.first_free, at |-> u.at]
    /\ u.at \in [D -> Hdr] /\ SameBlocks(at, u.at, D)
    /\ SameLinks(at, u.at, D \ S)
    /\ \E k, L : Chain(u.at, u.first_free, G, k, L)

\* Taking a block out of the list leaves a list of the others.
LEMMA UnlinkChain ==
    ASSUME NEW D \in SUBSET Nat, NULL \notin D, NEW at \in [D -> Hdr], NEW ff,
           NEW F \in SUBSET D, NEW k, NEW L, Chain(at, ff, F, k, L), NEW a \in F
    PROVE  Relinked(Unlink([first_free |-> ff, at |-> at], a), D, at, F, F \ {a})
<1> DEFINE p == at[a].prev_free
           n == at[a].next_free
           u == Join([first_free |-> ff, at |-> at], p, n, n, p)
<1>0. Unlink([first_free |-> ff, at |-> at], a) = u
  BY DEF Unlink
<1>1. PICK j \in 1..k : L[j] = a
  BY DEF Chain
<1>2. k \in Nat /\ L \in [1..k -> F] /\ (\A i \in 1..k : L[i] \in D)
  BY DEF Chain
<1>3. n = (IF j = k THEN NULL ELSE L[j + 1]) /\ p = IF j = 1 THEN NULL ELSE L[j - 1]
  BY <1>1 DEF Chain
<1>4. j # k => j + 1 \in 1..k
  BY <1>2
<1>5. j # 1 => j - 1 \in 1..k
  BY <1>2
<1>8. p \in F \cup {NULL} /\ n \in F \cup {NULL}
  BY <1>2, <1>3, <1>4, <1>5
<1> HIDE DEF p, n
<1>6. p \in D \cup {NULL} /\ n \in D \cup {NULL} /\ p \in Nat /\ n \in Nat
  BY <1>8 DEF NULL
<1>7. /\ u = [first_free |-> IF p = NULL THEN n ELSE ff, at |-> u.at]
      /\ u.at \in [D -> Hdr] /\ SameBlocks(at, u.at, D)
      /\ \A b \in D : /\ u.at[b].next_free = IF b = p THEN n ELSE at[b].next_free
                      /\ u.at[b].prev_free = IF b = n THEN p ELSE at[b].prev_free
  <2>1. Joined(u, D, at, ff, p, n, n, p)
    BY <1>6, JoinFacts
  <2> QED BY <2>1 DEF Joined
<1> HIDE DEF u
<1>9. SameLinks(at, u.at, D \ F)
  BY <1>7, <1>8 DEF SameLinks
<1> DEFINE M == [i \in 1..(k - 1) |-> IF i < j THEN L[i] ELSE L[i + 1]]
<1>10. ASSUME NEW i \in 1..(k - 1)
       PROVE  i \in 1..k /\ i + 1 \in 1..k /\ M[i] \in F \ {a}
  <2>1. i \in 1..k /\ i + 1 \in 1..k
    BY <1>2
  <2>2. i < j => L[i] # a
    BY <1>1, <2>1 DEF Chain
  <2>3. ~(i < j) => L[i + 1] # a
    BY <1>1, <2>1 DEF Chain
  <2> QED BY <1>2, <2>1, <2>2, <2>3
<1>11. \A b \in F \ {a} : \E i \in 1..(k - 1) : M[i] = b
  <2> SUFFICES ASSUME NEW b \in F \ {a}
               PROVE  \E i \in 1..(k - 1) : M[i] = b
    OBVIOUS
  <2>1. PICK i \in 1..k : L[i] = b
    BY DEF Chain
  <2>2. i # j
    BY <1>1, <2>1
  <2>3. CASE i < j
    <3>1. i \in 1..(k - 1) /\ M[i] = b
      BY <1>2, <2>1, <2>3
    <3> QED BY <3>1
  <2>4. CASE i > j
    <3>1. i - 1 \in 1..(k - 1) /\ ~(i - 1 < j) /\ (i - 1) + 1 = i
      BY <1>2, <2>4
    <3>2. M[i - 1] = b
      BY <2>1, <3>1
    <3> QED BY <3>1, <3>2
  <2> QED BY <1>2, <2>2, <2>3, <2>4
<1>12. \A i, m \in 1..(k - 1) : M[i] = M[m] => i = m
  <2> SUFFICES ASSUME NEW i \in 1..(k - 1), NEW m \in 1..(k - 1), M[i] = M[m]
               PROVE  i = m
    OBVIOUS
  <2> DEFINE x == IF i < j THEN i ELSE i + 1
             y == IF m < j THEN m ELSE m + 1
  <2>1. x \in 1..k /\ y \in 1..k /\ L[x] = L[y]
    BY <1>10
  <2>2. x = y
    BY <2>1 DEF Chain
  <2> QED BY <2>2, <1>2
<1>13. u.first_free = IF k - 1 = 0 THEN NULL ELSE M[1]
  <2>1. CASE j = 1
    <3>1. p = NULL /\ u.first_free = n
      BY <1>3, <1>7, <2>1
    <3>2. k - 1 # 0 => 1 \in 1..(k - 1) /\ M[1] = L[2]
      BY <1>2, <2>1
    <3> QED BY <1>3, <3>1, <3>2, <1>2, <2>1
  <2>2. CASE j # 1
    <3>1. p # NULL /\ u.first_free = ff
      BY <1>2, <1>3, <1>5, <1>7, <2>2
    <3>2. k - 1 # 0 /\ 1 \in 1..(k - 1) /\ M[1] = L[1]
      BY <1>2, <2>2
    <3> QED BY <3>1, <3>2, <1>2 DEF Chain
  <2> QED BY <2>1, <2>2
<1>14. ASSUME NEW i \in 1..(k - 1)
       PROVE  /\ u.at[M[i]].next_free = IF i = k - 1 THEN NULL ELSE M[i + 1]
              /\ u.at[M[i]].prev_free = IF i = 1 THEN NULL ELSE M[i - 1]
  <2>0. i \in 1..k /\ i + 1 \in 1..k /\ M[i] \in D /\ (i # k - 1 => i + 1 \in 1..(k - 1) /\ i + 2 \in 1..k)
        /\ (i # 1 => i - 1 \in 1..(k - 1))
    BY <1>2, <1>10
  <2>1. CASE i < j
    <3>1. M[i] = L[i] /\ L[i] \in D
      BY <2>1, <2>0
    <3>2. L[i] = p <=> i = j - 1
      BY <1>2, <1>3, <1>5, <2>0, <2>1 DEF Chain
    <3>3. L[i] # n
      BY <1>2, <1>3, <1>4, <2>0, <2>1 DEF Chain
    <3>4. u.at[L[i]].prev_free = IF i = 1 THEN NULL ELSE L[i - 1]
      BY <1>7, <2>0, <3>1, <3>3 DEF Chain
    <3>5. u.at[L[i]].next_free = IF i = j - 1 THEN n ELSE L[i + 1]
      <4>1. i # k /\ at[L[i]].next_free = L[i + 1]
        BY <1>2, <2>0, <2>1 DEF Chain
      <4> QED BY <1>7, <3>1, <3>2, <4>1
    <3>6. i # 1 => M[i - 1] = L[i - 1]
      BY <2>0, <2>1, <1>2
    <3>7. i # k - 1 => M[i + 1] = IF i = j - 1 THEN L[i + 2] ELSE L[i + 1]
      BY <2>0, <2>1, <1>2
    <3>8. i = j - 1 => n = IF i = k - 1 THEN NULL ELSE L[i + 2]
      BY <1>3, <1>2
    <3> HIDE DEF M
    <3> QED BY <3>1, <3>4, <3>5, <3>6, <3>7, <3>8, <1>2, <2>0, <2>1
  <2>2. CASE ~(i < j)
    <3>1. M[i] = L[i + 1] /\ L[i + 1] \in D
      BY <2>2, <2>0
    <3>2. L[i + 1] = n <=> i = j
      BY <1>2, <1>3, <1>4, <2>0, <2>2 DEF Chain
    <3>3. L[i + 1] # p
      BY <1>2, <1>3, <1>5, <2>0, <2>2 DEF Chain
    <3>4. u.at[L[i + 1]].next_free = IF i + 1 = k THEN NULL ELSE L[(i + 1) + 1]
      BY <1>7, <2>0, <3>1, <3>3 DEF Chain
    <3>5. u.at[L[i + 1]].prev_free = IF i = j THEN p ELSE L[(i + 1) - 1]
      BY <1>7, <2>0, <3>1, <3>2, <1>2, <2>2 DEF Chain
    <3>6. i # 1 => M[i - 1] = IF i = j THEN L[i - 1] ELSE L[i]
      BY <2>0, <2>2, <1>2
    <3>7. i # k - 1 => M[i + 1] = L[i + 2]
      BY <2>0, <2>2, <1>2
    <3>8. i = j => p = IF i = 1 THEN NULL ELSE L[i - 1]
      BY <1>3, <1>2
    <3> HIDE DEF M
    <3> QED BY <3>1, <3>4, <3>5, <3>6, <3>7, <3>8, <1>2, <2>0, <2>2
  <2> QED BY <2>1, <2>2
<1>15. Chain(u.at, u.first_free, F \ {a}, k - 1, M)
  <2>1. k - 1 \in Nat
    BY <1>1, <1>2
  <2>2. M \in [1..(k - 1) -> F \ {a}]
    BY <1>10
  <2> HIDE DEF M
  <2> QED BY <2>1, <2>2, <1>11, <1>12, <1>13, <1>14 DEF Chain
<1>16. \E l, N : Chain(u.at, u.first_free, F \ {a}, l, N)
  BY <1>15
<1>17. u = [first_free |-> u.first_free, at |-> u.at]
  BY <1>7
<1> QED BY <1>0, <1>7, <1>9, <1>16, <1>17 DEF Relinked

\* A block may take the place of another.
LEMMA ReplaceChain ==
    ASSUME NEW D \in SUBSET Nat, NULL \notin D, NEW at \in [D -> Hdr], NEW ff,
           NEW F \in SUBSET D, NEW k, NEW L, Chain(at, ff, F, k, L), NEW b \in F, NEW a \in D \ F
    PROVE  Relinked(Replace([first_free |-> ff, at |-> at], b, a), D, at, F \cup {a},
                    (F \ {b}) \cup {a})
<1> DEFINE h == [first_free |-> ff, at |-> at]
           p == at[b].prev_free
           n == at[b].next_free
           g1 == Set(h, a, "prev_free", p)
           g2 == Set(g1, a, "next_free", n)
           u == Join(g2, p, n, a, a)
           a1 == g1.at
           a2 == g2.at
<1>0. Replace(h, b, a) = u
  BY DEF Replace
<1>1. PICK j \in 1..k : L[j] = b
  BY DEF Chain
<1>2. k \in Nat /\ L \in [1..k -> F] /\ (\A i \in 1..k : L[i] \in D)
  BY DEF Chain
<1>3. n = (IF j = k THEN NULL ELSE L[j + 1]) /\ p = IF j = 1 THEN NULL ELSE L[j - 1]
  BY <1>1 DEF Chain
<1>4. (j # k => j + 1 \in 1..k) /\ (j # 1 => j - 1 \in 1..k)
  BY <1>2
<1>5. p \in F \cup {NULL} /\ n \in F \cup {NULL}
  BY <1>2, <1>3, <1>4
<1> HIDE DEF p, n
<1>6. p \in D \cup {NULL} /\ n \in D \cup {NULL} /\ p \in Nat /\ n \in Nat /\ a \in Nat
      /\ a \in D \cup {NULL} /\ p # a /\ n # a
  BY <1>5 DEF NULL
<1>7. /\ g1 = [first_free |-> ff, at |-> a1] /\ a1 \in [D -> Hdr] /\ SameBlocks(at, a1, D)
      /\ \A c \in D : /\ a1[c].prev_free = IF c = a THEN p ELSE at[c].prev_free
                      /\ a1[c].next_free = at[c].next_free
  BY <1>6, SetPrevFree, SMTT(30)
<1> HIDE DEF g1, a1
<1>8. /\ g2 = [first_free |-> ff, at |-> a2] /\ a2 \in [D -> Hdr] /\ SameBlocks(a1, a2, D)
      /\ \A c \in D : /\ a2[c].next_free = IF c = a THEN n ELSE a1[c].next_free
                      /\ a2[c].prev_free = a1[c].prev_free
  BY <1>6, <1>7, SetNextFree, SMTT(30)
<1> HIDE DEF g2, a2
<1>9. /\ u = [first_free |-> IF p = NULL THEN a ELSE ff, at |-> u.at]
      /\ u.at \in [D -> Hdr] /\ SameBlocks(a2, u.at, D)
      /\ \A c \in D : /\ u.at[c].next_free = IF c = p THEN a ELSE a2[c].next_free
                      /\ u.at[c].prev_free = IF c = n THEN a ELSE a2[c].prev_free
  <2>1. u = Join([first_free |-> ff, at |-> a2], p, n, a, a)
    BY <1>8
  <2> HIDE DEF u
  <2>2. Joined(u, D, a2, ff, p, n, a, a)
    BY <1>6, <1>8, <2>1, JoinFacts
  <2> QED BY <2>2 DEF Joined
<1> HIDE DEF u
<1>10. SameBlocks(at, u.at, D)
  BY <1>7, <1>8, <1>9 DEF SameBlocks
<1>11. ASSUME NEW c \in D
       PROVE  /\ u.at[c].next_free = IF c = p THEN a ELSE IF c = a THEN n ELSE at[c].next_free
              /\ u.at[c].prev_free = IF c = n THEN a ELSE IF c = a THEN p ELSE at[c].prev_free
  BY <1>7, <1>8, <1>9
<1>12. SameLinks(at, u.at, D \ (F \cup {a}))
  BY <1>5, <1>11 DEF SameLinks
<1> DEFINE M == [L EXCEPT ![j] = a]
           G == (F \ {b}) \cup {a}
<1>13. \A i \in 1..k : M[i] = IF i = j THEN a ELSE L[i]
  BY <1>2
<1>14. \A i \in 1..k : i # j => L[i] # b /\ L[i] \in F /\ L[i] # a
  BY <1>1, <1>2 DEF Chain
<1>15. M \in [1..k -> G]
  BY <1>2, <1>14
<1> HIDE DEF M
<1>16. \A c \in G : \E i \in 1..k : M[i] = c
  <2> TAKE c \in G
  <2>1. CASE c = a
    BY <2>1, <1>13
  <2>2. CASE c # a
    <3>1. PICK i \in 1..k : L[i] = c
      BY <2>2 DEF Chain
    <3> QED BY <3>1, <1>1, <1>13, <2>2
  <2> QED BY <2>1, <2>2
<1>17. \A i, m \in 1..k : M[i] = M[m] => i = m
  BY <1>13, <1>14 DEF Chain
<1>18. u.first_free = IF k = 0 THEN NULL ELSE M[1]
  <2>1. k # 0 /\ 1 \in 1..k /\ ff = L[1]
    BY <1>2 DEF Chain
  <2>2. p = NULL <=> j = 1
    BY <1>2, <1>3, <1>4
  <2>3. u.first_free = IF p = NULL THEN a ELSE ff
    BY <1>9
  <2> QED BY <2>1, <2>2, <2>3, <1>13
<1>19. ASSUME NEW i \in 1..k
       PROVE  /\ u.at[M[i]].next_free = IF i = k THEN NULL ELSE M[i + 1]
              /\ u.at[M[i]].prev_free = IF i = 1 THEN NULL ELSE M[i - 1]
  <2>1. (i # k => i + 1 \in 1..k) /\ (i # 1 => i - 1 \in 1..k)
    BY <1>2
  <2>2. CASE i = j
    <3>1. M[i] = a /\ a \in D /\ a # p /\ a # n
      BY <1>13, <2>2, <1>6
    <3>2. u.at[a].next_free = n /\ u.at[a].prev_free = p
      BY <1>11, <3>1
    <3>3. (i # k => M[i + 1] = L[i + 1]) /\ (i # 1 => M[i - 1] = L[i - 1])
      BY <2>1, <2>2, <1>13
    <3> QED BY <3>1, <3>2, <3>3, <1>3, <2>2
  <2>3. CASE i # j
    <3>1. M[i] = L[i] /\ L[i] \in D /\ L[i] # a
      BY <1>2, <1>13, <1>14, <2>3
    <3>2. L[i] = p <=> i + 1 = j
      BY <1>2, <1>3, <1>4, <2>3 DEF Chain
    <3>3. L[i] = n <=> i - 1 = j
      BY <1>2, <1>3, <1>4, <2>3 DEF Chain
    <3>4. at[L[i]].next_free = (IF i = k THEN NULL ELSE L[i + 1])
          /\ at[L[i]].prev_free = IF i = 1 THEN NULL ELSE L[i - 1]
      BY DEF Chain
    <3>5. (i # k => M[i + 1] = IF i + 1 = j THEN a ELSE L[i + 1])
          /\ (i # 1 => M[i - 1] = IF i - 1 = j THEN a ELSE L[i - 1])
      BY <2>1, <1>13
    <3>6. (i + 1 = j => i # k) /\ (i - 1 = j => i # 1)
      BY <1>2
    <3>7. /\ u.at[L[i]].next_free = IF i + 1 = j THEN a ELSE at[L[i]].next_free
          /\ u.at[L[i]].prev_free = IF i - 1 = j THEN a ELSE at[L[i]].prev_free
      BY <1>11, <3>1, <3>2, <3>3
    <3> QED BY <3>1, <3>4, <3>5, <3>6, <3>7
  <2> QED BY <2>2, <2>3
<1>20. Chain(u.at, u.first_free, G, k, M)
  BY <1>2, <1>15, <1>16, <1>17, <1>18, <1>19 DEF Chain
<1>21. u = [first_free |-> u.first_free, at |-> u.at]
  BY <1>9
<1> QED BY <1>0, <1>9, <1>10, <1>12, <1>20, <1>21 DEF Relinked

\* The links of bt are those of at, with a put in front of ff.
PushedLinks(at, bt, D, ff, a) ==
    \A c \in D : /\ bt[c].next_free = IF c = a THEN ff ELSE at[c].next_free
                 /\ bt[c].prev_free = IF c = ff THEN a ELSE at[c].prev_free

\* A block may be put in front of the list.
LEMMA PushChain ==
    ASSUME NEW D \in SUBSET Nat, NULL \notin D, NEW at \in [D -> Hdr], NEW ff,
           NEW F \in SUBSET D, NEW k, NEW L, Chain(at, ff, F, k, L), ff # NULL,
           NEW a \in D \ F, at[a].prev_free = NULL, NEW bt \in [D -> Hdr], PushedLinks(at, bt, D, ff, a)
    PROVE  \E M : Chain(bt, a, F \cup {a}, k + 1, M)
<1>0. \A c \in D : /\ bt[c].next_free = IF c = a THEN ff ELSE at[c].next_free
                   /\ bt[c].prev_free = IF c = ff THEN a ELSE at[c].prev_free
  BY DEF PushedLinks
<1>1. k \in Nat /\ L \in [1..k -> F] /\ k # 0 /\ ff = L[1]
  BY DEF Chain
<1>2. k \in Nat /\ L \in [1..k -> F] /\ (\A i \in 1..k : L[i] \in D /\ L[i] # a) /\ k # 0 /\ ff = L[1]
  <2>1. \A i \in 1..k : L[i] \in F
    BY <1>1
  <2>2. \A i \in 1..k : L[i] \in D /\ L[i] # a
    BY <2>1, Zenon
  <2> QED BY <1>1, <2>2
<1> DEFINE M == [i \in 1..(k + 1) |-> IF i = 1 THEN a ELSE L[i - 1]]
<1>3. \A i \in 1..(k + 1) : i # 1 => i - 1 \in 1..k
  BY <1>2
<1>4. M \in [1..(k + 1) -> F \cup {a}] /\ k + 1 \in Nat
  BY <1>2, <1>3
<1>5. \A c \in F \cup {a} : \E i \in 1..(k + 1) : M[i] = c
  <2> SUFFICES ASSUME NEW c \in F \cup {a}
               PROVE  \E i \in 1..(k + 1) : M[i] = c
    OBVIOUS
  <2>1. CASE c = a
    <3>1. 1 \in 1..(k + 1) /\ M[1] = a
      BY <1>2
    <3> QED BY <3>1, <2>1
  <2>2. CASE c # a
    <3>1. PICK i \in 1..k : L[i] = c
      BY <2>2 DEF Chain
    <3>2. i + 1 \in 1..(k + 1) /\ M[i + 1] = L[i]
      BY <1>2
    <3> QED BY <3>1, <3>2
  <2> QED BY <2>1, <2>2
<1>6. \A i, m \in 1..(k + 1) : M[i] = M[m] => i = m
  <2> SUFFICES ASSUME NEW i \in 1..(k + 1), NEW m \in 1..(k + 1), M[i] = M[m]
               PROVE  i = m
    OBVIOUS
  <2>1. CASE i = 1 \/ m = 1
    BY <1>2, <1>3, <2>1
  <2>2. CASE i # 1 /\ m # 1
    <3>1. i - 1 \in 1..k /\ m - 1 \in 1..k /\ L[i - 1] = L[m - 1]
      BY <1>3, <2>2
    <3>2. i - 1 = m - 1
      BY <3>1 DEF Chain
    <3> QED BY <3>2
  <2> QED BY <2>1, <2>2
<1>7. ASSUME NEW i \in 1..(k + 1)
      PROVE  /\ bt[M[i]].next_free = IF i = k + 1 THEN NULL ELSE M[i + 1]
             /\ bt[M[i]].prev_free = IF i = 1 THEN NULL ELSE M[i - 1]
  <2>1. CASE i = 1
    <3>1. M[1] = a /\ M[1 + 1] = L[1] /\ 1 # k + 1
      BY <1>2
    <3>2. a # ff
      BY <1>2
    <3>3. bt[a].next_free = ff /\ bt[a].prev_free = NULL
      BY <1>0, <3>2
    <3> QED BY <3>1, <3>3, <2>1, <1>2
  <2>2. CASE i # 1
    <3> DEFINE x == i - 1
    <3>1. x \in 1..k /\ i = x + 1 /\ M[i] = L[x] /\ L[x] \in D /\ L[x] # a
      BY <1>2, <1>3, <2>2
    <3>2. L[x] = ff <=> x = 1
      BY <1>2, <3>1 DEF Chain
    <3>3. /\ at[L[x]].next_free = IF x = k THEN NULL ELSE L[x + 1]
          /\ at[L[x]].prev_free = IF x = 1 THEN NULL ELSE L[x - 1]
      BY <3>1 DEF Chain
    <3>4. /\ bt[L[x]].next_free = at[L[x]].next_free
          /\ bt[L[x]].prev_free = IF x = 1 THEN a ELSE at[L[x]].prev_free
      BY <1>0, <3>1, <3>2
    <3>5. (i # k + 1 => M[i + 1] = L[x + 1]) /\ M[i - 1] = IF x = 1 THEN a ELSE L[x - 1]
      BY <1>2, <3>1
    <3>6. i = k + 1 <=> x = k
      BY <1>2, <3>1
    <3> HIDE DEF x, M
    <3> QED BY <3>1, <3>3, <3>4, <3>5, <3>6, <2>2
  <2> QED BY <2>1, <2>2
<1>8. a = IF k + 1 = 0 THEN NULL ELSE M[1]
  BY <1>2
<1> HIDE DEF M
<1>9. Chain(bt, a, F \cup {a}, k + 1, M)
  BY <1>4, <1>5, <1>6, <1>7, <1>8 DEF Chain
<1> QED BY <1>9

-----------------------------------------------------------------------------
(* The blocks lie end to end.                                               *)
End(at, a) == a + HDR + at[a].size

\* The blocks D lie end to end from buf to top; they are aligned, and each knows its
\* neighbours.
Layout(at, D, buf, top) ==
    /\ at \in [D -> Hdr] /\ D \subseteq buf..top /\ buf \in D
    /\ buf \in Nat \ {0} /\ top \in Nat
    /\ \A a \in D : a % ALIGN = 0 /\ End(at, a) <= top
    /\ \A a \in D : End(at, a) = top => at[a].size > 0
    /\ \A a, b \in D : a < b => End(at, a) <= b
    /\ \A a \in D : at[a].next = IF End(at, a) = top THEN NULL ELSE End(at, a)
    /\ \A a \in D : at[a].next # NULL => at[a].next \in D /\ at[at[a].next].prev = a
    /\ \A a \in D : at[a].prev = NULL <=> a = buf
    /\ \A a \in D : at[a].prev # NULL => at[a].prev \in D /\ at[at[a].prev].next = a

\* The fields of a header are numbers.
LEMMA HeaderTypes ==
    ASSUME NEW D, NEW at \in [D -> Hdr], NEW a \in D
    PROVE  /\ at[a] \in Hdr /\ at[a].size \in Nat /\ at[a].alloc \in Nat
           /\ at[a].prev \in Nat /\ at[a].next \in Nat
           /\ at[a].prev_free \in Nat /\ at[a].next_free \in Nat
  BY DEF Hdr

\* What is known of a block and of the one behind it.
LEMMA LayoutFacts ==
    ASSUME NEW at, NEW D, NEW buf, NEW top, Layout(at, D, buf, top), NEW a \in D
    PROVE  /\ a \in Nat /\ a # NULL /\ at[a].size \in Nat /\ End(at, a) \in Nat /\ End(at, a) > a
           /\ HDR \in Nat \ {0} /\ ALIGN \in Nat \ {0} /\ NULL \notin D /\ D \in SUBSET Nat
           /\ at[a].next \in D \cup {NULL} /\ at[a].prev \in D \cup {NULL}
           /\ at[a].next # NULL => at[a].next = End(at, a) /\ at[a].next > a
           /\ at[a].prev # NULL => End(at, at[a].prev) = a /\ at[a].prev < a
<1>1. D \in SUBSET Nat /\ NULL \notin D /\ HDR \in Nat \ {0} /\ ALIGN \in Nat \ {0}
  BY PoolAssumption DEF Layout, NULL
<1>2. \A b \in D : b \in Nat /\ at[b].size \in Nat /\ End(at, b) \in Nat /\ End(at, b) > b
  <2>1. at \in [D -> Hdr]
    BY DEF Layout
  <2>2. \A b \in D : at[b].size \in Nat
    BY <2>1, HeaderTypes
  <2> QED BY <1>1, <2>2 DEF End
<1>3. \A b \in D : at[b].next # NULL => at[b].next = End(at, b)
  BY DEF Layout
<1>4. at[a].prev # NULL => at[a].prev \in D /\ at[at[a].prev].next = a
  BY DEF Layout
<1>5. at[a].next # NULL => at[a].next \in D
  BY DEF Layout
<1> QED BY <1>1, <1>2, <1>3, <1>4, <1>5

\* The headers bt are those at, with the block n joined to a in front of it.
Extended(at, bt, D, a, n) ==
    \A b \in D \ {n} :
        /\ bt[b].size = IF b = a THEN at[a].size + HDR + at[n].size ELSE at[b].size
        /\ bt[b].next = IF b = a THEN at[n].next ELSE at[b].next
        /\ bt[b].prev = IF b = at[n].next THEN a ELSE at[b].prev

\* A block and the one behind it become one.
LEMMA MergeLayout ==
    ASSUME NEW at, NEW D, NEW buf, NEW top, Layout(at, D, buf, top),
           NEW a \in D, NEW n \in D, at[a].next = n, NEW bt \in [D \ {n} -> Hdr],
           Extended(at, bt, D, a, n)
    PROVE  Layout(bt, D \ {n}, buf, top)
<1> USE DEF Extended
<1> DEFINE E == D \ {n}
<1>1. /\ HDR \in Nat \ {0} /\ ALIGN \in Nat \ {0} /\ NULL \notin D /\ D \in SUBSET Nat
      /\ n # NULL /\ n = End(at, a) /\ a \in Nat /\ n \in Nat /\ n > a
      /\ at[a].size \in Nat /\ at[n].size \in Nat /\ n = a + HDR + at[a].size
  BY LayoutFacts DEF End
<1>2. a \in E /\ E \in SUBSET D
  BY <1>1
<1>3. End(bt, a) = End(at, n)
  BY <1>1, <1>2 DEF End
<1>4. \A b \in E : b # a => End(bt, b) = End(at, b)
  BY DEF End
<1>5. n # buf
  <2>1. a >= buf /\ buf \in Nat
    BY <1>1 DEF Layout
  <2> QED BY <1>1, <2>1
<1>6. at[n].prev = a
  BY <1>1 DEF Layout
<1>7. \A b \in E : b # a => at[b].next # n
  <2> SUFFICES ASSUME NEW b \in E, b # a, at[b].next = n
               PROVE  FALSE
    OBVIOUS
  <2>1. at[n].prev = b
    BY <1>1 DEF Layout
  <2> QED BY <2>1, <1>6
<1>8. at[n].next \in E \cup {NULL} /\ at[n].next # n /\ at[n].next # a
  <2>1. at[n].next # NULL => at[n].next > n
    BY LayoutFacts
  <2>2. at[n].next \in D \cup {NULL}
    BY LayoutFacts
  <2> QED BY <1>1, <2>1, <2>2
<1>9. \A b \in E : b % ALIGN = 0 /\ End(bt, b) <= top
  BY <1>3, <1>4 DEF Layout
<1>10. \A b \in E : End(bt, b) = top => bt[b].size > 0
  <2> SUFFICES ASSUME NEW b \in E, End(bt, b) = top
               PROVE  bt[b].size > 0
    OBVIOUS
  <2>1. CASE b = a
    BY <2>1, <1>1
  <2>2. CASE b # a
    BY <2>2, <1>4 DEF Layout
  <2> QED BY <2>1, <2>2
<1>11. \A b, c \in E : b < c => End(bt, b) <= c
  <2> SUFFICES ASSUME NEW b \in E, NEW c \in E, b < c
               PROVE  End(bt, b) <= c
    OBVIOUS
  <2>1. CASE b # a
    BY <2>1, <1>4 DEF Layout
  <2>2. CASE b = a
    <3>1. n <= c
      BY <2>2, <1>1 DEF Layout
    <3>2. n < c
      BY <3>1, <1>1
    <3> QED BY <3>2, <2>2, <1>3 DEF Layout
  <2> QED BY <2>1, <2>2
<1>12. \A b \in E : bt[b].next = IF End(bt, b) = top THEN NULL ELSE End(bt, b)
  <2> SUFFICES ASSUME NEW b \in E
               PROVE  bt[b].next = IF End(bt, b) = top THEN NULL ELSE End(bt, b)
    OBVIOUS
  <2>1. CASE b = a
    BY <2>1, <1>3 DEF Layout
  <2>2. CASE b # a
    BY <2>2, <1>4 DEF Layout
  <2> QED BY <2>1, <2>2
<1>13. \A b \in E : bt[b].next # NULL => bt[b].next \in E /\ bt[bt[b].next].prev = b
  <2> SUFFICES ASSUME NEW b \in E, bt[b].next # NULL
               PROVE  bt[b].next \in E /\ bt[bt[b].next].prev = b
    OBVIOUS
  <2>1. CASE b = a
    <3>1. bt[b].next = at[n].next
      BY <2>1
    <3> QED BY <1>8, <2>1, <3>1
  <2>2. CASE b # a
    <3>1. bt[b].next = at[b].next /\ at[b].next # n
      BY <2>2, <1>7
    <3>2. at[b].next \in D /\ at[at[b].next].prev = b
      BY <3>1 DEF Layout
    <3>3. at[b].next # at[n].next
      <4> SUFFICES ASSUME at[b].next = at[n].next
                   PROVE  FALSE
        OBVIOUS
      <4>1. at[at[n].next].prev = n
        BY <3>1 DEF Layout
      <4> QED BY <3>2, <4>1
    <3> QED BY <3>1, <3>2, <3>3
  <2> QED BY <2>1, <2>2
<1>14. \A b \in E : bt[b].prev = NULL <=> b = buf
  <2> SUFFICES ASSUME NEW b \in E
               PROVE  bt[b].prev = NULL <=> b = buf
    OBVIOUS
  <2>1. CASE b = at[n].next
    <3>1. b # NULL /\ at[b].prev = n
      BY <2>1, <1>1, <1>2 DEF Layout
    <3>2. b # buf
      BY <3>1, <1>1 DEF Layout
    <3> QED BY <2>1, <3>2, <1>1
  <2>2. CASE b # at[n].next
    BY <2>2 DEF Layout
  <2> QED BY <2>1, <2>2
<1>15. \A b \in E : bt[b].prev # NULL => bt[b].prev \in E /\ bt[bt[b].prev].next = b
  <2> SUFFICES ASSUME NEW b \in E, bt[b].prev # NULL
               PROVE  bt[b].prev \in E /\ bt[bt[b].prev].next = b
    OBVIOUS
  <2>1. CASE b = at[n].next
    BY <2>1, <1>2
  <2>2. CASE b # at[n].next
    <3>1. bt[b].prev = at[b].prev
      BY <2>2
    <3>2. at[b].prev \in D /\ at[at[b].prev].next = b
      BY <3>1 DEF Layout
    <3>3. at[b].prev # n /\ at[b].prev # a
      BY <2>2, <3>2
    <3> QED BY <3>1, <3>2, <3>3
  <2> QED BY <2>1, <2>2
<1>16. /\ bt \in [E -> Hdr] /\ E \subseteq buf..top /\ buf \in E
       /\ buf \in Nat \ {0} /\ top \in Nat
  BY <1>5 DEF Layout
<1> QED BY <1>9, <1>10, <1>11, <1>12, <1>13, <1>14, <1>15, <1>16 DEF Layout

\* A block that is long enough has room for a header behind n of its units.
LEMMA NewBlock ==
    ASSUME NEW at, NEW D, NEW buf, NEW top, Layout(at, D, buf, top),
           NEW a \in D, NEW n \in Nat, at[a].size - n >= HDR + ALIGN
    PROVE  LET new == a + HDR + n
           IN  /\ new \in Nat /\ a < new /\ new < End(at, a) /\ new # NULL /\ new \notin D
               /\ \A b \in D : a < b => new < b
<1> DEFINE new == a + HDR + n
<1>1. /\ HDR \in Nat \ {0} /\ ALIGN \in Nat \ {0} /\ D \in SUBSET Nat
      /\ a \in Nat /\ at[a].size \in Nat /\ End(at, a) = a + HDR + at[a].size
  BY LayoutFacts DEF End
<1>2. new \in Nat /\ a < new /\ new < End(at, a) /\ new # NULL
  BY <1>1 DEF NULL
<1>3. ASSUME NEW b \in D, a < b
      PROVE  new < b
  <2>1. End(at, a) <= b /\ b \in Nat
    BY <1>1, <1>3 DEF Layout
  <2> QED BY <1>1, <1>2, <2>1
<1> QED BY <1>2, <1>3

\* A block is cut in two; the second part starts behind n units of the first.
LEMMA SplitLayout ==
    ASSUME NEW at, NEW D, NEW buf, NEW top, Layout(at, D, buf, top),
           NEW a \in D, NEW n \in Nat, n % ALIGN = 0, at[a].size - n >= HDR + ALIGN,
           NEW new, new = a + HDR + n, NEW bt \in [D \cup {new} -> Hdr],
           \A b \in D \cup {new} :
               /\ bt[b].size = IF b = a THEN n
                              ELSE IF b = new THEN at[a].size - n - HDR ELSE at[b].size
               /\ bt[b].next = IF b = a THEN new ELSE IF b = new THEN at[a].next ELSE at[b].next
               /\ bt[b].prev = IF b = new THEN a
                              ELSE IF b = at[a].next THEN new ELSE at[b].prev
    PROVE  new \notin D /\ Layout(bt, D \cup {new}, buf, top)
<1> DEFINE E == D \cup {new}
           x == at[a].next
<1>1. /\ HDR \in Nat \ {0} /\ ALIGN \in Nat \ {0} /\ NULL \notin D /\ D \in SUBSET Nat
      /\ a \in Nat /\ a # NULL /\ at[a].size \in Nat /\ End(at, a) = a + HDR + at[a].size
      /\ x \in D \cup {NULL} /\ (x # NULL => x = End(at, a))
  BY LayoutFacts DEF End
<1>2. new \in Nat /\ a < new /\ new < End(at, a) /\ new # NULL
  BY NewBlock
<1>3. ASSUME NEW b \in D, a < b
      PROVE  b > new
  BY <1>3, NewBlock
<1>4. new \notin D
  BY NewBlock
<1>5. End(bt, a) = new /\ End(bt, new) = End(at, a)
  BY <1>1, <1>2, <1>4 DEF End
<1>6. \A b \in D : b # a => End(bt, b) = End(at, b)
  BY <1>4 DEF End
<1>7. new % ALIGN = 0
  <2>1. a % ALIGN = 0 /\ HDR % ALIGN = 0
    BY PoolAssumption DEF Layout
  <2>2. (a + HDR) % ALIGN = 0 /\ a + HDR \in Nat
    <3>1. ALIGN \in Nat \ {0} /\ a \in Nat /\ HDR \in Nat /\ a + HDR \in Nat
      BY <1>1
    <3>2. (a + HDR) % ALIGN = 0
      BY <2>1, <3>1, SumOfMultiples, Zenon
    <3> QED BY <3>1, <3>2
  <2>3. ((a + HDR) + n) % ALIGN = 0
    BY <1>1, <2>2, SumOfMultiples, Zenon
  <2> QED BY <2>3
<1>8. End(at, a) <= top /\ top \in Nat /\ a >= buf /\ buf \in Nat \ {0}
  BY <1>1 DEF Layout
<1>9. \A b \in E : b % ALIGN = 0 /\ End(bt, b) <= top
  <2> SUFFICES ASSUME NEW b \in E
               PROVE  b % ALIGN = 0 /\ End(bt, b) <= top
    OBVIOUS
  <2>1. CASE b = new
    BY <2>1, <1>5, <1>7, <1>8
  <2>2. CASE b = a
    BY <2>2, <1>1, <1>2, <1>5, <1>8 DEF Layout
  <2>3. CASE b # new /\ b # a
    BY <2>3, <1>6 DEF Layout
  <2> QED BY <2>1, <2>2, <2>3
<1>10. \A b \in E : End(bt, b) = top => bt[b].size > 0
  <2> SUFFICES ASSUME NEW b \in E, End(bt, b) = top
               PROVE  bt[b].size > 0
    OBVIOUS
  <2>1. CASE b = new
    BY <2>1, <1>1, <1>2
  <2>2. CASE b = a
    BY <2>2, <1>1, <1>2, <1>5, <1>8
  <2>3. CASE b # new /\ b # a
    BY <2>3, <1>6 DEF Layout
  <2> QED BY <2>1, <2>2, <2>3
<1>11. \A b, c \in E : b < c => End(bt, b) <= c
  <2> SUFFICES ASSUME NEW b \in E, NEW c \in E, b < c
               PROVE  End(bt, b) <= c
    OBVIOUS
  <2>1. CASE b = new
    <3>1. c \in D /\ a < c
      BY <2>1, <1>1, <1>2
    <3>2. End(at, a) <= c
      BY <3>1 DEF Layout
    <3> QED BY <2>1, <3>2, <1>5
  <2>2. CASE b = a
    <3>1. c # new => c \in D /\ c > new
      BY <2>2, <1>3
    <3> QED BY <2>2, <3>1, <1>1, <1>2, <1>5
  <2>3. CASE b # new /\ b # a /\ c = new
    <3>1. b \in D /\ b < a
      <4>1. b \in D /\ b \in Nat /\ b < new
        BY <2>3, <1>1
      <4>2. ~(a < b)
        BY <4>1, <1>2, <1>3
      <4> QED BY <4>1, <4>2, <2>3, <1>1
    <3>2. End(at, b) <= a
      BY <3>1 DEF Layout
    <3>4. End(at, b) \in Nat
      BY <3>1, LayoutFacts
    <3> QED BY <2>3, <3>1, <3>2, <3>4, <1>1, <1>2, <1>6
  <2>4. CASE b # new /\ b # a /\ c # new
    BY <2>4, <1>6 DEF Layout
  <2> QED BY <2>1, <2>2, <2>3, <2>4
<1>12. \A b \in E : bt[b].next = IF End(bt, b) = top THEN NULL ELSE End(bt, b)
  <2> SUFFICES ASSUME NEW b \in E
               PROVE  bt[b].next = IF End(bt, b) = top THEN NULL ELSE End(bt, b)
    OBVIOUS
  <2>1. CASE b = new
    BY <2>1, <1>2, <1>5 DEF Layout
  <2>2. CASE b = a
    BY <2>2, <1>1, <1>2, <1>5, <1>8
  <2>3. CASE b # new /\ b # a
    BY <2>3, <1>6 DEF Layout
  <2> QED BY <2>1, <2>2, <2>3
<1>13. \A b \in E : bt[b].next # NULL => bt[b].next \in E /\ bt[bt[b].next].prev = b
  <2> SUFFICES ASSUME NEW b \in E, bt[b].next # NULL
               PROVE  bt[b].next \in E /\ bt[bt[b].next].prev = b
    OBVIOUS
  <2>1. CASE b = new
    <3>1. bt[b].next = x /\ x # new
      BY <2>1, <1>1, <1>2
    <3> QED BY <2>1, <3>1, <1>1
  <2>2. CASE b = a
    BY <2>2
  <2>3. CASE b # new /\ b # a
    <3>1. bt[b].next = at[b].next
      BY <2>3
    <3>2. at[b].next \in D /\ at[at[b].next].prev = b
      BY <2>3, <3>1 DEF Layout
    <3>3. at[b].next # x
      <4> SUFFICES ASSUME at[b].next = x
                   PROVE  FALSE
        OBVIOUS
      <4>1. at[x].prev = a
        BY <3>1 DEF Layout
      <4> QED BY <2>3, <3>2, <4>1
    <3> QED BY <3>1, <3>2, <3>3, <1>4
  <2> QED BY <2>1, <2>2, <2>3
<1>14. \A b \in E : bt[b].prev = NULL <=> b = buf
  <2> SUFFICES ASSUME NEW b \in E
               PROVE  bt[b].prev = NULL <=> b = buf
    OBVIOUS
  <2>1. CASE b = new
    BY <2>1, <1>1, <1>2, <1>8
  <2>2. CASE b # new /\ b = x
    <3>1. at[b].prev = a
      BY <2>2, <1>1 DEF Layout
    <3>2. b # buf
      BY <2>2, <3>1, <1>1 DEF Layout
    <3> QED BY <2>2, <3>2, <1>2
  <2>3. CASE b # new /\ b # x
    BY <2>3 DEF Layout
  <2> QED BY <2>1, <2>2, <2>3
<1>15. \A b \in E : bt[b].prev # NULL => bt[b].prev \in E /\ bt[bt[b].prev].next = b
  <2> SUFFICES ASSUME NEW b \in E, bt[b].prev # NULL
               PROVE  bt[b].prev \in E /\ bt[bt[b].prev].next = b
    OBVIOUS
  <2>1. CASE b = new
    BY <2>1
  <2>2. CASE b # new /\ b = x
    BY <2>2, <1>1, <1>2
  <2>3. CASE b # new /\ b # x
    <3>1. bt[b].prev = at[b].prev
      BY <2>3
    <3>2. at[b].prev \in D /\ at[at[b].prev].next = b
      BY <2>3, <3>1 DEF Layout
    <3>3. at[b].prev # a /\ at[b].prev # new
      BY <2>3, <3>2, <1>4
    <3> QED BY <3>1, <3>2, <3>3
  <2> QED BY <2>1, <2>2, <2>3
<1>16. /\ bt \in [E -> Hdr] /\ E \subseteq buf..top /\ buf \in E
       /\ buf \in Nat \ {0} /\ top \in Nat
  <2>1. new \in buf..top
    BY <1>1, <1>2, <1>8
  <2> QED BY <2>1 DEF Layout
<1> QED BY <1>4, <1>9, <1>10, <1>11, <1>12, <1>13, <1>14, <1>15, <1>16 DEF Layout

-----------------------------------------------------------------------------
(* A sound heap: its headers at, the head ff of its free list, the set D of *)
(* its blocks, its first address buf and the address top behind it.         *)
FreeIn(at, D) == {a \in D : at[a].alloc = 0}

\* The blocks lie end to end, no two free ones side by side, and the free ones are in
\* the list; the links of the others are NULL.
Sound(at, ff, D, buf, top) ==
    /\ Layout(at, D, buf, top)
    /\ \A a \in D : at[a].alloc \in 0..1
    /\ \A a \in FreeIn(at, D) : at[a].next \notin FreeIn(at, D)
    /\ \A a \in D \ FreeIn(at, D) : at[a].prev_free = NULL /\ at[a].next_free = NULL
    /\ \E k, L : Chain(at, ff, FreeIn(at, D), k, L)

\* A set of numbers that is not empty has a least element.  It takes the place of
\* induction below: of the blocks at which a chain goes wrong, look at the nearest.
LEMMA Least ==
    ASSUME NEW T \in SUBSET Nat, T # {}
    PROVE  \E x \in T : \A y \in T : x <= y
<1>1. PICK x \in T : \A y \in T : ~(<<y, x>> \in OpToRel(<, Nat))
  BY NatLessThanWellFounded, WFMin
<1>2. ASSUME NEW y \in T
      PROVE  x <= y
  <2>1. ~(y < x)
    BY <1>1 DEF OpToRel
  <2> QED BY <2>1
<1> QED BY <1>2

\* The check of the chain finds nothing in a sound heap.
LEMMA Verified ==
    ASSUME NEW at, NEW ff, NEW D, Sound(at, ff, D, heap.first, heap.buf + heap.len)
    PROVE  VerifyChain(at)
<1> DEFINE buf == heap.first
           top == heap.buf + heap.len
           S == DOMAIN at \cup {NULL}
           Rest(a, f) == LET n == at[a].next
                         IN  /\ n # NULL => n \in DOMAIN at /\ at[n].prev = a
                             /\ f[n]
           Eq(f) == f = [a \in S |-> a = NULL \/ (VerifyHeader(at[a]) /\ Rest(a, f))]
           from == CHOOSE f : Eq(f)
<1>1. Layout(at, D, buf, top) /\ DOMAIN at = D
  BY DEF Sound, Layout
<1>2. PICK k, L : Chain(at, ff, FreeIn(at, D), k, L)
  BY DEF Sound
<1>3. ASSUME NEW a \in D
      PROVE  /\ VerifyHeader(at[a]) /\ at[a].next \in S
             /\ at[a].next # NULL => at[a].next \in D /\ at[at[a].next].prev = a /\ at[a].next > a
  <2>1. at[a].alloc \in 0..1
    BY DEF Sound
  <2>2. /\ at[a].next # NULL => at[a].next > a
        /\ at[a].prev # NULL => at[a].prev < a
        /\ a \in Nat /\ NULL \notin D /\ D \in SUBSET Nat
        /\ at[a].next \in D \cup {NULL} /\ at[a].prev \in D \cup {NULL}
    BY <1>1, LayoutFacts
  <2>3. ~(at[a].prev # NULL /\ at[a].prev = at[a].next)
    BY <2>2
  <2>4. ~(at[a].prev_free # NULL /\ at[a].prev_free = at[a].next_free)
    <3>1. CASE a \in FreeIn(at, D)
      <4>1. PICK i \in 1..k : L[i] = a
        BY <1>2, <3>1 DEF Chain
      <4>2. /\ at[a].next_free = IF i = k THEN NULL ELSE L[i + 1]
            /\ at[a].prev_free = IF i = 1 THEN NULL ELSE L[i - 1]
        BY <1>2, <4>1 DEF Chain
      <4>3. CASE i # 1 /\ i # k
        <5>1. i - 1 \in 1..k /\ i + 1 \in 1..k /\ i - 1 # i + 1
          BY <1>2, <4>3 DEF Chain
        <5>2. L[i - 1] # L[i + 1]
          BY <1>2, <5>1 DEF Chain
        <5> QED BY <4>2, <4>3, <5>2
      <4>4. CASE i = k
        BY <4>2, <4>4
      <4>5. CASE i = 1
        BY <4>2, <4>5
      <4> QED BY <4>3, <4>4, <4>5
    <3>2. CASE a \notin FreeIn(at, D)
      BY <3>2 DEF Sound
    <3> QED BY <3>1, <3>2
  <2>5. at[a].next # NULL => at[at[a].next].prev = a
    BY <1>1 DEF Layout
  <2> QED BY <1>1, <2>1, <2>2, <2>3, <2>4, <2>5 DEF VerifyHeader
<1>4. Eq([a \in S |-> TRUE])
  <2>1. ASSUME NEW a \in S
        PROVE  a = NULL \/ (VerifyHeader(at[a]) /\ Rest(a, [b \in S |-> TRUE]))
    <3>1. CASE a = NULL
      <4> HIDE DEF Rest
      <4> QED BY <3>1, Zenon
    <3>2. CASE a # NULL
      <4>1. a \in D
        BY <3>2, <1>1
      <4> QED BY <1>3, <4>1, <1>1
    <3> QED BY <3>1, <3>2
  <2> QED BY <2>1
<1>5. Eq(from)
  BY <1>4
<1> HIDE DEF from
<1>6. ASSUME NEW a \in S
      PROVE  from[a] = (a = NULL \/ (VerifyHeader(at[a]) /\ Rest(a, from)))
  BY <1>5
<1>7. \A a \in S : from[a] = TRUE
  <2> DEFINE Bad == {a \in D : from[a] # TRUE}
             T == {top - a : a \in Bad}
  <2>1. from[NULL] = TRUE
    <3>1. NULL \in S
      OBVIOUS
    <3>2. from[NULL] = (NULL = NULL \/ (VerifyHeader(at[NULL]) /\ Rest(NULL, from)))
      BY <1>6, <3>1
    <3> HIDE DEF Rest
    <3>3. (NULL = NULL \/ (VerifyHeader(at[NULL]) /\ Rest(NULL, from))) = TRUE
      BY Zenon
    <3> QED BY <3>2, <3>3, Zenon
  <2>2. ASSUME Bad # {}
        PROVE  FALSE
    <3>1. \A a \in D : a \in Nat /\ top - a \in Nat
      BY <1>1 DEF Layout
    <3>2. T \in SUBSET Nat /\ T # {}
      BY <2>2, <3>1
    <3>3. PICK x \in T : \A y \in T : x <= y
      BY <3>2, Least
    <3>4. PICK a \in Bad : x = top - a
      BY <3>3
    <3>5. \A b \in D : b > a => from[b] = TRUE
      <4> SUFFICES ASSUME NEW b \in D, b > a, from[b] # TRUE
                   PROVE  FALSE
        OBVIOUS
      <4>1. top - b \in T
        OBVIOUS
      <4>2. top - a <= top - b
        BY <3>3, <3>4, <4>1
      <4>3. top \in Nat
        BY <1>1 DEF Layout
      <4> QED BY <3>1, <4>2, <4>3
    <3>6. from[at[a].next] = TRUE
      BY <1>3, <2>1, <3>5
    <3>7. from[a] = TRUE
      <4>1. a \in D
        OBVIOUS
      <4>2. Rest(a, from)
        BY <1>3, <3>6, <4>1
      <4>3. VerifyHeader(at[a]) /\ a \in S
        BY <1>1, <1>3, <4>1
      <4> HIDE DEF Rest
      <4>4. (a = NULL \/ (VerifyHeader(at[a]) /\ Rest(a, from))) = TRUE
        BY <4>2, <4>3, Zenon
      <4> QED BY <1>6, <4>3, <4>4, Zenon
    <3> QED BY <3>7
  <2> QED BY <1>1, <2>1, <2>2
<1>8. buf \in D /\ at[buf].prev = NULL
  BY <1>1 DEF Layout
<1>9. from[buf]
  BY <1>1, <1>7, <1>8
<1> QED BY <1>8, <1>9 DEF VerifyChain, from

\* The search of malloc ends, and finds a free block that is long enough or
\* nothing.
LEMMA Fits ==
    ASSUME NEW D, D = DOMAIN hdr, NEW buf, NEW top,
           Sound(hdr, heap.first_free, D, buf, top), NEW n \in Nat
    PROVE  Fit(n) # NULL => Fit(n) \in FreeIn(hdr, D) /\ hdr[Fit(n)].size >= n
<1> DEFINE F == FreeIn(hdr, D)
           S == D \cup {NULL}
           Eq(f) == f = [a \in S |-> IF a = NULL \/ hdr[a].size >= n THEN a ELSE f[hdr[a].next_free]]
           from == CHOOSE f : Eq(f)
<1>1. Layout(hdr, D, buf, top) /\ F \subseteq D
  BY DEF Sound, FreeIn
<1>2. PICK k, L : Chain(hdr, heap.first_free, F, k, L)
  BY DEF Sound
<1>3. /\ k \in Nat /\ L \in [1..k -> F] /\ (\A i \in 1..k : L[i] \in F /\ L[i] \in D)
      /\ \A i, j \in 1..k : L[i] = L[j] => i = j
      /\ \A a \in F : \E i \in 1..k : L[i] = a
      /\ \A i \in 1..k : hdr[L[i]].next_free = IF i = k THEN NULL ELSE L[i + 1]
      /\ heap.first_free = IF k = 0 THEN NULL ELSE L[1]
  BY <1>1, <1>2 DEF Chain
<1>4. D \in SUBSET Nat /\ NULL \notin D
  <2>1. buf \in D
    BY <1>1 DEF Layout
  <2> QED BY <1>1, <2>1, LayoutFacts
<1>5. \A a \in D \ F : hdr[a].next_free = NULL
  BY DEF Sound
<1> DEFINE Ok(i) == hdr[L[i]].size >= n
           First(i, j) == j \in i..k /\ Ok(j) /\ \A l \in i..(j - 1) : ~Ok(l)
           Res(i) == IF \E j : First(i, j) THEN L[CHOOSE j : First(i, j)] ELSE NULL
           Pos(a) == CHOOSE i \in 1..k : L[i] = a
           g == [a \in S |-> IF a = NULL THEN NULL ELSE IF a \in F THEN Res(Pos(a))
                             ELSE IF hdr[a].size >= n THEN a ELSE NULL]
<1>6. \A i \in 1..k : Pos(L[i]) = i
  BY <1>3
<1> HIDE DEF Pos
<1>7. ASSUME NEW i \in 1..k, Ok(i)
      PROVE  Res(i) = L[i]
  <2>1. First(i, i)
    BY <1>3, <1>7
  <2>2. \A j : First(i, j) => j = i
    <3> SUFFICES ASSUME NEW j, First(i, j), j # i
                 PROVE  FALSE
      OBVIOUS
    <3>1. j \in i..k /\ i \in i..(j - 1)
      BY <1>3
    <3> QED BY <1>7, <3>1
  <2> HIDE DEF First
  <2> QED BY <2>1, <2>2
<1>8. ASSUME NEW i \in 1..k, ~Ok(i), i # k
      PROVE  Res(i) = Res(i + 1)
  <2>1. \A j : First(i, j) <=> First(i + 1, j)
    <3> SUFFICES ASSUME NEW j
                 PROVE  First(i, j) <=> First(i + 1, j)
      OBVIOUS
    <3>1. ASSUME First(i, j)
          PROVE  First(i + 1, j)
      <4>1. j # i
        BY <1>8, <3>1
      <4>2. j \in (i + 1)..k
        BY <1>3, <3>1, <4>1
      <4>3. \A l \in (i + 1)..(j - 1) : l \in i..(j - 1)
        BY <1>3, <4>2
      <4> QED BY <3>1, <4>2, <4>3
    <3>2. ASSUME First(i + 1, j)
          PROVE  First(i, j)
      <4>1. j \in i..k
        BY <1>3, <3>2
      <4>2. \A l \in i..(j - 1) : l = i \/ l \in (i + 1)..(j - 1)
        BY <1>3, <4>1
      <4> QED BY <1>8, <3>2, <4>1, <4>2
    <3> QED BY <3>1, <3>2
  <2>2. \A j, l : First(i, j) /\ First(i, l) => j = l
    <3> SUFFICES ASSUME NEW j, NEW l, First(i, j), First(i, l)
                 PROVE  j = l
      OBVIOUS
    <3>1. j \in i..k /\ l \in i..k
      OBVIOUS
    <3>2. ~(j < l)
      <4>1. j < l => j \in i..(l - 1)
        BY <1>3, <3>1
      <4> QED BY <4>1
    <3>3. ~(l < j)
      <4>1. l < j => l \in i..(j - 1)
        BY <1>3, <3>1
      <4> QED BY <4>1
    <3> QED BY <1>3, <3>1, <3>2, <3>3
  <2> HIDE DEF First
  <2>3. (CHOOSE j : First(i, j)) = (CHOOSE j : First(i + 1, j)) \/ ~\E j : First(i, j)
    <3> SUFFICES ASSUME NEW j, First(i, j)
                 PROVE  (CHOOSE l : First(i, l)) = (CHOOSE l : First(i + 1, l))
      OBVIOUS
    <3>1. First(i + 1, j)
      BY <2>1
    <3>2. First(i, CHOOSE l : First(i, l))
      OBVIOUS
    <3>3. First(i + 1, CHOOSE l : First(i + 1, l))
      BY <3>1
    <3>4. First(i, CHOOSE l : First(i + 1, l))
      BY <2>1, <3>3
    <3> QED BY <2>2, <3>2, <3>4
  <2> QED BY <2>1, <2>3
<1>9. ASSUME NEW i \in 1..k, ~Ok(i), i = k
      PROVE  Res(i) = NULL
  <2>1. ~\E j : First(i, j)
    <3> SUFFICES ASSUME NEW j, First(i, j)
                 PROVE  FALSE
      OBVIOUS
    <3>1. j = i
      BY <1>3, <1>9
    <3> QED BY <1>9, <3>1
  <2> HIDE DEF First
  <2> QED BY <2>1
<1> HIDE DEF Res, Ok
<1>10. ASSUME NEW a \in S
       PROVE  g[a] = IF a = NULL \/ hdr[a].size >= n THEN a ELSE g[hdr[a].next_free]
  <2>1. CASE a = NULL
    BY <2>1
  <2>2. CASE a \in F
    <3>1. PICK i \in 1..k : L[i] = a
      BY <1>3, <2>2
    <3>2. a # NULL /\ a \in S /\ g[a] = Res(i)
      BY <1>1, <1>4, <1>6, <2>2, <3>1
    <3>3. CASE Ok(i)
      BY <1>7, <3>1, <3>2, <3>3 DEF Ok
    <3>4. CASE ~Ok(i) /\ i = k
      <4>1. hdr[a].next_free = NULL /\ g[NULL] = NULL
        BY <1>3, <3>1, <3>4
      <4> QED BY <1>9, <3>1, <3>2, <3>4, <4>1 DEF Ok
    <3>5. CASE ~Ok(i) /\ i # k
      <4>1. i + 1 \in 1..k /\ hdr[a].next_free = L[i + 1]
        BY <1>3, <3>1, <3>5
      <4>2. g[L[i + 1]] = Res(i + 1)
        BY <1>3, <1>4, <1>6, <4>1
      <4> QED BY <1>8, <3>1, <3>2, <3>5, <4>1, <4>2 DEF Ok
    <3> QED BY <3>3, <3>4, <3>5
  <2>3. CASE a \in D \ F
    <3>1. hdr[a].next_free = NULL /\ g[NULL] = NULL /\ a # NULL
      BY <1>4, <1>5, <2>3
    <3>2. g[a] = IF hdr[a].size >= n THEN a ELSE NULL
      BY <2>3, <3>1
    <3> HIDE DEF g
    <3> QED BY <3>1, <3>2
  <2> QED BY <2>1, <2>2, <2>3
<1>11. Eq(g)
  <2>1. g = [a \in S |-> g[a]]
    OBVIOUS
  <2> HIDE DEF g
  <2> QED BY <1>10, <2>1
<1>12. Eq(from)
  <2> HIDE DEF g, Eq
  <2> QED BY <1>11
<1> HIDE DEF from, g
<1>13. ASSUME NEW a \in S
       PROVE  from[a] = IF a = NULL \/ hdr[a].size >= n THEN a ELSE from[hdr[a].next_free]
  BY <1>12
<1> DEFINE Good(i) == from[L[i]] = NULL \/ (from[L[i]] \in F /\ hdr[from[L[i]]].size >= n)
           Bad == {i \in 1..k : ~Good(i)}
           T == {k - i : i \in Bad}
<1>14. ASSUME Bad # {}
       PROVE  FALSE
  <2>1. T \in SUBSET Nat /\ T # {}
    BY <1>3, <1>14
  <2>2. PICK x \in T : \A y \in T : x <= y
    BY <2>1, Least
  <2>3. PICK i \in Bad : x = k - i
    BY <2>2
  <2>4. i \in 1..k /\ ~Good(i)
    OBVIOUS
  <2>5. i # k => i + 1 \in 1..k /\ Good(i + 1)
    <3> SUFFICES ASSUME i # k
                 PROVE  i + 1 \in 1..k /\ Good(i + 1)
      OBVIOUS
    <3>1. i + 1 \in 1..k
      BY <1>3, <2>4
    <3>2. k - (i + 1) \notin T
      <4>1. ~(x <= k - (i + 1))
        BY <1>3, <2>3, <2>4
      <4> QED BY <2>2, <4>1
    <3> HIDE DEF Good
    <3> QED BY <3>1, <3>2
  <2>6. L[i] \in F /\ L[i] \in S /\ L[i] # NULL
    BY <1>3, <1>4, <2>4
  <2>7. CASE hdr[L[i]].size >= n
    BY <1>13, <2>4, <2>6, <2>7
  <2>8. CASE ~(hdr[L[i]].size >= n) /\ i = k
    <3>1. from[L[i]] = from[NULL] /\ from[NULL] = NULL
      <4>1. hdr[L[i]].next_free = NULL
        BY <1>3, <2>4, <2>8
      <4>2. from[NULL] = NULL
        BY <1>13
      <4> QED BY <1>13, <2>6, <2>8, <4>1, <4>2
    <3> QED BY <2>4, <3>1
  <2>9. CASE ~(hdr[L[i]].size >= n) /\ i # k
    <3>1. from[L[i]] = from[L[i + 1]]
      BY <1>3, <1>13, <2>4, <2>6, <2>9
    <3> QED BY <2>4, <2>5, <2>9, <3>1
  <2> QED BY <2>7, <2>8, <2>9
<1>15. Fit(n) = from[heap.first_free]
  BY DEF Fit, from
<1>16. CASE k = 0
  <2>1. from[NULL] = NULL
    BY <1>13
  <2> QED BY <1>3, <1>15, <1>16, <2>1
<1>17. CASE k # 0
  <2>1. 1 \in 1..k /\ heap.first_free = L[1]
    BY <1>3, <1>17
  <2>2. Good(1)
    BY <1>14, <2>1
  <2> QED BY <1>15, <2>1, <2>2
<1> QED BY <1>16, <1>17

\* The nodes reached from the head of the list are the free blocks.
LEMMA AllListed ==
    ASSUME NEW buf, NEW top, Sound(hdr, heap.first_free, Blocks, buf, top)
    PROVE  {Listed[i] : i \in DOMAIN Listed} \ {NULL} = FreeBlocks
<1> DEFINE F == FreeBlocks
           c == Cardinality(Blocks)
           Eq(f) == f = [i \in 0..c |-> IF i = 0 THEN heap.first_free
                                       ELSE IF f[i - 1] = NULL THEN NULL
                                       ELSE hdr[f[i - 1]].next_free]
           node == CHOOSE f : Eq(f)
<1>1. Layout(hdr, Blocks, buf, top) /\ F \subseteq Blocks /\ F = FreeIn(hdr, Blocks)
  BY DEF Sound, FreeIn, FreeBlocks
<1>2. PICK k, L : Chain(hdr, heap.first_free, F, k, L)
  BY <1>1 DEF Sound
<1>3. /\ k \in Nat /\ L \in [1..k -> F] /\ (\A i \in 1..k : L[i] \in F)
      /\ \A i, j \in 1..k : L[i] = L[j] => i = j
      /\ \A a \in F : \E i \in 1..k : L[i] = a
      /\ \A i \in 1..k : hdr[L[i]].next_free = IF i = k THEN NULL ELSE L[i + 1]
      /\ heap.first_free = IF k = 0 THEN NULL ELSE L[1]
  BY <1>2 DEF Chain
<1>4. Blocks \in SUBSET Nat /\ NULL \notin Blocks
  <2>1. buf \in Blocks
    BY <1>1 DEF Layout
  <2> QED BY <1>1, <2>1, LayoutFacts
<1>5. c \in Nat /\ k <= c
  <2>1. IsFiniteSet(Blocks)
    <3>1. \A a \in Blocks : a <= top
      BY <1>1 DEF Layout
    <3>2. top \in Nat
      BY <1>1 DEF Layout
    <3> QED BY <1>4, <3>1, <3>2, FS_BoundedSetOfNaturals
  <2>2. IsFiniteSet(F) /\ Cardinality(F) <= c
    BY <1>1, <2>1, FS_Subset
  <2>3. Cardinality(F) = k
    <3>1. L \in Bijection(1..k, F)
      <4>1. L \in Injection(1..k, F)
        BY <1>3 DEF Injection, IsInjective
      <4>2. L \in Surjection(1..k, F)
        BY <1>3 DEF Surjection
      <4> QED BY <4>1, <4>2 DEF Bijection
    <3>2. ExistsBijection(1..k, F)
      BY <3>1 DEF ExistsBijection
    <3> QED BY <1>3, <3>2, FS_CountingElements
  <2>4. c \in Nat
    BY <2>1, FS_CardinalityType
  <2> QED BY <2>2, <2>3, <2>4
<1> HIDE DEF c, F
<1> DEFINE g == [i \in 0..c |-> IF i < k THEN L[i + 1] ELSE NULL]
<1>6. Eq(g)
  <2>1. ASSUME NEW i \in 0..c
        PROVE  g[i] = IF i = 0 THEN heap.first_free
                      ELSE IF g[i - 1] = NULL THEN NULL ELSE hdr[g[i - 1]].next_free
    <3>1. CASE i = 0
      BY <1>3, <3>1
    <3>2. CASE i # 0 /\ i - 1 < k
      <4>1. i - 1 \in 0..c /\ i \in 1..k
        BY <1>3, <1>5, <3>2
      <4>2. g[i - 1] = L[i] /\ L[i] # NULL
        <5>1. g[i - 1] = L[(i - 1) + 1]
          BY <3>2, <4>1
        <5>2. (i - 1) + 1 = i
          OBVIOUS
        <5>3. L[i] \in Blocks
          BY <1>1, <1>3, <4>1
        <5> QED BY <1>4, <5>1, <5>2, <5>3
      <4>3. g[i] = IF i = k THEN NULL ELSE L[i + 1]
        BY <1>3, <4>1
      <4> HIDE DEF g
      <4> QED BY <1>3, <3>2, <4>1, <4>2, <4>3
    <3>3. CASE i # 0 /\ ~(i - 1 < k)
      <4>1. i - 1 \in 0..c /\ ~(i < k)
        BY <1>3, <1>5, <3>3
      <4>2. g[i - 1] = NULL /\ g[i] = NULL
        BY <3>3, <4>1
      <4> HIDE DEF g
      <4> QED BY <3>3, <4>2
    <3> QED BY <3>1, <3>2, <3>3
  <2>2. g = [i \in 0..c |-> g[i]]
    OBVIOUS
  <2> HIDE DEF g
  <2> QED BY <2>1, <2>2
<1>7. Eq(node)
  <2> HIDE DEF g, Eq
  <2> QED BY <1>6
<1>8. Listed = node
  BY DEF Listed, c
<1> HIDE DEF node
<1>9. DOMAIN node = 0..c
  BY <1>7
<1>10. ASSUME NEW i \in 0..c
       PROVE  node[i] = IF i = 0 THEN heap.first_free
                        ELSE IF node[i - 1] = NULL THEN NULL ELSE hdr[node[i - 1]].next_free
  BY <1>7
<1> DEFINE T == {i \in 0..c : node[i] # g[i]}
<1>11. ASSUME T # {}
       PROVE  FALSE
  <2>1. PICK i \in T : \A j \in T : i <= j
    <3>1. T \in SUBSET Nat
      BY <1>5
    <3> HIDE DEF T
    <3> QED BY <1>11, <3>1, Least
  <2>2. i \in 0..c /\ node[i] # g[i]
    OBVIOUS
  <2>3. g[i] = IF i = 0 THEN heap.first_free
               ELSE IF g[i - 1] = NULL THEN NULL ELSE hdr[g[i - 1]].next_free
    <3> HIDE DEF g
    <3> QED BY <1>6, <2>2
  <2>4. i # 0 => node[i - 1] = g[i - 1]
    <3> SUFFICES ASSUME i # 0
                 PROVE  node[i - 1] = g[i - 1]
      OBVIOUS
    <3>1. i - 1 \in 0..c /\ ~(i <= i - 1)
      BY <1>5, <2>2
    <3> HIDE DEF g
    <3> QED BY <2>1, <3>1
  <2> HIDE DEF g
  <2> QED BY <1>10, <2>2, <2>3, <2>4
<1>12. \A i \in 0..c : node[i] = IF i < k THEN L[i + 1] ELSE NULL
  BY <1>11
<1>13. ASSUME NEW i \in 0..c, node[i] # NULL
       PROVE  node[i] \in F
  <2>1. i < k /\ node[i] = L[i + 1]
    BY <1>12, <1>13
  <2>2. i + 1 \in 1..k
    BY <1>3, <2>1
  <2> QED BY <1>3, <2>1, <2>2
<1>14. ASSUME NEW a \in F
       PROVE  a # NULL /\ \E i \in 0..c : node[i] = a
  <2>1. PICK j \in 1..k : L[j] = a
    BY <1>3
  <2>2. j - 1 \in 0..c /\ j - 1 < k /\ (j - 1) + 1 = j
    BY <1>3, <1>5
  <2>3. node[j - 1] = a
    BY <1>12, <2>1, <2>2
  <2> QED BY <1>1, <1>4, <2>2, <2>3
<1>15. {node[i] : i \in 0..c} \ {NULL} = F
  BY <1>13, <1>14
<1> QED BY <1>8, <1>9, <1>15 DEF F

-----------------------------------------------------------------------------
(* The steps of malloc and free keep the heap sound.                        *)
Used(at, D) == D \ FreeIn(at, D)

\* A list stays one when its links stay.
LEMMA ChainKept ==
    ASSUME NEW at, NEW bt, NEW ff, NEW F, NEW k, NEW L, Chain(at, ff, F, k, L), SameLinks(at, bt, F)
    PROVE  Chain(bt, ff, F, k, L)
<1>1. \A i \in 1..k : L[i] \in F
  BY DEF Chain
<1>2. \A i \in 1..k : /\ bt[L[i]].next_free = IF i = k THEN NULL ELSE L[i + 1]
                      /\ bt[L[i]].prev_free = IF i = 1 THEN NULL ELSE L[i - 1]
  BY <1>1 DEF Chain, SameLinks
<1> QED BY <1>2 DEF Chain

\* Blocks lie end to end as long as their sizes and neighbours stay.
LEMMA LayoutKept ==
    ASSUME NEW at, NEW D, NEW buf, NEW top, Layout(at, D, buf, top), NEW bt \in [D -> Hdr],
           \A b \in D : bt[b].size = at[b].size /\ bt[b].prev = at[b].prev /\ bt[b].next = at[b].next
    PROVE  Layout(bt, D, buf, top)
<1>1. \A b \in D : End(bt, b) = End(at, b)
  BY DEF End
<1>4. \A b \in D : bt[b].next # NULL => bt[b].next \in D /\ bt[bt[b].next].prev = b
  <2> SUFFICES ASSUME NEW b \in D, bt[b].next # NULL
               PROVE  bt[b].next \in D /\ bt[bt[b].next].prev = b
    OBVIOUS
  <2>1. bt[b].next = at[b].next
    OBVIOUS
  <2>2. at[b].next \in D /\ at[at[b].next].prev = b
    BY <2>1 DEF Layout
  <2>3. bt[at[b].next].prev = at[at[b].next].prev
    BY <2>2
  <2> QED BY <2>1, <2>2, <2>3
<1>5. \A b \in D : bt[b].prev # NULL => bt[b].prev \in D /\ bt[bt[b].prev].next = b
  <2> SUFFICES ASSUME NEW b \in D, bt[b].prev # NULL
               PROVE  bt[b].prev \in D /\ bt[bt[b].prev].next = b
    OBVIOUS
  <2>1. bt[b].prev = at[b].prev
    OBVIOUS
  <2>2. at[b].prev \in D /\ at[at[b].prev].next = b
    BY <2>1 DEF Layout
  <2>3. bt[at[b].prev].next = at[at[b].prev].next
    BY <2>2
  <2> QED BY <2>1, <2>2, <2>3
<1>6. \A b \in D : End(bt, b) = top => bt[b].size > 0
  BY <1>1 DEF Layout
<1>7. \A b, c \in D : b < c => End(bt, b) <= c
  BY <1>1 DEF Layout
<1>8. \A b \in D : bt[b].next = IF End(bt, b) = top THEN NULL ELSE End(bt, b)
  BY <1>1 DEF Layout
<1>9. \A b \in D : b % ALIGN = 0 /\ End(bt, b) <= top
  BY <1>1 DEF Layout
<1>10. \A b \in D : bt[b].prev = NULL <=> b = buf
  BY DEF Layout
<1> QED BY <1>4, <1>5, <1>6, <1>7, <1>8, <1>9, <1>10 DEF Layout

\* Giving a free block away as it is leaves a sound heap, with one more block in use.
LEMMA WholeSound ==
    ASSUME NEW D, D = DOMAIN hdr, NEW buf, NEW top,
           Sound(hdr, heap.first_free, D, buf, top), NEW a \in FreeIn(hdr, D)
    PROVE  LET h == Whole(a)
           IN  /\ Sound(h.at, h.first_free, D, buf, top)
               /\ Used(h.at, D) = Used(hdr, D) \cup {a}
               /\ \A b \in D : h.at[b].size = hdr[b].size
<1> DEFINE F == FreeIn(hdr, D)
           ff == heap.first_free
           u == Unlink([first_free |-> ff, at |-> hdr], a)
           bt == [u.at EXCEPT ![a] = Unlinked(@)]
           h == Whole(a)
<1>1. Layout(hdr, D, buf, top) /\ F \subseteq D /\ hdr \in [D -> Hdr]
  BY DEF Sound, FreeIn, Layout
<1>2. D \in SUBSET Nat /\ NULL \notin D
  <2>1. buf \in D
    BY <1>1 DEF Layout
  <2> QED BY <1>1, <2>1, LayoutFacts
<1>3. PICK k, L : Chain(hdr, ff, F, k, L)
  BY DEF Sound
<1>4. /\ u = [first_free |-> u.first_free, at |-> u.at]
      /\ u.at \in [D -> Hdr] /\ SameBlocks(hdr, u.at, D) /\ SameLinks(hdr, u.at, D \ F)
      /\ \E l, M : Chain(u.at, u.first_free, F \ {a}, l, M)
  <2>1. Relinked(u, D, hdr, F, F \ {a})
    BY <1>1, <1>2, <1>3, UnlinkChain
  <2> HIDE DEF u
  <2> QED BY <2>1 DEF Relinked
<1> HIDE DEF u
<1>5. h.at = bt /\ h.first_free = u.first_free
  <2>1. h = [u EXCEPT !.at = bt]
    BY <1>4 DEF Whole, u
  <2> QED BY <1>4, <2>1
<1>6. /\ bt \in [D -> Hdr]
      /\ \A b \in D \ {a} : bt[b] = u.at[b]
      /\ bt[a].alloc = 1 /\ bt[a].prev_free = NULL /\ bt[a].next_free = NULL
      /\ bt[a].size = u.at[a].size /\ bt[a].prev = u.at[a].prev /\ bt[a].next = u.at[a].next
  <2>1. u.at[a] \in Hdr
    BY <1>1, <1>4
  <2>2. Unlinked(u.at[a]) \in Hdr
    BY <2>1 DEF Unlinked, Hdr, NULL
  <2> QED BY <1>1, <1>4, <2>1, <2>2 DEF Unlinked, Hdr
<1> HIDE DEF bt
<1>7. \A b \in D : /\ bt[b].size = hdr[b].size /\ bt[b].prev = hdr[b].prev /\ bt[b].next = hdr[b].next
                   /\ bt[b].alloc = IF b = a THEN 1 ELSE hdr[b].alloc
  BY <1>4, <1>6 DEF SameBlocks
<1>8. Layout(bt, D, buf, top)
  BY <1>1, <1>6, <1>7, LayoutKept
<1>9. FreeIn(bt, D) = F \ {a}
  BY <1>1, <1>7 DEF FreeIn
<1>10. \A b \in D : bt[b].alloc \in 0..1
  BY <1>7 DEF Sound
<1>11. \A b \in FreeIn(bt, D) : bt[b].next \notin FreeIn(bt, D)
  BY <1>1, <1>7, <1>9 DEF Sound
<1>12. \A b \in D \ FreeIn(bt, D) : bt[b].prev_free = NULL /\ bt[b].next_free = NULL
  <2> SUFFICES ASSUME NEW b \in D \ FreeIn(bt, D)
               PROVE  bt[b].prev_free = NULL /\ bt[b].next_free = NULL
    OBVIOUS
  <2>1. CASE b = a
    BY <1>6, <2>1
  <2>2. CASE b # a
    <3>1. b \in D \ F
      BY <1>9, <2>2
    <3> QED BY <1>4, <1>6, <2>2, <3>1 DEF Sound, SameLinks
  <2> QED BY <2>1, <2>2
<1>13. \E l, M : Chain(bt, u.first_free, FreeIn(bt, D), l, M)
  <2>1. SameLinks(u.at, bt, F \ {a})
    BY <1>1, <1>6 DEF SameLinks
  <2> QED BY <1>4, <1>9, <2>1, ChainKept
<1>14. Sound(bt, u.first_free, D, buf, top)
  BY <1>8, <1>10, <1>11, <1>12, <1>13 DEF Sound
<1>15. Used(bt, D) = Used(hdr, D) \cup {a}
  BY <1>1, <1>9 DEF Used
<1> QED BY <1>5, <1>7, <1>14, <1>15

\* The heap h after n units of the block a were given away and the block new
\* was made of its rest.
SplitOff(h, D, buf, top, a, n, new) ==
    /\ new \notin D
    /\ Sound(h.at, h.first_free, D \cup {new}, buf, top)
    /\ Used(h.at, D \cup {new}) = Used(hdr, D) \cup {a}
    /\ \A b \in D : h.at[b].size = IF b = a THEN n ELSE hdr[b].size

\* Cutting a free block leaves a sound heap with the first part in use.
LEMMA SplitSound ==
    ASSUME NEW D, D = DOMAIN hdr, NEW buf, NEW top,
           Sound(hdr, heap.first_free, D, buf, top), NEW a \in FreeIn(hdr, D),
           NEW n \in Nat, n % ALIGN = 0, hdr[a].size - n >= HDR + ALIGN
    PROVE  SplitOff(Split(a, n), D, buf, top, a, n, a + HDR + n)
<1> DEFINE F == FreeIn(hdr, D)
           ff == heap.first_free
           new == a + HDR + n
           E == D \cup {new}
           x == hdr[a].next
           rest == [size |-> hdr[a].size - n - HDR, alloc |-> 0, prev |-> a,
                    next |-> hdr[a].next, prev_free |-> NULL, next_free |-> NULL]
           at0 == With(hdr, new, rest)
           g == Set([first_free |-> ff, at |-> at0], x, "prev", new)
           u == Replace(g, a, new)
           bt == [u.at EXCEPT ![a] = [Unlinked(@) EXCEPT !.size = n, !.next = new]]
           h == Split(a, n)
           G == (F \ {a}) \cup {new}
<1>1. Layout(hdr, D, buf, top) /\ F \subseteq D /\ hdr \in [D -> Hdr] /\ a \in D /\ hdr[a].alloc = 0
  BY DEF Sound, FreeIn, Layout
<1>2. /\ HDR \in Nat \ {0} /\ ALIGN \in Nat \ {0} /\ NULL \notin D /\ D \in SUBSET Nat
      /\ a \in Nat /\ hdr[a].size \in Nat /\ x \in D \cup {NULL}
      /\ End(hdr, a) = a + HDR + hdr[a].size /\ (x # NULL => x = End(hdr, a))
  BY <1>1, LayoutFacts DEF End
<1>3. new \in Nat /\ a < new /\ new < End(hdr, a) /\ new # NULL /\ new \notin D
  BY <1>1, NewBlock
<1>4. a # new /\ x # new /\ new \in Nat /\ NULL \notin E /\ E \in SUBSET Nat /\ x \in E \cup {NULL}
      /\ a \in E /\ F \in SUBSET E /\ new \in E \ F
  BY <1>1, <1>2, <1>3
<1>5. rest \in Hdr
  <2>1. hdr[a].size - n - HDR \in Nat
    BY <1>2
  <2>2. x \in Nat /\ NULL \in Nat
    BY <1>2 DEF NULL
  <2> QED BY <1>2, <2>1, <2>2 DEF Hdr
<1> HIDE DEF rest, new
<1>6. at0 \in [E -> Hdr] /\ at0[new] = rest /\ \A b \in D : at0[b] = hdr[b]
  <2>1. at0 = [b \in E |-> IF b = new THEN rest ELSE hdr[b]]
    BY <1>1 DEF With
  <2> HIDE DEF at0
  <2> QED BY <1>1, <1>3, <1>5, <2>1
<1> HIDE DEF at0
<1>7. /\ g = [first_free |-> ff, at |-> g.at] /\ g.at \in [E -> Hdr] /\ SameLinks(at0, g.at, E)
      /\ \A b \in E : /\ g.at[b].prev = IF b = x THEN new ELSE at0[b].prev
                      /\ g.at[b].next = at0[b].next /\ g.at[b].size = at0[b].size
                      /\ g.at[b].alloc = at0[b].alloc
  <2> HIDE DEF E, ff, x
  <2>1. NULL \notin E /\ x \in E \cup {NULL} /\ new \in Nat /\ at0 \in [E -> Hdr]
    BY <1>4, <1>6
  <2>2. PrevSet(g, E, at0, ff, x, new)
    BY <2>1, SetPrev
  <2> HIDE DEF g
  <2> QED BY <2>2 DEF PrevSet
<1> HIDE DEF g, x
<1>8. PICK k, L : Chain(hdr, ff, F, k, L)
  BY DEF Sound
<1>9. SameLinks(hdr, g.at, D)
  BY <1>6, <1>7 DEF SameLinks
<1>10. Chain(g.at, ff, F, k, L)
  <2>1. SameLinks(hdr, g.at, F)
    BY <1>1, <1>9 DEF SameLinks
  <2> QED BY <1>8, <2>1, ChainKept
<1>11. /\ u = [first_free |-> u.first_free, at |-> u.at]
       /\ u.at \in [E -> Hdr] /\ SameBlocks(g.at, u.at, E)
       /\ SameLinks(g.at, u.at, E \ (F \cup {new}))
       /\ \E l, M : Chain(u.at, u.first_free, G, l, M)
  <2> DEFINE w == [first_free |-> ff, at |-> g.at]
  <2>1. u = Replace(w, a, new)
    BY <1>7
  <2> HIDE DEF u
  <2>2. a \in F /\ new \in E \ F
    BY <1>4
  <2>3. NULL \notin E /\ E \in SUBSET Nat /\ F \in SUBSET E /\ g.at \in [E -> Hdr]
    BY <1>4, <1>7
  <2> HIDE DEF F, E, ff
  <2>4. Relinked(Replace(w, a, new), E, g.at, F \cup {new}, (F \ {a}) \cup {new})
    BY <1>10, <2>2, <2>3, ReplaceChain
  <2> QED BY <2>1, <2>4 DEF Relinked
<1>12. h.at = bt /\ h.first_free = u.first_free
  <2>1. h = [u EXCEPT !.at = bt]
    BY <1>11 DEF Split, g, x, at0, rest, new
  <2> QED BY <1>11, <2>1
<1> HIDE DEF u, h
<1>13. /\ bt \in [E -> Hdr]
       /\ \A b \in E \ {a} : bt[b] = u.at[b]
       /\ bt[a].alloc = 1 /\ bt[a].prev_free = NULL /\ bt[a].next_free = NULL
       /\ bt[a].size = n /\ bt[a].prev = u.at[a].prev /\ bt[a].next = new
  <2>1. u.at[a] \in Hdr
    BY <1>4, <1>11
  <2> DEFINE w == [Unlinked(u.at[a]) EXCEPT !.size = n, !.next = new]
  <2>2. /\ w \in Hdr /\ w.alloc = 1 /\ w.prev_free = NULL /\ w.next_free = NULL
        /\ w.size = n /\ w.prev = u.at[a].prev /\ w.next = new
    BY <1>4, <2>1 DEF Unlinked, Hdr, NULL
  <2>3. bt = [u.at EXCEPT ![a] = w]
    OBVIOUS
  <2> HIDE DEF w, bt
  <2> QED BY <1>4, <1>11, <2>2, <2>3
<1> HIDE DEF bt
<1>14. \A b \in E :
         /\ bt[b].size = IF b = a THEN n ELSE IF b = new THEN hdr[a].size - n - HDR ELSE hdr[b].size
         /\ bt[b].next = IF b = a THEN new ELSE IF b = new THEN x ELSE hdr[b].next
         /\ bt[b].prev = IF b = new THEN a ELSE IF b = x THEN new ELSE hdr[b].prev
         /\ bt[b].alloc = IF b = a THEN 1 ELSE IF b = new THEN 0 ELSE hdr[b].alloc
  <2> SUFFICES ASSUME NEW b \in E
               PROVE  /\ bt[b].size = IF b = a THEN n ELSE IF b = new THEN hdr[a].size - n - HDR ELSE hdr[b].size
                      /\ bt[b].next = IF b = a THEN new ELSE IF b = new THEN x ELSE hdr[b].next
                      /\ bt[b].prev = IF b = new THEN a ELSE IF b = x THEN new ELSE hdr[b].prev
                      /\ bt[b].alloc = IF b = a THEN 1 ELSE IF b = new THEN 0 ELSE hdr[b].alloc
    OBVIOUS
  <2>0. /\ rest.size = hdr[a].size - n - HDR /\ rest.next = x /\ rest.prev = a /\ rest.alloc = 0
    BY DEF rest, x
  <2>1. CASE b = a
    BY <1>3, <1>4, <1>6, <1>7, <1>11, <1>13, <2>1 DEF SameBlocks
  <2>2. CASE b = new
    BY <1>4, <1>6, <1>7, <1>11, <1>13, <2>0, <2>2 DEF SameBlocks
  <2>3. CASE b # a /\ b # new
    <3>1. b \in D /\ b \in E \ {a}
      BY <2>3
    <3> QED BY <1>6, <1>7, <1>11, <1>13, <2>3, <3>1 DEF SameBlocks
  <2> QED BY <2>1, <2>2, <2>3
<1>15. Layout(bt, E, buf, top)
  <2>1. new = a + HDR + n
    BY DEF new
  <2>2. x = hdr[a].next
    BY DEF x
  <2> QED BY <1>1, <1>13, <1>14, <2>1, <2>2, SplitLayout
<1>16. FreeIn(bt, E) = G
  BY <1>1, <1>3, <1>4, <1>14 DEF FreeIn
<1>17. \A b \in E : bt[b].alloc \in 0..1
  BY <1>14 DEF Sound
<1>18. \A b \in G : bt[b].next \notin G
  <2> SUFFICES ASSUME NEW b \in G
               PROVE  bt[b].next \notin G
    OBVIOUS
  <2>1. CASE b = new
    <3>1. x \notin F
      BY DEF Sound, x
    <3> QED BY <1>4, <1>14, <2>1, <3>1
  <2>2. CASE b # new
    <3>1. b \in F /\ b # a /\ b \in E
      BY <1>4, <2>2
    <3>2. bt[b].next = hdr[b].next /\ hdr[b].next \notin F
      BY <1>14, <2>2, <3>1 DEF Sound
    <3>3. hdr[b].next \in D \cup {NULL}
      BY <1>1, <3>1, LayoutFacts
    <3> QED BY <1>3, <3>2, <3>3
  <2> QED BY <2>1, <2>2
<1>19. \A b \in E \ G : bt[b].prev_free = NULL /\ bt[b].next_free = NULL
  <2> SUFFICES ASSUME NEW b \in E \ G
               PROVE  bt[b].prev_free = NULL /\ bt[b].next_free = NULL
    OBVIOUS
  <2>1. CASE b = a
    BY <1>13, <2>1
  <2>2. CASE b # a
    <3>1. b \in D \ F /\ b \in E \ (F \cup {new})
      BY <2>2
    <3> QED BY <1>9, <1>11, <1>13, <2>2, <3>1 DEF Sound, SameLinks
  <2> QED BY <2>1, <2>2
<1>20. \E l, M : Chain(bt, u.first_free, G, l, M)
  <2>1. SameLinks(u.at, bt, G)
    BY <1>1, <1>3, <1>4, <1>13 DEF SameLinks
  <2>2. PICK l, M : Chain(u.at, u.first_free, G, l, M)
    BY <1>11
  <2> QED BY <2>1, <2>2, ChainKept
<1>21. Sound(bt, u.first_free, E, buf, top)
  <2> HIDE DEF E, G
  <2> QED BY <1>15, <1>16, <1>17, <1>18, <1>19, <1>20 DEF Sound
<1>22. Used(bt, E) = Used(hdr, D) \cup {a}
  BY <1>1, <1>3, <1>4, <1>16 DEF Used
<1>23. \A b \in D : bt[b].size = IF b = a THEN n ELSE hdr[b].size
  BY <1>3, <1>14
<1> QED BY <1>3, <1>12, <1>21, <1>22, <1>23 DEF h, new, SplitOff

\* The heap h that is left when the block n behind a has been joined to a:
\* blocks, list and the headers that are not touched.
Merged(h, at, D, buf, top, a, n, S, G) ==
    /\ h = [first_free |-> h.first_free, at |-> h.at]
    /\ h.at \in [D \ {n} -> Hdr]
    /\ Layout(h.at, D \ {n}, buf, top)
    /\ SameLinks(at, h.at, D \ (S \cup {n}))
    /\ \A b \in D \ {n} :
           /\ h.at[b].alloc = at[b].alloc
           /\ h.at[b].size = IF b = a THEN at[a].size + HDR + at[n].size ELSE at[b].size
           /\ h.at[b].next = IF b = a THEN at[n].next ELSE at[b].next
    /\ \E k, L : Chain(h.at, h.first_free, G, k, L)

\* What Swallow makes of the head ff and the headers at.
Swallowed(g, D, at, ff, a, n) ==
    /\ g = [first_free |-> ff, at |-> g.at] /\ g.at \in [D -> Hdr]
    /\ SameLinks(at, g.at, D)
    /\ \A b \in D :
           /\ g.at[b].alloc = at[b].alloc /\ g.at[b].prev = at[b].prev
           /\ g.at[b].size = IF b = a THEN at[a].size + HDR + at[n].size ELSE at[b].size
           /\ g.at[b].next = IF b = a THEN at[n].next ELSE at[b].next

\* Swallow changes the size and the next block of a alone.
LEMMA SwallowFacts ==
    ASSUME NEW at, NEW D, NEW buf, NEW top, Layout(at, D, buf, top), NEW ff,
           NEW a \in D, NEW n \in D
    PROVE  Swallowed(Swallow([first_free |-> ff, at |-> at], a, n), D, at, ff, a, n)
<1> DEFINE z == at[a].size + HDR + at[n].size
           v == [at[a] EXCEPT !.size = z, !.next = at[n].next]
           g == Swallow([first_free |-> ff, at |-> at], a, n)
<1>1. at \in [D -> Hdr] /\ at[a] \in Hdr /\ at[n].next \in Nat
  BY HeaderTypes DEF Layout
<1>2. at[a].size \in Nat /\ at[n].size \in Nat /\ HDR \in Nat
  BY <1>1, LayoutFacts
<1>3. z \in Nat
  BY <1>2
<1>4. g = [first_free |-> ff, at |-> [at EXCEPT ![a] = v]]
  <2> DEFINE h == [first_free |-> ff, at |-> at]
  <2>1. h.at = at
    OBVIOUS
  <2>2. [h.at[a] EXCEPT !.size = h.at[a].size + HDR + h.at[n].size, !.next = h.at[n].next] = v
    BY <1>1, <2>1 DEF Hdr
  <2> HIDE DEF v
  <2>3. g = [h EXCEPT !.at[a] = v]
    BY <2>2 DEF Swallow
  <2> HIDE DEF g
  <2> QED BY <2>3
<1> HIDE DEF z, g
<1>5. /\ v \in Hdr /\ v.size = z /\ v.next = at[n].next /\ v.alloc = at[a].alloc
      /\ v.prev = at[a].prev /\ v.prev_free = at[a].prev_free /\ v.next_free = at[a].next_free
  BY <1>1, <1>3 DEF Hdr
<1> HIDE DEF v
<1>6. g.at = [at EXCEPT ![a] = v]
  BY <1>4
<1>7. g.at \in [D -> Hdr] /\ g.at[a] = v /\ \A b \in D : b # a => g.at[b] = at[b]
  BY <1>1, <1>5, <1>6
<1> HIDE DEF z
<1>8. \A b \in D :
         /\ g.at[b].alloc = at[b].alloc /\ g.at[b].prev = at[b].prev
         /\ g.at[b].size = IF b = a THEN z ELSE at[b].size
         /\ g.at[b].next = IF b = a THEN at[n].next ELSE at[b].next
  BY <1>5, <1>7
<1>9. SameLinks(at, g.at, D)
  BY <1>5, <1>7 DEF SameLinks
<1>10. g = [first_free |-> ff, at |-> g.at]
  BY <1>4
<1> QED BY <1>7, <1>8, <1>9, <1>10 DEF g, z, Swallowed

\* Joining a block with the one before leaves blocks end to end and the list as it was.
LEMMA MergeBeforeMerges ==
    ASSUME NEW at, NEW D, NEW buf, NEW top, Layout(at, D, buf, top), NEW ff,
           NEW a \in D, NEW p \in D, at[a].prev = p,
           NEW F \in SUBSET (D \ {a}), NEW k, NEW L, Chain(at, ff, F, k, L)
    PROVE  Merged(MergeBefore([first_free |-> ff, at |-> at], a), at, D, buf, top, p, a, {}, F)
<1> DEFINE h == [first_free |-> ff, at |-> at]
           x == at[a].next
           g == Swallow(h, p, a)
           s == Set(g, x, "prev", p)
           bt == [b \in DOMAIN s.at \ {a} |-> s.at[b]]
           r == MergeBefore(h, a)
<1>1. /\ NULL \notin D /\ D \in SUBSET Nat /\ p # a /\ at[p].next = a /\ p \in Nat
      /\ x \in D \cup {NULL}
  <2>1. p # NULL
    BY LayoutFacts
  <2>2. at[p].next = a
    BY <2>1 DEF Layout
  <2> QED BY <2>1, <2>2, LayoutFacts
<1>2. /\ g = [first_free |-> ff, at |-> g.at] /\ g.at \in [D -> Hdr]
      /\ SameLinks(at, g.at, D)
      /\ \A b \in D :
             /\ g.at[b].alloc = at[b].alloc /\ g.at[b].prev = at[b].prev
             /\ g.at[b].size = IF b = p THEN at[p].size + HDR + at[a].size ELSE at[b].size
             /\ g.at[b].next = IF b = p THEN at[a].next ELSE at[b].next
  <2>1. Swallowed(g, D, at, ff, p, a)
    BY SwallowFacts
  <2> HIDE DEF g
  <2> QED BY <2>1 DEF Swallowed
<1>3. r = Wipe(s, a)
  BY <1>1 DEF MergeBefore
<1> HIDE DEF g, r
<1>4. /\ s = [first_free |-> ff, at |-> s.at] /\ s.at \in [D -> Hdr]
      /\ SameLinks(g.at, s.at, D)
      /\ \A b \in D : /\ s.at[b].prev = IF b = x THEN p ELSE g.at[b].prev
                      /\ s.at[b].next = g.at[b].next /\ s.at[b].size = g.at[b].size
                      /\ s.at[b].alloc = g.at[b].alloc
  <2> DEFINE q == [first_free |-> ff, at |-> g.at]
  <2> HIDE DEF x
  <2>1. PrevSet(Set(q, x, "prev", p), D, g.at, ff, x, p)
    BY <1>1, <1>2, SetPrev
  <2>2. PrevSet(s, D, g.at, ff, x, p)
    BY <1>2, <2>1
  <2> HIDE DEF s
  <2> QED BY <2>2 DEF PrevSet
<1> HIDE DEF s
<1>5. r.at = bt /\ r.first_free = ff /\ r = [first_free |-> r.first_free, at |-> r.at]
  BY <1>3, <1>4 DEF Wipe
<1>6. bt \in [D \ {a} -> Hdr] /\ \A b \in D \ {a} : bt[b] = s.at[b]
  BY <1>4
<1> HIDE DEF bt
<1>7. \A b \in D \ {a} :
         /\ bt[b].alloc = at[b].alloc
         /\ bt[b].size = IF b = p THEN at[p].size + HDR + at[a].size ELSE at[b].size
         /\ bt[b].next = IF b = p THEN at[a].next ELSE at[b].next
         /\ bt[b].prev = IF b = at[a].next THEN p ELSE at[b].prev
  BY <1>2, <1>4, <1>6
<1>8. Layout(bt, D \ {a}, buf, top)
  <2>1. Extended(at, bt, D, p, a)
    BY <1>7 DEF Extended
  <2> QED BY <1>1, <1>6, <2>1, MergeLayout
<1>9. SameLinks(at, bt, D \ {a})
  BY <1>2, <1>4, <1>6 DEF SameLinks
<1>10. Chain(bt, ff, F, k, L)
  <2>1. SameLinks(at, bt, F)
    BY <1>9 DEF SameLinks
  <2> QED BY <2>1, ChainKept
<1>11. SameLinks(at, bt, D \ ({} \cup {a}))
  BY <1>9
<1> QED BY <1>5, <1>6, <1>7, <1>8, <1>10, <1>11 DEF Merged, r

\* Joining a block with the free one after leaves blocks end to end, and a list with
\* the joined block in the place of the other.
LEMMA MergeAfterMerges ==
    ASSUME NEW at, NEW D, NEW buf, NEW top, Layout(at, D, buf, top), NEW ff,
           NEW F \in SUBSET D, NEW k, NEW L, Chain(at, ff, F, k, L),
           NEW a \in D, NEW n \in F, at[a].next = n,
           a \notin F => at[a].prev_free = NULL /\ at[a].next_free = NULL
    PROVE  Merged(MergeAfter([first_free |-> ff, at |-> at], a), at, D, buf, top, a, n,
                  F \cup {a}, (F \ {n}) \cup {a})
<1> DEFINE h == [first_free |-> ff, at |-> at]
           x == at[n].next
           g == Swallow(h, a, n)
           u == IF g.at[a].prev_free # NULL \/ g.at[a].next_free # NULL THEN Unlink(g, a) ELSE g
           w == Replace(u, n, a)
           s == Set(w, x, "prev", a)
           bt == [b \in DOMAIN s.at \ {n} |-> s.at[b]]
           r == MergeAfter(h, a)
           K == F \ {a}
           G == (F \ {n}) \cup {a}
<1>1. /\ NULL \notin D /\ D \in SUBSET Nat /\ a # n /\ a \in Nat /\ n \in D /\ x \in D \cup {NULL}
  <2>1. n \in D
    OBVIOUS
  <2>2. a \in Nat /\ n > a
    <3>1. n # NULL
      BY <2>1, LayoutFacts
    <3> QED BY <3>1, LayoutFacts
  <2> QED BY <2>1, <2>2, LayoutFacts
<1>2. /\ g = [first_free |-> ff, at |-> g.at] /\ g.at \in [D -> Hdr]
      /\ SameLinks(at, g.at, D)
      /\ \A b \in D :
             /\ g.at[b].alloc = at[b].alloc /\ g.at[b].prev = at[b].prev
             /\ g.at[b].size = IF b = a THEN at[a].size + HDR + at[n].size ELSE at[b].size
             /\ g.at[b].next = IF b = a THEN at[n].next ELSE at[b].next
  <2>1. Swallowed(g, D, at, ff, a, n)
    BY <1>1, SwallowFacts
  <2> HIDE DEF g
  <2> QED BY <2>1 DEF Swallowed
<1>3. r = Wipe(s, n)
  BY <1>1 DEF MergeAfter
<1> HIDE DEF g, r
<1>4. Chain(g.at, ff, F, k, L)
  <2>1. SameLinks(at, g.at, F)
    BY <1>2 DEF SameLinks
  <2> QED BY <2>1, ChainKept
<1>5. g.at[a].prev_free = at[a].prev_free /\ g.at[a].next_free = at[a].next_free
  BY <1>2 DEF SameLinks
<1>6. /\ u = [first_free |-> u.first_free, at |-> u.at]
      /\ u.at \in [D -> Hdr] /\ SameBlocks(g.at, u.at, D) /\ SameLinks(g.at, u.at, D \ F)
      /\ \E l, M : Chain(u.at, u.first_free, K, l, M)
  <2>1. CASE a \in F
    <3>1. at[a].prev_free # NULL \/ at[a].next_free # NULL
      <4>1. PICK i \in 1..k : L[i] = a
        BY <2>1 DEF Chain
      <4>2. PICK j \in 1..k : L[j] = n
        BY DEF Chain
      <4>3. k \in Nat /\ i # j
        BY <1>1, <4>1, <4>2 DEF Chain
      <4>4. at[a].next_free = (IF i = k THEN NULL ELSE L[i + 1])
            /\ at[a].prev_free = IF i = 1 THEN NULL ELSE L[i - 1]
        BY <4>1 DEF Chain
      <4>5. (i # k => i + 1 \in 1..k) /\ (i # 1 => i - 1 \in 1..k)
        BY <4>3
      <4>6. \A m \in 1..k : L[m] \in F /\ L[m] # NULL
        <5>1. \A m \in 1..k : L[m] \in F
          BY DEF Chain
        <5> QED BY <1>1, <5>1
      <4>7. i # k \/ i # 1
        BY <4>3
      <4> QED BY <4>4, <4>5, <4>6, <4>7
    <3> DEFINE q == [first_free |-> ff, at |-> g.at]
    <3>2. u = Unlink(q, a)
      BY <1>2, <1>5, <3>1
    <3> HIDE DEF u
    <3>3. Relinked(Unlink(q, a), D, g.at, F, K)
      BY <1>1, <1>2, <1>4, <2>1, UnlinkChain
    <3> HIDE DEF q
    <3> QED BY <3>2, <3>3 DEF Relinked
  <2>2. CASE a \notin F
    <3>1. u = g /\ K = F
      BY <1>5, <2>2
    <3>2. SameBlocks(g.at, g.at, D) /\ SameLinks(g.at, g.at, D \ F)
      BY DEF SameBlocks, SameLinks
    <3>3. g.first_free = ff
      BY <1>2
    <3> HIDE DEF u, K
    <3> QED BY <1>2, <1>4, <3>1, <3>2, <3>3
  <2> QED BY <2>1, <2>2
<1> HIDE DEF u
<1>7. PICK l, M : Chain(u.at, u.first_free, K, l, M)
  BY <1>6
<1>8. Relinked(w, D, u.at, K \cup {a}, (K \ {n}) \cup {a})
  <2>1. K \in SUBSET D /\ n \in K /\ a \in D \ K
    BY <1>1
  <2> DEFINE q == [first_free |-> u.first_free, at |-> u.at]
  <2>2. w = Replace(q, n, a)
    BY <1>6
  <2> HIDE DEF K, w
  <2>3. Relinked(Replace(q, n, a), D, u.at, K \cup {a}, (K \ {n}) \cup {a})
    BY <1>1, <1>6, <1>7, <2>1, ReplaceChain
  <2> QED BY <2>2, <2>3
<1>9. (K \ {n}) \cup {a} = G /\ K \cup {a} = F \cup {a}
  BY <1>1
<1> HIDE DEF w, G
<1>10. /\ w = [first_free |-> w.first_free, at |-> w.at] /\ w.at \in [D -> Hdr]
       /\ SameBlocks(u.at, w.at, D) /\ SameLinks(u.at, w.at, D \ (F \cup {a}))
       /\ \E m, N : Chain(w.at, w.first_free, G, m, N)
  BY <1>8, <1>9 DEF Relinked
<1>11. /\ s = [first_free |-> w.first_free, at |-> s.at] /\ s.at \in [D -> Hdr]
       /\ SameLinks(w.at, s.at, D)
       /\ \A b \in D : /\ s.at[b].prev = IF b = x THEN a ELSE w.at[b].prev
                       /\ s.at[b].next = w.at[b].next /\ s.at[b].size = w.at[b].size
                       /\ s.at[b].alloc = w.at[b].alloc
  <2> DEFINE q == [first_free |-> w.first_free, at |-> w.at]
  <2> HIDE DEF x
  <2>1. PrevSet(Set(q, x, "prev", a), D, w.at, w.first_free, x, a)
    BY <1>1, <1>10, SetPrev
  <2>2. PrevSet(s, D, w.at, w.first_free, x, a)
    BY <1>10, <2>1
  <2> HIDE DEF s
  <2> QED BY <2>2 DEF PrevSet
<1> HIDE DEF s
<1>12. r.at = bt /\ r.first_free = w.first_free /\ r = [first_free |-> r.first_free, at |-> r.at]
  BY <1>3, <1>11 DEF Wipe
<1>13. bt \in [D \ {n} -> Hdr] /\ \A b \in D \ {n} : bt[b] = s.at[b]
  BY <1>11
<1> HIDE DEF bt
<1>14. \A b \in D \ {n} :
          /\ bt[b].alloc = at[b].alloc
          /\ bt[b].size = IF b = a THEN at[a].size + HDR + at[n].size ELSE at[b].size
          /\ bt[b].next = IF b = a THEN at[n].next ELSE at[b].next
          /\ bt[b].prev = IF b = at[n].next THEN a ELSE at[b].prev
  BY <1>2, <1>6, <1>10, <1>11, <1>13 DEF SameBlocks
<1>15. Layout(bt, D \ {n}, buf, top)
  <2>1. Extended(at, bt, D, a, n)
    BY <1>14 DEF Extended
  <2> QED BY <1>1, <1>13, <2>1, MergeLayout
<1>16. SameLinks(at, bt, D \ ((F \cup {a}) \cup {n}))
  BY <1>2, <1>6, <1>10, <1>11, <1>13 DEF SameLinks
<1>17. \E m, N : Chain(bt, w.first_free, G, m, N)
  <2>1. PICK m, N : Chain(w.at, w.first_free, G, m, N)
    BY <1>10
  <2>2. G \subseteq D \ {n}
    BY <1>1 DEF G
  <2>3. SameLinks(w.at, bt, G)
    BY <1>11, <1>13, <2>2 DEF SameLinks
  <2> QED BY <2>1, <2>3, ChainKept
<1> HIDE DEF x
<1> QED BY <1>12, <1>13, <1>14, <1>15, <1>16, <1>17 DEF Merged, r, G

\* The heap h is sound after the block a of the heap of D was given back.
Returned(h, D, buf, top, a) ==
    /\ h.at = [b \in DOMAIN h.at |-> h.at[b]]
    /\ Sound(h.at, h.first_free, DOMAIN h.at, buf, top)
    /\ Used(h.at, DOMAIN h.at) = Used(hdr, D) \ {a}
    /\ \A b \in Used(hdr, D) \ {a} : h.at[b].size = hdr[b].size

\* What is common to the four ways of giving a block back.
LEMMA ReturnedIf ==
    ASSUME NEW h, NEW D, NEW buf, NEW top, Sound(hdr, heap.first_free, D, buf, top),
           NEW a \in Used(hdr, D), NEW E \in SUBSET D, NEW G \in SUBSET E,
           h.at \in [E -> Hdr], Layout(h.at, E, buf, top),
           \E k, L : Chain(h.at, h.first_free, G, k, L),
           E \ G = Used(hdr, D) \ {a},
           \A b \in E : h.at[b].alloc = IF b = a THEN 0 ELSE hdr[b].alloc,
           \A b \in E \ G : /\ h.at[b].size = hdr[b].size
                            /\ h.at[b].prev_free = hdr[b].prev_free
                            /\ h.at[b].next_free = hdr[b].next_free,
           \A b \in G : h.at[b].next \notin G
    PROVE  Returned(h, D, buf, top, a)
<1>1. DOMAIN h.at = E
  OBVIOUS
<1>2. \A b \in D : b \in Used(hdr, D) <=> hdr[b].alloc # 0
  BY DEF Used, FreeIn
<1>3. FreeIn(h.at, E) = G
  BY <1>2 DEF FreeIn
<1>4. Used(h.at, E) = Used(hdr, D) \ {a}
  BY <1>3 DEF Used
<1>5. \A b \in E : h.at[b].alloc \in 0..1
  BY DEF Sound
<1>6. \A b \in E \ G : h.at[b].prev_free = NULL /\ h.at[b].next_free = NULL
  <2> SUFFICES ASSUME NEW b \in E \ G
               PROVE  h.at[b].prev_free = NULL /\ h.at[b].next_free = NULL
    OBVIOUS
  <2>1. b \in D \ FreeIn(hdr, D)
    BY DEF Used
  <2> QED BY <2>1 DEF Sound
<1>7. Sound(h.at, h.first_free, E, buf, top)
  BY <1>3, <1>5, <1>6 DEF Sound
<1>8. h.at = [b \in E |-> h.at[b]]
  OBVIOUS
<1> QED BY <1>1, <1>4, <1>7, <1>8 DEF Returned

\* In each of its cases free leaves a sound heap without the block among those in use.
LEMMA ReleaseReturns ==
    ASSUME NEW D, D = DOMAIN hdr, NEW buf, NEW top,
           Sound(hdr, heap.first_free, D, buf, top), NEW a \in Used(hdr, D)
    PROVE  LET h == [first_free |-> heap.first_free, at |-> [hdr EXCEPT ![a].alloc = 0]]
               before == IsFree(h, hdr[a].prev)
               b == IF before THEN MergeBefore(h, a) ELSE h
               at == IF before THEN hdr[a].prev ELSE a
               after == IsFree(b, b.at[at].next)
           IN  /\ before \/ after =>
                     Returned(IF after THEN MergeAfter(b, at) ELSE b, D, buf, top, a)
               /\ ~before /\ ~after /\ heap.first_free # NULL =>
                     Returned([first_free |-> a,
                               at |-> [h.at EXCEPT ![a].next_free = heap.first_free,
                                                   ![heap.first_free].prev_free = a]],
                              D, buf, top, a)
<1> DEFINE F == FreeIn(hdr, D)
           U == Used(hdr, D)
           ff == heap.first_free
           p == hdr[a].prev
           n == hdr[a].next
           at1 == [hdr EXCEPT ![a].alloc = 0]
           h == [first_free |-> ff, at |-> at1]
           before == IsFree(h, p)
           b == IF before THEN MergeBefore(h, a) ELSE h
           at == IF before THEN p ELSE a
           after == IsFree(b, b.at[at].next)
           push == [first_free |-> a, at |-> [at1 EXCEPT ![a].next_free = ff, ![ff].prev_free = a]]
<1>1. /\ Layout(hdr, D, buf, top) /\ F \in SUBSET D /\ U = D \ F /\ hdr \in [D -> Hdr]
      /\ a \in D /\ a \notin F
  BY DEF Sound, FreeIn, Layout, Used
<1>2. /\ NULL \notin D /\ D \in SUBSET Nat /\ p \in D \cup {NULL} /\ n \in D \cup {NULL}
      /\ (n # NULL => n > a) /\ (p # NULL => p < a) /\ a \in Nat
  BY <1>1, LayoutFacts
<1>3. /\ at1 \in [D -> Hdr]
      /\ \A c \in D : /\ at1[c].size = hdr[c].size /\ at1[c].prev = hdr[c].prev
                      /\ at1[c].next = hdr[c].next
                      /\ at1[c].alloc = IF c = a THEN 0 ELSE hdr[c].alloc
      /\ SameLinks(hdr, at1, D)
  BY <1>1 DEF Hdr, SameLinks
<1> HIDE DEF at1, p, n
<1>4. Layout(at1, D, buf, top)
  BY <1>1, <1>3, LayoutKept
<1>5. PICK k, L : Chain(at1, ff, F, k, L)
  <2>1. PICK k, L : Chain(hdr, ff, F, k, L)
    BY DEF Sound
  <2>2. SameLinks(hdr, at1, F)
    BY <1>1, <1>3 DEF SameLinks
  <2> QED BY <2>1, <2>2, ChainKept
<1>6. \A c \in F : hdr[c].next \notin F
  BY DEF Sound
<1>7. at1[a].prev_free = NULL /\ at1[a].next_free = NULL
  BY <1>1, <1>3 DEF Sound, SameLinks
<1>8. at1[a].next = n /\ at1[a].prev = p
  BY <1>1, <1>3 DEF n, p
<1>9. \A c \in D : c \in F <=> hdr[c].alloc = 0
  BY DEF FreeIn
<1> HIDE DEF F, U
<1>10. before <=> p \in F
  <2>1. h.at = at1
    OBVIOUS
  <2>2. before <=> p # NULL /\ at1[p].alloc = 0
    BY <2>1 DEF IsFree
  <2> HIDE DEF before
  <2>3. p # NULL => p \in D /\ p # a
    BY <1>2
  <2> QED BY <1>1, <1>2, <1>3, <1>9, <2>2, <2>3
<1> HIDE DEF before
<1>11. \A c \in F : p \notin F => hdr[c].next # a
  <2> SUFFICES ASSUME NEW c \in F, hdr[c].next = a
               PROVE  p \in F
    OBVIOUS
  <2>1. c \in D /\ hdr[c].next # NULL
    BY <1>1, <1>2
  <2>2. hdr[a].prev = c
    BY <1>1, <2>1 DEF Layout
  <2> QED BY <2>2 DEF p
<1> DEFINE E1 == D \ {a}
<1>12. CASE before
  <2>1. p \in F /\ p \in D /\ p # a /\ b = MergeBefore(h, a) /\ at = p
    BY <1>1, <1>2, <1>10, <1>12
  <2> HIDE DEF b, at
  <2>2. Merged(b, at1, D, buf, top, p, a, {}, F)
    BY <1>1, <1>4, <1>5, <1>8, <2>1, MergeBeforeMerges
  <2>3. /\ b = [first_free |-> b.first_free, at |-> b.at] /\ b.at \in [E1 -> Hdr]
        /\ Layout(b.at, E1, buf, top) /\ SameLinks(hdr, b.at, E1)
        /\ \A c \in E1 : /\ b.at[c].alloc = hdr[c].alloc
                         /\ (c # p => b.at[c].size = hdr[c].size)
                         /\ b.at[c].next = IF c = p THEN n ELSE hdr[c].next
        /\ \E l, M : Chain(b.at, b.first_free, F, l, M)
    BY <1>1, <1>3, <1>8, <2>2 DEF Merged, SameLinks
  <2>4. b.at[p].next = n /\ p \in E1
    BY <2>1, <2>3
  <2>5. after <=> n \in F
    <3>1. after <=> n # NULL /\ b.at[n].alloc = 0
      BY <2>1, <2>4 DEF IsFree
    <3>2. n # NULL => n \in E1
      BY <1>2
    <3> HIDE DEF after
    <3> QED BY <1>1, <1>2, <1>9, <2>3, <3>1, <3>2
  <2> HIDE DEF after
  <2>6. CASE ~after
    <3>1. E1 \ F = U \ {a} /\ F \in SUBSET E1 /\ E1 \in SUBSET D
      BY <1>1
    <3>2. \A c \in E1 \ F : /\ b.at[c].size = hdr[c].size
                            /\ b.at[c].prev_free = hdr[c].prev_free
                            /\ b.at[c].next_free = hdr[c].next_free
      BY <2>1, <2>3 DEF SameLinks
    <3>3. \A c \in E1 : b.at[c].alloc = IF c = a THEN 0 ELSE hdr[c].alloc
      BY <2>3
    <3>4. \A c \in F : b.at[c].next \notin F
      BY <1>6, <2>3, <2>5, <2>6, <3>1
    <3> HIDE DEF E1
    <3>5. Returned(b, D, buf, top, a)
      BY <2>3, <3>1, <3>2, <3>3, <3>4, ReturnedIf DEF U
    <3> QED BY <1>12, <2>6, <3>5 DEF before, b, at, after, p, at1
  <2>7. CASE after
    <3> DEFINE r == MergeAfter(b, p)
               E == E1 \ {n}
               G == F \ {n}
               q == [first_free |-> b.first_free, at |-> b.at]
    <3>1. n \in F /\ n \in D /\ n # a /\ n # p /\ n \in E1 /\ F \in SUBSET E1
      BY <1>1, <1>2, <2>1, <2>5, <2>7
    <3>2. Merged(MergeAfter(q, p), b.at, E1, buf, top, p, n, F \cup {p}, (F \ {n}) \cup {p})
      <4> HIDE DEF E1
      <4> QED BY <2>1, <2>3, <2>4, <3>1, MergeAfterMerges
    <3>3. (F \ {n}) \cup {p} = G /\ F \cup {p} = F /\ r = MergeAfter(q, p)
      BY <2>1, <2>3, <3>1
    <3> HIDE DEF r, G
    <3>4. Merged(r, b.at, E1, buf, top, p, n, F, G)
      BY <3>2, <3>3
    <3>5. /\ r.at \in [E -> Hdr] /\ Layout(r.at, E, buf, top)
          /\ SameLinks(b.at, r.at, E1 \ (F \cup {n}))
          /\ \A c \in E : /\ r.at[c].alloc = b.at[c].alloc
                          /\ (c # p => r.at[c].size = b.at[c].size)
                          /\ r.at[c].next = IF c = p THEN b.at[n].next ELSE b.at[c].next
          /\ \E l, M : Chain(r.at, r.first_free, G, l, M)
      BY <3>4 DEF Merged
    <3>6. E \ G = U \ {a} /\ G \in SUBSET E /\ E \in SUBSET D
      BY <1>1, <3>1 DEF G
    <3>7. \A c \in E \ G : /\ r.at[c].size = hdr[c].size
                           /\ r.at[c].prev_free = hdr[c].prev_free
                           /\ r.at[c].next_free = hdr[c].next_free
      <4>1. \A c \in E \ G : c \in E1 \ (F \cup {n}) /\ c # p /\ c \in E1
        BY <2>1 DEF G
      <4> QED BY <2>3, <3>5, <4>1 DEF SameLinks
    <3>8. \A c \in E : r.at[c].alloc = IF c = a THEN 0 ELSE hdr[c].alloc
      BY <2>3, <3>5
    <3>9. \A c \in G : r.at[c].next \notin G
      <4> SUFFICES ASSUME NEW c \in G
                   PROVE  r.at[c].next \notin G
        OBVIOUS
      <4>1. c \in F /\ c \in E /\ c \in E1
        BY <3>6 DEF G
      <4>2. b.at[n].next = hdr[n].next
        BY <2>3, <3>1
      <4>3. CASE c = p
        BY <1>6, <3>1, <3>5, <4>1, <4>2, <4>3 DEF G
      <4>4. CASE c # p
        BY <1>6, <2>3, <3>5, <4>1, <4>4 DEF G
      <4> QED BY <4>3, <4>4
    <3> HIDE DEF E
    <3>10. Returned(r, D, buf, top, a)
      BY <3>5, <3>6, <3>7, <3>8, <3>9, ReturnedIf DEF U
    <3>11. (IF after THEN MergeAfter(b, at) ELSE b) = r
      BY <2>1, <2>7 DEF r
    <3> QED BY <1>12, <2>7, <3>10, <3>11 DEF before, b, at, after, p, at1
  <2> QED BY <2>6, <2>7
<1>13. CASE ~before
  <2>1. p \notin F /\ b = h /\ at = a
    BY <1>10, <1>13
  <2>2. b.at = at1 /\ b.first_free = ff
    BY <2>1
  <2> HIDE DEF b, at
  <2>3. after <=> n \in F
    <3>1. after <=> n # NULL /\ at1[n].alloc = 0
      BY <1>8, <2>1, <2>2 DEF IsFree
    <3>2. n # NULL => n \in D /\ n # a
      BY <1>2
    <3> HIDE DEF after
    <3> QED BY <1>1, <1>2, <1>3, <1>9, <3>1, <3>2
  <2> HIDE DEF after
  <2>4. CASE after
    <3> DEFINE r == MergeAfter(h, a)
               E == D \ {n}
               G == (F \ {n}) \cup {a}
    <3>1. n \in F /\ n \in D /\ n # a /\ n > a
      BY <1>1, <1>2, <2>3, <2>4
    <3> HIDE DEF G
    <3>2. Merged(r, at1, D, buf, top, a, n, F \cup {a}, G)
      BY <1>1, <1>4, <1>5, <1>7, <1>8, <3>1, MergeAfterMerges DEF G
    <3> HIDE DEF r
    <3>3. /\ r.at \in [E -> Hdr] /\ Layout(r.at, E, buf, top)
          /\ SameLinks(at1, r.at, D \ ((F \cup {a}) \cup {n}))
          /\ \A c \in E : /\ r.at[c].alloc = at1[c].alloc
                          /\ (c # a => r.at[c].size = at1[c].size)
                          /\ r.at[c].next = IF c = a THEN at1[n].next ELSE at1[c].next
          /\ \E l, M : Chain(r.at, r.first_free, G, l, M)
      BY <3>2 DEF Merged
    <3>4. E \ G = U \ {a} /\ G \in SUBSET E /\ E \in SUBSET D
      BY <1>1, <3>1 DEF G
    <3>5. \A c \in E \ G : /\ r.at[c].size = hdr[c].size
                           /\ r.at[c].prev_free = hdr[c].prev_free
                           /\ r.at[c].next_free = hdr[c].next_free
      <4>1. \A c \in E \ G : c \in D \ ((F \cup {a}) \cup {n}) /\ c # a /\ c \in D /\ c \in E
        BY DEF G
      <4> QED BY <1>3, <3>3, <4>1 DEF SameLinks
    <3>6. \A c \in E : r.at[c].alloc = IF c = a THEN 0 ELSE hdr[c].alloc
      BY <1>3, <3>3
    <3>7. \A c \in G : r.at[c].next \notin G
      <4> SUFFICES ASSUME NEW c \in G
                   PROVE  r.at[c].next \notin G
        OBVIOUS
      <4>1. c \in E /\ c \in D
        BY <3>4
      <4>2. CASE c = a
        <5>1. r.at[c].next = hdr[n].next /\ hdr[n].next \notin F
          BY <1>3, <1>6, <3>1, <3>3, <4>1, <4>2
        <5>2. hdr[n].next # a
          <6>1. hdr[n].next # NULL => hdr[n].next > n
            BY <1>1, <3>1, LayoutFacts
          <6> QED BY <1>1, <1>2, <3>1, <6>1
        <5> QED BY <5>1, <5>2 DEF G
      <4>3. CASE c # a
        <5>1. c \in F
          BY <4>3 DEF G
        <5>2. r.at[c].next = hdr[c].next
          BY <1>3, <3>3, <4>1, <4>3
        <5> QED BY <1>6, <1>11, <2>1, <5>1, <5>2 DEF G
      <4> QED BY <4>2, <4>3
    <3> HIDE DEF E
    <3>8. Returned(r, D, buf, top, a)
      BY <3>3, <3>4, <3>5, <3>6, <3>7, ReturnedIf DEF U
    <3>9. (IF after THEN MergeAfter(b, at) ELSE b) = r
      BY <2>1, <2>4 DEF r
    <3> QED BY <1>13, <2>4, <3>8, <3>9 DEF before, b, at, after, p, at1
  <2>5. CASE ~after /\ ff # NULL
    <3> DEFINE G == F \cup {a}
               bt == push.at
    <3>1. ff \in F /\ ff \in D /\ ff # a
      <4>1. ff = IF k = 0 THEN NULL ELSE L[1]
        BY <1>5 DEF Chain
      <4>2. k \in Nat /\ L \in [1..k -> F]
        BY <1>5 DEF Chain
      <4>3. ff \in F
        BY <2>5, <4>1, <4>2
      <4> QED BY <1>1, <4>3
    <3> HIDE DEF ff
    <3>2. /\ bt \in [D -> Hdr]
          /\ \A c \in D : /\ bt[c].size = at1[c].size /\ bt[c].alloc = at1[c].alloc
                          /\ bt[c].prev = at1[c].prev /\ bt[c].next = at1[c].next
                          /\ bt[c].next_free = IF c = a THEN ff ELSE at1[c].next_free
                          /\ bt[c].prev_free = IF c = ff THEN a ELSE at1[c].prev_free
      <4>1. bt = [at1 EXCEPT ![a].next_free = ff, ![ff].prev_free = a]
        OBVIOUS
      <4>2. ff \in Nat
        BY <1>2, <3>1
      <4> HIDE DEF bt
      <4> QED BY <1>1, <1>2, <1>3, <3>1, <4>1, <4>2 DEF Hdr
    <3>3. push.at = bt /\ push.first_free = a
      OBVIOUS
    <3> HIDE DEF bt, push
    <3>4. Layout(bt, D, buf, top)
      BY <1>4, <3>2, LayoutKept
    <3>5. \E M : Chain(bt, a, F \cup {a}, k + 1, M)
      <4>1. a \in D \ F
        BY <1>1
      <4>2. PushedLinks(at1, bt, D, ff, a)
        BY <3>2 DEF PushedLinks
      <4>3. bt \in [D -> Hdr] /\ at1 \in [D -> Hdr] /\ F \in SUBSET D /\ ff # NULL
            /\ D \in SUBSET Nat /\ NULL \notin D /\ at1[a].prev_free = NULL
        BY <1>1, <1>2, <1>3, <1>7, <2>5, <3>2
      <4> HIDE DEF h, G
      <4> QED BY <1>5, <4>1, <4>2, <4>3, PushChain
    <3>6. D \ G = U \ {a} /\ G \in SUBSET D
      BY <1>1
    <3>7. \A c \in D \ G : /\ bt[c].size = hdr[c].size
                           /\ bt[c].prev_free = hdr[c].prev_free
                           /\ bt[c].next_free = hdr[c].next_free
      BY <1>3, <3>1, <3>2 DEF SameLinks
    <3>8. \A c \in D : bt[c].alloc = IF c = a THEN 0 ELSE hdr[c].alloc
      BY <1>3, <3>2
    <3>9. \A c \in G : bt[c].next \notin G
      <4> SUFFICES ASSUME NEW c \in G
                   PROVE  bt[c].next \notin G
        OBVIOUS
      <4>1. c \in D /\ bt[c].next = hdr[c].next
        BY <1>3, <3>2, <3>6
      <4>2. CASE c = a
        <5>1. bt[c].next = n /\ n # a
          BY <1>2, <1>8, <3>2, <4>1, <4>2
        <5> QED BY <2>3, <2>5, <5>1
      <4>3. CASE c # a
        BY <1>6, <1>11, <2>1, <4>1, <4>3
      <4> QED BY <4>2, <4>3
    <3> HIDE DEF G
    <3>10. \E l, M : Chain(push.at, push.first_free, G, l, M)
      BY <3>3, <3>5 DEF G
    <3>11. D \in SUBSET D
      OBVIOUS
    <3>12. Returned(push, D, buf, top, a)
      <4>1. /\ push.at \in [D -> Hdr] /\ Layout(push.at, D, buf, top)
            /\ \A c \in D : push.at[c].alloc = IF c = a THEN 0 ELSE hdr[c].alloc
            /\ \A c \in G : push.at[c].next \notin G
            /\ \A c \in D \ G : /\ push.at[c].size = hdr[c].size
                                /\ push.at[c].prev_free = hdr[c].prev_free
                                /\ push.at[c].next_free = hdr[c].next_free
        BY <3>2, <3>3, <3>4, <3>7, <3>8, <3>9
      <4> QED BY <3>6, <3>10, <3>11, <4>1, ReturnedIf DEF U
    <3> QED BY <1>13, <2>5, <3>12 DEF before, b, at, after, p, at1, push, ff
  <2>6. CASE ~after /\ ff = NULL
    BY <1>13, <2>6 DEF before, b, at, after, p, at1
  <2> QED BY <2>4, <2>5, <2>6
<1> QED BY <1>12, <1>13

-----------------------------------------------------------------------------
(* The inductive invariant.                                                 *)

\* Callers hold the blocks in use and nothing else, each as long as asked for.
Held ==
    /\ given \in [DOMAIN given -> Requests]
    /\ DOMAIN given = {a + HDR : a \in Used(hdr, Blocks)}
    /\ \A a \in Used(hdr, Blocks) :
           given[a + HDR] <= SizeMax + 1 - ALIGN => hdr[a].size >= given[a + HDR]

\* The inductive invariant.  HeapSound by itself speaks of the list through the
\* recursive Listed; the steps need the list L that Chain names.
PoolInv ==
    /\ heap \in [buf : Nat, len : Nat, first : Nat, first_free : Nat]
    /\ heap.first = heap.buf /\ heap.len = BufLen
    /\ Sound(hdr, heap.first_free, Blocks, heap.buf, Top)
    /\ Held
    /\ status \in {"running", "exited", "crashed"}

\* The heap that memory_buffer_alloc_init makes is sound: one free block.
LEMMA InitInv == Init => PoolInv
<1> SUFFICES ASSUME Init
             PROVE  PoolInv
  OBVIOUS
<1>1. PICK start \in BufStarts :
        LET buf == Aligned(start)
        IN  /\ heap = [buf |-> buf, len |-> BufLen, first |-> buf, first_free |-> buf]
            /\ hdr = [b \in {buf} |->
                        [size |-> BufLen - HDR, alloc |-> 0, prev |-> NULL, next |-> NULL,
                         prev_free |-> NULL, next_free |-> NULL]]
            /\ given = <<>>
            /\ status = "running"
  BY DEF Init
<1> DEFINE buf == Aligned(start)
           b0 == [size |-> BufLen - HDR, alloc |-> 0, prev |-> NULL, next |-> NULL,
                  prev_free |-> NULL, next_free |-> NULL]
<1>2. buf \in Nat \ {0} /\ buf % ALIGN = 0
  <2>1. start \in Nat \ {0} /\ ALIGN \in Nat \ {0}
    BY PoolAssumption
  <2>2. Aligned(start) \in start..(start + ALIGN - 1) /\ Aligned(start) % ALIGN = 0
    BY <2>1, AlignedUp
  <2> QED BY <2>1, <2>2
<1> HIDE DEF buf
<1>3. /\ BufLen \in Nat /\ HDR \in Nat /\ BufLen - HDR \in Nat /\ BufLen - HDR > 0
      /\ NULL \in Nat /\ buf # NULL
  BY <1>2, PoolAssumption DEF NULL
<1>4. /\ heap = [buf |-> buf, len |-> BufLen, first |-> buf, first_free |-> buf]
      /\ hdr = [b \in {buf} |-> b0] /\ given = <<>> /\ status = "running"
  BY <1>1 DEF buf
<1>5. /\ b0 \in Hdr /\ b0.size = BufLen - HDR /\ b0.alloc = 0 /\ b0.prev = NULL /\ b0.next = NULL
      /\ b0.prev_free = NULL /\ b0.next_free = NULL
  BY <1>3 DEF Hdr
<1> HIDE DEF b0
<1>6. Blocks = {buf} /\ hdr[buf] = b0 /\ hdr \in [Blocks -> Hdr] /\ heap.first_free = buf
      /\ heap.first = buf /\ heap.buf = buf /\ heap.len = BufLen /\ Top = buf + BufLen
  BY <1>4, <1>5 DEF Blocks, Top
<1>7. End(hdr, buf) = Top /\ Top \in Nat /\ buf \in buf..Top
  BY <1>2, <1>3, <1>5, <1>6 DEF End
<1>8. Layout(hdr, Blocks, buf, Top)
  BY <1>2, <1>3, <1>5, <1>6, <1>7 DEF Layout
<1>9. FreeIn(hdr, Blocks) = {buf}
  BY <1>5, <1>6 DEF FreeIn
<1>10. Chain(hdr, buf, {buf}, 1, [i \in 1..1 |-> buf])
  BY <1>5, <1>6 DEF Chain
<1>11. NULL \notin {buf}
  BY <1>3
<1>12. Sound(hdr, heap.first_free, Blocks, heap.buf, Top)
  BY <1>5, <1>6, <1>8, <1>9, <1>10, <1>11 DEF Sound
<1>13. Used(hdr, Blocks) = {}
  BY <1>6, <1>9 DEF Used
<1>14. Held
  BY <1>4, <1>13 DEF Held
<1> QED BY <1>2, <1>3, <1>4, <1>6, <1>12, <1>14 DEF PoolInv

\* The invariant is stronger than the soundness that the runs check.
LEMMA InvSound == PoolInv => HeapSound
<1> SUFFICES ASSUME PoolInv
             PROVE  HeapSound
  OBVIOUS
<1> DEFINE D == Blocks
           F == FreeBlocks
           ff == heap.first_free
<1>1. /\ Sound(hdr, ff, D, heap.buf, Top) /\ Layout(hdr, D, heap.buf, Top)
      /\ F = FreeIn(hdr, D) /\ F \subseteq D /\ D = DOMAIN hdr
      /\ heap.first = heap.buf /\ heap.len = BufLen /\ heap.buf \in D
  BY DEF PoolInv, Sound, Layout, FreeBlocks, FreeIn, Blocks
<1>2. /\ NULL \notin D /\ D \in SUBSET Nat /\ HDR \in Nat /\ BufLen \in Nat
  BY <1>1, LayoutFacts, PoolAssumption
<1>3. PICK k, L : Chain(hdr, ff, F, k, L)
  BY <1>1 DEF Sound
<1> HIDE DEF D, F
<1>4. /\ k \in Nat /\ (\A i \in 1..k : L[i] \in F /\ L[i] # NULL)
      /\ ff = IF k = 0 THEN NULL ELSE L[1]
  <2>1. L \in [1..k -> F]
    BY <1>3 DEF Chain
  <2>2. \A i \in 1..k : L[i] \in F
    BY <2>1
  <2>3. \A i \in 1..k : L[i] # NULL
    BY <1>1, <1>2, <2>2
  <2> QED BY <1>3, <2>2, <2>3 DEF Chain
<1>5. ff \in F \cup {NULL}
  BY <1>4
<1>6. ASSUME NEW a \in F
      PROVE  /\ hdr[a].prev_free \in F \cup {NULL} /\ hdr[a].next_free \in F \cup {NULL}
             /\ hdr[a].prev_free = NULL <=> a = ff
             /\ hdr[a].next_free # NULL => hdr[hdr[a].next_free].prev_free = a
  <2>1. PICK i \in 1..k : L[i] = a
    BY <1>3 DEF Chain
  <2>2. (i # k => i + 1 \in 1..k) /\ (i # 1 => i - 1 \in 1..k) /\ 1 \in 1..k /\ k # 0
    BY <1>4
  <2>3. /\ hdr[a].next_free = IF i = k THEN NULL ELSE L[i + 1]
        /\ hdr[a].prev_free = IF i = 1 THEN NULL ELSE L[i - 1]
    BY <1>3, <2>1 DEF Chain
  <2>4. a = ff <=> i = 1
    BY <1>3, <1>4, <2>1, <2>2 DEF Chain
  <2>5. i # k => hdr[L[i + 1]].prev_free = a
    <3> SUFFICES ASSUME i # k
                 PROVE  hdr[L[i + 1]].prev_free = a
      OBVIOUS
    <3>1. i + 1 \in 1..k /\ i + 1 # 1 /\ (i + 1) - 1 = i
      BY <1>4, <2>2
    <3>2. \A j \in 1..k : hdr[L[j]].prev_free = IF j = 1 THEN NULL ELSE L[j - 1]
      BY <1>3 DEF Chain
    <3> QED BY <2>1, <3>1, <3>2
  <2> QED BY <1>4, <2>2, <2>3, <2>4, <2>5
<1>7. \A a \in D : Ends(a) = End(hdr, a)
  BY DEF Ends, End
<1>8. Tiled
  BY <1>1, <1>7 DEF Tiled, Layout, D
<1>9. FreeListExact
  <2>1. {Listed[i] : i \in DOMAIN Listed} \ {NULL} = FreeBlocks
    BY <1>1, AllListed DEF D
  <2>2. \A a \in F : hdr[a].next \notin F
    BY <1>1 DEF Sound
  <2> QED BY <1>6, <2>1, <2>2 DEF FreeListExact, F
<1>10. hdr \in [D -> Header]
  <2>1. hdr \in [D -> Hdr]
    BY <1>1 DEF Layout
  <2> SUFFICES ASSUME NEW a \in D
               PROVE  hdr[a] \in Header
    BY <2>1
  <2>2. hdr[a] \in Hdr /\ hdr[a].size \in Nat /\ a \in Nat
    BY <1>2, <2>1, HeaderTypes
  <2>3. hdr[a].size \in 0..BufLen
    <3>1. heap.buf <= a /\ End(hdr, a) <= Top /\ heap.buf \in Nat
      BY <1>1 DEF Layout
    <3>2. End(hdr, a) = a + HDR + hdr[a].size /\ Top = heap.buf + BufLen
      BY <1>1 DEF End, Top
    <3> QED BY <1>2, <2>2, <3>1, <3>2
  <2>4. hdr[a].alloc \in 0..1
    BY <1>1 DEF Sound
  <2>5. hdr[a].prev \in D \cup {NULL} /\ hdr[a].next \in D \cup {NULL}
    BY <1>1, LayoutFacts
  <2>6. hdr[a].prev_free \in F \cup {NULL} /\ hdr[a].next_free \in F \cup {NULL}
    <3>1. CASE a \in F
      BY <1>6, <3>1
    <3>2. CASE a \notin F
      BY <1>1, <3>2 DEF Sound
    <3> QED BY <3>1, <3>2
  <2> QED BY <2>2, <2>3, <2>4, <2>5, <2>6 DEF Header, Hdr, D, F
<1>11. TypeOK
  <2>1. \A a \in D : a % ALIGN = 0 /\ a \in heap.buf..Top
    BY <1>1 DEF Layout
  <2> QED BY <1>1, <1>5, <1>10, <2>1 DEF TypeOK, D, F, PoolInv, Held
<1> QED BY <1>8, <1>9, <1>11 DEF HeapSound

\* The invariant says that memory in use is in the hands of a caller.
LEMMA InvLost == PoolInv => NothingLost
<1> SUFFICES ASSUME PoolInv
             PROVE  /\ Blocks \ FreeBlocks = {p - HDR : p \in DOMAIN given}
                    /\ given = <<>> => Blocks = {heap.buf} /\ Ends(heap.buf) = Top
  BY DEF NothingLost
<1> DEFINE D == Blocks
           F == FreeBlocks
           buf == heap.buf
<1>1. /\ Sound(hdr, heap.first_free, D, buf, Top) /\ Layout(hdr, D, buf, Top)
      /\ F = FreeIn(hdr, D) /\ F \subseteq D /\ buf \in D /\ Used(hdr, D) = D \ F
  BY DEF PoolInv, Sound, Layout, FreeBlocks, FreeIn, Blocks, Used
<1>2. /\ NULL \notin D /\ D \in SUBSET Nat /\ HDR \in Nat
  BY <1>1, LayoutFacts, PoolAssumption
<1>3. DOMAIN given = {a + HDR : a \in D \ F}
  BY <1>1 DEF PoolInv, Held
<1> HIDE DEF D, F
<1>4. D \ F = {p - HDR : p \in DOMAIN given}
  <2>1. \A a \in D \ F : (a + HDR) - HDR = a
    BY <1>2
  <2> QED BY <1>3, <2>1
<1>5. ASSUME given = <<>>
      PROVE  D = {buf} /\ Ends(buf) = Top
  <2>1. D = F
    <3>1. DOMAIN given = {}
      BY <1>5
    <3> QED BY <1>1, <1>3, <3>1
  <2>2. hdr[buf].next = NULL
    <3>1. hdr[buf].next \notin F
      BY <1>1, <2>1 DEF Sound
    <3>2. hdr[buf].next \in D \cup {NULL}
      BY <1>1, LayoutFacts
    <3> QED BY <2>1, <3>1, <3>2
  <2>3. End(hdr, buf) = Top
    <3>1. End(hdr, buf) # NULL
      BY <1>1, LayoutFacts DEF NULL
    <3>2. hdr[buf].next = IF End(hdr, buf) = Top THEN NULL ELSE End(hdr, buf)
      BY <1>1 DEF Layout
    <3> QED BY <2>2, <3>1, <3>2
  <2>4. ASSUME NEW b \in D, b # buf
        PROVE  FALSE
    <3>1. b \in buf..Top /\ buf \in Nat /\ Top \in Nat
      BY <1>1 DEF Layout
    <3>2. buf < b
      BY <2>4, <3>1
    <3>3. Top <= b
      BY <1>1, <2>3, <3>2 DEF Layout
    <3>4. End(hdr, b) <= Top
      BY <1>1 DEF Layout
    <3>5. End(hdr, b) > b /\ End(hdr, b) \in Nat
      BY <1>1, LayoutFacts
    <3> QED BY <3>1, <3>3, <3>4, <3>5
  <2> QED BY <1>1, <2>3, <2>4 DEF Ends, End
<1> QED BY <1>4, <1>5 DEF D, F

-----------------------------------------------------------------------------
(* What the calls of malloc and free do to a sound heap.                    *)

\* The head of the list is NULL if nothing is free.
LEMMA FirstFree ==
    ASSUME NEW at, NEW ff, NEW D, NEW buf, NEW top, Sound(at, ff, D, buf, top)
    PROVE  ff \in Nat /\ (ff = NULL => FreeIn(at, D) = {})
<1>1. PICK k, L : Chain(at, ff, FreeIn(at, D), k, L)
  BY DEF Sound
<1>2. D \in SUBSET Nat /\ NULL \notin D
  <2>1. Layout(at, D, buf, top) /\ buf \in D
    BY DEF Sound, Layout
  <2> QED BY <2>1, LayoutFacts
<1>3. k \in Nat /\ L \in [1..k -> FreeIn(at, D)]
  BY <1>1 DEF Chain
<1>4. \A i \in 1..k : L[i] \in Nat /\ L[i] # NULL
  BY <1>2, <1>3 DEF FreeIn
<1>5. ff = IF k = 0 THEN NULL ELSE L[1]
  BY <1>1 DEF Chain
<1>6. CASE k = 0
  <2>1. FreeIn(at, D) = {}
    BY <1>1, <1>6 DEF Chain
  <2> QED BY <1>5, <1>6, <2>1 DEF NULL
<1>7. CASE k # 0
  BY <1>3, <1>4, <1>5, <1>7
<1> QED BY <1>6, <1>7

\* The heap after a step, sound again: U are the blocks in use, and those that
\* were in use keep their sizes.
Kept(U) ==
    /\ heap' = [heap EXCEPT !.first_free = heap'.first_free]
    /\ Sound(hdr', heap'.first_free, Blocks', heap.buf, Top)
    /\ Used(hdr', Blocks') = U
    /\ \A b \in Used(hdr, Blocks) \cap U : hdr'[b].size = hdr[b].size

\* malloc( len ) gives the block a away.
Gives(a, len) ==
    /\ status = "running" /\ status' = "running"
    /\ a \in Blocks \ Used(hdr, Blocks)
    /\ Kept(Used(hdr, Blocks) \cup {a})
    /\ len <= SizeMax + 1 - ALIGN => hdr'[a].size >= len
    /\ given' = With(given, a + HDR, len)

\* free( p ) takes p back.
Takes(p) ==
    /\ status = "running" /\ status' = "running"
    /\ p \in DOMAIN given /\ p - HDR \in Used(hdr, Blocks) /\ p = (p - HDR) + HDR
    /\ Kept(Used(hdr, Blocks) \ {p - HDR})
    /\ given' = [q \in DOMAIN given \ {p} |-> given[q]]

\* free( p ) stops the program.
Refuses(p) == /\ status = "running" /\ status' = "exited" /\ p \notin DOMAIN given
              /\ UNCHANGED <<heap, hdr, given>>
\* free( p ) writes through NULL.
Crashes(p) == /\ status = "running" /\ status' = "crashed" /\ p \in DOMAIN given
              /\ heap.first_free = NULL /\ UNCHANGED <<heap, hdr, given>>

\* Finish leaves a sound heap as it is.
LEMMA Finished ==
    ASSUME PoolInv, NEW h, NEW E, Sound(h.at, h.first_free, E, heap.buf, Top), NEW when,
           Finish(h, when)
    PROVE  /\ heap' = [heap EXCEPT !.first_free = heap'.first_free]
           /\ heap'.first_free = h.first_free /\ hdr' = h.at /\ Blocks' = E
           /\ status' = "running"
<1>1. VerifyChain(h.at)
  <2>1. Sound(h.at, h.first_free, E, heap.first, heap.buf + heap.len)
    BY DEF PoolInv, Top
  <2> QED BY <2>1, Verified
<1>2. DOMAIN h.at = E
  BY DEF Sound, Layout
<1>3. heap' = [heap EXCEPT !.first_free = h.first_free] /\ hdr' = h.at /\ status' = "running"
  BY <1>1 DEF Finish
<1>4. heap'.first_free = h.first_free
  BY <1>3 DEF PoolInv
<1> QED BY <1>2, <1>3, <1>4 DEF Blocks

\* malloc gives a block away and leaves the rest as it was; it never exits.
LEMMA MallocGives ==
    ASSUME PoolInv, NEW len \in Requests, Malloc(len)
    PROVE  \E a : Gives(a, len)
<1> DEFINE n == Rounded(len)
           a == Fit(n)
           U == Used(hdr, Blocks)
<1>1. Sound(hdr, heap.first_free, Blocks, heap.buf, Top) /\ Blocks = DOMAIN hdr
  BY DEF PoolInv, Blocks
<1>2. len \in 0..SizeMax /\ SizeMax \in Nat /\ ALIGN \in Nat \ {0} /\ HDR \in Nat \ {0}
  BY PoolAssumption
<1>3. n \in Nat /\ n % ALIGN = 0 /\ (len <= SizeMax + 1 - ALIGN => n >= len)
  BY <1>2, RoundedUp
<1> HIDE DEF n
<1>4. a # NULL /\ Running
  BY DEF Malloc, n
<1>5. a \in FreeIn(hdr, Blocks) /\ hdr[a].size >= n
  BY <1>1, <1>3, <1>4, Fits
<1>6. hdr[a].alloc = 0 /\ a \in Blocks /\ a \notin U /\ hdr[a].size \in Nat
  <2>1. Layout(hdr, Blocks, heap.buf, Top)
    BY <1>1 DEF Sound
  <2>2. a \in Blocks /\ hdr[a].alloc = 0 /\ a \notin U
    BY <1>5 DEF FreeIn, Used
  <2> QED BY <2>1, <2>2, LayoutFacts
<1>7. /\ Finish(IF hdr[a].size - n < HDR + ALIGN THEN Whole(a) ELSE Split(a, n), "alloc")
      /\ given' = With(given, a + HDR, len)
  BY <1>6 DEF Malloc, n
<1> HIDE DEF a
<1>8. CASE hdr[a].size - n < HDR + ALIGN
  <2> DEFINE h == Whole(a)
  <2>1. /\ Sound(h.at, h.first_free, Blocks, heap.buf, Top) /\ Used(h.at, Blocks) = U \cup {a}
        /\ \A b \in Blocks : h.at[b].size = hdr[b].size
    BY <1>1, <1>5, WholeSound
  <2> HIDE DEF h
  <2>2. Finish(h, "alloc")
    BY <1>7, <1>8 DEF h
  <2>3. /\ heap' = [heap EXCEPT !.first_free = heap'.first_free]
        /\ heap'.first_free = h.first_free /\ hdr' = h.at /\ Blocks' = Blocks
        /\ status' = "running"
    BY <2>1, <2>2, Finished
  <2>4. Kept(U \cup {a})
    <3>1. \A b \in U \cap (U \cup {a}) : hdr'[b].size = hdr[b].size
      BY <2>1, <2>3 DEF Used
    <3> QED BY <2>1, <2>3, <3>1 DEF Kept
  <2>5. hdr'[a].size = hdr[a].size
    BY <1>6, <2>1, <2>3
  <2>6. len <= SizeMax + 1 - ALIGN => hdr'[a].size >= len
    BY <1>2, <1>3, <1>5, <1>6, <2>5
  <2> QED BY <1>4, <1>6, <1>7, <2>3, <2>4, <2>6 DEF Gives, Running
<1>9. CASE ~(hdr[a].size - n < HDR + ALIGN)
  <2> DEFINE h == Split(a, n)
             E == Blocks \cup {a + HDR + n}
  <2>0. hdr[a].size - n >= HDR + ALIGN
    BY <1>2, <1>3, <1>6, <1>9
  <2>1. /\ Sound(h.at, h.first_free, E, heap.buf, Top) /\ Used(h.at, E) = U \cup {a}
        /\ \A b \in Blocks : h.at[b].size = IF b = a THEN n ELSE hdr[b].size
    <3>1. SplitOff(Split(a, n), Blocks, heap.buf, Top, a, n, a + HDR + n)
      BY <1>1, <1>3, <1>5, <2>0, SplitSound
    <3> QED BY <3>1 DEF SplitOff
  <2> HIDE DEF h, E
  <2>2. Finish(h, "alloc")
    BY <1>7, <1>9 DEF h
  <2>3. /\ heap' = [heap EXCEPT !.first_free = heap'.first_free]
        /\ heap'.first_free = h.first_free /\ hdr' = h.at /\ Blocks' = E
        /\ status' = "running"
    BY <2>1, <2>2, Finished
  <2>4. Kept(U \cup {a})
    <3>1. \A b \in U \cap (U \cup {a}) : hdr'[b].size = hdr[b].size
      BY <1>6, <2>1, <2>3 DEF Used
    <3> QED BY <2>1, <2>3, <3>1 DEF Kept
  <2>5. hdr'[a].size = n
    BY <1>6, <2>1, <2>3
  <2>6. len <= SizeMax + 1 - ALIGN => hdr'[a].size >= len
    BY <1>2, <1>3, <2>5
  <2> QED BY <1>4, <1>6, <1>7, <2>3, <2>4, <2>6 DEF Gives, Running
<1> QED BY <1>8, <1>9

\* free accepts the pointers that callers hold.
LEMMA AcceptsHeld ==
    ASSUME PoolInv, NEW p \in Pointers
    PROVE  /\ Accepts(p) <=> p \in DOMAIN given
           /\ p \in DOMAIN given => p - HDR \in Used(hdr, Blocks) /\ p = (p - HDR) + HDR
<1> DEFINE U == Used(hdr, Blocks)
<1>1. /\ Sound(hdr, heap.first_free, Blocks, heap.buf, Top) /\ Blocks = DOMAIN hdr
      /\ Layout(hdr, Blocks, heap.buf, Top) /\ heap.len = BufLen
      /\ DOMAIN given = {a + HDR : a \in U}
  BY DEF PoolInv, Blocks, Sound, Held
<1>2. HDR \in Nat \ {0} /\ BufLen \in Nat /\ heap.buf \in Nat /\ Top = heap.buf + heap.len
  BY <1>1, PoolAssumption DEF Layout, Top
<1>3. p \in Int
  BY <1>1, <1>2 DEF Pointers
<1>4. ASSUME p \in DOMAIN given
      PROVE  /\ Accepts(p) /\ p - HDR \in U /\ p = (p - HDR) + HDR
  <2>1. PICK a \in U : p = a + HDR
    BY <1>1, <1>4
  <2>2. /\ a \in Blocks /\ a \in Nat /\ hdr[a].alloc = 1 /\ End(hdr, a) <= Top
        /\ hdr[a].size \in Nat /\ a >= heap.buf
        /\ hdr[a].prev_free = NULL /\ hdr[a].next_free = NULL
    <3>1. a \in Blocks /\ hdr[a].alloc # 0 /\ a \notin FreeIn(hdr, Blocks)
      BY DEF Used, FreeIn
    <3>2. hdr[a].alloc \in 0..1 /\ hdr[a].prev_free = NULL /\ hdr[a].next_free = NULL
      BY <1>1, <3>1 DEF Sound
    <3>3. a \in heap.buf..Top /\ End(hdr, a) <= Top
      BY <1>1, <3>1 DEF Layout
    <3>4. a \in Nat /\ hdr[a].size \in Nat
      BY <1>1, <3>1, LayoutFacts
    <3>5. hdr[a].alloc = 1
      BY <3>1, <3>2
    <3> QED BY <3>1, <3>2, <3>3, <3>4, <3>5
  <2>3. p - HDR = a
    BY <1>2, <2>1, <2>2
  <2>4. p >= heap.buf /\ p <= heap.buf + heap.len
    BY <1>1, <1>2, <2>1, <2>2 DEF End
  <2>5. VerifyHeader(hdr[a])
    <3>1. /\ hdr[a].prev # NULL => hdr[a].prev < a
          /\ hdr[a].next # NULL => hdr[a].next > a
          /\ hdr[a].prev \in Blocks \cup {NULL} /\ hdr[a].next \in Blocks \cup {NULL}
          /\ Blocks \in SUBSET Nat
      BY <1>1, <2>2, LayoutFacts
    <3>2. ~(hdr[a].prev # NULL /\ hdr[a].prev = hdr[a].next)
      BY <2>2, <3>1
    <3> QED BY <2>2, <3>2 DEF VerifyHeader
  <2> QED BY <1>1, <2>1, <2>2, <2>3, <2>4, <2>5 DEF Accepts
<1>5. ASSUME Accepts(p)
      PROVE  p \in DOMAIN given
  <2>1. p - HDR \in Blocks /\ hdr[p - HDR].alloc = 1
    BY <1>1, <1>5 DEF Accepts
  <2>2. p - HDR \in U
    BY <2>1 DEF Used, FreeIn
  <2>3. p = (p - HDR) + HDR
    BY <1>2, <1>3
  <2> QED BY <1>1, <2>2, <2>3
<1> QED BY <1>4, <1>5

\* free takes a block back, refuses the pointer, or crashes.
LEMMA FreeTakes ==
    ASSUME PoolInv, NEW p \in Pointers, Free(p)
    PROVE  Takes(p) \/ Refuses(p) \/ Crashes(p)
<1> DEFINE U == Used(hdr, Blocks)
           a == p - HDR
<1>1. status = "running"
  BY DEF Free, Running
<1>2. CASE ~Accepts(p)
  <2>1. status' = "exited" /\ UNCHANGED <<heap, hdr, given>>
    BY <1>2 DEF Free
  <2> QED BY <1>1, <1>2, <2>1, AcceptsHeld DEF Refuses
<1>3. CASE Accepts(p)
  <2>1. Release(a)
    BY <1>3 DEF Free
  <2>2. p \in DOMAIN given /\ a \in U /\ p = a + HDR
    BY <1>3, AcceptsHeld
  <2> HIDE DEF a
  <2>3. Sound(hdr, heap.first_free, Blocks, heap.buf, Top) /\ Blocks = DOMAIN hdr
    BY DEF PoolInv, Blocks
  <2> DEFINE h == [first_free |-> heap.first_free, at |-> [hdr EXCEPT ![a].alloc = 0]]
             before == IsFree(h, hdr[a].prev)
             b == IF before THEN MergeBefore(h, a) ELSE h
             at == IF before THEN hdr[a].prev ELSE a
             after == IsFree(b, b.at[at].next)
             r == IF after THEN MergeAfter(b, at) ELSE b
             s == [first_free |-> a,
                   at |-> [h.at EXCEPT ![a].next_free = heap.first_free,
                                       ![heap.first_free].prev_free = a]]
             back == given' = [q \in DOMAIN given \ {a + HDR} |-> given[q]]
  <2>4. /\ before \/ after => Returned(r, Blocks, heap.buf, Top, a)
        /\ ~before /\ ~after /\ heap.first_free # NULL => Returned(s, Blocks, heap.buf, Top, a)
    BY <2>2, <2>3, ReleaseReturns
  <2>5. \/ (before \/ after) /\ back /\ Finish(r, "free")
        \/ ~before /\ ~after /\ heap.first_free # NULL /\ back /\ Finish(s, "free")
        \/ heap.first_free = NULL /\ status' = "crashed" /\ UNCHANGED <<heap, hdr, given>>
    BY <2>1 DEF Release
  <2> HIDE DEF before, after, r, s, back, b, h, at
  <2>6. CASE \E g : back /\ Finish(g, "free") /\ Returned(g, Blocks, heap.buf, Top, a)
    <3>1. PICK g : back /\ Finish(g, "free") /\ Returned(g, Blocks, heap.buf, Top, a)
      BY <2>6
    <3> DEFINE E == DOMAIN g.at
    <3>2. /\ Sound(g.at, g.first_free, E, heap.buf, Top) /\ Used(g.at, E) = U \ {a}
          /\ \A c \in U \ {a} : g.at[c].size = hdr[c].size
      BY <3>1 DEF Returned
    <3> HIDE DEF E
    <3>3. /\ heap' = [heap EXCEPT !.first_free = heap'.first_free]
          /\ heap'.first_free = g.first_free /\ hdr' = g.at /\ Blocks' = E
          /\ status' = "running"
      BY <3>1, <3>2, Finished
    <3>4. Kept(U \ {a})
      <4>1. \A c \in U \cap (U \ {a}) : hdr'[c].size = hdr[c].size
        BY <3>2, <3>3
      <4> QED BY <3>2, <3>3, <4>1 DEF Kept
    <3>5. given' = [q \in DOMAIN given \ {p} |-> given[q]]
      BY <2>2, <3>1 DEF back
    <3> QED BY <1>1, <2>2, <3>3, <3>4, <3>5 DEF Takes, a
  <2>7. CASE heap.first_free = NULL /\ status' = "crashed" /\ UNCHANGED <<heap, hdr, given>>
    BY <1>1, <2>2, <2>7 DEF Crashes
  <2> QED BY <2>4, <2>5, <2>6, <2>7
<1> QED BY <1>2, <1>3

\* The invariant is kept by malloc.
LEMMA GivesInv ==
    ASSUME PoolInv, NEW a, NEW len \in Requests, Gives(a, len)
    PROVE  PoolInv'
<1> DEFINE U == Used(hdr, Blocks)
           U2 == Used(hdr', Blocks')
<1>1. /\ heap' = [heap EXCEPT !.first_free = heap'.first_free]
      /\ Sound(hdr', heap'.first_free, Blocks', heap.buf, Top) /\ U2 = U \cup {a}
      /\ \A b \in U : hdr'[b].size = hdr[b].size
      /\ (len <= SizeMax + 1 - ALIGN => hdr'[a].size >= len)
      /\ given' = With(given, a + HDR, len) /\ status' = "running" /\ a \in Blocks \ U
  BY DEF Gives, Kept
<1>2. heap'.first_free \in Nat
  BY <1>1, FirstFree
<1>3. /\ heap' \in [buf : Nat, len : Nat, first : Nat, first_free : Nat]
      /\ heap'.buf = heap.buf /\ heap'.len = heap.len /\ heap'.first = heap.first /\ Top' = Top
  BY <1>1, <1>2 DEF PoolInv, Top
<1>4. /\ given \in [DOMAIN given -> Requests] /\ DOMAIN given = {b + HDR : b \in U}
      /\ \A b \in U : given[b + HDR] <= SizeMax + 1 - ALIGN => hdr[b].size >= given[b + HDR]
  BY DEF PoolInv, Held
<1>5. HDR \in Nat /\ Blocks \in SUBSET Nat
  <2>1. Layout(hdr, Blocks, heap.buf, Top) /\ heap.buf \in Blocks
    BY DEF PoolInv, Sound, Layout
  <2> QED BY <2>1, LayoutFacts
<1>6. DOMAIN given' = {b + HDR : b \in U2}
  BY <1>1, <1>4 DEF With
<1>7. given' \in [DOMAIN given' -> Requests]
  BY <1>1, <1>4 DEF With
<1>8. ASSUME NEW b \in U2
      PROVE  given'[b + HDR] <= SizeMax + 1 - ALIGN => hdr'[b].size >= given'[b + HDR]
  <2>1. CASE b = a
    <3>1. given'[a + HDR] = len
      BY <1>1 DEF With
    <3> QED BY <1>1, <2>1, <3>1
  <2>2. CASE b # a
    <3>1. b \in U /\ hdr'[b].size = hdr[b].size
      BY <1>1, <2>2
    <3>2. b \in Nat /\ a \in Nat /\ b + HDR # a + HDR /\ b + HDR \in DOMAIN given
      BY <1>1, <1>4, <1>5, <2>2, <3>1 DEF Used
    <3>3. given'[b + HDR] = given[b + HDR]
      BY <1>1, <3>2 DEF With
    <3> QED BY <1>4, <3>1, <3>3
  <2> QED BY <2>1, <2>2
<1>9. Held'
  BY <1>6, <1>7, <1>8 DEF Held
<1> QED BY <1>1, <1>3, <1>9 DEF PoolInv

\* The invariant is kept by free.
LEMMA TakesInv ==
    ASSUME PoolInv, NEW p, Takes(p)
    PROVE  PoolInv'
<1> DEFINE U == Used(hdr, Blocks)
           U2 == Used(hdr', Blocks')
           a == p - HDR
<1>1. /\ heap' = [heap EXCEPT !.first_free = heap'.first_free]
      /\ Sound(hdr', heap'.first_free, Blocks', heap.buf, Top) /\ U2 = U \ {a}
      /\ \A b \in U \ {a} : hdr'[b].size = hdr[b].size
      /\ given' = [q \in DOMAIN given \ {p} |-> given[q]] /\ status' = "running"
      /\ a \in U /\ p = a + HDR
  BY DEF Takes, Kept
<1> HIDE DEF a
<1>2. heap'.first_free \in Nat
  BY <1>1, FirstFree
<1>3. /\ heap' \in [buf : Nat, len : Nat, first : Nat, first_free : Nat]
      /\ heap'.buf = heap.buf /\ heap'.len = heap.len /\ heap'.first = heap.first /\ Top' = Top
  BY <1>1, <1>2 DEF PoolInv, Top
<1>4. /\ given \in [DOMAIN given -> Requests] /\ DOMAIN given = {b + HDR : b \in U}
      /\ \A b \in U : given[b + HDR] <= SizeMax + 1 - ALIGN => hdr[b].size >= given[b + HDR]
  BY DEF PoolInv, Held
<1>5. HDR \in Nat /\ U \in SUBSET Nat
  <2>1. Layout(hdr, Blocks, heap.buf, Top) /\ heap.buf \in Blocks
    BY DEF PoolInv, Sound, Layout
  <2> QED BY <2>1, LayoutFacts DEF Used
<1> HIDE DEF U
<1>6. \A b \in U : b + HDR = a + HDR <=> b = a
  BY <1>1, <1>5
<1>7. DOMAIN given' = {b + HDR : b \in U2}
  BY <1>1, <1>4, <1>6
<1>8. given' \in [DOMAIN given' -> Requests]
  BY <1>1, <1>4
<1>9. \A b \in U2 : given'[b + HDR] <= SizeMax + 1 - ALIGN => hdr'[b].size >= given'[b + HDR]
  BY <1>1, <1>4, <1>6
<1>10. Held'
  BY <1>7, <1>8, <1>9 DEF Held
<1> QED BY <1>1, <1>3, <1>10 DEF PoolInv

\* The invariant is kept when the program stops, with the heap as it was.
LEMMA StoppedInv ==
    ASSUME PoolInv, UNCHANGED <<heap, hdr, given>>, status' \in {"running", "exited", "crashed"}
    PROVE  PoolInv'
<1>1. heap' = heap /\ hdr' = hdr /\ given' = given /\ Blocks' = Blocks /\ Top' = Top
  BY DEF Blocks, Top
<1>2. Held'
  BY <1>1 DEF PoolInv, Held
<1> QED BY <1>1, <1>2 DEF PoolInv

\* Every step is one of these.
LEMMA Steps ==
    ASSUME PoolInv, Next
    PROVE  \/ \E len \in Requests : \E a : Gives(a, len)
           \/ \E p \in Pointers : Takes(p) \/ Refuses(p) \/ Crashes(p)
<1>1. CASE \E len \in Requests : Malloc(len)
  BY <1>1, MallocGives
<1>2. CASE \E p \in Pointers : Free(p)
  BY <1>2, FreeTakes
<1> QED BY <1>1, <1>2 DEF Next

\* After any calls of malloc and free the heap is sound and the blocks in use are
\* those that callers hold (memory_buffer_alloc.c 243-498).
THEOREM PoolInvariant == Spec => []PoolInv
<1>1. Init => PoolInv
  BY InitInv
<1>2. PoolInv /\ [Next]_vars => PoolInv'
  <2> SUFFICES ASSUME PoolInv, [Next]_vars
               PROVE  PoolInv'
    OBVIOUS
  <2>1. CASE Next
    <3>1. CASE \E len \in Requests : \E a : Gives(a, len)
      BY <3>1, GivesInv
    <3>2. CASE \E p \in Pointers : Takes(p)
      BY <3>2, TakesInv
    <3>3. CASE \E p \in Pointers : Refuses(p) \/ Crashes(p)
      <4>1. UNCHANGED <<heap, hdr, given>> /\ status' \in {"running", "exited", "crashed"}
        BY <3>3 DEF Refuses, Crashes
      <4> QED BY <4>1, StoppedInv
    <3> QED BY <2>1, <3>1, <3>2, <3>3, Steps
  <2>2. CASE UNCHANGED vars
    <3>1. UNCHANGED <<heap, hdr, given>> /\ status' \in {"running", "exited", "crashed"}
      BY <2>2 DEF vars, PoolInv
    <3> QED BY <3>1, StoppedInv
  <2> QED BY <2>1, <2>2
<1> QED BY <1>1, <1>2, PTL DEF Spec

\* For any buffer, header size, alignment and lengths asked for: blocks that lie end
\* to end, and a free list that holds every free block once, whatever was split and
\* joined before (memory_buffer_alloc.c 243-498).
THEOREM HeapStaysSound == Spec => []HeapSound
  BY PoolInvariant, InvSound, PTL

\* Memory marked as used is in the hands of a caller, and a heap from which nothing
\* is held is one free block again (memory_buffer_alloc.c 389-498).
THEOREM NothingIsLost == Spec => []NothingLost
  BY PoolInvariant, InvLost, PTL

\* free exits on a pointer that nobody holds and on no other (memory_buffer_alloc.c
\* 389-416), and the verification of malloc and free finds nothing in a heap that
\* these two made (memory_buffer_alloc.c 144-241).
THEOREM MisuseExits == Spec => MisuseIsCaught
<1>1. PoolInv /\ [Next]_vars =>
        [status' = "exited" <=> \E p \in Pointers \ DOMAIN given : Free(p)]_vars
  <2> SUFFICES ASSUME PoolInv, Next
               PROVE  status' = "exited" <=> \E p \in Pointers \ DOMAIN given : Free(p)
    OBVIOUS
  <2>1. ASSUME NEW p \in Pointers \ DOMAIN given, Free(p)
        PROVE  status' = "exited"
    <3>1. p \in Pointers /\ p \notin DOMAIN given
      OBVIOUS
    <3>2. Takes(p) \/ Refuses(p) \/ Crashes(p)
      BY <2>1, <3>1, FreeTakes
    <3> QED BY <3>1, <3>2 DEF Takes, Refuses, Crashes
  <2>2. ASSUME status' = "exited"
        PROVE  \E p \in Pointers \ DOMAIN given : Free(p)
    <3>1. CASE \E len \in Requests : Malloc(len)
      <4>1. \E len \in Requests : \E a : Gives(a, len)
        BY <3>1, MallocGives
      <4> QED BY <2>2, <4>1 DEF Gives
    <3>2. CASE \E p \in Pointers : Free(p)
      <4>1. PICK p \in Pointers : Free(p)
        BY <3>2
      <4>2. Takes(p) \/ Refuses(p) \/ Crashes(p)
        BY <4>1, FreeTakes
      <4>3. p \notin DOMAIN given
        BY <2>2, <4>2 DEF Takes, Refuses, Crashes
      <4> QED BY <4>1, <4>3
    <3> QED BY <3>1, <3>2 DEF Next
  <2> QED BY <2>1, <2>2
<1> QED BY <1>1, PoolInvariant, PTL DEF Spec, MisuseIsCaught

\* Every unit of a sound heap lies in a block.
LEMMA Covered ==
    ASSUME NEW at, NEW D, NEW buf, NEW top, Layout(at, D, buf, top), NEW x \in buf..(top - 1)
    PROVE  \E a \in D : a <= x /\ x < End(at, a)
<1> DEFINE T == {x - a : a \in {b \in D : b <= x}}
<1>1. buf \in Nat /\ top \in Nat /\ x \in Nat /\ buf <= x /\ x < top /\ buf \in D /\ D \in SUBSET Nat
  <2>1. buf \in Nat /\ top \in Nat /\ buf \in D
    BY DEF Layout
  <2> QED BY <2>1, LayoutFacts
<1>2. T \in SUBSET Nat /\ T # {}
  BY <1>1
<1>3. PICK t \in T : \A y \in T : t <= y
  <2> HIDE DEF T
  <2> QED BY <1>2, Least
<1>4. PICK a \in D : a <= x /\ t = x - a
  OBVIOUS
<1>5. \A b \in D : b <= x => b <= a
  <2> SUFFICES ASSUME NEW b \in D, b <= x
               PROVE  b <= a
    OBVIOUS
  <2>1. x - b \in T
    OBVIOUS
  <2>2. t <= x - b
    BY <1>3, <2>1
  <2> QED BY <1>1, <1>4, <2>2
<1>6. x < End(at, a)
  <2> SUFFICES ASSUME ~(x < End(at, a))
               PROVE  FALSE
    OBVIOUS
  <2>1. a \in Nat /\ End(at, a) \in Nat /\ End(at, a) > a /\ End(at, a) # NULL
    BY LayoutFacts DEF NULL
  <2>2. End(at, a) # top /\ End(at, a) <= x
    BY <1>1, <2>1
  <2>3. at[a].next = End(at, a)
    BY <2>2 DEF Layout
  <2>4. End(at, a) \in D
    BY <2>1, <2>3 DEF Layout
  <2> QED BY <1>5, <2>1, <2>2, <2>4
<1> QED BY <1>4, <1>6

\* The write through the empty free list (memory_buffer_alloc.c 480-489) needs
\* a heap whose every unit is in a block that is held.
THEOREM CrashNeedsFullHeap == Spec => CrashOnlyWhenFull
<1> DEFINE Full == heap.buf..Top - 1 \subseteq
                     UNION {(p - HDR)..(Ends(p - HDR) - 1) : p \in DOMAIN given}
<1>1. PoolInv /\ [Next]_vars => [status' = "crashed" => Full]_vars
  <2> SUFFICES ASSUME PoolInv, Next, status' = "crashed"
               PROVE  Full
    OBVIOUS
  <2>1. PICK p \in Pointers : Takes(p) \/ Refuses(p) \/ Crashes(p)
    BY Steps DEF Gives
  <2>2. heap.first_free = NULL
    BY <2>1 DEF Takes, Refuses, Crashes
  <2>3. /\ Sound(hdr, heap.first_free, Blocks, heap.buf, Top) /\ Layout(hdr, Blocks, heap.buf, Top)
        /\ DOMAIN given = {a + HDR : a \in Used(hdr, Blocks)}
    BY DEF PoolInv, Sound, Held
  <2>4. Used(hdr, Blocks) = Blocks
    BY <2>2, <2>3, FirstFree DEF Used
  <2> SUFFICES ASSUME NEW x \in heap.buf..Top - 1
               PROVE  \E q \in DOMAIN given : x \in (q - HDR)..(Ends(q - HDR) - 1)
    OBVIOUS
  <2>5. PICK a \in Blocks : a <= x /\ x < End(hdr, a)
    BY <2>3, Covered
  <2>6. a \in Nat /\ End(hdr, a) \in Nat /\ HDR \in Nat /\ x \in Int
    <3>1. heap.buf \in Nat /\ Top \in Nat
      BY <2>3 DEF Layout
    <3>2. a \in Nat /\ End(hdr, a) \in Nat /\ HDR \in Nat
      BY <2>3, <2>5, LayoutFacts
    <3> QED BY <3>1, <3>2
  <2>7. a + HDR \in DOMAIN given /\ (a + HDR) - HDR = a
    BY <2>3, <2>4, <2>6
  <2>8. x \in a..(Ends(a) - 1)
    BY <2>5, <2>6 DEF Ends, End
  <2> QED BY <2>7, <2>8
<1> QED BY <1>1, PoolInvariant, PTL DEF Spec, CrashOnlyWhenFull

-----------------------------------------------------------------------------
(* The pool implements the abstract allocator.                              *)

\* What callers hold, as the abstract allocator sees it.
Lends(g, at, buf) ==
    [o \in {p - buf : p \in DOMAIN g} |->
        [size |-> at[buf + o - HDR].size, asked |-> g[buf + o]]]

Lending == Lends(given, hdr, heap.buf)

\* f tells the size and the length asked for of the blocks in U.
Pieces(f, g, at, buf, U) ==
    /\ f = [o \in DOMAIN f |-> f[o]]
    /\ DOMAIN f = {(a + HDR) - buf : a \in U}
    /\ \A a \in U : f[(a + HDR) - buf] = [size |-> at[a].size, asked |-> g[a + HDR]]

\* The pieces lent are the blocks in use, counted from the start of the heap.
LEMMA LendsFacts ==
    ASSUME NEW g, NEW at, NEW buf \in Nat, NEW U \in SUBSET Nat, HDR \in Nat,
           DOMAIN g = {a + HDR : a \in U}
    PROVE  Pieces(Lends(g, at, buf), g, at, buf, U)
<1> DEFINE S == {p - buf : p \in DOMAIN g}
           f == Lends(g, at, buf)
<1>1. S = {(a + HDR) - buf : a \in U}
  OBVIOUS
<1>2. f = [o \in S |-> [size |-> at[buf + o - HDR].size, asked |-> g[buf + o]]]
  BY DEF Lends
<1>3. ASSUME NEW a \in U
      PROVE  f[(a + HDR) - buf] = [size |-> at[a].size, asked |-> g[a + HDR]]
  <2> DEFINE o == (a + HDR) - buf
  <2>1. buf + o - HDR = a /\ buf + o = a + HDR
    OBVIOUS
  <2>2. o \in S
    BY <1>1
  <2> HIDE DEF o, S, f
  <2>3. f[o] = [size |-> at[buf + o - HDR].size, asked |-> g[buf + o]]
    BY <1>2, <2>2
  <2>4. f[o] = [size |-> at[a].size, asked |-> g[a + HDR]]
    BY <2>1, <2>3
  <2> QED BY <2>4 DEF o
<1> HIDE DEF S, f
<1>4. DOMAIN f = S /\ f = [o \in DOMAIN f |-> f[o]]
  BY <1>2
<1> QED BY <1>1, <1>3, <1>4 DEF f, Pieces

\* The parts of the abstract allocator in terms of the pool: its start.
LEMMA UnfoldInit == Lent!Init <=> Lending = <<>> /\ (status = "running") = TRUE
  BY DEF Lent!Init, Lending, Lends

\* The parts of the abstract allocator in terms of the pool: its steps.
LEMMA UnfoldNext ==
    Lent!Next <=>
        /\ (status = "running") = TRUE
        /\ \/ \E n \in Requests : Lent!Lend(n)
           \/ \E p \in DOMAIN Lending : Lent!TakeBack(p)
           \/ Lent!Stop
  BY DEF Lent!Next, Lending, Lends

\* The parts of the abstract allocator in terms of the pool: its end.
LEMMA UnfoldStop == Lent!Stop <=> (status' = "running") = FALSE /\ Lending' = Lending
  BY DEF Lent!Stop, Lending, Lends

\* The parts of the abstract allocator in terms of the pool: taking a piece back.
LEMMA UnfoldTakeBack ==
    ASSUME NEW p
    PROVE  Lent!TakeBack(p) <=>
             /\ Lending' = [q \in DOMAIN Lending \ {p} |-> Lending[q]]
             /\ (status' = "running") = (status = "running")
  BY DEF Lent!TakeBack, Lending, Lends

\* The parts of the abstract allocator in terms of the pool: lending a piece.
LEMMA UnfoldLend ==
    ASSUME NEW n
    PROVE  Lent!Lend(n) <=>
             \E p \in 0..(BufLen - 1), s \in 0..BufLen :
                /\ p \notin DOMAIN Lending
                /\ p + s <= BufLen
                /\ n <= SizeMax + 1 - ALIGN => s >= n
                /\ \A q \in DOMAIN Lending : p + s <= q \/ q + Lending[q].size <= p
                /\ Lending' = [q \in DOMAIN Lending \cup {p} |->
                               IF q = p THEN [size |-> s, asked |-> n] ELSE Lending[q]]
                /\ (status' = "running") = (status = "running")
  BY DEF Lent!Lend, Lending, Lends

\* The parts of the abstract allocator in terms of the pool: a step that changes nothing.
LEMMA UnfoldVars ==
    UNCHANGED Lent!avars <=> Lending' = Lending /\ (status' = "running") = (status = "running")
  BY DEF Lent!avars, Lending, Lends

\* Where the pieces lie that callers hold.
LEMMA InvLending ==
    ASSUME PoolInv
    PROVE  LET U == Used(hdr, Blocks)
           IN  /\ heap.buf \in Nat /\ U \in SUBSET Nat /\ HDR \in Nat /\ U \subseteq Blocks
               /\ Pieces(Lending, given, hdr, heap.buf, U)
<1> DEFINE U == Used(hdr, Blocks)
<1>1. Layout(hdr, Blocks, heap.buf, Top) /\ heap.buf \in Blocks /\ heap.buf \in Nat
  BY DEF PoolInv, Sound, Layout
<1>2. U \in SUBSET Nat /\ HDR \in Nat /\ U \subseteq Blocks
  BY <1>1, LayoutFacts DEF Used
<1>3. DOMAIN given = {a + HDR : a \in U}
  BY DEF PoolInv, Held
<1> HIDE DEF U
<1>4. Pieces(Lending, given, hdr, heap.buf, U)
  BY <1>1, <1>2, <1>3, LendsFacts DEF Lending
<1> QED BY <1>1, <1>2, <1>4 DEF U

\* malloc lends a piece that was nobody's, as long as asked for.
LEMMA GivesLends ==
    ASSUME PoolInv, PoolInv', NEW a, NEW len \in Requests, Gives(a, len)
    PROVE  Lent!Lend(len)
<1> DEFINE U == Used(hdr, Blocks)
           V == Used(hdr', Blocks')
           buf == heap.buf
           p == (a + HDR) - buf
           s == hdr'[a].size
<1>1. /\ Sound(hdr', heap'.first_free, Blocks', buf, Top) /\ V = U \cup {a} /\ a \in Blocks \ U
      /\ \A b \in U : hdr'[b].size = hdr[b].size
      /\ (len <= SizeMax + 1 - ALIGN => s >= len)
      /\ given' = With(given, a + HDR, len) /\ status' = "running" /\ status = "running"
  BY DEF Gives, Kept
<1>2. heap'.buf = buf /\ Top = buf + BufLen
  BY DEF Gives, Kept, PoolInv, Top
<1>3. Layout(hdr', Blocks', buf, Top) /\ V \subseteq Blocks' /\ a \in V /\ U \subseteq V
  BY <1>1 DEF Sound, Used
<1>4. /\ buf \in Nat /\ U \in SUBSET Nat /\ HDR \in Nat
      /\ Lending = [o \in DOMAIN Lending |-> Lending[o]]
      /\ DOMAIN Lending = {(b + HDR) - buf : b \in U}
      /\ \A b \in U : Lending[(b + HDR) - buf] = [size |-> hdr[b].size, asked |-> given[b + HDR]]
  BY InvLending DEF Pieces
<1>5. V \in SUBSET Nat /\ a \in Nat /\ HDR \in Nat \ {0}
  BY <1>3, LayoutFacts
<1>6. DOMAIN given' = {b + HDR : b \in V}
  BY DEF PoolInv, Held
<1>7. Lending' = Lends(given', hdr', buf)
  BY <1>2 DEF Lending
<1> HIDE DEF U, V
<1>8. /\ Lending' = [o \in DOMAIN Lending' |-> Lending'[o]]
      /\ DOMAIN Lending' = {(b + HDR) - buf : b \in V}
      /\ \A b \in V : Lending'[(b + HDR) - buf] = [size |-> hdr'[b].size, asked |-> given'[b + HDR]]
  <2>1. Pieces(Lending', given', hdr', buf, V)
    BY <1>4, <1>5, <1>6, <1>7, LendsFacts
  <2> QED BY <2>1 DEF Pieces
<1>9. s \in Nat /\ End(hdr', a) = a + HDR + s /\ End(hdr', a) <= Top /\ buf <= a /\ BufLen \in Nat
      /\ (End(hdr', a) = Top => s > 0)
  <2>1. s \in Nat
    BY <1>3, LayoutFacts
  <2>2. End(hdr', a) <= Top /\ a \in buf..Top /\ (End(hdr', a) = Top => s > 0)
    BY <1>3 DEF Layout
  <2> QED BY <1>4, <1>5, <2>1, <2>2, PoolAssumption DEF End
<1>10. p \in 0..(BufLen - 1) /\ s \in 0..BufLen /\ p + s <= BufLen
  BY <1>2, <1>4, <1>5, <1>9
<1>11. \A b \in U : b # a /\ (b + HDR) - buf # p
  BY <1>1, <1>4, <1>5
<1>12. p \notin DOMAIN Lending
  BY <1>4, <1>11
<1>13. \A q \in DOMAIN Lending : p + s <= q \/ q + Lending[q].size <= p
  <2> SUFFICES ASSUME NEW q \in DOMAIN Lending
               PROVE  p + s <= q \/ q + Lending[q].size <= p
    OBVIOUS
  <2>1. PICK b \in U : q = (b + HDR) - buf
    BY <1>4
  <2>2. Lending[q].size = hdr'[b].size /\ b \in Nat /\ b \in Blocks' /\ a \in Blocks'
    <3>1. Lending[q] = [size |-> hdr[b].size, asked |-> given[b + HDR]]
      BY <1>4, <2>1
    <3>2. b \in U /\ b \in V
      BY <1>3
    <3> QED BY <1>1, <1>3, <1>4, <3>1, <3>2
  <2>3. hdr'[b].size \in Nat /\ End(hdr', b) = b + HDR + hdr'[b].size
    BY <1>3, <2>2, LayoutFacts DEF End
  <2>4. (a < b => End(hdr', a) <= b) /\ (b < a => End(hdr', b) <= a)
    BY <1>3, <2>2 DEF Layout
  <2>5. a < b \/ b < a
    BY <1>5, <1>11, <2>2
  <2> HIDE DEF s
  <2> QED BY <1>4, <1>5, <1>9, <2>1, <2>2, <2>3, <2>4, <2>5
<1>14. Lending' = [q \in DOMAIN Lending \cup {p} |->
                     IF q = p THEN [size |-> s, asked |-> len] ELSE Lending[q]]
  <2>1. DOMAIN Lending' = DOMAIN Lending \cup {p}
    BY <1>1, <1>4, <1>8
  <2>2. Lending'[p] = [size |-> s, asked |-> len]
    <3>1. given'[a + HDR] = len
      BY <1>1 DEF With
    <3> QED BY <1>3, <1>8, <3>1
  <2>3. ASSUME NEW q \in DOMAIN Lending
        PROVE  q # p /\ Lending'[q] = Lending[q]
    <3>1. PICK b \in U : q = (b + HDR) - buf
      BY <1>4
    <3>2. b \in V /\ b + HDR # a + HDR /\ b + HDR \in DOMAIN given
      <4>1. DOMAIN given = {c + HDR : c \in U}
        BY DEF PoolInv, Held, U
      <4> QED BY <1>3, <1>4, <1>5, <1>11, <4>1
    <3>3. given'[b + HDR] = given[b + HDR]
      BY <1>1, <3>2 DEF With
    <3>4. Lending'[q] = [size |-> hdr'[b].size, asked |-> given'[b + HDR]]
      BY <1>8, <3>1, <3>2
    <3>5. Lending[q] = [size |-> hdr[b].size, asked |-> given[b + HDR]]
      BY <1>4, <3>1
    <3> QED BY <1>1, <1>11, <3>1, <3>3, <3>4, <3>5
  <2> HIDE DEF p, s
  <2> QED BY <1>8, <2>1, <2>2, <2>3
<1>15. (status' = "running") = (status = "running")
  BY <1>1
<1> HIDE DEF p, s
<1> QED BY <1>1, <1>10, <1>12, <1>13, <1>14, <1>15, UnfoldLend

\* free takes back a piece that was lent.
LEMMA TakesBack ==
    ASSUME PoolInv, PoolInv', NEW p, Takes(p)
    PROVE  \E o \in DOMAIN Lending : Lent!TakeBack(o)
<1> DEFINE U == Used(hdr, Blocks)
           V == Used(hdr', Blocks')
           buf == heap.buf
           a == p - HDR
           o == (a + HDR) - buf
<1>1. /\ V = U \ {a} /\ a \in U /\ p = a + HDR
      /\ \A b \in U \ {a} : hdr'[b].size = hdr[b].size
      /\ given' = [q \in DOMAIN given \ {p} |-> given[q]]
      /\ status' = "running" /\ status = "running"
  BY DEF Takes, Kept
<1>2. heap'.buf = buf
  BY DEF Takes, Kept, PoolInv
<1> HIDE DEF a
<1>3. /\ buf \in Nat /\ U \in SUBSET Nat /\ HDR \in Nat
      /\ Lending = [x \in DOMAIN Lending |-> Lending[x]]
      /\ DOMAIN Lending = {(b + HDR) - buf : b \in U}
      /\ \A b \in U : Lending[(b + HDR) - buf] = [size |-> hdr[b].size, asked |-> given[b + HDR]]
  BY InvLending DEF Pieces
<1>4. DOMAIN given' = {b + HDR : b \in V} /\ DOMAIN given = {b + HDR : b \in U}
  BY DEF PoolInv, Held
<1>5. Lending' = Lends(given', hdr', buf)
  BY <1>2 DEF Lending
<1> HIDE DEF U, V
<1>6. /\ Lending' = [x \in DOMAIN Lending' |-> Lending'[x]]
      /\ DOMAIN Lending' = {(b + HDR) - buf : b \in V}
      /\ \A b \in V : Lending'[(b + HDR) - buf] = [size |-> hdr'[b].size, asked |-> given'[b + HDR]]
  <2>1. V \in SUBSET Nat
    BY <1>1, <1>3
  <2>2. Pieces(Lending', given', hdr', buf, V)
    BY <1>3, <1>4, <1>5, <2>1, LendsFacts
  <2> QED BY <2>2 DEF Pieces
<1>7. o \in DOMAIN Lending
  BY <1>1, <1>3
<1>8. Lending' = [q \in DOMAIN Lending \ {o} |-> Lending[q]]
  <2>1. \A b \in U : (b + HDR) - buf = o <=> b = a
    BY <1>1, <1>3
  <2>2. DOMAIN Lending' = DOMAIN Lending \ {o}
    BY <1>1, <1>3, <1>6, <2>1
  <2>3. ASSUME NEW q \in DOMAIN Lending'
        PROVE  Lending'[q] = Lending[q]
    <3>1. PICK b \in V : q = (b + HDR) - buf
      BY <1>6
    <3>2. b \in U /\ b # a /\ b + HDR # a + HDR /\ b + HDR \in DOMAIN given
      BY <1>1, <1>3, <1>4, <3>1
    <3>3. given'[b + HDR] = given[b + HDR]
      BY <1>1, <3>2
    <3>4. Lending'[q] = [size |-> hdr'[b].size, asked |-> given'[b + HDR]]
      BY <1>6, <3>1
    <3>5. Lending[q] = [size |-> hdr[b].size, asked |-> given[b + HDR]]
      BY <1>3, <3>1, <3>2
    <3> QED BY <1>1, <3>2, <3>3, <3>4, <3>5
  <2> HIDE DEF o
  <2> QED BY <1>6, <2>2, <2>3
<1>9. (status' = "running") = (status = "running")
  BY <1>1
<1> HIDE DEF o
<1> QED BY <1>7, <1>8, <1>9, UnfoldTakeBack

\* malloc and free implement the abstract allocator: what a caller gets is his alone
\* until he gives it back, and as long as he asked for, unless the length is
\* among the last ALIGN - 1 of size_t and wraps (memory_buffer_alloc.c 243-498).
THEOREM PoolImplementsAllocator == Spec => IsAllocator
<1>1. Init => Lent!Init
  <2> SUFFICES ASSUME Init
               PROVE  Lent!Init
    OBVIOUS
  <2>1. given = <<>> /\ status = "running"
    BY DEF Init
  <2>2. Lending = <<>>
    <3>1. {p - heap.buf : p \in DOMAIN given} = {}
      BY <2>1
    <3>2. DOMAIN Lending = {} /\ Lending = [o \in DOMAIN Lending |-> Lending[o]]
      BY <3>1 DEF Lending, Lends
    <3> HIDE DEF Lending
    <3> QED BY <3>2
  <2> QED BY <2>1, <2>2, UnfoldInit
<1>2. PoolInv /\ PoolInv' /\ [Next]_vars => [Lent!Next]_(Lent!avars)
  <2> SUFFICES ASSUME PoolInv, PoolInv', [Next]_vars
               PROVE  Lent!Next \/ UNCHANGED Lent!avars
    OBVIOUS
  <2>1. CASE Next
    <3>1. CASE \E len \in Requests : \E a : Gives(a, len)
      <4>0. PICK len \in Requests : \E a : Gives(a, len)
        BY <3>1
      <4>1. PICK a : Gives(a, len)
        BY <4>0
      <4>2. Lent!Lend(len)
        BY <4>1, GivesLends
      <4>3. (status = "running") = TRUE
        BY <4>1 DEF Gives
      <4> QED BY <4>2, <4>3, UnfoldNext
    <3>2. CASE \E p \in Pointers : Takes(p)
      <4>1. PICK p \in Pointers : Takes(p)
        BY <3>2
      <4>2. \E o \in DOMAIN Lending : Lent!TakeBack(o)
        BY <4>1, TakesBack
      <4>3. (status = "running") = TRUE
        BY <4>1 DEF Takes
      <4> QED BY <4>2, <4>3, UnfoldNext
    <3>3. CASE \E p \in Pointers : Refuses(p) \/ Crashes(p)
      <4>1. /\ UNCHANGED <<heap, hdr, given>> /\ status = "running"
            /\ status' \in {"exited", "crashed"}
        BY <3>3 DEF Refuses, Crashes
      <4>2. Lending' = Lending
        BY <4>1 DEF Lending, Lends
      <4>3. (status' = "running") = FALSE /\ (status = "running") = TRUE
        BY <4>1
      <4>4. Lent!Stop
        BY <4>2, <4>3, UnfoldStop
      <4> QED BY <4>3, <4>4, UnfoldNext
    <3> QED BY <2>1, <3>1, <3>2, <3>3, Steps
  <2>2. CASE UNCHANGED vars
    <3>1. Lending' = Lending /\ (status' = "running") = (status = "running")
      BY <2>2 DEF vars, Lending, Lends
    <3> QED BY <3>1, UnfoldVars
  <2> QED BY <2>1, <2>2
<1> QED BY <1>1, <1>2, PoolInvariant, PTL DEF Spec, IsAllocator, Lent!Spec
=============================================================================
